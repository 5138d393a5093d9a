---------------------------- MODULE TerraformProofs ---------------------------
(***************************************************************************)
(* What Terraform runs leave behind, for any number of calls, workspaces,  *)
(* threads and faults.                                                     *)
(***************************************************************************)
EXTENDS TerraformRuns, TLAPS

USE TerraformAssumption

Ops == {"none", "init", "plan", "apply", "destroy"}

\* How far the process of a call is at each stage of its handler.
ProcAt(c) ==
    /\ proc[c] # "none" => job[c].ws \in Workspaces /\ stage[c] \notin {"idle", "refused"}
    /\ stage[c] \in {"idle", "refused"} <=> job[c].op = "none"
    /\ stage[c] \in {"log_started", "opening", "queued"} => proc[c] = "none"
    /\ stage[c] \in {"log_started", "opening", "streaming", "left", "cut"} => job[c].op = "plan"
    /\ stage[c] \in {"queued", "running", "log", "log_fail", "reply_ok", "reply_error"} =>
           job[c].op # "plan"
    /\ stage[c] = "running" => proc[c] \in Alive \cup Done
    /\ stage[c] = "log" => proc[c] \in Done
    /\ proc[c] \in Alive => stage[c] \in {"streaming", "running", "left", "cut"}
    /\ proc[c] = "killed" => stage[c] \in Failed

ProcInv == \A c \in Calls : ProcAt(c)

\* A workspace's lock is held by the one call that works on it, or was left.
LockInv ==
    /\ \A c \in Calls : proc[c] = "working" /\ job[c].op # "init" => lock[job[c].ws] = c
    /\ \A w \in Workspaces : \A c \in Calls : lock[w] = c =>
           job[c].ws = w /\ proc[c] \in {"working", "killed"}

\* Who touched a workspace last, and what it left there if its process succeeded.
InfraInv ==
    \A w \in Workspaces : \A c \in Calls : infra[w].by = c =>
        /\ job[c].ws = w /\ job[c].op \in {"apply", "destroy"} /\ proc[c] # "none"
        /\ proc[c] = "succeeded" => infra[w].state = Target(job[c].op)

\* The stages at which the verdict may be in the log.
Logged == {"reply_ok", "reply_error", "ok", "error", "lost"}

\* What is logged of an init, an apply or a destroy at each stage.
EntriesAt(c) ==
    job[c].op # "plan" =>
        /\ stage[c] \in {"reply_ok", "ok"} => audit[c] = {"OK"}
        /\ stage[c] \in {"reply_error", "error"} => audit[c] \subseteq {"FAIL"}
        /\ stage[c] = "lost" => audit[c] \in {{}, {"OK"}, {"FAIL"}}
        /\ stage[c] \notin Logged => audit[c] = {}
        /\ "OK" \in audit[c] => proc[c] = "succeeded"

EntriesInv == \A c \in Calls : EntriesAt(c)

TerraformInv == TypeOK /\ ProcInv /\ LockInv /\ InfraInv /\ EntriesInv

\* A step of one call has to be looked at for that call.
LEMMA OneCall ==
    ASSUME TerraformInv, NEW c \in Calls, ProcAt(c)', EntriesAt(c)',
           \A d \in Calls : d # c => /\ stage'[d] = stage[d] /\ job'[d] = job[d]
                                     /\ proc'[d] = proc[d] /\ audit'[d] = audit[d]
    PROVE  ProcInv' /\ EntriesInv'
<1> SUFFICES ASSUME NEW d \in Calls, d # c
             PROVE  ProcAt(d)' /\ EntriesAt(d)'
    BY DEF ProcInv, EntriesInv
<1>1. ProcAt(d) /\ EntriesAt(d)
      BY DEF TerraformInv, ProcInv, EntriesInv
<1> QED
    BY <1>1 DEF ProcAt, EntriesAt

LEMMA TerraformStart == Init => TerraformInv
<1> SUFFICES ASSUME Init PROVE TerraformInv
    OBVIOUS
<1>1. TypeOK
      BY DEF Init, TypeOK, Stages, InFlight, Answers
<1>2. ProcInv /\ EntriesInv
      BY DEF Init, ProcInv, ProcAt, EntriesInv, EntriesAt, Alive, Logged, Answers
<1>3. LockInv /\ InfraInv
      BY DEF Init, LockInv, InfraInv
<1> QED
    BY <1>1, <1>2, <1>3 DEF TerraformInv

-----------------------------------------------------------------------------
(* Terraform's steps *)

LEMMA TakesLockStep ==
    ASSUME TerraformInv, NEW c \in Calls, TakesLock(c)
    PROVE  TerraformInv'
<1>1. /\ proc[c] = "starting"
      /\ UNCHANGED <<stage, job, audit, dbFaults, out, infra, remote, crashes>>
      /\ \/ job[c].op = "init" /\ Becomes(c, "working") /\ UNCHANGED lock
         \/ /\ lock[job[c].ws] = None /\ lock' = [lock EXCEPT ![job[c].ws] = c]
            /\ Becomes(c, "working")
         \/ Becomes(c, "failed") /\ UNCHANGED lock
      BY DEF TakesLock, handler, Locks
<1>2. job[c].ws \in Workspaces /\ stage[c] \in {"streaming", "running", "left", "cut"}
      BY <1>1 DEF TerraformInv, ProcInv, ProcAt, Alive
<1>3. TypeOK'
  <2>1. proc' \in [Calls -> {"none", "killed"} \cup Alive \cup Done]
        BY <1>1 DEF TerraformInv, TypeOK, Becomes, Alive, Done
  <2>2. lock' \in [Workspaces -> Calls \cup {None}]
        BY <1>1, <1>2 DEF TerraformInv, TypeOK
  <2> QED
      BY <1>1, <2>1, <2>2 DEF TerraformInv, TypeOK
<1>4. ProcInv' /\ EntriesInv'
  <2>1. proc \in [Calls -> {"none", "killed"} \cup Alive \cup Done]
        BY DEF TerraformInv, TypeOK
  <2>2. \E p \in {"working", "failed"} : proc' = [proc EXCEPT ![c] = p]
        BY <1>1 DEF Becomes
  <2>3. ProcInv'
        BY <1>1, <1>2, <2>1, <2>2 DEF TerraformInv, ProcInv, ProcAt, Alive, Done
  <2>4. ASSUME NEW d \in Calls
        PROVE  EntriesAt(d)'
    <3>1. EntriesAt(d)
          BY DEF TerraformInv, EntriesInv
    <3>2. proc[d] = "succeeded" => proc'[d] = "succeeded"
          BY <1>1, <2>1, <2>2
    <3> QED
        BY <1>1, <3>1, <3>2 DEF EntriesAt
  <2> QED
      BY <2>3, <2>4 DEF EntriesInv
<1>5. LockInv'
  <2>1. lock \in [Workspaces -> Calls \cup {None}] /\ LockInv
        BY DEF TerraformInv, TypeOK
  <2>2. proc'[c] \in {"working", "failed"} /\ \A d \in Calls : d # c => proc'[d] = proc[d]
        BY <1>1 DEF TerraformInv, TypeOK, Becomes
  <2>3. CASE UNCHANGED lock /\ (job[c].op = "init" \/ proc'[c] = "failed")
        BY <1>1, <2>1, <2>2, <2>3 DEF LockInv
  <2>4. CASE lock[job[c].ws] = None /\ lock' = [lock EXCEPT ![job[c].ws] = c] /\ proc'[c] = "working"
    <3>1. ASSUME NEW d \in Calls, proc'[d] = "working", job[d].op # "init"
          PROVE  lock'[job[d].ws] = d
      <4>1. CASE d = c
            BY <1>2, <2>1, <2>4, <4>1
      <4>2. CASE d # c
        <5>1. lock[job[d].ws] = d
              BY <2>1, <2>2, <3>1, <4>2 DEF LockInv
        <5>2. job[d].ws # job[c].ws
              BY <2>4, <5>1
        <5> QED
            BY <2>1, <2>4, <5>1, <5>2
      <4> QED
          BY <4>1, <4>2
    <3>2. ASSUME NEW w \in Workspaces, NEW d \in Calls, lock'[w] = d
          PROVE  job[d].ws = w /\ proc'[d] \in {"working", "killed"}
          BY <1>1, <2>1, <2>2, <2>4, <3>2 DEF LockInv
    <3> QED
        BY <1>1, <3>1, <3>2 DEF LockInv
  <2> QED
      BY <1>1, <2>3, <2>4 DEF Becomes, TerraformInv, TypeOK
<1>6. InfraInv'
      BY <1>1, <1>2 DEF TerraformInv, TypeOK, InfraInv, Becomes
<1> QED
    BY <1>3, <1>4, <1>5, <1>6 DEF TerraformInv

LEMMA WorksStep ==
    ASSUME TerraformInv, NEW c \in Calls, Works(c)
    PROVE  TerraformInv'
<1>1. /\ proc[c] = "working" /\ job[c].op \in {"apply", "destroy"}
      /\ infra' = [infra EXCEPT ![job[c].ws] = [state |-> "partial", by |-> c]]
      /\ UNCHANGED <<stage, job, audit, dbFaults, proc, out, lock, remote, crashes>>
      BY DEF Works, handler
<1>2. TypeOK'
      BY <1>1 DEF TerraformInv, TypeOK
<1>3. ProcInv' /\ EntriesInv' /\ LockInv'
      BY <1>1 DEF TerraformInv, ProcInv, ProcAt, EntriesInv, EntriesAt, LockInv
<1>4. InfraInv'
      BY <1>1 DEF TerraformInv, TypeOK, ProcInv, ProcAt, InfraInv
<1> QED
    BY <1>2, <1>3, <1>4 DEF TerraformInv

LEMMA PrintsStep ==
    ASSUME TerraformInv, NEW c \in Calls, Prints(c)
    PROVE  TerraformInv'
<1>1. /\ out[c].left > 0 /\ out[c].pipe < PipeSize
      /\ out' = [out EXCEPT ![c] = [left |-> out[c].left - 1, pipe |-> out[c].pipe + 1]]
      /\ UNCHANGED <<stage, job, audit, dbFaults, proc, lock, infra, remote, crashes>>
      BY DEF Prints, handler
<1>2. out' \in [Calls -> [left : 0..MaxLines, pipe : 0..PipeSize]]
  <2>1. out[c].left - 1 \in 0..MaxLines /\ out[c].pipe + 1 \in 0..PipeSize
        BY <1>1 DEF TerraformInv, TypeOK
  <2> QED
      BY <1>1, <2>1 DEF TerraformInv, TypeOK
<1>3. TypeOK'
      BY <1>1, <1>2 DEF TerraformInv, TypeOK
<1>4. ProcInv' /\ EntriesInv' /\ LockInv' /\ InfraInv'
      BY <1>1 DEF TerraformInv, ProcInv, ProcAt, EntriesInv, EntriesAt, LockInv, InfraInv
<1> QED
    BY <1>3, <1>4 DEF TerraformInv

LEMMA ExitsStep ==
    ASSUME TerraformInv, NEW c \in Calls, Exits(c)
    PROVE  TerraformInv'
<1>1. /\ proc[c] = "working"
      /\ lock' = [w \in Workspaces |-> IF lock[w] = c THEN None ELSE lock[w]]
      /\ UNCHANGED <<stage, job, audit, dbFaults, out, remote, crashes>>
      /\ \/ /\ proc' = [proc EXCEPT ![c] = "succeeded"]
            /\ infra' = IF job[c].op \in {"apply", "destroy"}
                        THEN [infra EXCEPT ![job[c].ws] = [state |-> Target(job[c].op), by |-> c]]
                        ELSE infra
         \/ proc' = [proc EXCEPT ![c] = "failed"] /\ UNCHANGED infra
      BY DEF Exits, handler, Unlocked, Becomes
<1>2. job[c].ws \in Workspaces /\ stage[c] \in {"streaming", "running", "left", "cut"}
      BY <1>1 DEF TerraformInv, ProcInv, ProcAt, Alive
<1>3. TypeOK'
  <2>1. infra' \in [Workspaces -> [state : {"absent", "partial", "applied"},
                                   by : Calls \cup {None}]]
        BY <1>1, <1>2, SMTT(30) DEF TerraformInv, TypeOK, Target
  <2> QED
      BY <1>1, <2>1 DEF TerraformInv, TypeOK, Done
<1>4. ProcInv' /\ EntriesInv'
  <2>1. proc'[c] \in Done /\ \A d \in Calls : d # c => proc'[d] = proc[d]
        BY <1>1 DEF TerraformInv, TypeOK, Done
  <2>2. ProcAt(c) /\ EntriesAt(c)
        BY DEF TerraformInv, ProcInv, EntriesInv
  <2>3. ProcAt(c)' /\ EntriesAt(c)'
        BY <1>1, <1>2, <2>1, <2>2 DEF ProcAt, EntriesAt, Alive, Done, Failed, Logged
  <2> QED
      BY <1>1, <2>1, <2>3, OneCall
<1>5. LockInv'
  <2>1. /\ lock \in [Workspaces -> Calls \cup {None}] /\ LockInv
        /\ proc'[c] \in Done /\ \A d \in Calls : d # c => proc'[d] = proc[d]
        BY <1>1 DEF TerraformInv, TypeOK, Done
  <2>2. ASSUME NEW d \in Calls, proc'[d] = "working", job[d].op # "init"
        PROVE  lock'[job[d].ws] = d
    <3>1. d # c /\ proc[d] = "working"
          BY <2>1, <2>2 DEF Done
    <3>2. job[d].ws \in Workspaces
          BY <3>1 DEF TerraformInv, ProcInv, ProcAt
    <3>3. lock[job[d].ws] = d
          BY <2>1, <2>2, <3>1 DEF LockInv
    <3> QED
        BY <1>1, <3>1, <3>2, <3>3
  <2>3. ASSUME NEW w \in Workspaces, NEW d \in Calls, lock'[w] = d
        PROVE  job[d].ws = w /\ proc'[d] \in {"working", "killed"}
        BY <1>1, <2>1, <2>3 DEF LockInv
  <2> QED
      BY <1>1, <2>2, <2>3 DEF LockInv
<1>6. InfraInv'
  <2>1. /\ InfraInv /\ infra \in [Workspaces -> [state : {"absent", "partial", "applied"},
                                                by : Calls \cup {None}]]
        /\ proc \in [Calls -> {"none", "killed"} \cup Alive \cup Done]
        BY DEF TerraformInv, TypeOK
  <2>2. CASE /\ proc' = [proc EXCEPT ![c] = "succeeded"]
             /\ job[c].op \in {"apply", "destroy"}
             /\ infra' = [infra EXCEPT ![job[c].ws] = [state |-> Target(job[c].op), by |-> c]]
    <3> SUFFICES ASSUME NEW w \in Workspaces, NEW d \in Calls, infra'[w].by = d
                 PROVE  /\ job[d].ws = w /\ job[d].op \in {"apply", "destroy"} /\ proc'[d] # "none"
                        /\ proc'[d] = "succeeded" => infra'[w].state = Target(job[d].op)
        BY <1>1 DEF InfraInv, Target
    <3>1. CASE w = job[c].ws
          BY <1>2, <2>1, <2>2, <3>1
    <3>2. CASE w # job[c].ws
      <4>1. infra[w].by = d /\ infra'[w] = infra[w]
            BY <2>1, <2>2, <3>2
      <4>2. d # c
            BY <2>1, <3>2, <4>1 DEF InfraInv
      <4> QED
          BY <2>1, <2>2, <4>1, <4>2 DEF InfraInv
    <3> QED
        BY <3>1, <3>2
  <2>3. CASE /\ proc' = [proc EXCEPT ![c] = "succeeded"] /\ UNCHANGED infra
             /\ job[c].op \notin {"apply", "destroy"}
        BY <1>1, <2>1, <2>3 DEF InfraInv, Target
  <2>4. CASE proc' = [proc EXCEPT ![c] = "failed"] /\ UNCHANGED infra
        BY <1>1, <2>1, <2>4 DEF InfraInv, Target
  <2> QED
      BY <1>1, <2>2, <2>3, <2>4
<1> QED
    BY <1>3, <1>4, <1>5, <1>6 DEF TerraformInv
-----------------------------------------------------------------------------
(* The handlers' steps *)

\* A process is killed only when its handler gives up, or with the container.
LEMMA KilledKeeps ==
    ASSUME TerraformInv, NEW S \in SUBSET Calls, Killed(S), \A c \in S : proc[c] \in Alive,
           UNCHANGED <<job, infra>>
    PROVE  /\ proc' \in [Calls -> {"none", "killed"} \cup Alive \cup Done]
           /\ lock' \in [Workspaces -> Calls \cup {None}]
           /\ LockInv' /\ InfraInv'
<1>1. /\ proc' = [c \in Calls |-> IF c \in S THEN "killed" ELSE proc[c]]
      /\ lock' = [w \in Workspaces |->
                      IF lock[w] \in {c \in S : job[c].ws \notin remote} THEN None ELSE lock[w]]
      BY DEF Killed, Unlocked
<1>2. /\ lock \in [Workspaces -> Calls \cup {None}] /\ LockInv /\ InfraInv
      /\ proc \in [Calls -> {"none", "killed"} \cup Alive \cup Done]
      BY DEF TerraformInv, TypeOK
<1>3. ASSUME NEW d \in Calls, proc'[d] = "working", job[d].op # "init"
      PROVE  lock'[job[d].ws] = d
  <2>1. d \notin S /\ proc[d] = "working"
        BY <1>1, <1>3
  <2>2. job[d].ws \in Workspaces /\ lock[job[d].ws] = d
        BY <1>2, <1>3, <2>1 DEF LockInv, TerraformInv, ProcInv, ProcAt
  <2> QED
      BY <1>1, <2>1, <2>2
<1>4. ASSUME NEW w \in Workspaces, NEW d \in Calls, lock'[w] = d
      PROVE  job[d].ws = w /\ proc'[d] \in {"working", "killed"}
      BY <1>1, <1>2, <1>4 DEF LockInv
<1>5. LockInv'
      BY <1>3, <1>4 DEF LockInv
<1>6. InfraInv'
      BY <1>1, <1>2 DEF InfraInv, Target
<1> QED
    BY <1>1, <1>2, <1>5, <1>6

LEMMA ReceiveStep ==
    ASSUME TerraformInv, NEW c \in Calls, Receive(c)
    PROVE  TerraformInv'
<1>1. /\ stage[c] = "idle"
      /\ UNCHANGED <<proc, out, lock, infra, remote, audit, dbFaults, crashes>>
      BY DEF Receive, terraform
<1>2. proc[c] = "none" /\ job[c].op = "none" /\ audit[c] = {}
      BY <1>1 DEF TerraformInv, TypeOK, ProcInv, ProcAt, EntriesInv, EntriesAt, Logged, Answers
<1>3. /\ stage \in [Calls -> Stages]
      /\ job \in [Calls -> [op : Ops, ws : Workspaces \cup {None}]]
      BY DEF TerraformInv, TypeOK, Ops
<1>4. CASE stage' = [stage EXCEPT ![c] = "refused"] /\ UNCHANGED job
  <2>1. TypeOK'
        BY <1>1, <1>4 DEF TerraformInv, TypeOK, Stages
  <2>2. ProcAt(c)' /\ EntriesAt(c)'
        BY <1>1, <1>2, <1>3, <1>4 DEF ProcAt, EntriesAt, Alive, Done, Failed, Logged, Answers
  <2>3. ProcInv' /\ EntriesInv'
        BY <1>1, <1>3, <1>4, <2>2, OneCall
  <2>4. LockInv' /\ InfraInv'
        BY <1>1, <1>4 DEF TerraformInv, LockInv, InfraInv, Target
  <2> QED
      BY <2>1, <2>3, <2>4 DEF TerraformInv
<1>5. ASSUME NEW op \in Ops \ {"none"}, NEW w \in Workspaces \cup {None},
             job' = [job EXCEPT ![c] = [op |-> op, ws |-> w]],
             stage' = [stage EXCEPT ![c] = IF op = "plan" THEN "log_started" ELSE "queued"]
      PROVE  TerraformInv'
  <2>1. /\ job'[c] = [op |-> op, ws |-> w]
        /\ stage'[c] = IF op = "plan" THEN "log_started" ELSE "queued"
        /\ \A d \in Calls : d # c => job'[d] = job[d] /\ stage'[d] = stage[d]
        BY <1>3, <1>5
  <2>2. job' \in [Calls -> [op : Ops, ws : Workspaces \cup {None}]]
        BY <1>3, <1>5
  <2>3. stage' \in [Calls -> Stages]
        BY <1>3, <1>5 DEF Stages, InFlight
  <2>4. TypeOK'
        BY <1>1, <2>2, <2>3 DEF TerraformInv, TypeOK, Ops
  <2>5. ProcAt(c)' /\ EntriesAt(c)'
        BY <1>1, <1>2, <2>1 DEF ProcAt, EntriesAt, Alive, Done, Failed, Logged, Answers, Ops
  <2>6. ProcInv' /\ EntriesInv'
        BY <1>1, <2>1, <2>5, OneCall
  <2>7. LockInv' /\ InfraInv'
        BY <1>1, <1>2, <2>1 DEF TerraformInv, LockInv, InfraInv, Target
  <2> QED
      BY <2>4, <2>6, <2>7 DEF TerraformInv
<1> QED
    BY <1>4, <1>5 DEF Receive, Goto, Ops

\* The stage of a call goes on, and neither its process nor anything else does.
LEMMA StageOnly ==
    ASSUME TerraformInv, NEW c \in Calls, NEW s \in Stages,
           stage' = [stage EXCEPT ![c] = s],
           UNCHANGED <<job, proc, out, lock, infra, remote, crashes>>,
           audit' \in [Calls -> SUBSET {"STARTED", "OK", "FAIL"}],
           \A d \in Calls : d # c => audit'[d] = audit[d],
           dbFaults' \in 0..MaxDbFaults,
           stage'[c] = s => ProcAt(c)' /\ EntriesAt(c)'
    PROVE  TerraformInv'
<1>1. stage \in [Calls -> Stages]
      BY DEF TerraformInv, TypeOK
<1>2. stage' \in [Calls -> Stages] /\ stage'[c] = s
      /\ \A d \in Calls : d # c => stage'[d] = stage[d]
      BY <1>1
<1>3. TypeOK'
      BY <1>2 DEF TerraformInv, TypeOK
<1>4. ProcInv' /\ EntriesInv'
      BY <1>2, OneCall
<1>5. LockInv' /\ InfraInv'
      BY DEF TerraformInv, LockInv, InfraInv, Target
<1> QED
    BY <1>3, <1>4, <1>5 DEF TerraformInv

\* log_activity, wherever a handler calls it.
LEMMA LogsStep ==
    ASSUME TerraformInv, NEW c \in Calls, NEW e \in {"STARTED", "OK", "FAIL"},
           NEW n \in Stages, NEW r \in Stages, Logs(c, e, n, r),
           /\ stage'[c] = n /\ audit'[c] = audit[c] \cup {e} /\ UNCHANGED <<job, proc>>
           => ProcAt(c)' /\ EntriesAt(c)',
           stage'[c] = r /\ UNCHANGED <<audit, job, proc>> => ProcAt(c)' /\ EntriesAt(c)'
    PROVE  TerraformInv'
<1>1. UNCHANGED <<job, proc, out, lock, infra, remote, crashes>>
      BY DEF Logs, terraform
<1>2. audit \in [Calls -> SUBSET {"STARTED", "OK", "FAIL"}] /\ dbFaults \in 0..MaxDbFaults
      BY DEF TerraformInv, TypeOK
<1>3. CASE /\ audit' = [audit EXCEPT ![c] = @ \cup {e}]
           /\ stage' = [stage EXCEPT ![c] = n] /\ UNCHANGED dbFaults
  <2>1. /\ audit' \in [Calls -> SUBSET {"STARTED", "OK", "FAIL"}]
        /\ audit'[c] = audit[c] \cup {e}
        /\ \A d \in Calls : d # c => audit'[d] = audit[d]
        BY <1>2, <1>3
  <2> QED
      BY <1>1, <1>2, <1>3, <2>1, StageOnly
<1>4. CASE /\ dbFaults < MaxDbFaults /\ dbFaults' = dbFaults + 1
           /\ UNCHANGED audit /\ stage' = [stage EXCEPT ![c] = r]
  <2>1. dbFaults' \in 0..MaxDbFaults
        BY <1>2, <1>4
  <2> QED
      BY <1>1, <1>2, <1>4, <2>1, StageOnly
<1> QED
    BY <1>3, <1>4 DEF Logs, Goto

LEMMA LogStartedStep ==
    ASSUME TerraformInv, NEW c \in Calls, LogStarted(c)
    PROVE  TerraformInv'
<1>1. stage[c] = "log_started" /\ Logs(c, "STARTED", "opening", "error")
      BY DEF LogStarted
<1>2. proc[c] = "none" /\ job[c].op = "plan"
      BY <1>1 DEF TerraformInv, ProcInv, ProcAt
<1>3. stage'[c] \in {"opening", "error"} /\ UNCHANGED <<job, proc>> => ProcAt(c)' /\ EntriesAt(c)'
      BY <1>2 DEF ProcAt, EntriesAt, Alive, Done, Failed, Logged
<1> QED
    BY <1>1, <1>3, LogsStep DEF Stages, InFlight, Answers

LEMMA LogStep ==
    ASSUME TerraformInv, NEW c \in Calls, Log(c)
    PROVE  TerraformInv'
<1>1. /\ stage[c] = "log"
      /\ \/ proc[c] = "succeeded" /\ Logs(c, "OK", "reply_ok", "log_fail")
         \/ proc[c] = "failed" /\ Logs(c, "FAIL", "reply_error", "log_fail")
      BY DEF Log
<1>2. /\ job[c].op \notin {"plan", "none"} /\ audit[c] = {}
      /\ proc[c] # "none" => job[c].ws \in Workspaces
      BY <1>1 DEF TerraformInv, ProcInv, ProcAt, EntriesInv, EntriesAt, Logged, Answers
<1>3. proc[c] \in Done /\ stage'[c] = "log_fail" /\ UNCHANGED <<audit, job, proc>>
      => ProcAt(c)' /\ EntriesAt(c)'
      BY <1>2 DEF ProcAt, EntriesAt, Alive, Done, Failed, Logged, Answers
<1>4. CASE proc[c] = "succeeded" /\ Logs(c, "OK", "reply_ok", "log_fail")
  <2>1. stage'[c] = "reply_ok" /\ audit'[c] = audit[c] \cup {"OK"} /\ UNCHANGED <<job, proc>>
        => ProcAt(c)' /\ EntriesAt(c)'
        BY <1>2, <1>4 DEF ProcAt, EntriesAt, Alive, Done, Failed, Logged, Answers
  <2> QED
      BY <1>3, <1>4, <2>1, LogsStep DEF Stages, InFlight, Answers, Done
<1>5. CASE proc[c] = "failed" /\ Logs(c, "FAIL", "reply_error", "log_fail")
  <2>1. stage'[c] = "reply_error" /\ audit'[c] = audit[c] \cup {"FAIL"} /\ UNCHANGED <<job, proc>>
        => ProcAt(c)' /\ EntriesAt(c)'
        BY <1>2, <1>5 DEF ProcAt, EntriesAt, Alive, Done, Failed, Logged, Answers
  <2> QED
      BY <1>3, <1>5, <2>1, LogsStep DEF Stages, InFlight, Answers, Done
<1> QED
    BY <1>1, <1>4, <1>5

LEMMA LogFailStep ==
    ASSUME TerraformInv, NEW c \in Calls, LogFail(c)
    PROVE  TerraformInv'
<1>1. stage[c] = "log_fail" /\ Logs(c, "FAIL", "reply_error", "reply_error")
      BY DEF LogFail
<1>2. /\ job[c].op \notin {"plan", "none"} /\ audit[c] = {} /\ proc[c] \notin Alive
      /\ proc[c] # "none" => job[c].ws \in Workspaces
      BY <1>1 DEF TerraformInv, ProcInv, ProcAt, EntriesInv, EntriesAt, Logged, Answers
<1>3. stage'[c] = "reply_error" /\ audit'[c] \subseteq {"FAIL"} /\ UNCHANGED <<job, proc>>
      => ProcAt(c)' /\ EntriesAt(c)'
      BY <1>2 DEF ProcAt, EntriesAt, Alive, Failed, Logged
<1> QED
    BY <1>1, <1>2, <1>3, LogsStep DEF Stages, InFlight, Answers

LEMMA AnswerStep ==
    ASSUME TerraformInv, NEW c \in Calls, Answer(c)
    PROVE  TerraformInv'
<1>1. /\ \/ stage[c] = "reply_ok" /\ stage' = [stage EXCEPT ![c] = "ok"]
         \/ stage[c] = "reply_error" /\ stage' = [stage EXCEPT ![c] = "error"]
      /\ UNCHANGED <<job, audit, dbFaults, proc, out, lock, infra, remote, crashes>>
      BY DEF Answer, Goto, terraform
<1>2. ProcAt(c) /\ EntriesAt(c)
      BY DEF TerraformInv, ProcInv, EntriesInv
<1>3. audit \in [Calls -> SUBSET {"STARTED", "OK", "FAIL"}] /\ dbFaults \in 0..MaxDbFaults
      BY DEF TerraformInv, TypeOK
<1>4. CASE stage[c] = "reply_ok" /\ stage' = [stage EXCEPT ![c] = "ok"]
  <2>1. stage'[c] = "ok" => ProcAt(c)' /\ EntriesAt(c)'
        BY <1>1, <1>2, <1>4 DEF ProcAt, EntriesAt, Alive, Failed, Logged
  <2> QED
      BY <1>1, <1>3, <1>4, <2>1, StageOnly DEF Stages, Answers
<1>5. CASE stage[c] = "reply_error" /\ stage' = [stage EXCEPT ![c] = "error"]
  <2>1. stage'[c] = "error" => ProcAt(c)' /\ EntriesAt(c)'
        BY <1>1, <1>2, <1>5 DEF ProcAt, EntriesAt, Alive, Failed, Logged
  <2> QED
      BY <1>1, <1>3, <1>5, <2>1, StageOnly DEF Stages, Answers
<1> QED
    BY <1>1, <1>4, <1>5

LEMMA ReturnsStep ==
    ASSUME TerraformInv, NEW c \in Calls, Returns(c)
    PROVE  TerraformInv'
<1>1. /\ stage[c] = "running" /\ proc[c] \in Done /\ stage' = [stage EXCEPT ![c] = "log"]
      /\ UNCHANGED <<job, audit, dbFaults, proc, out, lock, infra, remote, crashes>>
      BY DEF Returns, Goto, terraform
<1>2. /\ job[c].op \notin {"plan", "none"} /\ audit[c] = {} /\ job[c].ws \in Workspaces
      BY <1>1 DEF TerraformInv, ProcInv, ProcAt, EntriesInv, EntriesAt, Logged, Answers, Done
<1>3. stage'[c] = "log" => ProcAt(c)' /\ EntriesAt(c)'
      BY <1>1, <1>2 DEF ProcAt, EntriesAt, Alive, Done, Failed, Logged
<1>4. audit \in [Calls -> SUBSET {"STARTED", "OK", "FAIL"}] /\ dbFaults \in 0..MaxDbFaults
      BY DEF TerraformInv, TypeOK
<1> QED
    BY <1>1, <1>3, <1>4, StageOnly DEF Stages, InFlight

LEMMA LeaveStep ==
    ASSUME TerraformInv, NEW c \in Calls, Leave(c)
    PROVE  TerraformInv'
<1>1. /\ stage[c] = "streaming" /\ stage' = [stage EXCEPT ![c] = "left"]
      /\ UNCHANGED <<job, audit, dbFaults, proc, out, lock, infra, remote, crashes>>
      BY DEF Leave, Goto, terraform
<1>2. /\ job[c].op = "plan" /\ proc[c] # "none" => job[c].ws \in Workspaces
      /\ job[c].op = "plan"
      BY <1>1 DEF TerraformInv, ProcInv, ProcAt
<1>3. stage'[c] = "left" => ProcAt(c)' /\ EntriesAt(c)'
      BY <1>1, <1>2 DEF ProcAt, EntriesAt, Alive, Done, Failed, Logged
<1>4. audit \in [Calls -> SUBSET {"STARTED", "OK", "FAIL"}] /\ dbFaults \in 0..MaxDbFaults
      BY DEF TerraformInv, TypeOK
<1> QED
    BY <1>1, <1>3, <1>4, StageOnly DEF Stages, Answers

LEMMA ReaderFailsStep ==
    ASSUME TerraformInv, NEW c \in Calls, ReaderFails(c)
    PROVE  TerraformInv'
<1>1. /\ stage[c] = "streaming" /\ stage' = [stage EXCEPT ![c] = "cut"]
      /\ out[c].pipe > 0 /\ out' = [out EXCEPT ![c].pipe = @ - 1]
      /\ UNCHANGED <<job, audit, dbFaults, proc, lock, infra, remote, crashes>>
      BY DEF ReaderFails, Goto
<1>2. /\ stage \in [Calls -> Stages]
      /\ proc[c] # "none" => job[c].ws \in Workspaces
      /\ job[c].op = "plan" /\ proc[c] # "killed"
      BY <1>1 DEF TerraformInv, TypeOK, ProcInv, ProcAt, Failed
<1>3. out' \in [Calls -> [left : 0..MaxLines, pipe : 0..PipeSize]]
  <2>1. out \in [Calls -> [left : 0..MaxLines, pipe : 0..PipeSize]]
        BY DEF TerraformInv, TypeOK
  <2>2. out[c].left \in 0..MaxLines /\ out[c].pipe - 1 \in 0..PipeSize
        BY <1>1, <2>1, TerraformAssumption DEF TerraformAssumption
  <2>3. [out[c] EXCEPT !.pipe = @ - 1] \in [left : 0..MaxLines, pipe : 0..PipeSize]
        BY <2>1, <2>2
  <2>4. out' = [out EXCEPT ![c] = [out[c] EXCEPT !.pipe = @ - 1]]
        BY <1>1, <2>1
  <2> QED
      BY <2>1, <2>3, <2>4
<1>4. TypeOK'
  <2>1. stage' \in [Calls -> Stages]
        BY <1>1, <1>2 DEF Stages, Answers
  <2> QED
      BY <1>1, <1>3, <2>1 DEF TerraformInv, TypeOK
<1>5. stage'[c] = "cut" /\ \A d \in Calls : d # c => stage'[d] = stage[d]
      BY <1>1, <1>2
<1>6. ProcAt(c)' /\ EntriesAt(c)'
      BY <1>1, <1>2, <1>5 DEF ProcAt, EntriesAt, Alive, Done, Failed, Logged
<1>7. ProcInv' /\ EntriesInv'
      BY <1>1, <1>5, <1>6, OneCall
<1>8. LockInv' /\ InfraInv'
      BY <1>1 DEF TerraformInv, LockInv, InfraInv
<1> QED
    BY <1>4, <1>7, <1>8 DEF TerraformInv

LEMMA StreamStep ==
    ASSUME TerraformInv, NEW c \in Calls, Stream(c)
    PROVE  TerraformInv'
<1>1. stage[c] = "streaming" /\ UNCHANGED <<job, audit, dbFaults, proc, lock, infra, remote, crashes>>
      BY DEF Stream
<1>2. CASE /\ out[c].pipe > 0 /\ out' = [out EXCEPT ![c].pipe = @ - 1]
           /\ UNCHANGED stage
  <2>1. out' \in [Calls -> [left : 0..MaxLines, pipe : 0..PipeSize]]
    <3>1. out[c].pipe - 1 \in 0..PipeSize
          BY <1>2 DEF TerraformInv, TypeOK
    <3> QED
        BY <1>2, <3>1 DEF TerraformInv, TypeOK
  <2>2. TypeOK'
        BY <1>1, <1>2, <2>1 DEF TerraformInv, TypeOK
  <2>3. ProcInv' /\ EntriesInv' /\ LockInv' /\ InfraInv'
        BY <1>1, <1>2 DEF TerraformInv, ProcInv, ProcAt, EntriesInv, EntriesAt, LockInv, InfraInv
  <2> QED
      BY <2>2, <2>3 DEF TerraformInv
<1>3. CASE /\ proc[c] \in Done /\ stage' = [stage EXCEPT ![c] = "ok"]
           /\ UNCHANGED out
  <2>1. job[c].op = "plan" /\ job[c].ws \in Workspaces
        BY <1>1, <1>3 DEF TerraformInv, ProcInv, ProcAt, Done
  <2>2. stage'[c] = "ok" => ProcAt(c)' /\ EntriesAt(c)'
        BY <1>1, <1>3, <2>1 DEF ProcAt, EntriesAt, Alive, Done, Failed, Logged
  <2>3. audit \in [Calls -> SUBSET {"STARTED", "OK", "FAIL"}] /\ dbFaults \in 0..MaxDbFaults
        BY DEF TerraformInv, TypeOK
  <2> QED
      BY <1>1, <1>3, <2>2, <2>3, StageOnly DEF Stages, Answers
<1> QED
    BY <1>2, <1>3 DEF Stream, Goto

\* A handler starts its process.
LEMMA StartsStep ==
    ASSUME TerraformInv, NEW c \in Calls, NEW s \in {"streaming", "running"},
           stage[c] \in {"opening", "queued"}, job[c].ws # None,
           (s = "streaming") <=> (job[c].op = "plan"),
           stage' = [stage EXCEPT ![c] = s],
           proc' = [proc EXCEPT ![c] = "starting"],
           out' \in [Calls -> [left : 0..MaxLines, pipe : 0..PipeSize]],
           UNCHANGED <<job, audit, dbFaults, lock, infra, remote, crashes>>
    PROVE  TerraformInv'
<1>1. /\ proc[c] = "none" /\ job[c].op # "none"
      /\ job[c].op # "plan" => audit[c] = {}
      BY DEF TerraformInv, ProcInv, ProcAt, EntriesInv, EntriesAt, Logged, Answers
<1>2. job[c].ws \in Workspaces
      BY DEF TerraformInv, TypeOK
<1>3. /\ stage \in [Calls -> Stages] /\ proc \in [Calls -> {"none", "killed"} \cup Alive \cup Done]
      BY DEF TerraformInv, TypeOK
<1>4. /\ stage'[c] = s /\ proc'[c] = "starting"
      /\ \A d \in Calls : d # c => stage'[d] = stage[d] /\ proc'[d] = proc[d]
      BY <1>3
<1>5. TypeOK'
  <2>1. stage' \in [Calls -> Stages]
        BY <1>3 DEF Stages, InFlight
  <2>2. proc' \in [Calls -> {"none", "killed"} \cup Alive \cup Done]
        BY <1>3 DEF Alive
  <2> QED
      BY <2>1, <2>2 DEF TerraformInv, TypeOK
<1>6. ProcAt(c)' /\ EntriesAt(c)'
      BY <1>1, <1>2, <1>4 DEF ProcAt, EntriesAt, Alive, Done, Failed, Logged, Answers
<1>7. ProcInv' /\ EntriesInv'
      BY <1>4, <1>6, OneCall
<1>8. LockInv' /\ InfraInv'
      BY <1>1, <1>4 DEF TerraformInv, LockInv, InfraInv, Target
<1> QED
    BY <1>5, <1>7, <1>8 DEF TerraformInv

LEMMA OpenPlanStep ==
    ASSUME TerraformInv, NEW c \in Calls, OpenPlan(c)
    PROVE  TerraformInv'
<1>1. stage[c] = "opening" /\ UNCHANGED <<job, audit, dbFaults, lock, infra, remote, crashes>>
      BY DEF OpenPlan
<1>2. proc[c] = "none" /\ job[c].op = "plan"
      BY <1>1 DEF TerraformInv, ProcInv, ProcAt
<1>3. CASE stage' = [stage EXCEPT ![c] = "error"] /\ UNCHANGED <<proc, out>>
  <2>1. stage'[c] = "error" => ProcAt(c)' /\ EntriesAt(c)'
        BY <1>1, <1>2, <1>3 DEF ProcAt, EntriesAt, Alive, Failed, Logged
  <2>2. audit \in [Calls -> SUBSET {"STARTED", "OK", "FAIL"}] /\ dbFaults \in 0..MaxDbFaults
        BY DEF TerraformInv, TypeOK
  <2> QED
      BY <1>1, <1>3, <2>1, <2>2, StageOnly DEF Stages, Answers
<1>4. ASSUME NEW n \in 0..MaxLines, job[c].ws # None, stage' = [stage EXCEPT ![c] = "streaming"],
             proc' = [proc EXCEPT ![c] = "starting"], out' = [out EXCEPT ![c].left = n]
      PROVE  TerraformInv'
  <2>1. out' \in [Calls -> [left : 0..MaxLines, pipe : 0..PipeSize]]
    <3>1. out \in [Calls -> [left : 0..MaxLines, pipe : 0..PipeSize]]
          BY DEF TerraformInv, TypeOK
    <3>2. /\ out[c] \in [left : 0..MaxLines, pipe : 0..PipeSize]
          /\ out' = [out EXCEPT ![c] = [out[c] EXCEPT !.left = n]]
          BY <1>4, <3>1
    <3>3. [out[c] EXCEPT !.left = n] \in [left : 0..MaxLines, pipe : 0..PipeSize]
          BY <1>4, <3>2
    <3> QED
        BY <3>1, <3>2, <3>3
  <2> QED
      BY <1>1, <1>2, <1>4, <2>1, StartsStep
<1> QED
    BY <1>3, <1>4 DEF OpenPlan, Goto, Becomes

LEMMA StartThreadStep ==
    ASSUME TerraformInv, NEW c \in Calls, StartThread(c)
    PROVE  TerraformInv'
<1>1. /\ stage[c] = "queued"
      /\ UNCHANGED <<job, audit, dbFaults, out, lock, infra, remote, crashes>>
      /\ \/ stage' = [stage EXCEPT ![c] = "log_fail"] /\ UNCHANGED proc
         \/ /\ job[c].ws # None /\ stage' = [stage EXCEPT ![c] = "running"]
            /\ proc' = [proc EXCEPT ![c] = "starting"]
      BY DEF StartThread, Goto, Becomes
<1>2. proc[c] = "none" /\ job[c].op \notin {"plan", "none"} /\ audit[c] = {}
      BY <1>1 DEF TerraformInv, ProcInv, ProcAt, EntriesInv, EntriesAt, Logged, Answers
<1>3. /\ audit \in [Calls -> SUBSET {"STARTED", "OK", "FAIL"}] /\ dbFaults \in 0..MaxDbFaults
      /\ out \in [Calls -> [left : 0..MaxLines, pipe : 0..PipeSize]]
      BY DEF TerraformInv, TypeOK
<1>4. CASE stage' = [stage EXCEPT ![c] = "log_fail"] /\ UNCHANGED proc
  <2>1. stage'[c] = "log_fail" => ProcAt(c)' /\ EntriesAt(c)'
        BY <1>1, <1>2, <1>4 DEF ProcAt, EntriesAt, Alive, Failed, Logged, Answers
  <2> QED
      BY <1>1, <1>3, <1>4, <2>1, StageOnly DEF Stages, InFlight
<1>5. CASE /\ job[c].ws # None /\ stage' = [stage EXCEPT ![c] = "running"]
           /\ proc' = [proc EXCEPT ![c] = "starting"]
      BY <1>1, <1>2, <1>3, <1>5, StartsStep
<1> QED
    BY <1>1, <1>4, <1>5

LEMMA TimesOutStep ==
    ASSUME TerraformInv, NEW c \in Calls, TimesOut(c)
    PROVE  TerraformInv'
<1>1. /\ stage[c] = "running" /\ proc[c] \in Alive /\ Killed({c})
      /\ stage' = [stage EXCEPT ![c] = "log_fail"]
      /\ UNCHANGED <<job, audit, dbFaults, out, infra, remote, crashes>>
      BY DEF TimesOut, Goto
<1>2. /\ proc' \in [Calls -> {"none", "killed"} \cup Alive \cup Done]
      /\ lock' \in [Workspaces -> Calls \cup {None}] /\ LockInv' /\ InfraInv'
      BY <1>1, KilledKeeps
<1>3. /\ stage \in [Calls -> Stages]
      /\ job[c].op \notin {"plan", "none"} /\ audit[c] = {} /\ job[c].ws \in Workspaces
      BY <1>1 DEF TerraformInv, TypeOK, ProcInv, ProcAt, EntriesInv, EntriesAt, Logged, Answers, Alive
<1>4. /\ stage'[c] = "log_fail" /\ proc'[c] = "killed"
      /\ \A d \in Calls : d # c => stage'[d] = stage[d] /\ proc'[d] = proc[d]
      BY <1>1, <1>3 DEF Killed
<1>5. TypeOK'
  <2>1. stage' \in [Calls -> Stages]
        BY <1>1, <1>3 DEF Stages, InFlight
  <2> QED
      BY <1>1, <1>2, <2>1 DEF TerraformInv, TypeOK
<1>6. ProcAt(c)' /\ EntriesAt(c)'
      BY <1>1, <1>3, <1>4 DEF ProcAt, EntriesAt, Alive, Done, Failed, Logged, Answers
<1>7. ProcInv' /\ EntriesInv'
      BY <1>1, <1>4, <1>6, OneCall
<1> QED
    BY <1>2, <1>5, <1>7 DEF TerraformInv

LEMMA CrashStep ==
    ASSUME TerraformInv, Crash
    PROVE  TerraformInv'
<1> DEFINE alive == {c \in Calls : proc[c] \in Alive}
<1>1. /\ crashes < MaxCrashes /\ crashes' = crashes + 1
      /\ stage' = [c \in Calls |-> IF stage[c] \in InFlight THEN "lost" ELSE stage[c]]
      /\ Killed(alive)
      /\ UNCHANGED <<job, audit, dbFaults, out, infra, remote>>
      BY DEF Crash
<1>2. /\ proc' \in [Calls -> {"none", "killed"} \cup Alive \cup Done]
      /\ lock' \in [Workspaces -> Calls \cup {None}] /\ LockInv' /\ InfraInv'
      BY <1>1, KilledKeeps
<1>3. TypeOK'
  <2>1. stage' \in [Calls -> Stages] /\ crashes' \in 0..MaxCrashes
        BY <1>1 DEF TerraformInv, TypeOK, Stages
  <2> QED
      BY <1>1, <1>2, <2>1 DEF TerraformInv, TypeOK
<1>4. ASSUME NEW c \in Calls
      PROVE  ProcAt(c)' /\ EntriesAt(c)'
  <2>1. ProcAt(c) /\ EntriesAt(c)
        BY DEF TerraformInv, ProcInv, EntriesInv
  <2>2. /\ stage'[c] = IF stage[c] \in InFlight THEN "lost" ELSE stage[c]
        /\ proc'[c] = IF proc[c] \in Alive THEN "killed" ELSE proc[c]
        BY <1>1 DEF Killed
  <2> HIDE DEF alive
  <2> QED
      BY <1>1, <2>1, <2>2 DEF ProcAt, EntriesAt, Alive, Done, InFlight, Failed, Logged
<1> QED
    BY <1>2, <1>3, <1>4 DEF TerraformInv, ProcInv, EntriesInv

LEMMA TerraformStep == TerraformInv /\ [Next]_vars => TerraformInv'
<1> SUFFICES ASSUME TerraformInv, [Next]_vars PROVE TerraformInv'
    OBVIOUS
<1>1. CASE \E c \in Calls : Receive(c) \/ Leave(c) \/ ReaderFails(c) \/ Work(c)
  <2> PICK c \in Calls : Receive(c) \/ Leave(c) \/ ReaderFails(c) \/ Work(c)
      BY <1>1
  <2>1. CASE Receive(c) \/ Leave(c) \/ ReaderFails(c)
        BY <2>1, ReceiveStep, LeaveStep, ReaderFailsStep
  <2>2. CASE TakesLock(c) \/ Works(c) \/ Prints(c) \/ Exits(c)
        BY <2>2, TakesLockStep, WorksStep, PrintsStep, ExitsStep
  <2>3. CASE LogStarted(c) \/ OpenPlan(c) \/ Stream(c)
        BY <2>3, LogStartedStep, OpenPlanStep, StreamStep
  <2>4. CASE StartThread(c) \/ Returns(c) \/ TimesOut(c)
        BY <2>4, StartThreadStep, ReturnsStep, TimesOutStep
  <2>5. CASE Log(c) \/ LogFail(c) \/ Answer(c)
        BY <2>5, LogStep, LogFailStep, AnswerStep
  <2> QED
      BY <2>1, <2>2, <2>3, <2>4, <2>5 DEF Work
<1>2. CASE Crash
      BY <1>2, CrashStep
<1>3. CASE UNCHANGED vars
  <2>1. UNCHANGED <<stage, job, audit, dbFaults, proc, out, lock, infra, remote, crashes>>
        BY <1>3 DEF vars, handler, terraform
  <2>2. TypeOK'
        BY <2>1 DEF TerraformInv, TypeOK
  <2>3. ProcInv' /\ EntriesInv' /\ LockInv' /\ InfraInv'
        BY <2>1 DEF TerraformInv, ProcInv, ProcAt, EntriesInv, EntriesAt, LockInv, InfraInv
  <2> QED
      BY <2>2, <2>3 DEF TerraformInv
<1> QED
    BY <1>1, <1>2, <1>3 DEF Next

-----------------------------------------------------------------------------
(* Theorems *)

LEMMA TerraformInvariant == Spec => []TerraformInv
<1> QED
    BY TerraformStart, TerraformStep, PTL DEF Spec

\* TypeOK: handlers, processes, locks and entries are well formed, however
\* many calls share however many threads.
THEOREM TerraformTypeCorrect == Spec => []TypeOK
<1>1. TerraformInv => TypeOK
      BY DEF TerraformInv
<1> QED
    BY <1>1, TerraformInvariant, PTL

\* LocksAreExplained: one process at a time works on a workspace's state, and
\* a lock is left behind only by a call that did not succeed
\* (terraform_runner.py has no lock of its own, and kills after 600 seconds).
THEOREM LocksExplained == Spec => []LocksAreExplained
<1>1. TerraformInv => LocksAreExplained
      BY DEF TerraformInv, ProcInv, ProcAt, LockInv, LocksAreExplained, Failed
<1> QED
    BY <1>1, TerraformInvariant, PTL

\* OutcomesAreTrue: an apply or destroy that was answered with success or
\* logged OK, and was the last to touch its workspace, left it complete; an
\* answered call has the verdict of its answer in the log, and only a crash
\* after the commit leaves a verdict without one (terraform.py:22-83).
THEOREM OutcomesTrue == Spec => []OutcomesAreTrue
<1>1. TerraformInv => OutcomesAreTrue
  <2> SUFFICES ASSUME TerraformInv PROVE OutcomesAreTrue
      OBVIOUS
  <2>1. ASSUME NEW c \in Calls, job[c].op # "plan"
        PROVE  /\ stage[c] = "ok" => audit[c] = {"OK"}
               /\ "OK" \in audit[c] => stage[c] \in {"reply_ok", "ok", "lost"}
               /\ "FAIL" \in audit[c] => stage[c] \in {"reply_error", "error", "lost"}
               /\ ~({"OK", "FAIL"} \subseteq audit[c])
               /\ "OK" \in audit[c] => proc[c] = "succeeded"
        BY <2>1 DEF TerraformInv, EntriesInv, EntriesAt, Logged
  <2>2. ASSUME NEW w \in Workspaces, NEW c \in Calls, infra[w].by = c,
               stage[c] = "ok" \/ "OK" \in audit[c]
        PROVE  infra[w].state = Target(job[c].op)
        BY <2>1, <2>2 DEF TerraformInv, InfraInv
  <2> QED
      BY <2>1, <2>2 DEF OutcomesAreTrue
<1> QED
    BY <1>1, TerraformInvariant, PTL
==============================================================================
