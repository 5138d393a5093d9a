---------------------------- MODULE TerraformRuns ----------------------------
(***************************************************************************)
(* The Terraform handlers (backend/routers/terraform.py) and the processes *)
(* they run (backend/services/terraform_runner.py).  init, apply and       *)
(* destroy run in a thread of the default executor, which has a bounded    *)
(* number of them, and are killed after 600 seconds; plan is a process of  *)
(* the event loop whose output is streamed line by line, with no timeout   *)
(* and nobody to kill it when the browser leaves or when its reader fails, *)
(* as it does on a line longer than the 64 KiB that asyncio reads at once. *)
(* The code has no lock of its own: what keeps two processes off one       *)
(* workspace is Terraform's.                                               *)
(*                                                                         *)
(* Terraform is external.  Every command but init takes the state lock     *)
(* first and fails at once if it is held (-lock-timeout defaults to 0).    *)
(* The lock of a remote backend (azurerm, s3) outlives a process that was  *)
(* killed; that of a local state file does not.                            *)
(*                                                                         *)
(* A definition whose name ends in _<Mistake> is a variant no action uses: *)
(* a plausible slip in the code, there to show which property notices it.  *)
(***************************************************************************)
EXTENDS Naturals, FiniteSets

CONSTANTS
    Calls,              \* the calls to these handlers
    Workspaces,         \* the directories under WORKSPACES_ROOT
    None,               \* no workspace of that name; no holder of a lock
    Workers,            \* threads of the default executor
    PipeSize,           \* lines that fit between a plan and its reader
    MaxLines,           \* bound on the lines a plan prints
    MaxDbFaults,        \* bound on log_activity calls that raise
    MaxCrashes          \* bound on deaths of the backend's container

ASSUME TerraformAssumption ==
    /\ None \notin Workspaces \cup Calls
    /\ Workers \in Nat \ {0}
    /\ {PipeSize, MaxLines, MaxDbFaults, MaxCrashes} \subseteq Nat

VARIABLES
    stage,              \* how far each handler is
    job,                \* what each call asks for: an operation on a workspace
    proc,               \* the terraform process of each call
    out,                \* of each plan: lines to be printed, lines in the pipe
    lock,               \* the call whose process holds a workspace's state lock
    infra,              \* what a workspace describes: its state, the last to touch it
    remote,             \* the workspaces whose backend is remote
    audit,              \* the statuses a call wrote to activity_log
    dbFaults, crashes

handler == <<stage, job, audit, dbFaults>>
terraform == <<proc, out, lock, infra>>
vars == <<handler, terraform, remote, crashes>>

InFlight == {"log_started", "opening", "streaming", "queued", "running", "log", "log_fail",
             "reply_ok", "reply_error"}
Answers == {"ok", "error", "left", "cut"}
Stages == {"idle", "refused", "lost"} \cup InFlight \cup Answers
Alive == {"starting", "working"}
Done == {"succeeded", "failed"}

TypeOK ==
    /\ stage \in [Calls -> Stages]
    /\ job \in [Calls -> [op : {"none", "init", "plan", "apply", "destroy"},
                          ws : Workspaces \cup {None}]]
    /\ proc \in [Calls -> {"none", "killed"} \cup Alive \cup Done]
    /\ out \in [Calls -> [left : 0..MaxLines, pipe : 0..PipeSize]]
    /\ lock \in [Workspaces -> Calls \cup {None}]
    /\ infra \in [Workspaces -> [state : {"absent", "partial", "applied"},
                                 by : Calls \cup {None}]]
    /\ remote \in SUBSET Workspaces
    /\ audit \in [Calls -> SUBSET {"STARTED", "OK", "FAIL"}]
    /\ dbFaults \in 0..MaxDbFaults
    /\ crashes \in 0..MaxCrashes

Init ==
    /\ stage = [c \in Calls |-> "idle"]
    /\ job = [c \in Calls |-> [op |-> "none", ws |-> None]]
    /\ proc = [c \in Calls |-> "none"]
    /\ out = [c \in Calls |-> [left |-> 0, pipe |-> 0]]
    /\ lock = [w \in Workspaces |-> None]
    /\ infra \in [Workspaces -> [state : {"absent", "applied"}, by : {None}]]
    /\ remote \in SUBSET Workspaces
    /\ audit = [c \in Calls |-> {}]
    /\ dbFaults = 0
    /\ crashes = 0

Goto(c, s) == stage' = [stage EXCEPT ![c] = s]
Becomes(c, p) == proc' = [proc EXCEPT ![c] = p]
Target(op) == IF op = "apply" THEN "applied" ELSE "absent"

-----------------------------------------------------------------------------
(* Terraform *)

Locks_ButApply(op) == op \notin {"init", "apply"}     \* as with -lock=false

\* The commands as the code writes them: no -lock=false among their options.
Locks(op) == op # "init"

TakesLock(c) ==
    /\ proc[c] = "starting"
    /\ LET w == job[c].ws
       IN  \/ ~Locks(job[c].op) /\ Becomes(c, "working") /\ UNCHANGED lock
           \/ /\ Locks(job[c].op) /\ lock[w] = None
              /\ lock' = [lock EXCEPT ![w] = c]
              /\ Becomes(c, "working")
           \/ /\ Locks(job[c].op) /\ lock[w] # None
              /\ Becomes(c, "failed")
              /\ UNCHANGED lock
    /\ UNCHANGED <<handler, out, infra, remote, crashes>>

\* The first resource is created or destroyed.
Works(c) ==
    /\ proc[c] = "working" /\ job[c].op \in {"apply", "destroy"}
    /\ infra[job[c].ws] # [state |-> "partial", by |-> c]
    /\ infra' = [infra EXCEPT ![job[c].ws] = [state |-> "partial", by |-> c]]
    /\ UNCHANGED <<handler, proc, out, lock, remote, crashes>>

\* A plan prints a line, and blocks while the pipe is full.
Prints(c) ==
    /\ proc[c] = "working"
    /\ out[c].left > 0 /\ out[c].pipe < PipeSize
    /\ out' = [out EXCEPT ![c] = [left |-> @.left - 1, pipe |-> @.pipe + 1]]
    /\ UNCHANGED <<handler, proc, lock, infra, remote, crashes>>

Unlocked(ended) ==
    lock' = [w \in Workspaces |-> IF lock[w] \in ended THEN None ELSE lock[w]]

Exits(c) ==
    /\ proc[c] = "working" /\ out[c].left = 0
    /\ LET w == job[c].ws
       IN  \/ /\ Becomes(c, "succeeded")
              /\ infra' = IF job[c].op \in {"apply", "destroy"}
                          THEN [infra EXCEPT ![w] = [state |-> Target(job[c].op), by |-> c]]
                          ELSE infra
           \/ Becomes(c, "failed") /\ UNCHANGED infra
    /\ Unlocked({c})
    /\ UNCHANGED <<handler, out, remote, crashes>>

\* Processes are killed: the locks they hold at a remote backend stay.
Killed(procs) ==
    /\ proc' = [c \in Calls |-> IF c \in procs THEN "killed" ELSE proc[c]]
    /\ Unlocked({c \in procs : job[c].ws \notin remote})

-----------------------------------------------------------------------------
(* The handlers *)

\* 401 and 403 by require_role, 400 if a flag of the body is not set.
Confirmed(op, confirm, destroy) ==
    /\ op \in {"apply", "destroy"} => confirm
    /\ op = "destroy" => destroy

Receive(c) ==
    /\ stage[c] = "idle"
    /\ \/ Goto(c, "refused") /\ UNCHANGED job
       \/ \E op \in {"init", "plan", "apply", "destroy"}, w \in Workspaces \cup {None},
             confirm, destroy \in BOOLEAN :
             /\ Confirmed(op, confirm, destroy)
             /\ job' = [job EXCEPT ![c] = [op |-> op, ws |-> w]]
             /\ Goto(c, IF op = "plan" THEN "log_started" ELSE "queued")
    /\ UNCHANGED <<terraform, remote, audit, dbFaults, crashes>>

\* log_activity(.., status) leads to next, or raises and leads to raised.
Logs(c, status, next, raised) ==
    /\ \/ /\ audit' = [audit EXCEPT ![c] = @ \cup {status}]
          /\ Goto(c, next)
          /\ UNCHANGED dbFaults
       \/ /\ dbFaults < MaxDbFaults
          /\ dbFaults' = dbFaults + 1
          /\ Goto(c, raised)
          /\ UNCHANGED audit
    /\ UNCHANGED <<job, terraform, remote, crashes>>

LogStarted(c) == stage[c] = "log_started" /\ Logs(c, "STARTED", "opening", "error")

\* The generator starts the process, or ends where no workspace has the name.
OpenPlan(c) ==
    /\ stage[c] = "opening"
    /\ \/ job[c].ws = None /\ Goto(c, "error") /\ UNCHANGED <<proc, out>>
       \/ /\ job[c].ws # None
          /\ Goto(c, "streaming") /\ Becomes(c, "starting")
          /\ \E n \in 0..MaxLines : out' = [out EXCEPT ![c].left = n]
    /\ UNCHANGED <<job, audit, dbFaults, lock, infra, remote, crashes>>

Stream_NotToTheEnd(c) ==
    /\ stage[c] = "streaming" /\ out[c].pipe = 0
    /\ Goto(c, "ok")
    /\ UNCHANGED <<job, audit, dbFaults, terraform, remote, crashes>>

\* A line goes to the browser, or [DONE] after the last, whatever the plan's end.
Stream(c) ==
    /\ stage[c] = "streaming"
    /\ \/ /\ out[c].pipe > 0
          /\ out' = [out EXCEPT ![c].pipe = @ - 1]
          /\ UNCHANGED stage
       \/ /\ out[c].pipe = 0 /\ proc[c] \in Done
          /\ Goto(c, "ok")
          /\ UNCHANGED out
    /\ UNCHANGED <<job, audit, dbFaults, proc, lock, infra, remote, crashes>>

\* The next line is too long for the reader: the generator raises and the
\* stream is cut off before its end, the process goes on unread.
ReaderFails(c) ==
    /\ stage[c] = "streaming" /\ out[c].pipe > 0
    /\ Goto(c, "cut")
    /\ out' = [out EXCEPT ![c].pipe = @ - 1]
    /\ UNCHANGED <<job, audit, dbFaults, proc, lock, infra, remote, crashes>>

\* The browser leaves: the generator is dropped, the process is not.
Leave(c) ==
    /\ stage[c] = "streaming"
    /\ Goto(c, "left")
    /\ UNCHANGED <<job, audit, dbFaults, terraform, remote, crashes>>

StartThread_AwaitsLock(c) ==
    /\ stage[c] = "queued" /\ job[c].ws # None
    /\ lock[job[c].ws] = None
    /\ Goto(c, "running") /\ Becomes(c, "starting")
    /\ UNCHANGED <<job, audit, dbFaults, out, lock, infra, remote, crashes>>

\* A thread of the executor takes the call up; workspace_path may raise.
StartThread(c) ==
    /\ stage[c] = "queued"
    /\ Cardinality({d \in Calls : stage[d] = "running"}) < Workers
    /\ \/ job[c].ws = None /\ Goto(c, "log_fail") /\ UNCHANGED proc
       \/ job[c].ws # None /\ Goto(c, "running") /\ Becomes(c, "starting")
    /\ UNCHANGED <<job, audit, dbFaults, out, lock, infra, remote, crashes>>

Returns(c) ==
    /\ stage[c] = "running" /\ proc[c] \in Done
    /\ Goto(c, "log")
    /\ UNCHANGED <<job, audit, dbFaults, terraform, remote, crashes>>

\* subprocess.run kills the process after 600 seconds and raises.
TimesOut(c) ==
    /\ stage[c] = "running" /\ proc[c] \in Alive
    /\ Killed({c}) /\ Goto(c, "log_fail")
    /\ UNCHANGED <<job, audit, dbFaults, out, infra, remote, crashes>>

Log_Unraised(c) ==
    /\ stage[c] = "log"
    /\ Logs(c, IF proc[c] = "succeeded" THEN "OK" ELSE "FAIL", "reply_ok", "log_fail")

\* The entry has the verdict of the return code, and a code other than 0 is
\* a 500 that the except branch for everything else does not see.
Log(c) ==
    /\ stage[c] = "log"
    /\ \/ proc[c] = "succeeded" /\ Logs(c, "OK", "reply_ok", "log_fail")
       \/ proc[c] = "failed" /\ Logs(c, "FAIL", "reply_error", "log_fail")

LogFail(c) == stage[c] = "log_fail" /\ Logs(c, "FAIL", "reply_error", "reply_error")

\* The entry is committed; its connection is closed, and the handler answers.
Answer(c) ==
    /\ \/ stage[c] = "reply_ok" /\ Goto(c, "ok")
       \/ stage[c] = "reply_error" /\ Goto(c, "error")
    /\ UNCHANGED <<job, audit, dbFaults, terraform, remote, crashes>>

\* The container dies, and every process in it.
Crash ==
    /\ crashes < MaxCrashes
    /\ crashes' = crashes + 1
    /\ \E c \in Calls : stage[c] \in InFlight \/ proc[c] \in Alive
    /\ stage' = [c \in Calls |-> IF stage[c] \in InFlight THEN "lost" ELSE stage[c]]
    /\ Killed({c \in Calls : proc[c] \in Alive})
    /\ UNCHANGED <<job, audit, dbFaults, out, infra, remote>>

Work(c) ==
    \/ TakesLock(c) \/ Works(c) \/ Prints(c) \/ Exits(c)
    \/ LogStarted(c) \/ OpenPlan(c) \/ Stream(c)
    \/ StartThread(c) \/ Returns(c) \/ TimesOut(c) \/ Log(c) \/ LogFail(c)
    \/ Answer(c)

Next == (\E c \in Calls : Receive(c) \/ Leave(c) \/ ReaderFails(c) \/ Work(c)) \/ Crash

Spec == Init /\ [][Next]_vars

\* Handlers, threads and processes go on.  An apply ends because of the
\* timeout; that a plan ends if it is read is assumed of Terraform.  Browsers
\* need not leave, nor lines be too long.
FairSpec == Spec /\ \A c \in Calls : WF_vars(Work(c))

-----------------------------------------------------------------------------
(* Correctness *)

\* The calls that did not succeed, or whose reader has gone.
Failed == {"log_fail", "reply_error", "error", "left", "cut", "lost"}

(***************************************************************************)
(* However calls overlap, one process at a time works on a workspace's     *)
(* state, the holder of its lock; and a lock nobody alive holds was left   *)
(* by a call that was reported as failed, whose reader had gone, or that a *)
(* crash cut short.                                                        *)
(***************************************************************************)
LocksAreExplained ==
    /\ \A c \in Calls : proc[c] = "working" /\ job[c].op # "init" => lock[job[c].ws] = c
    /\ \A w \in Workspaces : \A c \in Calls : lock[w] = c =>
           \/ proc[c] = "working"
           \/ proc[c] = "killed" /\ stage[c] \in Failed

(***************************************************************************)
(* Answers and log entries are true of the infrastructure although calls   *)
(* overlap, time out and crash: an apply or destroy answered with success  *)
(* or logged OK left its workspace complete, if it was the last to touch   *)
(* it.  A call that is answered has the verdict of its answer in the log;  *)
(* one with a verdict and no answer is about to be answered, or was lost   *)
(* in a crash after the commit; and no call has two.                       *)
(***************************************************************************)
OutcomesAreTrue ==
    /\ \A w \in Workspaces : \A c \in Calls :
           infra[w].by = c /\ (stage[c] = "ok" \/ "OK" \in audit[c]) =>
               infra[w].state = Target(job[c].op)
    /\ \A c \in Calls : job[c].op # "plan" =>
           /\ stage[c] = "ok" => audit[c] = {"OK"}
           /\ "OK" \in audit[c] => stage[c] \in {"reply_ok", "ok", "lost"}
           /\ "FAIL" \in audit[c] => stage[c] \in {"reply_error", "error", "lost"}
           /\ ~({"OK", "FAIL"} \subseteq audit[c])

(***************************************************************************)
(* Every call is answered, given up by its browser, cut off or lost in a   *)
(* crash, although few threads serve all calls for minutes each.           *)
(***************************************************************************)
EveryCallEnds ==
    \A c \in Calls : stage[c] \in InFlight ~> stage[c] \in Answers \cup {"lost"}

(***************************************************************************)
(* A state lock comes free again, unless its process was killed or is a    *)
(* plan that nobody reads any more: the browser has left, or a line was    *)
(* too long for the reader.                                                *)
(***************************************************************************)
LocksComeFree ==
    \A w \in Workspaces : \A c \in Calls :
        lock[w] = c ~> lock[w] # c \/ proc[c] = "killed" \/ stage[c] \in {"left", "cut"}
=============================================================================
