------------------------------ MODULE NodeProofs ------------------------------
(***************************************************************************)
(* What calls leave of a Kubernetes node, for any number of calls, faults  *)
(* and crashes.                                                            *)
(***************************************************************************)
EXTENDS NodeOps, TLAPS

USE NodeAssumption

\* A call has an operation from the moment its handler runs, and a cordon or a
\* drain was asked for.
OpInv ==
    \A c \in Calls : /\ stage[c] \in {"idle", "refused"} <=> op[c] = "none"
                     /\ op[c] \in {"cordon", "drain"} => asked
                     /\ at[c] \in Nat

\* An upgrade that is between its first and its last command, or stayed there.
Explains(c) ==
    /\ op[c] = "upgrade" /\ ~isKind /\ at[c] \in 1..6
    /\ stage[c] \in {"log_ok", "reply_ok", "ok"} => status[c] = "failed"

CordonedInv == cordoned /\ ~asked => \E c \in Calls : Explains(c)

\* What the commands of a call have made of the node, nobody else calling.
Progress(c) ==
    /\ op[c] = "cordon" /\ at[c] = 1 => cordoned
    /\ op[c] = "uncordon" /\ at[c] = 1 => ~cordoned
    /\ op[c] = "drain" => /\ at[c] \in 1..2 => cordoned
                          /\ at[c] = 2 => ~pods
    /\ op[c] = "upgrade" /\ isKind /\ at[c] = 1 => annotated
    /\ op[c] = "upgrade" /\ ~isKind =>
           /\ at[c] \in 2..6 => cordoned
           /\ at[c] \in 3..6 => ~pods
           /\ at[c] \in 4..7 => kubelet.installed = "new"
           /\ at[c] \in 6..7 => kubelet.runs = "new"
           /\ at[c] = 7 => ~cordoned

\* What they have made of it at their end.
Held(c) ==
    /\ op[c] # "none"
    /\ op[c] = "cordon" => cordoned
    /\ op[c] = "uncordon" => ~cordoned
    /\ op[c] = "drain" => cordoned /\ ~pods
    /\ op[c] = "upgrade" /\ isKind => annotated
    /\ op[c] = "upgrade" /\ ~isKind =>
           ~cordoned /\ kubelet.installed = "new" /\ kubelet.runs = "new"

SerialInv ==
    ~overlapped =>
        /\ ~unsafe
        /\ \A c, d \in Calls : {stage[c], stage[d]} \subseteq Audit!InFlight => c = d
        /\ \A c \in Calls : stage[c] = "running" => Progress(c)
        /\ last # None /\ (\A c \in Calls : stage[c] # "running") => Held(last)

NodeInv ==
    /\ TypeOK /\ at \in [Calls -> Nat]
    /\ OpInv /\ CordonedInv /\ SerialInv

-----------------------------------------------------------------------------
(* The commands of the service functions *)

LEMMA Lengths ==
    /\ DOMAIN Steps = {"cordon", "uncordon", "drain", "upgrade"}
    /\ Len(Steps["cordon"]) = 1 /\ Len(Steps["uncordon"]) = 1 /\ Len(Steps["drain"]) = 2
    /\ isKind => Len(Steps["upgrade"]) = 1
    /\ ~isKind => Len(Steps["upgrade"]) = 7
BY DEF Steps

\* Which command comes next.
LEMMA Commands ==
    ASSUME NEW c \in Calls, op[c] \in DOMAIN Steps, at[c] \in Nat, at[c] < Len(Steps[op[c]])
    PROVE  \/ op[c] = "cordon" /\ at[c] = 0 /\ Command(c) = "cordon"
           \/ op[c] = "uncordon" /\ at[c] = 0 /\ Command(c) = "uncordon"
           \/ op[c] = "drain" /\ at[c] = 0 /\ Command(c) = "drain"
           \/ op[c] = "drain" /\ at[c] = 1 /\ Command(c) = "evict"
           \/ op[c] = "upgrade" /\ isKind /\ at[c] = 0 /\ Command(c) = "annotate"
           \/ op[c] = "upgrade" /\ ~isKind /\ at[c] = 0 /\ Command(c) = "kubeadm"
           \/ op[c] = "upgrade" /\ ~isKind /\ at[c] = 1 /\ Command(c) = "drain"
           \/ op[c] = "upgrade" /\ ~isKind /\ at[c] = 2 /\ Command(c) = "evict"
           \/ op[c] = "upgrade" /\ ~isKind /\ at[c] = 3 /\ Command(c) = "install"
           \/ op[c] = "upgrade" /\ ~isKind /\ at[c] = 4 /\ Command(c) = "reload"
           \/ op[c] = "upgrade" /\ ~isKind /\ at[c] = 5 /\ Command(c) = "restart"
           \/ op[c] = "upgrade" /\ ~isKind /\ at[c] = 6 /\ Command(c) = "uncordon"
<1>1. CASE op[c] = "cordon"
      BY <1>1 DEF Command, Steps
<1>2. CASE op[c] = "uncordon"
      BY <1>2 DEF Command, Steps
<1>3. CASE op[c] = "drain"
  <2>1. at[c] \in 0..1
        BY <1>3, Lengths
  <2> QED
      BY <1>3, <2>1 DEF Command, Steps
<1>4. CASE op[c] = "upgrade" /\ isKind
  <2>1. at[c] = 0
    <3>1. Len(Steps[op[c]]) = 1
          BY <1>4, Lengths
    <3> QED
        BY <3>1
  <2> QED
      BY <1>4, <2>1 DEF Command, Steps
<1>5. CASE op[c] = "upgrade" /\ ~isKind
  <2>1. at[c] \in 0..6
    <3>1. Len(Steps[op[c]]) = 7
          BY <1>5, Lengths
    <3> QED
        BY <3>1
  <2>2. Command(c) = <<"kubeadm", "drain", "evict", "install",
                       "reload", "restart", "uncordon">>[at[c] + 1]
        BY <1>5 DEF Command, Steps
  <2> QED
      BY <1>5, <2>1, <2>2
<1> QED
    BY <1>1, <1>2, <1>3, <1>4, <1>5, Lengths

\* What a command does to the node.
LEMMA Effects ==
    ASSUME {cordoned, pods, annotated, unsafe} \subseteq BOOLEAN,
           kubelet \in [installed : {"old", "new"}, runs : {"old", "new"}],
           NEW cmd, Succeeds(cmd)
    PROVE  /\ {cordoned', pods', annotated', unsafe'} \subseteq BOOLEAN
           /\ kubelet' \in [installed : {"old", "new"}, runs : {"old", "new"}]
           /\ cordoned' <=> (cmd \in {"cordon", "drain"} \/ (cordoned /\ cmd # "uncordon"))
           /\ pods' <=> (pods /\ cmd # "evict")
           /\ annotated' <=> (annotated \/ cmd = "annotate")
           /\ unsafe' <=> (unsafe \/ (cmd = "restart" /\ pods))
           /\ kubelet'.installed = IF cmd = "install" THEN "new" ELSE kubelet.installed
           /\ kubelet'.runs = IF cmd = "restart" THEN kubelet.installed ELSE kubelet.runs
<1>1. CASE cmd \in {"cordon", "drain"}
  <2>1. cordoned' = TRUE /\ UNCHANGED <<pods, kubelet, annotated, unsafe>>
        BY <1>1 DEF Succeeds
  <2> QED
      BY <1>1, <2>1
<1>2. CASE cmd = "uncordon"
  <2>1. cordoned' = FALSE /\ UNCHANGED <<pods, kubelet, annotated, unsafe>>
        BY <1>2 DEF Succeeds
  <2> QED
      BY <1>2, <2>1
<1>3. CASE cmd = "evict"
  <2>1. pods' = FALSE /\ UNCHANGED <<cordoned, kubelet, annotated, unsafe>>
        BY <1>3 DEF Succeeds
  <2> QED
      BY <1>3, <2>1
<1>4. CASE cmd = "annotate"
  <2>1. annotated' = TRUE /\ UNCHANGED <<cordoned, pods, kubelet, unsafe>>
        BY <1>4 DEF Succeeds
  <2> QED
      BY <1>4, <2>1
<1>5. CASE cmd = "install"
      BY <1>5 DEF Succeeds
<1>6. CASE cmd = "restart"
      BY <1>6 DEF Succeeds
<1>7. CASE cmd \in {"kubeadm", "reload"}
      BY <1>7 DEF Succeeds, node
<1> QED
    BY <1>1, <1>2, <1>3, <1>4, <1>5, <1>6, <1>7 DEF Succeeds

LEMMA NodeStart == Init => NodeInv
<1> SUFFICES ASSUME Init PROVE NodeInv
    OBVIOUS
<1>1. TypeOK /\ at \in [Calls -> Nat]
  <2>1. Audit!TypeOK
        BY DEF Init, Audit!Init, Audit!TypeOK, Audit!Stages
  <2>2. /\ MaxFaults \in Nat /\ MaxCrashes \in Nat
        /\ op \in [Calls -> DOMAIN Steps \cup {"none"}] /\ at \in [Calls -> Nat]
        /\ \A c \in Calls : op[c] = "none" /\ at[c] = 0
        /\ status \in [Calls -> {"none", "done", "failed"}]
        BY DEF Init
  <2>3. {cordoned, pods, stuck, annotated, unsafe, asked, overlapped, isKind} \subseteq BOOLEAN
        BY DEF Init
  <2>4. /\ kubelet \in [installed : {"old", "new"}, runs : {"old", "new"}]
        /\ last \in Calls \cup {None}
        BY DEF Init
  <2> QED
      BY <2>1, <2>2, <2>3, <2>4 DEF Init, TypeOK
<1>2. OpInv /\ CordonedInv
      BY DEF Init, Audit!Init, OpInv, CordonedInv
<1>3. SerialInv
      BY DEF Init, Audit!Init, SerialInv, Audit!InFlight
<1> QED
    BY <1>1, <1>2, <1>3 DEF NodeInv

-----------------------------------------------------------------------------
(* The steps *)

LEMMA AuditTypes ==
    ASSUME Audit!TypeOK, NEW c \in Calls,
           \/ Audit!Receive(c) \/ Audit!ServiceReturns(c) \/ Audit!ServiceRaises(c)
           \/ Audit!LogOK(c) \/ Audit!LogFail(c) \/ Audit!Answer(c)
    PROVE  Audit!TypeOK'
<1> USE DEF Audit!TypeOK, Audit!Stages, Audit!InFlight, Audit!Answers, Audit!Goto
<1>1. CASE Audit!Receive(c)
      BY <1>1 DEF Audit!Receive
<1>2. CASE Audit!ServiceReturns(c)
      BY <1>2 DEF Audit!ServiceReturns
<1>3. CASE Audit!ServiceRaises(c)
      BY <1>3 DEF Audit!ServiceRaises
<1>4. CASE Audit!LogOK(c)
      BY <1>4 DEF Audit!LogOK, Audit!Writes, Audit!WriteRaises
<1>5. CASE Audit!LogFail(c)
      BY <1>5 DEF Audit!LogFail, Audit!Writes, Audit!WriteRaises
<1>6. CASE Audit!Answer(c)
      BY <1>6 DEF Audit!Answer
<1> QED
    BY <1>1, <1>2, <1>3, <1>4, <1>5, <1>6

LEMMA SucceedsStep ==
    ASSUME NodeInv, NEW c \in Calls, CommandSucceeds(c)
    PROVE  NodeInv'
<1> DEFINE cmd == Command(c)
<1>1. /\ stage[c] = "running" /\ at[c] < Len(Steps[op[c]]) /\ Succeeds(cmd)
      /\ at' = [at EXCEPT ![c] = @ + 1]
      /\ UNCHANGED <<stage, worked, audit, dbFaults, op, status, stuck, isKind, asked,
                     overlapped, last, faults, crashes>>
      BY DEF CommandSucceeds, Runs, handler
<1>2. /\ op[c] \in DOMAIN Steps /\ at \in [Calls -> Nat] /\ at[c] \in Nat
      BY <1>1 DEF NodeInv, TypeOK, OpInv
<1>3. at'[c] = at[c] + 1 /\ \A d \in Calls : d # c => at'[d] = at[d]
      BY <1>1, <1>2
<1>4. /\ {cordoned, pods, annotated, unsafe, asked, isKind, overlapped} \subseteq BOOLEAN
      /\ kubelet \in [installed : {"old", "new"}, runs : {"old", "new"}]
      BY DEF NodeInv, TypeOK
<1>5. /\ {cordoned', pods', annotated', unsafe'} \subseteq BOOLEAN
      /\ kubelet' \in [installed : {"old", "new"}, runs : {"old", "new"}]
      /\ cordoned' <=> (cmd \in {"cordon", "drain"} \/ (cordoned /\ cmd # "uncordon"))
      /\ pods' <=> (pods /\ cmd # "evict")
      /\ annotated' <=> (annotated \/ cmd = "annotate")
      /\ unsafe' <=> (unsafe \/ (cmd = "restart" /\ pods))
      /\ kubelet'.installed = IF cmd = "install" THEN "new" ELSE kubelet.installed
      /\ kubelet'.runs = IF cmd = "restart" THEN kubelet.installed ELSE kubelet.runs
      BY <1>1, <1>4, Effects
<1>6. \/ op[c] = "cordon" /\ at[c] = 0 /\ cmd = "cordon"
      \/ op[c] = "uncordon" /\ at[c] = 0 /\ cmd = "uncordon"
      \/ op[c] = "drain" /\ at[c] = 0 /\ cmd = "drain"
      \/ op[c] = "drain" /\ at[c] = 1 /\ cmd = "evict"
      \/ op[c] = "upgrade" /\ isKind /\ at[c] = 0 /\ cmd = "annotate"
      \/ op[c] = "upgrade" /\ ~isKind /\ at[c] = 0 /\ cmd = "kubeadm"
      \/ op[c] = "upgrade" /\ ~isKind /\ at[c] = 1 /\ cmd = "drain"
      \/ op[c] = "upgrade" /\ ~isKind /\ at[c] = 2 /\ cmd = "evict"
      \/ op[c] = "upgrade" /\ ~isKind /\ at[c] = 3 /\ cmd = "install"
      \/ op[c] = "upgrade" /\ ~isKind /\ at[c] = 4 /\ cmd = "reload"
      \/ op[c] = "upgrade" /\ ~isKind /\ at[c] = 5 /\ cmd = "restart"
      \/ op[c] = "upgrade" /\ ~isKind /\ at[c] = 6 /\ cmd = "uncordon"
      BY <1>1, <1>2, Commands
<1> HIDE DEF cmd
<1>7. TypeOK' /\ at' \in [Calls -> Nat]
  <2>1. at' \in [Calls -> Nat] /\ Steps' = Steps
        BY <1>1, <1>2 DEF Steps
  <2>2. \A d \in Calls : at'[d] \in 0..(IF op[d] = "none" THEN 0 ELSE Len(Steps[op[d]]))
    <3>1. op[c] # "none" /\ Len(Steps[op[c]]) \in Nat
          BY <1>2, <1>4, Lengths
    <3>2. at[c] + 1 \in 0..Len(Steps[op[c]])
          BY <1>1, <1>2, <3>1
    <3> QED
        BY <1>3, <3>1, <3>2 DEF NodeInv, TypeOK
  <2>3. Audit!TypeOK'
        BY <1>1 DEF NodeInv, TypeOK, Audit!TypeOK
  <2> QED
      BY <1>1, <1>5, <2>1, <2>2, <2>3 DEF NodeInv, TypeOK
<1>8. OpInv'
      BY <1>1, <1>2, <1>3 DEF NodeInv, OpInv
<1>9. CordonedInv'
  <2> SUFFICES ASSUME cordoned', ~asked
               PROVE  \E d \in Calls : Explains(d)'
      BY <1>1 DEF CordonedInv
  <2>1. CASE cmd \in {"cordon", "drain"}
    <3>1. op[c] \notin {"cordon", "drain"}
          BY DEF NodeInv, OpInv
    <3>2. op[c] = "upgrade" /\ ~isKind /\ at'[c] = 2
          BY <1>3, <1>6, <2>1, <3>1
    <3>3. Explains(c)'
          BY <1>1, <3>2 DEF Explains
    <3> QED
        BY <3>3
  <2>2. CASE cmd \notin {"cordon", "drain"}
    <3>1. cordoned /\ cmd # "uncordon"
          BY <1>5, <2>2
    <3>2. PICK d \in Calls : Explains(d)
          BY <3>1 DEF NodeInv, CordonedInv
    <3>3. Explains(d)'
      <4>1. CASE d # c
            BY <1>1, <1>3, <3>2, <4>1 DEF Explains
      <4>2. CASE d = c
        <5>1. at[c] \in 1..5
              BY <1>6, <3>1, <3>2, <4>2 DEF Explains
        <5> QED
            BY <1>1, <1>3, <3>2, <4>2, <5>1 DEF Explains
      <4> QED
          BY <4>1, <4>2
    <3> QED
        BY <3>3
  <2> QED
      BY <2>1, <2>2
<1>10. SerialInv'
  <2> SUFFICES ASSUME ~overlapped
               PROVE  /\ ~unsafe'
                      /\ \A d, e \in Calls : {stage[d], stage[e]} \subseteq Audit!InFlight => d = e
                      /\ \A d \in Calls : stage[d] = "running" => Progress(d)'
      BY <1>1 DEF SerialInv
  <2>1. /\ \A d, e \in Calls : {stage[d], stage[e]} \subseteq Audit!InFlight => d = e
        /\ Progress(c) /\ ~unsafe
        BY <1>1 DEF NodeInv, SerialInv
  <2>2. \A d \in Calls : stage[d] = "running" => d = c
        BY <1>1, <2>1 DEF Audit!InFlight
  <2>3. ~unsafe'
    <3>1. cmd = "restart" => ~pods
          BY <1>6, <2>1 DEF Progress
    <3> QED
        BY <1>5, <2>1, <3>1
  <2>4. Progress(c)'
    <3>1. CASE op[c] # "upgrade"
          BY <1>1, <1>3, <1>5, <1>6, <2>1, <3>1 DEF Progress
    <3>2. CASE op[c] = "upgrade" /\ isKind
          BY <1>1, <1>3, <1>5, <1>6, <2>1, <3>2 DEF Progress
    <3>3. CASE op[c] = "upgrade" /\ ~isKind
      <4>1. at'[c] \in 2..6 => cordoned'
            BY <1>3, <1>5, <1>6, <2>1, <3>3 DEF Progress
      <4>2. at'[c] \in 3..6 => ~pods'
            BY <1>3, <1>5, <1>6, <2>1, <3>3 DEF Progress
      <4>3. at'[c] \in 4..7 => kubelet'.installed = "new"
            BY <1>3, <1>5, <1>6, <2>1, <3>3 DEF Progress
      <4>4. at'[c] \in 6..7 => kubelet'.runs = "new"
            BY <1>3, <1>5, <1>6, <2>1, <3>3 DEF Progress
      <4>5. at'[c] = 7 => ~cordoned'
            BY <1>3, <1>5, <1>6, <3>3
      <4> QED
          BY <1>1, <3>3, <4>1, <4>2, <4>3, <4>4, <4>5 DEF Progress
    <3> QED
        BY <3>1, <3>2, <3>3
  <2> QED
      BY <2>1, <2>2, <2>3, <2>4
<1> QED
    BY <1>7, <1>8, <1>9, <1>10 DEF NodeInv

\* A function raises, or returns "failed": the command that failed may have worked.
LEMMA FailsStep ==
    ASSUME NodeInv, NEW c \in Calls, NEW s \in {"log_fail", "log_ok"}, Runs(c), PerhapsDone(c),
           stage' = [stage EXCEPT ![c] = s], Audit!TypeOK', last' = None,
           status' \in [Calls -> {"none", "done", "failed"}],
           \A d \in Calls : d # c => status'[d] = status[d],
           s = "log_ok" => status'[c] = "failed", faults' \in 0..MaxFaults,
           UNCHANGED <<op, at, stuck, isKind, asked, overlapped, crashes>>
    PROVE  NodeInv'
<1> DEFINE cmd == Command(c)
<1>1. /\ stage[c] = "running" /\ at[c] < Len(Steps[op[c]])
      /\ \/ UNCHANGED <<cordoned, pods, kubelet, annotated, unsafe>>
         \/ Succeeds(cmd)
      BY DEF Runs, PerhapsDone, node
<1>2. op[c] \in DOMAIN Steps /\ at[c] \in Nat
      BY <1>1 DEF NodeInv, TypeOK, OpInv
<1>3. stage'[c] = s /\ \A d \in Calls : d # c => stage'[d] = stage[d]
      BY DEF NodeInv, TypeOK, Audit!TypeOK
<1>4. /\ {cordoned, pods, annotated, unsafe} \subseteq BOOLEAN
      /\ kubelet \in [installed : {"old", "new"}, runs : {"old", "new"}]
      BY DEF NodeInv, TypeOK
<1>5. /\ {cordoned', pods', annotated', unsafe'} \subseteq BOOLEAN
      /\ kubelet' \in [installed : {"old", "new"}, runs : {"old", "new"}]
      /\ cordoned' => cordoned \/ cmd \in {"cordon", "drain"}
      /\ unsafe' => unsafe \/ (cmd = "restart" /\ pods)
  <2>1. CASE UNCHANGED <<cordoned, pods, kubelet, annotated, unsafe>>
        BY <1>4, <2>1
  <2>2. CASE Succeeds(cmd)
        BY <1>4, <2>2, Effects
  <2> QED
      BY <1>1, <2>1, <2>2
<1>6. /\ cmd \in {"cordon", "drain"} =>
             op[c] \in {"cordon", "drain"} \/ (op[c] = "upgrade" /\ ~isKind /\ at[c] = 1)
      /\ cmd = "restart" => op[c] = "upgrade" /\ ~isKind /\ at[c] = 5
      BY <1>1, <1>2, Commands
<1> HIDE DEF cmd
<1>7. TypeOK' /\ at' \in [Calls -> Nat]
  <2>1. Steps' = Steps
        BY DEF Steps
  <2> QED
      BY <1>5, <2>1 DEF NodeInv, TypeOK
<1>8. OpInv'
      BY <1>1, <1>3 DEF NodeInv, OpInv
<1>9. CordonedInv'
  <2> SUFFICES ASSUME cordoned', ~asked
               PROVE  \E d \in Calls : Explains(d)'
      BY DEF CordonedInv
  <2>1. CASE cordoned
    <3>1. PICK d \in Calls : Explains(d)
          BY <2>1 DEF NodeInv, CordonedInv
    <3>2. Explains(d)'
          BY <1>3, <3>1 DEF Explains
    <3> QED
        BY <3>2
  <2>2. CASE cmd \in {"cordon", "drain"}
    <3>1. op[c] = "upgrade" /\ ~isKind /\ at[c] = 1
          BY <1>6, <2>2 DEF NodeInv, OpInv
    <3>2. Explains(c)'
          BY <1>3, <3>1 DEF Explains
    <3> QED
        BY <3>2
  <2> QED
      BY <1>5, <2>1, <2>2
<1>10. SerialInv'
  <2> SUFFICES ASSUME ~overlapped
               PROVE  /\ ~unsafe'
                      /\ \A d, e \in Calls : {stage'[d], stage'[e]} \subseteq Audit!InFlight => d = e
                      /\ \A d \in Calls : stage'[d] # "running"
      BY DEF SerialInv
  <2>1. /\ \A d, e \in Calls : {stage[d], stage[e]} \subseteq Audit!InFlight => d = e
        /\ Progress(c) /\ ~unsafe
        BY <1>1 DEF NodeInv, SerialInv
  <2>2. ~unsafe'
    <3>1. cmd = "restart" => ~pods
          BY <1>6, <2>1 DEF Progress
    <3> QED
        BY <1>5, <2>1, <3>1
  <2> QED
      BY <1>1, <1>3, <2>1, <2>2 DEF Audit!InFlight
<1> QED
    BY <1>7, <1>8, <1>9, <1>10 DEF NodeInv

LEMMA CommandFailsStep ==
    ASSUME NodeInv, NEW c \in Calls, CommandFails(c)
    PROVE  NodeInv'
<1>1. /\ Runs(c) /\ PerhapsDone(c) /\ stage' = [stage EXCEPT ![c] = "log_fail"]
      /\ last' = None /\ Audit!ServiceRaises(c)
      /\ UNCHANGED <<op, at, status, stuck, isKind, asked, overlapped, crashes>>
      BY DEF CommandFails, Audit!ServiceRaises, Audit!Goto
<1>2. faults' \in 0..MaxFaults
      BY DEF CommandFails, Fault, TimesOut, NodeInv, TypeOK
<1>3. Audit!TypeOK' /\ status' \in [Calls -> {"none", "done", "failed"}]
      BY <1>1, AuditTypes DEF NodeInv, TypeOK
<1> QED
    BY <1>1, <1>2, <1>3, FailsStep

LEMMA ReturnsFailedStep ==
    ASSUME NodeInv, NEW c \in Calls, UpgradeReturnsFailed(c)
    PROVE  NodeInv'
<1>1. /\ Runs(c) /\ PerhapsDone(c) /\ stage' = [stage EXCEPT ![c] = "log_ok"]
      /\ last' = None /\ Audit!ServiceReturns(c)
      /\ status' = [status EXCEPT ![c] = "failed"]
      /\ UNCHANGED <<op, at, stuck, isKind, asked, overlapped, crashes>>
      BY DEF UpgradeReturnsFailed, Audit!ServiceReturns, Audit!Goto
<1>2. faults' \in 0..MaxFaults
      BY DEF UpgradeReturnsFailed, Fault, NodeInv, TypeOK
<1>3. /\ Audit!TypeOK' /\ status' \in [Calls -> {"none", "done", "failed"}]
      /\ status'[c] = "failed" /\ \A d \in Calls : d # c => status'[d] = status[d]
      BY <1>1, AuditTypes DEF NodeInv, TypeOK
<1> QED
    BY <1>1, <1>2, <1>3, FailsStep

LEMMA ReturnsStep ==
    ASSUME NodeInv, NEW c \in Calls, ServiceReturns(c)
    PROVE  NodeInv'
<1>1. /\ stage[c] = "running" /\ at[c] = Len(Steps[op[c]]) /\ last' = c
      /\ stage' = [stage EXCEPT ![c] = "log_ok"] /\ Audit!ServiceReturns(c)
      /\ status' = [status EXCEPT ![c] = "done"]
      /\ UNCHANGED <<op, at, cordoned, pods, kubelet, annotated, unsafe, stuck, isKind, asked,
                     overlapped, faults, crashes>>
      BY DEF ServiceReturns, Audit!ServiceReturns, Audit!Goto, node
<1>2. /\ stage'[c] = "log_ok"
      /\ \A d \in Calls : d # c => stage'[d] = stage[d] /\ status'[d] = status[d]
      BY <1>1 DEF NodeInv, TypeOK, Audit!TypeOK
<1>3. op[c] \in DOMAIN Steps
      BY <1>1 DEF NodeInv, TypeOK, OpInv
<1>4. /\ op[c] \in {"cordon", "uncordon"} => at[c] = 1
      /\ op[c] = "drain" => at[c] = 2
      /\ op[c] = "upgrade" /\ isKind => at[c] = 1
      /\ op[c] = "upgrade" /\ ~isKind => at[c] = 7
  <2>1. /\ op[c] \in {"cordon", "uncordon"} => Len(Steps[op[c]]) = 1
        /\ op[c] = "drain" => Len(Steps[op[c]]) = 2
        /\ op[c] = "upgrade" /\ isKind => Len(Steps[op[c]]) = 1
        /\ op[c] = "upgrade" /\ ~isKind => Len(Steps[op[c]]) = 7
        BY Lengths
  <2> QED
      BY <1>1, <2>1
<1>5. TypeOK' /\ at' \in [Calls -> Nat]
  <2>1. Audit!TypeOK' /\ Steps' = Steps
        BY <1>1, AuditTypes DEF NodeInv, TypeOK, Steps
  <2>2. status' \in [Calls -> {"none", "done", "failed"}]
        BY <1>1 DEF NodeInv, TypeOK
  <2> QED
      BY <1>1, <2>1, <2>2 DEF NodeInv, TypeOK
<1>6. OpInv'
      BY <1>1, <1>2 DEF NodeInv, OpInv
<1>7. CordonedInv'
  <2> SUFFICES ASSUME cordoned, ~asked
               PROVE  \E d \in Calls : Explains(d)'
      BY <1>1 DEF CordonedInv
  <2>1. PICK d \in Calls : Explains(d)
        BY DEF NodeInv, CordonedInv
  <2>2. d # c
        BY <1>4, <2>1 DEF Explains
  <2>3. Explains(d)'
        BY <1>1, <1>2, <2>1, <2>2 DEF Explains
  <2> QED
      BY <2>3
<1>8. SerialInv'
  <2> SUFFICES ASSUME ~overlapped
               PROVE  /\ ~unsafe
                      /\ \A d, e \in Calls : {stage'[d], stage'[e]} \subseteq Audit!InFlight => d = e
                      /\ \A d \in Calls : stage'[d] # "running"
                      /\ Held(c)'
      BY <1>1 DEF SerialInv
  <2>1. /\ \A d, e \in Calls : {stage[d], stage[e]} \subseteq Audit!InFlight => d = e
        /\ Progress(c) /\ ~unsafe
        BY <1>1 DEF NodeInv, SerialInv
  <2>2. Held(c)
    <3>1. op[c] # "none"
          BY <1>3, Lengths
    <3> QED
        BY <1>4, <2>1, <3>1 DEF Progress, Held
  <2>3. Held(c)'
        BY <1>1, <2>2 DEF Held
  <2> QED
      BY <1>1, <1>2, <2>1, <2>3 DEF Audit!InFlight
<1> QED
    BY <1>5, <1>6, <1>7, <1>8 DEF NodeInv

LEMMA ReceiveStep ==
    ASSUME NodeInv, NEW c \in Calls, Receive(c)
    PROVE  NodeInv'
<1>1. /\ stage[c] = "idle" /\ Audit!Receive(c)
      /\ overlapped' = (overlapped \/ \E d \in Calls : stage[d] \in Audit!InFlight)
      /\ UNCHANGED <<at, status, cordoned, pods, kubelet, annotated, unsafe, stuck, isKind,
                     last, faults, crashes>>
      BY DEF Receive, Audit!Receive, node
<1>2. /\ stage \in [Calls -> Audit!Stages] /\ op \in [Calls -> DOMAIN Steps \cup {"none"}]
      /\ {overlapped, asked} \subseteq BOOLEAN
      BY DEF NodeInv, TypeOK, Audit!TypeOK
<1>3. op[c] = "none" /\ at[c] = 0
      BY <1>1 DEF NodeInv, TypeOK, OpInv
<1>4. Audit!TypeOK' /\ overlapped' \in BOOLEAN /\ Steps' = Steps
      BY <1>1, AuditTypes DEF NodeInv, TypeOK, Steps
<1>5. CASE stage' = [stage EXCEPT ![c] = "refused"] /\ UNCHANGED <<op, asked>>
  <2>1. stage'[c] = "refused" /\ \A d \in Calls : d # c => stage'[d] = stage[d]
        BY <1>2, <1>5
  <2>2. TypeOK' /\ at' \in [Calls -> Nat]
        BY <1>1, <1>4, <1>5 DEF NodeInv, TypeOK
  <2>3. OpInv'
        BY <1>1, <1>3, <1>5, <2>1 DEF NodeInv, OpInv
  <2>4. \A d \in Calls : Explains(d) => Explains(d)'
        BY <1>1, <1>5, <2>1 DEF Explains
  <2>5. CordonedInv'
        BY <1>1, <1>5, <2>4 DEF NodeInv, CordonedInv
  <2>6. SerialInv'
    <3>1. ~overlapped' => ~overlapped
          BY <1>1
    <3>2. \A d \in Calls : (Progress(d)' <=> Progress(d)) /\ (Held(d)' <=> Held(d))
          BY <1>1, <1>5 DEF Progress, Held
    <3>3. last \in Calls \cup {None}
          BY DEF NodeInv, TypeOK
    <3> QED
        BY <1>1, <2>1, <3>1, <3>2, <3>3 DEF NodeInv, SerialInv, Audit!InFlight
  <2> QED
      BY <2>2, <2>3, <2>5, <2>6 DEF NodeInv
<1>6. ASSUME NEW o \in DOMAIN Steps,
             stage' = [stage EXCEPT ![c] = "running"], op' = [op EXCEPT ![c] = o],
             asked' = (asked \/ o \in {"cordon", "drain"})
      PROVE  NodeInv'
  <2>1. /\ stage'[c] = "running" /\ op'[c] = o /\ o # "none"
        /\ \A d \in Calls : d # c => stage'[d] = stage[d] /\ op'[d] = op[d]
        BY <1>2, <1>6, Lengths
  <2>2. TypeOK' /\ at' \in [Calls -> Nat]
    <3>1. op' \in [Calls -> DOMAIN Steps \cup {"none"}] /\ asked' \in BOOLEAN
          BY <1>2, <1>6
    <3>2. \A d \in Calls : at'[d] \in 0..(IF op'[d] = "none" THEN 0 ELSE Len(Steps[op'[d]]))
      <4>1. Len(Steps[o]) \in Nat
        <5>1. isKind \in BOOLEAN
              BY DEF NodeInv, TypeOK
        <5> QED
            BY <5>1, Lengths
      <4> QED
          BY <1>1, <1>3, <2>1, <4>1 DEF NodeInv, TypeOK
    <3> QED
        BY <1>1, <1>4, <3>1, <3>2 DEF NodeInv, TypeOK
  <2>3. OpInv'
        BY <1>1, <1>6, <2>1 DEF NodeInv, OpInv
  <2>4. \A d \in Calls : Explains(d) => Explains(d)'
        BY <1>1, <1>3, <2>1 DEF Explains
  <2>5. CordonedInv'
        BY <1>1, <1>6, <2>4 DEF NodeInv, CordonedInv
  <2>6. SerialInv'
    <3> SUFFICES ASSUME ~overlapped'
                 PROVE  /\ ~unsafe
                        /\ \A d, e \in Calls : {stage'[d], stage'[e]} \subseteq Audit!InFlight => d = e
                        /\ \A d \in Calls : stage'[d] = "running" => Progress(d)'
        BY <1>1, <2>1 DEF SerialInv
    <3>1. (\A d \in Calls : stage[d] \notin Audit!InFlight) /\ ~overlapped
          BY <1>1
    <3>2. Progress(c)' /\ ~unsafe
          BY <1>1, <1>3, <3>1 DEF Progress, NodeInv, SerialInv
    <3> QED
        BY <2>1, <3>1, <3>2 DEF Audit!InFlight
  <2> QED
      BY <2>2, <2>3, <2>5, <2>6 DEF NodeInv
<1>7. stage' = [stage EXCEPT ![c] = "refused"] \/ stage' = [stage EXCEPT ![c] = "running"]
      BY <1>1 DEF Audit!Receive, Audit!Goto
<1>8. stage'[c] = "refused" <=> stage' = [stage EXCEPT ![c] = "refused"]
      BY <1>2, <1>7
<1> QED
    BY <1>5, <1>6, <1>7, <1>8 DEF Receive

LEMMA LogStep ==
    ASSUME NodeInv, NEW c \in Calls, Log(c)
    PROVE  NodeInv'
<1>1. /\ stage[c] \in {"log_ok", "log_fail", "reply_ok", "reply_error"}
      /\ Audit!LogOK(c) \/ Audit!LogFail(c) \/ Audit!Answer(c)
      /\ UNCHANGED <<op, at, status, cordoned, pods, kubelet, annotated, unsafe, stuck, isKind,
                     asked, overlapped, last, faults, crashes>>
      BY DEF Log, Audit!LogOK, Audit!LogFail, Audit!Answer, node
<1>2. /\ stage'[c] \in {"reply_ok", "ok", "reply_error", "error", "log_fail"}
      /\ stage[c] \in {"log_fail", "reply_error"} => stage'[c] \in {"reply_error", "error"}
      /\ \A d \in Calls : d # c => stage'[d] = stage[d]
      BY DEF Log, Audit!LogOK, Audit!LogFail, Audit!Answer, Audit!Goto, NodeInv, TypeOK, Audit!TypeOK
<1>3. TypeOK' /\ at' \in [Calls -> Nat]
  <2>1. Audit!TypeOK' /\ Steps' = Steps
        BY <1>1, AuditTypes DEF NodeInv, TypeOK, Steps
  <2> QED
      BY <1>1, <2>1 DEF NodeInv, TypeOK
<1>4. OpInv'
      BY <1>1, <1>2 DEF NodeInv, OpInv
<1>5. CordonedInv'
  <2>1. \A d \in Calls : Explains(d) => Explains(d)'
        BY <1>1, <1>2 DEF Explains
  <2> QED
      BY <1>1, <2>1 DEF NodeInv, CordonedInv
<1>6. SerialInv'
  <2>1. \A d \in Calls : (stage'[d] = "running") <=> (stage[d] = "running")
        BY <1>1, <1>2
  <2>2. \A d \in Calls : stage'[d] \in Audit!InFlight => stage[d] \in Audit!InFlight
        BY <1>1, <1>2 DEF Audit!InFlight
  <2>3. \A d \in Calls : (Progress(d)' <=> Progress(d)) /\ (Held(d)' <=> Held(d))
        BY <1>1 DEF Progress, Held
  <2>4. last \in Calls \cup {None}
        BY DEF NodeInv, TypeOK
  <2> QED
      BY <1>1, <2>1, <2>2, <2>3, <2>4 DEF NodeInv, SerialInv
<1> QED
    BY <1>3, <1>4, <1>5, <1>6 DEF NodeInv

LEMMA ScheduleStep ==
    ASSUME NodeInv, Schedule
    PROVE  NodeInv'
<1>1. /\ ~cordoned /\ ~pods /\ pods' = TRUE
      /\ UNCHANGED <<stage, worked, audit, dbFaults, op, at, status, cordoned, kubelet, annotated,
                     unsafe, stuck, isKind, asked, overlapped, last, faults, crashes>>
      BY DEF Schedule, handler
<1>2. TypeOK' /\ at' \in [Calls -> Nat]
  <2>1. Audit!TypeOK' /\ Steps' = Steps
        BY <1>1 DEF NodeInv, TypeOK, Audit!TypeOK, Steps
  <2> QED
      BY <1>1, <2>1 DEF NodeInv, TypeOK
<1>3. OpInv' /\ CordonedInv'
      BY <1>1 DEF NodeInv, OpInv, CordonedInv
<1>4. SerialInv'
  <2>1. \A c \in Calls : (Progress(c) => Progress(c)') /\ (Held(c) => Held(c)')
        BY <1>1 DEF Progress, Held
  <2>2. last \in Calls \cup {None}
        BY DEF NodeInv, TypeOK
  <2> QED
      BY <1>1, <2>1, <2>2 DEF NodeInv, SerialInv
<1> QED
    BY <1>2, <1>3, <1>4 DEF NodeInv

LEMMA CrashStep ==
    ASSUME NodeInv, Crash
    PROVE  NodeInv'
<1>1. /\ crashes' \in 0..MaxCrashes /\ last' = None
      /\ stage' = [c \in Calls |-> IF stage[c] \in Audit!InFlight THEN "lost" ELSE stage[c]]
      /\ UNCHANGED <<worked, audit, dbFaults, op, at, status, cordoned, pods, kubelet, annotated,
                     unsafe, stuck, isKind, asked, overlapped, faults>>
      BY DEF Crash, Audit!Crash, node, NodeInv, TypeOK
<1>2. \A c \in Calls : /\ stage[c] \in Audit!InFlight => stage'[c] = "lost"
                       /\ stage[c] \notin Audit!InFlight => stage'[c] = stage[c]
      BY <1>1
<1>3. TypeOK' /\ at' \in [Calls -> Nat]
  <2>1. stage' \in [Calls -> Audit!Stages]
        BY <1>1 DEF NodeInv, TypeOK, Audit!TypeOK, Audit!Stages
  <2>2. Audit!TypeOK' /\ Steps' = Steps
        BY <1>1, <2>1 DEF NodeInv, TypeOK, Audit!TypeOK, Steps
  <2> QED
      BY <1>1, <2>2 DEF NodeInv, TypeOK
<1>4. OpInv'
      BY <1>1, <1>2 DEF NodeInv, OpInv, Audit!InFlight
<1>5. CordonedInv'
  <2>1. \A c \in Calls : Explains(c) => Explains(c)'
        BY <1>1, <1>2 DEF Explains, Audit!InFlight
  <2> QED
      BY <1>1, <2>1 DEF NodeInv, CordonedInv
<1>6. SerialInv'
      BY <1>1, <1>2 DEF NodeInv, SerialInv, Audit!InFlight
<1> QED
    BY <1>3, <1>4, <1>5, <1>6 DEF NodeInv

LEMMA NodeNext == NodeInv /\ [Next]_vars => NodeInv'
<1> SUFFICES ASSUME NodeInv, [Next]_vars PROVE NodeInv'
    OBVIOUS
<1>1. CASE \E c \in Calls : Receive(c) \/ Work(c)
      BY <1>1, ReceiveStep, SucceedsStep, ReturnsStep, CommandFailsStep, ReturnsFailedStep,
         LogStep DEF Work
<1>2. CASE Schedule \/ Crash
      BY <1>2, ScheduleStep, CrashStep
<1>3. CASE UNCHANGED vars
  <2>1. UNCHANGED <<stage, worked, audit, dbFaults, op, at, status, cordoned, pods, kubelet,
                    annotated, unsafe, stuck, isKind, asked, overlapped, last, faults, crashes>>
        BY <1>3 DEF vars, handler, node
  <2>2. TypeOK' /\ at' \in [Calls -> Nat]
    <3>1. Audit!TypeOK' /\ Steps' = Steps
          BY <2>1 DEF NodeInv, TypeOK, Audit!TypeOK, Steps
    <3> QED
        BY <2>1, <3>1 DEF NodeInv, TypeOK
  <2>3. OpInv'
        BY <2>1 DEF NodeInv, OpInv
  <2>4. CordonedInv'
        BY <2>1 DEF NodeInv, CordonedInv, Explains
  <2>5. SerialInv'
        BY <2>1 DEF NodeInv, SerialInv, Progress, Held
  <2> QED
      BY <2>2, <2>3, <2>4, <2>5 DEF NodeInv
<1> QED
    BY <1>1, <1>2, <1>3 DEF Next

-----------------------------------------------------------------------------
(* Theorems *)

LEMMA NodeInvariant == Spec => []NodeInv
<1> QED
    BY NodeStart, NodeNext, PTL DEF Spec

\* TypeOK: calls and node are well formed, for any number of calls, and no
\* function runs past its last command.
THEOREM NodeTypeCorrect == Spec => []TypeOK
<1>1. NodeInv => TypeOK
      BY DEF NodeInv
<1> QED
    BY <1>1, NodeInvariant, PTL

\* CordonedIsExplained: however calls overlap, fail or are cut off, a node takes
\* no pods because somebody asked for it, or because of an upgrade that is under
\* way or stopped half way and says so (k8s_client.py:226-264).
THEOREM CordonedExplained == Spec => []CordonedIsExplained
<1>1. NodeInv => CordonedIsExplained
  <2> SUFFICES ASSUME NodeInv, cordoned, ~asked PROVE CordonedIsExplained
      BY DEF CordonedIsExplained
  <2>1. PICK c \in Calls : Explains(c)
        BY DEF NodeInv, CordonedInv
  <2>2. Len(Steps.upgrade) - 1 = 6
        BY <2>1 DEF Explains, Steps
  <2>3. HalfDone(c)
        BY <2>1, <2>2 DEF Explains, HalfDone
  <2> QED
      BY <2>1, <2>3 DEF Explains, CordonedIsExplained
<1> QED
    BY <1>1, NodeInvariant, PTL

\* RestartsOnEmptyNode: as long as calls follow one another, no upgrade restarts
\* the kubelet under pods (k8s_client.py:247-256).
THEOREM RestartsAreSafe == Spec => []RestartsOnEmptyNode
<1>1. NodeInv => RestartsOnEmptyNode
      BY DEF NodeInv, SerialInv, RestartsOnEmptyNode
<1> QED
    BY <1>1, NodeInvariant, PTL

\* LastOperationHolds: as long as calls follow one another, the node is what the
\* last one that worked made of it.
THEOREM NodeLastHolds == Spec => []LastOperationHolds
<1>1. NodeInv => LastOperationHolds
  <2> SUFFICES ASSUME NodeInv, last # None, ~overlapped, \A c \in Calls : stage[c] # "running"
               PROVE  LastOperationHolds
      BY DEF LastOperationHolds
  <2>1. Held(last) /\ kubelet \in [installed : {"old", "new"}, runs : {"old", "new"}]
        BY DEF NodeInv, SerialInv, TypeOK
  <2>2. op[last] \in {"cordon", "uncordon", "drain", "upgrade"}
        BY <2>1, Lengths DEF NodeInv, TypeOK, Held
  <2>3. /\ op[last] = "cordon" => cordoned
        /\ op[last] = "uncordon" => ~cordoned
        /\ op[last] = "drain" => cordoned /\ ~pods
        /\ op[last] = "upgrade" =>
               IF isKind THEN annotated
               ELSE ~cordoned /\ kubelet = [installed |-> "new", runs |-> "new"]
        BY <2>1 DEF Held
  <2> QED
      BY <2>2, <2>3 DEF LastOperationHolds
<1> QED
    BY <1>1, NodeInvariant, PTL

-----------------------------------------------------------------------------
(* The handlers are audited *)

Audited == INSTANCE AuditProofs

LEMMA NodeAudit ==
    /\ Init => Audited!Init
    /\ [Next]_vars => [Audited!Next]_Audited!vars
<1>1. Init => Audited!Init
      BY DEF Init, Audit!Init, Audited!Init
<1>2. ASSUME NEW c \in Calls, Receive(c) \/ Work(c) PROVE [Audited!Next]_Audited!vars
  <2> USE DEF Audited!Next, Audited!Goto, Audit!Goto
  <2>1. CASE Receive(c)
        BY <2>1 DEF Receive, Audit!Receive, Audited!Receive
  <2>2. CASE CommandSucceeds(c)
        BY <2>2 DEF CommandSucceeds, handler, Audited!vars
  <2>3. CASE ServiceReturns(c) \/ UpgradeReturnsFailed(c)
        BY <2>3 DEF ServiceReturns, UpgradeReturnsFailed,
                    Audit!ServiceReturns, Audited!ServiceReturns
  <2>4. CASE CommandFails(c)
        BY <2>4 DEF CommandFails, Audit!ServiceRaises, Audited!ServiceRaises
  <2>5. CASE Log(c)
        BY <2>5 DEF Log, Audit!LogOK, Audit!LogFail, Audit!Answer,
                    Audited!LogOK, Audited!LogFail, Audited!Answer,
                    Audit!Writes, Audit!WriteRaises, Audited!Writes, Audited!WriteRaises
  <2> QED
      BY <1>2, <2>1, <2>2, <2>3, <2>4, <2>5 DEF Work
<1>3. ASSUME Schedule \/ UNCHANGED vars PROVE UNCHANGED Audited!vars
      BY <1>3 DEF Schedule, vars, handler, Audited!vars
<1>4. ASSUME Crash PROVE Audited!Next
      BY <1>4 DEF Crash, Audit!Crash, Audited!Crash, Audited!Next,
                  Audit!InFlight, Audited!InFlight
<1> QED
    BY <1>1, <1>2, <1>3, <1>4 DEF Next

\* The module the theorems come from says what the module of the model says.
LEMMA SameAudit ==
    /\ Audited!Init => Audit!Init
    /\ [Audited!Next]_Audited!vars => [Audit!Next]_Audit!vars
    /\ Audited!LogAgreesWithAnswers => Audit!LogAgreesWithAnswers
    /\ Audited!MisreportsAreFaults => Audit!MisreportsAreFaults
<1>1. Audited!Init => Audit!Init
      BY DEF Audit!Init, Audited!Init
<1>2. Audited!InFlight = Audit!InFlight
      BY DEF Audit!InFlight, Audited!InFlight
<1>3. ASSUME NEW c \in Calls,
             \/ Audited!Receive(c) \/ Audited!ServiceReturns(c) \/ Audited!ServiceRaises(c)
             \/ Audited!LogOK(c) \/ Audited!LogFail(c) \/ Audited!Answer(c)
      PROVE  Audit!Next
      BY <1>3 DEF Audit!Next, Audit!Goto, Audited!Goto, Audit!Receive, Audited!Receive,
                  Audit!ServiceReturns, Audited!ServiceReturns,
                  Audit!ServiceRaises, Audited!ServiceRaises,
                  Audit!LogOK, Audited!LogOK, Audit!LogFail, Audited!LogFail,
                  Audit!Answer, Audited!Answer,
                  Audit!Writes, Audited!Writes, Audit!WriteRaises, Audited!WriteRaises
<1>4. Audited!Crash => Audit!Next
      BY <1>2 DEF Audit!Next, Audit!Crash, Audited!Crash
<1>5. Audited!Next => Audit!Next
      BY <1>3, <1>4 DEF Audited!Next
<1>6. Audited!LogAgreesWithAnswers => Audit!LogAgreesWithAnswers
      BY DEF Audit!LogAgreesWithAnswers, Audited!LogAgreesWithAnswers
<1>7. Audited!MisreportsAreFaults => Audit!MisreportsAreFaults
  <2>1. \A S : Audited!Cardinality(S) = Audit!Cardinality(S)
        BY DEF Audit!Cardinality, Audited!Cardinality
  <2> QED
      BY <2>1 DEF Audit!MisreportsAreFaults, Audited!MisreportsAreFaults
<1>8. [Audited!Next]_Audited!vars => [Audit!Next]_Audit!vars
      BY <1>5 DEF Audit!vars, Audited!vars
<1> QED
    BY <1>1, <1>6, <1>7, <1>8

(***************************************************************************)
(* The calls to a node are audited as AuditedOperation says, whatever      *)
(* their commands do and whichever of them fail.                           *)
(***************************************************************************)
THEOREM NodeIsAudited == Spec => Audit!Spec
  BY NodeAudit, SameAudit, PTL DEF Spec, Audit!Spec

(***************************************************************************)
(* So of the calls that were answered, "OK" is logged for exactly those    *)
(* answered with success; a logged "OK" without an answer is that of a     *)
(* call the crash ended after its commit; and each call that worked and is *)
(* reported as a failure, or is left out of the log, cost a database error *)
(* of its own.                                                             *)
(***************************************************************************)
THEOREM NodeLogIsTruthful == Spec => []Audit!LogAgreesWithAnswers /\ []Audit!MisreportsAreFaults
<1>1. Audited!AuditAssumption
      BY DEF Audited!AuditAssumption, IsFiniteSet, Audited!IsFiniteSet
<1>2. Audited!Spec => []Audited!LogAgreesWithAnswers
      BY <1>1, Audited!AuditIsTruthful
<1>3. Audited!Spec => []Audited!MisreportsAreFaults
      BY <1>1, Audited!MisreportsCostFaults
<1>4. Spec => Audited!Spec
      BY NodeAudit, PTL DEF Spec, Audited!Spec
<1> QED
    BY <1>2, <1>3, <1>4, SameAudit, PTL
==============================================================================
