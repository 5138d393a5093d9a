------------------------------- MODULE NodeOps -------------------------------
(***************************************************************************)
(* What the node handlers of backend/routers/kubernetes_ops.py do to one   *)
(* Kubernetes node: k8s_cordon_node, k8s_uncordon_node, k8s_drain_node and *)
(* k8s_upgrade_cluster of backend/services/k8s_client.py run commands one  *)
(* after another in a thread of their own.  Nothing keeps two calls about  *)
(* the same node apart, and an upgrade that stops half way undoes nothing. *)
(* Around them is the handler of AuditedOperation.                         *)
(*                                                                         *)
(* An upgrade runs its commands on the backend's own host: the model has   *)
(* that host be the node, the only deployment they make sense in.  The     *)
(* commands and the cluster are external.                                  *)
(*                                                                         *)
(* A definition whose name ends in _<Mistake> is a variant no action uses: *)
(* a plausible slip in the code, there to show which property notices it.  *)
(***************************************************************************)
EXTENDS Naturals, Sequences, FiniteSets

CONSTANTS
    Calls,              \* the calls, each with one operation
    None,
    MaxDbFaults,        \* bound on log_activity calls that raise
    MaxFaults,          \* bound on commands that fail for reasons of their own
    MaxCrashes          \* bound on deaths of the backend process

ASSUME NodeAssumption ==
    /\ IsFiniteSet(Calls)
    /\ None \notin Calls
    /\ {MaxDbFaults, MaxFaults, MaxCrashes} \subseteq Nat

VARIABLES
    stage, worked, audit, dbFaults,     \* the handlers: see AuditedOperation
    isKind,             \* whether some node name of the cluster contains "kind"
    op,                 \* the operation of each call, "none" before it
    at,                 \* the number of commands of a call that succeeded
    status,             \* result["status"], or "none"
    cordoned,           \* node.spec.unschedulable
    pods,               \* whether pods other than those of daemon sets run on it
    stuck,              \* whether a disruption budget forbids to evict them
    kubelet,            \* the kubelet: what is installed and what runs
    annotated,          \* whether the desired version was recorded
    unsafe,             \* history: whether a kubelet was restarted under pods
    asked,              \* history: whether a cordon or a drain has been started
    overlapped,         \* history: whether a call came in while another was served
    last,               \* history: the last call to end, if its function returned
    faults, crashes

handler == <<stage, worked, audit, dbFaults>>
node == <<cordoned, pods, kubelet, annotated, unsafe>>
vars == <<handler, op, at, status, node, stuck, isKind, asked, overlapped, last,
          faults, crashes>>

Audit == INSTANCE AuditedOperation

Steps_DrainsLate == [
    cordon   |-> <<"cordon">>,
    uncordon |-> <<"uncordon">>,
    drain    |-> <<"drain", "evict">>,
    upgrade  |-> IF isKind THEN <<"annotate">>
                 ELSE <<"kubeadm", "install", "reload", "restart",
                        "drain", "evict", "uncordon">>]

\* The commands of each function, in order.  kubectl drain is two of them: it
\* makes the node unschedulable, then evicts the pods it found.
Steps == [
    cordon   |-> <<"cordon">>,
    uncordon |-> <<"uncordon">>,
    drain    |-> <<"drain", "evict">>,
    upgrade  |-> IF isKind THEN <<"annotate">>
                 ELSE <<"kubeadm", "drain", "evict", "install",
                        "reload", "restart", "uncordon">>]

TypeOK ==
    /\ Audit!TypeOK
    /\ op \in [Calls -> DOMAIN Steps \cup {"none"}]
    /\ \A c \in Calls : at[c] \in 0..(IF op[c] = "none" THEN 0 ELSE Len(Steps[op[c]]))
    /\ status \in [Calls -> {"none", "done", "failed"}]
    /\ {cordoned, pods, stuck, annotated, unsafe, asked, overlapped, isKind} \subseteq BOOLEAN
    /\ kubelet \in [installed : {"old", "new"}, runs : {"old", "new"}]
    /\ last \in Calls \cup {None}
    /\ faults \in 0..MaxFaults
    /\ crashes \in 0..MaxCrashes

Init ==
    /\ Audit!Init
    /\ op = [c \in Calls |-> "none"]
    /\ at = [c \in Calls |-> 0]
    /\ status = [c \in Calls |-> "none"]
    /\ cordoned = FALSE
    /\ pods \in BOOLEAN
    /\ stuck \in BOOLEAN /\ isKind \in BOOLEAN
    /\ kubelet = [installed |-> "old", runs |-> "old"]
    /\ annotated = FALSE /\ unsafe = FALSE /\ asked = FALSE /\ overlapped = FALSE
    /\ last = None
    /\ faults = 0 /\ crashes = 0

-----------------------------------------------------------------------------
(* The node *)

Succeeds(cmd) ==
    \/ /\ cmd \in {"cordon", "drain"}
       /\ cordoned' = TRUE
       /\ UNCHANGED <<pods, kubelet, annotated, unsafe>>
    \/ /\ cmd = "evict"
       /\ pods => ~stuck
       /\ pods' = FALSE
       /\ UNCHANGED <<cordoned, kubelet, annotated, unsafe>>
    \/ /\ cmd = "uncordon"
       /\ cordoned' = FALSE
       /\ UNCHANGED <<pods, kubelet, annotated, unsafe>>
    \/ /\ cmd = "install"
       /\ kubelet' = [kubelet EXCEPT !.installed = "new"]
       /\ UNCHANGED <<cordoned, pods, annotated, unsafe>>
    \/ /\ cmd = "restart"
       /\ kubelet' = [kubelet EXCEPT !.runs = kubelet.installed]
       /\ unsafe' = (unsafe \/ pods)
       /\ UNCHANGED <<cordoned, pods, annotated>>
    \/ /\ cmd = "annotate"
       /\ annotated' = TRUE
       /\ UNCHANGED <<cordoned, pods, kubelet, unsafe>>
    \/ /\ cmd \in {"kubeadm", "reload"}
       /\ UNCHANGED node

\* The scheduler puts a pod on a node that is not cordoned.
Schedule ==
    /\ ~cordoned /\ ~pods
    /\ pods' = TRUE
    /\ UNCHANGED <<handler, op, at, status, cordoned, kubelet, annotated, unsafe,
                   stuck, isKind, asked, overlapped, last, faults, crashes>>

-----------------------------------------------------------------------------
(* The handlers and their threads *)

Command(c) == Steps[op[c]][at[c] + 1]

Runs(c) == stage[c] = "running" /\ at[c] < Len(Steps[op[c]])

Receive(c) ==
    /\ Audit!Receive(c)
    /\ IF stage'[c] = "refused" THEN UNCHANGED <<op, asked>>
       ELSE \E o \in DOMAIN Steps :
                /\ op' = [op EXCEPT ![c] = o]
                /\ asked' = (asked \/ o \in {"cordon", "drain"})
    /\ overlapped' = (overlapped \/ \E d \in Calls : stage[d] \in Audit!InFlight)
    /\ UNCHANGED <<at, status, node, stuck, isKind, last, faults, crashes>>

CommandSucceeds(c) ==
    /\ Runs(c)
    /\ Succeeds(Command(c))
    /\ at' = [at EXCEPT ![c] = @ + 1]
    /\ UNCHANGED <<handler, op, status, stuck, isKind, asked, overlapped, last, faults, crashes>>

ServiceReturns(c) ==
    /\ at[c] > 0 /\ at[c] = Len(Steps[op[c]])
    /\ Audit!ServiceReturns(c)
    /\ status' = [status EXCEPT ![c] = "done"]
    /\ last' = c
    /\ UNCHANGED <<op, at, node, stuck, isKind, asked, overlapped, faults, crashes>>

Fault == faults < MaxFaults /\ faults' = faults + 1

\* subprocess.run(.., timeout=..) kills the command and raises; kubectl drain
\* --timeout=120s gives up by itself.
TimesOut(c) == Command(c) = "evict" /\ pods /\ stuck /\ UNCHANGED faults

\* A command that failed or was killed may have done its work all the same.
PerhapsDone(c) == UNCHANGED node \/ Succeeds(Command(c))

CommandFails_RunsOn(c) ==
    /\ Runs(c)
    /\ Fault \/ TimesOut(c)
    /\ at' = [at EXCEPT ![c] = @ + 1]
    /\ UNCHANGED <<handler, op, status, node, stuck, isKind, asked, overlapped, last, crashes>>

CommandFails_OnlyByItself(c) ==
    /\ Runs(c)
    /\ Fault /\ PerhapsDone(c)
    /\ Audit!ServiceRaises(c)
    /\ last' = None
    /\ UNCHANGED <<op, at, status, stuck, isKind, asked, overlapped, crashes>>

\* A command cannot be started, times out, or (unless it is one of an upgrade)
\* ends with another return code than 0: the function raises.
CommandFails(c) ==
    /\ Runs(c)
    /\ Fault \/ TimesOut(c)
    /\ PerhapsDone(c)
    /\ Audit!ServiceRaises(c)
    /\ last' = None
    /\ UNCHANGED <<op, at, status, stuck, isKind, asked, overlapped, crashes>>

\* A command of an upgrade ends with another return code than 0: the function
\* returns a result whose status is "failed".
UpgradeReturnsFailed(c) ==
    /\ Runs(c)
    /\ op[c] = "upgrade" /\ ~isKind
    /\ Fault /\ PerhapsDone(c)
    /\ Audit!ServiceReturns(c)
    /\ status' = [status EXCEPT ![c] = "failed"]
    /\ last' = None
    /\ UNCHANGED <<op, at, stuck, isKind, asked, overlapped, crashes>>

\* The handler writes its verdict to the log, then answers.
Log(c) ==
    /\ Audit!LogOK(c) \/ Audit!LogFail(c) \/ Audit!Answer(c)
    /\ UNCHANGED <<op, at, status, node, stuck, isKind, asked, overlapped, last, faults, crashes>>

Crash ==
    /\ crashes < MaxCrashes
    /\ crashes' = crashes + 1
    /\ Audit!Crash
    /\ last' = None
    /\ UNCHANGED <<op, at, status, node, stuck, isKind, asked, overlapped, faults>>

Work(c) == \/ CommandSucceeds(c) \/ ServiceReturns(c) \/ CommandFails(c)
           \/ UpgradeReturnsFailed(c) \/ Log(c)

Next == (\E c \in Calls : Receive(c) \/ Work(c)) \/ Schedule \/ Crash

Spec == Init /\ [][Next]_vars

\* Every thread is scheduled, and every command ends or is killed.
FairSpec == Spec /\ \A c \in Calls : WF_vars(Work(c))

-----------------------------------------------------------------------------
(* Correctness *)

\* The upgrades that reached their first command on the node and not their last.
HalfDone(c) == op[c] = "upgrade" /\ at[c] \in 1..(Len(Steps.upgrade) - 1)

(***************************************************************************)
(* If calls follow one another, an upgrade never restarts the kubelet      *)
(* under pods that could have been moved: what it drained stays drained.   *)
(***************************************************************************)
RestartsOnEmptyNode == ~overlapped => ~unsafe

(***************************************************************************)
(* A node that takes no pods although nobody asked for a cordon or a drain *)
(* is being upgraded, or an upgrade stopped half way and says so: it was   *)
(* lost, raised, or returned "failed".                                     *)
(***************************************************************************)
CordonedIsExplained ==
    cordoned /\ ~asked =>
        \E c \in Calls : HalfDone(c) /\ (stage[c] \in {"log_ok", "reply_ok", "ok"} => status[c] = "failed")

(***************************************************************************)
(* If calls follow one another, the node is what the last call left it, if *)
(* that worked, until the next is received; after an upgrade it takes pods *)
(* again and runs the kubelet that was installed.                          *)
(***************************************************************************)
LastOperationHolds ==
    last # None /\ ~overlapped /\ (\A c \in Calls : stage[c] # "running") =>
        CASE op[last] = "cordon"   -> cordoned
          [] op[last] = "uncordon" -> ~cordoned
          [] op[last] = "drain"    -> cordoned /\ ~pods
          [] op[last] = "upgrade"  ->
                 IF isKind THEN annotated
                 ELSE ~cordoned /\ kubelet = [installed |-> "new", runs |-> "new"]

(***************************************************************************)
(* Every call is answered or lost in a crash, even one that waits for pods *)
(* a disruption budget keeps on the node.                                  *)
(***************************************************************************)
EveryCallEnds ==
    \A c \in Calls : stage[c] = "running" ~> stage[c] \in Audit!Answers \cup {"lost"}

-----------------------------------------------------------------------------
(* What the documentation says, and the code does not do *)

(***************************************************************************)
(* "Successful and failed operational actions are intended to be           *)
(* represented in the activity log so operators can inspect what           *)
(* happened": an upgrade that failed is not logged as "OK".                *)
(***************************************************************************)
FailedIsNotLoggedOK == \A c \in Calls : status[c] = "failed" => "OK" \notin audit[c]
=============================================================================
