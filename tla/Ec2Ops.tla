-------------------------------- MODULE Ec2Ops -------------------------------
(***************************************************************************)
(* What the AWS handlers (backend/routers/aws.py) do to one EC2 instance:  *)
(* the functions of backend/services/aws_client.py are sequences of EC2    *)
(* requests, run in a thread of their own, with nothing that undoes the    *)
(* first requests when a later one fails and nothing that keeps two calls  *)
(* about the same instance apart.  Around them is the handler of           *)
(* AuditedOperation.                                                       *)
(*                                                                         *)
(* EC2 is external: it refuses a request the state of the instance does    *)
(* not allow, may refuse any other (throttling, capacity, permissions),    *)
(* and changes state on its own between requests.                          *)
(*                                                                         *)
(* A definition whose name ends in _<Mistake> is a variant no action uses: *)
(* a plausible slip in the code, there to show which property notices it.  *)
(***************************************************************************)
EXTENDS Naturals, Sequences, FiniteSets

CONSTANTS
    Calls,              \* the calls, each with one operation and one type
    Operations,         \* the operations calls may ask for
    Types,              \* instance types
    FirstType,          \* the type the instance has before any call
    None,
    MaxDbFaults,        \* bound on log_activity calls that raise
    MaxApiFaults,       \* bound on EC2 requests refused for other reasons
    MaxCrashes          \* bound on deaths of the backend process

ASSUME Ec2Assumption ==
    /\ IsFiniteSet(Calls)
    /\ Operations \subseteq {"start", "stop", "terminate", "resize", "snapshot", "volume", "patch"}
    /\ FirstType \in Types
    /\ None \notin Calls
    /\ {MaxDbFaults, MaxApiFaults, MaxCrashes} \subseteq Nat

VARIABLES
    stage, worked, audit, dbFaults,     \* the handlers: see AuditedOperation
    op,                 \* the operation of each call, "none" before it
    type,               \* the instance_type a resize asks for
    at,                 \* the number of EC2 requests of a call that succeeded
    inst,               \* the instance: its state and its type
    volume,             \* the volume each call created
    device,             \* the call whose volume is attached as /dev/xvdf
    last,               \* history: the last call to end, if its function returned
    stops,              \* history: whether a stop call has made its request
    overlapped,         \* history: whether a call came in while another was served
    apiFaults, crashes

handler == <<stage, worked, audit, dbFaults>>
cloud == <<inst, volume, device>>
vars == <<handler, op, type, at, cloud, last, stops, overlapped, apiFaults, crashes>>

Audit == INSTANCE AuditedOperation

Steps_ResizeStops == [
    start    |-> <<"start_instances">>,
    stop     |-> <<"stop_instances">>,
    terminate |-> <<"terminate_instances">>,
    resize   |-> <<"stop_instances", "instance_stopped", "modify_instance_attribute">>,
    snapshot |-> <<"describe_instances", "create_snapshot">>,
    volume   |-> <<"create_volume", "volume_available", "attach_volume">>,
    patch    |-> <<"send_command">>]

\* The EC2 and SSM requests of each function of aws_client.py, in order.
Steps == [
    start    |-> <<"start_instances">>,
    stop     |-> <<"stop_instances">>,
    terminate |-> <<"terminate_instances">>,
    resize   |-> <<"stop_instances", "instance_stopped",
                   "modify_instance_attribute", "start_instances">>,
    snapshot |-> <<"describe_instances", "create_snapshot">>,
    volume   |-> <<"create_volume", "volume_available", "attach_volume">>,
    patch    |-> <<"send_command">>]

InstanceStates == {"pending", "running", "stopping", "stopped", "terminated"}

TypeOK ==
    /\ Audit!TypeOK
    /\ op \in [Calls -> DOMAIN Steps \cup {"none"}]
    /\ type \in [Calls -> Types]
    /\ \A c \in Calls : at[c] \in 0..(IF op[c] = "none" THEN 0 ELSE Len(Steps[op[c]]))
    /\ inst \in [state : InstanceStates, type : Types]
    /\ volume \in [Calls -> {"none", "creating", "available", "in-use"}]
    /\ device \in Calls \cup {None}
    /\ last \in Calls \cup {None}
    /\ {stops, overlapped} \subseteq BOOLEAN
    /\ apiFaults \in 0..MaxApiFaults
    /\ crashes \in 0..MaxCrashes

Init ==
    /\ Audit!Init
    /\ op = [c \in Calls |-> "none"]
    /\ type = [c \in Calls |-> FirstType]
    /\ at = [c \in Calls |-> 0]
    /\ inst = [state |-> "running", type |-> FirstType]
    /\ volume = [c \in Calls |-> "none"]
    /\ device = None
    /\ last = None
    /\ stops = FALSE /\ overlapped = FALSE
    /\ apiFaults = 0 /\ crashes = 0

-----------------------------------------------------------------------------
(* EC2 *)

Becomes(s) == inst' = [inst EXCEPT !.state = s] /\ UNCHANGED <<volume, device>>

VolumeBecomes(c, s) == volume' = [volume EXCEPT ![c] = s] /\ UNCHANGED inst

\* Request r of call c: when EC2 accepts it, and what it does then.
Accepted(c, r) ==
    \/ /\ r = "start_instances"
       /\ inst.state \in {"pending", "running", "stopped"}
       /\ Becomes(IF inst.state = "stopped" THEN "pending" ELSE inst.state)
    \/ /\ r = "stop_instances"
       /\ inst.state \in {"pending", "running", "stopping", "stopped"}
       /\ Becomes(IF inst.state = "stopped" THEN "stopped" ELSE "stopping")
    \/ /\ r = "terminate_instances"
       /\ inst' = [inst EXCEPT !.state = "terminated"]
       /\ volume' = [d \in Calls |-> IF d = device THEN "available" ELSE volume[d]]
       /\ device' = None
    \/ /\ r = "instance_stopped"
       /\ inst.state = "stopped"
       /\ UNCHANGED cloud
    \/ /\ r = "modify_instance_attribute"
       /\ inst.state = "stopped"
       /\ inst' = [inst EXCEPT !.type = type[c]]
       /\ UNCHANGED <<volume, device>>
    \/ /\ r \in {"describe_instances", "create_snapshot"}
       /\ UNCHANGED cloud
    \/ /\ r = "send_command"
       /\ inst.state = "running"
       /\ UNCHANGED cloud
    \/ /\ r = "create_volume"
       /\ VolumeBecomes(c, "creating")
       /\ UNCHANGED device
    \/ /\ r = "volume_available"
       /\ volume[c] = "available"
       /\ UNCHANGED cloud
    \/ /\ r = "attach_volume"
       /\ volume[c] = "available" /\ device = None
       /\ inst.state \in {"running", "stopped"}
       /\ VolumeBecomes(c, "in-use")
       /\ device' = c

Rejected_PollsForEver(c, r) ==
    \/ r = "start_instances" /\ inst.state \in {"stopping", "terminated"}
    \/ r = "stop_instances" /\ inst.state = "terminated"
    \/ r = "instance_stopped" /\ inst.state \in {"pending", "terminated"}
    \/ r = "modify_instance_attribute" /\ inst.state # "stopped"
    \/ r = "send_command" /\ inst.state # "running"
    \/ /\ r = "attach_volume"
       /\ volume[c] # "available" \/ device # None \/ inst.state \notin {"running", "stopped"}

\* The state of things rules request r of call c out.  A waiter polls: it
\* gives up at once on an instance that is pending or terminated, and after
\* 40 polls on one that runs because another call has started it.
Rejected(c, r) ==
    \/ r = "start_instances" /\ inst.state \in {"stopping", "terminated"}
    \/ r = "stop_instances" /\ inst.state = "terminated"
    \/ r = "instance_stopped" /\ inst.state \in {"pending", "running", "terminated"}
    \/ r = "modify_instance_attribute" /\ inst.state # "stopped"
    \/ r = "send_command" /\ inst.state # "running"
    \/ /\ r = "attach_volume"
       /\ volume[c] # "available" \/ device # None \/ inst.state \notin {"running", "stopped"}

\* EC2 moves on by itself.
Ec2Step ==
    /\ \/ inst.state = "pending" /\ Becomes("running")
       \/ inst.state = "stopping" /\ Becomes("stopped")
       \/ \E c \in Calls : /\ volume[c] = "creating"
                           /\ VolumeBecomes(c, "available")
                           /\ UNCHANGED device
    /\ UNCHANGED <<handler, op, type, at, last, stops, overlapped, apiFaults, crashes>>

-----------------------------------------------------------------------------
(* The handlers and their threads *)

Request(c) == Steps[op[c]][at[c] + 1]

\* The schema of the body makes a resize name a type.
Receive(c) ==
    /\ Audit!Receive(c)
    /\ IF stage'[c] = "refused" THEN UNCHANGED <<op, type>>
       ELSE \E o \in Operations : \E t \in Types :
                /\ o # "resize" => t = FirstType
                /\ op' = [op EXCEPT ![c] = o]
                /\ type' = [type EXCEPT ![c] = t]
    /\ overlapped' = (overlapped \/ \E d \in Calls : stage[d] \in Audit!InFlight)
    /\ UNCHANGED <<at, cloud, last, stops, apiFaults, crashes>>

\* The next request of the service function succeeds.
RequestSucceeds(c) ==
    /\ stage[c] = "running"
    /\ at[c] < Len(Steps[op[c]])
    /\ Accepted(c, Request(c))
    /\ at' = [at EXCEPT ![c] = @ + 1]
    /\ stops' = (stops \/ op[c] = "stop")
    /\ UNCHANGED <<handler, op, type, last, overlapped, apiFaults, crashes>>

\* A snapshot asks for one of each volume that describe_instances found: there
\* may be none, and those after the first change nothing here.
ServiceReturns(c) ==
    /\ at[c] > 0
    /\ at[c] = Len(Steps[op[c]]) \/ op[c] = "snapshot"
    /\ Audit!ServiceReturns(c)
    /\ last' = c
    /\ UNCHANGED <<op, type, at, cloud, stops, overlapped, apiFaults, crashes>>

RequestFails_Ignored(c) ==
    /\ stage[c] = "running"
    /\ at[c] < Len(Steps[op[c]])
    /\ Rejected(c, Request(c))
    /\ at' = [at EXCEPT ![c] = @ + 1]
    /\ UNCHANGED <<handler, op, type, cloud, last, stops, overlapped, apiFaults, crashes>>

\* A request raises, and what the function did before it stays done.  One that
\* EC2 does not reject may have taken effect although its answer was lost.
RequestFails(c) ==
    /\ stage[c] = "running"
    /\ at[c] < Len(Steps[op[c]])
    /\ \/ Rejected(c, Request(c)) /\ UNCHANGED <<cloud, apiFaults>>
       \/ /\ apiFaults < MaxApiFaults
          /\ apiFaults' = apiFaults + 1
          /\ UNCHANGED cloud \/ Accepted(c, Request(c))
    /\ stops' = (stops \/ op[c] = "stop")
    /\ Audit!ServiceRaises(c)
    /\ last' = None
    /\ UNCHANGED <<op, type, at, overlapped, crashes>>

\* The handler writes its verdict to the log, then answers.
Log(c) ==
    /\ Audit!LogOK(c) \/ Audit!LogFail(c) \/ Audit!Answer(c)
    /\ UNCHANGED <<op, type, at, cloud, last, stops, overlapped, apiFaults, crashes>>

Crash ==
    /\ crashes < MaxCrashes
    /\ crashes' = crashes + 1
    /\ Audit!Crash
    /\ last' = None
    /\ UNCHANGED <<op, type, at, cloud, stops, overlapped, apiFaults>>

Work(c) == RequestSucceeds(c) \/ ServiceReturns(c) \/ RequestFails(c) \/ Log(c)

Next == (\E c \in Calls : Receive(c) \/ Work(c)) \/ Ec2Step \/ Crash

Spec == Init /\ [][Next]_vars

\* Every thread is scheduled, and EC2 finishes what it has begun.
FairSpec == Spec /\ WF_vars(Ec2Step) /\ \A c \in Calls : WF_vars(Work(c))

-----------------------------------------------------------------------------
(* Correctness *)

(***************************************************************************)
(* An instance that is down without anybody having stopped it was stopped  *)
(* by a resize that is still under way, that was reported as failed, or    *)
(* that a crash cut short: no resize answered with success leaves it down, *)
(* whatever other calls do meanwhile.                                      *)
(***************************************************************************)
DownIsExplained ==
    inst.state \in {"stopping", "stopped"} /\ ~stops =>
        \E c \in Calls : op[c] = "resize" /\ stage[c] \in {"running", "log_fail", "reply_error", "error", "lost"}

(***************************************************************************)
(* A volume that is paid for and not attached belongs to a call that is    *)
(* under way, failed or lost, or the instance is gone; and one attached    *)
(* as /dev/xvdf to a call that got as far as attaching it.                 *)
(***************************************************************************)
VolumesAreAccountedFor ==
    /\ \A c \in Calls : volume[c] \in {"creating", "available"} =>
           stage[c] \in {"running", "log_fail", "reply_error", "error", "lost"} \/ inst.state = "terminated"
    /\ {c \in Calls : volume[c] = "in-use"} = {device} \ {None}

(***************************************************************************)
(* If calls follow one another, the instance is what the last call left    *)
(* it, if that worked, until the next is received: a resize ended with the *)
(* type it was asked for and a start, a volume is attached.                *)
(***************************************************************************)
LastOperationHolds ==
    last # None /\ ~overlapped /\ (\A c \in Calls : stage[c] # "running") =>
        CASE op[last] = "start"  -> inst.state \in {"pending", "running"}
          [] op[last] = "stop"   -> inst.state \in {"stopping", "stopped"}
          [] op[last] = "terminate" -> inst.state = "terminated"
          [] op[last] = "resize" -> /\ inst.state \in {"pending", "running"}
                                    /\ inst.type = type[last]
          [] op[last] = "volume" -> device = last
          [] OTHER -> TRUE

(***************************************************************************)
(* Every call is answered or lost in a crash, however the calls get into   *)
(* each other's way: no waiter waits for a state another call keeps the    *)
(* instance out of for ever.                                               *)
(***************************************************************************)
EveryCallEnds ==
    \A c \in Calls : stage[c] = "running" ~> stage[c] \in Audit!Answers \cup {"lost"}

-----------------------------------------------------------------------------
(* What the code says of itself, and does not do *)

(***************************************************************************)
(* "attach to /dev/xvdf (or next available)": a volume for an instance     *)
(* that is up is attached unless EC2 itself fails.                         *)
(***************************************************************************)
NextDeviceIsTaken ==
    apiFaults = 0 /\ inst.state = "running" =>
        \A c \in Calls : op[c] = "volume" => stage[c] # "log_fail"
=============================================================================
