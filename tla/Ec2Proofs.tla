------------------------------- MODULE Ec2Proofs ------------------------------
(***************************************************************************)
(* What calls leave of an EC2 instance and its volumes, for any number of  *)
(* calls and types and any number of faults.                               *)
(***************************************************************************)
EXTENDS Ec2Ops, TLAPS

USE Ec2Assumption

Volumes == {"none", "creating", "available", "in-use"}
Failing == {"log_fail", "reply_error", "error", "lost"}
IsDown == inst.state \in {"stopping", "stopped"}
IsUp == inst.state \in {"pending", "running"}

\* A call has an operation from the moment its handler runs.
OpInv ==
    \A c \in Calls : /\ stage[c] \in {"idle", "refused"} <=> op[c] = "none"
                     /\ at[c] \in Nat

\* Between its stop and its start a resize explains that the instance is down.
DownInv ==
    IsDown /\ ~stops =>
        \E c \in Calls : /\ op[c] = "resize"
                         /\ stage[c] \in Failing \/ (stage[c] = "running" /\ at[c] \in 1..3)

\* A volume is of a call that got that far, and is attached by its last request.
VolumeInv ==
    /\ \A c \in Calls :
           /\ volume[c] # "none" => op[c] = "volume"
           /\ volume[c] \in {"creating", "available"} =>
                  \/ inst.state = "terminated" \/ stage[c] \in Failing
                  \/ stage[c] = "running" /\ at[c] < 3
           /\ volume[c] = "in-use" /\ stage[c] = "running" => at[c] = 3
           /\ volume[c] = "in-use" <=> device = c

\* What the requests of a call have made of the instance, nobody else calling.
Progress(c) ==
    /\ op[c] = "start" /\ at[c] = 1 => IsUp
    /\ op[c] = "stop" /\ at[c] = 1 => IsDown
    /\ op[c] = "terminate" /\ at[c] = 1 => inst.state = "terminated"
    /\ op[c] = "resize" => /\ at[c] \in 1..3 => IsDown
                           /\ at[c] \in 3..4 => inst.type = type[c]
                           /\ at[c] = 4 => IsUp
    /\ op[c] = "volume" /\ at[c] = 3 => device = c

\* What they have made of it at their end.
Held(c) ==
    /\ op[c] = "start" => IsUp
    /\ op[c] = "stop" => IsDown
    /\ op[c] = "terminate" => inst.state = "terminated"
    /\ op[c] = "resize" => IsUp /\ inst.type = type[c]
    /\ op[c] = "volume" => device = c

SerialInv ==
    ~overlapped =>
        /\ \A c, d \in Calls : {stage[c], stage[d]} \subseteq Audit!InFlight => c = d
        /\ \A c \in Calls : stage[c] = "running" => Progress(c)
        /\ last # None /\ (\A c \in Calls : stage[c] # "running") => Held(last)

Ec2Inv ==
    /\ TypeOK /\ at \in [Calls -> Nat]
    /\ OpInv /\ DownInv /\ VolumeInv /\ SerialInv

-----------------------------------------------------------------------------
(* The requests of the service functions *)

LEMMA Lengths ==
    /\ DOMAIN Steps = {"start", "stop", "terminate", "resize", "snapshot", "volume", "patch"}
    /\ Len(Steps["start"]) = 1 /\ Len(Steps["stop"]) = 1 /\ Len(Steps["terminate"]) = 1
    /\ Len(Steps["resize"]) = 4 /\ Len(Steps["snapshot"]) = 2
    /\ Len(Steps["volume"]) = 3 /\ Len(Steps["patch"]) = 1
BY DEF Steps

\* Which request comes next.
LEMMA Requests ==
    ASSUME NEW c \in Calls, op[c] \in DOMAIN Steps, at[c] \in Nat, at[c] < Len(Steps[op[c]])
    PROVE  \/ op[c] = "start" /\ at[c] = 0 /\ Request(c) = "start_instances"
           \/ op[c] = "stop" /\ at[c] = 0 /\ Request(c) = "stop_instances"
           \/ op[c] = "terminate" /\ at[c] = 0 /\ Request(c) = "terminate_instances"
           \/ op[c] = "resize" /\ at[c] = 0 /\ Request(c) = "stop_instances"
           \/ op[c] = "resize" /\ at[c] = 1 /\ Request(c) = "instance_stopped"
           \/ op[c] = "resize" /\ at[c] = 2 /\ Request(c) = "modify_instance_attribute"
           \/ op[c] = "resize" /\ at[c] = 3 /\ Request(c) = "start_instances"
           \/ op[c] = "snapshot" /\ at[c] = 0 /\ Request(c) = "describe_instances"
           \/ op[c] = "snapshot" /\ at[c] = 1 /\ Request(c) = "create_snapshot"
           \/ op[c] = "volume" /\ at[c] = 0 /\ Request(c) = "create_volume"
           \/ op[c] = "volume" /\ at[c] = 1 /\ Request(c) = "volume_available"
           \/ op[c] = "volume" /\ at[c] = 2 /\ Request(c) = "attach_volume"
           \/ op[c] = "patch" /\ at[c] = 0 /\ Request(c) = "send_command"
<1>1. CASE op[c] = "start"
      BY <1>1 DEF Request, Steps
<1>2. CASE op[c] = "stop"
      BY <1>2 DEF Request, Steps
<1>3. CASE op[c] = "terminate"
      BY <1>3 DEF Request, Steps
<1>4. CASE op[c] = "resize"
  <2>1. at[c] \in 0..3
        BY <1>4, Lengths
  <2> QED
      BY <1>4, <2>1 DEF Request, Steps
<1>5. CASE op[c] = "snapshot"
  <2>1. at[c] \in 0..1
        BY <1>5, Lengths
  <2> QED
      BY <1>5, <2>1 DEF Request, Steps
<1>6. CASE op[c] = "volume"
  <2>1. at[c] \in 0..2
        BY <1>6, Lengths
  <2> QED
      BY <1>6, <2>1 DEF Request, Steps
<1>7. CASE op[c] = "patch"
      BY <1>7 DEF Request, Steps
<1> QED
    BY <1>1, <1>2, <1>3, <1>4, <1>5, <1>6, <1>7, Lengths

\* What EC2 does stays within the types, and no stop comes from elsewhere.
LEMMA Effects ==
    ASSUME inst \in [state : InstanceStates, type : Types], volume \in [Calls -> Volumes],
           device \in Calls \cup {None}, type \in [Calls -> Types], NEW c \in Calls, NEW r,
           Accepted(c, r)
    PROVE  /\ inst' \in [state : InstanceStates, type : Types]
           /\ volume' \in [Calls -> Volumes]
           /\ device' \in Calls \cup {None}
           /\ IsDown' => IsDown \/ r = "stop_instances"
           /\ r = "start_instances" => IsUp'
           /\ r = "stop_instances" => IsDown'
           /\ inst.state = "terminated" => inst'.state = "terminated"
           /\ r # "modify_instance_attribute" => inst'.type = inst.type
<1>1. CASE UNCHANGED cloud /\ r \notin {"start_instances", "stop_instances"}
      BY <1>1 DEF cloud, IsDown, IsUp
<1>2. CASE /\ r = "start_instances" /\ inst.state \in {"pending", "running", "stopped"}
           /\ Becomes(IF inst.state = "stopped" THEN "pending" ELSE inst.state)
      BY <1>2 DEF Becomes, IsDown, IsUp, InstanceStates
<1>3. CASE /\ r = "stop_instances" /\ inst.state \in {"pending", "running", "stopping", "stopped"}
           /\ Becomes(IF inst.state = "stopped" THEN "stopped" ELSE "stopping")
      BY <1>3 DEF Becomes, IsDown, IsUp, InstanceStates
<1>4. CASE /\ r = "terminate_instances"
           /\ inst' = [inst EXCEPT !.state = "terminated"]
           /\ volume' = [d \in Calls |-> IF d = device THEN "available" ELSE volume[d]]
           /\ device' = None
      BY <1>4 DEF IsDown, IsUp, InstanceStates, Volumes
<1>5. CASE /\ r = "modify_instance_attribute" /\ inst.state = "stopped"
           /\ inst' = [inst EXCEPT !.type = type[c]]
           /\ UNCHANGED <<volume, device>>
      BY <1>5 DEF IsDown, IsUp
<1>6. CASE r = "create_volume" /\ VolumeBecomes(c, "creating") /\ UNCHANGED device
      BY <1>6 DEF VolumeBecomes, IsDown, IsUp, Volumes
<1>7. CASE r = "attach_volume" /\ VolumeBecomes(c, "in-use") /\ device' = c
      BY <1>7 DEF VolumeBecomes, IsDown, IsUp, Volumes
<1> QED
    BY <1>1, <1>2, <1>3, <1>4, <1>5, <1>6, <1>7 DEF Accepted

LEMMA Ec2Start == Init => Ec2Inv
<1> SUFFICES ASSUME Init PROVE Ec2Inv
    OBVIOUS
<1>1. TypeOK /\ at \in [Calls -> Nat]
  <2>1. Audit!TypeOK
        BY DEF Init, Audit!Init, Audit!TypeOK, Audit!Stages
  <2>2. inst \in [state : InstanceStates, type : Types]
        BY DEF Init, InstanceStates
  <2>3. /\ MaxApiFaults \in Nat /\ MaxCrashes \in Nat
        /\ op \in [Calls -> DOMAIN Steps \cup {"none"}] /\ at \in [Calls -> Nat]
        /\ \A c \in Calls : op[c] = "none" /\ at[c] = 0
        /\ type \in [Calls -> Types]
        BY DEF Init
  <2>4. /\ volume \in [Calls -> {"none", "creating", "available", "in-use"}]
        /\ {stops, overlapped} \subseteq BOOLEAN
        /\ device \in Calls \cup {None} /\ last \in Calls \cup {None}
        BY DEF Init
  <2> QED
      BY <2>1, <2>2, <2>3, <2>4 DEF Init, TypeOK
<1>2. OpInv /\ DownInv
      BY DEF Init, Audit!Init, OpInv, DownInv, IsDown
<1>3. VolumeInv
      BY DEF Init, VolumeInv
<1>4. SerialInv
      BY DEF Init, Audit!Init, SerialInv, Audit!InFlight
<1> QED
    BY <1>1, <1>2, <1>3, <1>4 DEF Ec2Inv

-----------------------------------------------------------------------------
(* The steps *)

LEMMA AuditTypes ==
    ASSUME Audit!TypeOK, NEW c \in Calls,
           \/ Audit!Receive(c) \/ Audit!ServiceReturns(c) \/ Audit!ServiceRaises(c)
           \/ Audit!LogOK(c) \/ Audit!LogFail(c) \/ Audit!Answer(c)
    PROVE  Audit!TypeOK'
<1> USE DEF Audit!TypeOK, Audit!Stages, Audit!InFlight, Audit!Answers, Audit!Goto
<1>1. CASE Audit!Receive(c)
      BY <1>1 DEF Audit!Receive
<1>2. CASE Audit!ServiceReturns(c)
      BY <1>2 DEF Audit!ServiceReturns
<1>3. CASE Audit!ServiceRaises(c)
      BY <1>3 DEF Audit!ServiceRaises
<1>4. CASE Audit!LogOK(c)
      BY <1>4 DEF Audit!LogOK, Audit!Writes, Audit!WriteRaises
<1>5. CASE Audit!LogFail(c)
      BY <1>5 DEF Audit!LogFail, Audit!Writes, Audit!WriteRaises
<1>6. CASE Audit!Answer(c)
      BY <1>6 DEF Audit!Answer
<1> QED
    BY <1>1, <1>2, <1>3, <1>4, <1>5, <1>6

LEMMA SucceedsStep ==
    ASSUME Ec2Inv, NEW c \in Calls, RequestSucceeds(c)
    PROVE  Ec2Inv'
<1> DEFINE r == Request(c)
<1>1. /\ stage[c] = "running" /\ at[c] < Len(Steps[op[c]]) /\ Accepted(c, r)
      /\ at' = [at EXCEPT ![c] = @ + 1] /\ stops' = (stops \/ op[c] = "stop")
      /\ UNCHANGED <<stage, worked, audit, dbFaults, op, type, last, overlapped, apiFaults, crashes>>
      BY DEF RequestSucceeds, handler
<1>2. /\ op[c] \in DOMAIN Steps /\ at \in [Calls -> Nat] /\ at[c] \in Nat
      /\ stops \in BOOLEAN
      BY <1>1 DEF Ec2Inv, TypeOK, OpInv
<1>3. at'[c] = at[c] + 1 /\ \A d \in Calls : d # c => at'[d] = at[d]
      BY <1>1, <1>2
<1>4. /\ inst \in [state : InstanceStates, type : Types] /\ volume \in [Calls -> Volumes]
      /\ device \in Calls \cup {None} /\ type \in [Calls -> Types]
      BY DEF Ec2Inv, TypeOK, Volumes
<1>5. /\ inst' \in [state : InstanceStates, type : Types]
      /\ volume' \in [Calls -> Volumes] /\ device' \in Calls \cup {None}
      /\ IsDown' => IsDown \/ r = "stop_instances"
      /\ r = "start_instances" => IsUp'
      /\ r = "stop_instances" => IsDown'
      /\ inst.state = "terminated" => inst'.state = "terminated"
      /\ r # "modify_instance_attribute" => inst'.type = inst.type
      BY <1>1, <1>4, Effects
<1>6. \/ op[c] = "start" /\ at[c] = 0 /\ r = "start_instances"
      \/ op[c] = "stop" /\ at[c] = 0 /\ r = "stop_instances"
      \/ op[c] = "terminate" /\ at[c] = 0 /\ r = "terminate_instances"
      \/ op[c] = "resize" /\ at[c] = 0 /\ r = "stop_instances"
      \/ op[c] = "resize" /\ at[c] = 1 /\ r = "instance_stopped"
      \/ op[c] = "resize" /\ at[c] = 2 /\ r = "modify_instance_attribute"
      \/ op[c] = "resize" /\ at[c] = 3 /\ r = "start_instances"
      \/ op[c] = "snapshot" /\ at[c] = 0 /\ r = "describe_instances"
      \/ op[c] = "snapshot" /\ at[c] = 1 /\ r = "create_snapshot"
      \/ op[c] = "volume" /\ at[c] = 0 /\ r = "create_volume"
      \/ op[c] = "volume" /\ at[c] = 1 /\ r = "volume_available"
      \/ op[c] = "volume" /\ at[c] = 2 /\ r = "attach_volume"
      \/ op[c] = "patch" /\ at[c] = 0 /\ r = "send_command"
      BY <1>1, <1>2, Requests
<1> HIDE DEF r
<1>7. TypeOK' /\ at' \in [Calls -> Nat]
  <2>1. at' \in [Calls -> Nat]
        BY <1>1, <1>2
  <2>2. \A d \in Calls : at'[d] \in 0..(IF op[d] = "none" THEN 0 ELSE Len(Steps[op[d]]))
    <3>1. op[c] # "none" /\ Len(Steps[op[c]]) \in Nat
          BY <1>2, Lengths
    <3>2. at[c] + 1 \in 0..Len(Steps[op[c]])
          BY <1>1, <1>2, <3>1
    <3> QED
        BY <1>3, <3>1, <3>2 DEF Ec2Inv, TypeOK
  <2>3. Audit!TypeOK'
        BY <1>1 DEF Ec2Inv, TypeOK, Audit!TypeOK
  <2> QED
      BY <1>1, <1>2, <1>5, <2>1, <2>2, <2>3 DEF Ec2Inv, TypeOK, Volumes
<1>8. OpInv'
      BY <1>1, <1>2, <1>3 DEF Ec2Inv, OpInv
<1>9. DownInv'
  <2> SUFFICES ASSUME IsDown', ~stops'
               PROVE  \E d \in Calls : /\ op[d] = "resize"
                                       /\ \/ stage[d] \in Failing
                                          \/ stage[d] = "running" /\ at'[d] \in 1..3
      BY <1>1 DEF DownInv
  <2>1. CASE r = "stop_instances"
    <3>1. op[c] # "stop"
          BY <1>1
    <3>2. op[c] = "resize" /\ at'[c] = 1
          BY <1>3, <1>6, <2>1, <3>1
    <3> QED
        BY <1>1, <3>2
  <2>2. CASE r # "stop_instances"
    <3>1. PICK d \in Calls : /\ op[d] = "resize"
                             /\ \/ stage[d] \in Failing
                                \/ stage[d] = "running" /\ at[d] \in 1..3
          BY <1>1, <1>2, <1>5, <2>2 DEF Ec2Inv, DownInv
    <3>2. CASE d = c
      <4>1. ~IsUp'
            BY DEF IsDown, IsUp
      <4>2. op[c] = "resize" /\ at[c] \in 1..2
            BY <1>1, <1>2, <1>5, <1>6, <3>1, <3>2, <4>1 DEF Failing
      <4> QED
          BY <1>1, <1>3, <4>2
    <3>3. CASE d # c
          BY <1>3, <3>1, <3>3
    <3> QED
        BY <3>2, <3>3
  <2> QED
      BY <2>1, <2>2
<1>10. VolumeInv'
  <2>1. VolumeInv
        BY DEF Ec2Inv
  <2>2. CASE UNCHANGED <<volume, device>> /\ r \notin {"create_volume", "attach_volume"}
    <3>1. op[c] = "volume" => r = "volume_available" /\ at[c] = 1 /\ at'[c] = 2
          BY <1>3, <1>6, <2>2
    <3> QED
        BY <1>1, <1>3, <1>5, <2>1, <2>2, <3>1 DEF VolumeInv
  <2>3. CASE /\ r = "terminate_instances" /\ device' = None
             /\ inst' = [inst EXCEPT !.state = "terminated"]
             /\ volume' = [d \in Calls |-> IF d = device THEN "available" ELSE volume[d]]
    <3>1. inst'.state = "terminated" /\ op[c] = "terminate"
          BY <1>4, <1>6, <2>3
    <3>2. \A d \in Calls : volume'[d] # "in-use" /\ (volume'[d] # "none" => op[d] = "volume")
          BY <2>1, <2>3 DEF VolumeInv
    <3> QED
        BY <1>1, <2>3, <3>1, <3>2 DEF VolumeInv
  <2>4. CASE /\ r = "create_volume" /\ volume' = [volume EXCEPT ![c] = "creating"]
             /\ UNCHANGED <<inst, device>>
    <3>1. op[c] = "volume" /\ at'[c] = 1 /\ volume[c] # "in-use" /\ device # c
          BY <1>1, <1>3, <1>6, <2>1, <2>4 DEF VolumeInv
    <3> QED
        BY <1>1, <1>3, <1>4, <2>1, <2>4, <3>1 DEF VolumeInv
  <2>5. CASE /\ r = "attach_volume" /\ volume' = [volume EXCEPT ![c] = "in-use"]
             /\ device = None /\ device' = c /\ UNCHANGED inst
    <3>1. op[c] = "volume" /\ at'[c] = 3
          BY <1>3, <1>6, <2>5
    <3> QED
        BY <1>1, <1>3, <1>4, <2>1, <2>5, <3>1 DEF VolumeInv
  <2> QED
      BY <1>1, <2>2, <2>3, <2>4, <2>5 DEF Accepted, Becomes, VolumeBecomes, cloud
<1>11. SerialInv'
  <2> SUFFICES ASSUME ~overlapped
               PROVE  /\ \A d, e \in Calls : {stage[d], stage[e]} \subseteq Audit!InFlight => d = e
                      /\ \A d \in Calls : stage[d] = "running" => Progress(d)'
      BY <1>1 DEF SerialInv
  <2>1. /\ \A d, e \in Calls : {stage[d], stage[e]} \subseteq Audit!InFlight => d = e
        /\ Progress(c)
        BY <1>1 DEF Ec2Inv, SerialInv
  <2>2. \A d \in Calls : stage[d] = "running" => d = c
        BY <1>1, <2>1 DEF Audit!InFlight
  <2>3. Progress(c)'
    <3>1. CASE op[c] \in {"start", "stop", "snapshot", "patch"}
          BY <1>1, <1>3, <1>5, <1>6, <3>1 DEF Progress
    <3>2. CASE op[c] = "terminate"
      <4>1. inst'.state = "terminated"
            BY <1>1, <1>4, <1>6, <3>2 DEF Accepted
      <4> QED
          BY <1>1, <3>2, <4>1 DEF Progress
    <3>3. CASE op[c] = "volume"
      <4>1. at[c] = 2 => device' = c
            BY <1>1, <1>6, <3>3 DEF Accepted
      <4> QED
          BY <1>1, <1>3, <1>6, <3>3, <4>1 DEF Progress
    <3>4. CASE op[c] = "resize"
      <4>1. r = "instance_stopped" => UNCHANGED inst
            BY <1>1 DEF Accepted, cloud
      <4>2. r = "modify_instance_attribute" => IsDown' /\ inst'.type = type[c]
            BY <1>1, <1>4 DEF Accepted, IsDown
      <4> QED
          BY <1>1, <1>2, <1>3, <1>5, <1>6, <2>1, <3>4, <4>1, <4>2 DEF Progress, IsDown
    <3> QED
        BY <1>2, <3>1, <3>2, <3>3, <3>4, Lengths
  <2> QED
      BY <2>1, <2>2, <2>3
<1> QED
    BY <1>7, <1>8, <1>9, <1>10, <1>11 DEF Ec2Inv

LEMMA FailsStep ==
    ASSUME Ec2Inv, NEW c \in Calls, RequestFails(c)
    PROVE  Ec2Inv'
<1> DEFINE r == Request(c)
<1>1. /\ stage[c] = "running" /\ at[c] < Len(Steps[op[c]])
      /\ \/ UNCHANGED cloud
         \/ Accepted(c, r)
      /\ apiFaults' \in 0..MaxApiFaults
      /\ stage' = [stage EXCEPT ![c] = "log_fail"]
      /\ Audit!ServiceRaises(c)
      /\ stops' = (stops \/ op[c] = "stop") /\ last' = None
      /\ UNCHANGED <<op, type, at, overlapped, crashes>>
      BY DEF RequestFails, Audit!ServiceRaises, Audit!Goto, Ec2Inv, TypeOK
<1>2. /\ op[c] \in DOMAIN Steps /\ at[c] \in Nat /\ stops \in BOOLEAN
      BY <1>1 DEF Ec2Inv, TypeOK, OpInv
<1>3. stage'[c] = "log_fail" /\ \A d \in Calls : d # c => stage'[d] = stage[d]
      BY <1>1 DEF Ec2Inv, TypeOK, Audit!TypeOK
<1>4. /\ inst \in [state : InstanceStates, type : Types] /\ volume \in [Calls -> Volumes]
      /\ device \in Calls \cup {None} /\ type \in [Calls -> Types]
      BY DEF Ec2Inv, TypeOK, Volumes
<1>5. /\ inst' \in [state : InstanceStates, type : Types]
      /\ volume' \in [Calls -> Volumes] /\ device' \in Calls \cup {None}
      /\ IsDown' => IsDown \/ r = "stop_instances"
      /\ inst.state = "terminated" => inst'.state = "terminated"
  <2>1. CASE UNCHANGED cloud
        BY <1>4, <2>1 DEF cloud, IsDown
  <2>2. CASE Accepted(c, r)
        BY <1>4, <2>2, Effects
  <2> QED
      BY <1>1, <2>1, <2>2
<1>6. /\ r = "create_volume" => op[c] = "volume" /\ at[c] = 0
      /\ r = "attach_volume" => op[c] = "volume"
      /\ r = "stop_instances" => op[c] \in {"stop", "resize"}
      BY <1>1, <1>2, Requests
<1> HIDE DEF r
<1>7. TypeOK' /\ at' \in [Calls -> Nat]
  <2>1. Audit!TypeOK'
        BY <1>1, AuditTypes DEF Ec2Inv, TypeOK
  <2> QED
      BY <1>1, <1>2, <1>5, <2>1 DEF Ec2Inv, TypeOK, Volumes
<1>8. OpInv'
      BY <1>1, <1>3 DEF Ec2Inv, OpInv
<1>9. DownInv'
  <2> SUFFICES ASSUME IsDown', ~stops'
               PROVE  \E d \in Calls : /\ op[d] = "resize"
                                       /\ \/ stage'[d] \in Failing
                                          \/ stage'[d] = "running" /\ at[d] \in 1..3
      BY <1>1 DEF DownInv
  <2>1. CASE r = "stop_instances"
    <3>1. op[c] # "stop"
          BY <1>1
    <3> QED
        BY <1>3, <1>6, <2>1, <3>1 DEF Failing
  <2>2. CASE r # "stop_instances"
    <3>1. PICK d \in Calls : /\ op[d] = "resize"
                             /\ \/ stage[d] \in Failing
                                \/ stage[d] = "running" /\ at[d] \in 1..3
          BY <1>1, <1>2, <1>5, <2>2 DEF Ec2Inv, DownInv
    <3> QED
        BY <1>3, <3>1 DEF Failing
  <2> QED
      BY <2>1, <2>2
<1>10. VolumeInv'
  <2>1. VolumeInv
        BY DEF Ec2Inv
  <2>2. CASE UNCHANGED <<volume, device>>
        BY <1>1, <1>3, <1>5, <2>1, <2>2 DEF VolumeInv, Failing
  <2>3. CASE /\ r = "terminate_instances" /\ device' = None
             /\ inst' = [inst EXCEPT !.state = "terminated"]
             /\ volume' = [d \in Calls |-> IF d = device THEN "available" ELSE volume[d]]
    <3>1. inst'.state = "terminated"
          BY <1>4, <2>3
    <3>2. \A d \in Calls : volume'[d] # "in-use" /\ (volume'[d] # "none" => op[d] = "volume")
          BY <2>1, <2>3 DEF VolumeInv
    <3> QED
        BY <1>1, <2>3, <3>1, <3>2 DEF VolumeInv
  <2>4. CASE /\ r = "create_volume" /\ volume' = [volume EXCEPT ![c] = "creating"]
             /\ UNCHANGED <<inst, device>>
    <3>1. op[c] = "volume" /\ volume[c] # "in-use" /\ device # c
          BY <1>1, <1>6, <2>1, <2>4 DEF VolumeInv
    <3> QED
        BY <1>1, <1>3, <1>4, <2>1, <2>4, <3>1 DEF VolumeInv, Failing
  <2>5. CASE /\ r = "attach_volume" /\ volume' = [volume EXCEPT ![c] = "in-use"]
             /\ device = None /\ device' = c /\ UNCHANGED inst
    <3>1. op[c] = "volume"
          BY <1>6, <2>5
    <3> QED
        BY <1>1, <1>3, <1>4, <2>1, <2>5, <3>1 DEF VolumeInv
  <2> QED
      BY <1>1, <2>2, <2>3, <2>4, <2>5 DEF Accepted, Becomes, VolumeBecomes, cloud
<1>11. SerialInv'
  <2> SUFFICES ASSUME ~overlapped
               PROVE  /\ \A d, e \in Calls : {stage'[d], stage'[e]} \subseteq Audit!InFlight => d = e
                      /\ \A d \in Calls : stage'[d] # "running"
      BY <1>1 DEF SerialInv
  <2>1. \A d, e \in Calls : {stage[d], stage[e]} \subseteq Audit!InFlight => d = e
        BY DEF Ec2Inv, SerialInv
  <2> QED
      BY <1>1, <1>3, <2>1 DEF Audit!InFlight
<1> QED
    BY <1>7, <1>8, <1>9, <1>10, <1>11 DEF Ec2Inv

LEMMA ReturnsStep ==
    ASSUME Ec2Inv, NEW c \in Calls, ServiceReturns(c)
    PROVE  Ec2Inv'
<1>1. /\ stage[c] = "running" /\ last' = c
      /\ at[c] = Len(Steps[op[c]]) \/ op[c] = "snapshot"
      /\ stage' = [stage EXCEPT ![c] = "log_ok"] /\ Audit!ServiceReturns(c)
      /\ UNCHANGED <<op, type, at, inst, volume, device, stops, overlapped, apiFaults, crashes>>
      BY DEF ServiceReturns, Audit!ServiceReturns, Audit!Goto, cloud
<1>2. stage'[c] = "log_ok" /\ \A d \in Calls : d # c => stage'[d] = stage[d]
      BY <1>1 DEF Ec2Inv, TypeOK, Audit!TypeOK
<1>3. op[c] \in DOMAIN Steps
      BY <1>1 DEF Ec2Inv, TypeOK, OpInv
<1>4. /\ op[c] \in {"start", "stop", "terminate"} => at[c] = 1
      /\ op[c] = "resize" => at[c] = 4
      /\ op[c] = "volume" => at[c] = 3
      BY <1>1, <1>3, Lengths
<1>5. TypeOK' /\ at' \in [Calls -> Nat]
  <2>1. Audit!TypeOK'
        BY <1>1, AuditTypes DEF Ec2Inv, TypeOK
  <2> QED
      BY <1>1, <2>1 DEF Ec2Inv, TypeOK
<1>6. OpInv'
      BY <1>1, <1>2 DEF Ec2Inv, OpInv
<1>7. DownInv'
  <2> SUFFICES ASSUME IsDown, ~stops
               PROVE  \E d \in Calls : /\ op[d] = "resize"
                                       /\ \/ stage'[d] \in Failing
                                          \/ stage'[d] = "running" /\ at[d] \in 1..3
      BY <1>1 DEF DownInv, IsDown
  <2>1. PICK d \in Calls : /\ op[d] = "resize"
                           /\ \/ stage[d] \in Failing
                              \/ stage[d] = "running" /\ at[d] \in 1..3
        BY DEF Ec2Inv, DownInv
  <2>2. stage[c] \notin Failing
        BY <1>1 DEF Failing
  <2>3. op[c] = "resize" => at[c] \notin 1..3
        BY <1>4
  <2>4. d # c
        BY <2>1, <2>2, <2>3
  <2> QED
      BY <1>2, <2>1, <2>4
<1>8. VolumeInv'
  <2>1. stage[c] \notin Failing
        BY <1>1 DEF Failing
  <2>2. op[c] = "volume" => ~(at[c] < 3)
        BY <1>4
  <2>3. volume[c] \in {"creating", "available"} => inst.state = "terminated"
        BY <2>1, <2>2 DEF Ec2Inv, VolumeInv
  <2> QED
      BY <1>1, <1>2, <2>3 DEF Ec2Inv, VolumeInv
<1>9. SerialInv'
  <2> SUFFICES ASSUME ~overlapped
               PROVE  /\ \A d, e \in Calls : {stage'[d], stage'[e]} \subseteq Audit!InFlight => d = e
                      /\ \A d \in Calls : stage'[d] # "running"
                      /\ Held(c)'
      BY <1>1 DEF SerialInv
  <2>1. /\ \A d, e \in Calls : {stage[d], stage[e]} \subseteq Audit!InFlight => d = e
        /\ Progress(c)
        BY <1>1 DEF Ec2Inv, SerialInv
  <2>2. Held(c)'
        BY <1>1, <1>4, <2>1 DEF Progress, Held, IsUp, IsDown
  <2> QED
      BY <1>1, <1>2, <2>1, <2>2 DEF Audit!InFlight
<1> QED
    BY <1>5, <1>6, <1>7, <1>8, <1>9 DEF Ec2Inv

LEMMA ReceiveStep ==
    ASSUME Ec2Inv, NEW c \in Calls, Receive(c)
    PROVE  Ec2Inv'
<1>1. /\ stage[c] = "idle" /\ Audit!Receive(c)
      /\ overlapped' = (overlapped \/ \E d \in Calls : stage[d] \in Audit!InFlight)
      /\ UNCHANGED <<at, inst, volume, device, last, stops, apiFaults, crashes>>
      BY DEF Receive, Audit!Receive, cloud
<1>2. /\ stage \in [Calls -> Audit!Stages] /\ op \in [Calls -> DOMAIN Steps \cup {"none"}]
      /\ type \in [Calls -> Types] /\ overlapped \in BOOLEAN
      BY DEF Ec2Inv, TypeOK, Audit!TypeOK
<1>3. op[c] = "none" /\ at[c] = 0
      BY <1>1 DEF Ec2Inv, TypeOK, OpInv
<1>4. Audit!TypeOK' /\ overlapped' \in BOOLEAN
      BY <1>1, AuditTypes DEF Ec2Inv, TypeOK
<1>5. CASE stage' = [stage EXCEPT ![c] = "refused"] /\ UNCHANGED <<op, type>>
  <2>1. stage'[c] = "refused" /\ \A d \in Calls : d # c => stage'[d] = stage[d]
        BY <1>2, <1>5
  <2>2. TypeOK' /\ at' \in [Calls -> Nat]
        BY <1>1, <1>4, <1>5 DEF Ec2Inv, TypeOK
  <2>3. OpInv' /\ VolumeInv'
        BY <1>1, <1>3, <1>5, <2>1 DEF Ec2Inv, OpInv, VolumeInv, Failing
  <2>4. DownInv'
        BY <1>1, <1>5, <2>1 DEF Ec2Inv, DownInv, IsDown, Failing
  <2>5. SerialInv'
    <3>1. ~overlapped' => ~overlapped
          BY <1>1
    <3> QED
        BY <1>1, <1>5, <2>1, <3>1
        DEF Ec2Inv, SerialInv, Progress, Held, IsUp, IsDown, Audit!InFlight
  <2> QED
      BY <2>2, <2>3, <2>4, <2>5 DEF Ec2Inv
<1>6. ASSUME NEW o \in Operations, NEW t \in Types,
             stage' = [stage EXCEPT ![c] = "running"],
             op' = [op EXCEPT ![c] = o], type' = [type EXCEPT ![c] = t]
      PROVE  Ec2Inv'
  <2>1. /\ stage'[c] = "running" /\ op'[c] = o
        /\ \A d \in Calls : d # c => stage'[d] = stage[d] /\ op'[d] = op[d] /\ type'[d] = type[d]
        BY <1>2, <1>6
  <2>2. o \in DOMAIN Steps /\ o # "none"
        BY Lengths
  <2>3. TypeOK' /\ at' \in [Calls -> Nat]
    <3>1. op' \in [Calls -> DOMAIN Steps \cup {"none"}] /\ type' \in [Calls -> Types]
          BY <1>2, <1>6, <2>2
    <3>2. \A d \in Calls : at'[d] \in 0..(IF op'[d] = "none" THEN 0 ELSE Len(Steps[op'[d]]))
      <4>1. Len(Steps[o]) \in Nat
            BY <2>2, Lengths
      <4> QED
          BY <1>1, <1>3, <2>1, <2>2, <4>1, SMTT(30) DEF Ec2Inv, TypeOK
    <3> QED
        BY <1>1, <1>4, <3>1, <3>2 DEF Ec2Inv, TypeOK
  <2>4. OpInv' /\ VolumeInv'
    <3>1. volume[c] = "none"
          BY <1>3 DEF Ec2Inv, VolumeInv
    <3> QED
        BY <1>1, <2>1, <2>2, <3>1 DEF Ec2Inv, OpInv, VolumeInv
  <2>5. DownInv'
        BY <1>1, <1>3, <2>1 DEF Ec2Inv, DownInv, IsDown
  <2>6. SerialInv'
    <3> SUFFICES ASSUME ~overlapped'
                 PROVE  /\ \A d, e \in Calls : {stage'[d], stage'[e]} \subseteq Audit!InFlight => d = e
                        /\ \A d \in Calls : stage'[d] = "running" => Progress(d)'
        BY <2>1 DEF SerialInv
    <3>1. \A d \in Calls : stage[d] \notin Audit!InFlight
          BY <1>1
    <3>2. Progress(c)'
          BY <1>1, <1>3 DEF Progress
    <3> QED
        BY <2>1, <3>1, <3>2 DEF Audit!InFlight
  <2> QED
      BY <2>3, <2>4, <2>5, <2>6 DEF Ec2Inv
<1>7. stage' = [stage EXCEPT ![c] = "refused"] \/ stage' = [stage EXCEPT ![c] = "running"]
      BY <1>1 DEF Audit!Receive, Audit!Goto
<1>8. stage'[c] = "refused" <=> stage' = [stage EXCEPT ![c] = "refused"]
      BY <1>2, <1>7
<1> QED
    BY <1>5, <1>6, <1>7, <1>8 DEF Receive

LEMMA LogStep ==
    ASSUME Ec2Inv, NEW c \in Calls, Log(c)
    PROVE  Ec2Inv'
<1>1. /\ stage[c] \in {"log_ok", "log_fail", "reply_ok", "reply_error"}
      /\ Audit!LogOK(c) \/ Audit!LogFail(c) \/ Audit!Answer(c)
      /\ UNCHANGED <<op, type, at, inst, volume, device, last, stops, overlapped, apiFaults, crashes>>
      BY DEF Log, Audit!LogOK, Audit!LogFail, Audit!Answer, cloud
<1>2. /\ stage'[c] \in {"reply_ok", "ok", "reply_error", "error", "log_fail"}
      /\ stage[c] \in {"log_fail", "reply_error"} => stage'[c] \in {"reply_error", "error"}
      /\ \A d \in Calls : d # c => stage'[d] = stage[d]
      BY DEF Log, Audit!LogOK, Audit!LogFail, Audit!Answer, Audit!Goto, Ec2Inv, TypeOK, Audit!TypeOK
<1>3. TypeOK' /\ at' \in [Calls -> Nat]
  <2>1. Audit!TypeOK'
        BY <1>1, AuditTypes DEF Ec2Inv, TypeOK
  <2> QED
      BY <1>1, <2>1 DEF Ec2Inv, TypeOK
<1>4. OpInv' /\ VolumeInv'
      BY <1>1, <1>2 DEF Ec2Inv, OpInv, VolumeInv, Failing
<1>5. DownInv'
      BY <1>1, <1>2 DEF Ec2Inv, DownInv, IsDown, Failing
<1>6. SerialInv'
  <2>1. \A d \in Calls : (stage'[d] = "running") <=> (stage[d] = "running")
        BY <1>1, <1>2
  <2>2. \A d \in Calls : stage'[d] \in Audit!InFlight => stage[d] \in Audit!InFlight
        BY <1>1, <1>2 DEF Audit!InFlight
  <2>3. \A d \in Calls : (Progress(d)' <=> Progress(d)) /\ (Held(d)' <=> Held(d))
        BY <1>1 DEF Progress, Held, IsUp, IsDown
  <2>4. last \in Calls \cup {None}
        BY DEF Ec2Inv, TypeOK
  <2> QED
      BY <1>1, <2>1, <2>2, <2>3, <2>4 DEF Ec2Inv, SerialInv
<1> QED
    BY <1>3, <1>4, <1>5, <1>6 DEF Ec2Inv

LEMMA Ec2MovesStep ==
    ASSUME Ec2Inv, Ec2Step
    PROVE  Ec2Inv'
<1>1. /\ UNCHANGED <<stage, worked, audit, dbFaults, op, type, at, last, stops,
                     overlapped, apiFaults, crashes, device>>
      /\ \/ /\ inst.state = "pending" /\ inst' = [inst EXCEPT !.state = "running"]
            /\ UNCHANGED volume
         \/ /\ inst.state = "stopping" /\ inst' = [inst EXCEPT !.state = "stopped"]
            /\ UNCHANGED volume
         \/ /\ \E c \in Calls : /\ volume[c] = "creating"
                                /\ volume' = [volume EXCEPT ![c] = "available"]
            /\ UNCHANGED inst
      BY DEF Ec2Step, Becomes, VolumeBecomes, handler
<1>2. inst \in [state : InstanceStates, type : Types] /\ volume \in [Calls -> Volumes]
      BY DEF Ec2Inv, TypeOK, Volumes
<1>3. /\ inst' \in [state : InstanceStates, type : Types] /\ inst'.type = inst.type
      /\ (IsDown' <=> IsDown) /\ (IsUp' <=> IsUp)
      /\ (inst'.state = "terminated") <=> (inst.state = "terminated")
  <2>1. CASE inst.state = "pending" /\ inst' = [inst EXCEPT !.state = "running"]
        BY <1>2, <2>1 DEF IsDown, IsUp, InstanceStates
  <2>2. CASE inst.state = "stopping" /\ inst' = [inst EXCEPT !.state = "stopped"]
        BY <1>2, <2>2 DEF IsDown, IsUp, InstanceStates
  <2>3. CASE UNCHANGED inst
        BY <1>2, <2>3 DEF IsDown, IsUp
  <2> QED
      BY <1>1, <2>1, <2>2, <2>3
<1>4. /\ volume' \in [Calls -> Volumes]
      /\ \A c \in Calls :
             volume'[c] = volume[c] \/ (volume[c] = "creating" /\ volume'[c] = "available")
      BY <1>1, <1>2 DEF Volumes
<1>5. TypeOK' /\ at' \in [Calls -> Nat]
      BY <1>1, <1>3, <1>4 DEF Ec2Inv, TypeOK, Audit!TypeOK, Volumes
<1>6. OpInv' /\ DownInv'
      BY <1>1, <1>3 DEF Ec2Inv, OpInv, DownInv
<1>7. VolumeInv'
      BY <1>1, <1>3, <1>4 DEF Ec2Inv, VolumeInv
<1>8. SerialInv'
  <2>1. \A c \in Calls : (Progress(c)' <=> Progress(c)) /\ (Held(c)' <=> Held(c))
        BY <1>1, <1>3 DEF Progress, Held
  <2>2. last \in Calls \cup {None}
        BY DEF Ec2Inv, TypeOK
  <2> QED
      BY <1>1, <2>1, <2>2 DEF Ec2Inv, SerialInv
<1> QED
    BY <1>5, <1>6, <1>7, <1>8 DEF Ec2Inv

LEMMA CrashStep ==
    ASSUME Ec2Inv, Crash
    PROVE  Ec2Inv'
<1>1. /\ crashes' \in 0..MaxCrashes /\ last' = None
      /\ stage' = [c \in Calls |-> IF stage[c] \in Audit!InFlight THEN "lost" ELSE stage[c]]
      /\ UNCHANGED <<worked, audit, dbFaults, op, type, at, inst, volume, device, stops,
                     overlapped, apiFaults>>
      BY DEF Crash, Audit!Crash, cloud, Ec2Inv, TypeOK
<1>2. \A c \in Calls : /\ stage[c] \in Audit!InFlight => stage'[c] = "lost"
                       /\ stage[c] \notin Audit!InFlight => stage'[c] = stage[c]
      BY <1>1
<1>3. TypeOK' /\ at' \in [Calls -> Nat]
  <2>1. stage' \in [Calls -> Audit!Stages]
        BY <1>1 DEF Ec2Inv, TypeOK, Audit!TypeOK, Audit!Stages
  <2>2. Audit!TypeOK'
        BY <1>1, <2>1 DEF Ec2Inv, TypeOK, Audit!TypeOK
  <2> QED
      BY <1>1, <2>2 DEF Ec2Inv, TypeOK
<1>4. OpInv' /\ VolumeInv'
      BY <1>1, <1>2 DEF Ec2Inv, OpInv, VolumeInv, Failing, Audit!InFlight
<1>5. DownInv'
  <2>1. \A c \in Calls : stage[c] \in Failing \/ stage[c] = "running" => stage'[c] \in Failing
        BY <1>2 DEF Failing, Audit!InFlight
  <2> QED
      BY <1>1, <2>1 DEF Ec2Inv, DownInv, IsDown
<1>6. SerialInv'
      BY <1>1, <1>2 DEF SerialInv, Audit!InFlight
<1> QED
    BY <1>3, <1>4, <1>5, <1>6 DEF Ec2Inv

LEMMA Ec2Next == Ec2Inv /\ [Next]_vars => Ec2Inv'
<1> SUFFICES ASSUME Ec2Inv, [Next]_vars PROVE Ec2Inv'
    OBVIOUS
<1>1. CASE \E c \in Calls : Receive(c) \/ Work(c)
      BY <1>1, ReceiveStep, SucceedsStep, ReturnsStep, FailsStep, LogStep DEF Work
<1>2. CASE Ec2Step \/ Crash
      BY <1>2, Ec2MovesStep, CrashStep
<1>3. CASE UNCHANGED vars
  <2>1. UNCHANGED <<stage, worked, audit, dbFaults, op, type, at, inst, volume, device, last,
                    stops, overlapped, apiFaults, crashes>>
        BY <1>3 DEF vars, handler, cloud
  <2>2. TypeOK' /\ at' \in [Calls -> Nat]
        BY <2>1 DEF Ec2Inv, TypeOK, Audit!TypeOK
  <2>3. OpInv' /\ DownInv' /\ VolumeInv'
        BY <2>1 DEF Ec2Inv, OpInv, DownInv, IsDown, VolumeInv
  <2>4. SerialInv'
        BY <2>1 DEF Ec2Inv, SerialInv, Progress, Held, IsUp, IsDown
  <2> QED
      BY <2>2, <2>3, <2>4 DEF Ec2Inv
<1> QED
    BY <1>1, <1>2, <1>3 DEF Next

-----------------------------------------------------------------------------
(* Theorems *)

LEMMA Ec2Invariant == Spec => []Ec2Inv
<1> QED
    BY Ec2Start, Ec2Next, PTL DEF Spec

\* TypeOK: calls, instance and volumes are well formed, for any number of
\* calls, and no function runs past its last request.
THEOREM Ec2TypeCorrect == Spec => []TypeOK
<1>1. Ec2Inv => TypeOK
      BY DEF Ec2Inv
<1> QED
    BY <1>1, Ec2Invariant, PTL

\* DownIsExplained: whatever calls overlap, fail or are cut off, only a resize
\* that has not succeeded leaves an instance down that nobody has stopped
\* (aws_client.py:86-95).
THEOREM DownExplained == Spec => []DownIsExplained
<1>1. Ec2Inv => DownIsExplained
      BY DEF Ec2Inv, DownInv, DownIsExplained, IsDown, Failing
<1> QED
    BY <1>1, Ec2Invariant, PTL

\* VolumesAreAccountedFor: a volume that is not attached belongs to a call that
\* has not succeeded or the instance is gone, and one at most is attached
\* (aws_client.py:109-122).
THEOREM VolumesAccountedFor == Spec => []VolumesAreAccountedFor
<1>1. Ec2Inv => VolumesAreAccountedFor
  <2> SUFFICES ASSUME Ec2Inv PROVE VolumesAreAccountedFor
      OBVIOUS
  <2>1. VolumeInv /\ device \in Calls \cup {None}
        BY DEF Ec2Inv, TypeOK
  <2>2. {c \in Calls : volume[c] = "in-use"} = {device} \ {None}
        BY <2>1 DEF VolumeInv
  <2> QED
      BY <2>1, <2>2 DEF VolumeInv, VolumesAreAccountedFor, Failing
<1> QED
    BY <1>1, Ec2Invariant, PTL

\* LastOperationHolds: as long as calls follow one another, the instance is
\* what the last one that worked made of it.
THEOREM Ec2LastHolds == Spec => []LastOperationHolds
<1>1. Ec2Inv => LastOperationHolds
  <2> SUFFICES ASSUME Ec2Inv, last # None, ~overlapped, \A c \in Calls : stage[c] # "running"
               PROVE  LastOperationHolds
      BY DEF LastOperationHolds
  <2>1. Held(last)
        BY DEF Ec2Inv, SerialInv
  <2> QED
      BY <2>1 DEF Held, IsUp, IsDown, LastOperationHolds
<1> QED
    BY <1>1, Ec2Invariant, PTL

-----------------------------------------------------------------------------
(* The handlers are audited *)

Audited == INSTANCE AuditProofs

LEMMA Ec2Audit ==
    /\ Init => Audited!Init
    /\ [Next]_vars => [Audited!Next]_Audited!vars
<1>1. Init => Audited!Init
      BY DEF Init, Audit!Init, Audited!Init
<1>2. ASSUME NEW c \in Calls, Receive(c) \/ Work(c) PROVE [Audited!Next]_Audited!vars
  <2> USE DEF Audited!Next, Audited!Goto, Audit!Goto
  <2>1. CASE Receive(c)
        BY <2>1 DEF Receive, Audit!Receive, Audited!Receive
  <2>2. CASE RequestSucceeds(c)
        BY <2>2 DEF RequestSucceeds, handler, Audited!vars
  <2>3. CASE ServiceReturns(c)
        BY <2>3 DEF ServiceReturns, Audit!ServiceReturns, Audited!ServiceReturns
  <2>4. CASE RequestFails(c)
        BY <2>4 DEF RequestFails, Audit!ServiceRaises, Audited!ServiceRaises
  <2>5. CASE Log(c)
        BY <2>5 DEF Log, Audit!LogOK, Audit!LogFail, Audit!Answer,
                    Audited!LogOK, Audited!LogFail, Audited!Answer,
                    Audit!Writes, Audit!WriteRaises, Audited!Writes, Audited!WriteRaises
  <2> QED
      BY <1>2, <2>1, <2>2, <2>3, <2>4, <2>5 DEF Work
<1>3. ASSUME Ec2Step \/ UNCHANGED vars PROVE UNCHANGED Audited!vars
      BY <1>3 DEF Ec2Step, vars, handler, Audited!vars
<1>4. ASSUME Crash PROVE Audited!Next
      BY <1>4 DEF Crash, Audit!Crash, Audited!Crash, Audited!Next,
                  Audit!InFlight, Audited!InFlight
<1> QED
    BY <1>1, <1>2, <1>3, <1>4 DEF Next

\* The module the theorems come from says what the module of the model says.
LEMMA SameAudit ==
    /\ Audited!Init => Audit!Init
    /\ [Audited!Next]_Audited!vars => [Audit!Next]_Audit!vars
    /\ Audited!LogAgreesWithAnswers => Audit!LogAgreesWithAnswers
    /\ Audited!MisreportsAreFaults => Audit!MisreportsAreFaults
<1>1. Audited!Init => Audit!Init
      BY DEF Audit!Init, Audited!Init
<1>2. Audited!InFlight = Audit!InFlight
      BY DEF Audit!InFlight, Audited!InFlight
<1>3. ASSUME NEW c \in Calls,
             \/ Audited!Receive(c) \/ Audited!ServiceReturns(c) \/ Audited!ServiceRaises(c)
             \/ Audited!LogOK(c) \/ Audited!LogFail(c) \/ Audited!Answer(c)
      PROVE  Audit!Next
      BY <1>3 DEF Audit!Next, Audit!Goto, Audited!Goto, Audit!Receive, Audited!Receive,
                  Audit!ServiceReturns, Audited!ServiceReturns,
                  Audit!ServiceRaises, Audited!ServiceRaises,
                  Audit!LogOK, Audited!LogOK, Audit!LogFail, Audited!LogFail,
                  Audit!Answer, Audited!Answer,
                  Audit!Writes, Audited!Writes, Audit!WriteRaises, Audited!WriteRaises
<1>4. Audited!Crash => Audit!Next
      BY <1>2 DEF Audit!Next, Audit!Crash, Audited!Crash
<1>5. Audited!Next => Audit!Next
      BY <1>3, <1>4 DEF Audited!Next
<1>6. Audited!LogAgreesWithAnswers => Audit!LogAgreesWithAnswers
      BY DEF Audit!LogAgreesWithAnswers, Audited!LogAgreesWithAnswers
<1>7. Audited!MisreportsAreFaults => Audit!MisreportsAreFaults
  <2>1. \A S : Audited!Cardinality(S) = Audit!Cardinality(S)
        BY DEF Audit!Cardinality, Audited!Cardinality
  <2> QED
      BY <2>1 DEF Audit!MisreportsAreFaults, Audited!MisreportsAreFaults
<1>8. [Audited!Next]_Audited!vars => [Audit!Next]_Audit!vars
      BY <1>5 DEF Audit!vars, Audited!vars
<1> QED
    BY <1>1, <1>6, <1>7, <1>8

(***************************************************************************)
(* The calls about an instance are audited as AuditedOperation says,       *)
(* whatever their requests do to it and whichever of them fail.            *)
(***************************************************************************)
THEOREM Ec2IsAudited == Spec => Audit!Spec
  BY Ec2Audit, SameAudit, PTL DEF Spec, Audit!Spec

(***************************************************************************)
(* So of the calls that were answered, "OK" is logged for exactly those    *)
(* answered with success; a logged "OK" without an answer is that of a     *)
(* call the crash ended after its commit; and each call that worked and is *)
(* reported as a failure, or is left out of the log, cost a database error *)
(* of its own.                                                             *)
(***************************************************************************)
THEOREM Ec2LogIsTruthful == Spec => []Audit!LogAgreesWithAnswers /\ []Audit!MisreportsAreFaults
<1>1. Audited!AuditAssumption
      BY DEF Audited!AuditAssumption, IsFiniteSet, Audited!IsFiniteSet
<1>2. Audited!Spec => []Audited!LogAgreesWithAnswers
      BY <1>1, Audited!AuditIsTruthful
<1>3. Audited!Spec => []Audited!MisreportsAreFaults
      BY <1>1, Audited!MisreportsCostFaults
<1>4. Spec => Audited!Spec
      BY Ec2Audit, PTL DEF Spec, Audited!Spec
<1> QED
    BY <1>2, <1>3, <1>4, SameAudit, PTL
==============================================================================
