---------------------------- MODULE ProvidersProofs ---------------------------
(***************************************************************************)
(* What the log says of a call, and what calls do to a deployment, for any *)
(* number of calls, values, fields and errors.                             *)
(***************************************************************************)
EXTENDS Providers, AuditProofs

USE AuditAssumption

-----------------------------------------------------------------------------
(* The steps of Providers are steps of AuditedOperation *)

LEMMA HandlersAreAudited == ProvidersNext => [Next]_vars
  BY DEF ProvidersNext, CallComes, RequestSucceeds, FunctionReturns, RequestFails, LogCall,
         OthersStep, ProcessDies, handler, Next, vars

LEMMA ProvidersAudit ==
    /\ ProvidersInit => AuditInv
    /\ AuditInv /\ [ProvidersNext]_<<handler, job, at, seen, providers, history,
                                     apiFaults, crashes>> => AuditInv'
<1>1. ProvidersInit => AuditInv
      BY AuditInit DEF ProvidersInit
<1>2. UNCHANGED <<handler, job, at, seen, providers, history, apiFaults, crashes>> =>
          UNCHANGED vars
      BY DEF handler, vars
<1> QED
    BY <1>1, <1>2, HandlersAreAudited, AuditStep

(***************************************************************************)
(* Calls to all the providers, made of several requests each, on an event  *)
(* loop that Docker's hold, are audited as AuditedOperation says.          *)
(***************************************************************************)
THEOREM ProvidersAreAudited == ProvidersSpec => Spec
<1>1. ProvidersInit => Init
      BY DEF ProvidersInit
<1>2. [ProvidersNext]_<<handler, job, at, seen, providers, history, apiFaults, crashes>>
          => [Next]_vars
      BY HandlersAreAudited DEF handler, vars
<1> QED
    BY <1>1, <1>2, PTL DEF ProvidersSpec, Spec

-----------------------------------------------------------------------------
(* The requests of each operation *)

LEMMA OperationsOf ==
    /\ DOMAIN AzureSteps = {"create_vm", "delete_vm", "start_vm", "stop_vm", "resize_vm",
                            "snapshot_vm", "expand_disk"}
    /\ DOMAIN WorkloadSteps = {"create_namespace", "delete_namespace", "patch", "scale",
                               "helm_install", "helm_upgrade", "helm_rollback"}
    /\ DOMAIN DockerSteps = {"start_container", "stop_container", "restart_container",
                             "remove_container", "pull_image"}
  BY DEF AzureSteps, WorkloadSteps, DockerSteps

HelmOps == {"helm_install", "helm_upgrade", "helm_rollback"}

\* Which operation a request belongs to, and what it was preceded by.
RequestOf(op, i, r) ==
    /\ r = "nic_put" => op = "create_vm" /\ i = 0
    /\ r = "vm_create" => op = "create_vm" /\ i = 1
    /\ r = "vm_delete" => op = "delete_vm"
    /\ r = "vm_get" => op \in {"resize_vm", "snapshot_vm"} /\ i = 0
    /\ r = "vm_put" => op = "resize_vm" /\ i = 1
    /\ r = "dep_read" => op = "patch" /\ i = 0
    /\ r = "dep_patch" => op = "patch" /\ i = 1
    /\ r = "dep_scale" => op = "scale"
    /\ r \in {"install", "upgrade", "rollback"} => op \in HelmOps /\ i = 0
    /\ r = "finish" => op \in HelmOps /\ i = 1
    /\ op \in HelmOps => i = 0 \/ (i = 1 /\ r = "finish")
    /\ op = "create_vm" => i = 0 \/ (i = 1 /\ r = "vm_create")
    /\ op = "patch" => (i = 0 /\ r = "dep_read") \/ (i = 1 /\ r = "dep_patch")
    /\ op = "resize_vm" => (i = 0 /\ r = "vm_get") \/ (i = 1 /\ r = "vm_put")
    /\ r = "vm_deallocate" => op = "stop_vm"
    /\ r = "disk_get" => op = "expand_disk" /\ i = 0
    /\ r = "disk_put" => op = "expand_disk" /\ i = 1
    /\ op = "expand_disk" => (i = 0 /\ r = "disk_get") \/ (i = 1 /\ r = "disk_put")

LEMMA AzureRequestsOf ==
    ASSUME NEW op \in DOMAIN AzureSteps, NEW i \in Nat, i < Len(AzureSteps[op])
    PROVE  RequestOf(op, i, AzureSteps[op][i + 1])
<1>1. op \in {"create_vm", "delete_vm", "start_vm", "stop_vm", "resize_vm",
              "snapshot_vm", "expand_disk"}
      BY OperationsOf
<1>2. CASE op \in {"create_vm", "resize_vm", "snapshot_vm", "expand_disk"}
  <2>1. Len(AzureSteps[op]) = 2
        BY <1>2 DEF AzureSteps
  <2>2. i = 0 \/ i = 1
        BY <2>1
  <2> QED
      BY <1>2, <2>2 DEF AzureSteps, RequestOf, HelmOps
<1>3. CASE op \in {"delete_vm", "start_vm", "stop_vm"}
  <2>1. Len(AzureSteps[op]) = 1
        BY <1>3 DEF AzureSteps
  <2>2. i = 0
        BY <2>1
  <2> QED
      BY <1>3, <2>2 DEF AzureSteps, RequestOf, HelmOps
<1> QED
    BY <1>1, <1>2, <1>3

LEMMA WorkloadRequestsOf ==
    ASSUME NEW op \in DOMAIN WorkloadSteps, NEW i \in Nat, i < Len(WorkloadSteps[op])
    PROVE  RequestOf(op, i, WorkloadSteps[op][i + 1])
<1>1. op \in {"create_namespace", "delete_namespace", "patch", "scale",
              "helm_install", "helm_upgrade", "helm_rollback"}
      BY OperationsOf
<1>2. CASE op \in {"patch", "helm_install", "helm_upgrade", "helm_rollback"}
  <2>1. Len(WorkloadSteps[op]) = 2
        BY <1>2 DEF WorkloadSteps
  <2>2. i = 0 \/ i = 1
        BY <2>1
  <2> QED
      BY <1>2, <2>2 DEF WorkloadSteps, RequestOf, HelmOps
<1>3. CASE op \in {"create_namespace", "delete_namespace", "scale"}
  <2>1. Len(WorkloadSteps[op]) = 1
        BY <1>3 DEF WorkloadSteps
  <2>2. i = 0
        BY <2>1
  <2> QED
      BY <1>3, <2>2 DEF WorkloadSteps, RequestOf, HelmOps
<1> QED
    BY <1>1, <1>2, <1>3
LEMMA DockerRequestsOf ==
    ASSUME NEW op \in DOMAIN DockerSteps, NEW i \in Nat, i < Len(DockerSteps[op])
    PROVE  RequestOf(op, i, DockerSteps[op][i + 1])
<1>1. op \in {"start_container", "stop_container", "restart_container",
              "remove_container", "pull_image"}
      BY OperationsOf
<1>2. CASE op # "pull_image"
  <2>1. Len(DockerSteps[op]) = 2
        BY <1>1, <1>2 DEF DockerSteps
  <2>2. i = 0 \/ i = 1
        BY <2>1
  <2> QED
      BY <1>1, <1>2, <2>2 DEF DockerSteps, RequestOf, HelmOps
<1>3. CASE op = "pull_image"
  <2>1. Len(DockerSteps[op]) = 1
        BY <1>3 DEF DockerSteps
  <2>2. i = 0
        BY <2>1
  <2> QED
      BY <1>3, <2>2 DEF DockerSteps, RequestOf, HelmOps
<1> QED
    BY <1>2, <1>3

\* Of which provider each operation is, and how many requests it makes.
LEMMA StepsOf ==
    /\ \A op \in DOMAIN AzureSteps : Provider(op) = "azure" /\ Steps(op) = AzureSteps[op]
    /\ \A op \in DOMAIN WorkloadSteps :
           Provider(op) = "kubernetes" /\ Steps(op) = WorkloadSteps[op]
    /\ \A op \in DOMAIN DockerSteps : Provider(op) = "docker" /\ Steps(op) = DockerSteps[op]
    /\ Steps("none") = <<>>
    /\ "none" \notin Operations
<1>1. ASSUME NEW op \in DOMAIN AzureSteps
      PROVE  Provider(op) = "azure" /\ Steps(op) = AzureSteps[op]
      BY <1>1, OperationsOf DEF Provider, Steps
<1>2. ASSUME NEW op \in DOMAIN WorkloadSteps
      PROVE  Provider(op) = "kubernetes" /\ Steps(op) = WorkloadSteps[op]
      BY <1>2, OperationsOf DEF Provider, Steps
<1>3. ASSUME NEW op \in DOMAIN DockerSteps
      PROVE  Provider(op) = "docker" /\ Steps(op) = DockerSteps[op]
      BY <1>3, OperationsOf DEF Provider, Steps
<1>4. Steps("none") = <<>> /\ "none" \notin Operations
      BY OperationsOf DEF Steps, Operations
<1> QED
    BY <1>1, <1>2, <1>3, <1>4

LEMMA LengthsOf ==
    \A op \in Operations \cup {"none"} :
        /\ Len(Steps(op)) \in 0..2
        /\ op \in {"patch", "resize_vm", "create_vm", "expand_disk", "helm_install",
                   "helm_upgrade", "helm_rollback"} => Len(Steps(op)) = 2
<1> SUFFICES ASSUME NEW op \in Operations \cup {"none"}
             PROVE  /\ Len(Steps(op)) \in 0..2
                    /\ op \in {"patch", "resize_vm", "create_vm", "expand_disk",
                               "helm_install", "helm_upgrade", "helm_rollback"}
                           => Len(Steps(op)) = 2
    OBVIOUS
<1>1. CASE op \in DOMAIN AzureSteps
      BY <1>1, StepsOf, OperationsOf DEF AzureSteps
<1>2. CASE op \in DOMAIN WorkloadSteps
      BY <1>2, StepsOf, OperationsOf DEF WorkloadSteps
<1>3. CASE op \in DOMAIN DockerSteps
      BY <1>3, StepsOf, OperationsOf DEF DockerSteps
<1>4. CASE op = "none"
      BY <1>4, StepsOf
<1> QED
    BY <1>1, <1>2, <1>3, <1>4 DEF Operations
-----------------------------------------------------------------------------
(* What a step of Providers is *)

JobTypes == [op : Operations \cup {"none"}, value : Values \cup {0}, fields : SUBSET Fields]

\* The bookkeeping of calls: what each asks for, and how far it is.
JobInv ==
    \A c \in Calls :
        /\ stage[c] \in Stages
        /\ job[c] \in JobTypes
        /\ at[c] \in 0..Len(Steps(job[c].op))
        /\ job[c].op # "none" => job[c].value \in Values
        /\ stage[c] = "running" => job[c].op # "none"
        /\ stage[c] \in {"idle", "refused"} => job[c].op = "none"
        /\ stage[c] \in {"log_ok", "reply_ok", "ok"} => at[c] = Len(Steps(job[c].op))

Shapes ==
    /\ stage \in [Calls -> Stages]
    /\ job \in [Calls -> JobTypes]
    /\ at \in [Calls -> Nat]
    /\ DOMAIN seen = Calls

\* A request of call c takes effect at one of the providers.
AzureActs(c) ==
    /\ Running(c) /\ job[c].op \in DOMAIN AzureSteps
    /\ RequestOf(job[c].op, at[c], Request(c))
    /\ AzureAllows(c, Request(c)) /\ AzureDoes(c, Request(c))
    /\ UNCHANGED <<cluster, container>>

WorkloadsAct(c) ==
    /\ Running(c) /\ job[c].op \in DOMAIN WorkloadSteps
    /\ RequestOf(job[c].op, at[c], Request(c))
    /\ WorkloadsAllow(c, Request(c)) /\ WorkloadsDo(c, Request(c))
    /\ UNCHANGED <<azure, container>>

DockerActs(c) ==
    /\ Running(c) /\ job[c].op \in DOMAIN DockerSteps
    /\ DockerDoes(Request(c))
    /\ UNCHANGED <<azure, cluster>>

HelmStops(c) ==
    /\ Running(c)
    /\ HelmFails(c, Request(c))
    /\ UNCHANGED <<at, azure, container, seen>>

\* The function goes on to its next request, or raises.
GoesOn(c) ==
    /\ UNCHANGED job
    /\ \/ at' = [at EXCEPT ![c] = @ + 1] /\ UNCHANGED stage
       \/ UNCHANGED at /\ stage' = [stage EXCEPT ![c] = "log_fail"]

\* Steps of which the providers notice nothing.
Moves(c, from, to) == stage[c] = from /\ stage' = [stage EXCEPT ![c] = to]

CallMoves(c) ==
    /\ \/ Moves(c, "idle", "refused") /\ UNCHANGED job
       \/ /\ Moves(c, "idle", "running")
          /\ \E op \in Operations, v \in Values, fs \in SUBSET Fields :
                job' = [job EXCEPT ![c] = [op |-> op, value |-> v, fields |-> fs]]
       \/ /\ Moves(c, "running", "log_ok") /\ at[c] = Len(Steps(job[c].op))
          /\ UNCHANGED job
       \/ Moves(c, "running", "log_fail") /\ UNCHANGED job
       \/ Moves(c, "log_ok", "log_fail") /\ UNCHANGED job
       \/ Moves(c, "log_ok", "reply_ok") /\ UNCHANGED job
       \/ Moves(c, "log_fail", "reply_error") /\ UNCHANGED job
       \/ Moves(c, "reply_ok", "ok") /\ UNCHANGED job
       \/ Moves(c, "reply_error", "error") /\ UNCHANGED job
    /\ UNCHANGED <<at, seen, providers>>

AllLost ==
    /\ stage' = [c \in Calls |-> IF stage[c] \in InFlight THEN "lost" ELSE stage[c]]
    /\ UNCHANGED <<job, at, seen, providers>>

LEMMA EffectOf ==
    ASSUME JobInv, NEW c \in Calls, Running(c), Allows(c), Does(c)
    PROVE  AzureActs(c) \/ WorkloadsAct(c) \/ DockerActs(c)
<1> DEFINE op == job[c].op
<1>1. op \in Operations /\ at[c] \in Nat /\ at[c] < Len(Steps(op))
      BY LengthsOf DEF Running, JobInv, JobTypes
<1>2. CASE op \in DOMAIN AzureSteps
  <2>1. Provider(op) = "azure" /\ Steps(op) = AzureSteps[op]
        BY <1>2, StepsOf
  <2>2. RequestOf(op, at[c], Request(c))
        BY <1>1, <1>2, <2>1, AzureRequestsOf DEF Request
  <2> QED
      BY <1>2, <2>1, <2>2 DEF Allows, Does, AzureActs
<1>3. CASE op \in DOMAIN WorkloadSteps
  <2>1. Provider(op) = "kubernetes" /\ Steps(op) = WorkloadSteps[op]
        BY <1>3, StepsOf
  <2>2. RequestOf(op, at[c], Request(c))
        BY <1>1, <1>3, <2>1, WorkloadRequestsOf DEF Request
  <2> QED
      BY <1>3, <2>1, <2>2 DEF Allows, Does, WorkloadsAct
<1>4. CASE op \in DOMAIN DockerSteps
  <2>1. Provider(op) = "docker" /\ Steps(op) = DockerSteps[op]
        BY <1>4, StepsOf
  <2> QED
      BY <1>4, <2>1 DEF Does, DockerActs
<1> QED
    BY <1>1, <1>2, <1>3, <1>4 DEF Operations

\* Every step is one of these.
LEMMA EveryStep ==
    ASSUME JobInv, Shapes, ProvidersNext
    PROVE  \/ \E c \in Calls : /\ GoesOn(c)
                               /\ \/ AzureActs(c) \/ WorkloadsAct(c) \/ DockerActs(c)
                                  \/ HelmStops(c)
           \/ \E c \in Calls : CallMoves(c)
           \/ OthersStep
           \/ AllLost
<1>1. ASSUME NEW c \in Calls, CallComes(c) PROVE CallMoves(c)
      BY <1>1 DEF CallComes, Receive, Goto, CallMoves, Moves, Shapes
<1>2. ASSUME NEW c \in Calls, RequestSucceeds(c)
      PROVE  GoesOn(c) /\ (AzureActs(c) \/ WorkloadsAct(c) \/ DockerActs(c))
      BY <1>2, EffectOf DEF RequestSucceeds, GoesOn, handler
<1>3. ASSUME NEW c \in Calls, FunctionReturns(c) PROVE CallMoves(c)
      BY <1>3 DEF FunctionReturns, ServiceReturns, Goto, CallMoves, Moves, Shapes
<1>4. ASSUME NEW c \in Calls, RequestFails(c)
      PROVE  \/ CallMoves(c)
             \/ GoesOn(c) /\ (AzureActs(c) \/ WorkloadsAct(c) \/ DockerActs(c) \/ HelmStops(c))
  <2>1. GoesOn(c) /\ Running(c)
        BY <1>4 DEF RequestFails, ServiceRaises, Goto, GoesOn
  <2>2. CASE UNCHANGED <<providers, seen>>
        BY <1>4, <2>2 DEF RequestFails, ServiceRaises, Goto, CallMoves, Moves, Shapes
  <2>3. CASE Allows(c) /\ Does(c)
        BY <2>1, <2>3, EffectOf
  <2>4. CASE HelmFails(c, Request(c)) /\ UNCHANGED <<azure, container, seen>>
        BY <1>4, <2>1, <2>4 DEF RequestFails, HelmStops
  <2> QED
      BY <1>4, <2>1, <2>2, <2>3, <2>4 DEF RequestFails
<1>5. ASSUME NEW c \in Calls, LogCall(c) PROVE CallMoves(c)
      BY <1>5 DEF LogCall, LogOK, LogFail, Answer, Goto, CallMoves, Moves, Shapes
<1>6. ProcessDies => AllLost
      BY DEF ProcessDies, Crash, AllLost
<1> QED
    BY <1>1, <1>2, <1>3, <1>4, <1>5, <1>6 DEF ProvidersNext
-----------------------------------------------------------------------------
(* Types *)

\* What a call has read, once it needs it.
SeenInv ==
    \A c \in Calls :
        /\ seen[c] \in VMs \cup Disks \cup Deployments \cup {None}
        /\ stage[c] \in {"idle", "running"} /\ at[c] = 0 => seen[c] = None
        /\ at[c] = 1 /\ job[c].op = "resize_vm" => seen[c] \in VMs
        /\ at[c] = 1 /\ job[c].op = "patch" => seen[c] \in Deployments
        /\ at[c] = 1 /\ job[c].op = "expand_disk" => seen[c] \in Disks

ObjectsInv == AzureTypeOK /\ WorkloadsTypeOK /\ DockerTypeOK /\ SeenInv

LEMMA MovesKeepJobs ==
    ASSUME JobInv, Shapes, NEW c \in Calls, CallMoves(c)
    PROVE  JobInv' /\ Shapes'
<1> USE DEF JobInv, Shapes, Stages, InFlight, Answers, Moves
<1>1. UNCHANGED <<at, seen>> /\ \A op : Len(Steps(op))' = Len(Steps(op))
      BY DEF CallMoves, Steps
<1>2. CASE stage[c] = "idle" /\ stage'[c] = "running"
  <2>1. PICK op \in Operations, v \in Values, fs \in SUBSET Fields :
            /\ job' = [job EXCEPT ![c] = [op |-> op, value |-> v, fields |-> fs]]
            /\ stage' = [stage EXCEPT ![c] = "running"]
        BY <1>2 DEF CallMoves
  <2>2. [op |-> op, value |-> v, fields |-> fs] \in JobTypes /\ op # "none"
        BY StepsOf DEF JobTypes
  <2>3. at[c] = 0 /\ Len(Steps(op)) \in 0..2
        BY <1>2, StepsOf, LengthsOf
  <2> QED
      BY <1>1, <1>2, <2>1, <2>2, <2>3
<1>3. CASE ~(stage[c] = "idle" /\ stage'[c] = "running")
  <2>1. /\ UNCHANGED job
        /\ \/ Moves(c, "idle", "refused")
           \/ Moves(c, "running", "log_ok") /\ at[c] = Len(Steps(job[c].op))
           \/ Moves(c, "running", "log_fail") \/ Moves(c, "log_ok", "log_fail")
           \/ Moves(c, "log_ok", "reply_ok") \/ Moves(c, "log_fail", "reply_error")
           \/ Moves(c, "reply_ok", "ok") \/ Moves(c, "reply_error", "error")
        BY <1>3 DEF CallMoves
  <2> QED
      BY <1>1, <2>1, ZenonT(60)
<1> QED
    BY <1>2, <1>3

LEMMA GoingOnKeepsJobs ==
    ASSUME JobInv, Shapes, NEW c \in Calls, GoesOn(c), Running(c), DOMAIN seen' = Calls
    PROVE  JobInv' /\ Shapes'
<1> USE DEF JobInv, Shapes, Stages, InFlight, Answers
<1>1. UNCHANGED job /\ \A op : Len(Steps(op))' = Len(Steps(op))
      BY DEF GoesOn, Steps
<1>2. CASE at' = [at EXCEPT ![c] = @ + 1] /\ UNCHANGED stage
  <2>1. at[c] + 1 \in 0..Len(Steps(job[c].op)) /\ stage[c] = "running"
        BY LengthsOf DEF Running, JobTypes
  <2> QED
      BY <1>1, <1>2, <2>1
<1>3. CASE UNCHANGED at /\ stage' = [stage EXCEPT ![c] = "log_fail"]
      BY <1>1, <1>3 DEF Running
<1> QED
    BY <1>2, <1>3 DEF GoesOn

LEMMA JobStep ==
    ASSUME JobInv, Shapes, ProvidersNext
    PROVE  JobInv' /\ Shapes'
<1>1. ASSUME NEW c \in Calls, AzureActs(c) \/ WorkloadsAct(c) \/ DockerActs(c) \/ HelmStops(c)
      PROVE  Running(c) /\ DOMAIN seen' = Calls
      BY <1>1 DEF AzureActs, WorkloadsAct, DockerActs, HelmStops, AzureDoes, WorkloadsDo,
                  DockerDoes, ReadsInto, Shapes
<1>2. CASE OthersStep
      BY <1>2 DEF OthersStep, handler, JobInv, Shapes, Steps
<1>3. CASE AllLost
      BY <1>3 DEF AllLost, JobInv, Shapes, Stages, InFlight, Answers, Steps
<1> QED
    BY <1>1, <1>2, <1>3, MovesKeepJobs, GoingOnKeepsJobs, EveryStep

LEMMA ValueAsked ==
    ASSUME JobInv, NEW c \in Calls, Running(c)
    PROVE  /\ job[c].value \in Values /\ job[c].value \in Nat
           /\ job[c].op \in Operations /\ stage[c] = "running"
  BY ProviderAssumption DEF JobInv, JobTypes, Running

LEMMA AzureActsTypes ==
    ASSUME JobInv, Shapes, ObjectsInv, NEW c \in Calls, AzureActs(c)
    PROVE  AzureTypeOK'
<1> DEFINE r == Request(c)
<1>1. job[c].value \in Values
      BY ValueAsked DEF AzureActs
<1>2. r = "vm_put" => seen[c] \in VMs
      BY DEF AzureActs, RequestOf, ObjectsInv, SeenInv
<1>3. vm' \in VMs
  <2>1. vm \in VMs /\ vmEdits \in 0..MaxEdits /\ AzureDoes(c, r)
        BY DEF AzureActs, ObjectsInv, AzureTypeOK
  <2>2. CASE r = "vm_put"
    <3>1. vm' = [seen[c] EXCEPT !.state = vm.state, !.size = job[c].value]
          BY <2>1, <2>2 DEF AzureDoes, VmPut, AzureRequests
    <3> QED
        BY <1>1, <1>2, <2>1, <2>2, <3>1 DEF VMs
  <2>3. CASE r = "vm_create"
    <3>1. vm' = IF vm.state = "absent"
                THEN [state |-> "running", size |-> job[c].value, edit |-> vmEdits]
                ELSE [state |-> vm.state, size |-> job[c].value, edit |-> 0]
          BY <2>1, <2>3 DEF AzureDoes, VmCreate, AzureRequests
    <3> QED
        BY <1>1, <2>1, <3>1, ProviderAssumption DEF VMs
  <2>4. CASE r \notin {"vm_put", "vm_create"}
        BY <1>1, <2>1, <2>4 DEF AzureDoes, VMs
  <2> QED
      BY <2>2, <2>3, <2>4
<1>4. disk' \in Disks
  <2>1. disk \in Disks /\ AzureDoes(c, r)
        BY DEF AzureActs, ObjectsInv, AzureTypeOK
  <2>2. CASE r = "disk_put"
    <3>1. seen[c] \in Disks
          BY <2>2 DEF AzureActs, RequestOf, ObjectsInv, SeenInv
    <3>2. disk' = [seen[c] EXCEPT !.size = job[c].value]
          BY <2>1, <2>2 DEF AzureDoes, DiskPut
    <3> QED
        BY <1>1, <3>1, <3>2 DEF Disks
  <2>3. CASE r # "disk_put"
        BY <2>1, <2>3 DEF AzureDoes
  <2> QED
      BY <2>2, <2>3
<1>5. nic' \in BOOLEAN /\ vmEdits' \in 0..MaxEdits /\ diskEdits' \in 0..MaxEdits
      BY DEF AzureActs, AzureDoes, ObjectsInv, AzureTypeOK
<1> QED
    BY <1>3, <1>4, <1>5 DEF AzureTypeOK, VMs, Disks

LEMMA SettledType ==
    ASSUME revs \in Seq(Revisions), NEW c, NEW s \in {"deployed", "failed"}
    PROVE  Settled(c, s) \in Seq(Revisions)
<1>1. \A i \in 1..Len(revs) : revs[i] \in Revisions
      OBVIOUS
<1> QED
    BY <1>1 DEF Settled, Revisions

LEMMA PatchedType ==
    ASSUME JobInv, NEW c \in Calls, Running(c), seen[c] \in Deployments
    PROVE  Patched(c) \in Deployments
<1>1. job[c].value \in Values
      BY ValueAsked
<1> QED
    BY <1>1 DEF Patched, Deployments

LEMMA WorkloadsActTypes ==
    ASSUME JobInv, Shapes, ObjectsInv, NEW c \in Calls, WorkloadsAct(c)
    PROVE  WorkloadsTypeOK'
<1> DEFINE r == Request(c)
<1>1. job[c].value \in Nat
      BY ValueAsked DEF WorkloadsAct
<1>2. namespace' \in {"absent", "active", "terminating"} /\ depEdits' \in 0..MaxEdits
      BY DEF WorkloadsAct, WorkloadsDo, ObjectsInv, WorkloadsTypeOK
<1>3. revs' \in Seq(Revisions)
  <2>1. revs \in Seq(Revisions) /\ Settled(c, "deployed") \in Seq(Revisions)
        BY SettledType DEF ObjectsInv, WorkloadsTypeOK
  <2>2. Revision("pending", c) \in Revisions
        BY DEF Revision, Revisions
  <2>3. Append(revs, Revision("pending", c)) \in Seq(Revisions)
        BY <2>1, <2>2
  <2> QED
      BY <2>1, <2>3 DEF WorkloadsAct, WorkloadsDo
<1>4. dep' \in Deployments \cup {None}
  <2>1. CASE r = "dep_patch"
    <3>1. seen[c] \in Deployments /\ dep \in Deployments
          BY <2>1 DEF WorkloadsAct, WorkloadsAllow, RequestOf, ObjectsInv, SeenInv, WorkloadsTypeOK
    <3>2. Patched(c) \in Deployments
          BY <3>1, PatchedType DEF WorkloadsAct
    <3>3. dep' = [Patched(c) EXCEPT !.version = dep.version + 1]
          BY <2>1 DEF WorkloadsAct, WorkloadsDo, Touched
    <3> QED
        BY <3>1, <3>2, <3>3 DEF Deployments
  <2>2. CASE r = "dep_scale"
    <3>1. dep \in Deployments
          BY <2>2 DEF WorkloadsAct, WorkloadsAllow, ObjectsInv, WorkloadsTypeOK
    <3> DEFINE scaled == [dep EXCEPT !.replicas = job[c].value]
    <3>2. scaled \in Deployments
          BY <1>1, <3>1 DEF Deployments
    <3>3. dep' = [scaled EXCEPT !.version = dep.version + 1]
          BY <2>2 DEF WorkloadsAct, WorkloadsDo, Touched
    <3> HIDE DEF scaled
    <3> QED
        BY <3>1, <3>2, <3>3 DEF Deployments
  <2>3. CASE r \notin {"dep_patch", "dep_scale"}
        BY <2>3 DEF WorkloadsAct, WorkloadsDo, ObjectsInv, WorkloadsTypeOK
  <2> QED
      BY <2>1, <2>2, <2>3
<1> QED
    BY <1>2, <1>3, <1>4 DEF WorkloadsTypeOK
LEMMA ActsKeepSeen ==
    ASSUME JobInv, Shapes, ObjectsInv, NEW c \in Calls, GoesOn(c),
           AzureActs(c) \/ WorkloadsAct(c) \/ DockerActs(c) \/ HelmStops(c)
    PROVE  SeenInv'
<1>1. Running(c) /\ stage[c] = "running" /\ at[c] \in 0..2 /\ job[c].op \in Operations
  <2>1. Running(c)
        BY DEF AzureActs, WorkloadsAct, DockerActs, HelmStops
  <2> DEFINE n == Len(Steps(job[c].op))
  <2>2. stage[c] = "running" /\ job[c].op \in Operations /\ at[c] \in 0..n
        BY <2>1, ValueAsked DEF JobInv
  <2>3. n \in 0..2
        BY <2>2, LengthsOf
  <2> HIDE DEF n
  <2>4. at[c] \in 0..2
        BY <2>2, <2>3
  <2> QED
      BY <2>1, <2>2, <2>4
<1>2. vm \in VMs /\ disk \in Disks /\ dep \in Deployments \cup {None}
      BY DEF ObjectsInv, AzureTypeOK, WorkloadsTypeOK
<1>3. \/ UNCHANGED seen
      \/ seen' = [seen EXCEPT ![c] = vm] /\ Request(c) = "vm_get"
      \/ seen' = [seen EXCEPT ![c] = disk] /\ Request(c) = "disk_get"
      \/ seen' = [seen EXCEPT ![c] = dep] /\ Request(c) = "dep_read" /\ dep # None
      BY DEF AzureActs, WorkloadsAct, WorkloadsAllow, DockerActs, HelmStops, AzureDoes,
             WorkloadsDo, DockerDoes, ReadsInto
<1>4. job[c].op \in {"resize_vm", "patch", "expand_disk"} =>
          \/ RequestOf(job[c].op, at[c], Request(c)) /\ (AzureActs(c) \/ WorkloadsAct(c))
          \/ UNCHANGED at
      BY OperationsOf DEF AzureActs, WorkloadsAct, DockerActs, HelmStops
<1>5. ASSUME NEW d \in Calls, d # c
      PROVE  seen'[d] = seen[d] /\ at'[d] = at[d] /\ stage'[d] = stage[d] /\ job'[d] = job[d]
      BY <1>3, <1>5 DEF GoesOn, Shapes
<1>6. /\ seen'[c] \in VMs \cup Disks \cup Deployments \cup {None}
      /\ ~(stage'[c] \in {"idle", "running"} /\ at'[c] = 0)
      BY <1>1, <1>2, <1>3 DEF GoesOn, Shapes, ObjectsInv, SeenInv
<1>7. at'[c] = 1 /\ job'[c].op = "resize_vm" => seen'[c] \in VMs
  <2> SUFFICES ASSUME at'[c] = 1, job[c].op = "resize_vm" PROVE seen'[c] \in VMs
      BY DEF GoesOn
  <2>1. CASE UNCHANGED at
    <3>1. at[c] = 1 /\ seen[c] \in VMs
          BY <2>1 DEF ObjectsInv, SeenInv
    <3>2. Request(c) \notin {"dep_read", "disk_get"}
      <4>1. CASE WorkloadsAct(c)
            BY <4>1, OperationsOf DEF WorkloadsAct
      <4>2. CASE AzureActs(c)
            BY <4>2 DEF AzureActs, RequestOf
      <4>3. CASE HelmStops(c)
            BY <4>3 DEF HelmStops, HelmFails
      <4>4. CASE DockerActs(c)
            BY <4>4, OperationsOf DEF DockerActs
      <4> QED
          BY <4>1, <4>2, <4>3, <4>4
    <3> QED
        BY <1>2, <1>3, <3>1, <3>2 DEF Shapes
  <2>2. CASE at' = [at EXCEPT ![c] = @ + 1] /\ ~UNCHANGED at
    <3>1. at[c] = 0 /\ RequestOf(job[c].op, at[c], Request(c)) /\ (AzureActs(c) \/ WorkloadsAct(c))
          BY <1>1, <1>4, <2>2 DEF Shapes
    <3>2. Request(c) = "vm_get" /\ AzureActs(c)
          BY <3>1, OperationsOf DEF RequestOf, WorkloadsAct
    <3> QED
        BY <1>2, <3>2 DEF AzureActs, AzureDoes, ReadsInto, Shapes
  <2> QED
      BY <2>1, <2>2 DEF GoesOn
<1>8. at'[c] = 1 /\ job'[c].op = "patch" => seen'[c] \in Deployments
  <2> SUFFICES ASSUME at'[c] = 1, job[c].op = "patch" PROVE seen'[c] \in Deployments
      BY DEF GoesOn
  <2>1. CASE UNCHANGED at
    <3>1. at[c] = 1 /\ seen[c] \in Deployments
          BY <2>1 DEF ObjectsInv, SeenInv
    <3>2. Request(c) \notin {"vm_get", "disk_get"}
      <4>1. CASE WorkloadsAct(c)
            BY <4>1 DEF WorkloadsAct, RequestOf
      <4>2. CASE AzureActs(c)
            BY <4>2, OperationsOf DEF AzureActs
      <4>3. CASE HelmStops(c)
            BY <4>3 DEF HelmStops, HelmFails
      <4>4. CASE DockerActs(c)
            BY <4>4, OperationsOf DEF DockerActs
      <4> QED
          BY <4>1, <4>2, <4>3, <4>4
    <3> QED
        BY <1>2, <1>3, <3>1, <3>2 DEF Shapes
  <2>2. CASE at' = [at EXCEPT ![c] = @ + 1] /\ ~UNCHANGED at
    <3>1. at[c] = 0 /\ RequestOf(job[c].op, at[c], Request(c)) /\ (AzureActs(c) \/ WorkloadsAct(c))
          BY <1>1, <1>4, <2>2 DEF Shapes
    <3>2. Request(c) = "dep_read" /\ WorkloadsAct(c)
          BY <3>1, OperationsOf DEF RequestOf, AzureActs
    <3> QED
        BY <1>2, <3>2 DEF WorkloadsAct, WorkloadsAllow, WorkloadsDo, ReadsInto, Shapes
  <2> QED
      BY <2>1, <2>2 DEF GoesOn
<1>9. at'[c] = 1 /\ job'[c].op = "expand_disk" => seen'[c] \in Disks
  <2> SUFFICES ASSUME at'[c] = 1, job[c].op = "expand_disk" PROVE seen'[c] \in Disks
      BY DEF GoesOn
  <2>1. CASE UNCHANGED at
    <3>1. at[c] = 1 /\ seen[c] \in Disks
          BY <2>1 DEF ObjectsInv, SeenInv
    <3>2. Request(c) \notin {"vm_get", "dep_read"}
      <4>1. CASE WorkloadsAct(c)
            BY <4>1, OperationsOf DEF WorkloadsAct
      <4>2. CASE AzureActs(c)
            BY <4>2 DEF AzureActs, RequestOf
      <4>3. CASE HelmStops(c)
            BY <4>3 DEF HelmStops, HelmFails
      <4>4. CASE DockerActs(c)
            BY <4>4, OperationsOf DEF DockerActs
      <4> QED
          BY <4>1, <4>2, <4>3, <4>4
    <3> QED
        BY <1>2, <1>3, <3>1, <3>2 DEF Shapes
  <2>2. CASE at' = [at EXCEPT ![c] = @ + 1] /\ ~UNCHANGED at
    <3>1. at[c] = 0 /\ RequestOf(job[c].op, at[c], Request(c)) /\ (AzureActs(c) \/ WorkloadsAct(c))
          BY <1>1, <1>4, <2>2 DEF Shapes
    <3>2. Request(c) = "disk_get" /\ AzureActs(c)
          BY <3>1, OperationsOf DEF RequestOf, WorkloadsAct
    <3> QED
        BY <1>2, <3>2 DEF AzureActs, AzureDoes, ReadsInto, Shapes
  <2> QED
      BY <2>1, <2>2 DEF GoesOn
<1>10. ASSUME NEW d \in Calls
      PROVE  /\ seen'[d] \in VMs \cup Disks \cup Deployments \cup {None}
             /\ stage'[d] \in {"idle", "running"} /\ at'[d] = 0 => seen'[d] = None
             /\ at'[d] = 1 /\ job'[d].op = "resize_vm" => seen'[d] \in VMs
             /\ at'[d] = 1 /\ job'[d].op = "patch" => seen'[d] \in Deployments
             /\ at'[d] = 1 /\ job'[d].op = "expand_disk" => seen'[d] \in Disks
  <2>1. CASE d = c
        BY <1>6, <1>7, <1>8, <1>9, <2>1
  <2>2. CASE d # c
        BY <1>5, <2>2 DEF ObjectsInv, SeenInv
  <2> QED
      BY <2>1, <2>2
<1> QED
    BY <1>10 DEF SeenInv, VMs, Disks, Deployments

\* The bound on changes by others is one on those to each object.
LEMMA EditsAreBounded ==
    ASSUME ObjectsInv, OthersStep, EditVM \/ EditDisk \/ EditDeployment
    PROVE  /\ vmEdits \in 0..MaxEdits /\ diskEdits \in 0..MaxEdits /\ depEdits \in 0..MaxEdits
           /\ vmEdits + 1 \in 0..MaxEdits /\ diskEdits + 1 \in 0..MaxEdits
           /\ depEdits + 1 \in 0..MaxEdits
<1>1. /\ vmEdits \in 0..MaxEdits /\ diskEdits \in 0..MaxEdits /\ depEdits \in 0..MaxEdits
      /\ MaxEdits \in Nat
      BY ProviderAssumption DEF ObjectsInv, AzureTypeOK, WorkloadsTypeOK
<1>2. ~(Terminates /\ UNCHANGED azure)
  <2>1. (EditVM => vmEdits' = vmEdits + 1) /\ (EditDisk => diskEdits' = diskEdits + 1)
        BY DEF EditVM, EditDisk
  <2>2. EditDeployment => depEdits' = depEdits + 1
        BY DEF EditDeployment
  <2>3. Terminates => depEdits' = depEdits
        BY DEF Terminates
  <2>4. UNCHANGED azure => vmEdits' = vmEdits /\ diskEdits' = diskEdits
        BY DEF azure
  <2> QED
      BY <1>1, <2>1, <2>2, <2>3, <2>4
<1>3. vmEdits + diskEdits + depEdits < MaxEdits
      BY <1>2 DEF OthersStep
<1> QED
    BY <1>1, <1>3

LEMMA OthersKeepObjects ==
    ASSUME JobInv, Shapes, ObjectsInv, OthersStep
    PROVE  ObjectsInv'
<1>0. EditVM \/ EditDisk \/ EditDeployment =>
          /\ vmEdits \in 0..MaxEdits /\ diskEdits \in 0..MaxEdits /\ depEdits \in 0..MaxEdits
          /\ vmEdits + 1 \in 0..MaxEdits /\ diskEdits + 1 \in 0..MaxEdits
          /\ depEdits + 1 \in 0..MaxEdits
      BY EditsAreBounded
<1>1. SeenInv'
      BY DEF OthersStep, handler, ObjectsInv, SeenInv, VMs, Disks, Deployments
<1>2. AzureTypeOK'
  <2>1. CASE EditVM
    <3>1. vmEdits' \in 0..MaxEdits
          BY <1>0, <2>1 DEF EditVM
    <3> QED
        BY <2>1, <3>1 DEF EditVM, ObjectsInv, AzureTypeOK, VMs, Disks
  <2>2. CASE EditDisk
    <3>1. diskEdits' \in 0..MaxEdits
          BY <1>0, <2>2 DEF EditDisk
    <3> QED
        BY <2>2, <3>1 DEF EditDisk, ObjectsInv, AzureTypeOK, VMs, Disks
  <2>3. CASE UNCHANGED azure
        BY <2>3 DEF azure, ObjectsInv, AzureTypeOK, VMs, Disks
  <2> QED
      BY <2>1, <2>2, <2>3 DEF OthersStep
<1>3. WorkloadsTypeOK'
  <2>1. CASE EditDeployment
    <3>1. dep \in Deployments /\ depEdits' \in 0..MaxEdits
          BY <1>0, <2>1 DEF EditDeployment, ObjectsInv, WorkloadsTypeOK
    <3> DEFINE edited == [dep EXCEPT !.edit = depEdits']
    <3>2. edited \in Deployments
          BY <3>1 DEF Deployments
    <3>3. dep' = [edited EXCEPT !.version = dep.version + 1]
          BY <2>1 DEF EditDeployment, Touched
    <3> HIDE DEF edited
    <3>4. dep' \in Deployments
          BY <3>1, <3>2, <3>3 DEF Deployments
    <3>5. UNCHANGED <<namespace, revs>> /\ Deployments' = Deployments /\ Revisions' = Revisions
          BY <2>1 DEF EditDeployment, Deployments, Revisions
    <3> QED
        BY <3>1, <3>4, <3>5 DEF ObjectsInv, WorkloadsTypeOK
  <2>2. CASE Terminates
        BY <2>2 DEF Terminates, ObjectsInv, WorkloadsTypeOK, Deployments, Revisions
  <2>3. CASE UNCHANGED cluster
        BY <2>3 DEF cluster, ObjectsInv, WorkloadsTypeOK, Deployments, Revisions
  <2> QED
      BY <2>1, <2>2, <2>3 DEF OthersStep
<1>4. DockerTypeOK'
      BY DEF OthersStep, ObjectsInv, DockerTypeOK
<1> QED
    BY <1>1, <1>2, <1>3, <1>4 DEF ObjectsInv

LEMMA HelmStopsTypes ==
    ASSUME ObjectsInv, NEW c \in Calls, HelmStops(c)
    PROVE  WorkloadsTypeOK'
<1>1. Settled(c, "failed") \in Seq(Revisions)
      BY SettledType DEF ObjectsInv, WorkloadsTypeOK
<1> QED
    BY <1>1 DEF HelmStops, HelmFails, ObjectsInv, WorkloadsTypeOK, Revisions, Deployments

LEMMA DockerActsTypes ==
    ASSUME ObjectsInv, NEW c \in Calls, DockerActs(c)
    PROVE  DockerTypeOK'
  BY DEF DockerActs, DockerDoes, ObjectsInv, DockerTypeOK

\* What is left alone keeps its type.
LEMMA LeftAlone ==
    ASSUME ObjectsInv
    PROVE  /\ UNCHANGED azure => AzureTypeOK'
           /\ UNCHANGED cluster => WorkloadsTypeOK'
           /\ UNCHANGED container => DockerTypeOK'
<1>1. ASSUME UNCHANGED azure PROVE AzureTypeOK'
      BY <1>1 DEF azure, ObjectsInv, AzureTypeOK, VMs, Disks
<1>2. ASSUME UNCHANGED cluster PROVE WorkloadsTypeOK'
      BY <1>2 DEF cluster, ObjectsInv, WorkloadsTypeOK, Deployments, Revisions
<1>3. ASSUME UNCHANGED container PROVE DockerTypeOK'
      BY <1>3 DEF ObjectsInv, DockerTypeOK
<1> QED
    BY <1>1, <1>2, <1>3

LEMMA QuietSeen ==
    ASSUME JobInv, Shapes, ObjectsInv, UNCHANGED <<at, seen>>,
           (\E c \in Calls : CallMoves(c)) \/ AllLost
    PROVE  SeenInv'
<1>1. ASSUME NEW d \in Calls
      PROVE  /\ job'[d].op = job[d].op \/ at[d] = 0
             /\ stage'[d] \in {"idle", "running"} => stage[d] \in {"idle", "running"}
  <2>1. CASE stage[d] = "idle"
    <3>1. job[d].op = "none" /\ at[d] = 0
          BY <2>1, StepsOf DEF JobInv
    <3> QED
        BY <2>1, <3>1
  <2>2. CASE stage[d] # "idle"
        BY <2>2 DEF CallMoves, Moves, AllLost, InFlight, Shapes
  <2> QED
      BY <2>1, <2>2
<1> QED
    BY <1>1 DEF ObjectsInv, SeenInv, VMs, Disks, Deployments

LEMMA ObjectsStep ==
    ASSUME JobInv, Shapes, ObjectsInv, ProvidersNext
    PROVE  ObjectsInv'
<1>1. ASSUME NEW c \in Calls, GoesOn(c),
             AzureActs(c) \/ WorkloadsAct(c) \/ DockerActs(c) \/ HelmStops(c)
      PROVE  ObjectsInv'
  <2>1. AzureTypeOK'
        BY <1>1, AzureActsTypes, LeftAlone DEF WorkloadsAct, DockerActs, HelmStops
  <2>2. WorkloadsTypeOK'
        BY <1>1, WorkloadsActTypes, HelmStopsTypes, LeftAlone DEF AzureActs, DockerActs
  <2>3. DockerTypeOK'
        BY <1>1, DockerActsTypes, LeftAlone DEF AzureActs, WorkloadsAct, HelmStops
  <2> QED
      BY <1>1, <2>1, <2>2, <2>3, ActsKeepSeen DEF ObjectsInv
<1>2. CASE (\E c \in Calls : CallMoves(c)) \/ AllLost
  <2>1. UNCHANGED <<at, seen, providers>>
        BY <1>2 DEF CallMoves, AllLost
  <2> QED
      BY <1>2, <2>1, QuietSeen, LeftAlone DEF ObjectsInv, providers
<1>3. CASE OthersStep
      BY <1>3, OthersKeepObjects
<1> QED
    BY <1>1, <1>2, <1>3, EveryStep
-----------------------------------------------------------------------------
(* The deployment *)

(***************************************************************************)
(* A call that has read the deployment to patch it has an older version of *)
(* it or the very same: the version it sends back tells which.             *)
(***************************************************************************)
VersionInv ==
    \A c \in Calls :
        at[c] = 1 /\ job[c].op = "patch" /\ dep # None =>
            /\ seen[c].version <= dep.version
            /\ seen[c].version = dep.version => seen[c] = dep

\* How a request changes the deployment: the version grows, and a patch or a
\* scaling changes what it was asked to change.
LEMMA RequestChangesDep ==
    ASSUME JobInv, Shapes, ObjectsInv, VersionInv, NEW c \in Calls, WorkloadsAct(c), dep' # dep
    PROVE  /\ dep \in Deployments /\ dep' \in Deployments
           /\ dep'.version = dep.version + 1
           /\ dep'.edit = dep.edit
           /\ \/ /\ job[c].op = "patch" /\ dep'.replicas = dep.replicas
                 /\ \A f \in Fields : dep'.res[f] = IF f \in job[c].fields THEN job[c].value
                                                    ELSE dep.res[f]
              \/ job[c].op = "scale" /\ dep'.res = dep.res
<1> DEFINE r == Request(c)
<1>1. Running(c) /\ RequestOf(job[c].op, at[c], r) /\ WorkloadsAllow(c, r) /\ WorkloadsDo(c, r)
      BY DEF WorkloadsAct
<1>2. job[c].value \in Nat
      BY <1>1, ValueAsked
<1>3. r \in {"dep_patch", "dep_scale"} /\ dep \in Deployments
      BY <1>1 DEF WorkloadsDo, WorkloadsAllow, ObjectsInv, WorkloadsTypeOK
<1>4. CASE r = "dep_patch"
  <2>1. /\ job[c].op = "patch" /\ at[c] = 1
        /\ dep.version = seen[c].version /\ dep # None
        BY <1>1, <1>4 DEF RequestOf, WorkloadsAllow
  <2>2. seen[c] = dep
        BY <2>1 DEF VersionInv
  <2> DEFINE res == [f \in Fields |-> IF f \in job[c].fields THEN job[c].value ELSE dep.res[f]]
  <2>3. Patched(c) = [dep EXCEPT !.res = res]
        BY <2>2, <1>3 DEF Patched, Deployments
  <2>4. dep' = [Patched(c) EXCEPT !.version = dep.version + 1]
        BY <1>1, <1>4 DEF WorkloadsDo, Touched
  <2>5. Patched(c) \in Deployments
        BY <1>1, <1>3, <2>2, PatchedType
  <2>6. /\ dep' \in Deployments /\ dep'.version = dep.version + 1
        /\ dep'.edit = Patched(c).edit /\ dep'.replicas = Patched(c).replicas
        /\ dep'.res = Patched(c).res
        BY <1>3, <2>4, <2>5 DEF Deployments
  <2>7. /\ Patched(c).edit = dep.edit /\ Patched(c).replicas = dep.replicas
        /\ Patched(c).res = res
        BY <1>3, <2>3 DEF Deployments
  <2> QED
      BY <1>3, <2>1, <2>6, <2>7
<1>5. CASE r = "dep_scale"
  <2> DEFINE scaled == [dep EXCEPT !.replicas = job[c].value]
  <2>1. job[c].op = "scale"
        BY <1>1, <1>5 DEF RequestOf
  <2>2. scaled \in Deployments /\ scaled.edit = dep.edit /\ scaled.res = dep.res
        BY <1>2, <1>3 DEF Deployments
  <2>3. dep' = [scaled EXCEPT !.version = dep.version + 1]
        BY <1>1, <1>5 DEF WorkloadsDo, Touched
  <2> HIDE DEF scaled
  <2>4. /\ dep' \in Deployments /\ dep'.version = dep.version + 1
        /\ dep'.edit = scaled.edit /\ dep'.res = scaled.res
        BY <1>3, <2>2, <2>3 DEF Deployments
  <2> QED
      BY <1>3, <2>1, <2>2, <2>4
<1> QED
    BY <1>3, <1>4, <1>5

\* How any step changes the deployment.
LEMMA DepChanges ==
    ASSUME JobInv, Shapes, ObjectsInv, VersionInv, ProvidersNext, dep' # dep, dep' # None
    PROVE  /\ dep \in Deployments /\ dep'.version = dep.version + 1
           /\ \/ /\ dep'.edit = dep.edit /\ UNCHANGED depEdits
                 /\ \E c \in Calls : WorkloadsAct(c)
              \/ /\ dep'.edit = depEdits'
                 /\ dep'.res = dep.res /\ dep'.replicas = dep.replicas
<1>1. CASE \E c \in Calls : AzureActs(c) \/ DockerActs(c) \/ HelmStops(c) \/ CallMoves(c)
      BY <1>1 DEF AzureActs, DockerActs, HelmStops, HelmFails, CallMoves, providers, cluster
<1>2. ASSUME NEW c \in Calls, WorkloadsAct(c)
      PROVE  /\ dep \in Deployments /\ dep'.version = dep.version + 1
             /\ dep'.edit = dep.edit /\ UNCHANGED depEdits
  <2>1. UNCHANGED depEdits
        BY <1>2 DEF WorkloadsAct, WorkloadsDo
  <2> QED
      BY <1>2, <2>1, RequestChangesDep
<1>3. CASE OthersStep
  <2>1. EditDeployment
        BY <1>3 DEF OthersStep, Terminates, cluster
  <2>2. dep \in Deployments /\ depEdits' \in 0..MaxEdits
        BY <1>3, <2>1, EditsAreBounded DEF EditDeployment, ObjectsInv, WorkloadsTypeOK
  <2> DEFINE edited == [dep EXCEPT !.edit = depEdits']
  <2>3. /\ edited \in Deployments /\ edited.edit = depEdits'
        /\ edited.res = dep.res /\ edited.replicas = dep.replicas
        BY <2>2 DEF Deployments
  <2>4. dep' = [edited EXCEPT !.version = dep.version + 1]
        BY <2>1 DEF EditDeployment, Touched
  <2> HIDE DEF edited
  <2>5. /\ dep'.version = dep.version + 1 /\ dep'.edit = edited.edit
        /\ dep'.res = edited.res /\ dep'.replicas = edited.replicas
        BY <2>2, <2>3, <2>4 DEF Deployments
  <2> QED
      BY <2>2, <2>3, <2>5
<1>4. CASE AllLost
      BY <1>4 DEF AllLost, providers, cluster
<1> QED
    BY <1>1, <1>2, <1>3, <1>4, EveryStep
\* What a patch is about to send back was read before, or is read in this step.
LEMMA PatchReads ==
    ASSUME JobInv, Shapes, ObjectsInv, ProvidersNext,
           NEW c \in Calls, at'[c] = 1, job'[c].op = "patch"
    PROVE  \/ at[c] = 1 /\ job[c].op = "patch" /\ seen'[c] = seen[c]
           \/ seen'[c] = dep /\ dep' = dep
<1>1. ASSUME NEW d \in Calls, GoesOn(d),
             AzureActs(d) \/ WorkloadsAct(d) \/ DockerActs(d) \/ HelmStops(d)
      PROVE  \/ at[c] = 1 /\ job[c].op = "patch" /\ seen'[c] = seen[c]
             \/ seen'[c] = dep /\ dep' = dep
  <2>1. job[c].op = "patch" /\ (d # c => at[c] = 1)
        BY <1>1 DEF GoesOn, Shapes
  <2>2. CASE AzureActs(d)
    <3>1. d # c
          BY <2>1, <2>2, OperationsOf DEF AzureActs
    <3>2. seen'[c] = seen[c]
          BY <2>2, <3>1 DEF AzureActs, AzureDoes, ReadsInto, Shapes
    <3> QED
        BY <2>1, <3>1, <3>2
  <2>3. CASE DockerActs(d)
    <3>1. d # c
          BY <2>1, <2>3, OperationsOf DEF DockerActs
    <3> QED
        BY <2>1, <2>3, <3>1 DEF DockerActs, DockerDoes
  <2>4. CASE HelmStops(d)
        BY <2>1, <2>4 DEF HelmStops
  <2>5. CASE WorkloadsAct(d) /\ Request(d) = "dep_read"
    <3>1. dep' = dep /\ seen' = [seen EXCEPT ![d] = dep]
          BY <2>5 DEF WorkloadsAct, WorkloadsDo, ReadsInto
    <3> QED
        BY <2>1, <3>1 DEF Shapes
  <2>6. CASE WorkloadsAct(d) /\ Request(d) # "dep_read"
    <3>1. seen' = seen
          BY <2>6 DEF WorkloadsAct, WorkloadsDo
    <3>2. d = c => at[c] = 1
          BY <2>1, <2>6 DEF WorkloadsAct, RequestOf
    <3> QED
        BY <2>1, <3>1, <3>2
  <2> QED
      BY <1>1, <2>2, <2>3, <2>4, <2>5, <2>6
<1>2. ASSUME NEW d \in Calls, CallMoves(d)
      PROVE  at[c] = 1 /\ job[c].op = "patch" /\ seen'[c] = seen[c]
  <2>1. UNCHANGED <<at, seen>> /\ at[c] = 1
        BY <1>2 DEF CallMoves
  <2>2. stage[c] # "idle"
        BY <2>1, StepsOf DEF JobInv
  <2>3. job'[c] = job[c]
        BY <1>2, <2>2 DEF CallMoves, Moves, Shapes
  <2> QED
      BY <2>1, <2>3
<1>3. CASE OthersStep
      BY <1>3 DEF OthersStep
<1>4. CASE AllLost
      BY <1>4 DEF AllLost
<1> QED
    BY <1>1, <1>2, <1>3, <1>4, EveryStep

LEMMA VersionStep ==
    ASSUME JobInv, Shapes, ObjectsInv, VersionInv, ProvidersNext
    PROVE  VersionInv'
<1> SUFFICES ASSUME NEW c \in Calls, at'[c] = 1, job'[c].op = "patch", dep' # None
             PROVE  /\ seen'[c].version <= dep'.version
                    /\ seen'[c].version = dep'.version => seen'[c] = dep'
    BY DEF VersionInv
<1>1. dep' \in Deployments
      BY ObjectsStep DEF ObjectsInv, WorkloadsTypeOK, Deployments
<1>2. CASE seen'[c] = dep /\ dep' = dep
      BY <1>1, <1>2 DEF Deployments
<1>3. CASE at[c] = 1 /\ job[c].op = "patch" /\ seen'[c] = seen[c]
  <2>1. seen[c] \in Deployments
        BY <1>3 DEF ObjectsInv, SeenInv
  <2>2. CASE dep' = dep
        BY <1>3, <2>2 DEF VersionInv
  <2>3. CASE dep' # dep
    <3>1. dep \in Deployments /\ dep'.version = dep.version + 1
          BY <2>3, DepChanges
    <3>2. dep # None
          BY <3>1, FaultAssumption
    <3>3. seen[c].version <= dep.version /\ seen[c].version \in Nat /\ dep.version \in Nat
          BY <1>3, <2>1, <3>1, <3>2 DEF VersionInv, Deployments
    <3>4. seen[c].version < dep'.version /\ dep'.version \in Nat
          BY <3>1, <3>3
    <3> QED
        BY <1>3, <3>3, <3>4
  <2> QED
      BY <2>2, <2>3
<1> QED
    BY <1>2, <1>3, PatchReads

-----------------------------------------------------------------------------
(* Edits *)

\* A resize or an expansion that has read its object never reads it again.
LEMMA ReadsOnce ==
    ASSUME JobInv, Shapes, ObjectsInv, ProvidersNext,
           NEW c \in Calls, job[c].op \in {"resize_vm", "expand_disk"}, seen[c] # None
    PROVE  job'[c] = job[c] /\ seen'[c] = seen[c]
<1>1. stage[c] # "idle" /\ (stage[c] = "running" => at[c] # 0)
      BY DEF ObjectsInv, SeenInv, JobInv
<1>2. ASSUME NEW d \in Calls, GoesOn(d),
             AzureActs(d) \/ WorkloadsAct(d) \/ DockerActs(d) \/ HelmStops(d)
      PROVE  job'[c] = job[c] /\ seen'[c] = seen[c]
  <2>1. job'[c] = job[c]
        BY <1>2 DEF GoesOn
  <2>2. CASE AzureActs(d) /\ Request(d) \in {"vm_get", "disk_get"}
    <3>1. stage[d] = "running" /\ at[d] = 0
          BY <2>2 DEF AzureActs, RequestOf, Running
    <3> QED
        BY <1>1, <2>1, <2>2, <3>1 DEF AzureActs, AzureDoes, ReadsInto, Shapes
  <2>3. CASE WorkloadsAct(d) /\ Request(d) = "dep_read"
    <3>1. d # c
          BY <2>3 DEF WorkloadsAct, RequestOf
    <3> QED
        BY <2>1, <2>3, <3>1 DEF WorkloadsAct, WorkloadsDo, ReadsInto, Shapes
  <2>4. CASE /\ ~(AzureActs(d) /\ Request(d) \in {"vm_get", "disk_get"})
             /\ ~(WorkloadsAct(d) /\ Request(d) = "dep_read")
        BY <1>2, <2>1, <2>4 DEF AzureActs, AzureDoes, WorkloadsAct, WorkloadsDo, DockerActs,
                                DockerDoes, HelmStops
  <2> QED
      BY <2>2, <2>3, <2>4
<1>3. ASSUME NEW d \in Calls, CallMoves(d)
      PROVE  job'[c] = job[c] /\ seen'[c] = seen[c]
      BY <1>1, <1>3 DEF CallMoves, Moves, Shapes
<1>4. CASE OthersStep
      BY <1>4 DEF OthersStep
<1>5. CASE AllLost
      BY <1>5 DEF AllLost
<1> QED
    BY <1>2, <1>3, <1>4, <1>5, EveryStep

\* A call that has been received keeps its job, and is never back before a
\* request it has made.
LEMMA JobStays ==
    ASSUME JobInv, Shapes, ProvidersNext, NEW c \in Calls, job[c].op # "none"
    PROVE  job'[c] = job[c] /\ at'[c] >= at[c]
<1>1. stage[c] # "idle" /\ at[c] \in Nat
      BY DEF JobInv, Shapes
<1> QED
    BY <1>1, EveryStep DEF GoesOn, CallMoves, Moves, OthersStep, AllLost, Shapes

\* The calls that may have undone what others changed in the machine or the disk.
UndoneInVm(c, e) ==
    \/ job[c].op = "resize_vm" /\ seen[c] # None /\ seen[c].edit = e
    \/ job[c].op = "create_vm" /\ at[c] > 0 /\ e = 0

UndoneInDisk(c, e) == job[c].op = "expand_disk" /\ seen[c] # None /\ seen[c].edit = e

LEMMA UndoneStays ==
    ASSUME JobInv, Shapes, ObjectsInv, ProvidersNext, NEW c \in Calls, NEW e
    PROVE  /\ UndoneInVm(c, e) => UndoneInVm(c, e)'
           /\ UndoneInDisk(c, e) => UndoneInDisk(c, e)'
<1>1. UndoneInDisk(c, e) => UndoneInDisk(c, e)'
      BY ReadsOnce DEF UndoneInDisk
<1>2. CASE job[c].op = "create_vm"
  <2>1. job'[c] = job[c] /\ at'[c] >= at[c] /\ at[c] \in Nat /\ at'[c] \in Nat
        BY <1>2, JobStays, JobStep DEF Shapes
  <2> QED
      BY <1>1, <1>2, <2>1 DEF UndoneInVm
<1>3. CASE job[c].op # "create_vm"
      BY <1>1, <1>3, ReadsOnce DEF UndoneInVm
<1> QED
    BY <1>2, <1>3

LEMMA EditsStep ==
    ASSUME JobInv, Shapes, ObjectsInv, VersionInv, EditsAreKept, ProvidersNext
    PROVE  EditsAreKept'
<1>1. ASSUME dep' # None PROVE dep'.edit = depEdits'
  <2>1. CASE dep' # dep
    <3>1. dep \in Deployments
          BY <1>1, <2>1, DepChanges
    <3>2. dep.edit = depEdits
          BY <3>1, FaultAssumption DEF EditsAreKept
    <3> QED
        BY <1>1, <2>1, <3>2, DepChanges
  <2>2. CASE dep' = dep
    <3>1. depEdits' = depEdits
      <4>1. ASSUME NEW c \in Calls,
                   AzureActs(c) \/ WorkloadsAct(c) \/ DockerActs(c) \/ HelmStops(c) \/ CallMoves(c)
            PROVE  depEdits' = depEdits
            BY <4>1 DEF AzureActs, WorkloadsAct, WorkloadsDo, DockerActs, HelmStops, HelmFails,
                        CallMoves, providers, cluster
      <4>2. CASE OthersStep
        <5>1. CASE EditDeployment
          <6>1. dep \in Deployments
                BY <5>1 DEF EditDeployment, ObjectsInv, WorkloadsTypeOK
          <6>2. dep'.version = dep.version + 1
                BY <5>1, <6>1 DEF EditDeployment, Touched, Deployments
          <6> QED
              BY <2>2, <6>1, <6>2 DEF Deployments
        <5> QED
            BY <4>2, <5>1 DEF OthersStep, Terminates, cluster
      <4>3. CASE AllLost
            BY <4>3 DEF AllLost, providers, cluster
      <4> QED
          BY <4>1, <4>2, <4>3, EveryStep
    <3> QED
        BY <1>1, <2>2, <3>1 DEF EditsAreKept
  <2> QED
      BY <2>1, <2>2
<1>2. ASSUME NEW e, vm'.edit = e, e # vmEdits' PROVE \E c \in Calls : UndoneInVm(c, e)'
  <2>1. CASE vm'.edit = vm.edit /\ vmEdits' = vmEdits
    <3>1. vm.edit = e /\ e # vmEdits
          BY <1>2, <2>1
    <3>2. PICK c \in Calls : UndoneInVm(c, e)
          BY <3>1 DEF EditsAreKept, UndoneInVm
    <3> QED
        BY <3>2, UndoneStays
  <2>2. ASSUME NEW c \in Calls, GoesOn(c), AzureActs(c)
        PROVE  (vm'.edit = vm.edit /\ vmEdits' = vmEdits) \/ UndoneInVm(c, e)'
    <3> DEFINE r == Request(c)
    <3>1. /\ vm \in VMs /\ AzureDoes(c, r) /\ vmEdits' = vmEdits
          /\ RequestOf(job[c].op, at[c], r) /\ job' = job
          BY <2>2 DEF AzureActs, AzureDoes, ObjectsInv, AzureTypeOK, GoesOn
    <3>2. CASE r = "vm_create"
      <4>1. /\ job'[c].op = "create_vm" /\ at[c] = 1
            /\ vm' = IF vm.state = "absent"
                     THEN [state |-> "running", size |-> job[c].value, edit |-> vmEdits]
                     ELSE [state |-> vm.state, size |-> job[c].value, edit |-> 0]
            BY <3>1, <3>2 DEF AzureDoes, VmCreate, AzureRequests, RequestOf
      <4>2. e = 0 /\ at'[c] > 0
            BY <1>2, <2>2, <3>1, <4>1 DEF GoesOn, Shapes
      <4> QED
          BY <4>1, <4>2 DEF UndoneInVm
    <3>3. CASE r = "vm_put"
      <4>1. job[c].op = "resize_vm" /\ seen[c] \in VMs /\ seen[c] # None /\ seen' = seen
            BY <3>1, <3>3, FaultAssumption DEF RequestOf, ObjectsInv, SeenInv, AzureDoes
      <4>2. vm' = [seen[c] EXCEPT !.state = vm.state, !.size = job[c].value]
            BY <3>1, <3>3 DEF AzureDoes, VmPut, AzureRequests
      <4>3. e = seen[c].edit
            BY <1>2, <4>1, <4>2 DEF VMs
      <4> QED
          BY <3>1, <4>1, <4>3 DEF UndoneInVm
    <3>4. CASE r \notin {"vm_create", "vm_put"}
          BY <3>1, <3>4 DEF AzureDoes, VMs
    <3> QED
        BY <3>2, <3>3, <3>4
  <2>3. ASSUME NEW c \in Calls, WorkloadsAct(c) \/ DockerActs(c) \/ HelmStops(c) \/ CallMoves(c)
        PROVE  vm'.edit = vm.edit /\ vmEdits' = vmEdits
        BY <2>3 DEF WorkloadsAct, DockerActs, HelmStops, CallMoves, providers, azure
  <2>4. CASE OthersStep
    <3>1. CASE EditVM
          BY <1>2, <3>1 DEF EditVM, ObjectsInv, AzureTypeOK, VMs
    <3>2. CASE ~EditVM
          BY <2>1, <2>4, <3>2 DEF OthersStep, EditDisk, azure
    <3> QED
        BY <3>1, <3>2
  <2>5. AllLost => vm'.edit = vm.edit /\ vmEdits' = vmEdits
        BY DEF AllLost, providers, azure
  <2> QED
      BY <2>1, <2>2, <2>3, <2>4, <2>5, EveryStep
<1>3. ASSUME NEW e, disk'.edit = e, e # diskEdits' PROVE \E c \in Calls : UndoneInDisk(c, e)'
  <2>1. CASE disk'.edit = disk.edit /\ diskEdits' = diskEdits
    <3>1. disk.edit = e /\ e # diskEdits
          BY <1>3, <2>1
    <3>2. PICK c \in Calls : UndoneInDisk(c, e)
          BY <3>1 DEF EditsAreKept, UndoneInDisk
    <3> QED
        BY <3>2, UndoneStays
  <2>2. ASSUME NEW c \in Calls, GoesOn(c), AzureActs(c)
        PROVE  (disk'.edit = disk.edit /\ diskEdits' = diskEdits) \/ UndoneInDisk(c, e)'
    <3> DEFINE r == Request(c)
    <3>1. /\ disk \in Disks /\ AzureDoes(c, r) /\ diskEdits' = diskEdits
          /\ RequestOf(job[c].op, at[c], r) /\ job' = job
          BY <2>2 DEF AzureActs, AzureDoes, ObjectsInv, AzureTypeOK, GoesOn
    <3>2. CASE r = "disk_put"
      <4>1. job[c].op = "expand_disk" /\ seen[c] \in Disks /\ seen[c] # None /\ seen' = seen
            BY <3>1, <3>2, FaultAssumption DEF RequestOf, ObjectsInv, SeenInv, AzureDoes
      <4>2. disk' = [seen[c] EXCEPT !.size = job[c].value]
            BY <3>1, <3>2 DEF AzureDoes, DiskPut
      <4>3. e = seen[c].edit
            BY <1>3, <4>1, <4>2 DEF Disks
      <4> QED
          BY <3>1, <4>1, <4>3 DEF UndoneInDisk
    <3>3. CASE r # "disk_put"
          BY <3>1, <3>3 DEF AzureDoes
    <3> QED
        BY <3>2, <3>3
  <2>3. ASSUME NEW c \in Calls, WorkloadsAct(c) \/ DockerActs(c) \/ HelmStops(c) \/ CallMoves(c)
        PROVE  disk'.edit = disk.edit /\ diskEdits' = diskEdits
        BY <2>3 DEF WorkloadsAct, DockerActs, HelmStops, CallMoves, providers, azure
  <2>4. CASE OthersStep
    <3>1. CASE EditDisk
          BY <1>3, <3>1 DEF EditDisk, ObjectsInv, AzureTypeOK, Disks
    <3>2. CASE ~EditDisk
          BY <2>1, <2>4, <3>2 DEF OthersStep, EditVM, azure
    <3> QED
        BY <3>1, <3>2
  <2>5. AllLost => disk'.edit = disk.edit /\ diskEdits' = diskEdits
        BY DEF AllLost, providers, azure
  <2> QED
      BY <2>1, <2>2, <2>3, <2>4, <2>5, EveryStep
<1>4. vm'.edit # vmEdits' =>
          \E c \in Calls : \/ /\ job'[c].op = "resize_vm"
                              /\ seen'[c] # None /\ seen'[c].edit = vm'.edit
                           \/ job'[c].op = "create_vm" /\ at'[c] > 0 /\ vm'.edit = 0
      BY <1>2 DEF UndoneInVm
<1>5. disk'.edit # diskEdits' =>
          \E c \in Calls : /\ job'[c].op = "expand_disk"
                           /\ seen'[c] # None /\ seen'[c].edit = disk'.edit
      BY <1>3 DEF UndoneInDisk
<1> QED
    BY <1>1, <1>4, <1>5 DEF EditsAreKept
-----------------------------------------------------------------------------
(* Leftovers *)

\* An interface without a machine, and a pending revision, are those of a call
\* that has not made its second request.
NicInv ==
    nic /\ vm.state = "absent" =>
        \E c \in Calls : \/ job[c].op = "delete_vm"
                         \/ job[c].op = "create_vm" /\ at[c] <= 1

PendingInv ==
    \A i \in 1..Len(revs) : revs[i].status = "pending" =>
        /\ revs[i].by \in Calls
        /\ job[revs[i].by].op \in HelmOps /\ at[revs[i].by] <= 1

LeftoversInv == NicInv /\ PendingInv

LEMMA LeftoversFollow ==
    ASSUME JobInv, LeftoversInv
    PROVE  LeftoversAreExplained
<1> DEFINE Incomplete == {c \in Calls :
                            stage[c] \in {"running", "log_fail", "reply_error", "error", "lost"}}
<1>1. ASSUME NEW c \in Calls, job[c].op \in HelmOps \cup {"create_vm"}, at[c] <= 1
      PROVE  c \in Incomplete
  <2>1. Len(Steps(job[c].op)) = 2 /\ job[c].op # "none"
        BY <1>1, LengthsOf DEF JobInv, JobTypes, HelmOps
  <2>2. stage[c] \notin {"idle", "refused"}
        BY <2>1 DEF JobInv
  <2>3. stage[c] \in {"log_ok", "reply_ok", "ok"} => at[c] = Len(Steps(job[c].op))
        BY DEF JobInv
  <2>4. stage[c] \notin {"log_ok", "reply_ok", "ok"}
        BY <1>1, <2>1, <2>3
  <2> QED
      BY <2>2, <2>4 DEF JobInv, Stages, InFlight, Answers
<1>2. nic /\ vm.state = "absent" =>
          \E c \in Calls : job[c].op = "delete_vm" \/ (job[c].op = "create_vm" /\ c \in Incomplete)
      BY <1>1 DEF LeftoversInv, NicInv
<1>3. \A i \in 1..Len(revs) : revs[i].status = "pending" => revs[i].by \in Incomplete
      BY <1>1 DEF LeftoversInv, PendingInv
<1> QED
    BY <1>2, <1>3 DEF LeftoversAreExplained

LEMMA NicStep ==
    ASSUME JobInv, Shapes, ObjectsInv, NicInv, ProvidersNext
    PROVE  NicInv'
<1> SUFFICES ASSUME nic', vm'.state = "absent"
             PROVE  \E c \in Calls : \/ job'[c].op = "delete_vm"
                                     \/ job'[c].op = "create_vm" /\ at'[c] <= 1
    BY DEF NicInv
<1>1. ASSUME nic, vm.state = "absent", \A c \in Calls : job[c].op = "create_vm" => at'[c] = at[c]
      PROVE  \E c \in Calls : \/ job'[c].op = "delete_vm"
                              \/ job'[c].op = "create_vm" /\ at'[c] <= 1
  <2>1. PICK c \in Calls : job[c].op = "delete_vm" \/ (job[c].op = "create_vm" /\ at[c] <= 1)
        BY <1>1 DEF NicInv
  <2>2. job'[c] = job[c]
        BY <2>1, JobStays
  <2> QED
      BY <1>1, <2>1, <2>2
<1>2. ASSUME NEW c \in Calls, GoesOn(c), AzureActs(c)
      PROVE  \E d \in Calls : \/ job'[d].op = "delete_vm"
                              \/ job'[d].op = "create_vm" /\ at'[d] <= 1
  <2> DEFINE r == Request(c)
  <2>1. /\ vm \in VMs /\ AzureDoes(c, r) /\ RequestOf(job[c].op, at[c], r)
        /\ job'[c] = job[c] /\ at[c] \in Nat
        BY <1>2 DEF AzureActs, ObjectsInv, AzureTypeOK, GoesOn, Shapes
  <2>2. CASE r = "vm_delete"
        BY <2>1, <2>2 DEF RequestOf
  <2>3. CASE r = "nic_put"
        BY <1>2, <2>1, <2>3 DEF RequestOf, GoesOn, Shapes
  <2>4. CASE r \notin {"vm_delete", "nic_put"}
    <3>1. nic /\ r # "vm_create"
      <4>1. r = "vm_create" => vm'.state # "absent"
            BY <2>1 DEF AzureDoes, VmCreate, AzureRequests
      <4>2. nic' = (nic \/ r = "nic_put")
            BY <2>1 DEF AzureDoes
      <4> QED
          BY <2>4, <4>1, <4>2
    <3>2. vm.state = "absent"
      <4>1. CASE r = "vm_put"
        <5>1. seen[c] \in VMs
              BY <2>1, <4>1 DEF RequestOf, ObjectsInv, SeenInv
        <5>2. vm' = [seen[c] EXCEPT !.state = vm.state, !.size = job[c].value]
              BY <2>1, <4>1 DEF AzureDoes, VmPut, AzureRequests
        <5>3. vm'.state = vm.state
              BY <2>1, <5>1, <5>2 DEF VMs
        <5> QED
            BY <5>3
      <4>2. CASE r # "vm_put"
            BY <2>1, <2>4, <3>1, <4>2 DEF AzureDoes, VMs
      <4> QED
          BY <4>1, <4>2
    <3>3. job[c].op = "create_vm" => at'[c] <= 1
          BY <1>2, <2>1, <3>1 DEF RequestOf, GoesOn, Shapes
    <3>4. \A d \in Calls : d # c => at'[d] = at[d]
          BY <1>2 DEF GoesOn, Shapes
    <3>5. PICK d \in Calls : job[d].op = "delete_vm" \/ (job[d].op = "create_vm" /\ at[d] <= 1)
          BY <3>1, <3>2 DEF NicInv
    <3>6. job'[d] = job[d]
          BY <3>5, JobStays
    <3> QED
        BY <3>3, <3>4, <3>5, <3>6
  <2> QED
      BY <2>2, <2>3, <2>4
<1>3. ASSUME NEW c \in Calls, GoesOn(c), WorkloadsAct(c) \/ DockerActs(c) \/ HelmStops(c)
      PROVE  /\ nic /\ vm.state = "absent"
             /\ \A d \in Calls : job[d].op = "create_vm" => at'[d] = at[d]
  <2>1. nic /\ vm.state = "absent"
        BY <1>3 DEF WorkloadsAct, DockerActs, HelmStops, azure
  <2>2. job[c].op # "create_vm" \/ UNCHANGED at
        BY <1>3, OperationsOf DEF WorkloadsAct, DockerActs, HelmStops
  <2> QED
      BY <1>3, <2>1, <2>2 DEF GoesOn, Shapes
<1>4. ASSUME NEW c \in Calls, CallMoves(c) PROVE nic /\ vm.state = "absent" /\ UNCHANGED at
      BY <1>4 DEF CallMoves, providers, azure
<1>5. AllLost => nic /\ vm.state = "absent" /\ UNCHANGED at
      BY DEF AllLost, providers, azure
<1>6. CASE OthersStep
      BY <1>1, <1>6 DEF OthersStep, EditVM, EditDisk, azure, ObjectsInv, AzureTypeOK, VMs
<1> QED
    BY <1>1, <1>2, <1>3, <1>4, <1>5, <1>6, EveryStep
\* After a command has ended, what is pending is another's and was so before.
LEMMA SettledPending ==
    ASSUME revs \in Seq(Revisions), NEW c, NEW s \in {"deployed", "failed"}
    PROVE  /\ Len(Settled(c, s)) = Len(revs)
           /\ \A i \in 1..Len(revs) : Settled(c, s)[i].status = "pending" =>
                  /\ revs[i].status = "pending" /\ Settled(c, s)[i].by = revs[i].by
                  /\ revs[i].by # c
<1>1. \A i \in 1..Len(revs) : revs[i] \in Revisions
      OBVIOUS
<1>2. Settled(c, s) = [i \in 1..Len(revs) |->
          IF revs[i].by = c THEN [revs[i] EXCEPT !.status = s]
          ELSE IF s = "deployed" /\ revs[i].status = "deployed"
               THEN [revs[i] EXCEPT !.status = "superseded"] ELSE revs[i]]
      BY DEF Settled
<1>3. Len(Settled(c, s)) = Len(revs)
      BY <1>2
<1>4. ASSUME NEW i \in 1..Len(revs), Settled(c, s)[i].status = "pending"
      PROVE  /\ revs[i].status = "pending" /\ Settled(c, s)[i].by = revs[i].by
             /\ revs[i].by # c
      BY <1>1, <1>2, <1>4 DEF Revisions
<1> QED
    BY <1>3, <1>4

\* A call whose function goes on from its first request has made that already.
LEMMA PendingStep ==
    ASSUME JobInv, Shapes, ObjectsInv, PendingInv, ProvidersNext
    PROVE  PendingInv'
<1>0. revs \in Seq(Revisions)
      BY DEF ObjectsInv, WorkloadsTypeOK
<1>1. ASSUME revs' = revs, \A c \in Calls : job[c].op \in HelmOps => at'[c] = at[c]
      PROVE  PendingInv'
  <2> SUFFICES ASSUME NEW i \in 1..Len(revs), revs[i].status = "pending"
               PROVE  /\ revs[i].by \in Calls
                      /\ job'[revs[i].by].op \in HelmOps /\ at'[revs[i].by] <= 1
      BY <1>1 DEF PendingInv
  <2>1. /\ revs[i].by \in Calls
        /\ job[revs[i].by].op \in HelmOps /\ at[revs[i].by] <= 1
        BY DEF PendingInv
  <2>2. job'[revs[i].by] = job[revs[i].by]
        BY <2>1, JobStays DEF HelmOps
  <2> QED
      BY <1>1, <2>1, <2>2
<1>2. ASSUME NEW c \in Calls, GoesOn(c), WorkloadsAct(c)
      PROVE  PendingInv'
  <2> DEFINE r == Request(c)
  <2>1. WorkloadsDo(c, r) /\ RequestOf(job[c].op, at[c], r) /\ job' = job /\ at[c] \in Nat
        BY <1>2 DEF WorkloadsAct, GoesOn, Shapes
  <2>2. \A d \in Calls : d # c => at'[d] = at[d]
        BY <1>2 DEF GoesOn, Shapes
  <2>3. CASE r \in {"install", "upgrade", "rollback"}
    <3>1. revs' = Append(revs, Revision("pending", c))
          BY <2>1, <2>3 DEF WorkloadsDo
    <3>2. job[c].op \in HelmOps /\ at'[c] <= 1
          BY <1>2, <2>1, <2>3 DEF RequestOf, GoesOn, Shapes
    <3> SUFFICES ASSUME NEW i \in 1..(Len(revs) + 1), revs'[i].status = "pending"
                 PROVE  /\ revs'[i].by \in Calls
                        /\ job[revs'[i].by].op \in HelmOps /\ at'[revs'[i].by] <= 1
        BY <1>0, <2>1, <3>1 DEF PendingInv
    <3>3. CASE i = Len(revs) + 1
          BY <1>0, <3>1, <3>2, <3>3 DEF Revision
    <3>4. CASE i # Len(revs) + 1
      <4>1. i \in 1..Len(revs) /\ revs'[i] = revs[i]
            BY <1>0, <3>1, <3>4
      <4>2. /\ revs[i].by \in Calls
            /\ job[revs[i].by].op \in HelmOps /\ at[revs[i].by] <= 1
            BY <4>1 DEF PendingInv
      <4> QED
          BY <2>2, <3>2, <4>1, <4>2
    <3> QED
        BY <3>3, <3>4
  <2>4. CASE r = "finish"
    <3>1. revs' = Settled(c, "deployed")
          BY <2>1, <2>4 DEF WorkloadsDo
    <3>2. /\ Len(revs') = Len(revs)
          /\ \A i \in 1..Len(revs) : revs'[i].status = "pending" =>
                 revs[i].status = "pending" /\ revs'[i].by = revs[i].by /\ revs[i].by # c
          BY <1>0, <3>1, SettledPending
    <3> QED
        BY <2>1, <2>2, <3>2 DEF PendingInv
  <2>5. CASE r \notin {"install", "upgrade", "rollback", "finish"}
    <3>1. revs' = revs
          BY <2>1, <2>5 DEF WorkloadsDo
    <3>2. job[c].op \in HelmOps => at'[c] <= 1
          BY <1>2, <2>1, <2>5 DEF RequestOf, GoesOn, Shapes
    <3> SUFFICES ASSUME NEW i \in 1..Len(revs), revs[i].status = "pending"
                 PROVE  /\ revs[i].by \in Calls
                        /\ job[revs[i].by].op \in HelmOps /\ at'[revs[i].by] <= 1
        BY <2>1, <3>1 DEF PendingInv
    <3>3. /\ revs[i].by \in Calls
          /\ job[revs[i].by].op \in HelmOps /\ at[revs[i].by] <= 1
          BY DEF PendingInv
    <3> QED
        BY <2>2, <3>2, <3>3
  <2> QED
      BY <2>3, <2>4, <2>5
<1>3. ASSUME NEW c \in Calls, GoesOn(c), AzureActs(c) \/ DockerActs(c)
      PROVE  PendingInv'
  <2>1. revs' = revs /\ job[c].op \notin HelmOps
        BY <1>3, OperationsOf DEF AzureActs, DockerActs, cluster, HelmOps
  <2> QED
      BY <1>1, <1>3, <2>1 DEF GoesOn, Shapes
<1>4. ASSUME NEW c \in Calls, GoesOn(c), HelmStops(c)
      PROVE  PendingInv'
  <2>1. revs' = Settled(c, "failed") /\ at' = at /\ job' = job
        BY <1>4 DEF HelmStops, HelmFails, GoesOn
  <2>2. /\ Len(revs') = Len(revs)
        /\ \A i \in 1..Len(revs) : revs'[i].status = "pending" =>
               revs[i].status = "pending" /\ revs'[i].by = revs[i].by
        BY <1>0, <2>1, SettledPending
  <2> QED
      BY <2>1, <2>2 DEF PendingInv
<1>5. CASE (\E c \in Calls : CallMoves(c)) \/ AllLost
  <2>1. revs' = revs /\ at' = at
        BY <1>5 DEF CallMoves, AllLost, providers, cluster
  <2> QED
      BY <1>1, <2>1
<1>6. CASE OthersStep
  <2>1. CASE Terminates
        BY <2>1 DEF Terminates, PendingInv
  <2>2. CASE ~Terminates
    <3>1. revs' = revs /\ at' = at
          BY <1>6, <2>2 DEF OthersStep, EditDeployment, cluster
    <3> QED
        BY <1>1, <3>1
  <2> QED
      BY <2>1, <2>2
<1> QED
    BY <1>2, <1>3, <1>4, <1>5, <1>6, EveryStep

-----------------------------------------------------------------------------
(* Stops *)

\* Only a call that asks for it stops the machine.
Stopped == \E c \in Calls : job[c].op = "stop_vm"

StopInv == vm.state = "deallocated" => Stopped

LEMMA StoppedStays ==
    ASSUME JobInv, Shapes, ProvidersNext, Stopped
    PROVE  Stopped'
<1>1. PICK c \in Calls : job[c].op = "stop_vm"
      BY DEF Stopped
<1>2. job'[c] = job[c]
      BY <1>1, JobStays
<1> QED
    BY <1>1, <1>2 DEF Stopped

LEMMA StopStep ==
    ASSUME JobInv, Shapes, ObjectsInv, StopInv, ProvidersNext
    PROVE  StopInv'
<1> SUFFICES ASSUME vm'.state = "deallocated", vm.state # "deallocated" PROVE Stopped'
    BY StoppedStays DEF StopInv
<1>1. ASSUME NEW c \in Calls, GoesOn(c), AzureActs(c) PROVE job'[c].op = "stop_vm"
  <2> DEFINE r == Request(c)
  <2>1. vm \in VMs /\ AzureDoes(c, r) /\ RequestOf(job[c].op, at[c], r) /\ job' = job
        BY <1>1 DEF AzureActs, ObjectsInv, AzureTypeOK, GoesOn
  <2>2. CASE r = "vm_deallocate"
        BY <2>1, <2>2 DEF RequestOf
  <2>3. CASE r = "vm_put"
    <3>1. seen[c] \in VMs
          BY <2>1, <2>3 DEF RequestOf, ObjectsInv, SeenInv
    <3>2. vm' = [seen[c] EXCEPT !.state = vm.state, !.size = job[c].value]
          BY <2>1, <2>3 DEF AzureDoes, VmPut, AzureRequests
    <3>3. vm'.state = vm.state
          BY <3>1, <3>2 DEF VMs
    <3> QED
        BY <3>3
  <2>4. CASE r \notin {"vm_deallocate", "vm_put"}
        BY <2>1, <2>4 DEF AzureDoes, VmCreate, VMs
  <2> QED
      BY <2>2, <2>3, <2>4
<1>2. ASSUME NEW c \in Calls, WorkloadsAct(c) \/ DockerActs(c) \/ HelmStops(c) \/ CallMoves(c)
      PROVE  FALSE
      BY <1>2 DEF WorkloadsAct, DockerActs, HelmStops, CallMoves, providers, azure
<1>3. ~AllLost
      BY DEF AllLost, providers, azure
<1>4. ~OthersStep
      BY DEF OthersStep, EditVM, EditDisk, azure, ObjectsInv, AzureTypeOK, VMs
<1> QED
    BY <1>1, <1>2, <1>3, <1>4, EveryStep DEF Stopped

-----------------------------------------------------------------------------
(* The theorems about Providers *)

BookInv ==
    /\ last \in [Names -> Calls \cup {None}]
    /\ overlapped \subseteq Names
    /\ apiFaults \in 0..MaxApiFaults
    /\ crashes \in 0..MaxCrashes

ProvidersInv ==
    /\ AuditInv /\ JobInv /\ Shapes /\ ObjectsInv /\ BookInv
    /\ VersionInv /\ EditsAreKept /\ LeftoversInv /\ StopInv

allVars == <<handler, job, at, seen, providers, history, apiFaults, crashes>>

LEMMA BookStep ==
    ASSUME BookInv, ProvidersNext
    PROVE  BookInv'
<1>1. \A op : Provider(op) \in Names
      BY DEF Provider, Names
<1>2. ASSUME NEW c \in Calls, CallComes(c) PROVE BookInv'
      BY <1>1, <1>2 DEF CallComes, BookInv
<1>3. ASSUME NEW c \in Calls, RequestSucceeds(c) \/ LogCall(c) PROVE BookInv'
      BY <1>3 DEF RequestSucceeds, LogCall, history, BookInv
<1>4. ASSUME NEW c \in Calls, FunctionReturns(c) PROVE BookInv'
      BY <1>1, <1>4 DEF FunctionReturns, BookInv
<1>5. ASSUME NEW c \in Calls, RequestFails(c) PROVE BookInv'
  <2>1. apiFaults' \in 0..MaxApiFaults
        BY <1>5, FaultAssumption DEF RequestFails, BookInv
  <2> QED
      BY <1>1, <1>5, <2>1 DEF RequestFails, BookInv
<1>6. CASE OthersStep
      BY <1>6 DEF OthersStep, history, BookInv
<1>7. CASE ProcessDies
  <2>1. crashes' \in 0..MaxCrashes
        BY <1>7, FaultAssumption DEF ProcessDies, BookInv
  <2> QED
      BY <1>7, <2>1 DEF ProcessDies, BookInv
<1> QED
    BY <1>2, <1>3, <1>4, <1>5, <1>6, <1>7 DEF ProvidersNext

LEMMA ProvidersStep == ProvidersInv /\ [ProvidersNext]_allVars => ProvidersInv'
<1> SUFFICES ASSUME ProvidersInv, [ProvidersNext]_allVars PROVE ProvidersInv'
    OBVIOUS
<1>1. CASE ProvidersNext
  <2>1. AuditInv'
        BY <1>1, HandlersAreAudited, AuditStep DEF ProvidersInv
  <2>2. JobInv' /\ Shapes' /\ ObjectsInv' /\ BookInv'
        BY <1>1, JobStep, ObjectsStep, BookStep DEF ProvidersInv
  <2>3. VersionInv' /\ EditsAreKept' /\ LeftoversInv' /\ StopInv'
        BY <1>1, VersionStep, EditsStep, NicStep, PendingStep, StopStep DEF ProvidersInv, LeftoversInv
  <2> QED
      BY <2>1, <2>2, <2>3 DEF ProvidersInv
<1>2. CASE UNCHANGED allVars
  <2>1. UNCHANGED <<stage, worked, audit, dbFaults, job, at, seen, vm, nic, disk, vmEdits,
                    diskEdits, namespace, dep, depEdits, revs, container, last, overlapped,
                    apiFaults, crashes>>
        BY <1>2 DEF allVars, handler, providers, azure, cluster, history
  <2>2. AuditInv'
        BY <2>1, AuditStep DEF vars, ProvidersInv
  <2>3. JobInv' /\ Shapes' /\ BookInv'
        BY <2>1 DEF ProvidersInv, JobInv, Shapes, BookInv, Steps
  <2>4. ObjectsInv'
        BY <2>1, LeftAlone DEF azure, cluster, ProvidersInv, ObjectsInv, SeenInv, VMs,
                                  Disks, Deployments
  <2>5. VersionInv' /\ EditsAreKept' /\ LeftoversInv' /\ StopInv'
        BY <2>1 DEF ProvidersInv, VersionInv, EditsAreKept, LeftoversInv, NicInv, PendingInv,
                    StopInv, Stopped
  <2> QED
      BY <2>2, <2>3, <2>4, <2>5 DEF ProvidersInv
<1> QED
    BY <1>1, <1>2

LEMMA ProvidersStart == ProvidersInit => ProvidersInv
<1> SUFFICES ASSUME ProvidersInit PROVE ProvidersInv
    OBVIOUS
<1>1. AuditInv
      BY ProvidersAudit
<1>2. /\ \A c \in Calls : /\ stage[c] = "idle" /\ job[c] = Nothing
                          /\ at[c] = 0 /\ seen[c] = None
      /\ Nothing \in JobTypes /\ Nothing.op = "none"
      BY DEF ProvidersInit, Init, Nothing, JobTypes
<1>3. JobInv /\ Shapes
      BY <1>2, StepsOf DEF JobInv, Shapes, Stages, ProvidersInit, Init
<1>4. SeenInv /\ VersionInv
      BY <1>2 DEF SeenInv, VersionInv
<1>5. AzureTypeOK /\ DockerTypeOK /\ BookInv
      BY ProviderAssumption, FaultAssumption
         DEF ProvidersInit, AzureInit, AzureTypeOK, VMs, Disks, DockerInit, DockerTypeOK, BookInv, Names
<1>6. WorkloadsTypeOK
  <2>1. NewDeployment \in Deployments
        BY ProviderAssumption DEF NewDeployment, Deployments
  <2>2. Revision("superseded", None) \in Revisions /\ Revision("deployed", None) \in Revisions
        BY DEF Revision, Revisions
  <2> DEFINE first == <<Revision("superseded", None), Revision("deployed", None)>>
  <2>3. first \in Seq(Revisions) /\ <<>> \in Seq(Revisions)
        BY <2>2
  <2>4. revs = <<>> \/ revs = first
        BY DEF ProvidersInit, WorkloadsInit
  <2> HIDE DEF first
  <2>5. revs \in Seq(Revisions)
        BY <2>3, <2>4
  <2> QED
      BY <2>1, <2>5, ProviderAssumption DEF ProvidersInit, WorkloadsInit, WorkloadsTypeOK
<1>7. EditsAreKept /\ NicInv /\ StopInv
      BY DEF ProvidersInit, AzureInit, WorkloadsInit, NewDeployment, EditsAreKept, NicInv, StopInv
<1>8. PendingInv
  <2>1. CASE revs = <<>>
        BY <2>1 DEF PendingInv
  <2>2. CASE revs = <<Revision("superseded", None), Revision("deployed", None)>>
    <3>1. \A i \in 1..Len(revs) : i = 1 \/ i = 2
          BY <2>2
    <3>2. revs[1].status # "pending" /\ revs[2].status # "pending"
          BY <2>2 DEF Revision
    <3> QED
        BY <3>1, <3>2 DEF PendingInv
  <2> QED
      BY <2>1, <2>2 DEF ProvidersInit, WorkloadsInit
<1> QED
    BY <1>1, <1>3, <1>4, <1>5, <1>6, <1>7, <1>8 DEF ProvidersInv, ObjectsInv, LeftoversInv

LEMMA ProvidersAlways == ProvidersSpec => []ProvidersInv
  BY ProvidersStart, ProvidersStep, PTL DEF ProvidersSpec, allVars
(***************************************************************************)
(* The calls, the objects at the providers and what calls remember of them *)
(* are well formed, for any number of calls and any quantities.            *)
(***************************************************************************)
THEOREM ProvidersTypeCorrect == ProvidersSpec => []ProvidersTypeOK
<1>1. ProvidersInv => ProvidersTypeOK
  <2> SUFFICES ASSUME ProvidersInv PROVE ProvidersTypeOK
      OBVIOUS
  <2>1. TypeOK /\ AzureTypeOK /\ WorkloadsTypeOK /\ DockerTypeOK
        BY DEF ProvidersInv, AuditInv, ObjectsInv
  <2>2. job \in [Calls -> [op : Operations \cup {"none"}, value : Values \cup {0},
                           fields : SUBSET Fields]]
        BY DEF ProvidersInv, Shapes, JobTypes
  <2>3. \A c \in Calls : at[c] \in 0..Len(Steps(job[c].op))
        BY DEF ProvidersInv, JobInv
  <2>4. \A c \in Calls : seen[c] \in VMs \cup Disks \cup Deployments \cup {None}
        BY DEF ProvidersInv, ObjectsInv, SeenInv
  <2> QED
      BY <2>1, <2>2, <2>3, <2>4 DEF ProvidersInv, BookInv, ProvidersTypeOK
<1> QED
    BY <1>1, ProvidersAlways, PTL

(***************************************************************************)
(* A patch sends back all of the object it read and undoes no change that  *)
(* others made to it; in a disk an expansion undoes those made after it    *)
(* read, and in a machine so does a resize, and a create over it all.      *)
(***************************************************************************)
THEOREM NoEditUndone == ProvidersSpec => []EditsAreKept
<1>1. ProvidersInv => EditsAreKept
      BY DEF ProvidersInv
<1> QED
    BY <1>1, ProvidersAlways, PTL

(***************************************************************************)
(* An interface without a machine and a revision that stays pending are    *)
(* owned up to by a call that failed, was lost or is under way.            *)
(***************************************************************************)
THEOREM LeftoversAreOwned == ProvidersSpec => []LeftoversAreExplained
<1>1. ProvidersInv => LeftoversAreExplained
      BY LeftoversFollow DEF ProvidersInv
<1> QED
    BY <1>1, ProvidersAlways, PTL

(***************************************************************************)
(* However calls overlap, no step of a call changes in a deployment what   *)
(* that call was not asked to change.                                      *)
(***************************************************************************)
THEOREM CallsChangeOnlyTheirs == ProvidersSpec => PatchesChangeOnlyTheirs
<1> DEFINE Own ==
        dep # None /\ dep' # None =>
            /\ \A f \in Fields : dep'.res[f] # dep.res[f] =>
                   \E c \in Calls : /\ stage[c] = "running" /\ job[c].op = "patch"
                                    /\ f \in job[c].fields /\ dep'.res[f] = job[c].value
            /\ dep'.replicas # dep.replicas =>
                   \E c \in Calls : stage[c] = "running" /\ job[c].op = "scale"
<1>1. ProvidersInv /\ [ProvidersNext]_allVars => [Own]_dep
  <2> SUFFICES ASSUME ProvidersInv, [ProvidersNext]_allVars, dep' # dep, dep' # None
               PROVE  Own
      OBVIOUS
  <2>1. ProvidersNext
        BY DEF allVars, providers, cluster
  <2>2. CASE \E c \in Calls : WorkloadsAct(c)
    <3>1. PICK c \in Calls : WorkloadsAct(c)
          BY <2>2
    <3>2. stage[c] = "running"
          BY <3>1 DEF WorkloadsAct, Running
    <3>3. \/ /\ job[c].op = "patch" /\ dep'.replicas = dep.replicas
             /\ \A f \in Fields : dep'.res[f] = IF f \in job[c].fields THEN job[c].value
                                                ELSE dep.res[f]
          \/ job[c].op = "scale" /\ dep'.res = dep.res
          BY <3>1, RequestChangesDep DEF ProvidersInv
    <3> QED
        BY <3>2, <3>3
  <2>3. CASE dep'.res = dep.res /\ dep'.replicas = dep.replicas
        BY <2>3
  <2> QED
      BY <2>1, <2>2, <2>3, DepChanges DEF ProvidersInv
<1> QED
    BY <1>1, ProvidersAlways, PTL DEF ProvidersSpec, allVars, PatchesChangeOnlyTheirs

-----------------------------------------------------------------------------
(* What the last call to a provider promised *)

\* The calls to a provider followed one another so far.
Serial(p) == p \notin overlapped \/ p = "docker"

Promised(p, c) ==
    /\ p = "azure" => AzureHolds(c)
    /\ p = "kubernetes" => WorkloadsHold(c)
    /\ p = "docker" => DockerHolds(c)

\* Such calls are served one at a time.
OneAtATime == \A p \in Names : Serial(p) => \A c, d \in Serving(p) : c = d

\* A call that has made its last request has done what it promises.
DoneHolds ==
    \A p \in Names, c \in Calls :
        c \in Serving(p) /\ at[c] = Len(Steps(job[c].op)) /\ Serial(p) => Promised(p, c)

LastReceived == \A p \in Names : last[p] # None => last[p] \in Calls /\ stage[last[p]] # "idle"

LastHolds ==
    \A p \in Names, c \in Calls :
        last[p] = c /\ Serving(p) = {} /\ Serial(p) => Promised(p, c)

PromiseInv == OneAtATime /\ DoneHolds /\ LastReceived /\ LastHolds

\* No call changes the provider in this step; others change what is theirs.
LeftToOthers(p) ==
    /\ p = "azure" => UNCHANGED azure \/ EditVM \/ EditDisk
    /\ p = "kubernetes" => UNCHANGED cluster \/ EditDeployment \/ Terminates
    /\ p = "docker" => UNCHANGED container

\* What others change takes back no promise.
LEMMA OthersKeepPromises ==
    ASSUME ObjectsInv, NEW p \in Names, LeftToOthers(p), NEW c \in Calls, job'[c] = job[c],
           Stopped => Stopped', Promised(p, c)
    PROVE  Promised(p, c)'
<1>1. ASSUME AzureHolds(c), UNCHANGED azure \/ EditVM \/ EditDisk PROVE AzureHolds(c)'
  <2>1. /\ vm'.state = vm.state /\ vm'.size = vm.size
        /\ disk'.size = disk.size /\ UNCHANGED nic
        BY <1>1 DEF azure, EditVM, EditDisk, ObjectsInv, AzureTypeOK, VMs, Disks
  <2> QED
      BY <1>1, <2>1 DEF AzureHolds, Stopped
<1>2. ASSUME WorkloadsHold(c), UNCHANGED cluster \/ EditDeployment \/ Terminates
      PROVE  WorkloadsHold(c)'
  <2>1. CASE UNCHANGED cluster
        BY <1>2, <2>1 DEF WorkloadsHold, cluster, OwnRevision
  <2>2. CASE EditDeployment
    <3>1. dep \in Deployments
          BY <2>2 DEF EditDeployment, ObjectsInv, WorkloadsTypeOK
    <3> DEFINE edited == [dep EXCEPT !.edit = depEdits']
    <3>2. /\ dep' = [edited EXCEPT !.version = dep.version + 1]
          /\ UNCHANGED <<namespace, revs>> /\ dep # None
          BY <2>2 DEF EditDeployment, Touched
    <3>3. dep'.res = dep.res /\ dep'.replicas = dep.replicas
          BY <3>1, <3>2 DEF Deployments
    <3> HIDE DEF edited
    <3> QED
        BY <1>2, <3>2, <3>3 DEF WorkloadsHold, OwnRevision
  <2>3. CASE Terminates
    <3>1. namespace = "terminating" /\ namespace' = "absent" /\ dep' = None /\ revs' = <<>>
          BY <2>3 DEF Terminates
    <3>2. (OwnRevision(c))' = {} /\ {i \in 1..Len(revs') : revs'[i].status = "deployed"} = {}
          BY <3>1 DEF OwnRevision
    <3> QED
        BY <1>2, <3>1, <3>2 DEF WorkloadsHold
  <2> QED
      BY <1>2, <2>1, <2>2, <2>3
<1>3. ASSUME DockerHolds(c), UNCHANGED container PROVE DockerHolds(c)'
      BY <1>3 DEF DockerHolds
<1> QED
    BY <1>1, <1>2, <1>3 DEF Promised, LeftToOthers

\* The last request of each function: the one that does what it promises.
LEMMA LastRequests ==
    ASSUME NEW op \in Operations, NEW r, r = Steps(op)[Len(Steps(op))]
    PROVE  /\ op = "create_vm" => r = "vm_create"
           /\ op = "delete_vm" => r = "vm_delete"
           /\ op = "start_vm" => r = "vm_start"
           /\ op = "stop_vm" => r = "vm_deallocate"
           /\ op = "resize_vm" => r = "vm_put"
           /\ op = "expand_disk" => r = "disk_put"
           /\ op = "create_namespace" => r = "ns_create"
           /\ op = "delete_namespace" => r = "ns_delete"
           /\ op = "patch" => r = "dep_patch"
           /\ op = "scale" => r = "dep_scale"
           /\ op \in HelmOps => r = "finish"
           /\ op = "start_container" => r = "container_start"
           /\ op = "restart_container" => r = "container_restart"
           /\ op = "stop_container" => r = "container_stop"
           /\ op = "remove_container" => r = "container_remove"
           /\ Len(Steps(op)) > 0
<1>1. CASE op \in DOMAIN AzureSteps
  <2>1. r = AzureSteps[op][Len(AzureSteps[op])] /\ Steps(op) = AzureSteps[op]
        BY <1>1, StepsOf
  <2> QED
      BY <1>1, <2>1, OperationsOf DEF AzureSteps, HelmOps
<1>2. CASE op \in DOMAIN WorkloadSteps
  <2>1. r = WorkloadSteps[op][Len(WorkloadSteps[op])] /\ Steps(op) = WorkloadSteps[op]
        BY <1>2, StepsOf
  <2>2. CASE op \in {"patch", "helm_install", "helm_upgrade", "helm_rollback"}
    <3>1. Len(WorkloadSteps[op]) = 2
          BY <2>2 DEF WorkloadSteps
    <3>2. r = WorkloadSteps[op][2] /\ Len(Steps(op)) > 0
          BY <2>1, <3>1
    <3>3. r = IF op = "patch" THEN "dep_patch" ELSE "finish"
          BY <2>2, <3>2 DEF WorkloadSteps
    <3> QED
        BY <2>2, <3>2, <3>3 DEF HelmOps
  <2>3. CASE op \in {"create_namespace", "delete_namespace", "scale"}
    <3>1. Len(WorkloadSteps[op]) = 1
          BY <2>3 DEF WorkloadSteps
    <3> QED
        BY <2>1, <2>3, <3>1 DEF WorkloadSteps, HelmOps
  <2> QED
      BY <1>2, <2>2, <2>3, OperationsOf
<1>3. CASE op \in DOMAIN DockerSteps
  <2>1. r = DockerSteps[op][Len(DockerSteps[op])] /\ Steps(op) = DockerSteps[op]
        BY <1>3, StepsOf
  <2> QED
      BY <1>3, <2>1, OperationsOf DEF DockerSteps, HelmOps
<1> QED
    BY <1>1, <1>2, <1>3 DEF Operations

LEMMA AzureFulfils ==
    ASSUME JobInv, Shapes, ObjectsInv, StopInv, NEW c \in Calls, AzureActs(c), UNCHANGED job,
           at[c] + 1 = Len(Steps(job[c].op))
    PROVE  AzureHolds(c)'
<1> DEFINE op == job[c].op
           r == Request(c)
<1>1. op \in Operations /\ r = Steps(op)[Len(Steps(op))]
      BY ValueAsked DEF AzureActs, Request
<1>2. AzureAllows(c, r) /\ AzureDoes(c, r) /\ vm \in VMs
      BY DEF AzureActs, ObjectsInv, AzureTypeOK
<1>3. op = "resize_vm" => seen[c] \in VMs
  <2> DEFINE n == Len(Steps(op))
  <2>1. at[c] \in Nat /\ at[c] + 1 = n
        BY DEF Shapes
  <2>2. op = "resize_vm" => n = 2
        BY <1>1, LengthsOf
  <2> HIDE DEF n
  <2>3. op = "resize_vm" => at[c] = 1
        BY <2>1, <2>2
  <2> QED
      BY <2>3 DEF ObjectsInv, SeenInv
<1>4. CASE op = "create_vm"
  <2>1. r = "vm_create"
        BY <1>1, <1>4, LastRequests
  <2>2. /\ vm'.state = (IF vm.state = "absent" THEN "running" ELSE vm.state)
        /\ vm'.size = job[c].value
        BY <1>2, <2>1 DEF AzureDoes, VmCreate, AzureRequests
  <2>4. vm'.state \in {"running", "deallocated"} /\ (vm'.state = "deallocated" => Stopped)
        BY <1>2, <2>2 DEF StopInv, VMs
  <2>3. nic'
        BY <1>2, <2>1, Zenon DEF AzureAllows, AzureDoes
  <2> QED
      BY <1>4, <2>2, <2>3, <2>4 DEF AzureHolds, Stopped
<1>5. CASE op \in {"delete_vm", "start_vm", "stop_vm"}
  <2>1. /\ op = "delete_vm" => r = "vm_delete"
        /\ op = "start_vm" => r = "vm_start"
        /\ op = "stop_vm" => r = "vm_deallocate"
        BY <1>1, LastRequests
  <2> QED
      BY <1>2, <1>5, <2>1 DEF AzureDoes, AzureRequests, AzureHolds, VMs
<1>8. CASE op = "expand_disk"
  <2>1. r = "disk_put"
        BY <1>1, <1>8, LastRequests
  <2>2. seen[c] \in Disks
        BY <2>1 DEF AzureActs, RequestOf, ObjectsInv, SeenInv
  <2>3. disk' = [seen[c] EXCEPT !.size = job[c].value]
        BY <1>2, <2>1 DEF AzureDoes, DiskPut
  <2>4. disk'.size = job[c].value
        BY <2>2, <2>3 DEF Disks
  <2> QED
      BY <1>8, <2>4 DEF AzureHolds
<1>6. CASE op = "resize_vm"
  <2>1. r = "vm_put"
        BY <1>1, <1>6, LastRequests
  <2>2. vm' = [seen[c] EXCEPT !.state = vm.state, !.size = job[c].value]
        BY <1>2, <2>1 DEF AzureDoes, AzureRequests, VmPut
  <2>3. vm'.size = job[c].value
        BY <1>3, <1>6, <2>2 DEF VMs
  <2> QED
      BY <1>6, <2>3 DEF AzureHolds
<1>7. CASE op \notin {"create_vm", "delete_vm", "start_vm", "stop_vm", "expand_disk", "resize_vm"}
      BY <1>7 DEF AzureHolds
<1> QED
    BY <1>4, <1>5, <1>6, <1>7, <1>8

LEMMA DockerFulfils ==
    ASSUME JobInv, Shapes, ObjectsInv, NEW c \in Calls, DockerActs(c), UNCHANGED job,
           at[c] + 1 = Len(Steps(job[c].op))
    PROVE  DockerHolds(c)'
<1> DEFINE op == job[c].op
           r == Request(c)
<1>1. op \in Operations /\ r = Steps(op)[Len(Steps(op))]
      BY ValueAsked DEF DockerActs, Request
<1>2. /\ op = "start_container" => r = "container_start"
      /\ op = "restart_container" => r = "container_restart"
      /\ op = "stop_container" => r = "container_stop"
      /\ op = "remove_container" => r = "container_remove"
      BY <1>1, LastRequests
<1> QED
    BY <1>2 DEF DockerActs, DockerDoes, DockerHolds

\* A command that ends leaves its own revision as the only one deployed.
LEMMA SettledDeployed ==
    ASSUME revs \in Seq(Revisions), NEW c, revs' = Settled(c, "deployed")
    PROVE  {i \in 1..Len(revs') : revs'[i].status = "deployed"} = OwnRevision(c)'
<1>1. /\ Len(revs') = Len(revs) /\ Len(revs) \in Nat
      /\ \A i \in 1..Len(revs) : revs[i] \in Revisions
      /\ \A i \in 1..Len(revs) :
             revs'[i] = IF revs[i].by = c THEN [revs[i] EXCEPT !.status = "deployed"]
                        ELSE IF revs[i].status = "deployed"
                                THEN [revs[i] EXCEPT !.status = "superseded"] ELSE revs[i]
      BY DEF Settled
<1>2. ASSUME NEW i \in 1..Len(revs)
      PROVE  revs'[i].by = revs[i].by /\ (revs'[i].status = "deployed" <=> revs[i].by = c)
      BY <1>1 DEF Revisions
<1> QED
    BY <1>1, <1>2 DEF OwnRevision

LEMMA WorkloadsFulfil ==
    ASSUME JobInv, Shapes, ObjectsInv, NEW c \in Calls, WorkloadsAct(c), UNCHANGED job,
           at[c] + 1 = Len(Steps(job[c].op))
    PROVE  WorkloadsHold(c)'
<1> DEFINE op == job[c].op
           r == Request(c)
<1>1. op \in Operations /\ r = Steps(op)[Len(Steps(op))] /\ job[c].value \in Nat
      BY ValueAsked DEF WorkloadsAct, Request
<1>2. /\ Running(c) /\ RequestOf(op, at[c], r)
      /\ WorkloadsAllow(c, r) /\ WorkloadsDo(c, r)
      BY DEF WorkloadsAct
<1>3. CASE op \in {"create_namespace", "delete_namespace"}
  <2>1. /\ op = "create_namespace" => r = "ns_create"
        /\ op = "delete_namespace" => r = "ns_delete"
        BY <1>1, LastRequests
  <2> QED
      BY <1>2, <1>3, <2>1 DEF WorkloadsDo, WorkloadsHold
<1>4. CASE op = "patch"
  <2>1. r = "dep_patch" /\ at[c] = 1
        BY <1>1, <1>2, <1>4, LastRequests DEF RequestOf
  <2>2. dep \in Deployments /\ seen[c] \in Deployments
        BY <1>2, <1>4, <2>1 DEF WorkloadsAllow, ObjectsInv, WorkloadsTypeOK, SeenInv
  <2>3. dep' = [Patched(c) EXCEPT !.version = dep.version + 1]
        BY <1>2, <2>1 DEF WorkloadsDo, Touched
  <2>4. Patched(c) \in Deployments
        BY <1>2, <2>2, PatchedType
  <2>5. dep'.res = Patched(c).res
        BY <2>3, <2>4 DEF Deployments
  <2>6. \A f \in Fields : f \in job[c].fields => Patched(c).res[f] = job[c].value
        BY <2>2 DEF Patched, Deployments
  <2>7. job[c].fields \subseteq Fields
        BY DEF JobInv, JobTypes
  <2>8. \A f \in job'[c].fields : dep'.res[f] = job'[c].value
        BY <2>5, <2>6, <2>7
  <2> QED
      BY <1>4, <2>8 DEF WorkloadsHold
<1>5. CASE op = "scale"
  <2>1. r = "dep_scale"
        BY <1>1, <1>5, LastRequests
  <2>2. dep \in Deployments
        BY <1>2, <2>1 DEF WorkloadsAllow, ObjectsInv, WorkloadsTypeOK
  <2> DEFINE scaled == [dep EXCEPT !.replicas = job[c].value]
  <2>3. scaled \in Deployments /\ scaled.replicas = job[c].value
        BY <1>1, <2>2 DEF Deployments
  <2>4. dep' = [scaled EXCEPT !.version = dep.version + 1]
        BY <1>2, <2>1 DEF WorkloadsDo, Touched
  <2> HIDE DEF scaled
  <2>5. dep'.replicas = job[c].value
        BY <2>3, <2>4 DEF Deployments
  <2> QED
      BY <1>5, <2>5 DEF WorkloadsHold
<1>6. CASE op \in HelmOps
  <2>1. revs' = Settled(c, "deployed") /\ revs \in Seq(Revisions)
        BY <1>1, <1>2, <1>6, LastRequests DEF WorkloadsDo, ObjectsInv, WorkloadsTypeOK
  <2> QED
      BY <1>6, <2>1, SettledDeployed DEF WorkloadsHold, HelmOps
<1>7. CASE op \notin {"create_namespace", "delete_namespace", "patch", "scale"} \cup HelmOps
      BY <1>7 DEF WorkloadsHold, HelmOps
<1> QED
    BY <1>3, <1>4, <1>5, <1>6, <1>7

\* A request of a call is made to its own provider.
LEMMA RequestsStayHome ==
    ASSUME NEW c \in Calls, Does(c), NEW p \in Names, p # Provider(job[c].op)
    PROVE  LeftToOthers(p)
  BY DEF Does, LeftToOthers

\* The calls that go on as before keep what they promise, and so does the last
\* call to a provider that nobody calls.
LEMMA DoneStays ==
    ASSUME ObjectsInv, Stopped => Stopped', DoneHolds, overlapped \subseteq overlapped', NEW p \in Names,
           NEW d \in Serving(p), at'[d] = at[d], job'[d] = job[d], LeftToOthers(p),
           at'[d] = Len(Steps(job'[d].op)), Serial(p)'
    PROVE  Promised(p, d)'
<1>1. d \in Calls /\ Serial(p) /\ Steps(job'[d].op) = Steps(job[d].op)
      BY DEF Serial, Serving
<1>2. Promised(p, d)
      BY <1>1 DEF DoneHolds
<1> QED
    BY <1>1, <1>2, OthersKeepPromises

LEMMA LastStays ==
    ASSUME ObjectsInv, Stopped => Stopped', LastHolds, overlapped \subseteq overlapped',
           NEW p \in Names, NEW c \in Calls, last[p] = c, Serving(p) = {},
           job'[c] = job[c], LeftToOthers(p), Serial(p)'
    PROVE  Promised(p, c)'
<1>1. Promised(p, c)
      BY DEF LastHolds, Serial
<1> QED
    BY <1>1, OthersKeepPromises

LEMMA FinishIsHelms ==
    ASSUME JobInv, Shapes, NEW c \in Calls, Running(c), HelmFails(c, Request(c))
    PROVE  Provider(job[c].op) = "kubernetes"
<1>1. /\ Request(c) = "finish" /\ job[c].op \in Operations /\ at[c] \in Nat
      /\ at[c] < Len(Steps(job[c].op))
      BY ValueAsked DEF HelmFails, Running, Shapes
<1>2. CASE job[c].op \in DOMAIN AzureSteps
  <2>1. RequestOf(job[c].op, at[c], Request(c))
        BY <1>1, <1>2, StepsOf, AzureRequestsOf DEF Request
  <2> QED
      BY <1>1, <1>2, <2>1, OperationsOf DEF RequestOf, HelmOps
<1>3. CASE job[c].op \in DOMAIN DockerSteps
  <2>1. RequestOf(job[c].op, at[c], Request(c))
        BY <1>1, <1>3, StepsOf, DockerRequestsOf DEF Request
  <2> QED
      BY <1>1, <1>3, <2>1, OperationsOf DEF RequestOf, HelmOps
<1> QED
    BY <1>1, <1>2, <1>3, StepsOf DEF Operations

LEMMA RequestKeepsPromises ==
    ASSUME ProvidersInv, PromiseInv, Stopped => Stopped', NEW c \in Calls, RequestSucceeds(c)
    PROVE  PromiseInv'
<1> USE DEF ProvidersInv, PromiseInv
<1>1. /\ UNCHANGED <<stage, job, last, overlapped>> /\ at' = [at EXCEPT ![c] = @ + 1]
      /\ Running(c) /\ stage[c] = "running" /\ Does(c)
      BY DEF RequestSucceeds, handler, history, Running
<1>2. AzureActs(c) \/ WorkloadsAct(c) \/ DockerActs(c)
      BY EffectOf DEF RequestSucceeds
<1>3. \A p : Serving(p)' = Serving(p)
      BY <1>1 DEF Serving, Provider
<1>4. OneAtATime' /\ LastReceived'
      BY <1>1, <1>3 DEF OneAtATime, LastReceived, Serial
<1>5. DoneHolds'
  <2> SUFFICES ASSUME NEW p \in Names, NEW d \in Calls, d \in Serving(p)',
                      at'[d] = Len(Steps(job'[d].op)), Serial(p)'
               PROVE  Promised(p, d)'
      BY DEF DoneHolds, Steps
  <2>1. Serial(p) /\ d \in Serving(p) /\ p = Provider(job[d].op)
        BY <1>1, <1>3 DEF Serial, Serving
  <2>2. CASE d # c
    <3>1. p # Provider(job[c].op)
          BY <1>1, <2>1, <2>2 DEF OneAtATime, Serving
    <3>2. LeftToOthers(p) /\ at'[d] = at[d]
          BY <1>1, <2>2, <3>1, RequestsStayHome DEF Shapes
    <3> QED
        BY <1>1, <2>1, <3>2, DoneStays
  <2>3. CASE d = c
    <3>1. at[c] + 1 = Len(Steps(job[c].op)) /\ UNCHANGED job
          BY <1>1, <2>3 DEF Shapes
    <3>2. /\ AzureActs(c) => p = "azure" /\ AzureHolds(c)'
          /\ WorkloadsAct(c) => p = "kubernetes" /\ WorkloadsHold(c)'
          /\ DockerActs(c) => p = "docker" /\ DockerHolds(c)'
      <4>1. AzureActs(c) => p = "azure" /\ AzureHolds(c)'
            BY <2>1, <2>3, <3>1, StepsOf, AzureFulfils DEF AzureActs
      <4>2. WorkloadsAct(c) => p = "kubernetes" /\ WorkloadsHold(c)'
            BY <2>1, <2>3, <3>1, StepsOf, WorkloadsFulfil DEF WorkloadsAct
      <4>3. DockerActs(c) => p = "docker" /\ DockerHolds(c)'
            BY <2>1, <2>3, <3>1, StepsOf, DockerFulfils DEF DockerActs
      <4> QED
          BY <4>1, <4>2, <4>3
    <3> QED
        BY <1>2, <2>3, <3>2 DEF Promised
  <2> QED
      BY <2>2, <2>3
<1>6. LastHolds'
  <2> SUFFICES ASSUME NEW p \in Names, NEW d \in Calls, last[p] = d, Serving(p) = {}, Serial(p)'
               PROVE  Promised(p, d)'
      BY <1>1, <1>3 DEF LastHolds
  <2>1. p # Provider(job[c].op)
        BY <1>1 DEF Serving
  <2> QED
      BY <1>1, <2>1, RequestsStayHome, LastStays
<1> QED
    BY <1>4, <1>5, <1>6

LEMMA NewCallKeepsPromises ==
    ASSUME ProvidersInv, PromiseInv, Stopped => Stopped', NEW c \in Calls, CallComes(c)
    PROVE  PromiseInv'
<1> USE DEF ProvidersInv, PromiseInv
<1>1. /\ stage[c] = "idle" /\ UNCHANGED <<at, providers, last>>
      /\ \A d \in Calls \ {c} : stage'[d] = stage[d] /\ job'[d] = job[d]
      /\ overlapped \subseteq overlapped' /\ stage'[c] # "idle"
      BY DEF CallComes, Receive, Goto, Shapes
<1>2. \A p : LeftToOthers(p)
      BY <1>1 DEF providers, LeftToOthers
<1>3. stage'[c] = "running" =>
          \E op \in Operations :
              /\ job'[c].op = op
              /\ overlapped' = overlapped \cup {p \in {Provider(op)} : Serving(p) # {}}
      BY DEF CallComes, Shapes
<1>4. ASSUME NEW p \in Names PROVE Serving(p) = Serving(p)' \ {c} /\ c \notin Serving(p)
      BY <1>1 DEF Serving, Provider
<1>5. ASSUME NEW p \in Names, Serial(p)', c \in Serving(p)' PROVE Serving(p) = {}
  <2>1. PICK op \in Operations :
            /\ Provider(op) = p
            /\ overlapped' = overlapped \cup {q \in {Provider(op)} : Serving(q) # {}}
        BY <1>3, <1>5 DEF Serving, Provider
  <2>2. CASE p \notin overlapped'
        BY <2>1, <2>2
  <2>3. CASE p = "docker"
    <3>1. ASSUME NEW d \in Calls, stage[d] = "running", Provider(job[d].op) = "docker"
          PROVE  OnTheLoop(d)
      <4>1. job[d].op \in Operations
            BY <3>1 DEF JobInv, JobTypes
      <4>2. job[d].op \in DOMAIN DockerSteps
            BY <3>1, <4>1, StepsOf DEF Operations
      <4> QED
          BY <3>1, <4>2 DEF OnTheLoop
    <3> QED
        BY <1>1, <2>3, <3>1 DEF Serving, CallComes, LoopFree
  <2> QED
      BY <1>5, <2>2, <2>3 DEF Serial
<1>6. OneAtATime'
  <2> SUFFICES ASSUME NEW p \in Names, Serial(p)', NEW d \in Serving(p)', NEW e \in Serving(p)'
               PROVE  d = e
      BY DEF OneAtATime
  <2>1. CASE c \in Serving(p)'
        BY <1>4, <1>5, <2>1
  <2>2. CASE c \notin Serving(p)'
    <3>1. Serial(p) /\ d \in Serving(p) /\ e \in Serving(p)
          BY <1>1, <1>4, <2>2 DEF Serial
    <3> QED
        BY <3>1 DEF OneAtATime
  <2> QED
      BY <2>1, <2>2
<1>7. LastReceived'
      BY <1>1 DEF LastReceived
<1>8. DoneHolds'
  <2> SUFFICES ASSUME NEW p \in Names, NEW d \in Calls, d \in Serving(p)',
                      at'[d] = Len(Steps(job'[d].op)), Serial(p)'
               PROVE  Promised(p, d)'
      BY DEF DoneHolds, Steps
  <2>1. d # c
    <3>1. ASSUME d = c PROVE FALSE
      <4>1. PICK op \in Operations : job'[c].op = op
            BY <1>3, <3>1 DEF Serving
      <4>2. at[c] = 0 /\ Len(Steps(op)) > 0 /\ at'[c] = at[c]
            BY <1>1, StepsOf, LastRequests DEF JobInv
      <4> QED
          BY <3>1, <4>1, <4>2
    <3> QED
        BY <3>1
  <2>2. d \in Serving(p) /\ job'[d] = job[d] /\ at'[d] = at[d]
        BY <1>1, <1>4, <2>1
  <2> QED
      BY <1>1, <1>2, <2>2, DoneStays
<1>9. LastHolds'
  <2> SUFFICES ASSUME NEW p \in Names, NEW d \in Calls, last[p] = d, Serving(p)' = {}, Serial(p)'
               PROVE  Promised(p, d)'
      BY <1>1 DEF LastHolds
  <2>1. d # c /\ Serving(p) = {}
        BY <1>1, <1>4, ProviderAssumption DEF LastReceived
  <2> QED
      BY <1>1, <1>2, <2>1, LastStays
<1> QED
    BY <1>6, <1>7, <1>8, <1>9

\* A function that returns has done what it promised; one that raises promises nothing.
LEMMA EndKeepsPromises ==
    ASSUME ProvidersInv, PromiseInv, Stopped => Stopped', NEW c \in Calls, FunctionReturns(c) \/ RequestFails(c)
    PROVE  PromiseInv'
<1> USE DEF ProvidersInv, PromiseInv
<1>1. /\ stage[c] = "running" /\ stage'[c] \in {"log_ok", "log_fail"}
      /\ \A d \in Calls \ {c} : stage'[d] = stage[d]
      /\ UNCHANGED <<job, at, overlapped>>
      BY DEF FunctionReturns, ServiceReturns, RequestFails, ServiceRaises, Goto, Shapes
<1>2. PICK home \in Names : home = Provider(job[c].op)
      BY DEF Provider, Names
<1>3. \/ last' = [last EXCEPT ![home] = c] /\ FunctionReturns(c)
      \/ last' = [last EXCEPT ![home] = None]
      BY <1>2 DEF FunctionReturns, RequestFails
<1>4. ASSUME NEW p \in Names, p # home \/ FunctionReturns(c)
      PROVE  LeftToOthers(p)
  <2>1. CASE FunctionReturns(c)
        BY <2>1 DEF FunctionReturns, providers, LeftToOthers
  <2>2. CASE RequestFails(c) /\ p # home
    <3>1. CASE UNCHANGED providers
          BY <3>1 DEF providers, LeftToOthers
    <3>2. CASE Does(c)
          BY <1>2, <2>2, <3>2, RequestsStayHome
    <3>3. CASE HelmFails(c, Request(c)) /\ UNCHANGED <<azure, container>>
          BY <1>2, <2>2, <3>3, FinishIsHelms DEF RequestFails, LeftToOthers
    <3> QED
        BY <2>2, <3>1, <3>2, <3>3 DEF RequestFails
  <2> QED
      BY <1>4, <2>1, <2>2
<1>5. ASSUME NEW p \in Names
      PROVE  Serving(p)' = Serving(p) \ {c} /\ (c \in Serving(p) <=> p = home)
      BY <1>1, <1>2 DEF Serving, Provider
<1>6. OneAtATime'
      BY <1>1, <1>5 DEF OneAtATime, Serial
<1>7. LastReceived'
      BY <1>1, <1>3 DEF LastReceived, BookInv
<1>8. DoneHolds'
  <2> SUFFICES ASSUME NEW p \in Names, NEW d \in Calls, d \in Serving(p)',
                      at'[d] = Len(Steps(job'[d].op)), Serial(p)'
               PROVE  Promised(p, d)'
      BY DEF DoneHolds, Steps
  <2>1. d # c /\ Serial(p) /\ d \in Serving(p)
        BY <1>1, <1>5 DEF Serial
  <2>2. p # home
        BY <1>5, <2>1 DEF OneAtATime
  <2> QED
      BY <1>1, <1>4, <2>1, <2>2, DoneStays
<1>9. LastHolds'
  <2> SUFFICES ASSUME NEW p \in Names, NEW d \in Calls, last'[p] = d, Serving(p)' = {}, Serial(p)'
               PROVE  Promised(p, d)'
      BY DEF LastHolds
  <2>1. CASE p # home
    <3>1. last[p] = d /\ Serving(p) = {}
          BY <1>3, <1>5, <2>1 DEF BookInv
    <3> QED
        BY <1>1, <1>4, <2>1, <3>1, LastStays
  <2>2. CASE p = home
    <3>1. FunctionReturns(c) /\ d = c
          BY <1>3, <2>2, ProviderAssumption DEF BookInv
    <3>2. c \in Serving(p) /\ at'[c] = Len(Steps(job'[c].op))
          BY <1>1, <1>5, <2>2, <3>1 DEF FunctionReturns
    <3> QED
        BY <1>1, <1>4, <3>1, <3>2, DoneStays
  <2> QED
      BY <2>1, <2>2
<1> QED
    BY <1>6, <1>7, <1>8, <1>9

\* Nothing a call promised is touched, and no call is received or ends.
LEMMA RestKeepsPromises ==
    ASSUME ProvidersInv, PromiseInv, Stopped => Stopped', UNCHANGED <<at, job, last, overlapped>>,
           \A p \in Names : LeftToOthers(p),
           \A c \in Calls : /\ stage'[c] = "running" <=> stage[c] = "running"
                            /\ stage'[c] = "idle" => stage[c] = "idle"
    PROVE  PromiseInv'
<1> USE DEF ProvidersInv, PromiseInv
<1>1. \A p : Serving(p)' = Serving(p)
      BY DEF Serving, Provider
<1>2. OneAtATime' /\ LastReceived'
      BY <1>1 DEF OneAtATime, LastReceived, Serial
<1>3. DoneHolds'
  <2> SUFFICES ASSUME NEW p \in Names, NEW d \in Calls, d \in Serving(p)',
                      at'[d] = Len(Steps(job'[d].op)), Serial(p)'
               PROVE  Promised(p, d)'
      BY DEF DoneHolds, Steps
  <2> QED
      BY <1>1, DoneStays
<1>4. LastHolds'
  <2> SUFFICES ASSUME NEW p \in Names, NEW d \in Calls, last[p] = d, Serving(p)' = {}, Serial(p)'
               PROVE  Promised(p, d)'
      BY DEF LastHolds
  <2> QED
      BY <1>1, LastStays
<1> QED
    BY <1>2, <1>3, <1>4

LEMMA DeathKeepsPromises ==
    ASSUME ProvidersInv, PromiseInv, Stopped => Stopped', ProcessDies
    PROVE  PromiseInv'
<1> USE DEF ProvidersInv, PromiseInv
<1>1. /\ UNCHANGED <<job, at, providers, overlapped>>
      /\ \A c \in Calls : /\ stage'[c] # "running"
                          /\ stage'[c] = "idle" => stage[c] = "idle"
      /\ \A p \in Names : last'[p] = IF Serving(p) = {} THEN last[p] ELSE None
      BY DEF ProcessDies, Crash, InFlight, Shapes
<1>2. \A p \in Names : LeftToOthers(p)
      BY <1>1 DEF providers, LeftToOthers
<1>3. OneAtATime' /\ DoneHolds' /\ LastReceived'
      BY <1>1 DEF OneAtATime, Serving, DoneHolds, LastReceived
<1>4. LastHolds'
  <2> SUFFICES ASSUME NEW p \in Names, NEW d \in Calls, last'[p] = d, Serial(p)'
               PROVE  Promised(p, d)'
      BY DEF LastHolds
  <2>1. Serving(p) = {} /\ last[p] = d
        BY <1>1, ProviderAssumption
  <2> QED
      BY <1>1, <1>2, <2>1, LastStays
<1> QED
    BY <1>3, <1>4

LEMMA PromiseStep == ProvidersInv /\ PromiseInv /\ [ProvidersNext]_allVars => PromiseInv'
<1> SUFFICES ASSUME ProvidersInv, PromiseInv, [ProvidersNext]_allVars PROVE PromiseInv'
    OBVIOUS
<1>0. Stopped => Stopped'
  <2>1. CASE ProvidersNext
        BY <2>1, StoppedStays DEF ProvidersInv
  <2>2. CASE UNCHANGED allVars
        BY <2>2 DEF allVars, Stopped
  <2> QED
      BY <2>1, <2>2
<1>1. ASSUME NEW c \in Calls, LogCall(c) PROVE PromiseInv'
  <2>1. /\ UNCHANGED <<at, job, last, overlapped, providers>>
        /\ \A d \in Calls : /\ stage'[d] = "running" <=> stage[d] = "running"
                            /\ stage'[d] = "idle" => stage[d] = "idle"
        BY <1>1 DEF LogCall, LogOK, LogFail, Answer, Goto, history, ProvidersInv, Shapes
  <2> QED
      BY <1>0, <2>1, RestKeepsPromises DEF providers, LeftToOthers
<1>2. CASE OthersStep
  <2>1. \A p \in Names : LeftToOthers(p)
        BY <1>2 DEF OthersStep, LeftToOthers
  <2> QED
      BY <1>0, <1>2, <2>1, RestKeepsPromises DEF OthersStep, handler, history
<1>3. CASE UNCHANGED allVars
      BY <1>0, <1>3, RestKeepsPromises DEF allVars, handler, history, providers, LeftToOthers
<1> QED
    BY <1>0, <1>1, <1>2, <1>3, NewCallKeepsPromises, RequestKeepsPromises, EndKeepsPromises,
       DeathKeepsPromises DEF ProvidersNext

(***************************************************************************)
(* A call that worked leaves its provider as it promised until the next is *)
(* received, if calls to it followed one another: those to Docker always   *)
(* do, since its functions hold the event loop.                            *)
(***************************************************************************)
THEOREM LastPromiseHolds == ProvidersSpec => []LastCallHolds
<1>1. ProvidersInit => PromiseInv
  <2> SUFFICES ASSUME ProvidersInit PROVE PromiseInv
      OBVIOUS
  <2>1. /\ \A c \in Calls : stage[c] = "idle"
        /\ \A p \in Names : last[p] = None
        BY DEF ProvidersInit, Init
  <2> QED
      BY <2>1, ProviderAssumption
         DEF PromiseInv, OneAtATime, Serving, DoneHolds, LastReceived, LastHolds
<1>2. PromiseInv => LastCallHolds
  <2> SUFFICES ASSUME PromiseInv, NEW p \in Names, last[p] # None, Serving(p) = {}, Serial(p)
               PROVE  CASE p = "azure" -> AzureHolds(last[p])
                        [] p = "kubernetes" -> WorkloadsHold(last[p])
                        [] OTHER -> DockerHolds(last[p])
      BY DEF LastCallHolds, Serial
  <2>1. Promised(p, last[p])
        BY DEF PromiseInv, LastReceived, LastHolds
  <2> QED
      BY <2>1 DEF Promised, Names
<1> QED
    BY <1>1, <1>2, ProvidersAlways, PromiseStep, PTL DEF ProvidersSpec, allVars
==============================================================================
