------------------------------- MODULE Providers ------------------------------
(***************************************************************************)
(* Calls to the handlers of backend/routers/azure.py, kubernetes_ops.py    *)
(* and docker_ops.py together: they write one activity log and share one   *)
(* event loop.  The functions of Azure and Kubernetes run in threads and   *)
(* interleave; those of Docker hold the loop, so that no handler goes on   *)
(* while one of them runs.                                                 *)
(*                                                                         *)
(* A definition whose name ends in _<Mistake> is a variant no action uses: *)
(* a plausible slip in the code, there to show which property notices it.  *)
(***************************************************************************)
EXTENDS AzureOps, Workloads, DockerOps

CONSTANTS
    MaxApiFaults,       \* bound on requests that fail for other reasons
    MaxCrashes          \* bound on deaths of the backend process

ASSUME FaultAssumption ==
    /\ {MaxApiFaults, MaxCrashes} \subseteq Nat
    /\ None \notin VMs \cup Disks \cup Deployments

VARIABLES
    last,               \* history: of each provider, the last call to end, if
                        \* its function returned
    overlapped,         \* history: the providers of which two calls overlapped
    apiFaults, crashes

handler == <<stage, worked, audit, dbFaults>>
providers == <<azure, cluster, container>>
history == <<last, overlapped>>

Names == {"azure", "kubernetes", "docker"}
Operations == DOMAIN AzureSteps \cup DOMAIN WorkloadSteps \cup DOMAIN DockerSteps

Provider(op) == IF op \in DOMAIN AzureSteps THEN "azure"
                ELSE IF op \in DOMAIN WorkloadSteps THEN "kubernetes" ELSE "docker"

Steps(op) == CASE op \in DOMAIN AzureSteps -> AzureSteps[op]
               [] op \in DOMAIN WorkloadSteps -> WorkloadSteps[op]
               [] op \in DOMAIN DockerSteps -> DockerSteps[op]
               [] OTHER -> <<>>

ProvidersTypeOK ==
    /\ TypeOK /\ AzureTypeOK /\ WorkloadsTypeOK /\ DockerTypeOK
    /\ job \in [Calls -> [op : Operations \cup {"none"}, value : Values \cup {0},
                          fields : SUBSET Fields]]
    /\ \A c \in Calls : at[c] \in 0..Len(Steps(job[c].op))
    /\ \A c \in Calls : seen[c] \in VMs \cup Disks \cup Deployments \cup {None}
    /\ last \in [Names -> Calls \cup {None}]
    /\ overlapped \subseteq Names
    /\ apiFaults \in 0..MaxApiFaults
    /\ crashes \in 0..MaxCrashes

ProvidersInit ==
    /\ Init /\ AzureInit /\ WorkloadsInit /\ DockerInit
    /\ job = [c \in Calls |-> Nothing]
    /\ at = [c \in Calls |-> 0]
    /\ seen = [c \in Calls |-> None]
    /\ last = [p \in Names |-> None]
    /\ overlapped = {}
    /\ apiFaults = 0 /\ crashes = 0

Serving(p) == {c \in Calls : stage[c] = "running" /\ Provider(job[c].op) = p}

\* The event loop is free for the handler of call c.
LoopFree(c) == \A d \in Calls \ {c} : ~OnTheLoop(d)

Quantified == {"create_vm", "resize_vm", "expand_disk", "patch", "scale"}

(***************************************************************************)
(* A call comes in, with a body its schema accepts: a quantity where one   *)
(* is asked for, and of the resources of a patch any part.                 *)
(***************************************************************************)
CallComes(c) ==
    /\ LoopFree(c)
    /\ Receive(c)
    /\ \/ stage'[c] = "refused" /\ UNCHANGED <<job, overlapped>>
       \/ /\ stage'[c] = "running"
          /\ \E op \in Operations, v \in Values, fs \in SUBSET Fields :
                /\ op \notin Quantified => v = 1
                /\ op # "patch" => fs = {}
                /\ job' = [job EXCEPT ![c] = [op |-> op, value |-> v, fields |-> fs]]
                /\ overlapped' = overlapped \cup {p \in {Provider(op)} : Serving(p) # {}}
    /\ UNCHANGED <<at, seen, providers, last, apiFaults, crashes>>

Running(c) == stage[c] = "running" /\ at[c] < Len(Steps(job[c].op))
Request(c) == Steps(job[c].op)[at[c] + 1]

Allows(c) ==
    CASE Provider(job[c].op) = "azure" -> AzureAllows(c, Request(c))
      [] Provider(job[c].op) = "kubernetes" -> WorkloadsAllow(c, Request(c))
      [] OTHER -> DockerAllows(Request(c))

Does(c) ==
    \/ /\ Provider(job[c].op) = "azure"
       /\ AzureDoes(c, Request(c)) /\ UNCHANGED <<cluster, container>>
    \/ /\ Provider(job[c].op) = "kubernetes"
       /\ WorkloadsDo(c, Request(c)) /\ UNCHANGED <<azure, container>>
    \/ /\ Provider(job[c].op) = "docker"
       /\ DockerDoes(Request(c)) /\ UNCHANGED <<azure, cluster>>

RequestSucceeds(c) ==
    /\ Running(c) /\ Allows(c)
    /\ Does(c)
    /\ at' = [at EXCEPT ![c] = @ + 1]
    /\ UNCHANGED <<handler, job, history, apiFaults, crashes>>

FunctionReturns(c) ==
    /\ LoopFree(c)
    /\ at[c] = Len(Steps(job[c].op))
    /\ ServiceReturns(c)
    /\ last' = [last EXCEPT ![Provider(job[c].op)] = c]
    /\ UNCHANGED <<job, at, seen, providers, overlapped, apiFaults, crashes>>

RequestFails_NotAwaited(c) ==
    /\ Running(c) /\ LoopFree(c)
    /\ at[c] + 1 = Len(Steps(job[c].op))
    /\ apiFaults < MaxApiFaults
    /\ apiFaults' = apiFaults + 1
    /\ at' = [at EXCEPT ![c] = @ + 1]
    /\ UNCHANGED <<handler, job, seen, providers, history, crashes>>

(***************************************************************************)
(* A request is refused, or fails for any other reason (a timeout among    *)
(* them), having taken effect or not: the function raises, and what its    *)
(* earlier requests did stays.                                             *)
(***************************************************************************)
RequestFails(c) ==
    /\ Running(c) /\ LoopFree(c)
    /\ \/ ~Allows(c) /\ UNCHANGED <<providers, seen, apiFaults>>
       \/ /\ apiFaults < MaxApiFaults
          /\ apiFaults' = apiFaults + 1
          /\ \/ UNCHANGED <<providers, seen>>
             \/ Allows(c) /\ Does(c)
             \/ HelmFails(c, Request(c)) /\ UNCHANGED <<azure, container, seen>>
    /\ ServiceRaises(c)
    /\ last' = [last EXCEPT ![Provider(job[c].op)] = None]
    /\ UNCHANGED <<job, at, overlapped, crashes>>

\* The handler writes its verdict to the log, then answers.
LogCall(c) ==
    /\ LoopFree(c)
    /\ LogOK(c) \/ LogFail(c) \/ Answer(c)
    /\ UNCHANGED <<job, at, seen, providers, history, apiFaults, crashes>>

OthersStep ==
    /\ \/ /\ vmEdits + diskEdits + depEdits < MaxEdits
          /\ \/ (EditVM \/ EditDisk) /\ UNCHANGED <<cluster, container>>
             \/ EditDeployment /\ UNCHANGED <<azure, container>>
       \/ Terminates /\ UNCHANGED <<azure, container>>
    /\ UNCHANGED <<handler, job, at, seen, history, apiFaults, crashes>>

ProcessDies ==
    /\ crashes < MaxCrashes
    /\ crashes' = crashes + 1
    /\ Crash
    /\ last' = [p \in Names |-> IF Serving(p) = {} THEN last[p] ELSE None]
    /\ UNCHANGED <<job, at, seen, providers, overlapped, apiFaults>>

ProvidersNext ==
    \/ \E c \in Calls : \/ CallComes(c) \/ RequestSucceeds(c) \/ FunctionReturns(c)
                        \/ RequestFails(c) \/ LogCall(c)
    \/ OthersStep \/ ProcessDies

ProvidersSpec ==
    ProvidersInit
        /\ [][ProvidersNext]_<<handler, job, at, seen, providers, history, apiFaults, crashes>>

-----------------------------------------------------------------------------
(* Correctness *)

(***************************************************************************)
(* What a call leaves half done is owned up to: an interface without a     *)
(* machine is what a delete leaves or a create that is under way, failed   *)
(* or lost, and a revision that is still pending belongs to such a call.   *)
(***************************************************************************)
LeftoversAreExplained ==
    LET Incomplete == {c \in Calls : stage[c] \in {"running", "log_fail", "reply_error", "error", "lost"}}
    IN  /\ nic /\ vm.state = "absent" =>
               \E c \in Calls : \/ job[c].op = "delete_vm"
                                \/ job[c].op = "create_vm" /\ c \in Incomplete
        /\ \A i \in 1..Len(revs) :
               revs[i].status = "pending" => revs[i].by \in Incomplete

(***************************************************************************)
(* What others changed is not undone in a deployment, although patches     *)
(* send back all of the object they read.  In a disk only an expansion     *)
(* undoes it, that had read the disk before that change; in a machine a    *)
(* resize that had done so, or a create, which reads nothing and puts back *)
(* none of what others set.                                                *)
(***************************************************************************)
EditsAreKept ==
    /\ dep # None => dep.edit = depEdits
    /\ disk.edit # diskEdits =>
           \E c \in Calls : /\ job[c].op = "expand_disk"
                            /\ seen[c] # None /\ seen[c].edit = disk.edit
    /\ vm.edit # vmEdits =>
           \E c \in Calls : \/ /\ job[c].op = "resize_vm"
                               /\ seen[c] # None /\ seen[c].edit = vm.edit
                            \/ job[c].op = "create_vm" /\ at[c] > 0 /\ vm.edit = 0

(***************************************************************************)
(* However calls overlap, a step of one changes in a deployment only what  *)
(* that call was asked to change: a patch its fields, a scaling the count. *)
(***************************************************************************)
PatchesChangeOnlyTheirs ==
    [][dep # None /\ dep' # None =>
        /\ \A f \in Fields : dep'.res[f] # dep.res[f] =>
               \E c \in Calls : /\ stage[c] = "running" /\ job[c].op = "patch"
                                /\ f \in job[c].fields /\ dep'.res[f] = job[c].value
        /\ dep'.replicas # dep.replicas =>
               \E c \in Calls : stage[c] = "running" /\ job[c].op = "scale"]_dep

(***************************************************************************)
(* A provider is left as the last call to it promised, if that worked,     *)
(* until the next is received, provided its calls followed one another;    *)
(* those to Docker do, whenever they come in.                              *)
(***************************************************************************)
LastCallHolds ==
    \A p \in Names :
        last[p] # None /\ Serving(p) = {} /\ (p \notin overlapped \/ p = "docker") =>
            CASE p = "azure" -> AzureHolds(last[p])
              [] p = "kubernetes" -> WorkloadsHold(last[p])
              [] OTHER -> DockerHolds(last[p])
==============================================================================
