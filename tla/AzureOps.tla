------------------------------- MODULE AzureOps -------------------------------
(***************************************************************************)
(* What the functions of backend/services/azure_client.py do to one        *)
(* virtual machine, its network interface and its disk.                    *)
(*                                                                         *)
(* Azure is external: AzureAllows says what it refuses in which state,     *)
(* AzureDoes what a request does.  A PUT replaces the whole object or, if  *)
(* there is none, makes it; the code sends no ETag and no condition with   *)
(* it, so that a create over a machine that exists changes that one.       *)
(***************************************************************************)
EXTENDS ProviderCalls

VARIABLES
    vm,                 \* the machine: its state, its size, what others set last
    nic,                \* whether its network interface exists
    disk,               \* its disk: the size, what others set last
    vmEdits, diskEdits  \* the changes others have made to each so far

azure == <<vm, nic, disk, vmEdits, diskEdits>>

VMs == [state : {"absent", "running", "deallocated"}, size : Values, edit : 0..MaxEdits]
Disks == [size : Values, edit : 0..MaxEdits]

AzureTypeOK ==
    /\ vm \in VMs
    /\ nic \in BOOLEAN
    /\ disk \in Disks
    /\ vmEdits \in 0..MaxEdits
    /\ diskEdits \in 0..MaxEdits

AzureInit ==
    /\ vm \in [state : {"absent", "running"}, size : {1}, edit : {0}]
    /\ nic = (vm.state = "running")
    /\ disk = [size |-> 1, edit |-> 0]
    /\ vmEdits = 0 /\ diskEdits = 0

\* The requests of each function, in order.  A delete leaves nic and disk.
AzureSteps == [
    create_vm   |-> <<"nic_put", "vm_create">>,
    delete_vm   |-> <<"vm_delete">>,
    start_vm    |-> <<"vm_start">>,
    stop_vm     |-> <<"vm_deallocate">>,
    resize_vm   |-> <<"vm_get", "vm_put">>,
    snapshot_vm |-> <<"vm_get", "snapshot_put">>,
    expand_disk |-> <<"disk_get", "disk_put">>]

AzureRequests == {"nic_put", "vm_create", "vm_delete", "vm_start", "vm_deallocate",
                  "vm_get", "vm_put", "snapshot_put", "disk_get", "disk_put"}

\* A machine needs its interface.  One that was deleted is not made again from
\* what was read of it.  No disk shrinks, or grows in use.
AzureAllows(c, r) ==
    /\ r \in {"vm_start", "vm_deallocate", "vm_get", "vm_put"} => vm.state # "absent"
    /\ r = "vm_create" => nic
    /\ r = "disk_put" => job[c].value >= disk.size /\ vm.state # "running"

\* A new machine starts; one that was there stays running or deallocated, and
\* what others set in it is lost.
VmCreate(c) ==
    vm' = IF vm.state = "absent"
          THEN [state |-> "running", size |-> job[c].value, edit |-> vmEdits]
          ELSE [state |-> vm.state, size |-> job[c].value, edit |-> 0]

VmPut_Fresh(c) == vm' = [state |-> vm.state, size |-> job[c].value, edit |-> 0]

VmPut(c) == vm' = [seen[c] EXCEPT !.state = vm.state, !.size = job[c].value]

DiskPut(c) == disk' = [seen[c] EXCEPT !.size = job[c].value]

AzureDoes(c, r) ==
    /\ nic' = (nic \/ r = "nic_put")
    /\ IF r = "disk_put" THEN DiskPut(c) ELSE UNCHANGED disk
    /\ CASE r = "vm_get" -> ReadsInto(c, vm)
         [] r = "disk_get" -> ReadsInto(c, disk)
         [] OTHER -> UNCHANGED seen
    /\ UNCHANGED <<vmEdits, diskEdits>>
    /\ \/ r = "vm_create" /\ VmCreate(c)
       \/ r = "vm_delete" /\ vm' = [vm EXCEPT !.state = "absent"]
       \/ r = "vm_start" /\ vm' = [vm EXCEPT !.state = "running"]
       \/ r = "vm_deallocate" /\ vm' = [vm EXCEPT !.state = "deallocated"]
       \/ r = "vm_put" /\ VmPut(c)
       \/ /\ r \in AzureRequests \ {"vm_create", "vm_delete", "vm_start", "vm_deallocate", "vm_put"}
          /\ UNCHANGED vm

\* Somebody else changes the machine or the disk: in the portal, or with Terraform.
EditVM ==
    /\ vm.state # "absent"
    /\ vmEdits' = vmEdits + 1
    /\ vm' = [vm EXCEPT !.edit = vmEdits']
    /\ UNCHANGED <<nic, disk, diskEdits>>

EditDisk ==
    /\ diskEdits' = diskEdits + 1
    /\ disk' = [disk EXCEPT !.edit = diskEdits']
    /\ UNCHANGED <<vm, nic, vmEdits>>

\* What a call that worked promised, while no other has changed anything.
AzureHolds(c) ==
    CASE job[c].op = "create_vm" ->
             /\ vm.state # "absent" /\ vm.size = job[c].value /\ nic
             /\ vm.state = "running" \/ \E d \in Calls : job[d].op = "stop_vm"
      [] job[c].op = "delete_vm" -> vm.state = "absent"
      [] job[c].op = "start_vm" -> vm.state = "running"
      [] job[c].op = "stop_vm" -> vm.state = "deallocated"
      [] job[c].op = "resize_vm" -> vm.size = job[c].value
      [] job[c].op = "expand_disk" -> disk.size = job[c].value
      [] OTHER -> TRUE
==============================================================================
