-------------------------- MODULE ApprovalLifecycle --------------------------
(***************************************************************************)
(* What the approval queue promises its users, one queued tool call at a   *)
(* time: a call waits as "pending" until an administrator decides; denied  *)
(* it never runs; approved it runs at most once, and only then is it       *)
(* recorded as executed.  The promise is the one of the docstrings of      *)
(* backend/routers/ai_agent.py ("Approve and immediately execute a queued  *)
(* action", "Deny a queued action") and of the message given to the model  *)
(* ("It will execute once approved").                                      *)
(*                                                                         *)
(* One weakness of the code is part of the promise: a row that already     *)
(* says "executed" can turn to "failed", because the handler's exception   *)
(* path also covers the audit write that follows the execution.            *)
(***************************************************************************)
EXTENDS Naturals

CONSTANT Approvals      \* the rows that will ever be queued

VARIABLES
    status,             \* status[a]: the status column of row a
    runs                \* runs[a]: how often the tool of row a took effect

lifecycleVars == <<status, runs>>

Statuses == {"absent", "pending", "approved", "executed", "failed", "denied"}

LifecycleInit ==
    /\ status = [a \in Approvals |-> "absent"]
    /\ runs = [a \in Approvals |-> 0]

Becomes(a, from, to) ==
    /\ status[a] \in from
    /\ status' = [status EXCEPT ![a] = to]
    /\ UNCHANGED runs

Queue(a)   == Becomes(a, {"absent"}, "pending")
Approve(a) == Becomes(a, {"pending"}, "approved")
Deny(a)    == Becomes(a, {"pending"}, "denied")
Fail(a)    == Becomes(a, {"approved", "executed"}, "failed")

\* The tool takes effect: once, while the row says approved.
Run(a) ==
    /\ status[a] = "approved"
    /\ runs[a] = 0
    /\ runs' = [runs EXCEPT ![a] = 1]
    /\ UNCHANGED status

Complete(a) ==
    /\ runs[a] = 1
    /\ Becomes(a, {"approved"}, "executed")

LifecycleNext ==
    \E a \in Approvals :
        Queue(a) \/ Approve(a) \/ Deny(a) \/ Run(a) \/ Complete(a) \/ Fail(a)

LifecycleSpec == LifecycleInit /\ [][LifecycleNext]_lifecycleVars
==============================================================================
