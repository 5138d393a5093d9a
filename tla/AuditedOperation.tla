--------------------------- MODULE AuditedOperation --------------------------
(***************************************************************************)
(* What every handler that changes infrastructure promises: the mutating   *)
(* handlers of backend/routers/aws.py, azure.py, docker_ops.py and         *)
(* kubernetes_ops.py all have the form                                     *)
(*                                                                         *)
(*     try:      result = await service(..)                                *)
(*               await log_activity(.., "OK");  return result              *)
(*     except:   await log_activity(.., "FAIL");  raise 500                *)
(*                                                                         *)
(* so an "OK" that cannot be written sends a call that worked down the     *)
(* failure path.  log_activity commits the entry and then awaits the end   *)
(* of its connection: until the handler goes on and answers, a crash loses *)
(* a call whose verdict is in the log.  What the service does is left open *)
(* here; Ec2Ops says what it does to an EC2 instance.                      *)
(*                                                                         *)
(* A definition whose name ends in _<Mistake> is a variant no action uses: *)
(* a plausible slip in the code, there to show which property notices it.  *)
(***************************************************************************)
EXTENDS Naturals, FiniteSets

CONSTANTS
    Calls,              \* the calls to these handlers
    MaxDbFaults         \* bound on log_activity calls that raise

ASSUME AuditAssumption ==
    /\ IsFiniteSet(Calls)
    /\ MaxDbFaults \in Nat

VARIABLES
    stage,              \* how far each handler is
    worked,             \* whether the service function has returned
    audit,              \* the statuses a call wrote to activity_log
    dbFaults            \* log_activity calls that have raised so far

vars == <<stage, worked, audit, dbFaults>>

InFlight == {"running", "log_ok", "log_fail", "reply_ok", "reply_error"}
Answers == {"ok", "error"}
Stages == {"idle", "refused", "lost"} \cup InFlight \cup Answers

TypeOK ==
    /\ stage \in [Calls -> Stages]
    /\ worked \in [Calls -> BOOLEAN]
    /\ audit \in [Calls -> SUBSET {"OK", "FAIL"}]
    /\ dbFaults \in 0..MaxDbFaults

Init ==
    /\ stage = [c \in Calls |-> "idle"]
    /\ worked = [c \in Calls |-> FALSE]
    /\ audit = [c \in Calls |-> {}]
    /\ dbFaults = 0

Goto(c, s) == stage' = [stage EXCEPT ![c] = s]

\* require_role answers 401 or 403 before the handler runs.
Receive(c) ==
    /\ stage[c] = "idle"
    /\ Goto(c, "running") \/ Goto(c, "refused")
    /\ UNCHANGED <<worked, audit, dbFaults>>

ServiceReturns(c) ==
    /\ stage[c] = "running"
    /\ Goto(c, "log_ok")
    /\ worked' = [worked EXCEPT ![c] = TRUE]
    /\ UNCHANGED <<audit, dbFaults>>

ServiceRaises(c) ==
    /\ stage[c] = "running"
    /\ Goto(c, "log_fail")
    /\ UNCHANGED <<worked, audit, dbFaults>>

\* log_activity(.., status) inserts and commits, or raises and writes nothing.
Writes(c, status) ==
    /\ audit' = [audit EXCEPT ![c] = @ \cup {status}]
    /\ UNCHANGED dbFaults

WriteRaises ==
    /\ dbFaults < MaxDbFaults
    /\ dbFaults' = dbFaults + 1
    /\ UNCHANGED audit

LogOK_OutsideTry(c) ==
    /\ stage[c] = "log_ok"
    /\ \/ Writes(c, "OK") /\ Goto(c, "reply_ok")
       \/ WriteRaises /\ Goto(c, "reply_error")
    /\ UNCHANGED worked

LogOK(c) ==
    /\ stage[c] = "log_ok"
    /\ \/ Writes(c, "OK") /\ Goto(c, "reply_ok")
       \/ WriteRaises /\ Goto(c, "log_fail")
    /\ UNCHANGED worked

LogFail_NoRaise(c) ==
    /\ stage[c] = "log_fail"
    /\ \/ Writes(c, "FAIL") /\ Goto(c, "reply_ok")
       \/ WriteRaises /\ Goto(c, "reply_error")
    /\ UNCHANGED worked

\* The caller will get a 500, with or without the entry.
LogFail(c) ==
    /\ stage[c] = "log_fail"
    /\ Goto(c, "reply_error")
    /\ Writes(c, "FAIL") \/ WriteRaises
    /\ UNCHANGED worked

\* The connection is closed, and the handler returns or raises.
Answer(c) ==
    /\ \/ stage[c] = "reply_ok" /\ Goto(c, "ok")
       \/ stage[c] = "reply_error" /\ Goto(c, "error")
    /\ UNCHANGED <<worked, audit, dbFaults>>

\* The process dies: no call in flight is ever answered.
Crash ==
    /\ \E c \in Calls : stage[c] \in InFlight
    /\ stage' = [c \in Calls |-> IF stage[c] \in InFlight THEN "lost" ELSE stage[c]]
    /\ UNCHANGED <<worked, audit, dbFaults>>

Next ==
    \/ \E c \in Calls : \/ Receive(c) \/ ServiceReturns(c) \/ ServiceRaises(c)
                        \/ LogOK(c) \/ LogFail(c) \/ Answer(c)
    \/ Crash

Spec == Init /\ [][Next]_vars

-----------------------------------------------------------------------------

(***************************************************************************)
(* The log and the answers tell the same story.  Of the calls that are     *)
(* answered, "OK" is logged exactly for those answered with success, each  *)
(* of which worked; a verdict without an answer belongs to a call still to *)
(* be answered, or lost in a crash after the commit; and no call has both. *)
(***************************************************************************)
LogAgreesWithAnswers ==
    \A c \in Calls :
        /\ stage[c] = "ok" => audit[c] = {"OK"}
        /\ "OK" \in audit[c] => worked[c] /\ stage[c] \in {"reply_ok", "ok", "lost"}
        /\ "FAIL" \in audit[c] => stage[c] \in {"reply_error", "error", "lost"}
        /\ audit[c] # {"OK", "FAIL"}

(***************************************************************************)
(* A call that worked is reported as a failure, or an error is left out of *)
(* the log, only once for every database error: one error does not lead to *)
(* both.                                                                   *)
(***************************************************************************)
MisreportsAreFaults ==
    LET errors == {c \in Calls : stage[c] = "error"}
    IN  Cardinality({c \in errors : worked[c]})
            + Cardinality({c \in errors : audit[c] = {}}) <= dbFaults
=============================================================================
