---------------------------- MODULE ApprovalQueue ----------------------------
(***************************************************************************)
(* The approval queue of the AI agent: the rows of table ai_approvals      *)
(* (backend/db/database.py) and the handlers approve_action and            *)
(* deny_action (backend/routers/ai_agent.py).                              *)
(*                                                                         *)
(* The backend is one asyncio process.  A handler runs without             *)
(* interruption from one await to the next, so each awaited call is one    *)
(* action here, and the actions of different requests interleave freely.   *)
(* Every awaited database call opens its own SQLite connection and may     *)
(* raise (a locked or unwritable file); a call that raises has written     *)
(* nothing.  The process may die at any point: its requests are lost, the  *)
(* rows stay.                                                              *)
(*                                                                         *)
(* A definition whose name ends in _<Mistake> is a variant no action uses: *)
(* a plausible slip in the code, there to show which property notices it.  *)
(***************************************************************************)
EXTENDS Naturals, FiniteSets

CONSTANTS
    Approvals,          \* ids of the rows that will ever be queued
    Requests,           \* the approve and deny calls, each used once
    Admins,             \* user names that pass require_role("admin")
    None,               \* SQL NULL
    Overlap,            \* may calls about the same row be in flight together?
    MaxDbFaults,        \* bound on database calls that raise
    MaxCrashes          \* bound on deaths of the backend process

ASSUME ApprovalAssumption ==
    /\ None \notin Approvals \cup Admins
    /\ None \notin {"output", "error", "returned", "raised", "ok", "execution_failed"}
    /\ Overlap \in BOOLEAN
    /\ MaxDbFaults \in Nat
    /\ MaxCrashes \in Nat

VARIABLES
    approvals,          \* table ai_approvals
    req,                \* the requests and how far their handlers are
    audit,              \* the rows of activity_log the handlers wrote
    runs,               \* runs[a]: how often the tool of row a took effect
    dbFaults,           \* database calls that have raised so far
    crashes             \* deaths of the process so far

vars == <<approvals, req, audit, runs, dbFaults, crashes>>

Statuses == {"absent", "pending", "approved", "executed", "failed", "denied"}

\* The awaits of approve_action and of deny_action at which a handler rests.
ApproveSteps == {"approve", "execute", "record", "log_success",
                 "mark_failed", "log_failed"}
DenySteps    == {"deny", "log_denied"}
Resting      == {"idle", "done", "lost"}

\* 200, 404, 500 "Execution failed", and the 500 of an exception nobody caught.
Answers == {"ok", "not_pending", "execution_failed", "error"}

Rows == [status      : Statuses,
         reviewed_by : Admins \cup {None},
         result      : {"output", "error", None}]

RequestStates ==
    [pc      : Resting \cup ApproveSteps \cup DenySteps,
     op      : {"approve", "deny", None},
     id      : Approvals \cup {None},
     user    : Admins \cup {None},
     outcome : {"returned", "raised", None},   \* of execute_tool
     answer  : Answers \cup {None}]

Entries == [req : Requests, id : Approvals,
            status : {"success", "failed", "denied"}]

TypeOK ==
    /\ approvals \in [Approvals -> Rows]
    /\ req \in [Requests -> RequestStates]
    /\ audit \in SUBSET Entries
    /\ runs \in [Approvals -> Nat]
    /\ dbFaults \in 0..MaxDbFaults
    /\ crashes \in 0..MaxCrashes

NoRequest == [pc |-> "idle", op |-> None, id |-> None, user |-> None,
              outcome |-> None, answer |-> None]

Init ==
    /\ approvals = [a \in Approvals |->
                       [status |-> "absent", reviewed_by |-> None, result |-> None]]
    /\ req = [r \in Requests |-> NoRequest]
    /\ audit = {}
    /\ runs = [a \in Approvals |-> 0]
    /\ dbFaults = 0
    /\ crashes = 0

-----------------------------------------------------------------------------
(* db/database.py *)

get_approvals_RetryFailed(status) ==
    {a \in Approvals : approvals[a].status \in {status, "failed"}}

get_approvals(status) == {a \in Approvals : approvals[a].status = status}

COALESCE(new, old) == IF new = None THEN old ELSE new

\* The UPDATE names only the id in its WHERE clause: whatever the row's status.
update_approval(a, status, reviewed_by, result) ==
    approvals' = [approvals EXCEPT ![a] =
        [status      |-> status,
         reviewed_by |-> COALESCE(reviewed_by, @.reviewed_by),
         result      |-> COALESCE(result, @.result)]]

log_activity(r, status) ==
    audit' = audit \cup {[req |-> r, id |-> req[r].id, status |-> status]}

DbRaises ==
    /\ dbFaults < MaxDbFaults
    /\ dbFaults' = dbFaults + 1

\* A row is inserted when the chat endpoint queues a tool call.
create_approval(a) ==
    /\ approvals[a].status = "absent"
    /\ approvals' = [approvals EXCEPT ![a] =
           [status |-> "pending", reviewed_by |-> None, result |-> None]]
    /\ UNCHANGED <<req, audit, runs, dbFaults, crashes>>

-----------------------------------------------------------------------------
(* How a handler moves on *)

Busy(r) == req[r].pc \notin Resting

\* The handler comes to rest at its next await, or answers.
Continue(r, next) ==
    req' = [req EXCEPT ![r].pc     = IF next \in Answers THEN "done" ELSE next,
                       ![r].answer = IF next \in Answers THEN next ELSE @]

\* The await of update_approval at step; a call that raises leads to raised.
UpdateRow(r, step, status, reviewed_by, result, next, raised) ==
    /\ req[r].pc = step
    /\ \/ /\ update_approval(req[r].id, status, reviewed_by, result)
          /\ Continue(r, next)
          /\ UNCHANGED dbFaults
       \/ /\ DbRaises
          /\ Continue(r, raised)
          /\ UNCHANGED approvals
    /\ UNCHANGED <<audit, runs, crashes>>

\* The await of log_activity at step.
LogEntry(r, step, status, next, raised) ==
    /\ req[r].pc = step
    /\ \/ /\ log_activity(r, status)
          /\ Continue(r, next)
          /\ UNCHANGED dbFaults
       \/ /\ DbRaises
          /\ Continue(r, raised)
          /\ UNCHANGED audit
    /\ UNCHANGED <<approvals, runs, crashes>>

\* Without Overlap a call about a row is sent only after the answer to (or the
\* loss of) the previous call about it.
Admissible(a) == Overlap \/ \A r \in Requests : Busy(r) => req[r].id # a

-----------------------------------------------------------------------------
(* approve_action and deny_action *)

\* Both handlers start by fetching the pending rows and looking theirs up.
FetchPending(r, a, u, op, next) ==
    LET call(pc, answer) == [pc |-> pc, op |-> op, id |-> a, user |-> u,
                             outcome |-> None, answer |-> answer]
    IN  /\ req[r].pc = "idle"
        /\ Admissible(a)
        /\ \/ /\ a \in get_approvals("pending")
              /\ req' = [req EXCEPT ![r] = call(next, None)]
              /\ UNCHANGED dbFaults
           \/ /\ a \notin get_approvals("pending")
              /\ req' = [req EXCEPT ![r] = call("done", "not_pending")]
              /\ UNCHANGED dbFaults
           \/ /\ DbRaises
              /\ req' = [req EXCEPT ![r] = call("done", "error")]
        /\ UNCHANGED <<approvals, audit, runs, crashes>>

ReceiveApprove(r, a, u) == FetchPending(r, a, u, "approve", "approve")

ReceiveDeny(r, a, u) == FetchPending(r, a, u, "deny", "deny")

MarkApproved_NoReviewer(r) ==
    UpdateRow(r, "approve", "approved", None, None, "execute", "error")

MarkApproved(r) ==
    UpdateRow(r, "approve", "approved", req[r].user, None, "execute", "error")

ExecuteTool_Retry(r) ==
    /\ req[r].pc = "execute"
    /\ runs' = [runs EXCEPT ![req[r].id] = @ + 1]
    /\ \/ req' = [req EXCEPT ![r].pc = "record", ![r].outcome = "returned"]
       \/ req[r].outcome = None /\ req' = [req EXCEPT ![r].outcome = "raised"]
    /\ UNCHANGED <<approvals, audit, dbFaults, crashes>>

\* execute_tool returns, or raises with or without having taken effect.
ExecuteTool(r) ==
    /\ req[r].pc = "execute"
    /\ \/ /\ runs' = [runs EXCEPT ![req[r].id] = @ + 1]
          /\ req' = [req EXCEPT ![r].pc = "record", ![r].outcome = "returned"]
       \/ /\ \/ runs' = [runs EXCEPT ![req[r].id] = @ + 1]
             \/ UNCHANGED runs
          /\ req' = [req EXCEPT ![r].pc = "mark_failed", ![r].outcome = "raised"]
    /\ UNCHANGED <<approvals, audit, dbFaults, crashes>>

RecordExecuted_OutsideTry(r) ==
    UpdateRow(r, "record", "executed", None, "output", "log_success", "error")

\* Inside the try: a database call that raises leads to the except branch.
RecordExecuted(r) ==
    UpdateRow(r, "record", "executed", None, "output", "log_success", "mark_failed")

LogSuccess(r) == LogEntry(r, "log_success", "success", "ok", "mark_failed")

MarkFailed_Requeue(r) ==
    UpdateRow(r, "mark_failed", "pending", None, "error", "log_failed", "error")

MarkFailed_Skipped(r) ==
    /\ req[r].pc = "mark_failed"
    /\ Continue(r, "log_failed")
    /\ UNCHANGED <<approvals, audit, runs, dbFaults, crashes>>

\* The except branch: a database call that raises here ends the handler.
MarkFailed(r) ==
    UpdateRow(r, "mark_failed", "failed", None, "error", "log_failed", "error")

LogFailed_Skipped(r) ==
    /\ req[r].pc = "log_failed"
    /\ Continue(r, "execution_failed")
    /\ UNCHANGED <<approvals, audit, runs, dbFaults, crashes>>

LogFailed(r) == LogEntry(r, "log_failed", "failed", "execution_failed", "error")

MarkDenied_NoReviewer(r) ==
    UpdateRow(r, "deny", "denied", None, None, "log_denied", "error")

MarkDenied_WaitsForOthers(r) ==
    /\ \A o \in Requests \ {r} : Busy(o) => req[o].id # req[r].id
    /\ UpdateRow(r, "deny", "denied", req[r].user, None, "log_denied", "error")

MarkDenied(r) ==
    UpdateRow(r, "deny", "denied", req[r].user, None, "log_denied", "error")

LogDenied(r) == LogEntry(r, "log_denied", "denied", "ok", "error")

\* The process dies with the handlers in it; init_db of the next one only
\* creates missing tables, and nothing looks at rows left in "approved".
Crash ==
    /\ crashes < MaxCrashes
    /\ \E r \in Requests : Busy(r)
    /\ crashes' = crashes + 1
    /\ req' = [r \in Requests |->
                  IF Busy(r) THEN [req[r] EXCEPT !.pc = "lost"] ELSE req[r]]
    /\ UNCHANGED <<approvals, audit, runs, dbFaults>>

Step(r) ==
    \/ MarkApproved(r) \/ ExecuteTool(r) \/ RecordExecuted(r) \/ LogSuccess(r)
    \/ MarkFailed(r) \/ LogFailed(r)
    \/ MarkDenied(r) \/ LogDenied(r)

Receive(r) ==
    \E a \in Approvals, u \in Admins : ReceiveApprove(r, a, u) \/ ReceiveDeny(r, a, u)

Next ==
    \/ \E a \in Approvals : create_approval(a)
    \/ \E r \in Requests : Receive(r) \/ Step(r)
    \/ Crash

Spec == Init /\ [][Next]_vars

\* The event loop runs every handler that can run.  A tool ends: commands and
\* boto3's calls have timeouts, of the other providers' calls it is assumed.
FairSpec == Spec /\ \A r \in Requests : WF_vars(Step(r))

-----------------------------------------------------------------------------
(* Correctness, however the calls overlap *)

(***************************************************************************)
(* No tool of the queue takes effect before an administrator's approval is *)
(* on its row, and the row then never looks undecided again.               *)
(***************************************************************************)
RunsNeedAnAdmin ==
    \A a \in Approvals :
        runs[a] > 0 => /\ approvals[a].status \notin {"absent", "pending"}
                       /\ approvals[a].reviewed_by \in Admins

(***************************************************************************)
(* A row that says "executed" holds the output of a tool that did run.     *)
(***************************************************************************)
ExecutedRowsRan ==
    \A a \in Approvals :
        approvals[a].status = "executed" =>
            runs[a] > 0 /\ approvals[a].result = "output"

(***************************************************************************)
(* A tool that returned leaves a trace in the activity log, whichever      *)
(* single database call around it raised: the except branch logs what the  *)
(* try branch could not.                                                   *)
(***************************************************************************)
ReturnedRunsAreAudited ==
    \A r \in Requests :
        /\ req[r].pc = "done"
        /\ req[r].outcome = "returned"
        /\ dbFaults <= 1
        => \E e \in audit : e.req = r

(***************************************************************************)
(* A row that says "approved" is in the hands of a call that will run its  *)
(* tool or write what came of it, unless the process died or two database  *)
(* calls raised, or one did when a failed tool was to be recorded: no call *)
(* lets go of a row before its outcome is written.                         *)
(***************************************************************************)
ApprovedRowsAreInHand ==
    \A a \in Approvals : approvals[a].status = "approved" =>
        \/ \E r \in Requests : /\ req[r].id = a
                               /\ req[r].pc \in {"execute", "record", "mark_failed"}
        \/ crashes > 0 \/ dbFaults > 1
        \/ /\ dbFaults > 0
           /\ \E r \in Requests : req[r].id = a /\ req[r].outcome = "raised"

(***************************************************************************)
(* Each time a tool takes effect has a call to approve it of its own, one  *)
(* that found the row pending: calls that overlap may repeat a tool, one   *)
(* call never does.                                                        *)
(***************************************************************************)
EachRunHasACall ==
    \A a \in Approvals :
        runs[a] <= Cardinality({r \in Requests : /\ req[r].id = a
                                                 /\ req[r].op = "approve"
                                                 /\ req[r].outcome # None})

(***************************************************************************)
(* A decided row is never offered for decision again.                      *)
(***************************************************************************)
NeverReopened ==
    [][\A a \in Approvals :
          approvals[a].status \notin {"absent", "pending"} =>
              approvals'[a].status \notin {"absent", "pending"}]_vars

-----------------------------------------------------------------------------
(* Correctness when calls about a row do not overlap (Overlap = FALSE) *)

(***************************************************************************)
(* An approved call is executed at most once, through retries after        *)
(* failures, database errors and restarts.                                 *)
(***************************************************************************)
RunsAtMostOnce == \A a \in Approvals : runs[a] <= 1

(***************************************************************************)
(* A denied call has not been executed and never will be.                  *)
(***************************************************************************)
DeniedNeverRuns ==
    \A a \in Approvals : approvals[a].status = "denied" => runs[a] = 0

(***************************************************************************)
(* What an administrator was told stays true: after {"status": "executed"} *)
(* the row is executed, once, in their name; after {"status": "denied"} it *)
(* is denied in their name and never ran; after "Execution failed" the row *)
(* is failed.                                                              *)
(***************************************************************************)
AnswersHold ==
    \A r \in Requests : req[r].answer \in {"ok", "execution_failed"} =>
        LET row == approvals[req[r].id]
        IN  /\ row.reviewed_by = req[r].user
            /\ row.status = IF req[r].answer = "execution_failed" THEN "failed"
                            ELSE IF req[r].op = "deny" THEN "denied" ELSE "executed"
            /\ row.status = "executed" => runs[req[r].id] = 1 /\ row.result = "output"
            /\ row.status = "denied" => runs[req[r].id] = 0

LoggedState(status) == IF status = "success" THEN "executed" ELSE status

(***************************************************************************)
(* The activity log and the queue tell the same story: a row with a log    *)
(* entry is in the state that entry reports.                               *)
(***************************************************************************)
LogAgreesWithRows == \A e \in audit : approvals[e.id].status = LoggedState(e.status)

\* Each row goes through the promised lifecycle.
Lifecycle == INSTANCE ApprovalLifecycle
                 WITH status <- [a \in Approvals |-> approvals[a].status]

(***************************************************************************)
(* Handlers and table implement the lifecycle of ApprovalLifecycle.        *)
(***************************************************************************)
ImplementsLifecycle == Lifecycle!LifecycleSpec

-----------------------------------------------------------------------------
(* Progress *)

(***************************************************************************)
(* A row does not stay "approved", however calls overlap, unless the       *)
(* process dies or two database calls raise, or the one that does hits the *)
(* recording of a tool that raised.                                        *)
(***************************************************************************)
ApprovedRowsSettle ==
    \A a \in Approvals :
        approvals[a].status = "approved" ~>
            \/ approvals[a].status \in {"executed", "failed", "denied"}
            \/ crashes > 0 \/ dbFaults > 1
            \/ /\ dbFaults > 0
               /\ \E r \in Requests : req[r].id = a /\ req[r].outcome = "raised"

(***************************************************************************)
(* Every call is answered, unless the process dies under it.               *)
(***************************************************************************)
EveryCallEnds == \A r \in Requests : Busy(r) ~> req[r].pc \in {"done", "lost"}
=============================================================================
