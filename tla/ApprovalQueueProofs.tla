------------------------- MODULE ApprovalQueueProofs -------------------------
(***************************************************************************)
(* Proofs about ApprovalQueue for any set of rows, calls and               *)
(* administrators and any number of database errors and crashes.           *)
(***************************************************************************)
EXTENDS ApprovalQueue, FiniteSetTheorems, TLAPS

\* The sets the steps of the handlers are told apart by.
USE DEF Resting, ApproveSteps, DenySteps, Answers

-----------------------------------------------------------------------------
(* Type correctness *)

LEMMA UpdateKeepsType ==
    ASSUME TypeOK,
           NEW a \in Approvals, NEW s \in Statuses,
           NEW u \in Admins \cup {None}, NEW x \in {"output", "error", None},
           update_approval(a, s, u, x)
    PROVE  approvals' \in [Approvals -> Rows]
<1>1. approvals[a] \in Rows
      BY DEF TypeOK
<1>2. /\ COALESCE(u, approvals[a].reviewed_by) \in Admins \cup {None}
      /\ COALESCE(x, approvals[a].result) \in {"output", "error", None}
      BY <1>1 DEF Rows, COALESCE
<1> QED
      BY <1>2 DEF TypeOK, update_approval, Rows

(***************************************************************************)
(* A handler that is under way knows its row and its administrator.        *)
(***************************************************************************)
BusyKnowsCall ==
    \A r \in Requests : Busy(r) => req[r].id \in Approvals /\ req[r].user \in Admins

TypeInv == TypeOK /\ BusyKnowsCall

LEMMA TypeInit == Init => TypeInv
  BY ApprovalAssumption
  DEF Init, TypeInv, TypeOK, BusyKnowsCall, NoRequest, RequestStates, Rows,
      Statuses, Entries, Busy

LEMMA TypeStep == TypeInv /\ [Next]_vars => TypeInv'
<1> SUFFICES ASSUME TypeInv, [Next]_vars PROVE TypeInv'
    OBVIOUS
<1> USE ApprovalAssumption DEF TypeInv
<1>1. ASSUME NEW a \in Approvals, create_approval(a) PROVE TypeInv'
      BY <1>1 DEF create_approval, TypeOK, BusyKnowsCall, Busy, Rows, Statuses
<1>2. ASSUME NEW r \in Requests, NEW a \in Approvals, NEW u \in Admins,
             ReceiveApprove(r, a, u) \/ ReceiveDeny(r, a, u)
      PROVE  TypeInv'
      BY <1>2 DEF ReceiveApprove, ReceiveDeny, FetchPending, DbRaises, TypeOK,
                  BusyKnowsCall, Busy, RequestStates
<1>3. ASSUME NEW r \in Requests, Step(r) PROVE TypeInv'
  <2> SUFFICES ASSUME Busy(r) PROVE TypeInv'
      BY <1>3 DEF Step, MarkApproved, ExecuteTool, RecordExecuted, LogSuccess,
                  MarkFailed, LogFailed, MarkDenied, LogDenied, UpdateRow, LogEntry, Busy
  <2>0. /\ req[r].id \in Approvals
        /\ req[r].user \in Admins
        /\ req[r] \in RequestStates
        BY DEF BusyKnowsCall, TypeOK
  <2>1. ASSUME NEW to \in ApproveSteps \cup DenySteps \cup Answers, Continue(r, to)
        PROVE  /\ req' \in [Requests -> RequestStates]
               /\ BusyKnowsCall'
        BY <2>0, <2>1 DEF Continue, TypeOK, BusyKnowsCall, Busy, RequestStates
  <2>2. ASSUME NEW step, NEW s \in Statuses, NEW u \in Admins \cup {None},
               NEW x \in {"output", "error", None},
               NEW next \in ApproveSteps \cup DenySteps \cup Answers,
               NEW raised \in ApproveSteps \cup DenySteps \cup Answers,
               UpdateRow(r, step, s, u, x, next, raised)
        PROVE  TypeInv'
        BY <2>0, <2>1, <2>2, UpdateKeepsType DEF UpdateRow, DbRaises, TypeOK
  <2>3. ASSUME NEW step, NEW s \in {"success", "failed", "denied"},
               NEW next \in ApproveSteps \cup DenySteps \cup Answers,
               NEW raised \in ApproveSteps \cup DenySteps \cup Answers,
               LogEntry(r, step, s, next, raised)
        PROVE  TypeInv'
        BY <2>0, <2>1, <2>3 DEF LogEntry, log_activity, DbRaises, TypeOK, Entries
  <2>4. CASE MarkApproved(r)
        BY <2>0, <2>2, <2>4 DEF MarkApproved, Statuses
  <2>5. CASE ExecuteTool(r)
        BY <2>0, <2>5 DEF ExecuteTool, TypeOK, BusyKnowsCall, Busy, RequestStates
  <2>6. CASE RecordExecuted(r)
        BY <2>2, <2>6 DEF RecordExecuted, Statuses
  <2>7. CASE LogSuccess(r)
        BY <2>3, <2>7 DEF LogSuccess
  <2>8. CASE MarkFailed(r)
        BY <2>2, <2>8 DEF MarkFailed, Statuses
  <2>9. CASE LogFailed(r)
        BY <2>3, <2>9 DEF LogFailed
  <2>10. CASE MarkDenied(r)
        BY <2>0, <2>2, <2>10 DEF MarkDenied, Statuses
  <2>11. CASE LogDenied(r)
        BY <2>3, <2>11 DEF LogDenied
  <2> QED
      BY <1>3, <2>4, <2>5, <2>6, <2>7, <2>8, <2>9, <2>10, <2>11 DEF Step
<1>4. CASE Crash
      BY <1>4 DEF Crash, TypeOK, BusyKnowsCall, Busy, RequestStates
<1>5. CASE UNCHANGED vars
      BY <1>5 DEF vars, TypeOK, BusyKnowsCall, Busy
<1> QED
    BY <1>1, <1>2, <1>3, <1>4, <1>5 DEF Next, Receive

(***************************************************************************)
(* The table, the handlers and the log only ever hold the values the code  *)
(* writes.                                                                 *)
(***************************************************************************)
THEOREM TypeCorrect == Spec => []TypeOK
<1>1. Spec => []TypeInv
      BY TypeInit, TypeStep, PTL DEF Spec
<1> QED
    BY <1>1, PTL DEF TypeInv

-----------------------------------------------------------------------------
(* No run without an administrator *)

(***************************************************************************)
(* RunsNeedAnAdmin is not inductive: it needs that a handler past its      *)
(* first update finds its row decided and signed, whatever other handlers  *)
(* wrote to the row in between.                                            *)
(***************************************************************************)
Signed(a) == /\ approvals[a].status \notin {"absent", "pending"}
             /\ approvals[a].reviewed_by \in Admins

PastDecision(r) == req[r].pc \in (ApproveSteps \cup DenySteps) \ {"approve", "deny"}

AdminInv ==
    /\ TypeInv
    /\ RunsNeedAnAdmin
    /\ \A r \in Requests : PastDecision(r) => Signed(req[r].id)

\* An update that names an administrator, or meets a signed row, leaves it signed.
LEMMA UpdateSigns ==
    ASSUME TypeOK,
           NEW a \in Approvals, NEW s \in Statuses \ {"absent", "pending"},
           NEW u \in Admins \cup {None}, NEW x,
           u \in Admins \/ Signed(a),
           update_approval(a, s, u, x)
    PROVE  \A b \in Approvals : (b = a \/ Signed(b)) => Signed(b)'
  BY ApprovalAssumption DEF TypeOK, update_approval, Signed, COALESCE, Rows

LEMMA AdminStep == AdminInv /\ [Next]_vars => AdminInv'
<1> SUFFICES ASSUME AdminInv, [Next]_vars PROVE AdminInv'
    OBVIOUS
<1> USE ApprovalAssumption
<1>t. TypeInv /\ TypeInv' /\ TypeOK /\ TypeOK'
      BY TypeStep DEF AdminInv, TypeInv
<1>1. ASSUME NEW a \in Approvals, create_approval(a) PROVE AdminInv'
      BY <1>1, <1>t DEF create_approval, AdminInv, TypeOK, RunsNeedAnAdmin,
                        PastDecision, Signed
<1>2. ASSUME NEW r \in Requests, NEW a \in Approvals, NEW u \in Admins,
             ReceiveApprove(r, a, u) \/ ReceiveDeny(r, a, u)
      PROVE  AdminInv'
      BY <1>2, <1>t DEF ReceiveApprove, ReceiveDeny, FetchPending, AdminInv,
                        TypeOK, RunsNeedAnAdmin, PastDecision, Signed
<1>3. ASSUME NEW r \in Requests, Step(r) PROVE AdminInv'
  <2> SUFFICES ASSUME Busy(r) PROVE AdminInv'
      BY <1>3 DEF Step, MarkApproved, ExecuteTool, RecordExecuted, LogSuccess,
                  MarkFailed, LogFailed, MarkDenied, LogDenied, UpdateRow, LogEntry, Busy
  <2>0. /\ req[r].id \in Approvals
        /\ req[r].user \in Admins
        /\ req[r] \in RequestStates
        BY <1>t DEF TypeInv, BusyKnowsCall, TypeOK
  <2>1. ASSUME NEW s \in Statuses \ {"absent", "pending"},
               NEW u \in Admins \cup {None}, NEW x,
               u \in Admins \/ Signed(req[r].id),
               update_approval(req[r].id, s, u, x),
               UNCHANGED runs,
               NEW to, Continue(r, to)
        PROVE  AdminInv'
    <3>1. \A b \in Approvals : b = req[r].id \/ Signed(b) => Signed(b)'
          BY <2>0, <2>1, <1>t, UpdateSigns
    <3>2. \A q \in Requests :
              req'[q].id = req[q].id /\ (PastDecision(q)' => q = r \/ PastDecision(q))
          BY <2>0, <2>1, <1>t DEF Continue, TypeOK, RequestStates, PastDecision
    <3>3. \A q \in Requests : PastDecision(q)' => Signed(req[q].id)'
      <4> SUFFICES ASSUME NEW q \in Requests, PastDecision(q)' PROVE Signed(req[q].id)'
          OBVIOUS
      <4>1. req[q].id \in Approvals /\ (q = r \/ Signed(req[q].id))
            BY <2>0, <3>2, <1>t DEF TypeInv, BusyKnowsCall, Busy, PastDecision, AdminInv
      <4> QED
          BY <4>1, <3>1, <3>2 DEF Signed
    <3>4. RunsNeedAnAdmin'
          BY <2>1, <3>1 DEF AdminInv, RunsNeedAnAdmin, Signed
    <3> QED
        BY <1>t, <3>3, <3>4 DEF AdminInv
  <2>2. ASSUME UNCHANGED <<approvals, runs>>,
               NEW to, Continue(r, to), to \in Answers \/ PastDecision(r)
        PROVE  AdminInv'
        BY <2>0, <2>2, <1>t, ZenonT(60)
        DEF AdminInv, Continue, TypeOK, RunsNeedAnAdmin, PastDecision, Signed,
            RequestStates
  <2>3. CASE MarkApproved(r)
        BY <2>0, <2>1, <2>2, <2>3 DEF MarkApproved, UpdateRow, Statuses
  <2>4. CASE ExecuteTool(r)
    <3>1. Signed(req[r].id)
          BY <2>4 DEF ExecuteTool, AdminInv, PastDecision
    <3>2. \A q \in Requests :
              req'[q].id = req[q].id /\ (PastDecision(q)' => PastDecision(q))
          BY <2>0, <2>4, <1>t DEF ExecuteTool, TypeOK, RequestStates, PastDecision
    <3>3. RunsNeedAnAdmin'
          BY <2>0, <2>4, <1>t, <3>1 DEF ExecuteTool, AdminInv, RunsNeedAnAdmin, Signed, TypeOK
    <3> QED
        BY <2>4, <1>t, <3>2, <3>3 DEF ExecuteTool, AdminInv, Signed
  <2>5. CASE RecordExecuted(r)
        BY <2>0, <2>1, <2>2, <2>5 DEF RecordExecuted, UpdateRow, AdminInv, PastDecision, Statuses
  <2>6. CASE LogSuccess(r)
        BY <2>0, <2>2, <2>6 DEF LogSuccess, LogEntry, PastDecision
  <2>7. CASE MarkFailed(r)
        BY <2>0, <2>1, <2>2, <2>7 DEF MarkFailed, UpdateRow, AdminInv, PastDecision, Statuses
  <2>8. CASE LogFailed(r)
        BY <2>0, <2>2, <2>8 DEF LogFailed, LogEntry, PastDecision
  <2>9. CASE MarkDenied(r)
        BY <2>0, <2>1, <2>2, <2>9 DEF MarkDenied, UpdateRow, Statuses
  <2>10. CASE LogDenied(r)
        BY <2>0, <2>2, <2>10 DEF LogDenied, LogEntry, PastDecision
  <2> QED
      BY <1>3, <2>3, <2>4, <2>5, <2>6, <2>7, <2>8, <2>9, <2>10 DEF Step
<1>4. CASE Crash
      BY <1>4, <1>t DEF Crash, AdminInv, TypeOK, RunsNeedAnAdmin, PastDecision,
                        Signed, Busy, RequestStates
<1>5. CASE UNCHANGED vars
      BY <1>5, <1>t DEF vars, AdminInv, RunsNeedAnAdmin, PastDecision, Signed
<1> QED
    BY <1>1, <1>2, <1>3, <1>4, <1>5 DEF Next, Receive

(***************************************************************************)
(* However approve and deny calls overlap, no tool of the queue takes      *)
(* effect before an administrator is on record for its row.                *)
(***************************************************************************)
THEOREM NoRunWithoutAdmin == Spec => []RunsNeedAnAdmin
<1>1. Init => AdminInv
      BY TypeInit DEF Init, AdminInv, RunsNeedAnAdmin, PastDecision, NoRequest
<1>2. Spec => []AdminInv
      BY <1>1, AdminStep, PTL DEF Spec
<1> QED
    BY <1>2, PTL DEF AdminInv

-----------------------------------------------------------------------------
(* What the table says, however the calls overlap *)

\* Every change of a row: it is queued, or a handler writes a later status.
LEMMA RowChanges ==
    ASSUME TypeInv, [Next]_vars, NEW a \in Approvals
    PROVE  \/ approvals'[a] = approvals[a]
           \/ approvals[a].status = "absent" /\ approvals'[a].status = "pending"
           \/ /\ approvals'[a].status \in {"approved", "failed", "denied"}
              /\ UNCHANGED runs
           \/ /\ \E r \in Requests : req[r].pc = "record" /\ req[r].id = a
              /\ approvals'[a].status = "executed" /\ approvals'[a].result = "output"
              /\ UNCHANGED runs
<1>1. ASSUME NEW b \in Approvals, create_approval(b)
      PROVE  \/ approvals'[a] = approvals[a]
             \/ approvals[a].status = "absent" /\ approvals'[a].status = "pending"
      BY <1>1 DEF create_approval, TypeInv, TypeOK
<1>2. ASSUME NEW r \in Requests, Receive(r) PROVE UNCHANGED approvals
      BY <1>2 DEF Receive, ReceiveApprove, ReceiveDeny, FetchPending
<1>3. ASSUME NEW r \in Requests, Step(r), approvals'[a] # approvals[a]
      PROVE  \/ /\ approvals'[a].status \in {"approved", "failed", "denied"}
                /\ UNCHANGED runs
             \/ /\ req[r].pc = "record" /\ req[r].id = a
                /\ approvals'[a].status = "executed" /\ approvals'[a].result = "output"
                /\ UNCHANGED runs
  <2>0. approvals \in [Approvals -> Rows]
        BY DEF TypeInv, TypeOK
  <2>1. ASSUME NEW step, NEW s, NEW u, NEW x, NEW next, NEW raised,
               UpdateRow(r, step, s, u, x, next, raised)
        PROVE  /\ req[r].pc = step /\ req[r].id = a /\ UNCHANGED runs
               /\ approvals'[a].status = s
               /\ approvals'[a].result = COALESCE(x, approvals[a].result)
        BY <1>3, <2>0, <2>1 DEF UpdateRow, update_approval
  <2>2. CASE MarkApproved(r)
        BY <2>1, <2>2 DEF MarkApproved
  <2>3. CASE RecordExecuted(r)
    <3>1. /\ req[r].pc = "record" /\ req[r].id = a /\ UNCHANGED runs
          /\ approvals'[a].status = "executed"
          /\ approvals'[a].result = COALESCE("output", approvals[a].result)
          BY <2>1, <2>3 DEF RecordExecuted
    <3> QED
        BY <3>1, ApprovalAssumption DEF COALESCE
  <2>4. CASE MarkFailed(r)
        BY <2>1, <2>4 DEF MarkFailed
  <2>5. CASE MarkDenied(r)
        BY <2>1, <2>5 DEF MarkDenied
  <2>6. CASE ExecuteTool(r) \/ LogSuccess(r) \/ LogFailed(r) \/ LogDenied(r)
        BY <1>3, <2>6 DEF ExecuteTool, LogSuccess, LogFailed, LogDenied, LogEntry
  <2> QED
      BY <1>3, <2>2, <2>3, <2>4, <2>5, <2>6 DEF Step
<1>4. CASE Crash \/ UNCHANGED vars
      BY <1>4 DEF Crash, vars
<1> QED
    BY <1>1, <1>2, <1>3, <1>4 DEF Next

(***************************************************************************)
(* However calls overlap and fail, no step takes a decided row back to     *)
(* where it could be decided again.                                        *)
(***************************************************************************)
THEOREM DecisionsAreFinal == Spec => NeverReopened
<1>1. ASSUME TypeInv, [Next]_vars, NEW a \in Approvals,
             approvals[a].status \notin {"absent", "pending"}
      PROVE  approvals'[a].status \notin {"absent", "pending"}
      BY <1>1, RowChanges
<1>2. TypeInv /\ [Next]_vars =>
          [\A a \in Approvals :
              approvals[a].status \notin {"absent", "pending"} =>
                  approvals'[a].status \notin {"absent", "pending"}]_vars
      BY <1>1
<1> QED
    BY <1>2, TypeInit, TypeStep, PTL DEF Spec, NeverReopened

(***************************************************************************)
(* A handler about to record success has run its tool; the output it       *)
(* writes is not overwritten while the row says "executed".                *)
(***************************************************************************)
RanInv ==
    /\ TypeInv
    /\ \A r \in Requests : req[r].pc = "record" => runs[req[r].id] > 0
    /\ ExecutedRowsRan

\* Executions are never forgotten, and only an execution leads to "record".
LEMMA RunsOnlyGrow ==
    ASSUME TypeInv, [Next]_vars
    PROVE  /\ \A a \in Approvals : runs'[a] \in Nat /\ runs'[a] >= runs[a]
           /\ \A r \in Requests : req'[r].pc = "record" =>
                  \/ req[r].pc = "record" /\ req'[r].id = req[r].id
                  \/ req'[r].id \in Approvals /\ runs'[req'[r].id] > 0
<1> USE DEF TypeInv, TypeOK
<1>1. ASSUME NEW a \in Approvals, create_approval(a)
      PROVE  UNCHANGED <<runs, req>>
      BY <1>1 DEF create_approval
<1>2. ASSUME NEW r \in Requests, Receive(r)
      PROVE  /\ UNCHANGED runs
             /\ \A q \in Requests : req'[q].pc = "record" => req'[q] = req[q]
      BY <1>2 DEF Receive, ReceiveApprove, ReceiveDeny, FetchPending
<1>3. ASSUME NEW r \in Requests, Step(r)
      PROVE  /\ \A a \in Approvals : runs'[a] \in Nat /\ runs'[a] >= runs[a]
             /\ \A q \in Requests : req'[q].pc = "record" =>
                    \/ req[q].pc = "record" /\ req'[q].id = req[q].id
                    \/ req'[q].id \in Approvals /\ runs'[req'[q].id] > 0
  <2>1. CASE ExecuteTool(r)
    <3>1. req[r].id \in Approvals /\ req[r] \in RequestStates
          BY <2>1 DEF ExecuteTool, BusyKnowsCall, Busy
    <3>2. \A q \in Requests : /\ req'[q].id = req[q].id
                              /\ q # r => req'[q] = req[q]
          BY <2>1, <3>1 DEF ExecuteTool, RequestStates
    <3>3. \A a \in Approvals : runs'[a] \in Nat /\ runs'[a] >= runs[a]
          BY <2>1 DEF ExecuteTool
    <3>4. req'[r].pc = "record" => runs'[req[r].id] > 0
          BY <2>1, <3>1 DEF ExecuteTool, RequestStates
    <3> QED
        BY <3>1, <3>2, <3>3, <3>4
  <2>2. ASSUME NEW to, Continue(r, to), to # "record", UNCHANGED runs
        PROVE  /\ UNCHANGED runs
               /\ \A q \in Requests : req'[q].pc = "record" =>
                      req[q].pc = "record" /\ req'[q].id = req[q].id
        BY <2>2 DEF Continue, RequestStates
  <2>3. CASE MarkApproved(r) \/ RecordExecuted(r) \/ MarkFailed(r) \/ MarkDenied(r)
        BY <2>2, <2>3 DEF MarkApproved, RecordExecuted, MarkFailed, MarkDenied, UpdateRow
  <2>4. CASE LogSuccess(r) \/ LogFailed(r) \/ LogDenied(r)
        BY <2>2, <2>4 DEF LogSuccess, LogFailed, LogDenied, LogEntry
  <2> QED
      BY <1>3, <2>1, <2>3, <2>4 DEF Step
<1>4. CASE Crash
      BY <1>4 DEF Crash, Busy, RequestStates
<1>5. CASE UNCHANGED vars
      BY <1>5 DEF vars
<1> QED
    BY <1>1, <1>2, <1>3, <1>4, <1>5 DEF Next

(***************************************************************************)
(* However calls overlap, a row that says "executed" holds the output of a *)
(* tool that did run.                                                      *)
(***************************************************************************)
THEOREM ExecutedMeansRan == Spec => []ExecutedRowsRan
<1>1. Init => RanInv
      BY TypeInit DEF Init, RanInv, ExecutedRowsRan, NoRequest
<1>2. RanInv /\ [Next]_vars => RanInv'
  <2> SUFFICES ASSUME RanInv, [Next]_vars PROVE RanInv'
      OBVIOUS
  <2>1. TypeInv /\ TypeInv'
        BY TypeStep DEF RanInv
  <2>2. \A a \in Approvals : runs[a] \in Nat /\ runs'[a] \in Nat /\ runs'[a] >= runs[a]
        BY <2>1, RunsOnlyGrow DEF TypeInv, TypeOK
  <2>3. ASSUME NEW r \in Requests, req'[r].pc = "record" PROVE runs'[req'[r].id] > 0
    <3>1. req[r].pc = "record" => req[r].id \in Approvals /\ runs[req[r].id] > 0
          BY <2>1 DEF TypeInv, BusyKnowsCall, Busy, RanInv
    <3> QED
        BY <2>1, <2>2, <2>3, <3>1, RunsOnlyGrow
  <2>4. ASSUME NEW a \in Approvals, approvals'[a].status = "executed"
        PROVE  runs'[a] > 0 /\ approvals'[a].result = "output"
    <3>1. \/ approvals'[a] = approvals[a]
          \/ /\ \E r \in Requests : req[r].pc = "record" /\ req[r].id = a
             /\ approvals'[a].result = "output"
          BY <2>1, <2>4, RowChanges
    <3>2. runs[a] > 0 /\ approvals'[a].result = "output"
          BY <2>4, <3>1 DEF RanInv, ExecutedRowsRan
    <3> QED
        BY <3>2, <2>2
  <2> QED
      BY <2>1, <2>3, <2>4 DEF RanInv, ExecutedRowsRan
<1>3. RanInv => ExecutedRowsRan
      BY DEF RanInv
<1> QED
    BY <1>1, <1>2, <1>3, PTL DEF Spec

-----------------------------------------------------------------------------
(* What the log says of tools that returned *)

(***************************************************************************)
(* A tool that returned either goes on to the entry of the try branch, or  *)
(* a database call has raised since; without an entry after both branches, *)
(* two have.                                                               *)
(***************************************************************************)
AuditedSoFar(r) ==
    /\ req[r].pc \in {"idle", "approve", "execute"} \cup DenySteps =>
           req[r].outcome # "returned"
    /\ req[r].outcome = "returned" =>
           /\ req[r].pc \in {"mark_failed", "log_failed"} => dbFaults >= 1
           /\ req[r].pc = "done" => dbFaults >= 2 \/ \E e \in audit : e.req = r

AuditInv == TypeInv /\ \A r \in Requests : AuditedSoFar(r)

\* Entries are only added, and faults are only counted up.
LEMMA OthersStayAudited ==
    ASSUME TypeOK, TypeOK', NEW q \in Requests, AuditedSoFar(q),
           req'[q].outcome = req[q].outcome,
           req'[q].pc \in {req[q].pc, "lost"},
           audit \subseteq audit', dbFaults' >= dbFaults
    PROVE  AuditedSoFar(q)'
<1>1. dbFaults \in Nat /\ dbFaults' \in Nat
      BY ApprovalAssumption DEF TypeOK
<1> QED
    BY <1>1 DEF AuditedSoFar

LEMMA AuditStep == AuditInv /\ [Next]_vars => AuditInv'
<1> SUFFICES ASSUME AuditInv, [Next]_vars PROVE AuditInv'
    OBVIOUS
<1> USE ApprovalAssumption
<1>t. TypeInv /\ TypeInv' /\ TypeOK /\ TypeOK' /\ dbFaults \in Nat /\ dbFaults' \in Nat
      BY TypeStep DEF AuditInv, TypeInv, TypeOK
<1>o. ASSUME audit \subseteq audit', dbFaults' >= dbFaults,
             NEW r \in Requests,
             \A q \in Requests : q # r => req'[q] = req[q],
             AuditedSoFar(r)'
      PROVE  AuditInv'
  <2>1. ASSUME NEW q \in Requests PROVE AuditedSoFar(q)'
        BY <1>o, <1>t, OthersStayAudited DEF AuditInv
  <2> QED
      BY <2>1, <1>t DEF AuditInv
<1>u. ASSUME UNCHANGED <<audit, dbFaults>>,
             \A q \in Requests : /\ req'[q].outcome = req[q].outcome
                                 /\ req'[q].pc \in {req[q].pc, "lost"}
      PROVE  AuditInv'
  <2>1. ASSUME NEW q \in Requests PROVE AuditedSoFar(q)'
        BY <1>u, <1>t, OthersStayAudited DEF AuditInv
  <2> QED
      BY <2>1, <1>t DEF AuditInv
<1>1. ASSUME NEW a \in Approvals, create_approval(a) PROVE AuditInv'
      BY <1>1, <1>u DEF create_approval
<1>2. ASSUME NEW r \in Requests, NEW a \in Approvals, NEW u \in Admins,
             ReceiveApprove(r, a, u) \/ ReceiveDeny(r, a, u)
      PROVE  AuditInv'
  <2>1. /\ audit' = audit /\ dbFaults' >= dbFaults
        /\ \A q \in Requests : q # r => req'[q] = req[q]
        /\ req'[r].outcome = None
        BY <1>2, <1>t DEF ReceiveApprove, ReceiveDeny, FetchPending, DbRaises, TypeOK
  <2>2. AuditedSoFar(r)'
        BY <2>1 DEF AuditedSoFar
  <2> QED
      BY <1>o, <2>1, <2>2
<1>3. ASSUME NEW r \in Requests, Step(r) PROVE AuditInv'
  <2>0. req[r] \in RequestStates /\ AuditedSoFar(r)
        BY <1>t DEF TypeOK, AuditInv
  <2>1. ASSUME NEW to, Continue(r, to)
        PROVE  /\ \A q \in Requests : q # r => req'[q] = req[q]
               /\ req'[r].outcome = req[r].outcome
               /\ req'[r].pc = IF to \in Answers THEN "done" ELSE to
        BY <2>0, <2>1, <1>t DEF Continue, TypeOK, RequestStates
  <2>2. ASSUME NEW step \in {"approve", "record", "mark_failed", "deny"}, NEW s,
               NEW u, NEW x, NEW next \in {"execute", "log_success", "log_failed", "log_denied"},
               NEW raised \in {"mark_failed", "error"},
               UpdateRow(r, step, s, u, x, next, raised),
               step = "record" <=> next = "log_success",
               step = "record" <=> raised = "mark_failed",
               step = "mark_failed" <=> next = "log_failed"
        PROVE  AuditInv'
    <3>1. req[r].pc = step /\ UNCHANGED audit
          BY <2>2 DEF UpdateRow
    <3>2. CASE Continue(r, next) /\ UNCHANGED dbFaults
      <4>1. req'[r].pc = next /\ req'[r].outcome = req[r].outcome
            BY <2>1, <3>2
      <4>2. AuditedSoFar(r)'
            BY <2>0, <2>2, <3>1, <3>2, <4>1 DEF AuditedSoFar
      <4> QED
          BY <1>o, <1>t, <2>1, <3>1, <3>2, <4>2
    <3>3. CASE Continue(r, raised) /\ dbFaults' = dbFaults + 1
      <4>1. /\ req'[r].pc = IF raised = "error" THEN "done" ELSE "mark_failed"
            /\ req'[r].outcome = req[r].outcome
            BY <2>1, <2>2, <3>3
      <4>2. AuditedSoFar(r)'
            BY <2>0, <2>2, <3>1, <3>3, <4>1, <1>t DEF AuditedSoFar
      <4> QED
          BY <1>o, <1>t, <2>1, <3>1, <3>3, <4>2
    <3> QED
        BY <2>2, <3>2, <3>3 DEF UpdateRow, DbRaises
  <2>3. ASSUME NEW step \in {"log_success", "log_failed", "log_denied"}, NEW s,
               NEW next \in {"ok", "execution_failed"}, NEW raised \in {"mark_failed", "error"},
               LogEntry(r, step, s, next, raised),
               step = "log_success" <=> raised = "mark_failed"
        PROVE  AuditInv'
    <3>1. req[r].pc = step
          BY <2>3 DEF LogEntry
    <3>2. CASE log_activity(r, s) /\ Continue(r, next) /\ UNCHANGED dbFaults
      <4>1. audit \subseteq audit' /\ \E e \in audit' : e.req = r
        <5> DEFINE new == [req |-> r, id |-> req[r].id, status |-> s]
        <5>1. audit' = audit \cup {new} /\ new.req = r
              BY <3>2 DEF log_activity
        <5> QED
            BY <5>1
      <4>2. req'[r].pc = "done" /\ req'[r].outcome = req[r].outcome
            BY <2>1, <2>3, <3>2
      <4>3. AuditedSoFar(r)'
            BY <4>1, <4>2 DEF AuditedSoFar
      <4> QED
          BY <1>o, <1>t, <2>1, <3>2, <4>1, <4>3
    <3>3. CASE UNCHANGED audit /\ Continue(r, raised) /\ dbFaults' = dbFaults + 1
      <4>1. /\ req'[r].pc = IF raised = "error" THEN "done" ELSE "mark_failed"
            /\ req'[r].outcome = req[r].outcome
            BY <2>1, <2>3, <3>3
      <4>2. AuditedSoFar(r)'
            BY <2>0, <2>3, <3>1, <3>3, <4>1, <1>t DEF AuditedSoFar
      <4> QED
          BY <1>o, <1>t, <2>1, <3>3, <4>2
    <3> QED
        BY <2>3, <3>2, <3>3 DEF LogEntry, DbRaises
  <2>4. CASE MarkApproved(r)
        BY <2>2, <2>4 DEF MarkApproved
  <2>5. CASE ExecuteTool(r)
    <3>1. /\ UNCHANGED <<audit, dbFaults>>
          /\ \A q \in Requests : q # r => req'[q] = req[q]
          /\ \/ req'[r].pc = "record"
             \/ req'[r].pc = "mark_failed" /\ req'[r].outcome = "raised"
          BY <2>0, <2>5, <1>t DEF ExecuteTool, TypeOK, RequestStates
    <3>2. AuditedSoFar(r)'
          BY <3>1 DEF AuditedSoFar
    <3> QED
        BY <1>o, <1>t, <3>1, <3>2
  <2>6. CASE RecordExecuted(r)
        BY <2>2, <2>6 DEF RecordExecuted
  <2>7. CASE LogSuccess(r)
        BY <2>3, <2>7 DEF LogSuccess
  <2>8. CASE MarkFailed(r)
        BY <2>2, <2>8 DEF MarkFailed
  <2>9. CASE LogFailed(r)
        BY <2>3, <2>9 DEF LogFailed
  <2>10. CASE MarkDenied(r)
        BY <2>2, <2>10 DEF MarkDenied
  <2>11. CASE LogDenied(r)
        BY <2>3, <2>11 DEF LogDenied
  <2> QED
      BY <1>3, <2>4, <2>5, <2>6, <2>7, <2>8, <2>9, <2>10, <2>11 DEF Step
<1>4. CASE Crash
      BY <1>4, <1>u, <1>t DEF Crash, TypeOK, RequestStates
<1>5. CASE UNCHANGED vars
      BY <1>5, <1>u DEF vars
<1> QED
    BY <1>1, <1>2, <1>3, <1>4, <1>5 DEF Next, Receive

(***************************************************************************)
(* However calls overlap, a tool that returned has an entry in the         *)
(* activity log unless two database calls raised: the except branch of     *)
(* approve_action logs what its try branch could not.                      *)
(***************************************************************************)
THEOREM ReturnedMeansAudited == Spec => []ReturnedRunsAreAudited
<1>1. Init => AuditInv
      BY TypeInit, ApprovalAssumption DEF Init, AuditInv, AuditedSoFar, NoRequest
<1>2. AuditInv => ReturnedRunsAreAudited
      BY ApprovalAssumption
      DEF AuditInv, AuditedSoFar, ReturnedRunsAreAudited, TypeInv, TypeOK
<1> QED
    BY <1>1, <1>2, AuditStep, PTL DEF Spec

-----------------------------------------------------------------------------
(* Each call answers for the tool it runs, however the calls overlap *)

(***************************************************************************)
(* A call knows what came of its tool once it has run it, and nothing      *)
(* before.                                                                 *)
(***************************************************************************)
KnowsOutcome(r) ==
    /\ req[r].pc \in {"idle", "approve", "execute"} => req[r].outcome = None
    /\ req[r].pc \in ApproveSteps => req[r].op = "approve"
    /\ req[r].pc \in {"record", "log_success", "mark_failed"} => req[r].outcome # None

OutcomeInv == TypeInv /\ \A r \in Requests : KnowsOutcome(r)

\* From where to where a handler goes without running a tool.
Hops == {<<"approve", "execute">>, <<"record", "log_success">>, <<"record", "mark_failed">>,
         <<"log_success", "mark_failed">>, <<"mark_failed", "log_failed">>,
         <<"deny", "log_denied">>}

SameCall(r) == /\ req'[r].id = req[r].id
               /\ req'[r].op = req[r].op
               /\ req'[r].outcome = req[r].outcome

Hopped(r) ==
    /\ SameCall(r)
    /\ \/ req'[r].pc = req[r].pc
       \/ <<req[r].pc, req'[r].pc>> \in Hops
       \/ req[r].pc # "idle" /\ req'[r].pc \in {"done", "lost"}

Received(r) == /\ req[r].pc = "idle"
               /\ req'[r].outcome = None
               /\ \/ req'[r].pc = "approve" /\ req'[r].op = "approve"
                  \/ req'[r].pc \in {"deny", "done"}

Executed(r) ==
    /\ req[r].pc = "execute"
    /\ req'[r].id = req[r].id /\ req'[r].op = req[r].op
    /\ \/ req'[r].pc = "record" /\ req'[r].outcome = "returned"
       \/ req'[r].pc = "mark_failed" /\ req'[r].outcome = "raised"

\* What a step makes of a handler: its own or another's, or a crash.
LEMMA HandlerMoves ==
    ASSUME TypeInv, [Next]_vars, NEW q \in Requests
    PROVE  /\ Hopped(q) \/ Received(q) \/ Executed(q)
           /\ Executed(q) => ExecuteTool(q)
<1> USE DEF TypeInv, TypeOK, SameCall
<1>0. req[q] \in RequestStates
      OBVIOUS
<1>1. ASSUME NEW a \in Approvals, create_approval(a) PROVE UNCHANGED req
      BY <1>1 DEF create_approval
<1>2. ASSUME NEW r \in Requests, Receive(r)
      PROVE  req'[q] = req[q] \/ Received(q)
      BY <1>2 DEF Receive, ReceiveApprove, ReceiveDeny, FetchPending, Received
<1>3. ASSUME NEW r \in Requests, Step(r)
      PROVE  \/ Hopped(q)
             \/ ExecuteTool(r) /\ IF q = r THEN Executed(q) ELSE req'[q] = req[q]
  <2>0. req[r] \in RequestStates
        OBVIOUS
  <2>1. ASSUME NEW to, Continue(r, to),
               <<req[r].pc, to>> \in Hops \/ (to \in Answers /\ req[r].pc # "idle")
        PROVE  Hopped(q)
    <3>1. /\ q # r => req'[q] = req[q]
          /\ SameCall(q)
          /\ req'[r].pc = IF to \in Answers THEN "done" ELSE to
          BY <1>0, <2>0, <2>1 DEF Continue, RequestStates
    <3>2. to \in Answers => <<req[r].pc, to>> \notin Hops
          BY DEF Hops
    <3> QED
        BY <2>1, <3>1, <3>2 DEF Hopped
  <2>2. CASE MarkApproved(r) \/ RecordExecuted(r) \/ MarkFailed(r) \/ MarkDenied(r)
        BY <2>1, <2>2 DEF MarkApproved, RecordExecuted, MarkFailed, MarkDenied, UpdateRow, Hops
  <2>3. CASE LogSuccess(r) \/ LogFailed(r) \/ LogDenied(r)
        BY <2>1, <2>3 DEF LogSuccess, LogFailed, LogDenied, LogEntry, Hops
  <2>4. CASE ExecuteTool(r)
        BY <1>0, <2>0, <2>4 DEF ExecuteTool, Executed, RequestStates
  <2> QED
      BY <1>3, <2>2, <2>3, <2>4 DEF Step
<1>4. ASSUME Crash PROVE Hopped(q)
      BY <1>0, <1>4 DEF Crash, Hopped, Busy, RequestStates
<1>5. ASSUME UNCHANGED vars PROVE Hopped(q)
      BY <1>5 DEF vars, Hopped
<1>6. Executed(q) => ~Hopped(q) /\ ~Received(q) /\ req'[q] # req[q]
      BY DEF Executed, Hopped, Received, Hops
<1>7. ASSUME req'[q] = req[q] PROVE Hopped(q)
      BY <1>7 DEF Hopped
<1>8. \/ Hopped(q) \/ Received(q)
      \/ \E r \in Requests : ExecuteTool(r) /\ IF q = r THEN Executed(q) ELSE Hopped(q)
      BY <1>1, <1>2, <1>3, <1>4, <1>5, <1>7 DEF Next
<1> QED
    BY <1>6, <1>8

\* A tool takes effect when a handler executes it.
LEMMA OnlyExecutionsRun ==
    ASSUME [Next]_vars, \A r \in Requests : ~ExecuteTool(r)
    PROVE  UNCHANGED runs
<1>1. ASSUME NEW r \in Requests, Receive(r) \/ Step(r) PROVE UNCHANGED runs
      BY <1>1 DEF Receive, ReceiveApprove, ReceiveDeny, FetchPending, Step, MarkApproved,
                  RecordExecuted, LogSuccess, MarkFailed, LogFailed, MarkDenied, LogDenied,
                  UpdateRow, LogEntry
<1> QED
    BY <1>1 DEF Next, create_approval, Crash, vars

LEMMA OutcomeInit == Init => OutcomeInv
  BY TypeInit DEF Init, OutcomeInv, KnowsOutcome, NoRequest

LEMMA OutcomeStep == OutcomeInv /\ [Next]_vars => OutcomeInv'
<1> SUFFICES ASSUME OutcomeInv, [Next]_vars PROVE OutcomeInv'
    OBVIOUS
<1>1. TypeInv /\ TypeInv'
      BY TypeStep DEF OutcomeInv
<1>2. ASSUME NEW q \in Requests PROVE KnowsOutcome(q)'
  <2>1. KnowsOutcome(q) /\ (Hopped(q) \/ Received(q) \/ Executed(q))
        BY <1>1, HandlerMoves DEF OutcomeInv
  <2>2. CASE Hopped(q)
        BY <2>1, <2>2 DEF Hopped, SameCall, KnowsOutcome, Hops
  <2>3. CASE Received(q)
        BY <2>3 DEF Received, KnowsOutcome
  <2>4. CASE Executed(q)
        BY <2>1, <2>4, ApprovalAssumption DEF Executed, KnowsOutcome
  <2> QED
      BY <2>1, <2>2, <2>3, <2>4
<1> QED
    BY <1>1, <1>2 DEF OutcomeInv

\* The calls that ran the tool of a row, each once.
Ran(a) == {r \in Requests : /\ req[r].id = a
                            /\ req[r].op = "approve"
                            /\ req[r].outcome # None}

CostInv ==
    /\ OutcomeInv
    /\ \A a \in Approvals : IsFiniteSet(Ran(a)) /\ runs[a] <= Cardinality(Ran(a))

\* An execution puts its call among those that ran the tool; nothing else adds
\* to them, and nothing takes one away.
LEMMA RanGrows ==
    ASSUME OutcomeInv, [Next]_vars, NEW a \in Approvals
    PROVE  \/ Ran(a)' = Ran(a) /\ runs'[a] = runs[a]
           \/ \E r \in Requests : /\ r \notin Ran(a) /\ Ran(a)' = Ran(a) \cup {r}
                                  /\ runs'[a] \in {runs[a], runs[a] + 1}
<1>0. TypeInv /\ TypeOK
      BY DEF OutcomeInv, TypeInv
<1>1. ASSUME NEW q \in Requests
      PROVE  /\ ~Executed(q) => (q \in Ran(a)' <=> q \in Ran(a))
             /\ Executed(q) => /\ q \notin Ran(a)
                               /\ q \in Ran(a)' <=> req[q].id = a
                               /\ ExecuteTool(q)
  <2>1. /\ KnowsOutcome(q)
        /\ Hopped(q) \/ Received(q) \/ Executed(q)
        /\ Executed(q) => ExecuteTool(q)
        BY <1>0, HandlerMoves DEF OutcomeInv
  <2>2. Hopped(q) \/ Received(q) => (q \in Ran(a)' <=> q \in Ran(a))
        BY <2>1 DEF Hopped, SameCall, Received, Ran, KnowsOutcome
  <2>3. Executed(q) => q \notin Ran(a) /\ (q \in Ran(a)' <=> req[q].id = a)
        BY <2>1, ApprovalAssumption DEF Executed, Ran, KnowsOutcome
  <2> QED
      BY <2>1, <2>2, <2>3
<1>2. Ran(a) \subseteq Requests /\ Ran(a)' \subseteq Requests
      BY DEF Ran
<1>3. ASSUME NEW r \in Requests, ExecuteTool(r)
      PROVE  /\ runs'[a] \in {runs[a], runs[a] + 1}
             /\ req[r].id # a => runs'[a] = runs[a]
             /\ Executed(r)
             /\ \A q \in Requests : Executed(q) => q = r
  <2>1. req[r] \in RequestStates
        BY <1>0 DEF TypeOK
  <2> QED
      BY <1>0, <1>3, <2>1 DEF ExecuteTool, Executed, TypeOK, RequestStates
<1>4. CASE \E r \in Requests : ExecuteTool(r)
  <2>1. PICK r \in Requests : ExecuteTool(r)
        BY <1>4
  <2>2. CASE req[r].id = a
    <3>1. r \notin Ran(a) /\ \A q \in Requests : q \in Ran(a)' <=> q \in Ran(a) \/ q = r
          BY <1>1, <1>3, <2>1, <2>2
    <3>2. Ran(a)' = Ran(a) \cup {r}
          BY <1>2, <3>1
    <3> QED
        BY <1>3, <2>1, <3>1, <3>2
  <2>3. CASE req[r].id # a
    <3>1. \A q \in Requests : q \in Ran(a)' <=> q \in Ran(a)
          BY <1>1, <1>3, <2>1, <2>3
    <3> QED
        BY <1>2, <1>3, <2>1, <2>3, <3>1
  <2> QED
      BY <2>2, <2>3
<1>5. CASE ~\E r \in Requests : ExecuteTool(r)
  <2>1. \A q \in Requests : q \in Ran(a)' <=> q \in Ran(a)
        BY <1>1, <1>5
  <2>2. UNCHANGED runs
        BY <1>5, OnlyExecutionsRun
  <2> QED
      BY <1>2, <2>1, <2>2
<1> QED
    BY <1>4, <1>5

LEMMA CostInit == Init => CostInv
<1> SUFFICES ASSUME Init PROVE CostInv
    OBVIOUS
<1>1. ASSUME NEW a \in Approvals PROVE IsFiniteSet(Ran(a)) /\ runs[a] <= Cardinality(Ran(a))
  <2>1. Ran(a) = {} /\ runs[a] = 0
        BY DEF Init, Ran, NoRequest
  <2> QED
      BY <2>1, FS_EmptySet
<1> QED
    BY <1>1, OutcomeInit DEF CostInv

LEMMA CostStep == CostInv /\ [Next]_vars => CostInv'
<1> SUFFICES ASSUME CostInv, [Next]_vars PROVE CostInv'
    OBVIOUS
<1>1. OutcomeInv /\ OutcomeInv'
      BY OutcomeStep DEF CostInv
<1>2. ASSUME NEW a \in Approvals
      PROVE  (IsFiniteSet(Ran(a)) /\ runs[a] <= Cardinality(Ran(a)))'
  <2>1. /\ IsFiniteSet(Ran(a)) /\ runs[a] <= Cardinality(Ran(a))
        /\ runs[a] \in Nat /\ Cardinality(Ran(a)) \in Nat
        BY <1>1, FS_CardinalityType DEF CostInv, OutcomeInv, TypeInv, TypeOK
  <2>2. CASE Ran(a)' = Ran(a) /\ runs'[a] = runs[a]
        BY <2>1, <2>2
  <2>3. ASSUME NEW r \in Requests,
               r \notin Ran(a), Ran(a)' = Ran(a) \cup {r},
               runs'[a] \in {runs[a], runs[a] + 1}
        PROVE  (IsFiniteSet(Ran(a)) /\ runs[a] <= Cardinality(Ran(a)))'
    <3>1. /\ IsFiniteSet(Ran(a) \cup {r})
          /\ Cardinality(Ran(a) \cup {r}) = Cardinality(Ran(a)) + 1
          BY <2>1, <2>3, FS_AddElement, Zenon
    <3> QED
        BY <2>1, <2>3, <3>1
  <2> QED
      BY <1>1, <2>2, <2>3, RanGrows
<1> QED
    BY <1>1, <1>2 DEF CostInv

(***************************************************************************)
(* However calls overlap and fail, each time a tool takes effect is owed   *)
(* to an approve call of its own.                                          *)
(***************************************************************************)
THEOREM RunsHaveCalls == Spec => []EachRunHasACall
<1>1. CostInv => EachRunHasACall
      BY DEF CostInv, EachRunHasACall, Ran
<1> QED
    BY <1>1, CostInit, CostStep, PTL DEF Spec

\* In particular a row whose tool took effect was approved by a call that ran it.
LEMMA RunIsApproved ==
    ASSUME CostInv, NEW a \in Approvals, runs[a] > 0
    PROVE  \E r \in Requests : req[r].op = "approve" /\ req[r].id = a /\ req[r].outcome # None
<1>1. Cardinality({}) = 0
      BY FS_EmptySet
<1>2. runs[a] \in Nat /\ runs[a] <= Cardinality(Ran(a))
      BY DEF CostInv, OutcomeInv, TypeInv, TypeOK
<1>3. Ran(a) # {}
      BY <1>1, <1>2
<1> QED
    BY <1>3 DEF Ran

-----------------------------------------------------------------------------
(* No call lets go of an approved row *)

HeldBy(r, a) == req[r].id = a /\ req[r].pc \in {"execute", "record", "mark_failed"}

Excused(a) == \/ crashes > 0 \/ dbFaults > 1
              \/ dbFaults > 0 /\ \E r \in Requests : req[r].id = a /\ req[r].outcome = "raised"

(***************************************************************************)
(* The write that lets go of a row is the one of mark_failed: it may raise *)
(* after a tool that raised, or after an error that led there.             *)
(***************************************************************************)
HandInv ==
    /\ OutcomeInv /\ AuditInv
    /\ \A a \in Approvals : approvals[a].status = "approved" =>
           Excused(a) \/ \E r \in Requests : HeldBy(r, a)

\* What excuses a row is not taken back.
LEMMA ExcusesStay ==
    ASSUME OutcomeInv, TypeOK', [Next]_vars, NEW a \in Approvals, Excused(a)
    PROVE  Excused(a)'
<1>1. TypeInv /\ TypeOK
      BY DEF OutcomeInv, TypeInv
<1>2. crashes' >= crashes /\ dbFaults' >= dbFaults
  <2> USE <1>1, ApprovalAssumption DEF TypeOK, DbRaises
  <2>1. ASSUME NEW r \in Requests, Receive(r)
        PROVE  UNCHANGED crashes /\ dbFaults' >= dbFaults
        BY <2>1 DEF Receive, ReceiveApprove, ReceiveDeny, FetchPending
  <2>2. ASSUME NEW r \in Requests, Step(r)
        PROVE  UNCHANGED crashes /\ dbFaults' >= dbFaults
    <3>1. CASE ExecuteTool(r)
          BY <3>1 DEF ExecuteTool
    <3>2. CASE MarkApproved(r) \/ RecordExecuted(r) \/ MarkFailed(r) \/ MarkDenied(r)
          BY <3>2 DEF MarkApproved, RecordExecuted, MarkFailed, MarkDenied, UpdateRow
    <3>3. CASE LogSuccess(r) \/ LogFailed(r) \/ LogDenied(r)
          BY <3>3 DEF LogSuccess, LogFailed, LogDenied, LogEntry
    <3> QED
        BY <2>2, <3>1, <3>2, <3>3 DEF Step
  <2>3. ASSUME NEW b \in Approvals, create_approval(b) PROVE UNCHANGED <<crashes, dbFaults>>
        BY <2>3 DEF create_approval
  <2>4. ASSUME Crash PROVE UNCHANGED dbFaults /\ crashes' >= crashes
        BY <2>4 DEF Crash
  <2> QED
      BY <2>1, <2>2, <2>3, <2>4 DEF Next, vars
<1>3. /\ crashes \in Nat /\ crashes' \in Nat /\ dbFaults \in Nat /\ dbFaults' \in Nat
      BY <1>1, ApprovalAssumption DEF TypeOK
<1>4. CASE crashes > 0 \/ dbFaults > 1
  <2>1. crashes' > 0 \/ dbFaults' > 1
        BY <1>2, <1>3, <1>4
  <2> QED
      BY <2>1 DEF Excused
<1>5. CASE dbFaults > 0 /\ \E r \in Requests : req[r].id = a /\ req[r].outcome = "raised"
  <2>1. PICK r \in Requests : req[r].id = a /\ req[r].outcome = "raised"
        BY <1>5
  <2>2. KnowsOutcome(r) /\ (Hopped(r) \/ Received(r) \/ Executed(r))
        BY <1>1, HandlerMoves DEF OutcomeInv
  <2>3. req'[r].id = a /\ req'[r].outcome = "raised"
        BY <2>1, <2>2, ApprovalAssumption
           DEF Hopped, SameCall, Received, Executed, KnowsOutcome
  <2>4. dbFaults' > 0
        BY <1>2, <1>3, <1>5
  <2> QED
      BY <2>3, <2>4 DEF Excused
<1> QED
    BY <1>4, <1>5 DEF Excused

\* A call that lets go of a row has written to it, or is excused.
LEMMA HoldersHold ==
    ASSUME HandInv, AuditInv', [Next]_vars, NEW a \in Approvals, NEW q \in Requests,
           HeldBy(q, a), approvals'[a] = approvals[a], approvals[a].status = "approved"
    PROVE  HeldBy(q, a)' \/ Excused(a)'
<1>1. /\ TypeInv /\ TypeOK /\ TypeOK' /\ KnowsOutcome(q) /\ AuditedSoFar(q)
      /\ req[q] \in RequestStates /\ crashes \in Nat /\ dbFaults \in Nat /\ dbFaults' \in Nat
      BY ApprovalAssumption DEF HandInv, OutcomeInv, AuditInv, TypeInv, TypeOK
<1>2. ASSUME Step(q) PROVE HeldBy(q, a)' \/ Excused(a)'
  <2>0. req[q].pc \in {"execute", "record", "mark_failed"} /\ req[q].id = a
        BY DEF HeldBy
  <2>1. CASE req[q].pc = "execute"
    <3>1. ExecuteTool(q)
          BY <1>2, <2>1 DEF Step, MarkApproved, RecordExecuted, LogSuccess, MarkFailed,
                            LogFailed, MarkDenied, LogDenied, UpdateRow, LogEntry
    <3> QED
        BY <1>1, <2>0, <3>1 DEF ExecuteTool, HeldBy, TypeOK, RequestStates
  <2>2. CASE req[q].pc = "record"
    <3>1. RecordExecuted(q)
          BY <1>2, <2>2 DEF Step, MarkApproved, ExecuteTool, LogSuccess, MarkFailed,
                            LogFailed, MarkDenied, LogDenied, UpdateRow, LogEntry
    <3>2. ~update_approval(req[q].id, "executed", None, "output")
          BY <1>1, <2>0 DEF update_approval, TypeOK
    <3>3. Continue(q, "mark_failed")
          BY <3>1, <3>2 DEF RecordExecuted, UpdateRow
    <3> QED
        BY <1>1, <2>0, <3>3 DEF Continue, HeldBy, TypeOK, RequestStates
  <2>3. CASE req[q].pc = "mark_failed"
    <3>1. MarkFailed(q)
          BY <1>2, <2>3 DEF Step, MarkApproved, ExecuteTool, LogSuccess, RecordExecuted,
                            LogFailed, MarkDenied, LogDenied, UpdateRow, LogEntry
    <3>2. ~update_approval(req[q].id, "failed", None, "error")
          BY <1>1, <2>0 DEF update_approval, TypeOK
    <3>3. Continue(q, "error") /\ dbFaults' = dbFaults + 1
          BY <3>1, <3>2 DEF MarkFailed, UpdateRow, DbRaises
    <3>4. req'[q].id = a /\ req'[q].outcome = req[q].outcome
          BY <1>1, <2>0, <3>3 DEF Continue, TypeOK, RequestStates
    <3>5. CASE req[q].outcome = "raised"
          BY <1>1, <3>3, <3>4, <3>5 DEF Excused
    <3>6. CASE req[q].outcome = "returned"
      <4>1. dbFaults >= 1
            BY <1>1, <2>3, <3>6 DEF AuditedSoFar
      <4> QED
          BY <1>1, <3>3, <4>1 DEF Excused
    <3> QED
        BY <1>1, <2>3, <3>5, <3>6 DEF KnowsOutcome, RequestStates
  <2> QED
      BY <2>0, <2>1, <2>2, <2>3
<1>3. ASSUME req'[q] = req[q] PROVE HeldBy(q, a)'
      BY <1>3 DEF HeldBy
<1>4. ASSUME NEW b \in Approvals, create_approval(b) PROVE req'[q] = req[q]
      BY <1>4 DEF create_approval
<1>5. ASSUME NEW r \in Requests, Receive(r) PROVE req'[q] = req[q]
  <2>1. r # q
        BY <1>5 DEF Receive, ReceiveApprove, ReceiveDeny, FetchPending, HeldBy
  <2> QED
      BY <1>1, <1>5, <2>1 DEF Receive, ReceiveApprove, ReceiveDeny, FetchPending, TypeOK
<1>6. ASSUME NEW r \in Requests, Step(r), r # q PROVE req'[q] = req[q]
  <2>1. ASSUME NEW to, Continue(r, to) PROVE req'[q] = req[q]
        BY <1>1, <1>6, <2>1 DEF Continue, TypeOK
  <2>2. CASE ExecuteTool(r)
        BY <1>1, <1>6, <2>2 DEF ExecuteTool, TypeOK
  <2> QED
      BY <1>6, <2>1, <2>2 DEF Step, MarkApproved, RecordExecuted, LogSuccess, MarkFailed,
                              LogFailed, MarkDenied, LogDenied, UpdateRow, LogEntry
<1>7. ASSUME Crash PROVE Excused(a)'
      BY <1>1, <1>7 DEF Crash, Excused
<1> QED
    BY <1>2, <1>3, <1>4, <1>5, <1>6, <1>7 DEF Next, vars

\* Who approves a row has it in hand.
LEMMA ApproversHold ==
    ASSUME TypeInv, [Next]_vars, NEW a \in Approvals,
           approvals'[a] # approvals[a], approvals'[a].status = "approved"
    PROVE  \E r \in Requests : HeldBy(r, a)'
<1>0. TypeOK
      BY DEF TypeInv
<1>1. PICK r \in Requests : Step(r)
  <2>1. ASSUME NEW b \in Approvals, create_approval(b) PROVE FALSE
        BY <1>0, <2>1 DEF create_approval, TypeOK
  <2>2. ASSUME NEW q \in Requests, Receive(q) PROVE FALSE
        BY <2>2 DEF Receive, ReceiveApprove, ReceiveDeny, FetchPending
  <2> QED
      BY <2>1, <2>2 DEF Next, Crash, vars
<1>2. ASSUME NEW step, NEW s, NEW u, NEW x, NEW next, NEW raised,
             UpdateRow(r, step, s, u, x, next, raised)
      PROVE  s = "approved" /\ req[r].pc = step /\ req[r].id = a /\ Continue(r, next)
      BY <1>0, <1>2 DEF UpdateRow, update_approval, TypeOK
<1>3. ~ExecuteTool(r) /\ ~LogSuccess(r) /\ ~LogFailed(r) /\ ~LogDenied(r)
      BY DEF ExecuteTool, LogSuccess, LogFailed, LogDenied, LogEntry
<1>4. ~RecordExecuted(r) /\ ~MarkFailed(r) /\ ~MarkDenied(r)
      BY <1>2 DEF RecordExecuted, MarkFailed, MarkDenied
<1>5. MarkApproved(r)
      BY <1>1, <1>3, <1>4 DEF Step
<1>6. req[r].id = a /\ Continue(r, "execute")
      BY <1>2, <1>5 DEF MarkApproved
<1>7. HeldBy(r, a)'
      BY <1>0, <1>6 DEF Continue, HeldBy, TypeOK, RequestStates
<1> QED
    BY <1>7

(***************************************************************************)
(* However calls overlap, a row is approved only as long as a call has yet *)
(* to run its tool or to write what came of it, unless the process died or *)
(* the writing itself failed.                                              *)
(***************************************************************************)
THEOREM ApprovedRowsHeld == Spec => []ApprovedRowsAreInHand
<1>1. Init => HandInv
  <2>1. Init => AuditInv
        BY TypeInit, ApprovalAssumption DEF Init, AuditInv, AuditedSoFar, NoRequest
  <2> QED
      BY <2>1, OutcomeInit DEF Init, HandInv
<1>2. HandInv /\ [Next]_vars => HandInv'
  <2> SUFFICES ASSUME HandInv, [Next]_vars PROVE HandInv'
      OBVIOUS
  <2>1. OutcomeInv /\ OutcomeInv' /\ AuditInv /\ AuditInv' /\ TypeInv /\ TypeOK'
        BY OutcomeStep, AuditStep DEF HandInv, OutcomeInv, TypeInv
  <2>2. ASSUME NEW a \in Approvals, approvals'[a].status = "approved"
        PROVE  Excused(a)' \/ \E r \in Requests : HeldBy(r, a)'
    <3>1. CASE approvals'[a] # approvals[a]
          BY <2>1, <2>2, <3>1, ApproversHold
    <3>2. CASE approvals'[a] = approvals[a]
      <4>1. Excused(a) \/ \E r \in Requests : HeldBy(r, a)
            BY <2>2, <3>2 DEF HandInv
      <4>2. CASE Excused(a)
            BY <2>1, <4>2, ExcusesStay
      <4>3. ASSUME NEW q \in Requests, HeldBy(q, a)
            PROVE  HeldBy(q, a)' \/ Excused(a)'
            BY <2>1, <2>2, <3>2, <4>3, HoldersHold
      <4> QED
          BY <4>1, <4>2, <4>3
    <3> QED
        BY <3>1, <3>2
  <2> QED
      BY <2>1, <2>2 DEF HandInv
<1>3. HandInv => ApprovedRowsAreInHand
      BY DEF HandInv, ApprovedRowsAreInHand, Excused, HeldBy
<1> QED
    BY <1>1, <1>2, <1>3, PTL DEF Spec

-----------------------------------------------------------------------------
(* Handlers and log speak of rows that are in the table *)

QueuedInv ==
    /\ TypeInv
    /\ \A r \in Requests : Busy(r) => approvals[req[r].id].status # "absent"
    /\ \A e \in audit : approvals[e.id].status # "absent"

\* A handler comes by its row when it finds it pending, and keeps to it.
LEMMA KeepsToRow ==
    ASSUME TypeInv, [Next]_vars, NEW q \in Requests, Busy(q)'
    PROVE  \/ Busy(q) /\ req'[q].id = req[q].id
           \/ req'[q].id \in Approvals /\ approvals[req'[q].id].status = "pending"
<1> USE DEF TypeInv, TypeOK
<1>0. req[q] \in RequestStates
      OBVIOUS
<1>1. CASE req'[q] = req[q]
      BY <1>1 DEF Busy
<1>2. ASSUME NEW r \in Requests, Receive(r), req'[q] # req[q]
      PROVE  req'[q].id \in Approvals /\ approvals[req'[q].id].status = "pending"
  <2>1. PICK a \in Approvals, u \in Admins : ReceiveApprove(r, a, u) \/ ReceiveDeny(r, a, u)
        BY <1>2 DEF Receive
  <2>2. q = r
        BY <1>2, <2>1 DEF ReceiveApprove, ReceiveDeny, FetchPending
  <2> QED
      BY <2>1, <2>2 DEF ReceiveApprove, ReceiveDeny, FetchPending, get_approvals, Busy
<1>3. ASSUME NEW r \in Requests, Step(r), req'[q] # req[q]
      PROVE  Busy(q) /\ req'[q].id = req[q].id
  <2>1. Busy(r)
        BY <1>3 DEF Step, MarkApproved, ExecuteTool, RecordExecuted, LogSuccess, MarkFailed,
                    LogFailed, MarkDenied, LogDenied, UpdateRow, LogEntry, Busy
  <2>2. ASSUME NEW to, Continue(r, to) PROVE q = r /\ req'[q].id = req[q].id
        BY <1>0, <1>3, <2>2 DEF Continue, RequestStates
  <2>3. CASE ExecuteTool(r)
        BY <1>0, <1>3, <2>1, <2>3 DEF ExecuteTool, RequestStates
  <2>4. CASE ~ExecuteTool(r)
    <3>1. \E to : Continue(r, to)
          BY <1>3, <2>4 DEF Step, MarkApproved, RecordExecuted, LogSuccess, MarkFailed,
                            LogFailed, MarkDenied, LogDenied, UpdateRow, LogEntry
    <3> QED
        BY <2>1, <2>2, <3>1
  <2> QED
      BY <2>3, <2>4
<1>4. ASSUME Crash PROVE req'[q] = req[q]
      BY <1>0, <1>4 DEF Crash, Busy
<1> QED
    BY <1>1, <1>2, <1>3, <1>4 DEF Next, create_approval, vars

\* A row comes into the table when it is queued, and by no other step.
LEMMA OnlyQueuingAdds ==
    ASSUME QueuedInv, NEW a \in Approvals,
           UNCHANGED vars \/ Crash \/ \E r \in Requests : Receive(r) \/ Step(r)
    PROVE  approvals'[a].status = "absent" <=> approvals[a].status = "absent"
<1>1. TypeInv /\ TypeOK
      BY DEF QueuedInv, TypeInv
<1>2. approvals'[a].status = "absent" => approvals[a].status = "absent"
      BY <1>1, RowChanges DEF Next
<1>3. ASSUME NEW r \in Requests, Step(r), approvals[a].status = "absent"
      PROVE  approvals'[a] = approvals[a]
  <2>1. Busy(r)
        BY <1>3 DEF Step, MarkApproved, ExecuteTool, RecordExecuted, LogSuccess, MarkFailed,
                    LogFailed, MarkDenied, LogDenied, UpdateRow, LogEntry, Busy
  <2>2. req[r].id # a
        BY <1>3, <2>1 DEF QueuedInv
  <2>3. ASSUME NEW s, NEW u, NEW x, update_approval(req[r].id, s, u, x)
        PROVE  approvals'[a] = approvals[a]
        BY <1>1, <2>2, <2>3 DEF update_approval, TypeOK
  <2> QED
      BY <1>3, <2>3 DEF Step, MarkApproved, ExecuteTool, RecordExecuted, LogSuccess,
                        MarkFailed, LogFailed, MarkDenied, LogDenied, UpdateRow, LogEntry
<1>4. ASSUME NEW r \in Requests, Receive(r) PROVE UNCHANGED approvals
      BY <1>4 DEF Receive, ReceiveApprove, ReceiveDeny, FetchPending
<1> QED
    BY <1>2, <1>3, <1>4 DEF Crash, vars

LEMMA QueuedInit == Init => QueuedInv
  BY TypeInit DEF Init, QueuedInv, NoRequest, Busy

LEMMA QueuedStep == QueuedInv /\ [Next]_vars => QueuedInv'
<1> SUFFICES ASSUME QueuedInv, [Next]_vars PROVE QueuedInv'
    OBVIOUS
<1>1. TypeInv /\ TypeInv' /\ TypeOK /\ TypeOK'
      BY TypeStep DEF QueuedInv, TypeInv
<1>2. ASSUME NEW a \in Approvals, approvals[a].status # "absent"
      PROVE  approvals'[a].status # "absent"
      BY <1>1, <1>2, RowChanges
<1>3. ASSUME NEW q \in Requests, Busy(q)' PROVE approvals'[req'[q].id].status # "absent"
  <2>1. CASE Busy(q) /\ req'[q].id = req[q].id
        BY <1>1, <1>2, <2>1 DEF QueuedInv, TypeInv, BusyKnowsCall
  <2>2. CASE req'[q].id \in Approvals /\ approvals[req'[q].id].status = "pending"
        BY <1>2, <2>2
  <2> QED
      BY <1>1, <1>3, <2>1, <2>2, KeepsToRow
<1>4. ASSUME NEW e \in audit' PROVE approvals'[e.id].status # "absent"
  <2>1. e \in audit \/ \E r \in Requests : Busy(r) /\ e.id = req[r].id
    <3>1. ASSUME NEW r \in Requests, Step(r)
          PROVE  e \in audit \/ (Busy(r) /\ e.id = req[r].id)
          BY <1>4, <3>1 DEF Step, MarkApproved, ExecuteTool, RecordExecuted, LogSuccess,
                            MarkFailed, LogFailed, MarkDenied, LogDenied, UpdateRow,
                            LogEntry, log_activity, Busy
    <3>2. ASSUME NEW r \in Requests, Receive(r) PROVE UNCHANGED audit
          BY <3>2 DEF Receive, ReceiveApprove, ReceiveDeny, FetchPending
    <3> QED
        BY <1>4, <3>1, <3>2 DEF Next, create_approval, Crash, vars
  <2>2. e.id \in Approvals
        BY <1>1, <1>4 DEF TypeOK, Entries
  <2>3. approvals[e.id].status # "absent"
        BY <2>1 DEF QueuedInv
  <2> QED
      BY <1>2, <2>2, <2>3
<1> QED
    BY <1>1, <1>3, <1>4 DEF QueuedInv

-----------------------------------------------------------------------------
(***************************************************************************)
(* What the approval queue guarantees when calls about a row do not        *)
(* overlap (Overlap = FALSE): every row runs at most once, never after a   *)
(* denial, the log agrees with the table, answers stay true, and the       *)
(* handlers implement ApprovalLifecycle; for any number of rows, calls,    *)
(* database errors and crashes.                                            *)
(***************************************************************************)

\* At most one call about a row is under way.
Exclusive ==
    \A r, q \in Requests :
        Busy(r) /\ Busy(q) /\ req[r].id = req[q].id => r = q

(***************************************************************************)
(* The row as its handler left it: what is true of status s and of n runs  *)
(* while the handler rests at a step.  Only with Overlap = FALSE, when     *)
(* nobody else writes the row.                                             *)
(***************************************************************************)
RowAt(step, s, n) ==
    /\ step \in {"approve", "deny"} => s = "pending"
    /\ step = "execute"             => s = "approved" /\ n = 0
    /\ step = "record"              => s = "approved" /\ n = 1
    /\ step = "log_success"         => s = "executed"
    /\ step = "mark_failed"         => s \in {"approved", "executed"}
    /\ step = "log_failed"          => s = "failed"
    /\ step = "log_denied"          => s = "denied"

RowFollowsHandler ==
    \A r \in Requests :
        Busy(r) => RowAt(req[r].pc, approvals[req[r].id].status, runs[req[r].id])

\* A row that was never approved has not run, an executed one ran once.
RunsFitStatus ==
    \A a \in Approvals :
        /\ runs[a] \in {0, 1}
        /\ approvals[a].status \in {"absent", "pending", "denied"} => runs[a] = 0
        /\ approvals[a].status = "executed" => runs[a] = 1

\* Logging is the last thing a handler does.
LoggedRowsAreLeftAlone ==
    \A r \in Requests, e \in audit : Busy(r) => e.id # req[r].id

SerialInv ==
    /\ TypeInv
    /\ Exclusive
    /\ RowFollowsHandler
    /\ RunsFitStatus
    /\ LoggedRowsAreLeftAlone
    /\ LogAgreesWithRows

LEMMA SerialInit == Init => SerialInv
  BY TypeInit
  DEF Init, SerialInv, Exclusive, RowFollowsHandler, RunsFitStatus, NoRequest,
      LoggedRowsAreLeftAlone, LogAgreesWithRows, Busy

(***************************************************************************)
(* A handler's step preserves the invariant if it leaves the other rows    *)
(* alone and keeps its own row as the next step expects it.                *)
(***************************************************************************)
LEMMA OwnRowStep ==
    ASSUME SerialInv, TypeInv',
           NEW r \in Requests, Busy(r),
           \A q \in Requests : /\ req'[q].id = req[q].id
                               /\ q # r => req'[q] = req[q],
           \A b \in Approvals : b # req[r].id =>
               approvals'[b].status = approvals[b].status /\ runs'[b] = runs[b],
           audit' = audit
              \/ \E s \in {"success", "failed", "denied"} :
                    log_activity(r, s) /\ ~Busy(r)'
                    /\ approvals'[req[r].id].status = LoggedState(s),
           Busy(r)' => RowAt(req[r].pc, approvals[req[r].id].status, runs[req[r].id])',
           LET s == approvals'[req[r].id].status
               n == runs'[req[r].id]
           IN  /\ n \in {0, 1}
               /\ s \in {"absent", "pending", "denied"} => n = 0
               /\ s = "executed" => n = 1
    PROVE  SerialInv'
<1>0. /\ req[r].id \in Approvals
      /\ \A q \in Requests : Busy(q) => req[q].id \in Approvals
      /\ \A q \in Requests : q # r /\ Busy(q) => req[q].id # req[r].id
      /\ \A e \in audit : e.id # req[r].id /\ e.id \in Approvals
      BY DEF SerialInv, TypeInv, TypeOK, BusyKnowsCall, Exclusive, Entries,
             LoggedRowsAreLeftAlone
<1>1. \A q \in Requests : Busy(q)' => Busy(q)
      BY DEF Busy
<1>2. Exclusive'
      BY <1>1 DEF SerialInv, Exclusive
<1>3. RowFollowsHandler'
      BY <1>0, <1>1 DEF SerialInv, RowFollowsHandler, Busy
<1>4. RunsFitStatus'
      BY DEF SerialInv, RunsFitStatus
<1>5. LoggedRowsAreLeftAlone'
      BY <1>0, <1>1 DEF SerialInv, LoggedRowsAreLeftAlone, log_activity
<1>6. LogAgreesWithRows'
      BY <1>0 DEF SerialInv, LogAgreesWithRows, log_activity
<1> QED
    BY <1>2, <1>3, <1>4, <1>5, <1>6 DEF SerialInv

LEMMA SerialStep ==
    ASSUME ~Overlap PROVE SerialInv /\ [Next]_vars => SerialInv'
<1> SUFFICES ASSUME SerialInv, [Next]_vars PROVE SerialInv'
    OBVIOUS
<1>t. TypeInv /\ TypeInv' /\ TypeOK /\ TypeOK'
      BY TypeStep DEF SerialInv, TypeInv
<1>1. ASSUME NEW a \in Approvals, create_approval(a) PROVE SerialInv'
  <2>1. /\ approvals'[a].status = "pending" /\ approvals[a].status = "absent"
        /\ \A b \in Approvals : b # a => approvals'[b] = approvals[b]
        /\ UNCHANGED <<req, runs, audit>>
        BY <1>1, <1>t DEF create_approval, TypeOK
  <2>2. \A r \in Requests : Busy(r) => req[r].id \in Approvals /\ req[r].id # a
        BY <2>1, <1>t DEF SerialInv, RowFollowsHandler, RowAt, Busy, TypeInv,
                          TypeOK, BusyKnowsCall, RequestStates
  <2>3. \A e \in audit : e.id \in Approvals /\ e.id # a
        BY <2>1, <1>t DEF SerialInv, LogAgreesWithRows, LoggedState, TypeOK, Entries
  <2> QED
      BY <2>1, <2>2, <2>3, <1>t
      DEF SerialInv, Exclusive, RowFollowsHandler, RunsFitStatus,
          LoggedRowsAreLeftAlone, LogAgreesWithRows, Busy
<1>2. ASSUME NEW r \in Requests, NEW a \in Approvals, NEW u \in Admins,
             ReceiveApprove(r, a, u) \/ ReceiveDeny(r, a, u)
      PROVE  SerialInv'
  <2>0. Overlap \/ \A q \in Requests : Busy(q) => req[q].id # a
        BY <1>2 DEF ReceiveApprove, ReceiveDeny, FetchPending, Admissible
  <2>1. /\ UNCHANGED <<approvals, runs, audit>>
        /\ \A q \in Requests : q # r => req'[q] = req[q]
        /\ Busy(r)' => /\ req'[r].pc \in {"approve", "deny"}
                       /\ req'[r].id = a
                       /\ approvals[a].status = "pending"
        BY <1>2, <1>t DEF ReceiveApprove, ReceiveDeny, FetchPending,
                          get_approvals, Busy, TypeOK, RequestStates
  <2>2. Busy(r)' => \A e \in audit : e.id # a
        BY <2>1, <1>t DEF SerialInv, LogAgreesWithRows, LoggedState, TypeOK, Entries
  <2>3. Exclusive'
        BY <2>0, <2>1 DEF SerialInv, Exclusive, Busy
  <2>4. RowFollowsHandler'
        BY <2>1 DEF SerialInv, RowFollowsHandler, Busy, RowAt
  <2> QED
      BY <2>1, <2>2, <2>3, <2>4, <1>t
      DEF SerialInv, RunsFitStatus, LoggedRowsAreLeftAlone, LogAgreesWithRows, Busy
<1>3. ASSUME NEW r \in Requests, Step(r) PROVE SerialInv'
  <2> SUFFICES ASSUME Busy(r) PROVE SerialInv'
      BY <1>3 DEF Step, MarkApproved, ExecuteTool, RecordExecuted, LogSuccess,
                  MarkFailed, LogFailed, MarkDenied, LogDenied, UpdateRow, LogEntry, Busy
  <2> DEFINE a == req[r].id
  <2>0. /\ a \in Approvals
        /\ req[r] \in RequestStates
        /\ RowAt(req[r].pc, approvals[a].status, runs[a])
        /\ runs[a] \in {0, 1}
        /\ approvals[a].status \in {"absent", "pending", "denied"} => runs[a] = 0
        /\ approvals[a].status = "executed" => runs[a] = 1
        BY <1>t DEF SerialInv, TypeInv, TypeOK, BusyKnowsCall, RowFollowsHandler,
                    RunsFitStatus
  <2>1. CASE MarkApproved(r)
        BY <2>0, <2>1, <1>t, OwnRowStep
        DEF MarkApproved, UpdateRow, update_approval, Continue, RowAt, Busy, TypeOK, RequestStates, LoggedState
  <2>2. CASE ExecuteTool(r)
        BY <2>0, <2>2, <1>t, OwnRowStep
        DEF ExecuteTool, RowAt, Busy, TypeOK, RequestStates, LoggedState
  <2>3. CASE RecordExecuted(r)
        BY <2>0, <2>3, <1>t, OwnRowStep
        DEF RecordExecuted, UpdateRow, update_approval, Continue, RowAt, Busy, TypeOK, RequestStates, LoggedState
  <2>4. CASE LogSuccess(r)
        BY <2>0, <2>4, <1>t, OwnRowStep
        DEF LogSuccess, LogEntry, Continue, RowAt, Busy, TypeOK, RequestStates, LoggedState
  <2>5. CASE MarkFailed(r)
        BY <2>0, <2>5, <1>t, OwnRowStep
        DEF MarkFailed, UpdateRow, update_approval, Continue, RowAt, Busy, TypeOK, RequestStates, LoggedState
  <2>6. CASE LogFailed(r)
        BY <2>0, <2>6, <1>t, OwnRowStep
        DEF LogFailed, LogEntry, Continue, RowAt, Busy, TypeOK, RequestStates, LoggedState
  <2>7. CASE MarkDenied(r)
        BY <2>0, <2>7, <1>t, OwnRowStep
        DEF MarkDenied, UpdateRow, update_approval, Continue, RowAt, Busy, TypeOK, RequestStates, LoggedState
  <2>8. CASE LogDenied(r)
        BY <2>0, <2>8, <1>t, OwnRowStep
        DEF LogDenied, LogEntry, Continue, RowAt, Busy, TypeOK, RequestStates, LoggedState
  <2> QED
      BY <1>3, <2>1, <2>2, <2>3, <2>4, <2>5, <2>6, <2>7, <2>8 DEF Step
<1>4. CASE Crash
      BY <1>4, <1>t DEF Crash, SerialInv, Exclusive, RowFollowsHandler, RunsFitStatus,
                        LoggedRowsAreLeftAlone, LogAgreesWithRows, Busy, TypeOK, RequestStates
<1>5. CASE UNCHANGED vars
      BY <1>5, <1>t DEF vars, SerialInv, Exclusive, RowFollowsHandler, RunsFitStatus,
                        LoggedRowsAreLeftAlone, LogAgreesWithRows, Busy
<1> QED
    BY <1>1, <1>2, <1>3, <1>4, <1>5 DEF Next, Receive

LEMMA SerialInvariant == ASSUME ~Overlap PROVE Spec => []SerialInv
<1>1. SerialInv /\ [Next]_vars => SerialInv'
      BY SerialStep
<1> QED
    BY <1>1, SerialInit, PTL DEF Spec

(***************************************************************************)
(* If calls about a row do not overlap, its tool takes effect at most      *)
(* once, through retries, database errors and restarts.                    *)
(***************************************************************************)
THEOREM SerialRunsAtMostOnce == ASSUME ~Overlap PROVE Spec => []RunsAtMostOnce
<1>1. ASSUME SerialInv PROVE RunsAtMostOnce
  <2> SUFFICES ASSUME NEW a \in Approvals PROVE runs[a] <= 1
      BY DEF RunsAtMostOnce
  <2>1. runs[a] = 0 \/ runs[a] = 1
        BY <1>1 DEF SerialInv, RunsFitStatus
  <2> QED
      BY <2>1
<1> QED
    BY <1>1, SerialInvariant, PTL

(***************************************************************************)
(* If calls about a row do not overlap, a denied call never runs.          *)
(***************************************************************************)
THEOREM SerialDeniedNeverRuns == ASSUME ~Overlap PROVE Spec => []DeniedNeverRuns
<1>1. SerialInv => DeniedNeverRuns
      BY DEF SerialInv, RunsFitStatus, DeniedNeverRuns
<1> QED
    BY <1>1, SerialInvariant, PTL

(***************************************************************************)
(* If calls about a row do not overlap, the activity log and the table     *)
(* agree on every row the log mentions.                                    *)
(***************************************************************************)
THEOREM SerialLogAgreesWithRows == ASSUME ~Overlap PROVE Spec => []LogAgreesWithRows
<1>1. SerialInv => LogAgreesWithRows
      BY DEF SerialInv
<1> QED
    BY <1>1, SerialInvariant, PTL

-----------------------------------------------------------------------------
(* What administrators were told *)

\* A handler past its first update finds its administrator on the row.
HandlerSigned(r) ==
    Busy(r) =>
        /\ req[r].op = IF req[r].pc \in ApproveSteps THEN "approve" ELSE "deny"
        /\ req[r].pc \notin {"approve", "deny"} =>
               approvals[req[r].id].reviewed_by = req[r].user
        /\ req[r].pc = "log_success" => approvals[req[r].id].result = "output"

Told(r) == req[r].answer \in {"ok", "execution_failed"}

\* The row is as the answer to r says.
RowMatchesAnswer(r, row) ==
    /\ row.reviewed_by = req[r].user
    /\ row.status = IF req[r].answer = "execution_failed" THEN "failed"
                    ELSE IF req[r].op = "deny" THEN "denied" ELSE "executed"
    /\ row.status = "executed" => row.result = "output"

\* Nobody works on a row whose administrator has been answered.
AnswerHolds(r) ==
    Told(r) =>
        /\ ~Busy(r)
        /\ req[r].id \in Approvals
        /\ \A q \in Requests : Busy(q) => req[q].id # req[r].id
        /\ RowMatchesAnswer(r, approvals[req[r].id])

AnswersInv == SerialInv /\ \A r \in Requests : HandlerSigned(r) /\ AnswerHolds(r)

\* A step of one handler leaves the answers to the others as they are.
LEMMA OwnAnswerStep ==
    ASSUME AnswersInv, SerialInv', NEW r \in Requests, Busy(r),
           \A q \in Requests : q # r => req'[q] = req[q],
           req'[r].id = req[r].id,
           \A b \in Approvals : b # req[r].id => approvals'[b] = approvals[b],
           HandlerSigned(r)',
           Told(r)' => ~Busy(r)' /\ RowMatchesAnswer(r, approvals[req[r].id])'
    PROVE  AnswersInv'
<1>t. TypeInv /\ TypeInv'
      BY DEF AnswersInv, SerialInv
<1>0. /\ req[r].id \in Approvals
      /\ \A q \in Requests : q # r /\ Busy(q) =>
             req[q].id \in Approvals /\ req[q].id # req[r].id
      /\ \A q \in Requests : q # r /\ Told(q) => req[q].id # req[r].id
      BY <1>t DEF AnswersInv, SerialInv, TypeInv, BusyKnowsCall, Exclusive, AnswerHolds
<1>1. \A q \in Requests : Busy(q)' => Busy(q) /\ req'[q].id = req[q].id
      BY DEF Busy
<1>2. ASSUME NEW q \in Requests PROVE HandlerSigned(q)'
  <2>1. CASE q # r
        BY <1>0, <2>1 DEF AnswersInv, HandlerSigned, Busy
  <2> QED
      BY <2>1
<1>3. ASSUME NEW q \in Requests PROVE AnswerHolds(q)'
  <2>1. CASE q # r
    <3>1. Told(q)' => Told(q) /\ ~Busy(q)' /\ req[q].id \in Approvals
          BY <2>1 DEF AnswersInv, AnswerHolds, Told, Busy
    <3>2. Told(q)' => RowMatchesAnswer(q, approvals[req[q].id])'
          BY <1>0, <2>1, <3>1 DEF AnswersInv, AnswerHolds, RowMatchesAnswer
    <3> QED
        BY <1>1, <2>1, <3>1, <3>2 DEF AnswersInv, AnswerHolds
  <2>2. CASE q = r
        BY <1>0, <1>1, <2>2 DEF AnswerHolds
  <2> QED
      BY <2>1, <2>2
<1> QED
    BY <1>2, <1>3 DEF AnswersInv

LEMMA AnswersStep ==
    ASSUME ~Overlap PROVE AnswersInv /\ [Next]_vars => AnswersInv'
<1> SUFFICES ASSUME AnswersInv, [Next]_vars PROVE AnswersInv'
    OBVIOUS
<1> USE ApprovalAssumption
<1>t. SerialInv /\ SerialInv' /\ TypeInv /\ TypeOK /\ TypeOK'
      BY SerialStep DEF AnswersInv, SerialInv, TypeInv
<1>1. ASSUME NEW a \in Approvals, create_approval(a) PROVE AnswersInv'
  <2>1. /\ approvals[a].status = "absent"
        /\ \A b \in Approvals : b # a => approvals'[b] = approvals[b]
        /\ UNCHANGED req
        BY <1>1, <1>t DEF create_approval, TypeOK
  <2>2. \A r \in Requests : Busy(r) => req[r].id \in Approvals /\ req[r].id # a
        BY <2>1, <1>t DEF SerialInv, RowFollowsHandler, RowAt, Busy, TypeInv,
                          TypeOK, BusyKnowsCall, RequestStates
  <2>3. \A r \in Requests : Told(r) => req[r].id \in Approvals /\ req[r].id # a
        BY <2>1 DEF AnswersInv, AnswerHolds, RowMatchesAnswer
  <2>4. ASSUME NEW r \in Requests PROVE HandlerSigned(r)'
        BY <2>1, <2>2 DEF AnswersInv, HandlerSigned, Busy
  <2>5. ASSUME NEW r \in Requests PROVE AnswerHolds(r)'
        BY <2>1, <2>3 DEF AnswersInv, AnswerHolds, RowMatchesAnswer, Told, Busy
  <2> QED
      BY <2>4, <2>5, <1>t DEF AnswersInv
<1>2. ASSUME NEW r \in Requests, NEW a \in Approvals, NEW u \in Admins,
             ReceiveApprove(r, a, u) \/ ReceiveDeny(r, a, u)
      PROVE  AnswersInv'
  <2>1. /\ UNCHANGED approvals
        /\ \A q \in Requests : q # r => req'[q] = req[q]
        /\ ~Told(r)'
        /\ Busy(r)' => /\ \/ req'[r].pc = "approve" /\ req'[r].op = "approve"
                          \/ req'[r].pc = "deny" /\ req'[r].op = "deny"
                       /\ req'[r].id = a
                       /\ approvals[a].status = "pending"
        BY <1>2, <1>t DEF ReceiveApprove, ReceiveDeny, FetchPending, Told,
                          get_approvals, Busy, TypeOK, RequestStates
  <2>2. HandlerSigned(r)'
        BY <2>1 DEF HandlerSigned
  <2>3. ASSUME NEW q \in Requests, q # r PROVE HandlerSigned(q)'
        BY <2>1, <2>3 DEF AnswersInv, HandlerSigned, Busy
  <2>4. ASSUME NEW q \in Requests, Told(q)' PROVE AnswerHolds(q)'
    <3>1. q # r /\ req'[q] = req[q] /\ Told(q)
          BY <2>1, <2>4 DEF Told
    <3>2. RowMatchesAnswer(q, approvals[req[q].id]) /\ ~Busy(q) /\ req[q].id \in Approvals
          BY <3>1 DEF AnswersInv, AnswerHolds
    <3>3. Busy(r)' => req'[r].id # req[q].id
          BY <2>1, <3>2 DEF RowMatchesAnswer
    <3>4. \A o \in Requests : Busy(o)' => req'[o].id # req[q].id
          BY <2>1, <3>1, <3>3 DEF AnswersInv, AnswerHolds, Busy
    <3> QED
        BY <2>1, <3>1, <3>2, <3>4 DEF AnswerHolds, RowMatchesAnswer, Busy
  <2> QED
      BY <2>2, <2>3, <2>4, <1>t DEF AnswersInv, AnswerHolds
<1>3. ASSUME NEW r \in Requests, Step(r) PROVE AnswersInv'
  <2> SUFFICES ASSUME Busy(r) PROVE AnswersInv'
      BY <1>3 DEF Step, MarkApproved, ExecuteTool, RecordExecuted, LogSuccess,
                  MarkFailed, LogFailed, MarkDenied, LogDenied, UpdateRow, LogEntry, Busy
  <2> DEFINE a == req[r].id
  <2>0. /\ a \in Approvals /\ req[r].user \in Admins
        /\ req[r] \in RequestStates /\ approvals[a] \in Rows
        /\ RowAt(req[r].pc, approvals[a].status, runs[a])
        /\ HandlerSigned(r) /\ ~Told(r)
        BY <1>t DEF SerialInv, TypeInv, TypeOK, BusyKnowsCall, RowFollowsHandler,
                    AnswersInv, AnswerHolds
  <2>a. ASSUME NEW to, Continue(r, to)
        PROVE  /\ \A q \in Requests : q # r => req'[q] = req[q]
               /\ req'[r].id = a /\ req'[r].user = req[r].user /\ req'[r].op = req[r].op
               /\ req'[r].pc = IF to \in Answers THEN "done" ELSE to
               /\ req'[r].answer = IF to \in Answers THEN to ELSE req[r].answer
        BY <2>0, <2>a, <1>t DEF Continue, TypeOK, RequestStates
  <2>b. ASSUME NEW s, NEW u, NEW x, update_approval(a, s, u, x)
        PROVE  /\ \A b \in Approvals : b # a => approvals'[b] = approvals[b]
               /\ approvals'[a].reviewed_by =
                      IF u = None THEN approvals[a].reviewed_by ELSE u
               /\ x # None => approvals'[a].result = x
        BY <2>0, <2>b, <1>t DEF update_approval, COALESCE, TypeOK
  <2>c. ASSUME NEW step, NEW s, NEW u \in {None, req[r].user}, NEW x,
               NEW next \in {"execute", "log_success", "log_failed", "log_denied"},
               NEW raised \in {"mark_failed", "error"},
               UpdateRow(r, step, s, u, x, next, raised),
               step \in {"approve", "deny"} => u = req[r].user,
               step = "deny" <=> next = "log_denied",
               step \in {"deny", "approve"} => raised = "error",
               next = "log_success" => x = "output",
               step \in {"approve", "record", "mark_failed", "deny"}
        PROVE  AnswersInv'
    <3>1. req[r].pc = step
          BY <2>c DEF UpdateRow
    <3>2. CASE update_approval(a, s, u, x) /\ Continue(r, next)
      <4>1. /\ req'[r].pc = next /\ req'[r].answer = req[r].answer
            /\ req'[r].id = a /\ req'[r].user = req[r].user /\ req'[r].op = req[r].op
            /\ \A q \in Requests : q # r => req'[q] = req[q]
            BY <2>a, <2>c, <3>2
      <4>2. /\ \A b \in Approvals : b # a => approvals'[b] = approvals[b]
            /\ approvals'[a].reviewed_by = req[r].user
            /\ next = "log_success" => approvals'[a].result = "output"
            BY <2>0, <2>b, <2>c, <3>1, <3>2 DEF HandlerSigned
      <4>3. HandlerSigned(r)' /\ ~Told(r)'
            BY <2>0, <2>c, <3>1, <4>1, <4>2 DEF HandlerSigned, Told, Busy
      <4> QED
          BY <1>t, <4>1, <4>2, <4>3, OwnAnswerStep
    <3>3. CASE UNCHANGED approvals /\ Continue(r, raised)
      <4>1. /\ req'[r].pc = IF raised = "error" THEN "done" ELSE raised
            /\ req'[r].answer \in {"error", req[r].answer}
            /\ req'[r].id = a /\ req'[r].user = req[r].user /\ req'[r].op = req[r].op
            /\ \A q \in Requests : q # r => req'[q] = req[q]
            BY <2>a, <2>c, <3>3
      <4>2. HandlerSigned(r)' /\ ~Told(r)'
            BY <2>0, <2>c, <3>1, <3>3, <4>1 DEF HandlerSigned, Told, Busy
      <4> QED
          BY <1>t, <3>3, <4>1, <4>2, OwnAnswerStep
    <3> QED
        BY <2>c, <3>2, <3>3 DEF UpdateRow
  <2>d. ASSUME NEW step \in {"log_success", "log_failed", "log_denied"}, NEW s,
               NEW next \in {"ok", "execution_failed"},
               NEW raised \in {"mark_failed", "error"},
               LogEntry(r, step, s, next, raised),
               step = "log_failed" <=> next = "execution_failed",
               step = "log_denied" => raised = "error"
        PROVE  AnswersInv'
    <3>1. req[r].pc = step /\ UNCHANGED approvals
          BY <2>d DEF LogEntry
    <3>2. CASE Continue(r, next)
      <4>1. /\ req'[r].pc = "done" /\ req'[r].answer = next
            /\ req'[r].id = a /\ req'[r].user = req[r].user /\ req'[r].op = req[r].op
            /\ \A q \in Requests : q # r => req'[q] = req[q]
            BY <2>a, <2>d, <3>2
      <4>2. HandlerSigned(r)' /\ ~Busy(r)'
            BY <4>1 DEF HandlerSigned, Busy
      <4>3. RowMatchesAnswer(r, approvals[a])'
            BY <2>0, <2>d, <3>1, <4>1 DEF RowMatchesAnswer, HandlerSigned, RowAt, Busy
      <4> QED
          BY <1>t, <3>1, <4>1, <4>2, <4>3, OwnAnswerStep
    <3>3. CASE Continue(r, raised)
      <4>1. /\ req'[r].pc = IF raised = "error" THEN "done" ELSE raised
            /\ req'[r].answer \in {"error", req[r].answer}
            /\ req'[r].id = a /\ req'[r].user = req[r].user /\ req'[r].op = req[r].op
            /\ \A q \in Requests : q # r => req'[q] = req[q]
            BY <2>a, <2>d, <3>3
      <4>2. HandlerSigned(r)' /\ ~Told(r)'
            BY <2>0, <2>d, <3>1, <4>1 DEF HandlerSigned, Told, Busy
      <4> QED
          BY <1>t, <3>1, <4>1, <4>2, OwnAnswerStep
    <3> QED
        BY <2>d, <3>2, <3>3 DEF LogEntry
  <2>1. CASE MarkApproved(r)
        BY <2>c, <2>1 DEF MarkApproved
  <2>2. CASE ExecuteTool(r)
        BY <2>0, <2>2, <1>t, OwnAnswerStep
        DEF ExecuteTool, HandlerSigned, Told, Busy, TypeOK, RequestStates
  <2>3. CASE RecordExecuted(r)
        BY <2>c, <2>3 DEF RecordExecuted
  <2>4. CASE LogSuccess(r)
        BY <2>d, <2>4 DEF LogSuccess
  <2>5. CASE MarkFailed(r)
        BY <2>c, <2>5 DEF MarkFailed
  <2>6. CASE LogFailed(r)
        BY <2>d, <2>6 DEF LogFailed
  <2>7. CASE MarkDenied(r)
        BY <2>c, <2>7 DEF MarkDenied
  <2>8. CASE LogDenied(r)
        BY <2>d, <2>8 DEF LogDenied
  <2> QED
      BY <1>3, <2>1, <2>2, <2>3, <2>4, <2>5, <2>6, <2>7, <2>8 DEF Step
<1>4. CASE Crash \/ UNCHANGED vars
  <2>1. UNCHANGED approvals
        BY <1>4 DEF Crash, vars
  <2>2. \A q \in Requests :
            /\ Busy(q)' => Busy(q) /\ req'[q] = req[q]
            /\ req'[q].id = req[q].id /\ req'[q].user = req[q].user
            /\ req'[q].op = req[q].op /\ req'[q].answer = req[q].answer
        BY <1>4, <1>t DEF Crash, vars, Busy, TypeOK, RequestStates
  <2>3. ASSUME NEW q \in Requests PROVE HandlerSigned(q)'
        BY <2>1, <2>2 DEF AnswersInv, HandlerSigned
  <2>4. ASSUME NEW q \in Requests PROVE AnswerHolds(q)'
        BY <2>1, <2>2 DEF AnswersInv, AnswerHolds, RowMatchesAnswer, Told
  <2> QED
      BY <2>3, <2>4, <1>t DEF AnswersInv
<1> QED
    BY <1>1, <1>2, <1>3, <1>4 DEF Next, Receive

(***************************************************************************)
(* If calls about a row do not overlap, what an administrator was told of  *)
(* it stays true.                                                          *)
(***************************************************************************)
THEOREM SerialAnswersHold == ASSUME ~Overlap PROVE Spec => []AnswersHold
<1>1. Init => AnswersInv
      BY SerialInit, ApprovalAssumption
      DEF Init, AnswersInv, HandlerSigned, AnswerHolds, Told, Busy, NoRequest
<1>2. AnswersInv => AnswersHold
  <2> SUFFICES ASSUME AnswersInv, NEW r \in Requests, Told(r)
               PROVE  LET row == approvals[req[r].id]
                      IN  /\ RowMatchesAnswer(r, row)
                          /\ row.status = "executed" => runs[req[r].id] = 1
                          /\ row.status = "denied" => runs[req[r].id] = 0
      BY DEF AnswersHold, Told, RowMatchesAnswer
  <2> QED
      BY DEF AnswersInv, AnswerHolds, SerialInv, RunsFitStatus
<1>3. AnswersInv /\ [Next]_vars => AnswersInv'
      BY AnswersStep
<1> QED
    BY <1>1, <1>2, <1>3, PTL DEF Spec

-----------------------------------------------------------------------------
(* Refinement of the lifecycle *)

\* The status column after an update of row a, as the lifecycle sees it.
LEMMA UpdateBecomes ==
    ASSUME TypeOK, NEW a \in Approvals, NEW s, NEW u, NEW x, NEW from,
           approvals[a].status \in from,
           update_approval(a, s, u, x),
           UNCHANGED runs
    PROVE  Lifecycle!Becomes(a, from, s)
  BY DEF TypeOK, update_approval, Lifecycle!Becomes

LEMMA LifecycleStep ==
    ASSUME SerialInv, [Next]_vars
    PROVE  [Lifecycle!LifecycleNext]_(Lifecycle!lifecycleVars)
<1>t. TypeOK
      BY DEF SerialInv, TypeInv
<1>0. ASSUME UNCHANGED <<approvals, runs>>
      PROVE  UNCHANGED Lifecycle!lifecycleVars
      BY <1>0 DEF Lifecycle!lifecycleVars
<1>1. ASSUME NEW a \in Approvals, create_approval(a)
      PROVE  Lifecycle!LifecycleNext
      BY <1>1, <1>t DEF create_approval, TypeOK, Lifecycle!LifecycleNext,
                        Lifecycle!Queue, Lifecycle!Becomes
<1>2. ASSUME NEW r \in Requests, Receive(r)
      PROVE  UNCHANGED <<approvals, runs>>
      BY <1>2 DEF Receive, ReceiveApprove, ReceiveDeny, FetchPending
<1>3. ASSUME NEW r \in Requests, Step(r)
      PROVE  Lifecycle!LifecycleNext \/ UNCHANGED <<approvals, runs>>
  <2> SUFFICES ASSUME Busy(r)
               PROVE  Lifecycle!LifecycleNext \/ UNCHANGED <<approvals, runs>>
      BY <1>3 DEF Step, MarkApproved, ExecuteTool, RecordExecuted, LogSuccess,
                  MarkFailed, LogFailed, MarkDenied, LogDenied, UpdateRow, LogEntry, Busy
  <2> DEFINE a == req[r].id
  <2>0. /\ a \in Approvals
        /\ RowAt(req[r].pc, approvals[a].status, runs[a])
        BY DEF SerialInv, TypeInv, BusyKnowsCall, RowFollowsHandler
  <2>1. CASE MarkApproved(r)
        BY <2>0, <2>1, <1>t, UpdateBecomes
        DEF MarkApproved, UpdateRow, RowAt, Lifecycle!LifecycleNext, Lifecycle!Approve
  <2>2. CASE ExecuteTool(r)
        BY <2>0, <2>2, <1>t
        DEF ExecuteTool, RowAt, TypeOK, Lifecycle!LifecycleNext, Lifecycle!Run
  <2>3. CASE RecordExecuted(r)
        BY <2>0, <2>3, <1>t, UpdateBecomes
        DEF RecordExecuted, UpdateRow, RowAt, Lifecycle!LifecycleNext, Lifecycle!Complete
  <2>4. CASE MarkFailed(r)
        BY <2>0, <2>4, <1>t, UpdateBecomes
        DEF MarkFailed, UpdateRow, RowAt, Lifecycle!LifecycleNext, Lifecycle!Fail
  <2>5. CASE MarkDenied(r)
        BY <2>0, <2>5, <1>t, UpdateBecomes
        DEF MarkDenied, UpdateRow, RowAt, Lifecycle!LifecycleNext, Lifecycle!Deny
  <2>6. CASE LogSuccess(r) \/ LogFailed(r) \/ LogDenied(r)
        BY <2>6 DEF LogSuccess, LogFailed, LogDenied, LogEntry
  <2> QED
      BY <1>3, <2>1, <2>2, <2>3, <2>4, <2>5, <2>6 DEF Step
<1>4. CASE Crash
      BY <1>4, <1>0 DEF Crash
<1>5. CASE UNCHANGED vars
      BY <1>5, <1>0 DEF vars
<1> QED
    BY <1>0, <1>1, <1>2, <1>3, <1>4, <1>5 DEF Next

(***************************************************************************)
(* If calls about a row do not overlap, the table and its handlers         *)
(* implement the lifecycle promised to users.                              *)
(***************************************************************************)
THEOREM SerialImplementsLifecycle == ASSUME ~Overlap PROVE Spec => ImplementsLifecycle
<1>1. Init => Lifecycle!LifecycleInit
      BY DEF Init, Lifecycle!LifecycleInit
<1>2. SerialInv /\ [Next]_vars => [Lifecycle!LifecycleNext]_(Lifecycle!lifecycleVars)
      BY LifecycleStep
<1> QED
    BY <1>1, <1>2, SerialInvariant, PTL
    DEF Spec, ImplementsLifecycle, Lifecycle!LifecycleSpec
=============================================================================
