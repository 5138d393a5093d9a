------------------------------ MODULE AgentHub ------------------------------
(***************************************************************************)
(* The AI agent as a whole (backend/routers/ai_agent.py): the chats of     *)
(* AgentChat and the approve and deny handlers of ApprovalQueue run in one *)
(* process over one table ai_approvals.  A chat inserts rows while         *)
(* administrators decide others, or the very row whose number the chat is  *)
(* about to announce.                                                      *)
(*                                                                         *)
(* rows (of AgentChat) holds the columns of a row that its chat writes,    *)
(* requested_by and tool_name; approvals (of ApprovalQueue) those that the *)
(* handlers write later.  The database errors of chats and of handlers are *)
(* bounded apart.                                                          *)
(***************************************************************************)
EXTENDS AgentChat

CONSTANTS
    MaxRows,            \* bound on the rows of ai_approvals
    Requests, Admins, None, Overlap,    \* see ApprovalQueue
    MaxHandlerFaults,   \* bound on database calls of handlers that raise
    MaxCrashes          \* bound on deaths of the process under a handler

VARIABLES
    approvals, req, audit, runs,        \* see ApprovalQueue
    handlerFaults,      \* database calls of handlers that have raised so far
    crashes

Table == INSTANCE ApprovalQueue WITH
             Approvals <- 1..MaxRows,
             MaxDbFaults <- MaxHandlerFaults,
             dbFaults <- handlerFaults

ASSUME HubAssumption ==
    /\ MaxRows \in Nat
    /\ Table!ApprovalAssumption

table == <<approvals, req, audit, runs, handlerFaults, crashes>>

HubInit == Init /\ Table!Init

\* The INSERT of create_approval is one statement: a row that has a tool is
\* pending, and its number is the one after the last.
ChatRuns(c) ==
    /\ Start(c) \/ Step(c) \/ Cancel(c)
    /\ IF Len(rows') = Len(rows) THEN UNCHANGED table
       ELSE /\ Len(rows') <= MaxRows
            /\ Table!create_approval(Len(rows'))

HandlerRuns(r) == (Table!Receive(r) \/ Table!Step(r)) /\ UNCHANGED vars

\* Chats and handlers die together.
ProcessDies ==
    \/ /\ Crash
       /\ IF \E r \in Requests : Table!Busy(r) THEN Table!Crash ELSE UNCHANGED table
    \/ /\ \A c \in Chats : ~Running(c)
       /\ Table!Crash
       /\ UNCHANGED vars

HubNext == \/ \E c \in Chats : ChatRuns(c)
           \/ \E r \in Requests : HandlerRuns(r)
           \/ ProcessDies

HubSpec == HubInit /\ [][HubNext]_<<vars, table>>

-----------------------------------------------------------------------------
(* Correctness *)

(***************************************************************************)
(* From end to end, row by row: a chat by itself makes no risky tool and   *)
(* no made-up name take effect; and a row whose tool took effect is one    *)
(* that a chat queued for a risky tool, bears the name of an administrator *)
(* and was approved by a call that ran its tool, so that it is not enough  *)
(* that the row, or another one for the same tool, was denied.             *)
(***************************************************************************)
EffectsAreApproved ==
    /\ ran \cap (RiskyTools \cup UnknownTools) = {}
    /\ \A i \in 1..MaxRows : runs[i] > 0 =>
           /\ i \in DOMAIN rows /\ rows[i].tool \in RiskyTools
           /\ approvals[i].reviewed_by \in Admins
           /\ \E r \in Requests : /\ req[r].op = "approve" /\ req[r].id = i
                                  /\ req[r].outcome # None

(***************************************************************************)
(* The activity log shows who asked for what an administrator decided: a   *)
(* row with an entry of a handler has the entry of its chat as well, unless*)
(* the administrator was faster than the chat, or the chat broke off over  *)
(* it, which it does over no other row.                                    *)
(***************************************************************************)
DecisionsAreTraced ==
    \A e \in audit : e.id \notin logged =>
        /\ e.id \in DOMAIN rows
        /\ LET c == rows[e.id].by
           IN  /\ \/ chat[c].pc \in {"announce", "log_queued"} /\ chat[c].id = e.id
                  \/ chat[c].pc \in {"aborted", "cancelled"}
               /\ \A i \in DOMAIN rows : rows[i].by = c => i \in logged \/ i = e.id
=============================================================================
