------------------------------ MODULE AgentChat ------------------------------
(***************************************************************************)
(* The chat endpoint of the AI agent (ai_chat in backend/routers/          *)
(* ai_agent.py): a stream of server-sent events produced by a loop of at   *)
(* most MAX_TOOL_ROUNDS model turns.  A turn that asks for tools has each  *)
(* of its calls handled in order: a green tool is executed and its result  *)
(* appended to the messages of the next turn, any other registered tool is *)
(* queued in ai_approvals for an administrator (see ApprovalQueue).        *)
(*                                                                         *)
(* One action runs from one await or yield to the next.  At each of them   *)
(* the browser may have gone away, which cancels the generator.  The       *)
(* language model is external: it answers anything, including names of     *)
(* tools that do not exist.                                                *)
(*                                                                         *)
(* A definition whose name ends in _<Mistake> is a variant no action uses: *)
(* a plausible slip in the code, there to show which property notices it.  *)
(***************************************************************************)
EXTENDS Naturals, Sequences, FiniteSets

CONSTANTS
    Chats,              \* the streams, each used once
    GreenTools,         \* registered tools of tier green
    RiskyTools,         \* registered tools of tier amber or red
    UnknownTools,       \* names the model makes up
    MAX_TOOL_ROUNDS,    \* 5 in the code
    MaxCalls,           \* bound on the tool calls of one model turn
    MaxDbFaults         \* bound on database calls that raise

ASSUME ChatAssumption ==
    /\ GreenTools \cap RiskyTools = {}
    /\ UnknownTools \cap (GreenTools \cup RiskyTools) = {}
    /\ MAX_TOOL_ROUNDS \in Nat \ {0}
    /\ MaxCalls \in Nat \ {0}
    /\ MaxDbFaults \in Nat

VARIABLES
    chat,               \* the generators and their local variables
    rows,               \* ai_approvals in the order of their ids
    ran,                \* the tools that took effect from a chat
    shown,              \* <<chat, id>>: approval_queued events sent
    logged,             \* ids with a pending_approval entry in the log
    dbFaults            \* database calls that have raised so far

vars == <<chat, rows, ran, shown, logged, dbFaults>>

Names == GreenTools \cup RiskyTools \cup UnknownTools

Ended == {"closed", "aborted", "cancelled"}

\* replies[k] counts the tool messages appended for call k of the last turn.
Generators ==
    [pc      : {"idle", "ask", "call", "execute", "log_result", "queue",
                "announce", "log_queued", "finish"} \cup Ended,
     round   : 0..MAX_TOOL_ROUNDS,
     calls   : UNION {[1..n -> Names] : n \in 0..MaxCalls},
     at      : 0..MaxCalls,
     replies : UNION {[1..n -> 0..2] : n \in 0..MaxCalls},
     id      : Nat]                 \* approval_id

\* The local variables of a generator that has not begun, or has ended.
Fresh == [pc |-> "idle", round |-> 0, calls |-> <<>>, at |-> 0,
          replies |-> <<>>, id |-> 0]

TypeOK ==
    /\ chat \in [Chats -> Generators]
    /\ \A c \in Chats : /\ Len(chat[c].replies) = Len(chat[c].calls)
                        /\ chat[c].at <= Len(chat[c].calls)
    /\ rows \in Seq([by : Chats, tool : RiskyTools])
    /\ ran \subseteq Names
    /\ shown \subseteq Chats \X DOMAIN rows
    /\ logged \subseteq DOMAIN rows
    /\ dbFaults \in 0..MaxDbFaults

Init ==
    /\ chat = [c \in Chats |-> Fresh]
    /\ rows = <<>>
    /\ ran = {} /\ shown = {} /\ logged = {}
    /\ dbFaults = 0

-----------------------------------------------------------------------------

tool_risk_tier_Ignored(name) == "green"

\* A name that is not in TOOL_REGISTRY is green, and execute_tool raises on it.
tool_risk_tier(name) == IF name \in RiskyTools THEN "amber" ELSE "green"

tool(c) == chat[c].calls[chat[c].at]

DbRaises ==
    /\ dbFaults < MaxDbFaults
    /\ dbFaults' = dbFaults + 1

Goto(c, step) == chat' = [chat EXCEPT ![c].pc = step]

\* The stream ends, and the generator's local variables go with it.
End(c, how) == chat' = [chat EXCEPT ![c] = [Fresh EXCEPT !.pc = how]]

\* messages.append({"role": "tool", "tool_call_id": ..})
Fed(g) == [g EXCEPT !.replies[g.at] = @ + 1]

NextCall_OffByOne(g) ==
    IF g.at + 1 < Len(g.calls) THEN [g EXCEPT !.pc = "call", !.at = @ + 1]
    ELSE [g EXCEPT !.round = @ + 1,
                   !.pc = IF g.round + 1 < MAX_TOOL_ROUNDS THEN "ask" ELSE "finish"]

\* The next call of the turn, or else the next round, or else the end.
NextCall(g) ==
    IF g.at < Len(g.calls) THEN [g EXCEPT !.pc = "call", !.at = @ + 1]
    ELSE [g EXCEPT !.round = @ + 1,
                   !.pc = IF g.round + 1 < MAX_TOOL_ROUNDS THEN "ask" ELSE "finish"]

-----------------------------------------------------------------------------
(* The generator *)

Start(c) ==
    /\ chat[c].pc = "idle"
    /\ Goto(c, "ask")
    /\ UNCHANGED <<rows, ran, shown, logged, dbFaults>>

\* One model turn: the call raises; the stream breaks off (not caught); it
\* answers with text, or with no usable tool call; or it asks for tools.  A
\* client that is not configured ends the stream like a call that raises.
Ask(c) ==
    /\ chat[c].pc = "ask"
    /\ \/ End(c, "closed")
       \/ End(c, "aborted")
       \/ Goto(c, "finish")
       \/ \E n \in 1..MaxCalls : \E calls \in [1..n -> Names] :
              chat' = [chat EXCEPT ![c].pc = "call",
                                   ![c].calls = calls, ![c].at = 1,
                                   ![c].replies = [k \in 1..n |-> 0]]
    /\ UNCHANGED <<rows, ran, shown, logged, dbFaults>>

Call(c) ==
    /\ chat[c].pc = "call"
    /\ Goto(c, IF tool_risk_tier(tool(c)) = "green" THEN "execute" ELSE "queue")
    /\ UNCHANGED <<rows, ran, shown, logged, dbFaults>>

Execute_RetryErrors(c) ==
    /\ chat[c].pc = "execute"
    /\ tool(c) \notin UnknownTools
    /\ ran' = ran \cup {tool(c)}
    /\ chat' = [chat EXCEPT ![c] = [Fed(@) EXCEPT !.pc = "log_result"]]
    /\ UNCHANGED <<rows, shown, logged, dbFaults>>

Execute_TryAgain(c) ==
    /\ chat[c].pc = "execute"
    /\ \/ /\ tool(c) \notin UnknownTools
          /\ ran' = ran \cup {tool(c)}
          /\ chat' = [chat EXCEPT ![c] = [Fed(@) EXCEPT !.pc = "log_result"]]
       \/ Goto(c, "call") /\ UNCHANGED ran
    /\ UNCHANGED <<rows, shown, logged, dbFaults>>

\* The tool returns and its result is appended; or it raises, unknown names
\* always, and the error is appended instead.  It may have taken effect even
\* so: before it raised, or with a result json.dumps cannot encode.
Execute(c) ==
    /\ chat[c].pc = "execute"
    /\ \/ /\ tool(c) \notin UnknownTools
          /\ ran' = ran \cup {tool(c)}
          /\ chat' = [chat EXCEPT ![c] = [Fed(@) EXCEPT !.pc = "log_result"]]
       \/ /\ chat' = [chat EXCEPT ![c] = NextCall(Fed(@))]
          /\ \/ UNCHANGED ran
             \/ tool(c) \notin UnknownTools /\ ran' = ran \cup {tool(c)}
    /\ UNCHANGED <<rows, shown, logged, dbFaults>>

\* Still inside the try: if the log raises, an error is appended as well.
LogResult(c) ==
    /\ chat[c].pc = "log_result"
    /\ \/ chat' = [chat EXCEPT ![c] = NextCall(@)] /\ UNCHANGED dbFaults
       \/ chat' = [chat EXCEPT ![c] = NextCall(Fed(@))] /\ DbRaises
    /\ UNCHANGED <<rows, ran, shown, logged>>

\* create_approval; an exception is not caught and ends the stream.
Queue(c) ==
    /\ chat[c].pc = "queue"
    /\ \/ /\ rows' = Append(rows, [by |-> c, tool |-> tool(c)])
          /\ chat' = [chat EXCEPT ![c].pc = "announce", ![c].id = Len(rows) + 1]
          /\ UNCHANGED dbFaults
       \/ DbRaises /\ End(c, "aborted") /\ UNCHANGED rows
    /\ UNCHANGED <<ran, shown, logged>>

\* The approval_queued event, and the synthetic tool message.
Announce(c) ==
    /\ chat[c].pc = "announce"
    /\ shown' = shown \cup {<<c, chat[c].id>>}
    /\ chat' = [chat EXCEPT ![c] = [Fed(@) EXCEPT !.pc = "log_queued"]]
    /\ UNCHANGED <<rows, ran, logged, dbFaults>>

LogQueued_Caught(c) ==
    /\ chat[c].pc = "log_queued"
    /\ chat' = [chat EXCEPT ![c] = NextCall(@)]
    /\ \/ logged' = logged \cup {chat[c].id} /\ UNCHANGED dbFaults
       \/ DbRaises /\ UNCHANGED logged
    /\ UNCHANGED <<rows, ran, shown>>

LogQueued(c) ==
    /\ chat[c].pc = "log_queued"
    /\ \/ /\ logged' = logged \cup {chat[c].id}
          /\ chat' = [chat EXCEPT ![c] = NextCall(@)]
          /\ UNCHANGED dbFaults
       \/ DbRaises /\ End(c, "aborted") /\ UNCHANGED logged
    /\ UNCHANGED <<rows, ran, shown>>

\* The done event.
Finish(c) ==
    /\ chat[c].pc = "finish"
    /\ End(c, "closed")
    /\ UNCHANGED <<rows, ran, shown, logged, dbFaults>>

Running(c) == chat[c].pc \notin {"idle"} \cup Ended

\* The browser goes away.  A database call or a tool that was awaited runs in
\* its own thread and may still take effect: that is the action above followed
\* by this one.
Cancel(c) ==
    /\ Running(c)
    /\ End(c, "cancelled")
    /\ UNCHANGED <<rows, ran, shown, logged, dbFaults>>

\* The process dies, and every stream breaks off.
Crash ==
    /\ \E c \in Chats : Running(c)
    /\ chat' = [c \in Chats |->
                   IF Running(c) THEN [Fresh EXCEPT !.pc = "cancelled"] ELSE chat[c]]
    /\ UNCHANGED <<rows, ran, shown, logged, dbFaults>>

Step(c) == Ask(c) \/ Call(c) \/ Execute(c) \/ LogResult(c)
           \/ Queue(c) \/ Announce(c) \/ LogQueued(c) \/ Finish(c)

Next == (\E c \in Chats : Start(c) \/ Step(c) \/ Cancel(c)) \/ Crash

Spec == Init /\ [][Next]_vars

\* The event loop resumes every generator whose await has completed.
FairSpec == Spec /\ \A c \in Chats : WF_vars(Step(c))

-----------------------------------------------------------------------------
(* Correctness *)

(***************************************************************************)
(* The model never gets a turn while a tool call of the turn before is     *)
(* without a tool message (the chat API refuses such a conversation),      *)
(* whichever tools failed or were queued; and a call has a second message  *)
(* only where a database error put one.                                    *)
(***************************************************************************)
EveryCallIsFedBack ==
    \A c \in Chats :
        /\ chat[c].pc = "ask" => \A k \in DOMAIN chat[c].calls : chat[c].replies[k] > 0
        /\ Cardinality({k \in DOMAIN chat[c].replies : chat[c].replies[k] > 1}) <= dbFaults

\* The risky calls of the turn of chat c that have been handled so far.
Handled(c) ==
    LET g == chat[c]
    IN  {k \in DOMAIN g.calls :
            /\ g.calls[k] \in RiskyTools
            /\ \/ k < g.at
               \/ k = g.at /\ g.pc \in {"announce", "log_queued"}
               \/ g.pc \in {"ask", "finish"}}

(***************************************************************************)
(* A chat never runs a risky tool; and at every step of a turn the rows    *)
(* its chat queued last are the risky calls of the turn handled so far, in *)
(* their order, however many other chats queue in between.                 *)
(***************************************************************************)
RiskyToolsWait ==
    /\ RiskyTools \cap ran = {}
    /\ \A c \in Chats : \E row \in [Handled(c) -> DOMAIN rows] :
           /\ \A k \in Handled(c) : rows[row[k]] = [by |-> c, tool |-> chat[c].calls[k]]
           /\ \A k, l \in Handled(c) : k < l => row[k] < row[l]
           /\ \A k \in Handled(c), i \in DOMAIN rows :
                  rows[i].by = c /\ row[k] < i => \E l \in Handled(c) : row[l] = i

(***************************************************************************)
(* However many chats queue at the same time and whatever breaks, a user   *)
(* is shown the numbers of the rows of their own chat only, the log names  *)
(* no row its user was not shown, and a chat leaves at most one row behind *)
(* that the log does not mention, none if its stream was closed.           *)
(***************************************************************************)
QueuedRowsAreTraced ==
    /\ \A s \in shown : rows[s[2]].by = s[1]
    /\ \A i \in logged : <<rows[i].by, i>> \in shown
    /\ \A c \in Chats :
        LET unlogged == {i \in DOMAIN rows : rows[i].by = c} \ logged
        IN  /\ Cardinality(unlogged) <= 1
            /\ chat[c].pc = "closed" => unlogged = {}

\* The call of a stream in its round, and its step in the call.
CallNo(g) == IF g.pc \in {"idle", "ask"} THEN 0 ELSE g.at
StepNo(g) == CASE g.pc = "idle" -> 0
               [] g.pc = "ask" -> 1
               [] g.pc = "call" -> 2
               [] g.pc \in {"execute", "queue"} -> 3
               [] g.pc \in {"log_result", "announce"} -> 4
               [] g.pc = "log_queued" -> 5
               [] g.pc = "finish" -> 6

(***************************************************************************)
(* Every step of a stream ends it or takes it forward, to a later step of  *)
(* the call at hand, a later call of the turn or a later round: no error   *)
(* makes it handle a call again, and a stream that ended is not resumed.   *)
(***************************************************************************)
StreamsMoveOn ==
    [][\A c \in Chats :
          LET g == chat[c]
              h == chat'[c]
          IN  h # g => /\ g.pc \notin Ended
                       /\ \/ h.pc \in Ended
                          \/ h.round > g.round
                          \/ h.round = g.round /\ CallNo(h) > CallNo(g)
                          \/ /\ h.round = g.round /\ CallNo(h) = CallNo(g)
                             /\ StepNo(h) > StepNo(g)]_vars

(***************************************************************************)
(* Every stream ends, even if the model asks for tools in every turn.      *)
(***************************************************************************)
EveryChatEnds == \A c \in Chats : chat[c].pc = "ask" ~> chat[c].pc \in Ended
=============================================================================
