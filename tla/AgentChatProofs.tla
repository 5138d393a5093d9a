--------------------------- MODULE AgentChatProofs ---------------------------
(***************************************************************************)
(* Proofs about AgentChat for any number of streams, tools, rounds, calls  *)
(* of a turn and database errors; and about AgentHub, from these and from  *)
(* those of ApprovalQueueProofs, which hold of the hub's table.            *)
(***************************************************************************)
EXTENDS AgentHub, FiniteSetTheorems, TLAPS

USE ChatAssumption

\* The steps at which a generator is at work on call g.at of a turn.
Active == {"call", "execute", "log_result", "queue", "announce", "log_queued"}

\* Its steps before that call has its tool message, and after.
Before == {"call", "execute", "queue", "announce"}

-----------------------------------------------------------------------------
(* One generator *)

(***************************************************************************)
(* The local variables of a generator: the calls before the one at hand    *)
(* have their tool message, the ones after it have none, and a risky call  *)
(* is not where tools are executed.                                        *)
(***************************************************************************)
TurnInv(g) ==
    /\ g.pc = "idle" => Len(g.calls) = 0
    /\ g.pc # "finish" => g.round < MAX_TOOL_ROUNDS
    /\ g.pc \in Active =>
           /\ g.at \in 1..Len(g.calls)
           /\ \A k \in 1..Len(g.calls) :
                  /\ k < g.at => g.replies[k] >= 1
                  /\ k > g.at => g.replies[k] = 0
                  /\ k = g.at => g.replies[k] = IF g.pc \in Before THEN 0 ELSE 1
    /\ g.pc = "ask" => \A k \in 1..Len(g.calls) : g.replies[k] >= 1
    /\ g.pc \in {"execute", "log_result"} => g.calls[g.at] \notin RiskyTools
    /\ g.pc = "queue" => g.calls[g.at] \in RiskyTools

GenOK(g) ==
    /\ g \in Generators
    /\ Len(g.replies) = Len(g.calls)
    /\ g.at <= Len(g.calls)
    /\ TurnInv(g)

\* The calls of a turn and the counts of its messages, as functions.
LEMMA TurnShape ==
    ASSUME NEW g \in Generators, Len(g.replies) = Len(g.calls)
    PROVE  /\ Len(g.calls) \in 0..MaxCalls
           /\ g.calls \in [1..Len(g.calls) -> Names]
           /\ g.replies \in [1..Len(g.calls) -> 0..2]
<1>1. PICK n \in 0..MaxCalls : g.calls \in [1..n -> Names]
      BY DEF Generators
<1>2. PICK m \in 0..MaxCalls : g.replies \in [1..m -> 0..2]
      BY DEF Generators
<1>3. n \in Nat /\ m \in Nat
      BY <1>1, <1>2
<1>4. Len(g.calls) = n /\ Len(g.replies) = m
      BY <1>1, <1>2, <1>3
<1> QED
    BY <1>1, <1>2, <1>4

LEMMA FreshOK ==
    ASSUME NEW how \in {"idle"} \cup Ended
    PROVE  GenOK([Fresh EXCEPT !.pc = how])
<1> DEFINE f == [Fresh EXCEPT !.pc = how]
<1>1. <<>> \in [1..0 -> Names] /\ <<>> \in [1..0 -> 0..2] /\ 0 \in 0..MaxCalls
      OBVIOUS
<1>2. /\ <<>> \in UNION {[1..n -> Names] : n \in 0..MaxCalls}
      /\ <<>> \in UNION {[1..n -> 0..2] : n \in 0..MaxCalls}
      BY <1>1
<1>3. f = [pc |-> how, round |-> 0, calls |-> <<>>, at |-> 0, replies |-> <<>>, id |-> 0]
      BY DEF Fresh
<1>4. f \in Generators
  <2>1. 0 \in 0..MAX_TOOL_ROUNDS /\ 0 \in Nat
        OBVIOUS
  <2> HIDE ChatAssumption
  <2> QED
      BY <1>1, <1>2, <1>3, <2>1 DEF Generators
<1>5. TurnInv(f)
      BY <1>3 DEF TurnInv, Ended, Active
<1>6. Len(f.replies) = Len(f.calls) /\ f.at <= Len(f.calls)
      BY <1>3
<1> QED
    BY <1>4, <1>5, <1>6 DEF GenOK

\* A step that leaves the turn as it is.
LEMMA MovedOK ==
    ASSUME NEW g, GenOK(g), NEW h \in Generators,
           h.round = g.round, h.calls = g.calls, h.at = g.at, h.replies = g.replies,
           \/ g.pc = "idle" /\ h.pc = "ask"
           \/ g.pc = "ask" /\ h.pc = "finish"
           \/ g.pc = "call" /\ h.pc = "execute" /\ g.calls[g.at] \notin RiskyTools
           \/ g.pc = "call" /\ h.pc = "queue" /\ g.calls[g.at] \in RiskyTools
           \/ g.pc = "queue" /\ h.pc = "announce"
    PROVE  GenOK(h)
  BY DEF GenOK, TurnInv, Active, Before

\* A tool message for the call at hand.
LEMMA FedOK ==
    ASSUME NEW g, GenOK(g), g.pc \in Active
    PROVE  /\ Fed(g) = [g EXCEPT !.replies = Fed(g).replies]
           /\ Fed(g).replies \in [1..Len(g.calls) -> 0..2]
           /\ Len(Fed(g).replies) = Len(g.calls)
           /\ \A k \in 1..Len(g.calls) :
                  Fed(g).replies[k] = IF k = g.at THEN g.replies[k] + 1 ELSE g.replies[k]
<1>1. /\ Len(g.calls) \in 0..MaxCalls
      /\ g.replies \in [1..Len(g.calls) -> 0..2]
      BY TurnShape DEF GenOK
<1>2. /\ g.at \in 1..Len(g.calls)
      /\ g.replies[g.at] \in {0, 1}
      BY DEF GenOK, TurnInv
<1>3. Fed(g) = [g EXCEPT !.replies = [g.replies EXCEPT ![g.at] = @ + 1]]
      BY DEF Fed, GenOK, Generators
<1>4. Fed(g).replies = [g.replies EXCEPT ![g.at] = @ + 1]
      BY <1>3 DEF GenOK, Generators
<1>5. Fed(g).replies \in [1..Len(g.calls) -> 0..2]
      BY <1>1, <1>2, <1>4
<1>6. Len(Fed(g).replies) = Len(g.calls)
      BY <1>1, <1>5
<1> QED
    BY <1>1, <1>3, <1>4, <1>5, <1>6

(***************************************************************************)
(* A generator whose call has its tool message or messages goes on.        *)
(***************************************************************************)
LEMMA NextCallOK ==
    ASSUME NEW g, g \in Generators, Len(g.replies) = Len(g.calls),
           g.at \in 1..Len(g.calls), g.round < MAX_TOOL_ROUNDS,
           \A k \in 1..Len(g.calls) : /\ k <= g.at => g.replies[k] >= 1
                                      /\ k > g.at => g.replies[k] = 0
    PROVE  /\ GenOK(NextCall(g))
           /\ NextCall(g).pc \in {"call", "ask", "finish"}
           /\ NextCall(g).replies = g.replies
           /\ NextCall(g).calls = g.calls
<1> DEFINE h == NextCall(g)
<1>1. Len(g.calls) \in 0..MaxCalls
      BY TurnShape
<1>2. g.round \in Nat /\ g.at \in Nat
      BY DEF Generators
<1>3. CASE g.at < Len(g.calls)
  <2>1. h = [pc |-> "call", round |-> g.round, calls |-> g.calls, at |-> g.at + 1,
             replies |-> g.replies, id |-> g.id]
        BY <1>3 DEF NextCall, Generators
  <2>2. h \in Generators /\ h.at <= Len(h.calls)
        BY <1>1, <1>2, <1>3, <2>1 DEF Generators
  <2>3. TurnInv(h)
        BY <1>1, <1>2, <1>3, <2>1 DEF TurnInv, Active, Before
  <2> QED
      BY <2>1, <2>2, <2>3 DEF GenOK
<1>4. CASE ~(g.at < Len(g.calls))
  <2>1. h = [pc |-> IF g.round + 1 < MAX_TOOL_ROUNDS THEN "ask" ELSE "finish",
             round |-> g.round + 1, calls |-> g.calls, at |-> g.at,
             replies |-> g.replies, id |-> g.id]
        BY <1>4 DEF NextCall, Generators
  <2>2. g.at = Len(g.calls)
        BY <1>1, <1>2, <1>4
  <2>3. h \in Generators /\ h.at <= Len(h.calls)
        BY <1>1, <1>2, <2>1, <2>2 DEF Generators
  <2>4. TurnInv(h)
        BY <1>1, <1>2, <2>1, <2>2 DEF TurnInv, Active
  <2> QED
      BY <2>1, <2>3, <2>4 DEF GenOK
<1> QED
    BY <1>3, <1>4

\* The calls that have more than one tool message.
Doubled(g) == {k \in DOMAIN g.replies : g.replies[k] > 1}

\* The tool message of a call, with or without the entry in the log to follow.
LEMMA RepliedOK ==
    ASSUME NEW g, GenOK(g), NEW step,
           \/ g.pc = "execute" /\ step = "log_result"
           \/ g.pc = "announce" /\ step = "log_queued"
    PROVE  /\ GenOK([Fed(g) EXCEPT !.pc = step])
           /\ Doubled([Fed(g) EXCEPT !.pc = step]) = Doubled(g)
           /\ [Fed(g) EXCEPT !.pc = step].pc = step
           /\ [Fed(g) EXCEPT !.pc = step].id = g.id
<1> DEFINE h == [Fed(g) EXCEPT !.pc = step]
<1>0. g.pc \in Active /\ g \in Generators /\ TurnInv(g)
      BY DEF GenOK, Active
<1>1. /\ Fed(g) = [g EXCEPT !.replies = Fed(g).replies]
      /\ Fed(g).replies \in [1..Len(g.calls) -> 0..2]
      /\ Len(Fed(g).replies) = Len(g.calls)
      /\ \A k \in 1..Len(g.calls) :
             Fed(g).replies[k] = IF k = g.at THEN g.replies[k] + 1 ELSE g.replies[k]
      BY <1>0, FedOK
<1>2. /\ Len(g.calls) \in 0..MaxCalls
      /\ g.replies \in [1..Len(g.calls) -> 0..2]
      BY TurnShape DEF GenOK
<1>3. Fed(g) = [pc |-> g.pc, round |-> g.round, calls |-> g.calls, at |-> g.at,
                replies |-> Fed(g).replies, id |-> g.id]
      BY <1>0, <1>1 DEF Generators
<1>4. h = [pc |-> step, round |-> g.round, calls |-> g.calls, at |-> g.at,
           replies |-> Fed(g).replies, id |-> g.id]
      BY <1>3
<1>5. Fed(g).replies \in UNION {[1..n -> 0..2] : n \in 0..MaxCalls}
      BY <1>1, <1>2
<1>6. h \in Generators
      BY <1>0, <1>4, <1>5 DEF Generators
<1>7. TurnInv(h)
      BY <1>0, <1>1, <1>2, <1>4 DEF TurnInv, Active, Before
<1>8. Doubled(h) = Doubled(g)
  <2>1. g.replies[g.at] = 0 /\ g.at \in 1..Len(g.calls)
        BY <1>0 DEF TurnInv, Active, Before
  <2>2. DOMAIN h.replies = 1..Len(g.calls) /\ DOMAIN g.replies = 1..Len(g.calls)
        BY <1>1, <1>2, <1>4
  <2>3. \A k \in 1..Len(g.calls) : h.replies[k] > 1 <=> g.replies[k] > 1
        BY <1>1, <1>2, <1>4, <2>1
  <2> QED
      BY <2>2, <2>3 DEF Doubled
<1> QED
    BY <1>0, <1>1, <1>4, <1>6, <1>7, <1>8 DEF GenOK

\* The call is done: with its one tool message, or with one more.
LEMMA DoneOK ==
    ASSUME NEW g, GenOK(g), g.pc \in {"execute", "log_result", "log_queued"}
    PROVE  /\ g.pc # "execute" => /\ GenOK(NextCall(g))
                                  /\ Doubled(NextCall(g)) = Doubled(g)
                                  /\ NextCall(g).pc \in {"call", "ask", "finish"}
           /\ g.pc # "log_queued" => /\ GenOK(NextCall(Fed(g)))
                                     /\ NextCall(Fed(g)).pc \in {"call", "ask", "finish"}
           /\ g.pc = "execute" => Doubled(NextCall(Fed(g))) = Doubled(g)
           /\ g.pc = "log_result" =>
                  Doubled(NextCall(Fed(g))) \subseteq Doubled(g) \cup {g.at}
<1>0. g.pc \in Active /\ g \in Generators /\ TurnInv(g)
      BY DEF GenOK, Active
<1>1. /\ Fed(g) = [g EXCEPT !.replies = Fed(g).replies]
      /\ Fed(g).replies \in [1..Len(g.calls) -> 0..2]
      /\ Len(Fed(g).replies) = Len(g.calls)
      /\ \A k \in 1..Len(g.calls) :
             Fed(g).replies[k] = IF k = g.at THEN g.replies[k] + 1 ELSE g.replies[k]
      BY <1>0, FedOK
<1>2. /\ Len(g.calls) \in 0..MaxCalls
      /\ g.replies \in [1..Len(g.calls) -> 0..2]
      /\ Len(g.replies) = Len(g.calls)
      BY TurnShape DEF GenOK
<1>3. Fed(g) = [pc |-> g.pc, round |-> g.round, calls |-> g.calls, at |-> g.at,
                replies |-> Fed(g).replies, id |-> g.id]
      BY <1>0, <1>1 DEF Generators
<1>4. Fed(g).replies \in UNION {[1..n -> 0..2] : n \in 0..MaxCalls}
      BY <1>1, <1>2
<1>5. Fed(g) \in Generators
      BY <1>0, <1>3, <1>4 DEF Generators
<1>6. /\ g.at \in 1..Len(g.calls) /\ g.round < MAX_TOOL_ROUNDS
      /\ \A k \in 1..Len(g.calls) : /\ k < g.at => g.replies[k] >= 1
                                    /\ k > g.at => g.replies[k] = 0
      /\ g.replies[g.at] = IF g.pc = "execute" THEN 0 ELSE 1
      BY <1>0 DEF TurnInv, Active, Before
<1>7. ASSUME g.pc # "execute"
      PROVE  /\ GenOK(NextCall(g)) /\ Doubled(NextCall(g)) = Doubled(g)
             /\ NextCall(g).pc \in {"call", "ask", "finish"}
  <2>1. \A k \in 1..Len(g.calls) : /\ k <= g.at => g.replies[k] >= 1
                                   /\ k > g.at => g.replies[k] = 0
        BY <1>2, <1>6, <1>7
  <2> QED
      BY <1>0, <1>2, <1>6, <2>1, NextCallOK DEF Doubled
<1>8. /\ GenOK(NextCall(Fed(g))) /\ NextCall(Fed(g)).replies = Fed(g).replies
      /\ NextCall(Fed(g)).pc \in {"call", "ask", "finish"}
  <2>1. Fed(g).calls = g.calls /\ Fed(g).at = g.at /\ Fed(g).round = g.round
        BY <1>3
  <2>2. \A k \in 1..Len(g.calls) : /\ k <= g.at => Fed(g).replies[k] >= 1
                                   /\ k > g.at => Fed(g).replies[k] = 0
        BY <1>1, <1>2, <1>6
  <2> QED
      BY <1>1, <1>5, <1>6, <2>1, <2>2, NextCallOK
<1>9. /\ Doubled(NextCall(Fed(g))) = {k \in 1..Len(g.calls) : Fed(g).replies[k] > 1}
      /\ Doubled(g) = {k \in 1..Len(g.calls) : g.replies[k] > 1}
      BY <1>1, <1>2, <1>8 DEF Doubled
<1>10. g.pc = "execute" => Doubled(NextCall(Fed(g))) = Doubled(g)
       BY <1>1, <1>2, <1>6, <1>9
<1>11. Doubled(NextCall(Fed(g))) \subseteq Doubled(g) \cup {g.at}
       BY <1>1, <1>9
<1> QED
    BY <1>7, <1>8, <1>10, <1>11

-----------------------------------------------------------------------------
(* All generators *)

(***************************************************************************)
(* Every generator is well formed, nothing risky has run, and no turn has  *)
(* more calls with two messages than database calls have raised.           *)
(***************************************************************************)
ChatInv ==
    /\ chat \in [Chats -> Generators]
    /\ \A c \in Chats : GenOK(chat[c]) /\ Cardinality(Doubled(chat[c])) <= dbFaults
    /\ rows \in Seq([by : Chats, tool : RiskyTools])
    /\ ran \subseteq Names \ RiskyTools
    /\ shown \subseteq Chats \X DOMAIN rows
    /\ logged \subseteq DOMAIN rows
    /\ dbFaults \in 0..MaxDbFaults

\* What a step of generator c may do to its local variables.
Stepped(c) ==
    /\ chat' \in [Chats -> Generators]
    /\ \A d \in Chats : d # c => chat'[d] = chat[d]
    /\ GenOK(chat'[c])
    /\ Cardinality(Doubled(chat'[c])) <= dbFaults'
    /\ dbFaults' \in 0..MaxDbFaults /\ dbFaults <= dbFaults'

LEMMA DoubledFinite == ASSUME NEW g, GenOK(g) PROVE IsFiniteSet(Doubled(g))
<1>1. /\ Len(g.calls) \in Int
      /\ g.replies \in [1..Len(g.calls) -> 0..2]
      BY TurnShape DEF GenOK
<1>2. IsFiniteSet(1..Len(g.calls))
      BY <1>1, FS_Interval
<1>3. Doubled(g) \in SUBSET (1..Len(g.calls))
      BY <1>1 DEF Doubled
<1> QED
    BY <1>2, <1>3, FS_Subset

\* A generator is replaced by one without further doubled messages.
LEMMA ReplacedBy ==
    ASSUME ChatInv, NEW c \in Chats, NEW g, GenOK(g),
           chat' = [chat EXCEPT ![c] = g],
           Doubled(g) = Doubled(chat[c]) \/ Doubled(g) = {},
           dbFaults' = dbFaults \/ DbRaises
    PROVE  Stepped(c)
<1>1. /\ dbFaults \in Nat /\ dbFaults' \in 0..MaxDbFaults /\ dbFaults <= dbFaults'
      BY DEF ChatInv, DbRaises
<1>2. Cardinality({}) = 0
      BY FS_EmptySet
<1>3. Cardinality(Doubled(g)) <= dbFaults
      BY <1>1, <1>2, SMTT(30) DEF ChatInv
<1>4. Cardinality(Doubled(g)) <= dbFaults'
      <2>1. Cardinality(Doubled(g)) \in Nat
            BY DoubledFinite, FS_CardinalityType
      <2> QED
          BY <1>1, <1>3, <2>1
<1>5. chat'[c] = g /\ chat' \in [Chats -> Generators]
      BY DEF ChatInv, GenOK
<1> QED
    BY <1>1, <1>4, <1>5 DEF Stepped, ChatInv

\* The stream ends.
LEMMA Ending ==
    ASSUME ChatInv, NEW c \in Chats, NEW how \in Ended, End(c, how),
           dbFaults' = dbFaults \/ DbRaises
    PROVE  Stepped(c) /\ chat'[c].pc = how
<1> DEFINE f == [Fresh EXCEPT !.pc = how]
<1>1. GenOK(f) /\ f.replies = <<>> /\ f.pc = how
      BY FreshOK DEF Fresh
<1>2. Doubled(f) = {}
      BY <1>1 DEF Doubled
<1>3. chat' = [chat EXCEPT ![c] = f]
      BY DEF End
<1>4. Stepped(c)
      BY <1>1, <1>2, <1>3, ReplacedBy
<1> QED
    BY <1>1, <1>3, <1>4 DEF ChatInv

\* The generator goes to another step of the turn.
LEMMA Moving ==
    ASSUME ChatInv, NEW c \in Chats, chat' \in [Chats -> Generators],
           \A d \in Chats : d # c => chat'[d] = chat[d],
           chat'[c].round = chat[c].round, chat'[c].calls = chat[c].calls,
           chat'[c].at = chat[c].at, chat'[c].replies = chat[c].replies,
           \/ chat[c].pc = "idle" /\ chat'[c].pc = "ask"
           \/ chat[c].pc = "ask" /\ chat'[c].pc = "finish"
           \/ chat[c].pc = "call" /\ chat'[c].pc = "execute" /\ tool(c) \notin RiskyTools
           \/ chat[c].pc = "call" /\ chat'[c].pc = "queue" /\ tool(c) \in RiskyTools
           \/ chat[c].pc = "queue" /\ chat'[c].pc = "announce",
           UNCHANGED dbFaults
    PROVE  Stepped(c)
<1>1. GenOK(chat'[c])
      BY MovedOK DEF ChatInv, tool
<1>2. Doubled(chat'[c]) = Doubled(chat[c])
      BY DEF Doubled
<1>3. dbFaults \in 0..MaxDbFaults /\ Cardinality(Doubled(chat[c])) <= dbFaults
      BY DEF ChatInv
<1> QED
    BY <1>1, <1>2, <1>3 DEF Stepped

LEMMA NewTurn ==
    ASSUME NEW P, NEW R, NEW C, NEW A, NEW F, NEW I,
           NEW f \in [Chats -> [pc : P, round : R, calls : C, at : A,
                                replies : F, id : I]],
           NEW c \in Chats, NEW p \in P, NEW cs \in C, NEW a \in A, NEW fs \in F
    PROVE  [f EXCEPT ![c].pc = p, ![c].calls = cs, ![c].at = a, ![c].replies = fs]
               \in [Chats -> [pc : P, round : R, calls : C, at : A,
                              replies : F, id : I]]
  BY ZenonT(60)

LEMMA AskSteps ==
    ASSUME ChatInv, NEW c \in Chats, Ask(c)
    PROVE  Stepped(c) /\ chat'[c].pc \in {"closed", "aborted", "finish", "call"}
<1>0. chat[c] \in Generators /\ GenOK(chat[c]) /\ UNCHANGED dbFaults
      BY DEF ChatInv, Ask
<1>1. CASE End(c, "closed") \/ End(c, "aborted")
      BY <1>0, <1>1, Ending DEF Ended
<1>2. CASE Goto(c, "finish")
  <2>1. /\ chat' \in [Chats -> Generators] /\ chat'[c].pc = "finish"
        /\ \A d \in Chats : d # c => chat'[d] = chat[d]
        /\ chat'[c].round = chat[c].round /\ chat'[c].calls = chat[c].calls
        /\ chat'[c].at = chat[c].at /\ chat'[c].replies = chat[c].replies
        BY <1>2 DEF Goto, ChatInv, Generators
  <2> QED
      BY <1>0, <2>1, Moving DEF Ask
<1>3. ASSUME NEW n \in 1..MaxCalls, NEW calls \in [1..n -> Names],
             chat' = [chat EXCEPT ![c].pc = "call", ![c].calls = calls, ![c].at = 1,
                                  ![c].replies = [k \in 1..n |-> 0]]
      PROVE  Stepped(c) /\ chat'[c].pc = "call"
  <2> DEFINE zeros == [k \in 1..n |-> 0]
             g == chat'[c]
  <2>1. n \in 0..MaxCalls /\ n \in Nat /\ 1 \in 1..n /\ 1 \in 0..MaxCalls
        BY <1>3
  <2>2. zeros \in [1..n -> 0..2] /\ Len(zeros) = n /\ Len(calls) = n
        BY <1>3, <2>1
  <2>3. /\ calls \in UNION {[1..m -> Names] : m \in 0..MaxCalls}
        /\ zeros \in UNION {[1..m -> 0..2] : m \in 0..MaxCalls}
        BY <1>3, <2>1, <2>2
  <2>4. /\ g.pc = "call" /\ g.round = chat[c].round /\ g.calls = calls /\ g.at = 1
        /\ g.replies = zeros
        /\ \A d \in Chats : d # c => chat'[d] = chat[d]
        BY <1>0, <1>3 DEF ChatInv, Generators
  <2>5. chat' \in [Chats -> Generators]
    <3> DEFINE P == {"idle", "ask", "call", "execute", "log_result", "queue",
                     "announce", "log_queued", "finish"} \cup Ended
               C == UNION {[1..m -> Names] : m \in 0..MaxCalls}
               F == UNION {[1..m -> 0..2] : m \in 0..MaxCalls}
    <3>1. "call" \in P /\ calls \in C /\ zeros \in F /\ 1 \in 0..MaxCalls
          BY <2>1, <2>3
    <3>2. Generators = [pc : P, round : 0..MAX_TOOL_ROUNDS, calls : C, at : 0..MaxCalls,
                        replies : F, id : Nat]
          BY DEF Generators
    <3>3. chat \in [Chats -> Generators]
          BY DEF ChatInv
    <3> HIDE DEF P, C, F, zeros
    <3>4. [chat EXCEPT ![c].pc = "call", ![c].calls = calls, ![c].at = 1,
                       ![c].replies = zeros] \in [Chats -> Generators]
          BY <3>1, <3>2, <3>3, NewTurn, ZenonT(60)
    <3>5. chat' = [chat EXCEPT ![c].pc = "call", ![c].calls = calls, ![c].at = 1,
                               ![c].replies = zeros]
          BY <1>3 DEF zeros
    <3> QED
        BY <3>4, <3>5
  <2>6. chat[c].round < MAX_TOOL_ROUNDS
        BY <1>0 DEF Ask, GenOK, TurnInv
  <2>7. TurnInv(g)
        BY <2>1, <2>2, <2>4, <2>6 DEF TurnInv, Active, Before
  <2>8. GenOK(g)
        BY <2>1, <2>2, <2>4, <2>5, <2>7 DEF GenOK
  <2>9. Doubled(g) = {}
        BY <2>2, <2>4 DEF Doubled
  <2>10. Cardinality(Doubled(g)) = 0 /\ dbFaults \in 0..MaxDbFaults
         BY <2>9, FS_EmptySet DEF ChatInv
  <2> QED
      BY <1>0, <2>4, <2>5, <2>8, <2>10 DEF Stepped
<1> QED
    BY <1>1, <1>2, <1>3, Ending DEF Ask, Ended

LEMMA RepliedSteps ==
    ASSUME ChatInv, NEW c \in Chats, NEW step,
           \/ chat[c].pc = "execute" /\ step = "log_result"
           \/ chat[c].pc = "announce" /\ step = "log_queued",
           chat' = [chat EXCEPT ![c] = [Fed(@) EXCEPT !.pc = step]],
           UNCHANGED dbFaults
    PROVE  Stepped(c) /\ chat'[c].pc = step /\ chat'[c].id = chat[c].id
<1> DEFINE g == [Fed(chat[c]) EXCEPT !.pc = step]
<1>1. /\ GenOK(g) /\ Doubled(g) = Doubled(chat[c])
      /\ g.pc = step /\ g.id = chat[c].id
      BY RepliedOK DEF ChatInv
<1>2. chat' = [chat EXCEPT ![c] = g]
      OBVIOUS
<1>3. Stepped(c)
      BY <1>1, <1>2, ReplacedBy
<1> QED
    BY <1>1, <1>2, <1>3 DEF ChatInv

\* The call is done; its second message, if any, is paid for by a fault.
LEMMA DoneSteps ==
    ASSUME ChatInv, NEW c \in Chats,
           \/ /\ chat[c].pc \in {"log_result", "log_queued"}
              /\ chat' = [chat EXCEPT ![c] = NextCall(@)]
              /\ UNCHANGED dbFaults
           \/ /\ chat[c].pc = "execute"
              /\ chat' = [chat EXCEPT ![c] = NextCall(Fed(@))]
              /\ UNCHANGED dbFaults
           \/ /\ chat[c].pc = "log_result"
              /\ chat' = [chat EXCEPT ![c] = NextCall(Fed(@))]
              /\ DbRaises
    PROVE  Stepped(c) /\ chat'[c].pc \in {"call", "ask", "finish"}
<1>0. GenOK(chat[c]) /\ chat \in [Chats -> Generators]
      BY DEF ChatInv
<1>1. CASE /\ chat[c].pc \in {"log_result", "log_queued"}
           /\ chat' = [chat EXCEPT ![c] = NextCall(@)]
           /\ UNCHANGED dbFaults
  <2>1. /\ GenOK(NextCall(chat[c])) /\ Doubled(NextCall(chat[c])) = Doubled(chat[c])
        /\ NextCall(chat[c]).pc \in {"call", "ask", "finish"}
        BY <1>0, <1>1, DoneOK
  <2>2. Stepped(c)
        BY <1>1, <2>1, ReplacedBy
  <2> QED
      BY <1>0, <1>1, <2>1, <2>2
<1>2. CASE /\ chat[c].pc = "execute"
           /\ chat' = [chat EXCEPT ![c] = NextCall(Fed(@))]
           /\ UNCHANGED dbFaults
  <2> DEFINE g == NextCall(Fed(chat[c]))
  <2>1. /\ GenOK(g) /\ Doubled(g) = Doubled(chat[c])
        /\ g.pc \in {"call", "ask", "finish"}
        BY <1>0, <1>2, DoneOK
  <2>2. Stepped(c)
        BY <1>2, <2>1, ReplacedBy
  <2> QED
      BY <1>0, <1>2, <2>1, <2>2
<1>3. CASE /\ chat[c].pc = "log_result"
           /\ chat' = [chat EXCEPT ![c] = NextCall(Fed(@))]
           /\ DbRaises
  <2> DEFINE g == NextCall(Fed(chat[c]))
             D == Doubled(chat[c])
  <2>1. /\ GenOK(g) /\ g.pc \in {"call", "ask", "finish"}
        /\ Doubled(g) \subseteq D \cup {chat[c].at}
        BY <1>0, <1>3, DoneOK
  <2>2. IsFiniteSet(D) /\ Cardinality(D) <= dbFaults /\ Cardinality(D) \in Nat
        BY <1>0, DoubledFinite, FS_CardinalityType DEF ChatInv
  <2>3. /\ IsFiniteSet(D \cup {chat[c].at})
        /\ Cardinality(D \cup {chat[c].at}) =
               IF chat[c].at \in D THEN Cardinality(D) ELSE Cardinality(D) + 1
        BY <2>2, FS_AddElement
  <2>4. /\ Cardinality(Doubled(g)) <= Cardinality(D \cup {chat[c].at})
        /\ Cardinality(Doubled(g)) \in Nat
        BY <2>1, <2>3, FS_Subset, FS_CardinalityType
  <2>5. dbFaults \in Nat /\ dbFaults' = dbFaults + 1 /\ dbFaults' \in 0..MaxDbFaults
        BY <1>3 DEF ChatInv, DbRaises
  <2>6. Cardinality(Doubled(g)) <= dbFaults'
        BY <2>2, <2>3, <2>4, <2>5
  <2>7. chat'[c] = g /\ chat' \in [Chats -> Generators]
        BY <1>0, <1>3, <2>1 DEF GenOK
  <2> QED
      BY <1>0, <1>3, <2>1, <2>5, <2>6, <2>7 DEF Stepped
<1> QED
    BY <1>1, <1>2, <1>3

-----------------------------------------------------------------------------
(* The rows, what is shown of them, and the log *)

\* What generator c leaves without an entry in the log.
Unlogged(c) == {i \in DOMAIN rows : rows[i].by = c} \ logged

(***************************************************************************)
(* At most the row a generator is working on is without an entry in the    *)
(* log, and it has a number of its own, that its user has seen by then.    *)
(***************************************************************************)
RowsOf(c) ==
    /\ chat[c].pc \in {"announce", "log_queued"} =>
           /\ chat[c].id \in DOMAIN rows /\ rows[chat[c].id].by = c
           /\ Unlogged(c) \subseteq {chat[c].id}
    /\ chat[c].pc = "log_queued" => <<c, chat[c].id>> \in shown
    /\ chat[c].pc \in {"aborted", "cancelled"} => \E i : Unlogged(c) \subseteq {i}
    /\ chat[c].pc \notin {"announce", "log_queued", "aborted", "cancelled"} =>
           Unlogged(c) = {}

RowsInv ==
    /\ \A e \in shown : rows[e[2]].by = e[1]
    /\ \A i \in logged : <<rows[i].by, i>> \in shown
    /\ \A c \in Chats : RowsOf(c)

TraceInv == ChatInv /\ RowsInv

\* A step of generator c that touches neither rows nor what is known of them.
LEMMA RowsUntouched ==
    ASSUME TraceInv, NEW c \in Chats, Stepped(c), UNCHANGED <<rows, shown, logged>>,
           ran' \subseteq Names \ RiskyTools, RowsOf(c)'
    PROVE  TraceInv'
<1>1. ChatInv'
  <2>1. \A d \in Chats : d # c => Cardinality(Doubled(chat[d])) \in Nat
        BY DoubledFinite, FS_CardinalityType DEF TraceInv, ChatInv
  <2>2. dbFaults \in Nat /\ dbFaults' \in Nat /\ dbFaults <= dbFaults'
        BY DEF TraceInv, ChatInv, Stepped
  <2>3. ASSUME NEW d \in Chats
        PROVE  GenOK(chat'[d]) /\ Cardinality(Doubled(chat'[d])) <= dbFaults'
        BY <2>1, <2>2 DEF TraceInv, ChatInv, Stepped
  <2> QED
      BY <2>3 DEF TraceInv, ChatInv, Stepped
<1>2. \A d \in Chats : d # c => RowsOf(d)'
      BY DEF TraceInv, RowsInv, RowsOf, Unlogged, Stepped
<1> QED
    BY <1>1, <1>2 DEF TraceInv, RowsInv

LEMMA QueueStep ==
    ASSUME TraceInv, NEW c \in Chats, Queue(c)
    PROVE  TraceInv'
<1>0. /\ rows \in Seq([by : Chats, tool : RiskyTools])
      /\ chat \in [Chats -> Generators] /\ GenOK(chat[c]) /\ chat[c].pc = "queue"
      /\ dbFaults \in 0..MaxDbFaults /\ ran \subseteq Names \ RiskyTools
      BY DEF TraceInv, ChatInv, Queue
<1>1. CASE /\ rows' = Append(rows, [by |-> c, tool |-> tool(c)])
           /\ chat' = [chat EXCEPT ![c].pc = "announce", ![c].id = Len(rows) + 1]
           /\ UNCHANGED dbFaults
  <2>1. tool(c) \in RiskyTools
        BY <1>0 DEF GenOK, TurnInv, tool
  <2>2. /\ rows' \in Seq([by : Chats, tool : RiskyTools])
        /\ Len(rows') = Len(rows) + 1 /\ Len(rows) \in Nat
        /\ DOMAIN rows = 1..Len(rows) /\ DOMAIN rows' = 1..(Len(rows) + 1)
        /\ \A i \in DOMAIN rows : rows'[i] = rows[i]
        /\ rows'[Len(rows) + 1].by = c
        BY <1>0, <1>1, <2>1
  <2>3. /\ chat' \in [Chats -> Generators]
        /\ \A d \in Chats : d # c => chat'[d] = chat[d]
        /\ chat'[c].pc = "announce" /\ chat'[c].id = Len(rows) + 1
        /\ chat'[c].round = chat[c].round /\ chat'[c].calls = chat[c].calls
        /\ chat'[c].at = chat[c].at /\ chat'[c].replies = chat[c].replies
    <3> DEFINE P == {"idle", "ask", "call", "execute", "log_result", "queue",
                     "announce", "log_queued", "finish"} \cup Ended
               C == UNION {[1..m -> Names] : m \in 0..MaxCalls}
               F == UNION {[1..m -> 0..2] : m \in 0..MaxCalls}
    <3>1. "announce" \in P /\ Len(rows) + 1 \in Nat
          BY <2>2
    <3>2. Generators = [pc : P, round : 0..MAX_TOOL_ROUNDS, calls : C, at : 0..MaxCalls,
                        replies : F, id : Nat]
          BY DEF Generators
    <3>3. chat \in [Chats -> [pc : P, round : 0..MAX_TOOL_ROUNDS, calls : C,
                              at : 0..MaxCalls, replies : F, id : Nat]]
          BY <1>0, <3>2
    <3>4. chat' = [chat EXCEPT ![c].pc = "announce", ![c].id = Len(rows) + 1]
          BY <1>1
    <3> HIDE DEF P, C, F
    <3> QED
        BY <3>1, <3>2, <3>3, <3>4
  <2>4. Stepped(c)
        BY <1>0, <1>1, <2>3, Moving DEF TraceInv
  <2>5. UNCHANGED <<ran, shown, logged, dbFaults>>
        BY <1>1 DEF Queue
  <2>6. /\ shown \subseteq Chats \X DOMAIN rows' /\ logged \subseteq DOMAIN rows'
        /\ \A e \in shown : e[2] \in DOMAIN rows /\ rows'[e[2]] = rows[e[2]]
        /\ \A i \in logged : rows'[i] = rows[i] /\ i # Len(rows) + 1
        BY <2>2 DEF TraceInv, ChatInv
  <2>7. ChatInv'
        BY <2>2, <2>4, <2>5, <2>6 DEF TraceInv, ChatInv, Stepped
  <2>8. ASSUME NEW d \in Chats, d # c PROVE RowsOf(d)'
    <3>1. Unlogged(d)' = Unlogged(d)
          BY <2>2, <2>5, <2>8 DEF Unlogged
    <3>2. chat'[d] = chat[d] /\ RowsOf(d)
          BY <2>3, <2>8 DEF TraceInv, RowsInv
    <3>3. \A i \in DOMAIN rows : i \in DOMAIN rows' /\ rows'[i].by = rows[i].by
          BY <2>2
    <3> HIDE DEF Unlogged
    <3> QED
        BY <2>5, <3>1, <3>2, <3>3 DEF RowsOf
  <2>9. RowsOf(c)'
    <3>1. Unlogged(c) = {}
          BY <1>0 DEF TraceInv, RowsInv, RowsOf
    <3>2. Unlogged(c)' \subseteq {Len(rows) + 1}
          BY <2>2, <2>5, <3>1 DEF Unlogged
    <3>3. Len(rows) + 1 \in DOMAIN rows'
          BY <2>2
    <3> QED
        BY <2>2, <2>3, <3>2, <3>3 DEF RowsOf
  <2>10. RowsInv'
    <3>1. \A e \in shown' : rows'[e[2]].by = e[1]
          BY <2>5, <2>6 DEF TraceInv, RowsInv
    <3>2. \A i \in logged' : <<rows'[i].by, i>> \in shown'
          BY <2>5, <2>6 DEF TraceInv, RowsInv
    <3> QED
        BY <2>8, <2>9, <3>1, <3>2 DEF RowsInv
  <2> QED
      BY <2>7, <2>10 DEF TraceInv
<1>2. CASE DbRaises /\ End(c, "aborted") /\ UNCHANGED rows
  <2>1. Stepped(c) /\ chat'[c].pc = "aborted"
        BY <1>2, Ending DEF TraceInv, Ended
  <2>2. Unlogged(c) = {} /\ UNCHANGED <<rows, shown, logged, ran>>
        BY <1>0, <1>2 DEF TraceInv, RowsInv, RowsOf, Queue
  <2>3. RowsOf(c)'
        BY <2>1, <2>2 DEF RowsOf, Unlogged
  <2> QED
      BY <1>0, <2>1, <2>2, <2>3, RowsUntouched
<1> QED
    BY <1>1, <1>2 DEF Queue

LEMMA AnnounceStep ==
    ASSUME TraceInv, NEW c \in Chats, Announce(c)
    PROVE  TraceInv'
<1>1. /\ chat[c].pc = "announce"
      /\ chat[c].id \in DOMAIN rows /\ rows[chat[c].id].by = c
      /\ Unlogged(c) \subseteq {chat[c].id}
      BY DEF TraceInv, RowsInv, RowsOf, Announce
<1>2. Stepped(c) /\ chat'[c].pc = "log_queued" /\ chat'[c].id = chat[c].id
      BY <1>1, RepliedSteps DEF TraceInv, Announce
<1>3. shown' = shown \cup {<<c, chat[c].id>>} /\ UNCHANGED <<rows, ran, logged, dbFaults>>
      BY DEF Announce
<1>4. ChatInv'
      BY <1>1, <1>2, <1>3 DEF TraceInv, ChatInv, Stepped
<1>5. RowsOf(c)'
      BY <1>1, <1>2, <1>3 DEF RowsOf, Unlogged
<1>6. \A d \in Chats : d # c => RowsOf(d)'
      BY <1>2, <1>3 DEF TraceInv, RowsInv, RowsOf, Unlogged, Stepped
<1>7. \A e \in shown' : rows'[e[2]].by = e[1]
      BY <1>1, <1>3 DEF TraceInv, RowsInv
<1>8. \A i \in logged' : <<rows'[i].by, i>> \in shown'
      BY <1>3 DEF TraceInv, RowsInv
<1> QED
    BY <1>4, <1>5, <1>6, <1>7, <1>8 DEF TraceInv, RowsInv

LEMMA LogQueuedStep ==
    ASSUME TraceInv, NEW c \in Chats, LogQueued(c)
    PROVE  TraceInv'
<1>1. /\ chat[c].pc = "log_queued"
      /\ chat[c].id \in DOMAIN rows /\ rows[chat[c].id].by = c
      /\ Unlogged(c) \subseteq {chat[c].id}
      /\ <<c, chat[c].id>> \in shown
      /\ UNCHANGED <<rows, ran, shown>>
      BY DEF TraceInv, RowsInv, RowsOf, LogQueued
<1>2. CASE /\ logged' = logged \cup {chat[c].id}
           /\ chat' = [chat EXCEPT ![c] = NextCall(@)]
           /\ UNCHANGED dbFaults
  <2>1. Stepped(c) /\ chat'[c].pc \in {"call", "ask", "finish"}
        BY <1>1, <1>2, DoneSteps DEF TraceInv
  <2>2. ChatInv'
        BY <1>1, <1>2, <2>1 DEF TraceInv, ChatInv, Stepped
  <2>3. Unlogged(c)' = {}
        BY <1>1, <1>2 DEF Unlogged
  <2>4. RowsOf(c)'
        BY <2>1, <2>3 DEF RowsOf
  <2>5. ASSUME NEW d \in Chats, d # c PROVE RowsOf(d)'
    <3>1. Unlogged(d)' = Unlogged(d)
          BY <1>1, <1>2, <2>5 DEF Unlogged
    <3>2. chat'[d] = chat[d] /\ RowsOf(d)
          BY <2>1, <2>5 DEF TraceInv, RowsInv, Stepped
    <3> QED
        BY <1>1, <3>1, <3>2 DEF RowsOf
  <2>6. \A i \in logged' : <<rows'[i].by, i>> \in shown'
        BY <1>1, <1>2 DEF TraceInv, RowsInv
  <2> QED
      BY <1>1, <2>2, <2>4, <2>5, <2>6 DEF TraceInv, RowsInv
<1>3. CASE DbRaises /\ End(c, "aborted") /\ UNCHANGED logged
  <2>1. Stepped(c) /\ chat'[c].pc = "aborted"
        BY <1>3, Ending DEF TraceInv, Ended
  <2>2. RowsOf(c)'
        BY <1>1, <1>3, <2>1 DEF RowsOf, Unlogged
  <2> QED
      BY <1>1, <1>3, <2>1, <2>2, RowsUntouched DEF TraceInv, ChatInv
<1> QED
    BY <1>2, <1>3 DEF LogQueued

\* Steps that touch neither rows nor log leave only the row at hand, if any.
LEMMA KeepsRows ==
    ASSUME TraceInv, NEW c \in Chats, Stepped(c), UNCHANGED <<rows, shown, logged>>,
           ran' \subseteq Names \ RiskyTools,
           \/ /\ chat[c].pc \notin {"announce", "log_queued", "aborted", "cancelled"}
              /\ chat'[c].pc \notin {"announce", "log_queued"}
           \/ chat'[c].pc = "cancelled"
    PROVE  TraceInv'
<1>1. Unlogged(c)' = Unlogged(c)
      BY DEF Unlogged
<1>2. /\ \E i : Unlogged(c) \subseteq {i}
      /\ chat[c].pc \notin {"announce", "log_queued", "aborted", "cancelled"} =>
             Unlogged(c) = {}
      BY DEF TraceInv, RowsInv, RowsOf
<1>3. RowsOf(c)'
      BY <1>1, <1>2 DEF RowsOf
<1> QED
    BY <1>3, RowsUntouched

\* When the process dies every stream that ran is cancelled, the others stay.
LEMMA CrashCancels ==
    ASSUME TraceInv, Crash, NEW c \in Chats
    PROVE  \/ chat'[c] = chat[c]
           \/ chat'[c] = [Fresh EXCEPT !.pc = "cancelled"]
  BY DEF Crash

LEMMA CrashKeepsTrace == ASSUME TraceInv, Crash PROVE TraceInv'
<1>1. UNCHANGED <<rows, ran, shown, logged, dbFaults>>
      BY DEF Crash
<1>2. ASSUME NEW c \in Chats
      PROVE  /\ chat'[c] \in Generators /\ GenOK(chat'[c])
             /\ Cardinality(Doubled(chat'[c])) <= dbFaults
             /\ RowsOf(c)'
  <2>1. GenOK(chat[c]) /\ Cardinality(Doubled(chat[c])) <= dbFaults /\ RowsOf(c)
        BY DEF TraceInv, ChatInv, RowsInv
  <2>2. Unlogged(c)' = Unlogged(c)
        BY <1>1 DEF Unlogged
  <2>3. CASE chat'[c] = chat[c]
        BY <1>1, <2>1, <2>2, <2>3 DEF GenOK, RowsOf
  <2>4. CASE chat'[c] = [Fresh EXCEPT !.pc = "cancelled"]
    <3> DEFINE f == [Fresh EXCEPT !.pc = "cancelled"]
    <3>1. GenOK(f) /\ f.replies = <<>> /\ f.pc = "cancelled"
          BY FreshOK DEF Fresh, Ended
    <3>2. Doubled(f) = {}
          BY <3>1 DEF Doubled
    <3>3. Cardinality(Doubled(f)) <= dbFaults
      <4>1. Cardinality({}) = 0 /\ dbFaults \in 0..MaxDbFaults
            BY FS_EmptySet DEF TraceInv, ChatInv
      <4> HIDE DEF f
      <4> QED
          BY <3>2, <4>1
    <3>4. \E i : Unlogged(c) \subseteq {i}
          BY <2>1 DEF RowsOf
    <3>5. RowsOf(c)'
          BY <2>2, <2>4, <3>1, <3>4 DEF RowsOf
    <3> QED
        BY <2>4, <3>1, <3>3, <3>5 DEF GenOK
  <2> QED
      BY <2>3, <2>4, CrashCancels
<1>3. chat' \in [Chats -> Generators]
      BY <1>2 DEF Crash
<1> QED
    BY <1>1, <1>2, <1>3 DEF TraceInv, ChatInv, RowsInv

LEMMA TraceStep == TraceInv /\ [Next]_vars => TraceInv'
<1> SUFFICES ASSUME TraceInv, [Next]_vars PROVE TraceInv'
    OBVIOUS
<1>t. /\ ChatInv /\ ran \subseteq Names \ RiskyTools
      /\ chat \in [Chats -> Generators] /\ \A c \in Chats : GenOK(chat[c])
      BY DEF TraceInv, ChatInv
<1>1. ASSUME NEW c \in Chats, Start(c) PROVE TraceInv'
  <2>1. Stepped(c) /\ chat'[c].pc = "ask"
    <3>1. /\ chat' \in [Chats -> Generators] /\ chat'[c].pc = "ask"
          /\ \A d \in Chats : d # c => chat'[d] = chat[d]
          /\ chat'[c].round = chat[c].round /\ chat'[c].calls = chat[c].calls
          /\ chat'[c].at = chat[c].at /\ chat'[c].replies = chat[c].replies
          BY <1>1, <1>t DEF Start, Goto, Generators
    <3> QED
        BY <1>1, <1>t, <3>1, Moving DEF Start
  <2> QED
      BY <1>1, <1>t, <2>1, KeepsRows DEF Start
<1>2. ASSUME NEW c \in Chats, Ask(c) PROVE TraceInv'
  <2>1. Stepped(c) /\ chat'[c].pc \in {"closed", "aborted", "finish", "call"}
        BY <1>2, <1>t, AskSteps
  <2> QED
      BY <1>2, <1>t, <2>1, KeepsRows DEF Ask
<1>3. ASSUME NEW c \in Chats, Call(c) PROVE TraceInv'
  <2> DEFINE next == IF tool_risk_tier(tool(c)) = "green" THEN "execute" ELSE "queue"
  <2>1. next \in {"execute", "queue"} /\ (next = "queue" <=> tool(c) \in RiskyTools)
        BY DEF tool_risk_tier
  <2>2. /\ chat' \in [Chats -> Generators] /\ chat'[c].pc = next
        /\ \A d \in Chats : d # c => chat'[d] = chat[d]
        /\ chat'[c].round = chat[c].round /\ chat'[c].calls = chat[c].calls
        /\ chat'[c].at = chat[c].at /\ chat'[c].replies = chat[c].replies
    <3> HIDE DEF next
    <3>1. chat' = [chat EXCEPT ![c].pc = next]
          BY <1>3 DEF Call, Goto, next
    <3> QED
        BY <3>1, <1>t, <2>1 DEF Generators
  <2>3. Stepped(c)
        BY <1>3, <1>t, <2>1, <2>2, Moving DEF Call
  <2> QED
      BY <1>3, <1>t, <2>1, <2>2, <2>3, KeepsRows DEF Call
<1>4. ASSUME NEW c \in Chats, Execute(c) PROVE TraceInv'
  <2>1. tool(c) \in Names \ RiskyTools
    <3>1. /\ chat[c].at \in 1..Len(chat[c].calls) /\ tool(c) \notin RiskyTools
          /\ Len(chat[c].replies) = Len(chat[c].calls)
          BY <1>4, <1>t DEF Execute, GenOK, TurnInv, Active, tool
    <3>2. chat[c].calls \in [1..Len(chat[c].calls) -> Names]
          BY <1>t, <3>1, TurnShape DEF GenOK
    <3> QED
        BY <3>1, <3>2 DEF tool
  <2>2. ran' \subseteq Names \ RiskyTools
        BY <1>4, <1>t, <2>1 DEF Execute
  <2>3. Stepped(c) /\ chat'[c].pc \in {"log_result", "call", "ask", "finish"}
        BY <1>4, <1>t, RepliedSteps, DoneSteps DEF Execute
  <2> QED
      BY <1>4, <2>2, <2>3, KeepsRows DEF Execute
<1>5. ASSUME NEW c \in Chats, LogResult(c) PROVE TraceInv'
  <2>1. Stepped(c) /\ chat'[c].pc \in {"call", "ask", "finish"}
        BY <1>5, <1>t, DoneSteps DEF LogResult
  <2> QED
      BY <1>5, <1>t, <2>1, KeepsRows DEF LogResult
<1>6. ASSUME NEW c \in Chats, Finish(c) PROVE TraceInv'
  <2>1. Stepped(c) /\ chat'[c].pc = "closed"
        BY <1>6, <1>t, Ending DEF Finish, Ended
  <2> QED
      BY <1>6, <1>t, <2>1, KeepsRows DEF Finish
<1>7. ASSUME NEW c \in Chats, Cancel(c) PROVE TraceInv'
  <2>1. Stepped(c) /\ chat'[c].pc = "cancelled"
        BY <1>7, <1>t, Ending DEF Cancel, Ended
  <2> QED
      BY <1>7, <1>t, <2>1, KeepsRows DEF Cancel
<1>8. CASE UNCHANGED vars
      BY <1>8 DEF vars, TraceInv, ChatInv, RowsInv, RowsOf, Unlogged
<1>9. CASE Crash
      BY <1>9, CrashKeepsTrace
<1> QED
    BY <1>1, <1>2, <1>3, <1>4, <1>5, <1>6, <1>7, <1>8, <1>9,
       QueueStep, AnnounceStep, LogQueuedStep
    DEF Next, Step

LEMMA TraceInit == Init => TraceInv
<1> SUFFICES ASSUME Init PROVE TraceInv
    OBVIOUS
<1>1. Fresh = [Fresh EXCEPT !.pc = "idle"]
      BY DEF Fresh
<1>2. GenOK(Fresh)
      BY <1>1, FreshOK
<1>3. Doubled(Fresh) = {}
      BY DEF Fresh, Doubled
<1>4. Cardinality(Doubled(Fresh)) = 0
      BY <1>3, FS_EmptySet
<1>5. \A c \in Chats : chat[c] = Fresh /\ chat[c].pc = "idle"
      BY DEF Init, Fresh
<1>6. ChatInv
  <2>1. chat \in [Chats -> Generators]
        BY <1>2 DEF Init, GenOK
  <2>2. dbFaults = 0 /\ rows = <<>> /\ ran = {} /\ shown = {} /\ logged = {}
        BY DEF Init
  <2> QED
      BY <1>2, <1>4, <1>5, <2>1, <2>2 DEF ChatInv
<1>7. \A c \in Chats : RowsOf(c)
      BY <1>5 DEF Init, RowsOf, Unlogged
<1> QED
    BY <1>6, <1>7 DEF Init, TraceInv, RowsInv

LEMMA TraceInvariant == Spec => []TraceInv
  BY TraceInit, TraceStep, PTL DEF Spec

(***************************************************************************)
(* The generators, the rows they queue and what is known of them are well  *)
(* formed: the index into the calls of a turn is in range at every step.   *)
(***************************************************************************)
THEOREM ChatTypeCorrect == Spec => []TypeOK
<1>1. TraceInv => TypeOK
      BY DEF TraceInv, ChatInv, GenOK, TypeOK
<1> QED
    BY <1>1, TraceInvariant, PTL

(***************************************************************************)
(* For any number of rounds and calls, and whatever is queued or fails,    *)
(* the model's next turn finds a tool message for every call of the last,  *)
(* and at most one call with two for each database error.                  *)
(***************************************************************************)
THEOREM CallsAreFedBack == Spec => []EveryCallIsFedBack
<1>1. ASSUME TraceInv PROVE EveryCallIsFedBack
  <2> SUFFICES ASSUME NEW c \in Chats
               PROVE  /\ chat[c].pc = "ask" =>
                             \A k \in DOMAIN chat[c].calls : chat[c].replies[k] > 0
                      /\ Cardinality(Doubled(chat[c])) <= dbFaults
      BY DEF EveryCallIsFedBack, Doubled
  <2>1. GenOK(chat[c]) /\ Cardinality(Doubled(chat[c])) <= dbFaults
        BY <1>1 DEF TraceInv, ChatInv
  <2>2. /\ DOMAIN chat[c].calls = 1..Len(chat[c].calls)
        /\ chat[c].replies \in [1..Len(chat[c].calls) -> 0..2]
        BY <2>1, TurnShape DEF GenOK
  <2> QED
      BY <2>1, <2>2 DEF GenOK, TurnInv
<1> QED
    BY <1>1, TraceInvariant, PTL

(***************************************************************************)
(* However many chats queue at the same time and whatever breaks, users    *)
(* see the numbers of their own rows, the log names no row its user was    *)
(* not shown, and a chat leaves at most one row the log does not mention.  *)
(***************************************************************************)
THEOREM RowsAreTraced == Spec => []QueuedRowsAreTraced
<1>1. ASSUME TraceInv PROVE QueuedRowsAreTraced
  <2>1. ASSUME NEW c \in Chats
        PROVE  /\ Cardinality(Unlogged(c)) <= 1
               /\ chat[c].pc = "closed" => Unlogged(c) = {}
    <3>1. chat[c].pc = "closed" => Unlogged(c) = {}
          BY <1>1 DEF TraceInv, RowsInv, RowsOf
    <3>2. PICK i : Unlogged(c) \subseteq {i}
          BY <1>1 DEF TraceInv, RowsInv, RowsOf
    <3>3. IsFiniteSet({i}) /\ Cardinality({i}) = 1
          BY FS_Singleton
    <3>4. Cardinality(Unlogged(c)) <= Cardinality({i})
          BY <3>2, <3>3, FS_Subset
    <3> QED
        BY <3>1, <3>3, <3>4
  <2> QED
      BY <1>1, <2>1 DEF TraceInv, RowsInv, QueuedRowsAreTraced, Unlogged
<1> QED
    BY <1>1, TraceInvariant, PTL

-----------------------------------------------------------------------------
(* The risky calls of a turn and the rows queued for them *)

HandledOf(g) ==
    {k \in DOMAIN g.calls :
        /\ g.calls[k] \in RiskyTools
        /\ \/ k < g.at
           \/ k = g.at /\ g.pc \in {"announce", "log_queued"}
           \/ g.pc \in {"ask", "finish"}}

LEMMA HandledIs == \A c : Handled(c) = HandledOf(chat[c])
  BY DEF Handled, HandledOf

\* The rows that the calls handled so far are waiting in.
QueuedAs(c, row) ==
    /\ row \in [Handled(c) -> DOMAIN rows]
    /\ \A k \in Handled(c) : rows[row[k]] = [by |-> c, tool |-> chat[c].calls[k]]
    /\ \A k, l \in Handled(c) : k < l => row[k] < row[l]
    /\ \A k \in Handled(c), i \in DOMAIN rows :
           rows[i].by = c /\ row[k] < i => \E l \in Handled(c) : row[l] = i

QueueInv == \A c \in Chats : \E row : QueuedAs(c, row)

\* A generator that ends or begins a turn has handled no call of it.
LEMMA NoneHandled ==
    ASSUME NEW c \in Chats, Handled(c)' = {}
    PROVE  \E row : QueuedAs(c, row)'
<1> DEFINE row == [k \in {} |-> 0]
<1>1. row \in [{} -> DOMAIN rows']
      OBVIOUS
<1> HIDE DEF row
<1>2. QueuedAs(c, row)'
      BY <1>1 DEF QueuedAs
<1> QED
    BY <1>2

\* Rows that others queue do not matter.
LEMMA SameHandled ==
    ASSUME NEW c \in Chats, QueueInv, Handled(c)' = Handled(c),
           chat'[c].calls = chat[c].calls,
           DOMAIN rows \subseteq DOMAIN rows',
           \A i \in DOMAIN rows : rows'[i] = rows[i],
           \A i \in DOMAIN rows' \ DOMAIN rows : rows'[i].by # c
    PROVE  \E row : QueuedAs(c, row)'
<1>1. PICK row : QueuedAs(c, row)
      BY DEF QueueInv
<1>2. row \in [Handled(c) -> DOMAIN rows]
      BY <1>1 DEF QueuedAs
<1>3. row \in [Handled(c)' -> DOMAIN rows']
      BY <1>2
<1>4. \A k \in Handled(c) : rows'[row[k]] = [by |-> c, tool |-> chat'[c].calls[k]]
      BY <1>1, <1>2 DEF QueuedAs
<1>5. \A k \in Handled(c), i \in DOMAIN rows' :
          rows'[i].by = c /\ row[k] < i => \E l \in Handled(c) : row[l] = i
      BY <1>1 DEF QueuedAs
<1>6. QueuedAs(c, row)'
      BY <1>1, <1>3, <1>4, <1>5 DEF QueuedAs
<1> QED
    BY <1>6

\* The calls handled so far are the same after the message of a call, ...
LEMMA HandledFed ==
    ASSUME NEW g, GenOK(g), g.pc \in Active
    PROVE  /\ HandledOf(Fed(g)) = HandledOf(g)
           /\ Fed(g).calls = g.calls /\ Fed(g).pc = g.pc /\ Fed(g).at = g.at
           /\ Fed(g).round = g.round /\ Fed(g).id = g.id
           /\ DOMAIN Fed(g) = DOMAIN g
<1>1. Fed(g) = [g EXCEPT !.replies = Fed(g).replies]
      BY FedOK
<1>2. /\ Fed(g).calls = g.calls /\ Fed(g).pc = g.pc /\ Fed(g).at = g.at
      /\ Fed(g).round = g.round /\ Fed(g).id = g.id
      /\ DOMAIN Fed(g) = DOMAIN g
      BY <1>1 DEF GenOK, Generators
<1> QED
    BY <1>2 DEF HandledOf

\* ... and when the generator goes on to the next one.
LEMMA HandledNext ==
    ASSUME NEW g, GenOK(g), g.pc \in {"execute", "log_result", "log_queued"},
           NEW h, h.calls = g.calls, h.pc = g.pc, h.at = g.at,
           DOMAIN h = DOMAIN g
    PROVE  HandledOf(NextCall(h)) = HandledOf(g) /\ NextCall(h).calls = g.calls
<1>1. /\ g.at \in 1..Len(g.calls) /\ Len(g.calls) \in Nat
      /\ DOMAIN g.calls = 1..Len(g.calls)
      /\ g.pc # "log_queued" => g.calls[g.at] \notin RiskyTools
      BY TurnShape DEF GenOK, TurnInv, Active
<1>2. {"pc", "calls", "at", "round"} \subseteq DOMAIN h
      BY DEF GenOK, Generators
<1>3. CASE g.at < Len(g.calls)
  <2>1. NextCall(h) = [h EXCEPT !.pc = "call", !.at = @ + 1]
        BY <1>3 DEF NextCall
  <2>2. NextCall(h).pc = "call" /\ NextCall(h).at = g.at + 1 /\ NextCall(h).calls = g.calls
        BY <1>2, <2>1
  <2> QED
      BY <1>1, <2>2 DEF HandledOf
<1>4. CASE ~(g.at < Len(g.calls))
  <2> DEFINE next == IF h.round + 1 < MAX_TOOL_ROUNDS THEN "ask" ELSE "finish"
  <2>1. NextCall(h) = [h EXCEPT !.round = @ + 1, !.pc = next]
        BY <1>4 DEF NextCall
  <2>2. NextCall(h).pc \in {"ask", "finish"} /\ NextCall(h).calls = g.calls
        BY <1>2, <2>1
  <2>3. g.at = Len(g.calls)
        BY <1>1, <1>4
  <2> QED
      BY <1>1, <2>2, <2>3 DEF HandledOf
<1> QED
    BY <1>3, <1>4

\* Any step of a generator but a successful create_approval leaves the calls
\* handled so far as they are, or drops the turn.
LEMMA HandledStays ==
    ASSUME TraceInv, NEW c \in Chats,
           \/ Start(c) \/ Ask(c) \/ Call(c) \/ Execute(c) \/ LogResult(c)
           \/ Announce(c) \/ LogQueued(c) \/ Finish(c) \/ Cancel(c)
    PROVE  \/ Handled(c)' = {}
           \/ Handled(c)' = Handled(c) /\ chat'[c].calls = chat[c].calls
<1> DEFINE g == chat[c]
           h == chat'[c]
<1>1. GenOK(g) /\ g \in Generators /\ chat \in [Chats -> Generators]
      BY DEF TraceInv, ChatInv
<1>2. Handled(c) = HandledOf(g) /\ Handled(c)' = HandledOf(h)
      BY HandledIs DEF Handled, HandledOf
<1> SUFFICES HandledOf(h) = {} \/ (HandledOf(h) = HandledOf(g) /\ h.calls = g.calls)
    BY <1>2
<1>3. CASE \E how \in Ended : End(c, how)
  <2>1. h.calls = <<>>
        BY <1>1, <1>3 DEF End, Fresh
  <2> QED
      BY <2>1 DEF HandledOf
<1>4. CASE Start(c)
  <2>1. h.calls = g.calls /\ Len(g.calls) = 0 /\ DOMAIN g.calls = 1..Len(g.calls)
        BY <1>1, <1>4, TurnShape DEF Start, Goto, Generators, GenOK, TurnInv
  <2> QED
      BY <2>1 DEF HandledOf
<1>5. CASE Ask(c) /\ Goto(c, "finish")
  <2>1. g.pc = "ask" /\ h.pc = "finish" /\ h.calls = g.calls /\ h.at = g.at
        BY <1>1, <1>5 DEF Ask, Goto, Generators
  <2> QED
      BY <2>1 DEF HandledOf
<1>6. ASSUME NEW n \in 1..MaxCalls, NEW calls \in [1..n -> Names],
             chat' = [chat EXCEPT ![c].pc = "call", ![c].calls = calls, ![c].at = 1,
                                  ![c].replies = [k \in 1..n |-> 0]]
      PROVE  HandledOf(h) = {}
  <2>1. h.pc = "call" /\ h.calls = calls /\ h.at = 1
        BY <1>1, <1>6 DEF Generators
  <2> QED
      BY <1>6, <2>1 DEF HandledOf
<1>7. CASE Call(c)
  <2> DEFINE next == IF tool_risk_tier(tool(c)) = "green" THEN "execute" ELSE "queue"
  <2>1. next \in {"execute", "queue"} /\ g.pc = "call"
        BY <1>7 DEF Call
  <2> HIDE DEF next
  <2>2. chat' = [chat EXCEPT ![c].pc = next]
        BY <1>7 DEF Call, Goto, next
  <2>3. h.pc = next /\ h.calls = g.calls /\ h.at = g.at
        BY <1>1, <2>2 DEF Generators
  <2> QED
      BY <2>1, <2>3 DEF HandledOf
<1>8. CASE \E step : /\ \/ g.pc = "execute" /\ step = "log_result"
                        \/ g.pc = "announce" /\ step = "log_queued"
                     /\ chat' = [chat EXCEPT ![c] = [Fed(@) EXCEPT !.pc = step]]
  <2>1. PICK step : /\ \/ g.pc = "execute" /\ step = "log_result"
                       \/ g.pc = "announce" /\ step = "log_queued"
                    /\ chat' = [chat EXCEPT ![c] = [Fed(@) EXCEPT !.pc = step]]
        BY <1>8
  <2>2. h = [Fed(g) EXCEPT !.pc = step]
        BY <1>1, <2>1
  <2>3. g.pc \in Active /\ "pc" \in DOMAIN g
        BY <1>1, <2>1 DEF Active, Generators
  <2>4. h.pc = step /\ h.calls = g.calls /\ h.at = g.at
        BY <1>1, <2>2, <2>3, HandledFed
  <2>5. g.pc = "execute" => g.calls[g.at] \notin RiskyTools
        BY <1>1 DEF GenOK, TurnInv
  <2> QED
      BY <2>1, <2>4, <2>5 DEF HandledOf
<1>9. CASE /\ g.pc \in {"log_result", "log_queued"}
           /\ chat' = [chat EXCEPT ![c] = NextCall(@)]
  <2>1. h = NextCall(g)
        BY <1>1, <1>9
  <2> QED
      BY <1>1, <1>9, <2>1, HandledNext
<1>10. CASE /\ g.pc \in {"execute", "log_result"}
            /\ chat' = [chat EXCEPT ![c] = NextCall(Fed(@))]
  <2>1. h = NextCall(Fed(g))
        BY <1>1, <1>10
  <2>2. g.pc \in Active
        BY <1>10 DEF Active
  <2> QED
      BY <1>1, <1>10, <2>1, <2>2, HandledFed, HandledNext
<1> QED
  <2>1. Ask(c) => \/ \E how \in Ended : End(c, how)
                  \/ Ask(c) /\ Goto(c, "finish")
                  \/ \E n \in 1..MaxCalls : \E calls \in [1..n -> Names] :
                        chat' = [chat EXCEPT ![c].pc = "call", ![c].calls = calls, ![c].at = 1,
                                             ![c].replies = [k \in 1..n |-> 0]]
        BY DEF Ask, Ended
  <2>2. Execute(c) \/ Announce(c) =>
            \/ \E step : /\ \/ g.pc = "execute" /\ step = "log_result"
                            \/ g.pc = "announce" /\ step = "log_queued"
                         /\ chat' = [chat EXCEPT ![c] = [Fed(@) EXCEPT !.pc = step]]
            \/ /\ g.pc \in {"execute", "log_result"}
               /\ chat' = [chat EXCEPT ![c] = NextCall(Fed(@))]
        BY DEF Execute, Announce
  <2>3. LogResult(c) \/ LogQueued(c) =>
            \/ \E how \in Ended : End(c, how)
            \/ /\ g.pc \in {"log_result", "log_queued"}
               /\ chat' = [chat EXCEPT ![c] = NextCall(@)]
            \/ /\ g.pc \in {"execute", "log_result"}
               /\ chat' = [chat EXCEPT ![c] = NextCall(Fed(@))]
        BY DEF LogResult, LogQueued, Ended
  <2>4. Finish(c) \/ Cancel(c) => \E how \in Ended : End(c, how)
        BY DEF Finish, Cancel, Ended
  <2> HIDE DEF g, h
  <2> QED
      BY <1>3, <1>4, <1>5, <1>6, <1>7, <1>8, <1>9, <1>10, <2>1, <2>2, <2>3, <2>4

\* create_approval appends the row of the call at hand.
LEMMA QueueAppends ==
    ASSUME TraceInv, QueueInv, NEW c \in Chats, Queue(c)
    PROVE  QueueInv'
<1> DEFINE g == chat[c]
           h == chat'[c]
           n == Len(rows) + 1
<1>0. /\ GenOK(g) /\ g.pc = "queue" /\ chat \in [Chats -> Generators]
      /\ rows \in Seq([by : Chats, tool : RiskyTools])
      BY DEF Queue, TraceInv, ChatInv
<1>1. CASE DbRaises /\ End(c, "aborted") /\ UNCHANGED rows
  <2>1. h.calls = <<>> /\ \A d \in Chats : d # c => chat'[d] = chat[d]
        BY <1>0, <1>1 DEF End, Fresh
  <2>2. Handled(c)' = {}
        BY <2>1 DEF Handled
  <2>3. ASSUME NEW d \in Chats, d # c PROVE \E row : QueuedAs(d, row)'
    <3>1. chat'[d] = chat[d]
          BY <2>1, <2>3
    <3>2. Handled(d)' = Handled(d)
          BY <3>1 DEF Handled
    <3> QED
        BY <1>1, <3>1, <3>2, SameHandled
  <2> QED
      BY <2>2, <2>3, NoneHandled DEF QueueInv
<1>2. CASE /\ rows' = Append(rows, [by |-> c, tool |-> tool(c)])
           /\ chat' = [chat EXCEPT ![c].pc = "announce", ![c].id = Len(rows) + 1]
  <2>1. /\ DOMAIN rows = 1..Len(rows) /\ DOMAIN rows' = 1..n /\ n \in Nat
        /\ n \notin DOMAIN rows
        /\ \A i \in DOMAIN rows : rows'[i] = rows[i] /\ i < n
        /\ rows'[n] = [by |-> c, tool |-> g.calls[g.at]]
        BY <1>0, <1>2 DEF tool
  <2>2. /\ h.pc = "announce" /\ h.calls = g.calls /\ h.at = g.at
        /\ \A d \in Chats : d # c => chat'[d] = chat[d]
        BY <1>0, <1>2 DEF Generators
  <2>3. /\ g.at \in 1..Len(g.calls) /\ g.calls[g.at] \in RiskyTools
        /\ DOMAIN g.calls = 1..Len(g.calls) /\ Len(g.calls) \in Nat
        BY <1>0, TurnShape DEF GenOK, TurnInv, Active
  <2>4. /\ Handled(c)' = Handled(c) \cup {g.at} /\ g.at \notin Handled(c)
        /\ \A k \in Handled(c) : k \in Nat /\ k < g.at
    <3>1. Handled(c) = {k \in 1..Len(g.calls) : g.calls[k] \in RiskyTools /\ k < g.at}
          BY <1>0, <2>3 DEF Handled
    <3>2. Handled(c)' = {k \in 1..Len(g.calls) : g.calls[k] \in RiskyTools
                                                 /\ (k < g.at \/ k = g.at)}
          BY <2>2, <2>3 DEF Handled
    <3> QED
        BY <2>3, <3>1, <3>2
  <2>5. \E row : QueuedAs(c, row)'
    <3>1. PICK old : QueuedAs(c, old)
          BY DEF QueueInv
    <3>2. old \in [Handled(c) -> DOMAIN rows]
          BY <3>1 DEF QueuedAs
    <3>r. PICK row : row = [k \in Handled(c)' |-> IF k = g.at THEN n ELSE old[k]]
          OBVIOUS
    <3>3. /\ row[g.at] = n
          /\ \A k \in Handled(c) : row[k] = old[k] /\ old[k] \in DOMAIN rows
          BY <2>4, <3>2, <3>r
    <3>4. row \in [Handled(c)' -> DOMAIN rows']
          BY <2>1, <2>4, <3>2, <3>r
    <3>5. \A k \in Handled(c)' : rows'[row[k]] = [by |-> c, tool |-> h.calls[k]]
          BY <2>1, <2>2, <2>4, <3>1, <3>3 DEF QueuedAs
    <3>6. ASSUME NEW k \in Handled(c)', NEW l \in Handled(c)', k < l
          PROVE  row[k] < row[l]
      <4>1. k \in Handled(c)
            BY <2>3, <2>4, <3>6
      <4>2. CASE l = g.at
            BY <2>1, <3>3, <4>1, <4>2
      <4>3. CASE l \in Handled(c)
            BY <3>1, <3>3, <3>6, <4>1, <4>3 DEF QueuedAs
      <4> QED
          BY <2>4, <4>2, <4>3
    <3>7. ASSUME NEW k \in Handled(c)', NEW i \in DOMAIN rows', rows'[i].by = c, row[k] < i
          PROVE  \E l \in Handled(c)' : row[l] = i
      <4>1. CASE i = n
            BY <2>4, <3>3, <4>1
      <4>2. CASE i # n
        <5>1. i \in DOMAIN rows /\ rows[i].by = c
              BY <2>1, <3>7, <4>2
        <5>2. k \in Handled(c)
              BY <2>1, <2>4, <3>3, <3>7, <5>1
        <5>3. PICK l \in Handled(c) : old[l] = i
              BY <3>1, <3>3, <3>7, <5>1, <5>2 DEF QueuedAs
        <5> QED
            BY <2>4, <3>3, <5>3
      <4> QED
          BY <4>1, <4>2
    <3>8. QueuedAs(c, row)'
          BY <3>4, <3>5, <3>6, <3>7 DEF QueuedAs
    <3> QED
        BY <3>8
  <2>6. ASSUME NEW d \in Chats, d # c PROVE \E row : QueuedAs(d, row)'
    <3>1. chat'[d] = chat[d]
          BY <2>2, <2>6
    <3>2. Handled(d)' = Handled(d)
          BY <3>1 DEF Handled
    <3>3. \A i \in DOMAIN rows' \ DOMAIN rows : rows'[i].by # d
          BY <2>1, <2>6
    <3> QED
        BY <2>1, <3>1, <3>2, <3>3, SameHandled
  <2> QED
      BY <2>5, <2>6 DEF QueueInv
<1> QED
    BY <1>1, <1>2 DEF Queue

LEMMA QueueInit == Init => QueueInv
<1> SUFFICES ASSUME Init, NEW c \in Chats PROVE \E row : QueuedAs(c, row)
    BY DEF QueueInv
<1>1. Handled(c) = {} /\ [k \in {} |-> 0] \in [{} -> DOMAIN rows]
      BY DEF Init, Fresh, Handled
<1>2. QueuedAs(c, [k \in {} |-> 0])
      BY <1>1 DEF QueuedAs
<1> QED
    BY <1>2

LEMMA QueueStays == TraceInv /\ QueueInv /\ [Next]_vars => QueueInv'
<1> SUFFICES ASSUME TraceInv, QueueInv, [Next]_vars PROVE QueueInv'
    OBVIOUS
<1>1. ASSUME NEW c \in Chats,
             \/ Start(c) \/ Ask(c) \/ Call(c) \/ Execute(c) \/ LogResult(c)
             \/ Announce(c) \/ LogQueued(c) \/ Finish(c) \/ Cancel(c)
      PROVE  QueueInv'
  <2>1. UNCHANGED rows
        BY <1>1 DEF Start, Ask, Call, Execute, LogResult, Announce, LogQueued, Finish, Cancel
  <2>2. ASSUME NEW d \in Chats, d # c PROVE chat'[d] = chat[d]
        BY <1>1, <2>2 DEF TraceInv, ChatInv, Start, Ask, Call, Execute, LogResult, Announce,
                          LogQueued, Finish, Cancel, Goto, End
  <2>3. ASSUME NEW d \in Chats PROVE \E row : QueuedAs(d, row)'
    <3>1. CASE d = c
          BY <1>1, <2>1, <3>1, HandledStays, NoneHandled, SameHandled
    <3>2. CASE d # c
      <4>1. chat'[d] = chat[d]
            BY <2>2, <3>2
      <4>2. Handled(d)' = Handled(d)
            BY <4>1 DEF Handled
      <4> QED
          BY <2>1, <4>1, <4>2, SameHandled
    <3> QED
        BY <3>1, <3>2
  <2> QED
      BY <2>3 DEF QueueInv
<1>2. CASE UNCHANGED vars
  <2>1. ASSUME NEW c \in Chats PROVE \E row : QueuedAs(c, row)'
    <3>1. Handled(c)' = Handled(c) /\ UNCHANGED <<chat, rows>>
          BY <1>2 DEF vars, Handled
    <3> QED
        BY <3>1, SameHandled
  <2> QED
      BY <2>1 DEF QueueInv
<1>3. CASE Crash
  <2>1. ASSUME NEW c \in Chats PROVE \E row : QueuedAs(c, row)'
    <3>1. UNCHANGED rows
          BY <1>3 DEF Crash
    <3>2. CASE chat'[c] = chat[c]
      <4>1. Handled(c)' = Handled(c)
            BY <3>2 DEF Handled
      <4> QED
          BY <3>1, <3>2, <4>1, SameHandled
    <3>3. CASE chat'[c] = [Fresh EXCEPT !.pc = "cancelled"]
      <4>1. Handled(c)' = {}
            BY <3>3 DEF Handled, Fresh
      <4> QED
          BY <4>1, NoneHandled
    <3> QED
        BY <1>3, <3>2, <3>3, CrashCancels
  <2> QED
      BY <2>1 DEF QueueInv
<1> QED
    BY <1>1, <1>2, <1>3, QueueAppends DEF Next, Step

(***************************************************************************)
(* A chat never runs a risky tool, whatever the model asks for and however *)
(* many chats queue at the same time; the rows a chat queued last are the  *)
(* risky calls of its turn handled so far, in their order.                 *)
(***************************************************************************)
THEOREM RiskyToolsAreQueued == Spec => []RiskyToolsWait
<1>1. TraceInv /\ QueueInv => RiskyToolsWait
      BY DEF TraceInv, ChatInv, QueueInv, QueuedAs, RiskyToolsWait
<1>2. Spec => []QueueInv
      BY QueueInit, QueueStays, TraceInvariant, PTL DEF Spec
<1> QED
    BY <1>1, <1>2, TraceInvariant, PTL

-----------------------------------------------------------------------------
(* Streams move on *)

Forward(g, h) ==
    /\ g.pc \notin Ended
    /\ \/ h.pc \in Ended
       \/ h.round > g.round
       \/ h.round = g.round /\ CallNo(h) > CallNo(g)
       \/ /\ h.round = g.round /\ CallNo(h) = CallNo(g)
          /\ StepNo(h) > StepNo(g)

\* A generator that goes on is at the next call, or in the next round.
LEMMA NextCallForward ==
    ASSUME NEW g, GenOK(g), g.pc \in {"execute", "log_result", "log_queued"},
           NEW h \in {g, Fed(g)}
    PROVE  Forward(g, NextCall(h))
<1>1. /\ h.calls = g.calls /\ h.pc = g.pc /\ h.at = g.at /\ h.round = g.round
      /\ DOMAIN h = DOMAIN g
      BY HandledFed DEF Active
<1>2. /\ g.round \in Nat /\ g.at \in Nat /\ {"pc", "calls", "at", "round"} \subseteq DOMAIN h
      BY <1>1 DEF GenOK, Generators
<1>3. CASE g.at < Len(g.calls)
  <2>1. NextCall(h) = [h EXCEPT !.pc = "call", !.at = @ + 1]
        BY <1>1, <1>3 DEF NextCall
  <2>2. NextCall(h).pc = "call" /\ NextCall(h).at = g.at + 1 /\ NextCall(h).round = g.round
        BY <1>1, <1>2, <2>1
  <2> QED
      BY <1>2, <2>2 DEF Forward, CallNo, Ended
<1>4. CASE ~(g.at < Len(g.calls))
  <2>1. NextCall(h) = [h EXCEPT !.round = @ + 1,
                           !.pc = IF h.round + 1 < MAX_TOOL_ROUNDS THEN "ask" ELSE "finish"]
        BY <1>1, <1>4 DEF NextCall
  <2>2. NextCall(h).round = g.round + 1
        BY <1>1, <1>2, <2>1
  <2> QED
      BY <1>2, <2>2 DEF Forward, Ended
<1> QED
    BY <1>3, <1>4

LEMMA StepForward ==
    ASSUME TraceInv, NEW c \in Chats, Start(c) \/ Step(c) \/ Cancel(c)
    PROVE  /\ \A d \in Chats : d # c => chat'[d] = chat[d]
           /\ Forward(chat[c], chat'[c])
<1> DEFINE g == chat[c]
           h == chat'[c]
<1>1. GenOK(g) /\ g \in Generators /\ chat \in [Chats -> Generators]
      BY DEF TraceInv, ChatInv
<1>2. \A d \in Chats : d # c => chat'[d] = chat[d]
      BY <1>1 DEF Start, Step, Cancel, Ask, Call, Execute, LogResult, Queue, Announce,
                  LogQueued, Finish, Goto, End
<1>3. ASSUME NEW how \in Ended, End(c, how), g.pc \notin Ended PROVE Forward(g, h)
      BY <1>1, <1>3 DEF End, Fresh, Forward
<1>4. ASSUME NEW to, Goto(c, to) PROVE h = [g EXCEPT !.pc = to]
      BY <1>1, <1>4 DEF Goto
<1>5. CASE Start(c)
  <2>1. g.pc = "idle" /\ h = [g EXCEPT !.pc = "ask"]
        BY <1>4, <1>5 DEF Start
  <2>2. h.pc = "ask" /\ h.round = g.round
        BY <1>1, <2>1 DEF Generators
  <2> QED
      BY <1>2, <2>1, <2>2 DEF Forward, CallNo, StepNo, Ended
<1>6. CASE Ask(c)
  <2>1. CASE End(c, "closed") \/ End(c, "aborted")
        BY <1>2, <1>3, <1>6, <2>1 DEF Ask, Ended
  <2>2. CASE Goto(c, "finish")
    <3>1. h = [g EXCEPT !.pc = "finish"] /\ g.pc = "ask"
          BY <1>4, <1>6, <2>2 DEF Ask
    <3>2. h.pc = "finish" /\ h.at = g.at /\ h.round = g.round /\ g.at \in Nat
          BY <1>1, <3>1 DEF Generators
    <3> QED
        BY <1>2, <3>1, <3>2 DEF Forward, CallNo, StepNo, Ended
  <2>3. CASE \E n \in 1..MaxCalls : \E calls \in [1..n -> Names] :
                 chat' = [chat EXCEPT ![c].pc = "call", ![c].calls = calls, ![c].at = 1,
                                      ![c].replies = [k \in 1..n |-> 0]]
    <3>0. PICK n \in 1..MaxCalls : \E calls \in [1..n -> Names] :
              chat' = [chat EXCEPT ![c].pc = "call", ![c].calls = calls, ![c].at = 1,
                                   ![c].replies = [k \in 1..n |-> 0]]
          BY <2>3
    <3>4. PICK calls \in [1..n -> Names] :
              chat' = [chat EXCEPT ![c].pc = "call", ![c].calls = calls, ![c].at = 1,
                                   ![c].replies = [k \in 1..n |-> 0]]
          BY <3>0
    <3> DEFINE none == [k \in 1..n |-> 0]
    <3>2. h = [g EXCEPT !.pc = "call", !.calls = calls, !.at = 1, !.replies = none]
          BY <1>1, <3>4, Zenon
    <3> HIDE DEF none
    <3>1. h.pc = "call" /\ h.at = 1 /\ h.round = g.round /\ g.pc = "ask"
          BY <1>1, <1>6, <3>2 DEF Ask, Generators
    <3> QED
        BY <1>2, <3>1 DEF Forward, CallNo, Ended
  <2> QED
      BY <1>6, <2>1, <2>2, <2>3 DEF Ask
<1>7. CASE Call(c)
  <2>1. /\ g.pc = "call"
        /\ h = [g EXCEPT !.pc = "execute"] \/ h = [g EXCEPT !.pc = "queue"]
        BY <1>4, <1>7 DEF Call
  <2>2. h.pc \in {"execute", "queue"} /\ h.at = g.at /\ h.round = g.round
        BY <1>1, <2>1 DEF Generators
  <2> QED
      BY <1>2, <2>1, <2>2 DEF Forward, CallNo, StepNo, Ended
<1>8. ASSUME NEW to, h = [Fed(g) EXCEPT !.pc = to],
             \/ g.pc = "execute" /\ to = "log_result"
             \/ g.pc = "announce" /\ to = "log_queued"
      PROVE  Forward(g, h)
  <2>1. /\ Fed(g).pc = g.pc /\ Fed(g).at = g.at /\ Fed(g).round = g.round
        /\ DOMAIN Fed(g) = DOMAIN g
        BY <1>1, <1>8, HandledFed DEF Active
  <2>2. h.pc = to /\ h.at = g.at /\ h.round = g.round
        BY <1>1, <1>8, <2>1 DEF Generators
  <2> QED
      BY <1>8, <2>2 DEF Forward, CallNo, StepNo, Ended
<1>9. CASE Execute(c)
      BY <1>1, <1>2, <1>8, <1>9, NextCallForward DEF Execute
<1>10. CASE LogResult(c)
      BY <1>1, <1>2, <1>10, NextCallForward DEF LogResult
<1>11. CASE Queue(c)
  <2>1. CASE chat' = [chat EXCEPT ![c].pc = "announce", ![c].id = Len(rows) + 1]
    <3>1. h.pc = "announce" /\ h.at = g.at /\ h.round = g.round /\ g.pc = "queue"
          BY <1>1, <1>11, <2>1 DEF Queue, Generators
    <3> QED
        BY <1>2, <3>1 DEF Forward, CallNo, StepNo, Ended
  <2> QED
      BY <1>2, <1>3, <1>11, <2>1 DEF Queue, Ended
<1>12. CASE Announce(c)
      BY <1>1, <1>2, <1>8, <1>12 DEF Announce
<1>13. CASE LogQueued(c)
  <2>1. CASE chat' = [chat EXCEPT ![c] = NextCall(@)]
        BY <1>1, <1>2, <1>13, <2>1, NextCallForward DEF LogQueued
  <2> QED
      BY <1>2, <1>3, <1>13, <2>1 DEF LogQueued, Ended
<1>14. CASE Finish(c) \/ Cancel(c)
      BY <1>2, <1>3, <1>14 DEF Finish, Cancel, Running, Ended
<1> QED
    BY <1>5, <1>6, <1>7, <1>9, <1>10, <1>11, <1>12, <1>13, <1>14 DEF Step

(***************************************************************************)
(* For any number of rounds and calls: a stream never goes back, so that   *)
(* its model has at most MAX_TOOL_ROUNDS turns and each call of a turn is  *)
(* handled once, whatever fails.                                           *)
(***************************************************************************)
THEOREM StreamsGoForward == Spec => StreamsMoveOn
<1>1. ASSUME TraceInv, [Next]_vars, NEW c \in Chats, chat'[c] # chat[c]
      PROVE  Forward(chat[c], chat'[c])
  <2>1. CASE Crash
        BY <1>1, <2>1, CrashCancels DEF Crash, Running, Forward, Fresh, Ended
  <2>2. ASSUME NEW d \in Chats, Start(d) \/ Step(d) \/ Cancel(d)
        PROVE  Forward(chat[c], chat'[c])
        BY <1>1, <2>2, StepForward
  <2> QED
      BY <1>1, <2>1, <2>2 DEF Next, vars
<1>2. TraceInv /\ [Next]_vars =>
          [\A c \in Chats : chat'[c] # chat[c] => Forward(chat[c], chat'[c])]_vars
      BY <1>1
<1>3. (\A c \in Chats : chat'[c] # chat[c] => Forward(chat[c], chat'[c]))
      => \A c \in Chats :
          LET g == chat[c]
              h == chat'[c]
          IN  h # g => /\ g.pc \notin Ended
                       /\ \/ h.pc \in Ended
                          \/ h.round > g.round
                          \/ h.round = g.round /\ CallNo(h) > CallNo(g)
                          \/ /\ h.round = g.round /\ CallNo(h) = CallNo(g)
                             /\ StepNo(h) > StepNo(g)
      BY DEF Forward
<1> QED
    BY <1>2, <1>3, TraceInvariant, PTL DEF Spec, StreamsMoveOn

-----------------------------------------------------------------------------
(* The chats and the approval queue together: see AgentHub *)

\* What is proved of the queue, for the table the chats fill.
Handlers == INSTANCE ApprovalQueueProofs WITH
                Approvals <- 1..MaxRows,
                MaxDbFaults <- MaxHandlerFaults,
                dbFaults <- handlerFaults

hubVars == <<vars, table>>

LEMMA SameAssumption == Handlers!ApprovalAssumption
  BY HubAssumption DEF Table!ApprovalAssumption, Handlers!ApprovalAssumption

LEMMA SameInit == Table!Init => Handlers!Init
  BY DEF Table!Init, Handlers!Init, Table!NoRequest, Handlers!NoRequest

LEMMA SameCreate ==
    ASSUME NEW a PROVE Table!create_approval(a) <=> Handlers!create_approval(a)
  BY DEF Table!create_approval, Handlers!create_approval

LEMMA SameReceive ==
    ASSUME NEW r PROVE Table!Receive(r) => Handlers!Receive(r)
<1>1. ASSUME NEW a \in 1..MaxRows, NEW u \in Admins
      PROVE  /\ Table!ReceiveApprove(r, a, u) => Handlers!ReceiveApprove(r, a, u)
             /\ Table!ReceiveDeny(r, a, u) => Handlers!ReceiveDeny(r, a, u)
      BY DEF Table!ReceiveApprove, Handlers!ReceiveApprove,
             Table!ReceiveDeny, Handlers!ReceiveDeny,
             Table!FetchPending, Handlers!FetchPending,
             Table!Admissible, Handlers!Admissible, Table!Busy, Handlers!Busy,
             Table!Resting, Handlers!Resting,
             Table!get_approvals, Handlers!get_approvals, Table!DbRaises, Handlers!DbRaises
<1> QED
    BY <1>1 DEF Table!Receive, Handlers!Receive

LEMMA SameStep ==
    ASSUME NEW r PROVE Table!Step(r) => Handlers!Step(r)
<1> USE DEF Table!Continue, Handlers!Continue, Table!Answers, Handlers!Answers,
            Table!DbRaises, Handlers!DbRaises
<1>1. /\ Table!MarkApproved(r) => Handlers!MarkApproved(r)
      /\ Table!RecordExecuted(r) => Handlers!RecordExecuted(r)
      /\ Table!MarkFailed(r) => Handlers!MarkFailed(r)
      /\ Table!MarkDenied(r) => Handlers!MarkDenied(r)
      BY DEF Table!MarkApproved, Handlers!MarkApproved,
             Table!RecordExecuted, Handlers!RecordExecuted,
             Table!MarkFailed, Handlers!MarkFailed, Table!MarkDenied, Handlers!MarkDenied,
             Table!UpdateRow, Handlers!UpdateRow,
             Table!update_approval, Handlers!update_approval,
             Table!COALESCE, Handlers!COALESCE
<1>2. /\ Table!LogSuccess(r) => Handlers!LogSuccess(r)
      /\ Table!LogFailed(r) => Handlers!LogFailed(r)
      /\ Table!LogDenied(r) => Handlers!LogDenied(r)
      BY DEF Table!LogSuccess, Handlers!LogSuccess, Table!LogFailed, Handlers!LogFailed,
             Table!LogDenied, Handlers!LogDenied, Table!LogEntry, Handlers!LogEntry,
             Table!log_activity, Handlers!log_activity
<1>3. Table!ExecuteTool(r) => Handlers!ExecuteTool(r)
      BY DEF Table!ExecuteTool, Handlers!ExecuteTool
<1> QED
    BY <1>1, <1>2, <1>3 DEF Table!Step, Handlers!Step

LEMMA SameCrash == Table!Crash => Handlers!Crash
  BY DEF Table!Crash, Handlers!Crash, Table!Busy, Handlers!Busy,
         Table!Resting, Handlers!Resting

LEMMA ChatsInHub == [HubNext]_hubVars => [Next]_vars
  BY DEF HubNext, ChatRuns, HandlerRuns, ProcessDies, Next, hubVars

(***************************************************************************)
(* In the hub the chats do what AgentChat says, so that all its theorems   *)
(* hold whatever administrators decide meanwhile.                          *)
(***************************************************************************)
THEOREM HubRunsChats == HubSpec => Spec
  BY ChatsInHub, PTL DEF HubSpec, HubInit, Spec, hubVars

LEMMA TraceInHub == HubSpec => []TraceInv
  BY HubRunsChats, TraceInvariant, PTL

\* A step of a chat leaves the rows alone or adds one at their end.
LEMMA RowsGrow ==
    ASSUME TraceInv, NEW c \in Chats, Start(c) \/ Step(c) \/ Cancel(c)
    PROVE  /\ Len(rows) \in Nat /\ DOMAIN rows = 1..Len(rows)
           /\ \/ UNCHANGED rows
              \/ Len(rows') = Len(rows) + 1 /\ DOMAIN rows' = 1..Len(rows')
<1>1. rows \in Seq([by : Chats, tool : RiskyTools])
      BY DEF TraceInv, ChatInv
<1>2. CASE Queue(c)
  <2>1. CASE rows' = Append(rows, [by |-> c, tool |-> tool(c)])
    <3>1. tool(c) \in RiskyTools
          BY <1>2 DEF TraceInv, ChatInv, GenOK, TurnInv, Queue, tool
    <3> QED
        BY <1>1, <2>1, <3>1
  <2> QED
      BY <1>1, <1>2, <2>1 DEF Queue
<1>3. CASE ~Queue(c)
  <2>1. UNCHANGED rows
        BY <1>3 DEF Start, Step, Cancel, Ask, Call, Execute, LogResult, Announce,
                    LogQueued, Finish
  <2> QED
      BY <1>1, <2>1
<1> QED
    BY <1>2, <1>3

\* What the hub does to the table is what the queue may do to it.
LEMMA TableMoves ==
    ASSUME TraceInv, [HubNext]_hubVars
    PROVE  \/ /\ UNCHANGED rows
              /\ \/ UNCHANGED table
                 \/ Table!Crash
                 \/ \E r \in Requests : Table!Receive(r) \/ Table!Step(r)
           \/ /\ Len(rows) \in Nat /\ DOMAIN rows = 1..Len(rows)
              /\ Len(rows') = Len(rows) + 1 /\ DOMAIN rows' = 1..Len(rows')
              /\ Len(rows') \in 1..MaxRows
              /\ Table!create_approval(Len(rows'))
<1>1. ASSUME NEW c \in Chats, ChatRuns(c), ~UNCHANGED rows
      PROVE  /\ Len(rows) \in Nat /\ DOMAIN rows = 1..Len(rows)
             /\ Len(rows') = Len(rows) + 1 /\ DOMAIN rows' = 1..Len(rows')
             /\ Len(rows') \in 1..MaxRows
             /\ Table!create_approval(Len(rows'))
  <2>1. /\ Len(rows) \in Nat /\ DOMAIN rows = 1..Len(rows)
        /\ Len(rows') = Len(rows) + 1 /\ DOMAIN rows' = 1..Len(rows')
        BY <1>1, RowsGrow DEF ChatRuns
  <2>2. Len(rows') # Len(rows)
    <3>1. \A n \in Nat : n + 1 # n
          OBVIOUS
    <3> QED
        BY <2>1, <3>1, Zenon
  <2>3. Len(rows') <= MaxRows /\ Table!create_approval(Len(rows'))
        BY <1>1, <2>2 DEF ChatRuns
  <2> QED
      BY <2>1, <2>3, HubAssumption
<1>2. ASSUME NEW c \in Chats, ChatRuns(c), UNCHANGED rows PROVE UNCHANGED table
      BY <1>2 DEF ChatRuns
<1>3. ASSUME NEW r \in Requests, HandlerRuns(r)
      PROVE  UNCHANGED rows /\ (Table!Receive(r) \/ Table!Step(r))
      BY <1>3 DEF HandlerRuns, vars
<1>4. ASSUME ProcessDies PROVE UNCHANGED rows /\ (UNCHANGED table \/ Table!Crash)
      BY <1>4 DEF ProcessDies, Crash, vars
<1>5. ASSUME UNCHANGED hubVars PROVE UNCHANGED rows /\ UNCHANGED table
      BY <1>5 DEF hubVars, vars
<1> QED
    BY <1>1, <1>2, <1>3, <1>4, <1>5 DEF HubNext

(***************************************************************************)
(* In the hub the table and the handlers do what ApprovalQueue says: the   *)
(* chats queue no row twice and write no other column.                     *)
(***************************************************************************)
THEOREM HubRunsTheQueue == HubSpec => Table!Spec
<1>1. TraceInv /\ [HubNext]_hubVars => [Table!Next]_Table!vars
      BY TableMoves DEF Table!Next, table, Table!vars
<1> QED
    BY <1>1, TraceInHub, PTL DEF HubSpec, HubInit, Table!Spec, hubVars

LEMMA QueueInHub == HubSpec => Handlers!Spec
<1>1. TraceInv /\ [HubNext]_hubVars => [Handlers!Next]_Handlers!vars
      BY TableMoves, SameCreate, SameReceive, SameStep, SameCrash
      DEF Handlers!Next, table, Handlers!vars
<1>2. HubInit => Handlers!Init
      BY SameInit DEF HubInit
<1> QED
    BY <1>1, <1>2, TraceInHub, PTL DEF HubSpec, Handlers!Spec, hubVars

(***************************************************************************)
(* A tool call that a chat queued takes effect at most once, if calls      *)
(* about a row do not overlap: what is proved of the queue holds of the    *)
(* rows the chats put there.                                               *)
(***************************************************************************)
THEOREM HubRunsRowsOnce == ASSUME ~Overlap PROVE HubSpec => []Table!RunsAtMostOnce
<1>1. Handlers!Spec => []Handlers!RunsAtMostOnce
      BY SameAssumption, Handlers!SerialRunsAtMostOnce
<1>2. Handlers!RunsAtMostOnce => Table!RunsAtMostOnce
      BY DEF Handlers!RunsAtMostOnce, Table!RunsAtMostOnce
<1> QED
    BY <1>1, <1>2, QueueInHub, PTL

(***************************************************************************)
(* Neither property of the hub is inductive: they need what the two parts  *)
(* keep, and that the rows the chats have added are exactly those that are *)
(* in the handlers' table.                                                 *)
(***************************************************************************)
RowsMatch ==
    /\ DOMAIN rows \subseteq 1..MaxRows
    /\ \A i \in 1..MaxRows : approvals[i].status = "absent" <=> i \notin DOMAIN rows

HubInv ==
    /\ TraceInv
    /\ ran \cap UnknownTools = {}
    /\ Handlers!AdminInv
    /\ Handlers!QueuedInv
    /\ Handlers!CostInv
    /\ RowsMatch

LEMMA HubInitially == HubInit => HubInv
<1> SUFFICES ASSUME HubInit PROVE HubInv
    OBVIOUS
<1>1. Init /\ Handlers!Init
      BY SameInit DEF HubInit
<1>2. Handlers!TypeInv /\ Handlers!QueuedInv
      BY <1>1, SameAssumption, Handlers!TypeInit, Handlers!QueuedInit
<1>3. Handlers!AdminInv
      BY <1>1, <1>2 DEF Handlers!Init, Handlers!AdminInv, Handlers!RunsNeedAnAdmin,
                        Handlers!PastDecision, Handlers!NoRequest,
                        Handlers!ApproveSteps, Handlers!DenySteps
<1>4. RowsMatch
      BY <1>1 DEF Init, Handlers!Init, RowsMatch
<1>5. TraceInv /\ ran = {}
      BY <1>1, TraceInit DEF Init
<1>6. Handlers!CostInv
      BY <1>1, SameAssumption, Handlers!CostInit
<1> QED
    BY <1>2, <1>3, <1>4, <1>5, <1>6 DEF HubInv

\* A tool that takes effect is in the registry.
LEMMA OnlyKnownToolsRun ==
    ASSUME [Next]_vars PROVE \A t \in ran' \ ran : t \notin UnknownTools
<1>1. ASSUME NEW c \in Chats, Start(c) \/ Step(c) \/ Cancel(c)
      PROVE  ran' = ran \/ (tool(c) \notin UnknownTools /\ ran' = ran \cup {tool(c)})
      BY <1>1 DEF Start, Step, Cancel, Ask, Call, Execute, LogResult, Queue, Announce,
                  LogQueued, Finish
<1> QED
    BY <1>1 DEF Next, Crash, vars

LEMMA ItemOfSeq == ASSUME NEW S, NEW q \in Seq(S), NEW i \in DOMAIN q PROVE q[i] \in S
  OBVIOUS

LEMMA RowsAreTyped ==
    ASSUME TraceInv, NEW i \in DOMAIN rows
    PROVE  rows[i].by \in Chats /\ rows[i].tool \in RiskyTools
<1>1. rows[i] \in [by : Chats, tool : RiskyTools]
      BY ItemOfSeq DEF TraceInv, ChatInv
<1> QED
    BY <1>1

LEMMA RowsKeepMatching ==
    ASSUME HubInv, [HubNext]_hubVars
    PROVE  RowsMatch'
<1>1. TraceInv /\ RowsMatch /\ Handlers!QueuedInv /\ Handlers!ApprovalAssumption
      BY SameAssumption DEF HubInv
<1>2. CASE /\ UNCHANGED rows
           /\ \/ UNCHANGED table
              \/ Table!Crash
              \/ \E r \in Requests : Table!Receive(r) \/ Table!Step(r)
  <2>1. \/ UNCHANGED Handlers!vars
        \/ Handlers!Crash
        \/ \E r \in Requests : Handlers!Receive(r) \/ Handlers!Step(r)
        BY <1>2, SameCrash, SameReceive, SameStep DEF table, Handlers!vars
  <2>2. \A i \in 1..MaxRows :
            approvals'[i].status = "absent" <=> approvals[i].status = "absent"
        BY <1>1, <2>1, Handlers!OnlyQueuingAdds
  <2> QED
      BY <1>1, <1>2, <2>2 DEF RowsMatch
<1>3. CASE /\ Len(rows) \in Nat /\ DOMAIN rows = 1..Len(rows)
           /\ Len(rows') = Len(rows) + 1 /\ DOMAIN rows' = 1..Len(rows')
           /\ Len(rows') \in 1..MaxRows
           /\ Table!create_approval(Len(rows'))
  <2> DEFINE n == Len(rows')
  <2>1. /\ approvals'[n].status = "pending"
        /\ \A i \in 1..MaxRows : i # n => approvals'[i] = approvals[i]
        BY <1>1, <1>3 DEF Table!create_approval, Handlers!QueuedInv, Handlers!TypeInv,
                          Handlers!TypeOK
  <2>2. DOMAIN rows' = DOMAIN rows \cup {n}
        BY <1>3
  <2> QED
      BY <1>1, <1>3, <2>1, <2>2 DEF RowsMatch
<1> QED
    BY <1>1, <1>2, <1>3, TableMoves

LEMMA HubStep == HubInv /\ [HubNext]_hubVars => HubInv'
<1> SUFFICES ASSUME HubInv, [HubNext]_hubVars PROVE HubInv'
    OBVIOUS
<1>1. TraceInv /\ TraceInv' /\ (ran \cap UnknownTools)' = {}
      BY ChatsInHub, TraceStep, OnlyKnownToolsRun DEF HubInv
<1>2. [Handlers!Next]_Handlers!vars
      BY <1>1, TableMoves, SameCreate, SameReceive, SameStep, SameCrash
      DEF Handlers!Next, table, Handlers!vars
<1>3. Handlers!AdminInv' /\ Handlers!QueuedInv'
      BY <1>2, SameAssumption, Handlers!AdminStep, Handlers!QueuedStep DEF HubInv
<1>4. Handlers!CostInv'
      BY <1>2, SameAssumption, Handlers!CostStep DEF HubInv
<1> QED
    BY <1>1, <1>3, <1>4, RowsKeepMatching DEF HubInv

LEMMA HubInvariant == HubSpec => []HubInv
  BY HubInitially, HubStep, PTL DEF HubSpec, hubVars

(***************************************************************************)
(* From end to end, for any number of chats, rows, administrators' calls,  *)
(* errors and crashes: no chat makes a risky tool or an unknown name take  *)
(* effect, and each row whose tool took effect was queued by a chat, is    *)
(* signed by an administrator and was approved by a call that ran it.      *)
(***************************************************************************)
THEOREM HubEffectsAreApproved == HubSpec => []EffectsAreApproved
<1>1. ASSUME HubInv PROVE EffectsAreApproved
  <2>1. ran \cap (RiskyTools \cup UnknownTools) = {}
        BY <1>1 DEF HubInv, TraceInv, ChatInv
  <2>2. ASSUME NEW i \in 1..MaxRows, runs[i] > 0
        PROVE  /\ i \in DOMAIN rows /\ rows[i].tool \in RiskyTools
               /\ approvals[i].reviewed_by \in Admins
               /\ \E r \in Requests : /\ req[r].op = "approve" /\ req[r].id = i
                                      /\ req[r].outcome # None
    <3>1. /\ approvals[i].status \notin {"absent", "pending"}
          /\ approvals[i].reviewed_by \in Admins
          BY <1>1, <2>2 DEF HubInv, Handlers!AdminInv, Handlers!RunsNeedAnAdmin
    <3>2. i \in DOMAIN rows
          BY <1>1, <3>1 DEF HubInv, RowsMatch
    <3>3. rows[i].tool \in RiskyTools
          BY <1>1, <3>2, RowsAreTyped DEF HubInv
    <3>4. \E r \in Requests : /\ req[r].op = "approve" /\ req[r].id = i
                               /\ req[r].outcome # None
          BY <1>1, <2>2, SameAssumption, Handlers!RunIsApproved DEF HubInv
    <3> QED
        BY <3>1, <3>2, <3>3, <3>4
  <2> QED
      BY <2>1, <2>2 DEF EffectsAreApproved
<1> QED
    BY <1>1, HubInvariant, PTL

(***************************************************************************)
(* For any number of chats and handlers, whatever breaks: what the log     *)
(* says an administrator decided, it says a chat asked for, unless that    *)
(* chat has yet to say so, or broke off over this one row.                 *)
(***************************************************************************)
THEOREM HubDecisionsAreTraced == HubSpec => []DecisionsAreTraced
<1>1. ASSUME HubInv, NEW e \in audit, e.id \notin logged
      PROVE  /\ e.id \in DOMAIN rows
             /\ \/ /\ chat[rows[e.id].by].pc \in {"announce", "log_queued"}
                   /\ chat[rows[e.id].by].id = e.id
                \/ chat[rows[e.id].by].pc \in {"aborted", "cancelled"}
             /\ \A i \in DOMAIN rows :
                    rows[i].by = rows[e.id].by => i \in logged \/ i = e.id
  <2>1. e.id \in 1..MaxRows /\ approvals[e.id].status # "absent"
        BY <1>1 DEF HubInv, Handlers!QueuedInv, Handlers!TypeInv, Handlers!TypeOK,
                    Handlers!Entries
  <2>2. e.id \in DOMAIN rows
        BY <1>1, <2>1 DEF HubInv, RowsMatch
  <2>3. rows[e.id].by \in Chats
        BY <1>1, <2>2, RowsAreTyped DEF HubInv
  <2>4. RowsOf(rows[e.id].by) /\ e.id \in Unlogged(rows[e.id].by)
        BY <1>1, <2>2, <2>3 DEF HubInv, TraceInv, RowsInv, Unlogged
  <2> QED
      BY <2>2, <2>4 DEF RowsOf, Unlogged
<1>2. HubInv => DecisionsAreTraced
      BY <1>1 DEF DecisionsAreTraced
<1> QED
    BY <1>2, HubInvariant, PTL
==============================================================================
