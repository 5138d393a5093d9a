------------------------------ MODULE AuditProofs -----------------------------
(***************************************************************************)
(* The log of an audited handler is truthful, for any number of calls and  *)
(* database errors: what the operations on EC2 instances, on Kubernetes    *)
(* nodes and at the other providers inherit by implementing                *)
(* AuditedOperation.                                                       *)
(***************************************************************************)
EXTENDS AuditedOperation, FiniteSetTheorems, TLAPS

USE AuditAssumption

\* What is already logged, and what has worked, at each stage of a handler.
StageInv ==
    \A c \in Calls :
        /\ stage[c] \in {"idle", "refused", "running", "log_ok", "log_fail"} => audit[c] = {}
        /\ stage[c] \in {"log_ok", "reply_ok"} => worked[c]
        /\ stage[c] = "reply_ok" => audit[c] = {"OK"}
        /\ stage[c] \in {"idle", "running"} => ~worked[c]

\* The calls that worked and will be, or were, reported as failures.
Misreported == {c \in Calls : worked[c] /\ stage[c] \in {"log_fail", "reply_error", "error"}}
Unlogged == {c \in Calls : stage[c] \in {"reply_error", "error"} /\ audit[c] = {}}

\* Each of them cost a database error of its own.
FaultsInv == Cardinality(Misreported) + Cardinality(Unlogged) <= dbFaults

AuditInv == TypeOK /\ StageInv /\ LogAgreesWithAnswers /\ FaultsInv

\* Sets of calls can be counted; a smaller one counts less, one more call one more.
LEMMA Counting ==
    ASSUME NEW S \in SUBSET Calls
    PROVE  /\ Cardinality(S) \in Nat
           /\ \A R \in SUBSET S : Cardinality(R) <= Cardinality(S) /\ Cardinality(R) \in Nat
           /\ \A c \in Calls : \A T \in SUBSET (S \cup {c}) :
                  Cardinality(T) <= Cardinality(S) + 1 /\ Cardinality(T) \in Nat
<1>1. IsFiniteSet(S) /\ Cardinality(S) \in Nat
      BY FS_Subset, FS_CardinalityType
<1>2. \A R \in SUBSET S : Cardinality(R) <= Cardinality(S) /\ Cardinality(R) \in Nat
      BY <1>1, FS_Subset, FS_CardinalityType
<1>3. ASSUME NEW c \in Calls, NEW T \in SUBSET (S \cup {c})
      PROVE  Cardinality(T) <= Cardinality(S) + 1 /\ Cardinality(T) \in Nat
  <2>1. IsFiniteSet(S \cup {c}) /\ Cardinality(S \cup {c}) <= Cardinality(S) + 1
    <3>1. /\ IsFiniteSet(S \cup {c})
          /\ \/ Cardinality(S \cup {c}) = Cardinality(S)
             \/ Cardinality(S \cup {c}) = Cardinality(S) + 1
          BY <1>1, FS_AddElement, Zenon
    <3> QED
        BY <1>1, <3>1
  <2>2. /\ Cardinality(T) <= Cardinality(S \cup {c}) /\ Cardinality(T) \in Nat
        /\ Cardinality(S \cup {c}) \in Nat
        BY <2>1, FS_Subset, FS_CardinalityType
  <2> QED
      BY <1>1, <2>1, <2>2
<1> QED
    BY <1>1, <1>2, <1>3

LEMMA AuditInit == Init => AuditInv
<1> SUFFICES ASSUME Init PROVE AuditInv
    OBVIOUS
<1>1. TypeOK /\ StageInv /\ LogAgreesWithAnswers
      BY DEF Init, TypeOK, StageInv, LogAgreesWithAnswers, Stages, InFlight, Answers
<1>2. Misreported = {} /\ Unlogged = {} /\ dbFaults = 0
      BY DEF Init, Misreported, Unlogged
<1>3. FaultsInv
      BY <1>2, FS_EmptySet DEF FaultsInv
<1> QED
    BY <1>1, <1>3 DEF AuditInv

\* A step of one handler disturbs no other.
LEMMA CallKeepsLog ==
    ASSUME TypeOK, StageInv, LogAgreesWithAnswers, NEW c \in Calls,
           Receive(c) \/ ServiceReturns(c) \/ ServiceRaises(c) \/ LogOK(c) \/ LogFail(c)
           \/ Answer(c)
    PROVE  TypeOK' /\ StageInv' /\ LogAgreesWithAnswers'
<1> USE DEF TypeOK, StageInv, LogAgreesWithAnswers, Stages, InFlight, Answers, Goto
<1>1. CASE Receive(c)
      BY <1>1 DEF Receive
<1>2. CASE ServiceReturns(c)
      BY <1>2 DEF ServiceReturns
<1>3. CASE ServiceRaises(c)
      BY <1>3 DEF ServiceRaises
<1>4. CASE LogOK(c)
      BY <1>4 DEF LogOK, Writes, WriteRaises
<1>5. CASE LogFail(c)
      BY <1>5 DEF LogFail, Writes, WriteRaises
<1>6. CASE Answer(c)
      BY <1>6 DEF Answer
<1> QED
    BY <1>1, <1>2, <1>3, <1>4, <1>5, <1>6

\* A step after which neither set has grown.
LEMMA NoneMisreported ==
    ASSUME FaultsInv, TypeOK, dbFaults' = dbFaults,
           Misreported' \subseteq Misreported, Unlogged' \subseteq Unlogged
    PROVE  FaultsInv'
<1>1. Misreported \in SUBSET Calls /\ Unlogged \in SUBSET Calls
      BY DEF Misreported, Unlogged
<1>2. /\ Cardinality(Misreported') <= Cardinality(Misreported)
      /\ Cardinality(Unlogged') <= Cardinality(Unlogged)
      /\ Cardinality(Misreported) \in Nat /\ Cardinality(Misreported') \in Nat
      /\ Cardinality(Unlogged) \in Nat /\ Cardinality(Unlogged') \in Nat
      BY <1>1, Counting
<1>3. Cardinality(Misreported') + Cardinality(Unlogged') <= dbFaults
      BY <1>2 DEF FaultsInv, TypeOK
<1> QED
    BY <1>3 DEF FaultsInv

\* A step that cost an error, after which one of the sets has one more call.
LEMMA OneMisreported ==
    ASSUME FaultsInv, TypeOK, NEW c \in Calls, dbFaults' = dbFaults + 1,
           \/ Misreported' \subseteq Misreported \cup {c} /\ Unlogged' \subseteq Unlogged
           \/ Misreported' \subseteq Misreported /\ Unlogged' \subseteq Unlogged \cup {c}
    PROVE  FaultsInv'
<1>1. Misreported \in SUBSET Calls /\ Unlogged \in SUBSET Calls
      BY DEF Misreported, Unlogged
<1>2. /\ Cardinality(Misreported) \in Nat /\ Cardinality(Unlogged) \in Nat
      /\ Cardinality(Misreported') \in Nat /\ Cardinality(Unlogged') \in Nat
      /\ Cardinality(Misreported') + Cardinality(Unlogged')
             <= Cardinality(Misreported) + Cardinality(Unlogged) + 1
  <2>1. CASE Misreported' \subseteq Misreported \cup {c} /\ Unlogged' \subseteq Unlogged
        BY <1>1, <2>1, Counting
  <2>2. CASE Misreported' \subseteq Misreported /\ Unlogged' \subseteq Unlogged \cup {c}
        BY <1>1, <2>2, Counting
  <2> QED
      BY <2>1, <2>2
<1>3. Cardinality(Misreported') + Cardinality(Unlogged') <= dbFaults'
      BY <1>2 DEF FaultsInv, TypeOK
<1> QED
    BY <1>3 DEF FaultsInv

LEMMA CallCostsFaults ==
    ASSUME TypeOK, StageInv, FaultsInv, NEW c \in Calls,
           Receive(c) \/ ServiceReturns(c) \/ ServiceRaises(c) \/ LogOK(c) \/ LogFail(c)
           \/ Answer(c)
    PROVE  FaultsInv'
<1> USE DEF TypeOK, Stages, InFlight, Answers, Goto
<1>1. CASE Receive(c)
  <2>1. /\ Misreported' \subseteq Misreported /\ Unlogged' \subseteq Unlogged
        /\ dbFaults' = dbFaults
        BY <1>1 DEF Receive, Misreported, Unlogged
  <2> QED
      BY <2>1, NoneMisreported
<1>2. CASE ServiceReturns(c)
  <2>1. /\ Misreported' \subseteq Misreported /\ Unlogged' \subseteq Unlogged
        /\ dbFaults' = dbFaults
        BY <1>2 DEF ServiceReturns, Misreported, Unlogged
  <2> QED
      BY <2>1, NoneMisreported
<1>3. CASE ServiceRaises(c)
  <2>1. /\ Misreported' \subseteq Misreported /\ Unlogged' \subseteq Unlogged
        /\ dbFaults' = dbFaults
        BY <1>3 DEF ServiceRaises, Misreported, Unlogged, StageInv
  <2> QED
      BY <2>1, NoneMisreported
<1>4. CASE LogOK(c)
  <2>1. CASE Writes(c, "OK") /\ stage' = [stage EXCEPT ![c] = "reply_ok"]
    <3>1. /\ Misreported' \subseteq Misreported /\ Unlogged' \subseteq Unlogged
          /\ dbFaults' = dbFaults
          BY <1>4, <2>1 DEF LogOK, Writes, Misreported, Unlogged
    <3> QED
        BY <3>1, NoneMisreported
  <2>2. CASE WriteRaises /\ stage' = [stage EXCEPT ![c] = "log_fail"]
    <3>1. /\ Misreported' \subseteq Misreported \cup {c} /\ Unlogged' \subseteq Unlogged
          /\ dbFaults' = dbFaults + 1
          BY <1>4, <2>2 DEF LogOK, WriteRaises, Misreported, Unlogged
    <3> QED
        BY <3>1, OneMisreported
  <2> QED
      BY <1>4, <2>1, <2>2 DEF LogOK
<1>5. CASE LogFail(c)
  <2>1. CASE Writes(c, "FAIL")
    <3>1. /\ Misreported' \subseteq Misreported /\ Unlogged' \subseteq Unlogged
          /\ dbFaults' = dbFaults
          BY <1>5, <2>1 DEF LogFail, Writes, Misreported, Unlogged
    <3> QED
        BY <3>1, NoneMisreported
  <2>2. CASE WriteRaises
    <3>1. /\ Misreported' \subseteq Misreported /\ Unlogged' \subseteq Unlogged \cup {c}
          /\ dbFaults' = dbFaults + 1
          BY <1>5, <2>2 DEF LogFail, WriteRaises, Misreported, Unlogged
    <3> QED
        BY <3>1, OneMisreported
  <2> QED
      BY <1>5, <2>1, <2>2 DEF LogFail
<1>6. CASE Answer(c)
  <2>1. /\ Misreported' \subseteq Misreported /\ Unlogged' \subseteq Unlogged
        /\ dbFaults' = dbFaults
        BY <1>6 DEF Answer, Misreported, Unlogged
  <2> QED
      BY <2>1, NoneMisreported
<1> QED
    BY <1>1, <1>2, <1>3, <1>4, <1>5, <1>6

LEMMA AuditStep == AuditInv /\ [Next]_vars => AuditInv'
<1> SUFFICES ASSUME AuditInv, [Next]_vars PROVE AuditInv'
    OBVIOUS
<1>1. ASSUME NEW c \in Calls,
             Receive(c) \/ ServiceReturns(c) \/ ServiceRaises(c) \/ LogOK(c) \/ LogFail(c)
           \/ Answer(c)
      PROVE  AuditInv'
      BY <1>1, CallKeepsLog, CallCostsFaults DEF AuditInv
<1>2. CASE Crash
  <2>1. (TypeOK /\ StageInv /\ LogAgreesWithAnswers)'
        BY <1>2 DEF Crash, AuditInv, TypeOK, StageInv, LogAgreesWithAnswers,
                    Stages, InFlight, Answers
  <2>2. /\ Misreported' \subseteq Misreported /\ Unlogged' \subseteq Unlogged
        /\ dbFaults' = dbFaults
        BY <1>2 DEF Crash, AuditInv, TypeOK, Misreported, Unlogged, InFlight
  <2> QED
      BY <2>1, <2>2, NoneMisreported DEF AuditInv
<1>3. CASE UNCHANGED vars
      BY <1>3 DEF vars, AuditInv, TypeOK, StageInv, LogAgreesWithAnswers, FaultsInv,
                  Misreported, Unlogged
<1> QED
    BY <1>1, <1>2, <1>3 DEF Next

LEMMA FaultsExplain == AuditInv => MisreportsAreFaults
<1> SUFFICES ASSUME AuditInv PROVE MisreportsAreFaults
    OBVIOUS
<1> DEFINE errors == {c \in Calls : stage[c] = "error"}
           W == {c \in errors : worked[c]}
           U == {c \in errors : audit[c] = {}}
<1>1. W \in SUBSET Misreported /\ U \in SUBSET Unlogged
      BY DEF Misreported, Unlogged
<1>2. Misreported \in SUBSET Calls /\ Unlogged \in SUBSET Calls
      BY DEF Misreported, Unlogged
<1>3. /\ Cardinality(W) <= Cardinality(Misreported)
      /\ Cardinality(W) \in Nat /\ Cardinality(Misreported) \in Nat
      /\ Cardinality(U) <= Cardinality(Unlogged)
      /\ Cardinality(U) \in Nat /\ Cardinality(Unlogged) \in Nat
      BY <1>1, <1>2, Counting
<1> HIDE DEF W, U
<1>4. Cardinality(W) + Cardinality(U) <= dbFaults
      BY <1>1, <1>3 DEF AuditInv, FaultsInv, TypeOK
<1> USE DEF W, U
<1> QED
    BY <1>4 DEF MisreportsAreFaults

(***************************************************************************)
(* The verdict in the log is that of the answer: "OK" for each call that   *)
(* is answered with success, all of which worked, and for no other but one *)
(* that worked and was lost in a crash between the commit and the answer.  *)
(***************************************************************************)
THEOREM AuditIsTruthful == Spec => []LogAgreesWithAnswers
<1>1. AuditInv => LogAgreesWithAnswers
      BY DEF AuditInv
<1> QED
    BY <1>1, AuditInit, AuditStep, PTL DEF Spec

(***************************************************************************)
(* Of the calls that worked and were reported as failures, and the errors  *)
(* left out of the log, each cost a database error of its own.             *)
(***************************************************************************)
THEOREM MisreportsCostFaults == Spec => []MisreportsAreFaults
  BY FaultsExplain, AuditInit, AuditStep, PTL DEF Spec
=============================================================================
