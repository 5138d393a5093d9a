----------------------------- MODULE SessionProofs ----------------------------
(***************************************************************************)
(* What the limiter of logins guarantees for every limit, window and       *)
(* number of clients; then what sessions are bounded by, for any number of *)
(* calls and clients, any times to live and any history of the settings.   *)
(***************************************************************************)
EXTENDS Session, TLAPS

-----------------------------------------------------------------------------
(* The limiter of logins, by itself *)

\* q is what is left of h when its first k elements are gone.
IsRest(q, h, k) ==
    /\ k <= Len(h)
    /\ Len(q) = Len(h) - k
    /\ \A i \in 1..Len(q) : q[i] = h[k + i]

(***************************************************************************)
(* The table holds the latest admissions, and those it no longer holds     *)
(* have left the window.                                                   *)
(***************************************************************************)
TableInv ==
    \A c \in Clients :
        \E k \in Nat :
            /\ IsRest(attempts[c], admitted[c], k)
            /\ \A i \in 1..k : Expired(admitted[c][i])

LimiterInv == TypeOK /\ TableInv /\ WindowLimit /\ RefusedOnlyAtLimit

LEMMA LimiterInit == Init => LimiterInv
<1> SUFFICES ASSUME Init PROVE LimiterInv
    OBVIOUS
<1> USE LimiterAssumption DEF Init
<1>1. TypeOK
      BY DEF TypeOK, NoVerdict, Verdicts
<1>2. WindowLimit /\ RefusedOnlyAtLimit
      BY DEF WindowLimit, RefusedOnlyAtLimit, NoVerdict
<1>3. ASSUME NEW c \in Clients
      PROVE  IsRest(attempts[c], admitted[c], 0)
      BY DEF IsRest
<1>4. TableInv
  <2>1. 0 \in Nat /\ 1..0 = {}
        OBVIOUS
  <2> QED
      BY <1>3, <2>1 DEF TableInv
<1> QED
    BY <1>1, <1>2, <1>4 DEF LimiterInv

\* Popping n attempts leaves what is left of h when n more elements are gone.
LEMMA DropIsRest ==
    ASSUME NEW h \in Seq(Nat), NEW q \in Seq(Nat), NEW k \in Nat, NEW n \in 0..Len(q),
           IsRest(q, h, k)
    PROVE  /\ Drop(q, n) \in Seq(Nat)
           /\ Len(Drop(q, n)) = Len(q) - n
           /\ IsRest(Drop(q, n), h, k + n)
<1>1. /\ Drop(q, n) \in Seq(Nat)
      /\ Len(Drop(q, n)) = Len(q) - n
      /\ \A i \in 1..(Len(q) - n) : Drop(q, n)[i] = q[n + i]
      BY DEF Drop
<1>2. /\ Len(q) = Len(h) - k /\ k <= Len(h)
      /\ \A i \in 1..Len(q) : q[i] = h[k + i]
      BY DEF IsRest
<1>3. k + n <= Len(h) /\ Len(q) - n = Len(h) - (k + n)
      BY <1>2
<1>4. ASSUME NEW i \in 1..(Len(q) - n) PROVE Drop(q, n)[i] = h[(k + n) + i]
  <2>1. n + i \in 1..Len(q) /\ k + (n + i) = (k + n) + i
        OBVIOUS
  <2>2. Drop(q, n)[i] = q[n + i]
        BY <1>1
  <2>3. q[n + i] = h[k + (n + i)]
        BY <1>2, <2>1
  <2> QED
      BY <2>1, <2>2, <2>3
<1> QED
    BY <1>1, <1>3, <1>4 DEF IsRest

\* Two integers between which there is none.
LEMMA Squeeze ==
    ASSUME NEW a \in Int, NEW b \in Int
    PROVE  /\ a <= b /\ a >= b => a = b
           /\ a <= b + 1 /\ ~(a <= b) => a = b + 1
  OBVIOUS

\* A place and the place some way after it are both in range.
LEMMA Within ==
    ASSUME NEW i \in Int, NEW d \in Int, NEW n \in Int,
           i >= 1, d > 0, i + d <= n
    PROVE  i \in 1..n /\ i + d \in 1..n
  OBVIOUS

\* What Append does to a sequence of times.
LEMMA AppendFacts ==
    ASSUME NEW s \in Seq(Nat), NEW x \in Nat
    PROVE  /\ Append(s, x) \in Seq(Nat)
           /\ Len(Append(s, x)) = Len(s) + 1
           /\ \A i \in 1..Len(s) : Append(s, x)[i] = s[i]
           /\ Append(s, x)[Len(s) + 1] = x
  OBVIOUS

\* Appending to both keeps a sequence the rest of the other.
LEMMA AppendIsRest ==
    ASSUME NEW h \in Seq(Nat), NEW q \in Seq(Nat), NEW k \in Nat, NEW x \in Nat,
           IsRest(q, h, k)
    PROVE  IsRest(Append(q, x), Append(h, x), k)
<1>1. /\ Len(q) = Len(h) - k /\ k <= Len(h)
      /\ Len(q) \in Nat /\ Len(h) \in Nat
      /\ \A i \in 1..Len(q) : q[i] = h[k + i]
      BY DEF IsRest
<1>2. /\ Len(Append(h, x)) = Len(h) + 1 /\ Append(h, x)[Len(h) + 1] = x
      /\ \A i \in 1..Len(h) : Append(h, x)[i] = h[i]
      BY AppendFacts
<1>3. /\ Len(Append(q, x)) = Len(q) + 1 /\ Append(q, x)[Len(q) + 1] = x
      /\ \A i \in 1..Len(q) : Append(q, x)[i] = q[i]
      BY AppendFacts
<1>4. k <= Len(h) + 1 /\ Len(q) + 1 = (Len(h) + 1) - k
      BY <1>1
<1>5. ASSUME NEW i \in 1..(Len(q) + 1) PROVE Append(q, x)[i] = Append(h, x)[k + i]
  <2>1. CASE i = Len(q) + 1
    <3>1. k + i = Len(h) + 1
          BY <1>1, <2>1
    <3> QED
        BY <1>2, <1>3, <2>1, <3>1
  <2>2. CASE i # Len(q) + 1
    <3>1. i \in 1..Len(q) /\ k + i \in 1..Len(h)
          BY <1>1, <2>2
    <3>2. q[i] = h[k + i]
          BY <3>1, <1>1
    <3> QED
        BY <1>2, <1>3, <3>1, <3>2
  <2> QED
      BY <2>1, <2>2
<1> QED
    BY <1>2, <1>3, <1>4, <1>5 DEF IsRest

\* Every element dropped from h has expired when those of q that are popped have.
LEMMA DroppedExpired ==
    ASSUME NEW h \in Seq(Nat), NEW q \in Seq(Nat), NEW k \in Nat, NEW n \in 0..Len(q),
           IsRest(q, h, k),
           \A i \in 1..k : Expired(h[i]),
           \A i \in 1..n : Expired(q[i])
    PROVE  \A i \in 1..(k + n) : Expired(h[i])
<1> SUFFICES ASSUME NEW i \in 1..(k + n) PROVE Expired(h[i])
    OBVIOUS
<1>1. CASE i <= k
  <2>1. i \in 1..k
        BY <1>1
  <2> QED
      BY <2>1
<1>2. CASE i > k
  <2>1. i - k \in 1..n /\ i - k \in 1..Len(q) /\ k + (i - k) = i
        BY <1>2
  <2>2. q[i - k] = h[k + (i - k)]
        BY <2>1 DEF IsRest
  <2>3. Expired(q[i - k])
        BY <2>1
  <2> QED
      BY <2>1, <2>2, <2>3
<1> QED
    BY <1>1, <1>2

\* A call keeps the invariant, given what it finds: h without its first k
\* elements in the table, of which kept is not yet expired.
LEMMA VerdictStep ==
    ASSUME LimiterInv, NEW c \in Clients, NEW k \in Nat,
           NEW kept \in Seq(Nat), NEW h \in Seq(Nat), h = admitted[c],
           UNCHANGED <<now, restarts>>,
           IsRest(kept, h, k),
           \A i \in 1..k : Expired(h[i]),
           Len(kept) <= LIMIT,
           kept # <<>> => ~Expired(kept[1]),
           IF Len(kept) >= LIMIT THEN Refuse(c, kept) ELSE Admit(c, kept)
    PROVE  LimiterInv'
<1> USE LimiterAssumption
<1>0. LIMIT \in Nat /\ LIMIT > 0
      OBVIOUS
<1>1. /\ now \in Nat /\ Len(kept) \in Nat /\ Len(h) \in Nat
      /\ k <= Len(h) /\ Len(kept) = Len(h) - k
      BY DEF LimiterInv, TypeOK, IsRest
<1>2. \A i \in 1..k : Expired(h[i])'
      BY DEF Expired
<1>3. \A d \in Clients :
          \E m \in Nat : /\ IsRest(attempts[d], admitted[d], m)
                         /\ \A i \in 1..m : Expired(admitted[d][i])
      BY DEF LimiterInv, TableInv
<1>4. CASE Len(kept) >= LIMIT
  <2>1. Refuse(c, kept)
        BY <1>4
  <2>2. TypeOK'
        BY <2>1, <1>1 DEF Refuse, LimiterInv, TypeOK, Verdicts
  <2>3. /\ attempts'[c] = kept /\ admitted' = admitted
        /\ \A d \in Clients : d # c => attempts'[d] = attempts[d]
        BY <2>1 DEF Refuse, LimiterInv, TypeOK
  <2>4. TableInv'
    <3> SUFFICES ASSUME NEW d \in Clients
                 PROVE  \E m \in Nat :
                            /\ IsRest(attempts'[d], admitted'[d], m)
                            /\ \A i \in 1..m : Expired(admitted[d][i])'
        BY DEF TableInv
    <3>1. CASE d = c
          BY <3>1, <2>3, <1>2
    <3>2. CASE d # c
          BY <3>2, <2>3, <1>3 DEF Expired
    <3> QED
        BY <3>1, <3>2
  <2>5. WindowLimit'
        BY <2>3 DEF LimiterInv, WindowLimit
  <2>6. Len(h) >= LIMIT /\ now - h[(Len(h) - LIMIT) + 1] < WINDOW
    <3>1. Len(h) >= LIMIT /\ k = Len(h) - LIMIT /\ 1 \in 1..Len(kept)
      <4>1. Len(kept) = LIMIT
        <5>1. LIMIT \in Int /\ Len(kept) \in Int
              BY <1>0, <1>1
        <5> QED
            BY <5>1, <1>4, Squeeze
      <4> QED
          BY <4>1, <1>0, <1>1
    <3>2. kept # <<>>
          BY <3>1
    <3>3. kept[1] = h[k + 1] /\ kept[1] \in Nat
          BY <3>1 DEF IsRest
    <3>4. now - kept[1] < WINDOW
          BY <3>2, <3>3, <1>1, SMTT(30) DEF Expired
    <3> QED
        BY <3>1, <3>3, <3>4
  <2>7. RefusedOnlyAtLimit'
        BY <2>1, <2>6 DEF Refuse, LimiterInv, TypeOK, RefusedOnlyAtLimit
  <2> QED
      BY <2>2, <2>4, <2>5, <2>7 DEF LimiterInv
<1>5. CASE Len(kept) < LIMIT
  <2>1. Admit(c, kept)
        BY <1>1, <1>5
  <2> DEFINE q2 == Append(kept, now)
             h2 == Append(h, now)
  <2>2. /\ Len(q2) = Len(kept) + 1 /\ Len(h2) = Len(h) + 1
        /\ q2 \in Seq(Nat) /\ h2 \in Seq(Nat)
        /\ h2[Len(h) + 1] = now
        /\ \A i \in 1..Len(h) : h2[i] = h[i]
        BY <1>1, AppendFacts
  <2>3. IsRest(q2, h2, k)
        BY <1>1, AppendIsRest
  <2> HIDE DEF q2, h2
  <2>4. /\ attempts'[c] = q2 /\ admitted'[c] = h2
        /\ \A d \in Clients : d # c => attempts'[d] = attempts[d] /\ admitted'[d] = admitted[d]
        BY <2>1 DEF Admit, LimiterInv, TypeOK, q2, h2
  <2>5. TypeOK'
    <3>1. Len(q2) <= LIMIT
          BY <2>2, <1>0, <1>1, <1>5
    <3>2. \A d \in Clients : Len(attempts'[d]) <= LIMIT
          BY <3>1, <2>4 DEF LimiterInv, TypeOK
    <3> QED
        BY <3>2, <2>1, <1>1, <2>2 DEF Admit, LimiterInv, TypeOK, Verdicts, q2, h2
  <2>6. \A i \in 1..k : now' - h2[i] >= WINDOW
    <3> SUFFICES ASSUME NEW i \in 1..k PROVE now' - h2[i] >= WINDOW
        OBVIOUS
    <3>1. i \in 1..Len(h)
          BY <1>1
    <3>2. h2[i] = h[i]
          BY <3>1, <2>2
    <3> QED
        BY <3>2, <1>2 DEF Expired
  <2>7. TableInv'
    <3> SUFFICES ASSUME NEW d \in Clients
                 PROVE  \E m \in Nat :
                            /\ IsRest(attempts'[d], admitted'[d], m)
                            /\ \A i \in 1..m : Expired(admitted[d][i])'
        BY DEF TableInv
    <3>1. CASE d = c
          BY <3>1, <2>3, <2>4, <2>6 DEF Expired
    <3>2. CASE d # c
          BY <3>2, <2>4, <1>3 DEF Expired
    <3> QED
        BY <3>1, <3>2
  <2>8. ASSUME NEW i \in 1..Len(h2), i + LIMIT <= Len(h2)
        PROVE  h2[i + LIMIT] - h2[i] >= WINDOW
    <3>1. CASE i + LIMIT <= Len(h)
      <4>1. i \in 1..Len(h) /\ i + LIMIT \in 1..Len(h)
        <5>1. i \in Int /\ i >= 1 /\ Len(h) \in Int /\ LIMIT \in Int
              BY <2>8, <2>2, <1>0, <1>1
        <5> QED
            BY <5>1, <3>1, <1>0, Within
      <4>2. h[i + LIMIT] - h[i] >= WINDOW
            BY <3>1, <4>1 DEF LimiterInv, WindowLimit
      <4> QED
          BY <4>1, <4>2, <2>2
    <3>2. CASE ~(i + LIMIT <= Len(h))
      <4>1. i + LIMIT = Len(h) + 1 /\ i \in 1..k /\ i \in 1..Len(h)
        <5>1. i \in Nat /\ i >= 1 /\ i + LIMIT <= Len(h) + 1
              BY <2>8, <2>2, <1>1
        <5>2. i + LIMIT = Len(h) + 1
          <6>1. i + LIMIT \in Int /\ Len(h) \in Int
                BY <5>1, <1>0, <1>1
          <6> QED
              BY <6>1, <5>1, <3>2, Squeeze
        <5>3. i <= k /\ i <= Len(h)
              BY <5>1, <5>2, <1>0, <1>1, <1>5
        <5> QED
            BY <5>1, <5>2, <5>3, <1>1
      <4>2. now - h[i] >= WINDOW
            BY <4>1 DEF Expired
      <4>3. h2[i + LIMIT] = now /\ h2[i] = h[i]
            BY <4>1, <2>2
      <4> QED
          BY <4>2, <4>3
    <3> QED
        BY <3>1, <3>2
  <2>9. WindowLimit'
    <3> SUFFICES ASSUME NEW d \in Clients, NEW i \in 1..Len(admitted'[d]),
                        i + LIMIT <= Len(admitted'[d])
                 PROVE  admitted'[d][i + LIMIT] - admitted'[d][i] >= WINDOW
        BY DEF WindowLimit
    <3>1. CASE d = c
          BY <3>1, <2>4, <2>8
    <3>2. CASE d # c
          BY <3>2, <2>4 DEF LimiterInv, WindowLimit
    <3> QED
        BY <3>1, <3>2
  <2>10. RefusedOnlyAtLimit'
        BY <2>1, <2>4 DEF Admit, LimiterInv, TypeOK, RefusedOnlyAtLimit
  <2> QED
      BY <2>5, <2>7, <2>9, <2>10 DEF LimiterInv
<1> QED
    BY <1>1, <1>4, <1>5

LEMMA CheckStep ==
    ASSUME LimiterInv, NEW c \in Clients, CheckLogin(c)
    PROVE  LimiterInv'
<1> USE LimiterAssumption
<1>1. attempts[c] \in Seq(Nat) /\ admitted[c] \in Seq(Nat)
      BY DEF LimiterInv, TypeOK
<1>2. Len(attempts[c]) <= LIMIT
      BY DEF LimiterInv, TypeOK
<1>3. PICK k \in Nat : /\ IsRest(attempts[c], admitted[c], k)
                       /\ \A i \in 1..k : Expired(admitted[c][i])
      BY DEF LimiterInv, TableInv
<1>4. PICK n \in 0..Len(attempts[c]) :
          /\ Pops(attempts[c], n)
          /\ IF Len(Drop(attempts[c], n)) >= LIMIT
             THEN Refuse(c, Drop(attempts[c], n))
             ELSE Admit(c, Drop(attempts[c], n))
      BY DEF CheckLogin
<1>5. UNCHANGED <<now, restarts>>
      BY DEF CheckLogin
<1>6. /\ Drop(attempts[c], n) \in Seq(Nat)
      /\ Len(Drop(attempts[c], n)) = Len(attempts[c]) - n
      /\ IsRest(Drop(attempts[c], n), admitted[c], k + n)
      BY <1>1, <1>3, DropIsRest
<1>7. \A i \in 1..(k + n) : Expired(admitted[c][i])
      BY <1>1, <1>3, <1>4, DroppedExpired DEF Pops
<1>8. Len(Drop(attempts[c], n)) <= LIMIT /\ k + n \in Nat
      BY <1>1, <1>2, <1>6
<1>9. ASSUME Drop(attempts[c], n) # <<>> PROVE ~Expired(Drop(attempts[c], n)[1])
  <2>1. Len(Drop(attempts[c], n)) # 0
        BY <1>6, <1>9
  <2>2. n < Len(attempts[c])
        BY <1>1, <1>6, <2>1
  <2>3. Drop(attempts[c], n)[1] = attempts[c][n + 1]
        BY <1>1, <2>2 DEF Drop
  <2> QED
      BY <2>2, <2>3, <1>4 DEF Pops
<1> QED
    BY <1>1, <1>4, <1>5, <1>6, <1>7, <1>8, <1>9, VerdictStep

LEMMA LimiterStep == LimiterInv /\ [Next]_vars => LimiterInv'
<1> SUFFICES ASSUME LimiterInv, [Next]_vars PROVE LimiterInv'
    OBVIOUS
<1> USE LimiterAssumption
<1>1. ASSUME NEW c \in Clients, CheckLogin(c) PROVE LimiterInv'
      BY <1>1, CheckStep
<1>2. CASE Tick
  <2>1. now' = now + 1 /\ now \in Nat /\ UNCHANGED <<attempts, admitted, verdict, restarts>>
        BY <1>2 DEF Tick, LimiterInv, TypeOK
  <2>2. TypeOK' /\ WindowLimit' /\ RefusedOnlyAtLimit'
        BY <2>1 DEF LimiterInv, TypeOK, WindowLimit, RefusedOnlyAtLimit
  <2>3. ASSUME NEW c \in Clients
        PROVE  \E k \in Nat : /\ IsRest(attempts'[c], admitted'[c], k)
                              /\ \A i \in 1..k : Expired(admitted[c][i])'
    <3>1. PICK k \in Nat : /\ IsRest(attempts[c], admitted[c], k)
                           /\ \A i \in 1..k : Expired(admitted[c][i])
          BY DEF LimiterInv, TableInv
    <3>2. ASSUME NEW i \in 1..k PROVE Expired(admitted[c][i])'
      <4>1. i \in 1..Len(admitted[c]) /\ admitted[c][i] \in Nat
            BY <3>1 DEF IsRest, LimiterInv, TypeOK
      <4>2. now - admitted[c][i] >= WINDOW
            BY <3>1 DEF Expired
      <4> QED
          BY <4>1, <4>2, <2>1 DEF Expired
    <3> QED
        BY <3>1, <3>2, <2>1 DEF LimiterInv, TableInv
  <2>4. TableInv'
        BY <2>3 DEF TableInv
  <2> QED
      BY <2>2, <2>4 DEF LimiterInv
<1>3. CASE Restart
  <2>1. /\ attempts' = [c \in Clients |-> <<>>] /\ admitted' = [c \in Clients |-> <<>>]
        /\ verdict' = [c \in Clients |-> NoVerdict]
        BY <1>3 DEF Restart
  <2>2. TypeOK'
        BY <1>3 DEF Restart, LimiterInv, TypeOK, NoVerdict, Verdicts
  <2>3. ASSUME NEW c \in Clients
        PROVE  IsRest(attempts'[c], admitted'[c], 0)
        BY <2>1 DEF IsRest
  <2>4. TableInv'
        BY <2>3 DEF TableInv
  <2>5. WindowLimit' /\ RefusedOnlyAtLimit'
        BY <2>1 DEF WindowLimit, RefusedOnlyAtLimit, NoVerdict
  <2> QED
      BY <2>2, <2>4, <2>5 DEF LimiterInv
<1>4. CASE UNCHANGED vars
      BY <1>4 DEF vars, LimiterInv, TypeOK, TableInv, Expired, WindowLimit, RefusedOnlyAtLimit
<1> QED
    BY <1>1, <1>2, <1>3, <1>4 DEF Next

LEMMA LimiterInvariant == Spec => []LimiterInv
  BY LimiterInit, LimiterStep, PTL DEF Spec

(***************************************************************************)
(* The table is well formed and no client's list outgrows the limit.       *)
(***************************************************************************)
THEOREM LimiterTypeCorrect == Spec => []TypeOK
  BY LimiterInvariant, PTL DEF LimiterInv

(***************************************************************************)
(* However attempts are spaced, and for every limit and window, a client   *)
(* is admitted at most LIMIT times in any window between two restarts.     *)
(***************************************************************************)
THEOREM AtMostLimitPerWindow == Spec => []WindowLimit
  BY LimiterInvariant, PTL DEF LimiterInv

(***************************************************************************)
(* A refused client has used up its limit within the last window.          *)
(***************************************************************************)
THEOREM NoUndueRefusal == Spec => []RefusedOnlyAtLimit
  BY LimiterInvariant, PTL DEF LimiterInv

-----------------------------------------------------------------------------
USE LimiterAssumption, SessionAssumption

allVars == <<limiter, session>>

-----------------------------------------------------------------------------
(* Logins go through the limiter *)

LEMMA SessionsAreLimited == [SessionNext]_allVars => [Next]_vars
<1> SUFFICES ASSUME [SessionNext]_allVars PROVE [Next]_vars
    OBVIOUS
<1>1. ASSUME NEW k \in Calls, Login(k) PROVE Next
      BY <1>1 DEF Login, Next
<1>2. ASSUME NEW k \in Calls,
             Refresh(k) \/ Logout(k) \/ LogCall(k) \/ LogFailed(k) \/ Arrive(k) \/ Lose(k)
      PROVE  UNCHANGED vars
      BY <1>2 DEF Refresh, Logout, LogCall, LogFailed, Arrive, Lose, limiter, vars
<1>3. CASE Tick
      BY <1>3 DEF Next
<1>4. CASE SessionRestart
      BY <1>4 DEF SessionRestart, Next
<1>5. CASE UNCHANGED allVars
      BY <1>5 DEF allVars, limiter, vars
<1> QED
    BY <1>1, <1>2, <1>3, <1>4, <1>5 DEF SessionNext

(***************************************************************************)
(* With everything a session adds to it, login still calls the limiter     *)
(* first and leaves its table alone otherwise: what is proved of the       *)
(* limiter holds in every session.                                         *)
(***************************************************************************)
THEOREM SessionImplementsLimiter == SessionSpec => Spec
<1>1. SessionInit => Init
      BY DEF SessionInit
<1> QED
    BY <1>1, SessionsAreLimited, PTL DEF SessionSpec, Spec, allVars

-----------------------------------------------------------------------------
(* The tokens *)

(***************************************************************************)
(* A token was made at or after the login it goes back to; a refresh token *)
(* by that login, an access token within REFRESH_TTL of it, because that   *)
(* is how long the refresh token was good.                                 *)
(***************************************************************************)
Sound(t, type, time) ==
    t # NoToken =>
        /\ t.type = type /\ t.made <= time
        /\ t.login <= t.made /\ t.made - t.login <= REFRESH_TTL
        /\ type = "refresh" => t.login = t.made

Recorded(t, entries) == t # NoToken => [at |-> t.login, role |-> t.role] \in entries

SoundCookies(cs, time) == Sound(cs.access, "access", time) /\ Sound(cs.refresh, "refresh", time)
RecordedCookies(cs, entries) == Recorded(cs.access, entries) /\ Recorded(cs.refresh, entries)

\* An answer carries tokens whose login is recorded once its handler has logged.
AnswersInv ==
    \A k \in Calls :
        /\ SoundCookies(call[k].cookies, now)
        /\ call[k].stage = "reply" => RecordedCookies(call[k].cookies, logins)
        /\ call[k].stage = "log" => call[k].op \in {"login", "logout"}
        /\ call[k].op = "none" => call[k].stage = "idle"
        /\ call[k].stage = "log" /\ call[k].op = "login" =>
               /\ call[k].cookies.access \in Tokens
               /\ call[k].cookies.refresh.login = call[k].cookies.access.login
               /\ call[k].cookies.refresh.role = call[k].cookies.access.role
        /\ call[k].op = "logout" => call[k].cookies = NoCookies
        /\ call[k].op = "refresh" => call[k].cookies.refresh = NoToken

\* After a logout, what is still under way was made before it.
LoggedOutInv ==
    loggedOut # NoToken =>
        /\ loggedOut \in Nat /\ cookie.refresh = NoToken
        /\ cookie.access # NoToken => cookie.access.made <= loggedOut
        /\ \A k \in Calls :
               call[k].op = "refresh" /\ call[k].cookies.access # NoToken =>
                   call[k].cookies.access.made <= loggedOut

SessionInv ==
    /\ SessionTypeOK
    /\ SoundCookies(cookie, now) /\ RecordedCookies(cookie, logins)
    /\ AnswersInv /\ LoggedOutInv

LEMMA SessionStart == SessionInit => SessionInv
<1> SUFFICES ASSUME SessionInit PROVE SessionInv
    OBVIOUS
<1>1. TypeOK
      BY LimiterInit DEF SessionInit, LimiterInv
<1>2. NoCookies \in Cookies /\ NoCookies.access = NoToken /\ NoCookies.refresh = NoToken
      BY DEF NoCookies, Cookies
<1>3. Idle \in [op : {"none", "login", "refresh", "logout"},
                stage : {"idle", "log", "log_failed", "reply"}, cookies : Cookies]
      BY <1>2 DEF Idle
<1>4. SessionTypeOK
      BY <1>1, <1>2, <1>3 DEF SessionTypeOK, SessionInit
<1>5. SoundCookies(cookie, now) /\ RecordedCookies(cookie, logins)
      BY <1>2 DEF SessionInit, SoundCookies, RecordedCookies, Sound, Recorded
<1>6. AnswersInv /\ LoggedOutInv
      BY <1>2 DEF SessionInit, AnswersInv, LoggedOutInv, Idle, SoundCookies, Sound
<1> QED
    BY <1>4, <1>5, <1>6 DEF SessionInv

\* What is sound and recorded stays so while time passes and entries are added.
LEMMA SoundStays ==
    ASSUME NEW cs \in Cookies, NEW m \in Nat, NEW n \in Nat, m <= n,
           NEW E, NEW F, E \subseteq F
    PROVE  /\ SoundCookies(cs, m) => SoundCookies(cs, n)
           /\ RecordedCookies(cs, E) => RecordedCookies(cs, F)
<1>1. ASSUME NEW t \in Tokens \cup {NoToken}, NEW type, Sound(t, type, m)
      PROVE  Sound(t, type, n)
      BY <1>1 DEF Sound, Tokens
<1>2. ASSUME NEW t, Recorded(t, E) PROVE Recorded(t, F)
      BY <1>2 DEF Recorded
<1>3. cs.access \in Tokens \cup {NoToken} /\ cs.refresh \in Tokens \cup {NoToken}
      BY DEF Cookies
<1> QED
    BY <1>1, <1>2, <1>3 DEF SoundCookies, RecordedCookies

\* A step of the clock, or of one call k, that changes no cookie of the browser.
LEMMA NothingReceived ==
    ASSUME SessionInv, now' \in Nat, now <= now', logins \subseteq logins',
           UNCHANGED <<cookie, loggedOut>>
    PROVE  SoundCookies(cookie', now') /\ RecordedCookies(cookie', logins')
<1>1. cookie \in Cookies /\ now \in Nat
      BY DEF SessionInv, SessionTypeOK, TypeOK
<1> QED
    BY <1>1, SoundStays DEF SessionInv

CallTypes == [op : {"none", "login", "refresh", "logout"},
              stage : {"idle", "log", "log_failed", "reply"}, cookies : Cookies]

\* What AnswersInv and LoggedOutInv say of one call.
AnswerOK(a, entries) ==
    /\ SoundCookies(a.cookies, now)
    /\ a.stage = "reply" => RecordedCookies(a.cookies, entries)
    /\ a.stage = "log" => a.op \in {"login", "logout"}
    /\ a.op = "none" => a.stage = "idle"
    /\ a.stage = "log" /\ a.op = "login" =>
           /\ a.cookies.access \in Tokens
           /\ a.cookies.refresh.login = a.cookies.access.login
           /\ a.cookies.refresh.role = a.cookies.access.role
    /\ a.op = "logout" => a.cookies = NoCookies
    /\ a.op = "refresh" => a.cookies.refresh = NoToken
    /\ a.op = "refresh" /\ a.cookies.access # NoToken /\ loggedOut # NoToken =>
           a.cookies.access.made <= loggedOut

LEMMA IdleOK == Idle \in CallTypes /\ (SessionInv => AnswerOK(Idle, logins'))
  BY DEF Idle, NoCookies, CallTypes, Cookies, AnswerOK, SoundCookies, RecordedCookies,
         Sound, Recorded

\* A step that puts the answer of one call in order keeps those of the others.
LEMMA OneAnswer ==
    ASSUME SessionInv, NEW k \in Calls, NEW a \in CallTypes, call' = [call EXCEPT ![k] = a],
           AnswerOK(a, logins'), UNCHANGED <<now, config, cookie, loggedOut>>,
           logins \subseteq logins', logins' \subseteq [at : Nat, role : Roles],
           TypeOK', dbFaults' \in 0..MaxDbFaults
    PROVE  SessionInv'
<1>1. call \in [Calls -> CallTypes] /\ now \in Nat /\ now' = now
      BY DEF SessionInv, SessionTypeOK, CallTypes, TypeOK
<1>2. call' \in [Calls -> CallTypes] /\ \A j \in Calls : call'[j] = IF j = k THEN a ELSE call[j]
      BY <1>1
<1>3. SessionTypeOK'
      BY <1>2 DEF SessionInv, SessionTypeOK, CallTypes, Cookies, Tokens
<1>4. SoundCookies(cookie', now') /\ RecordedCookies(cookie', logins')
      BY <1>1, NothingReceived
<1>5. ASSUME NEW j \in Calls
      PROVE  /\ SoundCookies(call'[j].cookies, now')
             /\ call'[j].stage = "reply" => RecordedCookies(call'[j].cookies, logins')
             /\ call'[j].stage = "log" => call'[j].op \in {"login", "logout"}
             /\ call'[j].op = "none" => call'[j].stage = "idle"
             /\ call'[j].stage = "log" /\ call'[j].op = "login" =>
                    /\ call'[j].cookies.access \in Tokens
                    /\ call'[j].cookies.refresh.login = call'[j].cookies.access.login
                    /\ call'[j].cookies.refresh.role = call'[j].cookies.access.role
             /\ call'[j].op = "logout" => call'[j].cookies = NoCookies
             /\ call'[j].op = "refresh" => call'[j].cookies.refresh = NoToken
             /\ loggedOut # NoToken /\ call'[j].op = "refresh"
                    /\ call'[j].cookies.access # NoToken =>
                    call'[j].cookies.access.made <= loggedOut'
  <2>1. CASE j = k
        BY <1>1, <1>2, <2>1 DEF AnswerOK
  <2>2. CASE j # k
    <3>1. call'[j] = call[j] /\ call[j].cookies \in Cookies
          BY <1>1, <1>2, <2>2 DEF CallTypes
    <3>2. RecordedCookies(call[j].cookies, logins) => RecordedCookies(call[j].cookies, logins')
          BY <1>1, <3>1, SoundStays
    <3> QED
        BY <1>1, <3>1, <3>2 DEF SessionInv, AnswersInv, LoggedOutInv
  <2> QED
      BY <2>1, <2>2
<1>6. AnswersInv'
      BY <1>5 DEF AnswersInv, SoundCookies, RecordedCookies, Sound, Recorded
<1>7. LoggedOutInv'
      BY <1>5 DEF SessionInv, LoggedOutInv
<1>8. (SoundCookies(cookie, now))' /\ (RecordedCookies(cookie, logins))'
      BY <1>4 DEF SoundCookies, RecordedCookies, Sound, Recorded
<1> QED
    BY <1>3, <1>6, <1>7, <1>8 DEF SessionInv

-----------------------------------------------------------------------------
(* The steps *)

LEMMA NewTokens ==
    ASSUME SessionInv
    PROVE  /\ BothTokens.access \in Tokens
           /\ BothTokens \in Cookies /\ SoundCookies(BothTokens, now)
           /\ BothTokens.access.login = now /\ BothTokens.access.role = config.role
           /\ BothTokens.refresh.login = BothTokens.access.login
           /\ BothTokens.refresh.role = BothTokens.access.role
<1>1. now \in Nat /\ config \in [role : Roles, key : Nat]
      BY DEF SessionInv, SessionTypeOK, TypeOK
<1>2. ASSUME NEW type \in {"access", "refresh"}
      PROVE  Token(type, config.role, now) \in Tokens /\ Sound(Token(type, config.role, now), type, now)
      BY <1>1 DEF Token, Tokens, Sound
<1> QED
    BY <1>2 DEF BothTokens, Cookies, SoundCookies, Token

LEMMA LoginStep ==
    ASSUME SessionInv, NEW k \in Calls, Login(k), TypeOK'
    PROVE  SessionInv'
<1>1. /\ UNCHANGED <<now, config, cookie, logins, loggedOut, dbFaults>>
      /\ \/ UNCHANGED call
         \/ Starts(k, "login", "log", BothTokens)
         \/ Starts(k, "login", "log_failed", NoCookies)
      BY DEF Login, CheckLogin
<1>2. logins \subseteq [at : Nat, role : Roles] /\ dbFaults \in 0..MaxDbFaults
      BY DEF SessionInv, SessionTypeOK
<1>3. CASE UNCHANGED call
      BY <1>1, <1>3 DEF SessionInv, SessionTypeOK, AnswersInv, LoggedOutInv, SoundCookies,
                        RecordedCookies, Sound, Recorded, Cookies, Tokens
<1>4. CASE Starts(k, "login", "log", BothTokens)
  <2> DEFINE a == [op |-> "login", stage |-> "log", cookies |-> BothTokens]
  <2>1. a \in CallTypes /\ AnswerOK(a, logins)
        BY NewTokens DEF CallTypes, AnswerOK
  <2>2. call' = [call EXCEPT ![k] = a]
        BY <1>4 DEF Starts
  <2> HIDE DEF a
  <2> QED
      BY <1>1, <1>2, <2>1, <2>2, OneAnswer
<1>5. CASE Starts(k, "login", "log_failed", NoCookies)
  <2> DEFINE a == [op |-> "login", stage |-> "log_failed", cookies |-> NoCookies]
  <2>1. a \in CallTypes /\ AnswerOK(a, logins)
        BY DEF CallTypes, AnswerOK, NoCookies, Cookies, SoundCookies, Sound
  <2>2. call' = [call EXCEPT ![k] = a]
        BY <1>5 DEF Starts
  <2> HIDE DEF a
  <2> QED
      BY <1>1, <1>2, <2>1, <2>2, OneAnswer
<1> QED
    BY <1>1, <1>3, <1>4, <1>5

\* A refresh token is good for REFRESH_TTL, so what is made from it is young.
LEMMA RefreshStep ==
    ASSUME SessionInv, NEW k \in Calls, Refresh(k), TypeOK'
    PROVE  SessionInv'
<1> DEFINE t == cookie.refresh
           u == Token("access", t.role, t.login)
           a == [op |-> "refresh", stage |-> "reply",
                 cookies |-> [access |-> u, refresh |-> NoToken]]
<1>1. /\ Valid(t, "refresh") /\ call' = [call EXCEPT ![k] = a]
      /\ UNCHANGED <<now, config, cookie, logins, loggedOut, dbFaults>>
      BY DEF Refresh, Starts, limiter
<1>2. /\ logins \subseteq [at : Nat, role : Roles] /\ dbFaults \in 0..MaxDbFaults
      /\ now \in Nat /\ config \in [role : Roles, key : Nat] /\ cookie \in Cookies
      BY DEF SessionInv, SessionTypeOK, TypeOK
<1>3. t \in Tokens /\ t # NoToken /\ now <= t.made + REFRESH_TTL
      BY <1>1, <1>2 DEF Valid, TTL, Cookies
<1>4. /\ t.login = t.made /\ t.made <= now
      /\ [at |-> t.login, role |-> t.role] \in logins
      BY <1>3 DEF SessionInv, SoundCookies, RecordedCookies, Sound, Recorded
<1>5. /\ u \in Tokens /\ u.type = "access" /\ u.made = now
      /\ u.login = t.login /\ u.role = t.role
      BY <1>2, <1>3 DEF Token, Tokens
<1> HIDE DEF u
<1>6. t.made \in Nat /\ REFRESH_TTL \in Nat
      BY <1>3 DEF Tokens
<1>7. Sound(u, "access", now) /\ Recorded(u, logins)
      BY <1>2, <1>3, <1>4, <1>5, <1>6 DEF Sound, Recorded
<1>8. loggedOut = NoToken
      BY <1>3 DEF SessionInv, LoggedOutInv
<1>9. a \in CallTypes /\ AnswerOK(a, logins)
      BY <1>5, <1>7, <1>8 DEF CallTypes, AnswerOK, Cookies, SoundCookies, RecordedCookies,
                              Sound, Recorded
<1> HIDE DEF a, t
<1> QED
    BY <1>1, <1>2, <1>9, OneAnswer

LEMMA LogoutStep ==
    ASSUME SessionInv, NEW k \in Calls, Logout(k), TypeOK'
    PROVE  SessionInv'
<1> DEFINE a == [op |-> "logout", stage |-> "log", cookies |-> NoCookies]
<1>1. /\ call' = [call EXCEPT ![k] = a]
      /\ UNCHANGED <<now, config, cookie, logins, loggedOut, dbFaults>>
      BY DEF Logout, Starts, limiter
<1>2. logins \subseteq [at : Nat, role : Roles] /\ dbFaults \in 0..MaxDbFaults
      BY DEF SessionInv, SessionTypeOK
<1>3. a \in CallTypes /\ AnswerOK(a, logins)
      BY DEF CallTypes, AnswerOK, NoCookies, Cookies, SoundCookies, Sound
<1> HIDE DEF a
<1> QED
    BY <1>1, <1>2, <1>3, OneAnswer

\* A call is given up: nothing of its answer is left.
LEMMA GivenUp ==
    ASSUME SessionInv, NEW k \in Calls, call' = [call EXCEPT ![k] = Idle], TypeOK',
           UNCHANGED <<now, config, cookie, logins, loggedOut>>, dbFaults' \in 0..MaxDbFaults
    PROVE  SessionInv'
<1>1. logins \subseteq [at : Nat, role : Roles]
      BY DEF SessionInv, SessionTypeOK
<1> QED
    BY <1>1, IdleOK, OneAnswer

LEMMA LogStep ==
    ASSUME SessionInv, NEW k \in Calls, LogCall(k), TypeOK'
    PROVE  SessionInv'
<1>1. /\ UNCHANGED <<now, config, cookie, loggedOut>>
      /\ call[k].stage = "log" /\ dbFaults \in 0..MaxDbFaults
      /\ logins \subseteq [at : Nat, role : Roles]
      /\ call \in [Calls -> CallTypes]
      BY DEF LogCall, limiter, SessionInv, SessionTypeOK, CallTypes
<1>2. CASE Raises(k)
  <2>1. dbFaults' \in 0..MaxDbFaults
        BY <1>1, <1>2 DEF Raises
  <2> QED
      BY <1>1, <1>2, <2>1, GivenUp DEF Raises
<1>3. CASE Logged(k)
  <2> DEFINE a == [call[k] EXCEPT !.stage = "reply"]
             t == call[k].cookies.access
             e == [at |-> t.login, role |-> t.role]
  <2>1. /\ call' = [call EXCEPT ![k] = a] /\ UNCHANGED dbFaults
        /\ logins' = IF call[k].op = "login" THEN logins \cup {e} ELSE logins
        BY <1>3 DEF Logged, Goto
  <2>2. a \in CallTypes /\ a.op = call[k].op /\ a.cookies = call[k].cookies /\ a.stage = "reply"
        BY <1>1 DEF CallTypes
  <2>3. call[k].cookies \in Cookies
        BY <1>1 DEF CallTypes
  <2>4. SoundCookies(a.cookies, now)
        BY <2>2 DEF SessionInv, AnswersInv
  <2>5. CASE call[k].op = "login"
    <3>1. /\ t \in Tokens /\ call[k].cookies.refresh.login = t.login
          /\ call[k].cookies.refresh.role = t.role
          BY <1>1, <2>5 DEF SessionInv, AnswersInv
    <3>2. e \in [at : Nat, role : Roles]
          BY <3>1 DEF Tokens
    <3>3. logins \subseteq logins' /\ logins' \subseteq [at : Nat, role : Roles] /\ e \in logins'
          BY <1>1, <2>1, <2>5, <3>2
    <3>4. RecordedCookies(a.cookies, logins')
          BY <2>2, <3>1, <3>3 DEF RecordedCookies, Recorded
    <3>5. AnswerOK(a, logins')
          BY <2>2, <2>4, <2>5, <3>4 DEF AnswerOK
    <3> HIDE DEF a
    <3> QED
        BY <1>1, <2>1, <2>2, <3>3, <3>5, OneAnswer
  <2>6. CASE call[k].op = "logout"
    <3>1. a.cookies = NoCookies /\ logins' = logins
          BY <2>1, <2>2, <2>6 DEF SessionInv, AnswersInv
    <3>2. AnswerOK(a, logins')
          BY <2>2, <2>4, <2>6, <3>1 DEF AnswerOK, RecordedCookies, Recorded, NoCookies
    <3> HIDE DEF a
    <3> QED
        BY <1>1, <2>1, <2>2, <3>1, <3>2, OneAnswer
  <2> QED
      BY <1>1, <2>5, <2>6 DEF SessionInv, AnswersInv
<1> QED
    BY <1>2, <1>3 DEF LogCall

LEMMA LogFailedStep ==
    ASSUME SessionInv, NEW k \in Calls, LogFailed(k), TypeOK'
    PROVE  SessionInv'
<1>1. /\ UNCHANGED <<now, config, cookie, loggedOut, logins>>
      /\ call' = [call EXCEPT ![k] = Idle]
      BY DEF LogFailed, Raises, limiter
<1>2. dbFaults' \in 0..MaxDbFaults
      BY DEF LogFailed, Raises, SessionInv, SessionTypeOK
<1> QED
    BY <1>1, <1>2, GivenUp

LEMMA LoseStep ==
    ASSUME SessionInv, NEW k \in Calls, Lose(k), TypeOK'
    PROVE  SessionInv'
<1>1. /\ UNCHANGED <<now, config, cookie, loggedOut, logins, dbFaults>>
      /\ call' = [call EXCEPT ![k] = Idle]
      BY DEF Lose, limiter
<1>2. dbFaults' \in 0..MaxDbFaults
      BY <1>1 DEF SessionInv, SessionTypeOK
<1> QED
    BY <1>1, <1>2, GivenUp

(***************************************************************************)
(* An answer arrives.  After a logout every token that is still under way  *)
(* was made before it; a refresh gives back an access token at most.       *)
(***************************************************************************)
LEMMA ArriveStep ==
    ASSUME SessionInv, NEW k \in Calls, Arrive(k), TypeOK'
    PROVE  SessionInv'
<1> DEFINE a == call[k]
<1>1. /\ UNCHANGED <<now, config, logins, dbFaults>> /\ a.stage = "reply"
      /\ call' = [call EXCEPT ![k] = Idle]
      /\ cookie' = [access |-> a.cookies.access,
                    refresh |-> IF a.op = "refresh" THEN cookie.refresh ELSE a.cookies.refresh]
      /\ loggedOut' = IF a.op = "logout" THEN now
                      ELSE IF a.op = "login" THEN NoToken ELSE loggedOut
      BY DEF Arrive, SetCookies, limiter
<1>2. /\ call \in [Calls -> CallTypes] /\ cookie \in Cookies /\ now \in Nat
      /\ loggedOut \in Nat \cup {NoToken}
      BY DEF SessionInv, SessionTypeOK, CallTypes, TypeOK
<1>3. call' \in [Calls -> CallTypes] /\ \A j \in Calls : call'[j] = IF j = k THEN Idle ELSE call[j]
      BY <1>1, <1>2, IdleOK
<1>4. a \in CallTypes /\ a.cookies \in Cookies
      BY <1>2 DEF CallTypes
<1>5. cookie' \in Cookies
      BY <1>1, <1>2, <1>4 DEF Cookies
<1>6. SessionTypeOK'
      BY <1>1, <1>2, <1>3, <1>5 DEF SessionInv, SessionTypeOK, CallTypes, Cookies, Tokens
<1>7. /\ SoundCookies(a.cookies, now) /\ RecordedCookies(a.cookies, logins)
      /\ SoundCookies(cookie, now) /\ RecordedCookies(cookie, logins)
      BY <1>1 DEF SessionInv, AnswersInv
<1>8. (SoundCookies(cookie, now))' /\ (RecordedCookies(cookie, logins))'
      BY <1>1, <1>7 DEF SoundCookies, RecordedCookies, Sound, Recorded
<1>9. AnswersInv'
  <2>1. \A j \in Calls : call'[j] = Idle \/ call'[j] = call[j]
        BY <1>3
  <2>2. SoundCookies(Idle.cookies, now) /\ Idle.stage = "idle" /\ Idle.op = "none"
        BY DEF Idle, NoCookies, SoundCookies, Sound
  <2> QED
      BY <1>1, <2>1, <2>2 DEF SessionInv, AnswersInv, SoundCookies, RecordedCookies, Sound, Recorded
<1>10. LoggedOutInv'
  <2>1. CASE a.op = "logout"
    <3>1. loggedOut' = now /\ a.cookies = NoCookies
          BY <1>1, <2>1 DEF SessionInv, AnswersInv
    <3>2. cookie'.refresh = NoToken /\ cookie'.access = NoToken
          BY <1>1, <2>1, <3>1 DEF NoCookies
    <3>3. ASSUME NEW j \in Calls, call'[j].op = "refresh", call'[j].cookies.access # NoToken
          PROVE  call'[j].cookies.access.made <= now
          BY <1>3, <3>3 DEF Idle, SessionInv, AnswersInv, SoundCookies, Sound
    <3> QED
        BY <1>2, <3>1, <3>2, <3>3 DEF LoggedOutInv
  <2>2. CASE a.op = "login"
        BY <1>1, <2>2 DEF LoggedOutInv
  <2>3. CASE a.op = "refresh" /\ loggedOut # NoToken
    <3>1. /\ loggedOut' = loggedOut /\ cookie'.refresh = NoToken
          /\ cookie'.access = a.cookies.access
          BY <1>1, <2>3 DEF SessionInv, LoggedOutInv
    <3>2. cookie'.access # NoToken => cookie'.access.made <= loggedOut
          BY <2>3, <3>1 DEF SessionInv, LoggedOutInv
    <3> QED
        BY <1>2, <1>3, <2>3, <3>1, <3>2 DEF LoggedOutInv, SessionInv, Idle
  <2>4. CASE a.op = "refresh" /\ loggedOut = NoToken
        BY <1>1, <2>4 DEF LoggedOutInv
  <2>5. a.op # "none"
        BY <1>1 DEF SessionInv, AnswersInv
  <2> QED
      BY <1>4, <2>1, <2>2, <2>3, <2>4, <2>5 DEF CallTypes
<1> QED
    BY <1>6, <1>8, <1>9, <1>10 DEF SessionInv
LEMMA TickStep ==
    ASSUME SessionInv, Tick, UNCHANGED session, TypeOK'
    PROVE  SessionInv'
<1>1. /\ UNCHANGED <<config, call, cookie, logins, loggedOut, dbFaults>>
      /\ now \in Nat /\ now' \in Nat /\ now <= now'
      /\ call \in [Calls -> CallTypes] /\ cookie \in Cookies
      BY DEF Tick, session, SessionInv, SessionTypeOK, CallTypes, TypeOK
<1>2. SessionTypeOK'
      BY <1>1 DEF SessionInv, SessionTypeOK, Cookies, Tokens
<1>3. SoundCookies(cookie, now') /\ \A k \in Calls : SoundCookies(call[k].cookies, now')
      BY <1>1, SoundStays DEF SessionInv, AnswersInv, CallTypes
<1>4. (SoundCookies(cookie, now))' /\ (RecordedCookies(cookie, logins))'
      BY <1>1, <1>3 DEF SessionInv, SoundCookies, RecordedCookies, Sound, Recorded
<1>5. AnswersInv'
      BY <1>1, <1>3 DEF SessionInv, AnswersInv, SoundCookies, RecordedCookies, Sound, Recorded
<1>6. LoggedOutInv'
      BY <1>1 DEF SessionInv, LoggedOutInv
<1> QED
    BY <1>2, <1>4, <1>5, <1>6 DEF SessionInv

\* A restart forgets handlers, not the answers that are on their way.
LEMMA RestartStep ==
    ASSUME SessionInv, SessionRestart, TypeOK'
    PROVE  SessionInv'
<1>1. /\ UNCHANGED <<now, cookie, logins, loggedOut, dbFaults>>
      /\ config' \in [role : Roles, key : {config.key, config.key + 1}]
      /\ call' = [k \in Calls |-> IF call[k].stage = "reply" THEN call[k] ELSE Idle]
      /\ call \in [Calls -> CallTypes] /\ config \in [role : Roles, key : Nat]
      BY DEF SessionRestart, Restart, SessionInv, SessionTypeOK, CallTypes
<1>2. config' \in [role : Roles, key : Nat]
      BY <1>1
<1>3. /\ call' \in [Calls -> CallTypes]
      /\ \A k \in Calls : call'[k] = Idle \/ (call'[k] = call[k] /\ call[k].stage = "reply")
      BY <1>1, IdleOK
<1>4. SessionTypeOK'
      BY <1>1, <1>2, <1>3 DEF SessionInv, SessionTypeOK, CallTypes, Cookies, Tokens
<1>5. (SoundCookies(cookie, now))' /\ (RecordedCookies(cookie, logins))'
      BY <1>1 DEF SessionInv, SoundCookies, RecordedCookies, Sound, Recorded
<1>6. AnswersInv'
  <2>1. SoundCookies(Idle.cookies, now) /\ Idle.stage = "idle" /\ Idle.op = "none"
        BY DEF Idle, NoCookies, SoundCookies, Sound
  <2> QED
      BY <1>1, <1>3, <2>1 DEF SessionInv, AnswersInv, SoundCookies, RecordedCookies, Sound, Recorded
<1>7. LoggedOutInv'
      BY <1>1, <1>3 DEF SessionInv, LoggedOutInv, Idle
<1> QED
    BY <1>4, <1>5, <1>6, <1>7 DEF SessionInv

LEMMA SessionStep == LimiterInv /\ SessionInv /\ [SessionNext]_allVars => (LimiterInv /\ SessionInv)'
<1> SUFFICES ASSUME LimiterInv, SessionInv, [SessionNext]_allVars
             PROVE  LimiterInv' /\ SessionInv'
    OBVIOUS
<1>1. LimiterInv' /\ TypeOK'
      BY SessionsAreLimited, LimiterStep DEF LimiterInv
<1>2. CASE SessionNext
      BY <1>1, <1>2, LoginStep, RefreshStep, LogoutStep, LogStep, LogFailedStep, ArriveStep,
         LoseStep, TickStep, RestartStep DEF SessionNext
<1>3. CASE UNCHANGED allVars
  <2>1. UNCHANGED <<now, config, call, cookie, logins, loggedOut, dbFaults>>
        BY <1>3 DEF allVars, limiter, session
  <2>2. SessionTypeOK'
        BY <1>1, <2>1 DEF SessionInv, SessionTypeOK, Cookies, Tokens
  <2>3. (SoundCookies(cookie, now))' /\ (RecordedCookies(cookie, logins))'
        BY <2>1 DEF SessionInv, SoundCookies, RecordedCookies, Sound, Recorded
  <2>4. AnswersInv' /\ LoggedOutInv'
        BY <2>1 DEF SessionInv, AnswersInv, LoggedOutInv, SoundCookies, RecordedCookies,
                    Sound, Recorded
  <2> QED
      BY <1>1, <2>2, <2>3, <2>4 DEF SessionInv
<1> QED
    BY <1>1, <1>2, <1>3

LEMMA SessionInvariant == SessionSpec => []SessionInv
<1>1. SessionInit => LimiterInv /\ SessionInv
      BY SessionStart, LimiterInit DEF SessionInit
<1> QED
    BY <1>1, SessionStep, PTL DEF SessionSpec, allVars

-----------------------------------------------------------------------------
(* The theorems *)

(***************************************************************************)
(* The browser's cookies, the calls in flight and the log are well formed. *)
(***************************************************************************)
THEOREM SessionTypeCorrect == SessionSpec => []SessionTypeOK
<1>1. SessionInv => SessionTypeOK
      BY DEF SessionInv
<1> QED
    BY <1>1, SessionInvariant, PTL

(***************************************************************************)
(* Whatever answers are lost or overtake one another, whoever else logs in *)
(* and however often tokens are refreshed, a token the browser can act     *)
(* with goes back to a login in the log and is over in time.               *)
(***************************************************************************)
THEOREM TokensEnd == SessionSpec => []SessionsAreBounded
<1>1. SessionInv => SessionsAreBounded
  <2> SUFFICES ASSUME SessionInv, Valid(cookie.access, "access")
               PROVE  /\ [at |-> cookie.access.login, role |-> cookie.access.role] \in logins
                      /\ now - cookie.access.login <= REFRESH_TTL + ACCESS_TTL
      BY DEF SessionsAreBounded
  <2> DEFINE t == cookie.access
  <2>1. t \in Tokens /\ t # NoToken /\ now <= t.made + ACCESS_TTL /\ now \in Nat
        BY DEF SessionInv, SessionTypeOK, TypeOK, Cookies, Valid, TTL
  <2>2. /\ [at |-> t.login, role |-> t.role] \in logins
        /\ t.made - t.login <= REFRESH_TTL
        BY <2>1 DEF SessionInv, SoundCookies, RecordedCookies, Sound, Recorded
  <2>3. t.made \in Nat /\ t.login \in Nat /\ REFRESH_TTL \in Nat /\ ACCESS_TTL \in Nat
        BY <2>1 DEF Tokens
  <2> HIDE DEF t
  <2>4. now - t.login <= REFRESH_TTL + ACCESS_TTL
        BY <2>1, <2>2, <2>3
  <2> QED
      BY <2>2, <2>4 DEF t
<1> QED
    BY <1>1, SessionInvariant, PTL

(***************************************************************************)
(* After a logout, whatever answers were still under way, the browser can  *)
(* act no longer than ACCESS_TTL, and cannot refresh, until it logs in.    *)
(***************************************************************************)
THEOREM LogoutIsFinal == SessionSpec => []LogoutSticks
<1>1. SessionInv => LogoutSticks
  <2> SUFFICES ASSUME SessionInv, loggedOut # NoToken
               PROVE  /\ cookie.refresh = NoToken
                      /\ Valid(cookie.access, "access") => now - loggedOut <= ACCESS_TTL
      BY DEF LogoutSticks
  <2>1. cookie.refresh = NoToken /\ loggedOut \in Nat
        BY DEF SessionInv, LoggedOutInv
  <2>2. ASSUME Valid(cookie.access, "access") PROVE now - loggedOut <= ACCESS_TTL
    <3> DEFINE t == cookie.access
    <3>1. t \in Tokens /\ t # NoToken /\ now <= t.made + ACCESS_TTL /\ now \in Nat
          BY <2>2 DEF SessionInv, SessionTypeOK, TypeOK, Cookies, Valid, TTL
    <3>2. t.made <= loggedOut /\ t.made \in Nat /\ ACCESS_TTL \in Nat
          BY <3>1 DEF SessionInv, LoggedOutInv, Tokens
    <3> HIDE DEF t
    <3> QED
        BY <2>1, <3>1, <3>2
  <2> QED
      BY <2>1, <2>2
<1> QED
    BY <1>1, SessionInvariant, PTL
==============================================================================
