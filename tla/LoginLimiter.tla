----------------------------- MODULE LoginLimiter ----------------------------
(***************************************************************************)
(* The login rate limiter: _check_login_rate_limit in backend/routers/     *)
(* auth.py.  For each client key it keeps the times of the attempts it     *)
(* admitted, drops those older than the window when the key is seen again, *)
(* and refuses (429) while the limit is used up.  It runs before the       *)
(* password is looked at, so successful logins count too, and refused      *)
(* attempts do not.                                                        *)
(*                                                                         *)
(* The check has no await: one call is one action.  The table is memory of *)
(* the one backend process and is empty after a restart.                   *)
(*                                                                         *)
(* A definition whose name ends in _<Mistake> is a variant no action uses: *)
(* a plausible slip in the code, there to show which property notices it.  *)
(***************************************************************************)
EXTENDS Integers, Sequences

CONSTANTS
    Clients,            \* request.client.host
    LIMIT,              \* _LOGIN_LIMIT, 5 in the code
    WINDOW,             \* _LOGIN_WINDOW_SECONDS, 60 in the code
    MaxTime,            \* bound on the clock, for model checking only
    MaxRestarts         \* bound on restarts of the process

ASSUME LimiterAssumption ==
    /\ LIMIT \in Nat \ {0}
    /\ WINDOW \in Nat
    /\ MaxTime \in Nat
    /\ MaxRestarts \in Nat

VARIABLES
    now,                \* time.monotonic()
    attempts,           \* _login_attempts
    admitted,           \* history: all admissions since the last restart
    verdict,            \* history: the last verdict for each client and its time
    restarts

vars == <<now, attempts, admitted, verdict, restarts>>

Verdicts == [said : {"none", "admitted", "refused"}, at : Nat]

\* A table never outgrows the limit: old attempts make room for new ones.
TypeOK ==
    /\ now \in Nat
    /\ attempts \in [Clients -> Seq(Nat)]
    /\ \A c \in Clients : Len(attempts[c]) <= LIMIT
    /\ admitted \in [Clients -> Seq(Nat)]
    /\ verdict \in [Clients -> Verdicts]
    /\ restarts \in 0..MaxRestarts

NoVerdict == [said |-> "none", at |-> 0]

Init ==
    /\ now = 0
    /\ attempts = [c \in Clients |-> <<>>]
    /\ admitted = [c \in Clients |-> <<>>]
    /\ verdict = [c \in Clients |-> NoVerdict]
    /\ restarts = 0

Expired_Strictly(t) == now - t > WINDOW

Expired(t) == now - t >= WINDOW

Drop(s, n) == SubSeq(s, n + 1, Len(s))

\* n attempts are popped: those before the first that has not expired.
Pops(s, n) ==
    /\ \A i \in 1..n : Expired(s[i])
    /\ n < Len(s) => ~Expired(s[n + 1])

Admit(c, kept) ==
    /\ attempts' = [attempts EXCEPT ![c] = Append(kept, now)]
    /\ admitted' = [admitted EXCEPT ![c] = Append(@, now)]
    /\ verdict' = [verdict EXCEPT ![c] = [said |-> "admitted", at |-> now]]

Refuse(c, kept) ==
    /\ attempts' = [attempts EXCEPT ![c] = kept]
    /\ verdict' = [verdict EXCEPT ![c] = [said |-> "refused", at |-> now]]
    /\ UNCHANGED admitted

CheckLogin_OneMore(c) ==
    \E n \in 0..Len(attempts[c]) :
        /\ Pops(attempts[c], n)
        /\ LET kept == Drop(attempts[c], n)
           IN  IF Len(kept) > LIMIT THEN Refuse(c, kept) ELSE Admit(c, kept)
        /\ UNCHANGED <<now, restarts>>

\* _check_login_rate_limit(client_key)
CheckLogin(c) ==
    \E n \in 0..Len(attempts[c]) :
        /\ Pops(attempts[c], n)
        /\ LET kept == Drop(attempts[c], n)
           IN  IF Len(kept) >= LIMIT THEN Refuse(c, kept) ELSE Admit(c, kept)
        /\ UNCHANGED <<now, restarts>>

Tick ==
    /\ now < MaxTime
    /\ now' = now + 1
    /\ UNCHANGED <<attempts, admitted, verdict, restarts>>

Restart ==
    /\ restarts < MaxRestarts
    /\ restarts' = restarts + 1
    /\ attempts' = [c \in Clients |-> <<>>]
    /\ admitted' = [c \in Clients |-> <<>>]
    /\ verdict' = [c \in Clients |-> NoVerdict]
    /\ UNCHANGED now

Next == (\E c \in Clients : CheckLogin(c)) \/ Tick \/ Restart

Spec == Init /\ [][Next]_vars

-----------------------------------------------------------------------------

(***************************************************************************)
(* Between two restarts, any LIMIT + 1 admissions of a client span at      *)
(* least WINDOW: no window of that length, wherever it starts, admits more *)
(* than LIMIT attempts.                                                    *)
(***************************************************************************)
WindowLimit ==
    \A c \in Clients : \A i \in 1..Len(admitted[c]) :
        i + LIMIT <= Len(admitted[c]) =>
            admitted[c][i + LIMIT] - admitted[c][i] >= WINDOW

(***************************************************************************)
(* A client is refused only if LIMIT attempts of its own were admitted     *)
(* within the WINDOW before: refused attempts do not prolong a lock-out,   *)
(* and old ones are forgotten.                                             *)
(***************************************************************************)
RefusedOnlyAtLimit ==
    \A c \in Clients : verdict[c].said = "refused" =>
        /\ Len(admitted[c]) >= LIMIT
        /\ verdict[c].at - admitted[c][(Len(admitted[c]) - LIMIT) + 1] < WINDOW
=============================================================================
