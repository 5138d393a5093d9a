------------------------------- MODULE Session -------------------------------
(***************************************************************************)
(* Sessions: login, refresh and logout (backend/routers/auth.py) with the  *)
(* tokens they make (backend/auth/jwt_handler.py) and the check of every   *)
(* other handler (backend/auth/dependencies.py).  It extends LoginLimiter, *)
(* whose verdict comes first in login.                                     *)
(*                                                                         *)
(* The server keeps no session: what it knows is in the tokens it signed,  *)
(* and in its settings, which a restart may find changed.  Seen from one   *)
(* browser, other clients only matter to the limiter and to the log, so    *)
(* one browser is modelled, with several calls in flight: their answers    *)
(* arrive in any order, or not at all.  Its cookies stay until an answer   *)
(* replaces or deletes them, as they do for a client that ignores max_age. *)
(* A token sent in an Authorization header is one that came as a cookie.   *)
(*                                                                         *)
(* A definition whose name ends in _<Mistake> is a variant no action uses: *)
(* a plausible slip in the code, there to show which property notices it.  *)
(***************************************************************************)
EXTENDS LoginLimiter

CONSTANTS
    Calls,              \* the calls the browser may have in flight
    Roles,              \* the values of ADMIN_ROLE
    NoToken,            \* a cookie that is not set
    ACCESS_TTL,         \* 15 minutes in the code
    REFRESH_TTL,        \* 7 days in the code
    MaxDbFaults         \* bound on log_activity calls that raise

ASSUME SessionAssumption ==
    /\ {ACCESS_TTL, REFRESH_TTL} \subseteq Nat \ {0}
    /\ MaxDbFaults \in Nat

VARIABLES
    config,             \* the settings: ADMIN_ROLE, and JWT_SECRET as a number
    call,               \* how far each call is, and the cookies it answers with
    cookie,             \* the browser's cookies
    logins,             \* the LOGIN entries of activity_log: time and role
    loggedOut,          \* history: the time of its last logout, or NoToken
    dbFaults

session == <<config, call, cookie, logins, loggedOut, dbFaults>>
limiter == <<now, attempts, admitted, verdict, restarts>>

\* "login" is when the login was to which the token goes back: history.
Tokens == [type : {"access", "refresh"}, role : Roles, key : Nat, made : Nat, login : Nat]
Cookies == [access : Tokens \cup {NoToken}, refresh : Tokens \cup {NoToken}]
NoCookies == [access |-> NoToken, refresh |-> NoToken]
Idle == [op |-> "none", stage |-> "idle", cookies |-> NoCookies]

SessionTypeOK ==
    /\ TypeOK
    /\ config \in [role : Roles, key : Nat]
    /\ call \in [Calls -> [op : {"none", "login", "refresh", "logout"},
                           stage : {"idle", "log", "log_failed", "reply"},
                           cookies : Cookies]]
    /\ cookie \in Cookies
    /\ logins \in SUBSET [at : Nat, role : Roles]
    /\ loggedOut \in Nat \cup {NoToken}
    /\ dbFaults \in 0..MaxDbFaults

SessionInit ==
    /\ Init
    /\ config \in [role : Roles, key : {0}]
    /\ call = [k \in Calls |-> Idle]
    /\ cookie = NoCookies
    /\ logins = {}
    /\ loggedOut = NoToken
    /\ dbFaults = 0

TTL(type) == IF type = "access" THEN ACCESS_TTL ELSE REFRESH_TTL

\* decode_token and the check of its type: made with this key, not expired.
\* The very second it expires in still counts.
Valid(t, type) ==
    t # NoToken /\ t.type = type /\ t.key = config.key /\ now <= t.made + TTL(type)

\* create_access_token and create_refresh_token
Token(type, role, login) ==
    [type |-> type, role |-> role, key |-> config.key, made |-> now, login |-> login]

BothTokens ==
    [access |-> Token("access", config.role, now),
     refresh |-> Token("refresh", config.role, now)]

Goto(k, stage) == call' = [call EXCEPT ![k].stage = stage]
Starts(k, op, stage, cookies) ==
    call' = [call EXCEPT ![k] = [op |-> op, stage |-> stage, cookies |-> cookies]]

(***************************************************************************)
(* login: the limiter, then authenticate_user, which somebody with the     *)
(* right password and code passes.  A refused attempt changes nothing else *)
(* and is not logged.                                                      *)
(***************************************************************************)
Login(k) ==
    /\ call[k].stage = "idle"
    /\ \E c \in Clients :
        /\ CheckLogin(c)
        /\ \/ verdict'[c].said = "refused" /\ UNCHANGED call
           \/ /\ verdict'[c].said = "admitted"
              /\ \/ Starts(k, "login", "log", BothTokens)
                 \/ Starts(k, "login", "log_failed", NoCookies)
    /\ UNCHANGED <<config, cookie, logins, loggedOut, dbFaults>>

\* refresh copies sub and role; a cookie that is no refresh token gets a 401.
Refresh(k) ==
    /\ call[k].stage = "idle"
    /\ LET t == cookie.refresh
       IN  /\ Valid(t, "refresh")
           /\ Starts(k, "refresh", "reply",
                     [access |-> Token("access", t.role, t.login), refresh |-> NoToken])
    /\ UNCHANGED <<limiter, config, cookie, logins, loggedOut, dbFaults>>

Logout(k) ==
    /\ call[k].stage = "idle"
    /\ Valid(cookie.access, "access")
    /\ Starts(k, "logout", "log", NoCookies)
    /\ UNCHANGED <<limiter, config, cookie, logins, loggedOut, dbFaults>>

Raises(k) ==
    /\ dbFaults < MaxDbFaults
    /\ dbFaults' = dbFaults + 1
    /\ call' = [call EXCEPT ![k] = Idle]
    /\ UNCHANGED logins

Logged(k) ==
    /\ Goto(k, "reply")
    /\ LET t == call[k].cookies.access
       IN  logins' = IF call[k].op = "login"
                     THEN logins \cup {[at |-> t.login, role |-> t.role]} ELSE logins
    /\ UNCHANGED dbFaults

LogCall_Caught(k) ==
    /\ call[k].stage = "log"
    /\ Logged(k) \/ (Goto(k, "reply") /\ UNCHANGED <<logins, dbFaults>>)
    /\ UNCHANGED <<limiter, config, cookie, loggedOut>>

(***************************************************************************)
(* log_activity comes after the cookies of the answer are set or before    *)
(* they are deleted: if it raises, the answer is a 500 without either.     *)
(***************************************************************************)
LogCall(k) ==
    /\ call[k].stage = "log"
    /\ Logged(k) \/ Raises(k)
    /\ UNCHANGED <<limiter, config, cookie, loggedOut>>

\* A failed login is logged and gets a 401, or a 500 if that raises.
LogFailed(k) ==
    /\ call[k].stage = "log_failed"
    /\ \/ call' = [call EXCEPT ![k] = Idle] /\ UNCHANGED <<logins, dbFaults>>
       \/ Raises(k)
    /\ UNCHANGED <<limiter, config, cookie, loggedOut>>

SetCookies_LoginOnly(k) ==
    cookie' = [access |-> call[k].cookies.access,
               refresh |-> IF call[k].op # "login" THEN cookie.refresh
                           ELSE call[k].cookies.refresh]

\* refresh sets one cookie, the others set or delete both.
SetCookies(k) ==
    cookie' = [access |-> call[k].cookies.access,
               refresh |-> IF call[k].op = "refresh" THEN cookie.refresh
                           ELSE call[k].cookies.refresh]

Arrive(k) ==
    /\ call[k].stage = "reply"
    /\ SetCookies(k)
    /\ loggedOut' = IF call[k].op = "logout" THEN now
                    ELSE IF call[k].op = "login" THEN NoToken ELSE loggedOut
    /\ call' = [call EXCEPT ![k] = Idle]
    /\ UNCHANGED <<limiter, config, logins, dbFaults>>

\* nginx or the network gave the call up: its answer is lost.
Lose(k) ==
    /\ call[k].stage = "reply"
    /\ call' = [call EXCEPT ![k] = Idle]
    /\ UNCHANGED <<limiter, config, cookie, logins, loggedOut, dbFaults>>

\* The process is started again, with its settings or others.
SessionRestart ==
    /\ Restart
    /\ config' \in [role : Roles, key : {config.key, config.key + 1}]
    /\ call' = [k \in Calls |-> IF call[k].stage = "reply" THEN call[k] ELSE Idle]
    /\ UNCHANGED <<cookie, logins, loggedOut, dbFaults>>

SessionNext ==
    \/ \E k \in Calls : \/ Login(k) \/ Refresh(k) \/ Logout(k)
                        \/ LogCall(k) \/ LogFailed(k) \/ Arrive(k) \/ Lose(k)
    \/ Tick /\ UNCHANGED session
    \/ SessionRestart

SessionSpec == SessionInit /\ [][SessionNext]_<<limiter, session>>

-----------------------------------------------------------------------------

(***************************************************************************)
(* Whatever the browser collects, and although the server remembers        *)
(* nothing, a token it can act with goes back to a login that is in the    *)
(* activity log, gives the role that login had, and serves no longer than  *)
(* REFRESH_TTL + ACCESS_TTL after it, however often it was refreshed.      *)
(***************************************************************************)
SessionsAreBounded ==
    LET t == cookie.access
    IN  Valid(t, "access") =>
            /\ [at |-> t.login, role |-> t.role] \in logins
            /\ now - t.login <= REFRESH_TTL + ACCESS_TTL

(***************************************************************************)
(* Once a logout was answered, and until a login is, the browser has no    *)
(* refresh token; and the access token that a refresh overtaken by the     *)
(* logout may give it back serves no longer than ACCESS_TTL after it.      *)
(***************************************************************************)
LogoutSticks ==
    loggedOut # NoToken =>
        /\ cookie.refresh = NoToken
        /\ Valid(cookie.access, "access") => now - loggedOut <= ACCESS_TTL
=============================================================================
