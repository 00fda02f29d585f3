------------------------------ MODULE Authorize ------------------------------
(***************************************************************************)
(* GET /authorize beside login, logout and withdrawal.                     *)
(*                                                                         *)
(*   internal/handler/oidc_authorize.go, and the statements of             *)
(*   queries.sql it runs, composed with the module LoginMFA.               *)
(*                                                                         *)
(* A visit is one GET /authorize in progress.  With a session that works   *)
(* it ends in a code.  Without one it saves the request and sends the      *)
(* browser to log in; the login completes the saved request, and a visit   *)
(* with its request_id resumes it.  A statement is a step, as in LoginMFA, *)
(* and what a visit has read may be stale when it issues the code.         *)
(*                                                                         *)
(* The library's part is external: which requests it accepts, new ones and *)
(* those a resumed visit rebuilds, and that NewAuthorizeResponse stores    *)
(* one code or fails.  The module CodeStore takes it from there.           *)
(***************************************************************************)
EXTENDS Naturals, FiniteSets, FiniteSetsExt

\* Of LoginMFA.
CONSTANTS Users, Requests, Challenges, Sessions, MaxAttempts, None

CONSTANTS
    AuthRequests,   \* fresh ids for rows of authorization_requests
    Visits,         \* GET /authorize handlers that may be in progress at once
    Codes,          \* fresh authorization codes
    MaxTime         \* bound on the clock

ASSUME RequestsAssumption == IsFiniteSet(Requests)
ASSUME MaxAttemptsAssumption == MaxAttempts \in Nat \ {0}
ASSUME TimeAssumption == MaxTime \in Nat
ASSUME NoneAssumption ==
    /\ None \notin Users \cup Challenges \cup Sessions \cup AuthRequests \cup Nat
    /\ None \notin {"open", "expired"}

\* Of LoginMFA; authUser is authorization_requests.user_id.
VARIABLES status, challenge, session, authUser, handed, cookies,
          pc, user, ch, sess, sweep

VARIABLES
    saved,          \* authorization_requests: whether expires_at has passed
    now,            \* the clock that dates logins
    authTime,       \* login_sessions.auth_time
    code,           \* authorization codes, with what their session says
    at, held        \* where a visit is, and what it has read

loginVars == <<status, challenge, session, authUser, handed, cookies,
               pc, user, ch, sess, sweep>>
vars == <<loginVars, saved, now, authTime, code, at, held>>

MFA == INSTANCE LoginMFA
ASSUME NoLoginRowAssumption == None \notin MFA!ChallengeRow /\ None \notin MFA!SessionRow

\* request is None for a code of a session; since is history: the latest login
\* of the user that the visit could know of when it began.
Held == [user : Users, authTime : Nat \cup {None}, request : AuthRequests \cup {None}, since : Nat]
ASSUME NoRowAssumption == None \notin Held

Init ==
    /\ MFA!Init
    /\ saved = [q \in AuthRequests |-> None]
    /\ now = 0
    /\ authTime = [s \in Sessions |-> None]
    /\ code = [c \in Codes |-> None]
    /\ at = [v \in Visits |-> "idle"]
    /\ held = [v \in Visits |-> None]

Goto(v, where, what) ==
    /\ at' = [at EXCEPT ![v] = where]
    /\ held' = [held EXCEPT ![v] = what]

Finish(v) == Goto(v, "idle", None)

SessionsOf(u) == {s \in MFA!Existing(session) : session[s].user = u}
Dates(u) == {authTime[s] : s \in SessionsOf(u)}

EarliestLogin(u) == Min(Dates(u))
\* ORDER BY auth_time DESC LIMIT 1: of any session, one that is revoked or
\* expired too.
LatestLogin(u) == Max(Dates(u))

-------------------------------------------------------------------------------
(* A new request *)

\* The browser's op_session is a session that works: its row is all the visit
\* uses from here on.
HandleAuthenticated(v, s) ==
    /\ at[v] = "idle"
    /\ s \in cookies
    /\ MFA!GetSession(s)
    /\ Goto(v, "issuing", [user |-> session[s].user, authTime |-> authTime[s],
                           request |-> None, since |-> authTime[s]])
    /\ UNCHANGED <<loginVars, saved, now, authTime, code>>

\* The browser has no cookie, or one of a session that does not work.
HandleUnauthenticated(v) ==
    /\ at[v] = "idle"
    /\ Goto(v, "saving", None)
    /\ UNCHANGED <<loginVars, saved, now, authTime, code>>

CreateRequestForever(v, q) ==
    /\ at[v] = "saving"
    /\ saved[q] = None
    /\ saved' = [saved EXCEPT ![q] = "kept"]
    /\ Finish(v)
    /\ UNCHANGED <<loginVars, now, authTime, code>>

\* The row is stored and the redirect to /login carries its request_id.
CreateAuthorizationRequest(v, q) ==
    /\ at[v] = "saving"
    /\ saved[q] = None
    /\ saved' = [saved EXCEPT ![q] = "open"]
    /\ Finish(v)
    /\ UNCHANGED <<loginVars, now, authTime, code>>

-------------------------------------------------------------------------------
(* A resumed request *)

ResumableAnyTime(q) == saved[q] # None /\ authUser[q] # None
\* Without a user the browser is sent to log in, past its expiry it gets 410.
Resumable(q) == saved[q] # None /\ authUser[q] # None /\ saved[q] # "expired"

\* Whose request it is was read here, and is not read again.
HandleResumed(v, q) ==
    /\ at[v] = "idle"
    /\ Resumable(q)
    /\ Goto(v, "dating", [user |-> authUser[q], authTime |-> None, request |-> q,
                          since |-> Max(Dates(authUser[q]) \cup {0})])
    /\ UNCHANGED <<loginVars, saved, now, authTime, code>>

\* The query of auth_time; if it fails the code says that the login is now.
ReadAuthTime(v) ==
    /\ at[v] = "dating"
    /\ \E t \in Dates(held[v].user) \cup {now} :
        /\ t = now \/ t = LatestLogin(held[v].user)
        /\ Goto(v, "issuing", [held[v] EXCEPT !.authTime = t])
    /\ UNCHANGED <<loginVars, saved, now, authTime, code>>

NewAuthorizeResponseReread(v, c) ==
    /\ at[v] = "issuing"
    /\ code[c] = None
    /\ code' = [code EXCEPT ![c] =
          IF held[v].request = None THEN held[v]
          ELSE [held[v] EXCEPT !.user = authUser[held[v].request]]]
    /\ Finish(v)
    /\ UNCHANGED <<loginVars, saved, now, authTime>>

\* The code is stored with the subject and auth_time the visit holds.  Neither
\* the status of the user nor the session or request is looked at again.
NewAuthorizeResponse(v, c) ==
    /\ at[v] = "issuing"
    /\ code[c] = None
    /\ code' = [code EXCEPT ![c] = held[v]]
    /\ Finish(v)
    /\ UNCHANGED <<loginVars, saved, now, authTime>>

-------------------------------------------------------------------------------
(* Login, and the environment *)

LoginUnstamped == MFA!Next /\ UNCHANGED <<saved, now, authTime, code, at, held>>

\* A step of LoginMFA: an INSERT into login_sessions dates the row, and only a
\* request that was saved can be completed, expired or not.
LoginStep ==
    /\ MFA!Next
    /\ \A q \in AuthRequests : saved[q] = None => authUser'[q] = None
    /\ authTime' = [s \in Sessions |->
          IF session[s] = None /\ session'[s] # None THEN now ELSE authTime[s]]
    /\ UNCHANGED <<saved, now, code, at, held>>

\* A check of the library, a statement or the process fails.
Fail(v) ==
    /\ at[v] # "idle"
    /\ Finish(v)
    /\ UNCHANGED <<loginVars, saved, now, authTime, code>>

ExpireRequest(q) ==
    /\ saved[q] = "open"
    /\ saved' = [saved EXCEPT ![q] = "expired"]
    /\ UNCHANGED <<loginVars, now, authTime, code, at, held>>

Tick ==
    /\ now < MaxTime
    /\ now' = now + 1
    /\ UNCHANGED <<loginVars, saved, authTime, code, at, held>>

Advance(v) ==
    \/ \E q \in AuthRequests : CreateAuthorizationRequest(v, q)
    \/ ReadAuthTime(v)
    \/ \E c \in Codes : NewAuthorizeResponse(v, c)

Next ==
    \/ \E v \in Visits :
        \/ \E s \in Sessions : HandleAuthenticated(v, s)
        \/ HandleUnauthenticated(v)
        \/ \E q \in AuthRequests : HandleResumed(v, q)
        \/ Advance(v)
        \/ Fail(v)
    \/ \E q \in AuthRequests : ExpireRequest(q)
    \/ LoginStep
    \/ Tick

Spec == Init /\ [][Next]_vars

\* A visit that began goes on or fails, and requests expire; login likewise.
FairSpec ==
    /\ Spec
    /\ MFA!Fairness
    /\ \A v \in Visits : WF_vars(Advance(v) \/ Fail(v))
    /\ \A q \in AuthRequests : WF_vars(ExpireRequest(q))

-------------------------------------------------------------------------------
\* Type correctness, with what a visit holds at each point.
TypeOK ==
    /\ MFA!TypeOK
    /\ saved \in [AuthRequests -> {"open", "expired", None}]
    /\ now \in 0 .. MaxTime
    /\ authTime \in [Sessions -> 0 .. MaxTime \cup {None}]
    /\ \A s \in Sessions : authTime[s] # None <=> session[s] # None
    /\ code \in [Codes -> Held \cup {None}]
    /\ at \in [Visits -> {"idle", "saving", "dating", "issuing"}]
    /\ held \in [Visits -> Held \cup {None}]
    /\ \A v \in Visits : held[v] # None <=> at[v] \in {"dating", "issuing"}

Issued == {c \in Codes : code[c] # None}

\* A code belongs to a user who had passed both factors when it says so: some
\* session of that user was stored no later than the code's auth_time, which
\* is not in the future.  Reading the user in one statement and the login in
\* another does not mix two users, whoever completes the request meanwhile.
CodeAfterLogin ==
    \A c \in Issued :
        /\ code[c].authTime <= now
        /\ \E s \in SessionsOf(code[c].user) : authTime[s] <= code[c].authTime

\* The auth_time of a resumed request is never older than the login that
\* completed it, nor than any other the user had made when the visit began:
\* a client that asked for a new login can tell that there was one.
AuthTimeNotBefore ==
    \A c \in Issued : code[c].authTime >= code[c].since

CodesFrom(q) == {c \in Issued : code[c].request = q}

\* A saved request may be resumed any number of times, by several visits, and
\* completed again by another user, but its expiry ends it: once expired with
\* no visit past the check, no code comes from it, whatever completes it.
Closed(q) == saved[q] = "expired" /\ \A v \in Visits : held[v] = None \/ held[v].request # q

ExpiredRequestIsClosed ==
    [][\A q \in AuthRequests : Closed(q) => Closed(q)' /\ CodesFrom(q)' = CodesFrom(q)]_vars

\* What can still bring a code to u: a handler under way, a challenge that may
\* be verified, a session that works, a request u completed, a visit.
LoggingIn(u) ==
    \/ \E r \in Requests : user[r] = u \/ (ch[r] # None /\ challenge[ch[r]].user = u)
    \/ \E c \in MFA!Existing(challenge) : challenge[c].user = u /\ MFA!MayVerify(challenge[c])
Present(u) ==
    \/ \E s \in SessionsOf(u) : ~session[s].revoked /\ ~session[s].expired
    \/ \E q \in AuthRequests : authUser[q] = u /\ saved[q] # "expired"
    \/ \E v \in Visits : held[v] # None /\ held[v].user = u

WithinReach(u) == status[u] = "active" \/ LoggingIn(u) \/ Present(u)

CodesOf(u) == {c \in Issued : code[c].user = u}

\* Neither the login nor the issue of a code checks that a user has not been
\* withdrawn since the challenge was opened, but these are all the ways a
\* withdrawn user has left: when none is open, none opens again, and the user
\* gets no more codes.
WithdrawnOutOfReach ==
    [][\A u \in Users : ~WithinReach(u) =>
        ~WithinReach(u)' /\ CodesOf(u)' = CodesOf(u)]_vars

\* And each of them ends: a withdrawn user is out of reach of a code for good,
\* by the expiry of what was open.
WithdrawnGetsNoCodeInTheEnd ==
    \A u \in Users : status[u] = "withdrawn" ~> []~WithinReach(u)
===============================================================================
