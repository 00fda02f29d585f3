------------------------------- MODULE LoginMFA -------------------------------
(***************************************************************************)
(* Two-step login, login sessions and withdrawal.                          *)
(*                                                                         *)
(*   internal/service/login_service.go, internal/handler/login.go,         *)
(*   internal/repository/{otp,session,user}_repository.go and the          *)
(*   statements of sql/queries/queries.sql they run.                       *)
(*                                                                         *)
(* A request is one HTTP handler in progress.  The handlers share nothing  *)
(* but the database, and outside Withdraw every SQL statement is a         *)
(* transaction of its own, so one statement is one atomic step and the     *)
(* statements of concurrent handlers interleave freely.  A handler may     *)
(* stop before any of its statements (an error it returns, a panic, the    *)
(* end of the Lambda invocation): Fail.                                    *)
(*                                                                         *)
(* Abstracted: secrets and their hashes are the ids of the rows they       *)
(* select; time is the moment an expires_at passes; audit_logs and         *)
(* user_withdrawals are written and never read.                            *)
(***************************************************************************)
EXTENDS Naturals, FiniteSets

CONSTANTS
    Users,          \* rows of users; registration is the module Registration
    Requests,       \* HTTP handlers that may be in progress at once
    Challenges,     \* fresh ids for rows of email_otp_challenges
    Sessions,       \* fresh ids for rows of login_sessions
    AuthRequests,   \* rows of authorization_requests that wait for a login
    MaxAttempts,    \* column max_attempts: DEFAULT 5 in 000001_init.up.sql
    None            \* SQL NULL, an absent row

ASSUME RequestsAssumption == IsFiniteSet(Requests)
ASSUME MaxAttemptsAssumption == MaxAttempts \in Nat \ {0}
ASSUME NoneAssumption == None \notin Users \cup Challenges \cup Sessions

VARIABLES
    status,         \* users.status
    challenge,      \* email_otp_challenges
    session,        \* login_sessions; from is the challenge that was verified
    authUser,       \* authorization_requests.user_id
    handed,         \* challenge ids answered to a browser by Login
    cookies,        \* session ids answered to a browser in op_session
    pc, user, ch, sess,  \* where a handler is, and the rows it holds
    sweep           \* sessions its open transaction has revoked, locked

vars == <<status, challenge, session, authUser, handed, cookies,
          pc, user, ch, sess, sweep>>

PCs == {"idle",
        "challenge", "mail",                                  \* PostLogin
        "counting", "marking", "inserting",                   \* PostVerifyMFA
        "completing", "answering",
        "withdrawing", "committing"}                          \* PostWithdraw

ChallengeRow == [user : Users, attempts : Nat, used : BOOLEAN, expired : BOOLEAN]
SessionRow == [user : Users, from : Challenges, revoked : BOOLEAN, expired : BOOLEAN]

\* NULL is none of the rows.
ASSUME NoRowAssumption == None \notin ChallengeRow /\ None \notin SessionRow

Init ==
    /\ status = [u \in Users |-> "active"]
    /\ challenge = [c \in Challenges |-> None]
    /\ session = [s \in Sessions |-> None]
    /\ authUser = [q \in AuthRequests |-> None]
    /\ handed = {}
    /\ cookies = {}
    /\ pc = [r \in Requests |-> "idle"]
    /\ user = [r \in Requests |-> None]
    /\ ch = [r \in Requests |-> None]
    /\ sess = [r \in Requests |-> None]
    /\ sweep = [r \in Requests |-> {}]

Goto(r, where) == pc' = [pc EXCEPT ![r] = where]

FinishInTx(r) ==
    /\ Goto(r, "idle")
    /\ user' = [user EXCEPT ![r] = None]
    /\ ch' = [ch EXCEPT ![r] = None]
    /\ sess' = [sess EXCEPT ![r] = None]
    /\ UNCHANGED sweep

\* The handler returns: its locals are gone and its transaction is closed.
Finish(r) ==
    /\ Goto(r, "idle")
    /\ user' = [user EXCEPT ![r] = None]
    /\ ch' = [ch EXCEPT ![r] = None]
    /\ sess' = [sess EXCEPT ![r] = None]
    /\ sweep' = [sweep EXCEPT ![r] = {}]

-------------------------------------------------------------------------------
(* PostLogin *)

MayLoginAny(u) == TRUE
MayLogin(u) == status[u] = "active"

\* The user is found, active, and the password is right.
Login(r, u) ==
    /\ pc[r] = "idle"
    /\ MayLogin(u)
    /\ Goto(r, "challenge")
    /\ user' = [user EXCEPT ![r] = u]
    /\ UNCHANGED <<status, challenge, session, authUser, handed, cookies, ch, sess, sweep>>

CreateChallenge(r) ==
    /\ pc[r] = "challenge"
    /\ \E c \in Challenges :
        /\ challenge[c] = None
        /\ challenge' = [challenge EXCEPT ![c] =
              [user |-> user[r], attempts |-> 0, used |-> FALSE, expired |-> FALSE]]
        /\ ch' = [ch EXCEPT ![r] = c]
    /\ Goto(r, "mail")
    /\ UNCHANGED <<status, session, authUser, handed, cookies, user, sess, sweep>>

\* The mail goes out and the browser learns the challenge id.
SendOTPEmail(r) ==
    /\ pc[r] = "mail"
    /\ handed' = handed \cup {ch[r]}
    /\ Finish(r)
    /\ UNCHANGED <<status, challenge, session, authUser, cookies>>

-------------------------------------------------------------------------------
(* PostVerifyMFA *)

MayVerifyUnlimited(row) == ~row.used /\ ~row.expired
MayVerifyUsed(row) == ~row.expired /\ row.attempts < MaxAttempts
MayVerify(row) == ~row.used /\ ~row.expired /\ row.attempts < MaxAttempts

\* The challenge is fetched and its three checks pass.
VerifyMFA(r, c) ==
    /\ pc[r] = "idle"
    /\ c \in handed
    /\ MayVerify(challenge[c])
    /\ Goto(r, "counting")
    /\ ch' = [ch EXCEPT ![r] = c]
    /\ UNCHANGED <<status, challenge, session, authUser, handed, cookies, user, sess, sweep>>

\* One UPDATE ... RETURNING, then the OTP is compared: it matches or the
\* handler returns ErrOTPInvalid.
IncrementAttempts(r) ==
    /\ pc[r] = "counting"
    /\ challenge' = [challenge EXCEPT ![ch[r]].attempts = @ + 1]
    /\ \/ /\ Goto(r, "marking")
          /\ user' = [user EXCEPT ![r] = challenge[ch[r]].user]
          /\ UNCHANGED <<ch, sess, sweep>>
       \/ Finish(r)
    /\ UNCHANGED <<status, session, authUser, handed, cookies>>

MarkedNever(row) == row
Marked(row) == [row EXCEPT !.used = TRUE]

MarkUsedNoSession(r) ==
    /\ pc[r] = "marking"
    /\ challenge' = [challenge EXCEPT ![ch[r]] = Marked(@)]
    /\ Goto(r, "completing")
    /\ UNCHANGED <<status, session, authUser, handed, cookies, user, ch, sess, sweep>>

\* Unconditional: WHERE id = $1.
MarkUsed(r) ==
    /\ pc[r] = "marking"
    /\ challenge' = [challenge EXCEPT ![ch[r]] = Marked(@)]
    /\ Goto(r, "inserting")
    /\ UNCHANGED <<status, session, authUser, handed, cookies, user, ch, sess, sweep>>

CreateSession(r) ==
    /\ pc[r] = "inserting"
    /\ \E s \in Sessions :
        /\ session[s] = None
        /\ session' = [session EXCEPT ![s] =
              [user |-> user[r], from |-> ch[r], revoked |-> FALSE, expired |-> FALSE]]
        /\ sess' = [sess EXCEPT ![r] = s]
    /\ Goto(r, "completing")
    /\ UNCHANGED <<status, challenge, authUser, handed, cookies, user, ch, sweep>>

\* The form may carry a request_id; a failure to complete it is ignored.
CompleteAuthorizationRequest(r) ==
    /\ pc[r] = "completing"
    /\ \/ \E q \in AuthRequests : authUser' = [authUser EXCEPT ![q] = user[r]]
       \/ UNCHANGED authUser
    /\ Goto(r, "answering")
    /\ UNCHANGED <<status, challenge, session, handed, cookies, user, ch, sess, sweep>>

\* The response carries the cookie to the browser.
AnswerVerifyMFA(r) ==
    /\ pc[r] = "answering"
    /\ cookies' = cookies \cup {sess[r]}
    /\ Finish(r)
    /\ UNCHANGED <<status, challenge, session, authUser, handed>>

-------------------------------------------------------------------------------
(* GetSession, PostLogout and PostWithdraw *)

GetSession(s) == session[s] # None /\ ~session[s].revoked /\ ~session[s].expired

\* RevokeLoginSession waits for a transaction that holds the row.
PostLogout(s) ==
    /\ s \in cookies
    /\ \A r \in Requests : s \notin sweep[r]
    /\ session' = [session EXCEPT ![s].revoked = TRUE]
    /\ UNCHANGED <<status, challenge, authUser, handed, cookies, pc, user, ch, sess, sweep>>

\* The session is checked once, before the transaction begins.
PostWithdraw(r, s) ==
    /\ pc[r] = "idle"
    /\ s \in cookies
    /\ GetSession(s)
    /\ Goto(r, "withdrawing")
    /\ user' = [user EXCEPT ![r] = session[s].user]
    /\ UNCHANGED <<status, challenge, session, authUser, handed, cookies, ch, sess, sweep>>

SweptNone(u) == {}
Swept(u) == {s \in Sessions : session[s] # None /\ session[s].user = u
                                /\ ~session[s].revoked}

\* The UPDATEs of the transaction.  The row lock on users is taken first and
\* kept to the end, so two withdrawals of a user run one after the other; the
\* UPDATE of login_sessions sees the rows committed when it starts.
\* Nothing the transaction wrote is visible before Commit.
Withdraw(r) ==
    /\ pc[r] = "withdrawing"
    /\ \A q \in Requests : ~(pc[q] = "committing" /\ user[q] = user[r])
    /\ sweep' = [sweep EXCEPT ![r] = Swept(user[r])]
    /\ Goto(r, "committing")
    /\ UNCHANGED <<status, challenge, session, authUser, handed, cookies, user, ch, sess>>

Commit(r) ==
    /\ pc[r] = "committing"
    /\ status' = [status EXCEPT ![user[r]] = "withdrawn"]
    /\ session' = [s \in Sessions |->
          IF s \in sweep[r] THEN [session[s] EXCEPT !.revoked = TRUE] ELSE session[s]]
    /\ Finish(r)
    /\ UNCHANGED <<challenge, authUser, handed, cookies>>

-------------------------------------------------------------------------------
(* The environment *)

\* A statement, the mailer or the process fails: what was committed stays, an
\* open transaction is rolled back.
Fail(r) ==
    /\ pc[r] # "idle"
    /\ Finish(r)
    /\ UNCHANGED <<status, challenge, session, authUser, handed, cookies>>

ExpireChallenge(c) ==
    /\ challenge[c] # None /\ ~challenge[c].expired
    /\ challenge' = [challenge EXCEPT ![c].expired = TRUE]
    /\ UNCHANGED <<status, session, authUser, handed, cookies, pc, user, ch, sess, sweep>>

ExpireSession(s) ==
    /\ session[s] # None /\ ~session[s].expired
    /\ session' = [session EXCEPT ![s].expired = TRUE]
    /\ UNCHANGED <<status, challenge, authUser, handed, cookies, pc, user, ch, sess, sweep>>

\* A statement or answer of a handler that has begun.
Advance(r) ==
    \/ CreateChallenge(r) \/ SendOTPEmail(r)
    \/ IncrementAttempts(r) \/ MarkUsed(r) \/ CreateSession(r)
    \/ CompleteAuthorizationRequest(r) \/ AnswerVerifyMFA(r)
    \/ Withdraw(r) \/ Commit(r)

Next ==
    \/ \E r \in Requests :
        \/ \E u \in Users : Login(r, u)
        \/ \E c \in Challenges : VerifyMFA(r, c)
        \/ \E s \in Sessions : PostWithdraw(r, s)
        \/ Advance(r)
        \/ Fail(r)
    \/ \E s \in Sessions : PostLogout(s) \/ ExpireSession(s)
    \/ \E c \in Challenges : ExpireChallenge(c)

Spec == Init /\ [][Next]_vars

\* A handler that has begun goes on or fails, and the clock advances.  Authorize
\* assumes it of the login it composes.
Fairness ==
    /\ \A r \in Requests : WF_vars(Advance(r) \/ Fail(r))
    /\ \A c \in Challenges : WF_vars(ExpireChallenge(c))
    /\ \A s \in Sessions : WF_vars(ExpireSession(s))

-------------------------------------------------------------------------------
(* What the rows say about a handler in progress *)

Existing(table) == {i \in DOMAIN table : table[i] # None}

\* Handlers that passed the checks of VerifyMFA for c and may still count an
\* attempt, or still open a session.
Counting(c) == {r \in Requests : pc[r] = "counting" /\ ch[r] = c}
Verifying(c) == {r \in Requests : pc[r] \in {"counting", "marking", "inserting"} /\ ch[r] = c}

From(c) == {s \in Existing(session) : session[s].from = c}

(***************************************************************************)
(* Type correctness, with what each program point knows of its locals: the *)
(* ids a handler or a browser holds select existing rows, and only a       *)
(* handler inside ExecuteTx holds row locks.                               *)
(***************************************************************************)
TablesOK ==
    /\ status \in [Users -> {"active", "withdrawn"}]
    /\ challenge \in [Challenges -> ChallengeRow \cup {None}]
    /\ session \in [Sessions -> SessionRow \cup {None}]
    /\ authUser \in [AuthRequests -> Users \cup {None}]
    /\ handed \subseteq Existing(challenge)
    /\ cookies \subseteq Existing(session)

LocalsOK ==
    /\ pc \in [Requests -> PCs]
    /\ user \in [Requests -> Users \cup {None}]
    /\ ch \in [Requests -> Challenges \cup {None}]
    /\ sess \in [Requests -> Sessions \cup {None}]
    /\ sweep \in [Requests -> SUBSET Sessions]

PointOK(r) ==
    /\ pc[r] \notin {"idle", "counting"} => user[r] \in Users
    /\ pc[r] \in {"mail", "counting", "marking", "inserting", "completing", "answering"}
          => ch[r] \in Existing(challenge)
    /\ pc[r] \in {"completing", "answering"} => sess[r] \in Existing(session)
    /\ sweep[r] \subseteq Existing(session)
    /\ sweep[r] # {} => pc[r] = "committing"

TypeOK == TablesOK /\ LocalsOK /\ \A r \in Requests : PointOK(r)

(***************************************************************************)
(* Safety                                                                  *)
(***************************************************************************)

\* The limit on attempts is read before the increment, in another statement:
\* N concurrent verifications can overshoot it by N - 1, and by no more.
AttemptsBounded ==
    \A c \in Existing(challenge) :
        challenge[c].attempts <= MaxAttempts - 1 + Cardinality(Requests)

\* A challenge opens at most one session for each handler that can run at
\* once, however long the run: used_at closes it to every later request, and
\* one-at-a-time verification makes it single use.
SessionsPerChallenge ==
    \A c \in Challenges : Cardinality(From(c)) <= Cardinality(Requests)

\* Every session goes back to a challenge of the same user that was spent for
\* it: no session without the second factor, none for somebody else.
SessionBacked ==
    \A s \in Existing(session) :
        LET c == session[s].from IN
            /\ c \in Existing(challenge)
            /\ challenge[c].used
            /\ challenge[c].user = session[s].user

\* An authorization request is completed for a user only when a login session
\* of that user was stored before, even if the handler failed right after.
CompletedAfterMFA ==
    \A q \in AuthRequests : authUser[q] # None =>
        \E s \in Existing(session) : session[s].user = authUser[q]

\* A spent challenge that no handler is verifying is sealed for good: no
\* verification of it begins, no attempt is counted on it, and no session is
\* opened from it again.
Sealed(c) == challenge[c] # None /\ challenge[c].used /\ Verifying(c) = {}

SealedChallenge ==
    [][\A c \in Challenges : Sealed(c) =>
        /\ Sealed(c)'
        /\ From(c)' = From(c)
        /\ challenge'[c].attempts = challenge[c].attempts]_vars

ChallengesOf(u) == {c \in Existing(challenge) : challenge[c].user = u}
LoggingIn(u) == \E r \in Requests : pc[r] = "challenge" /\ user[r] = u

\* Once a user is withdrawn and no login that saw the old status is under way,
\* that stays so and no challenge is created for the user: what can still
\* become a session is bounded by the challenges there are.
LoginClosed(u) == status[u] = "withdrawn" /\ ~LoggingIn(u)

NoLoginAfterWithdraw ==
    [][\A u \in Users : LoginClosed(u) =>
        LoginClosed(u)' /\ ChallengesOf(u)' = ChallengesOf(u)]_vars

Committing(u) == \E r \in Requests : pc[r] = "committing" /\ user[r] = u

\* A session of u stored while u is active and no withdrawal of u is between
\* its UPDATEs and its commit.
StoredBefore(s, u) ==
    /\ s \in Existing(session)
    /\ session[s].user = u
    /\ status[u] = "active"
    /\ ~Committing(u)

\* Such a session is dead whenever the user is withdrawn.
WithdrawalEndsEarlierSessions ==
    \A s \in Sessions, u \in Users :
        [](StoredBefore(s, u) => [](status[u] = "withdrawn" => ~GetSession(s)))
===============================================================================
