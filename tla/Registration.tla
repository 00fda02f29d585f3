----------------------------- MODULE Registration -----------------------------
(***************************************************************************)
(* Registration with e-mail verification, over a pool of connections.      *)
(*                                                                         *)
(*   internal/service/registration_service.go, internal/handler/register.go,*)
(*   internal/repository/registration_repository.go, and NewDB and         *)
(*   ExecuteTx of internal/storage/postgres/db.go.                         *)
(*                                                                         *)
(* A statement outside a transaction takes a connection of the pool for    *)
(* its own time and is one step.  ExecuteTx keeps one from BeginTx to      *)
(* Commit or Rollback, and ConfirmRegistration asks the pool for a second  *)
(* one in between: its duplicate check runs on pgDB.DB.                    *)
(*                                                                         *)
(* Transactions run at READ COMMITTED: a statement sees what is committed. *)
(* An INSERT that meets an uncommitted row of the same UNIQUE key waits    *)
(* for that transaction to end.                                            *)
(*                                                                         *)
(* Abstracted: the form's fields but the address, tokens and their hashes  *)
(* (the ids of the rows they select), and the rows of user_profiles,       *)
(* user_password_credentials and audit_logs, which follow the user's row.  *)
(***************************************************************************)
EXTENDS Naturals, FiniteSets

CONSTANTS
    Requests,       \* HTTP handlers that may be in progress at once
    Emails,         \* addresses
    Pendings,       \* fresh ids for rows of pending_user_registrations
    MaxOpen,        \* SetMaxOpenConns: 5
    None            \* SQL NULL, an absent row

ASSUME RequestsAssumption == IsFiniteSet(Requests)
ASSUME MaxOpenAssumption == MaxOpen \in Nat \ {0}
ASSUME NoneAssumption == None \notin Emails \cup Pendings

VARIABLES
    users,          \* users, by UNIQUE email: the registration it was made of
    pending,        \* pending_user_registrations
    mailed,         \* tokens that reached a mailbox
    pc, email, pend,  \* where a handler is, its form's address, its row
    tx              \* handlers inside ExecuteTx, with a connection each

vars == <<users, pending, mailed, pc, email, pend, tx>>

PCs == {"idle",
        "create", "mail",                      \* PostRegister
        "begin", "count", "insert", "commit"}  \* VerifyEmail

PendingRow == [email : Emails, used : BOOLEAN, expired : BOOLEAN]
ASSUME NoRowAssumption == None \notin PendingRow

FreeOneLess == MaxOpen - 1 - Cardinality(tx)
\* Connections that no transaction holds.
Free == MaxOpen - Cardinality(tx)

Init ==
    /\ users = [e \in Emails |-> None]
    /\ pending = [p \in Pendings |-> None]
    /\ mailed = {}
    /\ pc = [r \in Requests |-> "idle"]
    /\ email = [r \in Requests |-> None]
    /\ pend = [r \in Requests |-> None]
    /\ tx = {}

Goto(r, where) == pc' = [pc EXCEPT ![r] = where]

\* The handler returns, and ExecuteTx has given its connection back.
Finish(r) ==
    /\ Goto(r, "idle")
    /\ email' = [email EXCEPT ![r] = None]
    /\ pend' = [pend EXCEPT ![r] = None]
    /\ tx' = tx \ {r}

-------------------------------------------------------------------------------
(* PostRegister *)

\* The form is valid and the lookup of the address found no user, or failed: the
\* handler goes on in both cases.  If it finds one, the handler answers the same
\* and changes nothing.
PostRegister(r, e) ==
    /\ pc[r] = "idle"
    /\ Free > 0
    /\ Goto(r, "create")
    /\ email' = [email EXCEPT ![r] = e]
    /\ UNCHANGED <<users, pending, mailed, pend, tx>>

CreatePendingUnsaved(r) ==
    /\ pc[r] = "create"
    /\ Free > 0
    /\ \E p \in Pendings : pending[p] = None /\ pend' = [pend EXCEPT ![r] = p]
    /\ Goto(r, "mail")
    /\ UNCHANGED <<users, pending, mailed, email, tx>>

NewPending(e) == [email |-> e, used |-> FALSE, expired |-> FALSE]

\* Earlier pending rows of the address stay.
CreatePending(r) ==
    /\ pc[r] = "create"
    /\ Free > 0
    /\ \E p \in Pendings :
        /\ pending[p] = None
        /\ pending' = [pending EXCEPT ![p] = NewPending(email[r])]
        /\ pend' = [pend EXCEPT ![r] = p]
    /\ Goto(r, "mail")
    /\ UNCHANGED <<users, mailed, email, tx>>

SendVerificationEmail(r) ==
    /\ pc[r] = "mail"
    /\ mailed' = mailed \cup {pend[r]}
    /\ Finish(r)
    /\ UNCHANGED <<users, pending>>

-------------------------------------------------------------------------------
(* VerifyEmail *)

\* The row is found by its token, unused and not expired.
VerifyEmailToken(r, p) ==
    /\ pc[r] = "idle"
    /\ p \in mailed
    /\ Free > 0
    /\ ~pending[p].used /\ ~pending[p].expired
    /\ Goto(r, "begin")
    /\ pend' = [pend EXCEPT ![r] = p]
    /\ UNCHANGED <<users, pending, mailed, email, tx>>

BeginTx(r) ==
    /\ pc[r] = "begin"
    /\ Free > 0
    /\ tx' = tx \cup {r}
    /\ Goto(r, "count")
    /\ UNCHANGED <<users, pending, mailed, email, pend>>

\* The address is registered already: fn returns an error, ExecuteTx rolls back.
Duplicate(r) == users[pending[pend[r]].email] # None

\* SELECT COUNT(1) on a second connection, outside the transaction.
CountUsers(r) ==
    /\ pc[r] = "count"
    /\ Free > 0
    /\ IF Duplicate(r)
       THEN Finish(r)
       ELSE Goto(r, "insert") /\ UNCHANGED <<email, pend, tx>>
    /\ UNCHANGED <<users, pending, mailed>>

\* Another transaction has inserted the address and not ended yet.
KeyTaken(r) ==
    \E q \in Requests : pc[q] = "commit" /\ pending[pend[q]].email = pending[pend[r]].email

CreateUserAnyway(r) ==
    /\ pc[r] = "insert"
    /\ Goto(r, "commit")
    /\ UNCHANGED <<users, pending, mailed, email, pend, tx>>

\* INSERT INTO users: waits for the UNIQUE key, then succeeds or violates it.
CreateUser(r) ==
    /\ pc[r] = "insert"
    /\ ~KeyTaken(r)
    /\ IF Duplicate(r)
       THEN Finish(r)
       ELSE Goto(r, "commit") /\ UNCHANGED <<email, pend, tx>>
    /\ UNCHANGED <<users, pending, mailed>>

CommitUnmarked(r) ==
    /\ pc[r] = "commit"
    /\ users' = [users EXCEPT ![pending[pend[r]].email] = pend[r]]
    /\ Finish(r)
    /\ UNCHANGED <<pending, mailed>>

\* Profile, credential, used_at and two audit rows on the transaction's own
\* connection, and COMMIT: others see all of it or nothing.
Commit(r) ==
    /\ pc[r] = "commit"
    /\ users' = [users EXCEPT ![pending[pend[r]].email] = pend[r]]
    /\ pending' = [pending EXCEPT ![pend[r]].used = TRUE]
    /\ Finish(r)
    /\ UNCHANGED mailed

-------------------------------------------------------------------------------
(* The environment *)

\* A statement, the mailer or the process fails: an open transaction is rolled
\* back, what was committed stays.
Fail(r) ==
    /\ pc[r] # "idle"
    /\ Finish(r)
    /\ UNCHANGED <<users, pending, mailed>>

ExpirePending(p) ==
    /\ pending[p] # None /\ ~pending[p].expired
    /\ pending' = [pending EXCEPT ![p].expired = TRUE]
    /\ UNCHANGED <<users, mailed, pc, email, pend, tx>>

Confirm(r) == BeginTx(r) \/ CountUsers(r) \/ CreateUser(r) \/ Commit(r)

Next ==
    \/ \E r \in Requests :
        \/ \E e \in Emails : PostRegister(r, e)
        \/ \E p \in Pendings : VerifyEmailToken(r, p)
        \/ CreatePending(r) \/ SendVerificationEmail(r)
        \/ Confirm(r)
        \/ Fail(r)
    \/ \E p \in Pendings : ExpirePending(p)

Spec == Init /\ [][Next]_vars

\* A confirmation goes on whenever it can; an INSERT that keeps finding its key
\* taken gets its turn (PostgreSQL wakes the waiters of a transaction).
\* Nothing makes a confirmation fail.
FairSpec ==
    /\ Spec
    /\ \A r \in Requests : WF_vars(Confirm(r)) /\ SF_vars(CreateUser(r))

-------------------------------------------------------------------------------
Existing == {p \in Pendings : pending[p] # None}

(***************************************************************************)
(* Type correctness, with what each program point knows of its locals.     *)
(***************************************************************************)
PointOK(r) ==
    /\ pc[r] = "create" => email[r] \in Emails
    /\ pc[r] \notin {"idle", "create"} => pend[r] \in Existing
    /\ r \in tx <=> pc[r] \in {"count", "insert", "commit"}

TypeOK ==
    /\ users \in [Emails -> Pendings \cup {None}]
    /\ pending \in [Pendings -> PendingRow \cup {None}]
    /\ mailed \subseteq Existing
    /\ pc \in [Requests -> PCs]
    /\ email \in [Requests -> Emails \cup {None}]
    /\ pend \in [Requests -> Pendings \cup {None}]
    /\ tx \subseteq Requests
    /\ Free >= 0
    /\ \A r \in Requests : PointOK(r)

(***************************************************************************)
(* Safety                                                                  *)
(***************************************************************************)

\* The transaction is all or nothing, for every interleaving of confirmations
\* of one token or of several tokens of one address: a registration is used
\* exactly when it became the user of its address.
UsedIffRegistered ==
    \A p \in Existing : pending[p].used <=> users[pending[p].email] = p

\* A user once registered is never replaced by another registration of the
\* address, though the duplicate check reads outside the transaction.
RegistrationIsFinal ==
    [][\A e \in Emails : users[e] # None => users'[e] = users[e]]_vars

Promise == INSTANCE UserRegister WITH
    address <- [p \in Pendings |-> IF pending[p] = None THEN None ELSE pending[p].email],
    used <- {p \in Existing : pending[p].used}

\* Seen from the committed rows, the statements of registration and
\* confirmation are the two atomic steps of UserRegister.
AtomicRegistration == Promise!Spec

(***************************************************************************)
(* Liveness                                                                *)
(***************************************************************************)

\* With fewer handlers than connections, a confirmation that began ends, even
\* if no statement fails and no context is cancelled.
ConfirmationEnds ==
    \A r \in Requests : pc[r] \in {"begin", "count", "insert", "commit"} ~> pc[r] = "idle"

(***************************************************************************)
(* What a comment says and the code does not do                            *)
(***************************************************************************)

\* registration_repository.go:53 "Must execute in database transaction!": a
\* confirmation inside its transaction needs no other connection to run its
\* duplicate check.
CheckRunsInTransaction == \A r \in Requests : pc[r] = "count" => ENABLED CountUsers(r)
===============================================================================
