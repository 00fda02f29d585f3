# yossid: a TLA+ development of the OpenID provider

yossid (`src/backend`, Go) is an OpenID Connect provider: registration with
e-mail verification, login with a password and an e-mailed one-time code,
authorization codes and rotating refresh tokens on top of the Ory Fosite
library, all state in PostgreSQL. The repository has no tests; what the program
should do is in `src/design/*.md`.

This directory holds TLA+ models of that program, TLC runs, and proofs for
TLAPS. `PROJECT.json` maps every definition to the lines it was translated from.

## 1. The system

All handlers are stateless: an HTTP request (a goroutine of `cmd/server`, or a
Lambda instance of `cmd/lambda`) talks to the database and answers. Components
interact through rows only, so **the unit of concurrency is the handler and the
unit of atomicity is the SQL statement**, or the transaction where there is one.
There are two transactions in the program: `ConfirmRegistration` and `Withdraw`.

| component | state | operations | what is hard | what makes it correct |
|---|---|---|---|---|
| Login and MFA (`login_service.go`, `handler/login.go`) | `email_otp_challenges` | `Login`, `VerifyMFA` | the limit and `used_at` are read in one statement and written in others | attempts are bounded; a spent challenge is closed; sessions only from a spent challenge |
| Login sessions | `login_sessions`, cookie `op_session` | create, `GetSession`, `RevokeSession`, expiry | races with withdrawal | a session belongs to the user who passed both factors |
| Withdrawal (`user_repository.go`) | `users.status`, sessions, refresh tokens | `Withdraw` (one transaction) | rows inserted while it is open; status not read again | what existed before it is dead after it |
| Registration (`registration_service.go`, `registration_repository.go`) | `pending_user_registrations`, `users` | `RegisterPending`, `VerifyEmailToken`, `ConfirmRegistration` | several tokens of an address at once; the check outside the transaction; two connections per confirmation | all or nothing; one registration wins; it ends |
| Connection pool (`storage/postgres/db.go`) | at most 5 connections | `ExecuteTx` | holding one and waiting for another | no deadlock |
| Code store (`fosite_store.go`, `fosite_factory.go`) | `authorization_codes` | create, get, invalidate; the same for PKCE and OpenID sessions | three handlers share one table; the statements are not one transaction | a code is traded at most once |
| Refresh token store (`fosite_store.go`) | `refresh_tokens` | create, get with reuse detection, rotate | read, revoke and insert are separate; errors ignored | families are trees; dead families stay dead |
| Token endpoint (`oidc_token.go`) | - | `PostToken` | drives both stores through the library | see the stores |
| Authorize endpoint (`oidc_authorize.go`) | `authorization_requests` | new, unauthenticated, resumed | what a visit has read is stale when it issues the code; a request is resumed any number of times, and completed again | a code goes back to a login of its user; expiry ends a request; a withdrawn user ends up without codes |
| Clients | `clients`, URIs, scopes | lookups | - | - |
| UserInfo, access tokens | none stored | `GetUserInfo` | introspection finds no session | not modelled (section 6) |
| Discovery, JWKS, keys | one RSA key per instance | constant documents | a change of the key | not modelled (section 6) |
| Helpers (`security/*`) | - | OTP, hashes, validation, cookies | bytes and characters; hashes older than the parameters | the password rule accepts what it says; a hash stays valid |
| Audit log | `audit_logs` | insert | outside the transactions, errors ignored | not modelled (section 6) |
| Migrations (`cmd/migrate`) | `schema_migrations` | apply pending files in order | two runs at once, of two releases; a stop midway, or after a COMMIT whose answer is lost | each file once, in order; a new run completes |
| Mailer, configuration, routes, middleware, entry points, generated `sqlc` code, mockups, infrastructure | - | I/O, wiring, declarations | - | not modelled (section 6) |

## 2. The modules

Each module is at the grain above: one action per statement that writes, and the
reads of a handler are in the action of the first decision they lead to. A
handler's local variables are functions from requests, its program counter is
`pc`. A request can stop before any of its statements (`Fail`): an error, a
panic, the end of a Lambda invocation, a lost connection; what it committed
stays. Secrets and their hashes are replaced by the ids of the rows they select.

| module | models | state |
|---|---|---|
| `LoginMFA` | `PostLogin`, `PostVerifyMFA`, `PostLogout`, `PostWithdraw` with their services and repositories | `status`, `challenge`, `session`, `authUser` (tables), `handed`, `cookies` (what browsers hold), `pc`, `user`, `ch`, `sess` (handlers), `sweep` (what an open withdrawal has revoked and locked) |
| `Registration` | `PostRegister`, `VerifyEmail`, `ConfirmRegistration`, `ExecuteTx`, the pool | `users`, `pending`, `mailed`, `pc`, `email`, `pend`, `tx` (handlers that hold a connection) |
| `OneTimeCode` | what a store of authorization codes promises | `state`, `granted` |
| `CodeStore` | the code, PKCE and OpenID sessions of `fosite_store.go`, driven by the library from `/authorize` and `/token` | `row` (the table, by hash), `now`, `issued`, `granted`, `pc`, `code`, `form` |
| `RefreshTokens` | refresh tokens of `fosite_store.go`, and `Withdraw` on them | `status`, `token`, `held`, `pc`, `user`, `family`, `parent`, `fresh`, `sweep` |
| `UserRegister` | what registration promises: asking, and registering in one step | `users`, `address`, `used` |
| `Authorize` | `GET /authorize`, composed with the whole of `LoginMFA` | that of `LoginMFA`, and `saved` (requests and their expiry), `now`, `authTime`, `code`, `at`, `held` (visits and what they have read) |
| `Migrate` | `cmd/migrate` | `table`, `record`, `applied` (the database), `pc`, `file` (runs), `failures` |
| `Credentials` | `ValidatePassword`, `HashPassword`, `VerifyPassword`, with their theorems | none |
| `MC*` | symmetry sets for TLC | |
| `LoginMFA_proofs`, `Registration_proofs`, `CodeStore_proofs`, `RefreshTokens_proofs`, `Authorize_proofs`, `Migrate_proofs` | theorems about them | |

How steps correspond to code:

* **Transactions.** `Withdraw` is one action for the UPDATEs and `Commit` another.
  At READ COMMITTED an UPDATE sees the rows committed when it starts, so rows
  inserted between the two escape it: `sweep` is the set it caught. Its row locks
  make another withdrawal of the user, a logout of a caught session, or a
  rotation of a caught token wait. In `Registration` an INSERT waits for an
  uncommitted row of the same key (`KeyTaken`).
* **The pool.** A statement outside a transaction needs a free connection for
  its own step only (`Free > 0`); a handler between `BeginTx` and the end of
  `ExecuteTx` is in `tx`.
* **The library.** Fosite is not in the repository. That it asks each composed
  handler to check a token request, then each to answer it, and which store
  methods it calls on the way, is taken as given; those definitions are marked
  external. What the methods do is translated from the source. The composition
  is the constant `Handlers`: `{"explicit", "openid", "pkce"}` is the one of
  `fosite_factory.go`.
* **What happens before a code.** The store takes the user of a code from the
  session's subject (`fosite_store.go:101`), and `/authorize` sets the claims' subject
  only (`oidc_authorize.go:127`): today no code is stored (run `CodeStoreIssue`), so no
  refresh token is issued either. Whether sessions name a subject is the constant
  `SubjectSet`. It is TRUE in the other runs of `CodeStore`, and `RefreshTokens` starts
  families as an exchange would: those are models of the stores, as written, under the
  documented use, and what they show becomes visible once codes are issued.
  `Authorize` lets a visit issue its code or fail there, so what it shows holds either
  way.
* **Composition.** `Authorize` has the variables of `LoginMFA` among its own and
  instantiates it: a step is one of a visit, or one of `LoginMFA` (`LoginStep`)
  with what it means for the shared rows: an INSERT into `login_sessions` is dated,
  and only a request that was saved can be completed. `LoginMFA` says who completes
  a request (`authUser`), `Authorize` when it exists and what it gives.
* **Resuming.** Line 177 of `oidc_authorize.go` asserts the library's provider to be
  a `ClientManager`, and line 183 rebuilds a request without response types. Whether
  the library accepts either is not in the repository: `Authorize` lets a resumed
  visit go on or fail, so what it shows of resumed requests holds in both cases.
* **Refinement.** Two modules implement an abstract one: `CodeStore` implements
  `OneTimeCode` with `state` read from the row of each code (`CodeState`), and
  `Registration` implements `UserRegister` with `address` read from the pending rows
  and `used` from their `used_at`; statements of open transactions are stutters.
* **Migrations.** Each statement of a file's transaction is a step: the DDL of a
  file waits for another open transaction that executed it, the INSERT for one that
  recorded it. `CREATE TABLE IF NOT EXISTS` may fail for those that run it at
  the same time. `Rerunnable` are files whose SQL does not fail where it was applied
  already (`IF NOT EXISTS`): only the record keeps those from running twice.
* **Time.** Where only the passing of `expires_at` matters it is an action
  (`Expire...`). `CodeStore` has a clock, because Go compares with `After` and SQL
  with `>`, at different moments.

## 3. The runs

| run | instance | what it shows |
|---|---|---|
| `LoginRace` | 2 handlers, 1 user, 1 challenge, 3 session ids, `max_attempts` 2 | `AttemptsBounded`: N handlers overshoot the limit by at most N-1. `SessionsPerChallenge`: a challenge opens at most N sessions, ever. `SealedChallenge`: a spent challenge nobody is verifying is never tried, counted or turned into a session again. `WithdrawalEndsEarlierSessions`: sessions stored before a withdrawal are dead after it. |
| `LoginUsers` | 2 handlers, 2 users, 2 challenges, 2 sessions, 1 authorization request | `TypeOK`; `SessionBacked`: no session without a spent challenge of the same user; `CompletedAfterMFA`: an authorization request is completed only for a user with a session; `NoLoginAfterWithdraw`: a withdrawn user gets no new challenge but from a login in progress. |
| `Registration` | 2 handlers, 2 addresses, 3 registrations, 3 connections | `UsedIffRegistered`: a pending row is used exactly when it became the user; `RegistrationIsFinal`; `AtomicRegistration`: it implements `UserRegister`; `ConfirmationEnds` with a connection to spare |
| `RegistrationPoolFull` | violation | as many confirmations as connections block each other: the duplicate check runs outside the transaction it "must" be in |
| `CodeStoreSafety` | 3 requests, 2 codes, all handlers, failures | `OneSpender`: one exchange gets past the statement that spends the code; `SpentCodeSealed`: when that exchange stops before the tokens, no other takes its place |
| `CodeStoreExplicit` | 3 requests, 1 code, no PKCE | `OneTimeUse`: `CodeStore` implements `OneTimeCode`; `OpenIDAfterGrant`; `PresentedCodeIsGranted`: racing exchanges do not all fail |
| `CodeStoreIssue` | violation | 1 request, all handlers, no subject: an undisturbed `/authorize` of a logged-in user ends without a code |
| `RefreshRace` | 2 requests, 1 family of up to 4 tokens, failures | `FamilyTree`, `ChildrenBounded` (a fork has at most N branches); `OneLiveUnlessForked`: two live tokens in a family come from a fork only; `DeadFamilySealed`; `StrandedFamilySealed`: a client left without a token by a failed refresh gets none by retrying; `StoredTokensAreCaught`: a token stored before a withdrawal stays within its reach and is revoked by it |
| `RefreshReuse` | violation | 2 requests, 1 user, 3 tokens, no failures: a retry is refused as a reuse and its family revoked while the first refresh is between its rotation and its INSERT, which then stores a live token in the family (`ReusedFamilyIsDead`) |
| `AuthorizeUsers` | 2 users, 1 login handler, 2 challenges, 2 sessions, 1 visit, 1 request, 1 code, 2 moments | `CodeAfterLogin`: a code has an earlier login of its own user behind it, though the user and the login are read in two statements and the request may be completed again in between; `AuthTimeNotBefore`: its `auth_time` is not older than the login that completed the request; `ExpiredRequestIsClosed` |
| `AuthorizeWithdraw` | 1 user, 2 login handlers, 1 challenge, 2 sessions, 1 visit, 1 request, 1 code | `WithdrawnOutOfReach`: the ways to a code that a withdrawal leaves open are those listed, and none opens again; `WithdrawnGetsNoCodeInTheEnd`: each of them closes |
| `Migrate` | 3 runs, 2 of a release with two files, 1 of the next with three; 2 failures | `AppliedOnce`; `InOrderForEach` and `InOrder`: a file takes effect after those before it; `AllComplete` |

Bounds. Two handlers show every race of the code between a check and a write,
since every check is about one row; a third is there where it can only lose
(`CodeStoreSafety`). `SessionsPerChallenge` and `ChildrenBounded` have one id more
than the bound they state, so that they could fail. `max_attempts` 2 leaves one
attempt before the last, as 5 does. `MaxTime` and `Lifespan` let a code be
presented before, at and after its expiry; its expiry is set when the session is built,
and the INSERT may come after it. `MaxFamilies` bounds the families
that are started. In `AuthorizeUsers` two sessions are two logins of one user at
different moments, or of two users who complete the same request one after the
other; one visit suffices, as visits write nothing another visit reads.
`AuthorizeWithdraw` has two login handlers, one to withdraw the user and one to
verify a challenge meanwhile. In `Migrate` the third run has a file more than the
others, and the two failures are enough to stop a run, lose the answer of a COMMIT,
and stop the run that comes after it. Symmetry is used only with invariants and action
properties, never with liveness.

Fairness. The runs of `LoginMFA` and `RefreshTokens` check safety and assume none.
`Registration`: a confirmation goes on whenever it can and nothing fails it, to
show that it needs no failure to end; the INSERT is strongly fair because
PostgreSQL wakes the waiters of a transaction. `CodeStore`: a request that began
goes on (the run has no failures). `Authorize`: a login handler or a visit that
began goes on or stops, as `net/http` and Lambda give no more, and challenges, sessions
and requests expire. `Migrate`: a run goes on when it can,
and whoever runs the program runs it again after a failure; failures are bounded.

Other differences between documents and code that were met, without a run:

* Two verifications that both read `attempts` below the limit exceed it
  (`login_service.go:166`, `design/04_auth_flow.md:84`); `AttemptsBounded` says by how much.
* Neither the token endpoint nor `/authorize` looks at the user's status, so a
  withdrawn user may get tokens from a request in progress, an open code or a live
  saved request (`fosite_store.go:217`, `oidc_authorize.go:120`,
  `design/06_data_model.md:374`, `design/11_test_plan.md:110`).
* A verification does not read the status either: a challenge opened before a
  withdrawal opens a session after it (`design/06_data_model.md:375`).
* A resumed request is dated by the user's latest login of any session, revoked
  ones included, or by the present time if the query fails, not by the login that
  completed it (`oidc_authorize.go:208`, `design/04_auth_flow.md:97`).
* `rotated_to_id` is always NULL (`fosite_store.go:352`, `design/04_auth_flow.md:182`).
* In the store alone, with a subject: creating the PKCE session would meet the code's row
  under UNIQUE `code_hash`, so requests with a `code_challenge` would fail
  (`fosite_store.go:358`, `design/02_protocol_scope.md:64`), and deleting it would spend
  the code before it is read for the answer (`fosite_store.go:365-366`,
  `design/04_auth_flow.md:151-153`).
* There is no limit on sending OTPs (`design/04_auth_flow.md:87`).
* The password rule counts bytes, its comment characters (`validation.go:28`, line 26).
* Keys are to be rotated with standby and retired keys in the JWKS; each instance
  publishes one key, always as `"1"` (`oidc_jwks.go:20`, `design/07_token_key_design.md:302`).

## 4. The proofs

`Credentials` proves, for every password however long: `AcceptedPasswords`, the code
accepts all that the rule of its comment accepts and the same in ASCII, and never
fewer than five characters (`FiveCharactersAccepted`: but it does accept five); and
for every pair of releases, `HashOutlivesRelease`, by what `VerifyPassword` takes from
the stored hash and what from the program. Argon2id is assumed free of collisions.

`LoginMFA_proofs` proves, for every number of users, handlers (finitely many),
challenges, sessions and authorization requests, and every `MaxAttempts > 0`:

* `TypeCorrect`: `Spec => []TypeOK`. `TypeOK` is inductive because it says what each
  program point knows: the challenge a handler is verifying, the session it is
  about to answer, the ids browsers hold, all select existing rows, and rows are
  never deleted. One step per action.
* `AttemptsStayBounded`: `Spec => []AttemptsBounded`. The bound alone is not
  inductive: a handler about to count an attempt has checked the limit long ago.
  The invariant `AttemptsInv` says, of every challenge: the attempts counted and
  the handlers about to count, added, are at most
  `MaxAttempts - 1 + Cardinality(Requests)`. A verification that begins adds one
  handler, but only while the attempts are below the limit; a count moves one from
  the second term to the first.
* `SessionsAreBacked`: `Spec => []SessionBacked`, from `BackedInv`: a handler past
  `MarkUsed` holds a challenge that is used and of its own user, and neither is
  ever undone.
* `WithdrawalClosesLogin` and `SpentChallengeIsSealed`: the action properties
  `NoLoginAfterWithdraw` and `SealedChallenge`, on `TypeOK`. `HandlersMove` says
  which program points a step can lead to and on what check; `ChallengesMove` and
  `SessionsMove`, which handler a new row or a counted attempt comes from;
  `ChallengesKept`, `SessionsKept` and `StatusKept`, that nothing is undone.

* `SessionsPerChallengeBounded`: `Spec => []SessionsPerChallenge`. The bound counts
  what is there; `PerChallengeInv` counts what may still come: the sessions of a
  challenge and the verifications that may open one are at most the handlers. A
  handler that opens a session gives up its place, and by `BackedInv` none takes a
  place once there is a session, the challenge being spent.
* `CompletionNeedsMFA`: `Spec => []CompletedAfterMFA`, from `CompletedInv`: a handler
  about to complete a request holds a session of its own user.
* `WithdrawalEndsSessions`: `Spec => WithdrawalEndsEarlierSessions`. `Doomed` says that
  a session is revoked, or that its user is active and every withdrawal past its
  UPDATEs has it in its sweep; no step undoes that.
* `CutOffStays`, a lemma for `Authorize_proofs`: a withdrawn user whom no handler is
  about, with no challenge that may be verified and no session that works, stays so.

`Registration_proofs` proves, for every number of handlers (finitely many), addresses
and registrations, and every size of the pool:

* `RegistrationTypeCorrect`: `Spec => []TypeOK`, in two parts: what each program point
  knows of its rows (`OneMoves`: one handler moves and the others keep what they
  know), and the count of free connections, by the lemmas on cardinality.
* `ConfirmedIffUsed`: `Spec => []UsedIffRegistered`. Alone it is not inductive: a
  COMMIT could overwrite another registration's address. `KeyOwned` says what the
  UNIQUE key gives: a handler past its INSERT has an address without a user, and no
  other handler is past its INSERT with that address. The duplicate check outside
  the transaction is not used: the proof needs only the key. `UsersExist`: only rows
  that exist become users.
* `RegisteredForGood`, the action property `RegistrationIsFinal`, from the same.
* `RegistrationIsAtomic`: `Spec => AtomicRegistration`, the refinement of `UserRegister`:
  `CreatePending` is `Ask`, `Commit` is `Register`, and every other step a stutter.

`CodeStore_proofs` proves, for every number of requests and codes, every lifespan, and
every composition of the three handlers, with failures or without, and whether or not
sessions name a subject:

* `CodesTypeCorrect`: `Spec => []TypeOK`. The store methods are put as what they do to
  the table: insert one unused row (`Inserted`), or spend a usable one (`Spent`).
* `OneSpenderOnly` and `OpenIDSpentAfterGrant`, from `SpendInv`: an exchange past the
  spending of its code finds the row used (`SpenderKnows`), is alone there
  (`SpenderAlone`), and a code that was traded was traded once and is used
  (`GrantedOnce`). Each is needed: a second spender is excluded by the row being
  used, which only `SpenderKnows` remembers of the first.
* `SpentCodesAreSealed`, the action property `SpentCodeSealed`: `SpendersMove` says that a
  request comes past the spending only by spending a code that was usable.
* `CodesAreOneTime`: `Spec => OneTimeUse`, the refinement of `OneTimeCode`: the INSERT of
  a code is `Issue`, the UPDATE that spends it `Spend`, from whichever handler
  it comes, the library's answer `Grant`, and every other step a stutter.

`RefreshTokens_proofs` proves, for every number of requests (finitely many), users and
tokens; steps are classified as rewriting rows that exist (`Rewritten`) or adding one
(`Created`), and no step undoes a row (`RowKept`):

* `TokensTypeCorrect`: `Spec => []TypeOK`, with what each point knows of its session.
* `FamiliesAreTrees`: `Spec => []FamilyTree`, from `TreeInv`: a request that refreshes
  holds the family and the user of its parent, and past the rotation the parent is
  revoked.
* `DeadFamiliesStayDead`, the action property `DeadFamilySealed`: `RefreshingMove` says
  that a refresh begins only with a live token of the family.
* `ForksAreBounded`: `Spec => []ChildrenBounded`. As with attempts, the bound holds of
  the children a token has and the requests that may still give it one, added
  (`ForkInv`): none takes a place once the token is revoked.
* `UnforkedFamilyHasOneLive`: `Spec => []OneLiveUnlessForked`, with requests that overlap
  and any failures. `TipInv`: a family where no token has two children has at most one
  token without a child, its tip. An INSERT makes the new token the tip in place of its
  parent, or is a second child, and a fork once made stays. A token with a child is
  revoked (`FamilyTree`), so only the tip can be live.
* `StrandedFamiliesStaySealed`, the action property `StrandedFamilySealed`: what clients
  hold is revoked for good, and `UnderwayMove` says that a refresh comes under way only
  with a token that a client holds and that is live. That promise is more than
  `DeadFamilySealed`: the family may have a live row that was never answered.
* `StoredTokensStayCaught`, the action property `StoredTokensAreCaught`, and from it
  `WithdrawalRevokesEarlierTokens`: a token stored while its user is active and no
  withdrawal is open is revoked whenever the user is withdrawn. No hypothesis on
  overlapping requests or failures.

`Authorize_proofs` proves, for every number of visits, requests and codes, every bound
on the clock, and everything `LoginMFA` has. It instantiates `LoginMFA_proofs`: its
first lemmas say that the instance has the definitions of the login that `Authorize`
runs, and that its assumptions hold, so that the lemmas on login carry over:

* `LoginIsLoginMFA`: `Spec => MFA!Spec`. A step is one of `LoginMFA` or leaves login
  alone: what is proved of login holds beside the authorize endpoint.
* `AuthorizeTypeCorrect`: `Spec => []TypeOK`, that of login, of the visits and of the
  dates, each kept in a lemma of its own.
* `CodesFollowLogins` and `AuthTimeIsFresh`, from `VisitInv`: a code, and a visit about to
  issue one, say the truth of the login (`Told`); a visit that is to read the date has
  a user with a session, and knows of a login of that user or of none (`Dated`). The
  user comes from `authUser`, so it rests on `CompletedInv` of login. That the date is
  not older than the login, though it is read later, rests on sessions keeping their
  user and never being deleted, so that the latest login only moves forward.
* `ExpiryClosesRequests`, the action property `ExpiredRequestIsClosed`.
* `WithdrawnStaysOutOfReach`, the action property `WithdrawnOutOfReach`, over every
  step of login (`CutOffStays`) and of a visit.

`Migrate_proofs` proves, for every number of processes, every directory of finitely
many files for each, every set of files that may be run again, and every bound on
failures:

* `MigrationsTypeCorrect`: `Spec => []TypeOK`; `NextFileTakesLeast` says which file comes
  next, from the well-foundedness of the order of names.
* `MigrationsAppliedOnce`: `Spec => []AppliedOnce`, from `Owned`: a transaction past the
  INSERT of its file name has a file that is not recorded, and has it alone. That the
  SQL itself fails where it was applied already is not used: files that could run
  twice are kept from it by the primary key.
* `MigrationsInOrderForEach` and `MigrationsInOrder`: from `AtStart` (a run that starts
  has passed no file), and what a run has passed being recorded for good.

Assumptions: those named in the modules (finitely many handlers and files, positive
limits, a clock with a bound, NULL and the markers of a state are not ids or rows);
TLC evaluates them in every run of the module. `WithdrawalRevokesEarlierTokens` and
`LoginIsLoginMFA` are proved of no run's property: the first follows from one, and
`Authorize` takes its login from `LoginMFA` as it is.

Every safety invariant and action property of a passing run is proved. Model-checked
only: liveness (`ConfirmationEnds`, `PresentedCodeIsGranted`,
`WithdrawnGetsNoCodeInTheEnd`, `AllComplete`), which is out of the prover's reach, and
the three runs that show a violation.

## 5. Plan

What is left to prove: invariants that liveness rests on and that hold without
fairness (in `Registration`, that with a connection to spare some confirmation can
always go on; in `CodeStore`, that an exchange which finds its code spent has another
to blame for it); a bound on the live tokens of a family that did fork; and that `RefreshTokens` and `LoginMFA` mean the same
withdrawal.

## 6. Not modelled

* **Clients**: rows that no handler changes.
* **UserInfo and access tokens**: the store keeps no access token
  (`GetAccessTokenSession` finds none), the handler changes nothing, and which subject
  a token carries is the library's.
* **Discovery, JWKS, keys**: constants of an instance. What goes wrong when the key
  changes is seen by clients, who are outside the repository.
* **Audit log**: no code reads it. Its rows are inserted beside the statements they
  speak of and their errors are ignored, so any of them may be missing after a failure.
* **Random tokens, OTPs, peppered hashes, cookies, the other validations**: tokens and
  hashes are ids in the modules; the rest matches the text of a form or a header.
* **Mailer**: only that a mail is sent or not. **Configuration, routes, middleware,
  entry points**: read once or per request, no state. **Generated code**: its
  statements are in the actions of the components that run them; those that no handler
  calls are in none. **Mockups, infrastructure**: no behaviour.
* **Idle connections and their lifetime** (`db.go`): they bound no waiting.
