----------------------------- MODULE RefreshTokens -----------------------------
(***************************************************************************)
(* Refresh token rotation, reuse detection, and revocation on withdrawal.  *)
(*                                                                         *)
(*   CreateRefreshTokenSession, GetRefreshTokenSession, RotateRefreshToken *)
(*   of internal/storage/postgres/fosite_store.go, Withdraw of             *)
(*   internal/repository/user_repository.go, and their SQL statements.     *)
(*                                                                         *)
(* POST /token with grant_type=refresh_token is driven by the Ory Fosite   *)
(* library (external): it reads the presented token, then rotates it, then *)
(* creates its child.  The store is not transactional, so these are three  *)
(* transactions; the refusal of a reused token is three more.              *)
(*                                                                         *)
(* Abstracted: a token's hash and its id are one id; the id of a family is *)
(* the id of the token that started it; client, scope and access tokens    *)
(* (which are not stored) are left out.                                    *)
(***************************************************************************)
EXTENDS Naturals, FiniteSets

CONSTANTS
    Requests,       \* HTTP handlers that may be in progress at once
    Users,          \* rows of users
    Tokens,         \* fresh ids for rows of refresh_tokens
    MaxFamilies,    \* bound on the families that are started
    MayFail,        \* whether statements and requests may fail
    None            \* SQL NULL, an absent row

ASSUME RequestsAssumption == IsFiniteSet(Requests)
ASSUME MaxFamiliesAssumption == MaxFamilies \in Nat
ASSUME NoneAssumption == None \notin Users \cup Tokens

VARIABLES
    status,         \* users.status
    token,          \* refresh_tokens
    held,           \* tokens that were answered to a client
    pc,             \* where a request is
    user, family, parent, fresh,  \* its session: subject, Extra, new token
    sweep           \* tokens its open transaction has revoked, locked

vars == <<status, token, held, pc, user, family, parent, fresh, sweep>>

Row == [user : Users, family : Tokens, parent : Tokens \cup {None},
        rotatedTo : Tokens \cup {None}, revoked : BOOLEAN, reused : BOOLEAN,
        expired : BOOLEAN]
ASSUME NoRowAssumption == None \notin Row

PCs == {"idle", "rotate", "create", "answer",    \* POST /token
        "revokeFamily", "markReuse",             \* a reused token
        "committing"}                            \* POST /withdraw

Existing == {t \in Tokens : token[t] # None}
Live(t) == t \in Existing /\ ~token[t].revoked

Init ==
    /\ status = [u \in Users |-> "active"]
    /\ token = [t \in Tokens |-> None]
    /\ held = {}
    /\ pc = [r \in Requests |-> "idle"]
    /\ user = [r \in Requests |-> None]
    /\ family = [r \in Requests |-> None]
    /\ parent = [r \in Requests |-> None]
    /\ fresh = [r \in Requests |-> None]
    /\ sweep = [r \in Requests |-> {}]

Goto(r, where) == pc' = [pc EXCEPT ![r] = where]

FinishInTx(r) ==
    /\ Goto(r, "idle")
    /\ user' = [user EXCEPT ![r] = None]
    /\ family' = [family EXCEPT ![r] = None]
    /\ parent' = [parent EXCEPT ![r] = None]
    /\ fresh' = [fresh EXCEPT ![r] = None]
    /\ UNCHANGED sweep
Finish(r) ==
    /\ Goto(r, "idle")
    /\ user' = [user EXCEPT ![r] = None]
    /\ family' = [family EXCEPT ![r] = None]
    /\ parent' = [parent EXCEPT ![r] = None]
    /\ fresh' = [fresh EXCEPT ![r] = None]
    /\ sweep' = [sweep EXCEPT ![r] = {}]

\* Rows of S that no open withdrawal has locked: an UPDATE of others waits.
Unlocked(S) == \A r \in Requests : sweep[r] \cap S = {}

-------------------------------------------------------------------------------
(* POST /token *)

\* Families that exist, and requests about to start one.
Families ==
    {t \in Existing : token[t].parent = None}
        \cup {r \in Requests : pc[r] = "create" /\ parent[r] = None}

\* The exchange of an authorization code has come to its refresh token: its
\* session names no family and no parent.  The user's status is not read.
StartFamily(r, u) ==
    /\ pc[r] = "idle"
    /\ Cardinality(Families) < MaxFamilies
    /\ Goto(r, "create")
    /\ user' = [user EXCEPT ![r] = u]
    /\ UNCHANGED <<status, token, held, family, parent, fresh, sweep>>

ReusedRevokedOnly(t) == token[t].reused
Reused(t) == token[t].revoked \/ token[t].reused

\* GetRefreshTokenSession: a reused token goes to the refusal, an expired one
\* is refused, and another puts its family and itself in the session.
GetRefreshTokenSession(r, t) ==
    /\ pc[r] = "idle"
    /\ t \in held
    /\ \/ Reused(t) /\ Goto(r, "revokeFamily")
       \/ ~Reused(t) /\ ~token[t].expired /\ Goto(r, "rotate")
    /\ user' = [user EXCEPT ![r] = token[t].user]
    /\ family' = [family EXCEPT ![r] = token[t].family]
    /\ parent' = [parent EXCEPT ![r] = t]
    /\ UNCHANGED <<status, token, held, fresh, sweep>>

RotatedNot(row) == row
\* rotated_to_id is always NULL: its new value is not known yet.
Rotated(row) == [row EXCEPT !.revoked = TRUE, !.rotatedTo = None]

RotateRefreshToken(r) ==
    /\ pc[r] = "rotate"
    /\ Unlocked({parent[r]})
    /\ token' = [token EXCEPT ![parent[r]] = Rotated(@)]
    /\ Goto(r, "create")
    /\ UNCHANGED <<status, held, user, family, parent, fresh, sweep>>

FamilyAlwaysNew(r, t) == t
\* A session without a family starts one.
FamilyOf(r, t) == IF family[r] = None THEN t ELSE family[r]

NewToken(r, t) ==
    [user |-> user[r], family |-> FamilyOf(r, t), parent |-> parent[r],
     rotatedTo |-> None, revoked |-> FALSE, reused |-> FALSE, expired |-> FALSE]

CreateRefreshTokenSession(r) ==
    /\ pc[r] = "create"
    /\ \E t \in Tokens \ Existing :
        /\ token' = [token EXCEPT ![t] = NewToken(r, t)]
        /\ fresh' = [fresh EXCEPT ![r] = t]
    /\ Goto(r, "answer")
    /\ UNCHANGED <<status, held, user, family, parent, sweep>>

WriteAccessResponse(r) ==
    /\ pc[r] = "answer"
    /\ held' = held \cup {fresh[r]}
    /\ Finish(r)
    /\ UNCHANGED <<status, token>>

-------------------------------------------------------------------------------
(* Reuse detection: three statements whose errors are ignored *)

Relatives(r) == {t \in Existing : token[t].family = family[r]}

RevokeRefreshTokenFamily(r) ==
    /\ pc[r] = "revokeFamily"
    /\ \/ /\ Unlocked(Relatives(r))
          /\ token' = [t \in Tokens |->
                IF t \in Relatives(r) THEN [token[t] EXCEPT !.revoked = TRUE] ELSE token[t]]
       \/ MayFail /\ UNCHANGED token
    /\ Goto(r, "markReuse")
    /\ UNCHANGED <<status, held, user, family, parent, fresh, sweep>>

MarkRefreshTokenReuse(r) ==
    /\ pc[r] = "markReuse"
    /\ \/ /\ Unlocked({parent[r]})
          /\ token' = [token EXCEPT ![parent[r]].reused = TRUE]
       \/ MayFail /\ UNCHANGED token
    /\ Finish(r)
    /\ UNCHANGED <<status, held>>

-------------------------------------------------------------------------------
(* POST /withdraw *)

SweptNone(u) == {}
SweptOf(u) == {t \in Existing : token[t].user = u /\ ~token[t].revoked}

\* The UPDATEs of Withdraw, up to RevokeAllRefreshTokensByUserID.  The lock on
\* the row of users is taken first: withdrawals of a user do not overlap.
Withdraw(r, u) ==
    /\ pc[r] = "idle"
    /\ \A q \in Requests : ~(pc[q] = "committing" /\ user[q] = u)
    /\ sweep' = [sweep EXCEPT ![r] = SweptOf(u)]
    /\ user' = [user EXCEPT ![r] = u]
    /\ Goto(r, "committing")
    /\ UNCHANGED <<status, token, held, family, parent, fresh>>

Commit(r) ==
    /\ pc[r] = "committing"
    /\ status' = [status EXCEPT ![user[r]] = "withdrawn"]
    /\ token' = [t \in Tokens |->
          IF t \in sweep[r] THEN [token[t] EXCEPT !.revoked = TRUE] ELSE token[t]]
    /\ Finish(r)
    /\ UNCHANGED held

-------------------------------------------------------------------------------
(* The environment *)

\* A check of the library, a statement or the process fails.
Fail(r) ==
    /\ MayFail
    /\ pc[r] # "idle"
    /\ Finish(r)
    /\ UNCHANGED <<status, token, held>>

Expire(t) ==
    /\ t \in Existing /\ ~token[t].expired
    /\ token' = [token EXCEPT ![t].expired = TRUE]
    /\ UNCHANGED <<status, held, pc, user, family, parent, fresh, sweep>>

Next ==
    \/ \E r \in Requests :
        \/ \E u \in Users : StartFamily(r, u) \/ Withdraw(r, u)
        \/ \E t \in Tokens : GetRefreshTokenSession(r, t)
        \/ RotateRefreshToken(r) \/ CreateRefreshTokenSession(r) \/ WriteAccessResponse(r)
        \/ RevokeRefreshTokenFamily(r) \/ MarkRefreshTokenReuse(r)
        \/ Commit(r)
        \/ Fail(r)
    \/ \E t \in Tokens : Expire(t)

Spec == Init /\ [][Next]_vars

-------------------------------------------------------------------------------
\* Type correctness, with what each program point knows of its session.
PointOK(r) ==
    /\ pc[r] = "idle" => family[r] = None /\ parent[r] = None
    /\ pc[r] # "idle" => user[r] \in Users
    /\ pc[r] \in {"rotate", "revokeFamily", "markReuse"}
          => family[r] \in Tokens /\ parent[r] \in Existing
    /\ pc[r] \in {"create", "answer"}
          => \/ family[r] = None /\ parent[r] = None
             \/ family[r] \in Tokens /\ parent[r] \in Existing
    /\ pc[r] = "answer" => fresh[r] \in Existing
    /\ sweep[r] \subseteq Existing
    /\ sweep[r] # {} => pc[r] = "committing"

TypeOK ==
    /\ status \in [Users -> {"active", "withdrawn"}]
    /\ token \in [Tokens -> Row \cup {None}]
    /\ held \subseteq Existing
    /\ pc \in [Requests -> PCs]
    /\ user \in [Requests -> Users \cup {None}]
    /\ family \in [Requests -> Tokens \cup {None}]
    /\ parent \in [Requests -> Tokens \cup {None}]
    /\ fresh \in [Requests -> Tokens \cup {None}]
    /\ sweep \in [Requests -> SUBSET Tokens]
    /\ \A r \in Requests : PointOK(r)

\* A family is a tree: a token without a parent starts its own family, and any
\* other has the family and the user of its parent, which is revoked.  So no
\* token is live together with a token it was rotated into.
FamilyTree ==
    \A t \in Existing :
        LET p == token[t].parent IN
            IF p = None
            THEN token[t].family = t
            ELSE /\ p \in Existing
                 /\ token[p].revoked
                 /\ token[t].family = token[p].family
                 /\ token[t].user = token[p].user

Children(t) == {x \in Existing : token[x].parent = t}

\* Rotation reads a token and revokes it in separate statements, so concurrent
\* requests can fork a family; a token never has more children than requests
\* can be in progress at once.
ChildrenBounded ==
    \A t \in Tokens : Cardinality(Children(t)) <= Cardinality(Requests)

FamilyRows(f) == {t \in Existing : token[t].family = f}
Refreshing(f) == {r \in Requests : pc[r] \in {"rotate", "create"} /\ family[r] = f}

\* A family of which every token is revoked, with no refresh of it in progress,
\* is closed for good: no refresh of it begins, and it gets no token.
Dead(f) ==
    /\ FamilyRows(f) # {}
    /\ \A t \in FamilyRows(f) : ~Live(t)
    /\ Refreshing(f) = {}

DeadFamilySealed ==
    [][\A f \in Tokens : Dead(f) => Dead(f)' /\ FamilyRows(f)' = FamilyRows(f)]_vars

\* A refresh of f that may still bring a client a token: it has read a token of
\* f, or made one and not answered yet.
Underway(f) ==
    {r \in Requests : \/ pc[r] \in {"rotate", "create", "answer"} /\ family[r] = f
                      \/ pc[r] = "answer" /\ token[fresh[r]].family = f}

\* No client has a live token of the family: it was revoked, or a refresh
\* stopped between the rotation and the answer.  Such a family may still have a
\* live row, which nobody was sent.
Stranded(f) ==
    /\ FamilyRows(f) # {}
    /\ Underway(f) = {}
    /\ \A t \in held : token[t].family = f => token[t].revoked

\* A client that a failed refresh left without a token is out for good: no retry
\* brings it, or anybody, a token of the family, nor adds a row to it.
StrandedFamilySealed ==
    [][\A f \in Tokens : Stranded(f) => Stranded(f)' /\ FamilyRows(f)' = FamilyRows(f)]_vars

Forked(f) == \E t \in FamilyRows(f) : Cardinality(Children(t)) > 1

\* Whatever fails, only requests that raced on one token leave a family with two
\* live tokens: one that never forked has at most one.
OneLiveUnlessForked ==
    \A f \in Tokens : ~Forked(f) => Cardinality({t \in FamilyRows(f) : Live(t)}) <= 1

\* design/04_auth_flow.md:186-193: after the reuse of a token is detected, all
\* tokens of its family are revoked, and no token is issued.  A refresh that is
\* in progress meanwhile inserts a live token.
ReusedFamilyIsDead ==
    \A t \in Existing : token[t].reused => \A x \in FamilyRows(token[t].family) : ~Live(x)

\* A withdrawal of u cannot miss t: t is revoked, or u is active and every
\* withdrawal of u that is past its UPDATEs has t in its sweep.
Caught(t, u) ==
    /\ t \in Existing /\ token[t].user = u
    /\ \/ token[t].revoked
       \/ /\ status[u] = "active"
          /\ \A r \in Requests : pc[r] = "committing" /\ user[r] = u => t \in sweep[r]

\* design/06_data_model.md:371-374: withdrawal revokes all refresh tokens of the
\* user.  It does for the tokens that were stored when it began: whatever
\* refreshes, refusals and other withdrawals overlap with it, they stay within
\* its reach, and are revoked when the user is withdrawn.  A token inserted
\* while it is open escapes.
StoredTokensAreCaught ==
    [][\A t \in Tokens, u \in Users : Caught(t, u) => Caught(t, u)']_vars
===============================================================================
