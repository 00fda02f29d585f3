------------------------- MODULE RefreshTokens_proofs -------------------------
(***************************************************************************)
(* Theorems about RefreshTokens, for any number of requests, users and     *)
(* tokens, with and without failures.                                      *)
(***************************************************************************)
EXTENDS RefreshTokens, FiniteSetTheorems, TLAPS

USE NoneAssumption, NoRowAssumption

-------------------------------------------------------------------------------
(* Rows are never deleted *)

\* What no step undoes in a row that exists.
RowKept(t) ==
    /\ t \in Existing'
    /\ token'[t].user = token[t].user
    /\ token'[t].family = token[t].family
    /\ token'[t].parent = token[t].parent
    /\ token[t].revoked => token'[t].revoked
    /\ token[t].reused => token'[t].reused

\* The rows a step writes: none that it creates, or one.
Typed == token' \in [Tokens -> Row \cup {None}]
Rewritten == Typed /\ Existing' = Existing /\ \A t \in Existing : RowKept(t)
Created(t, new) ==
    /\ Typed
    /\ t \notin Existing
    /\ Existing' = Existing \cup {t}
    /\ token'[t] = new
    /\ \A x \in Existing : token'[x] = token[x]

LEMMA Rows ==
    ASSUME TypeOK
    PROVE  /\ Existing \subseteq Tokens
           /\ \A t \in Existing : token[t] \in Row
           /\ \A t \in Tokens : t \notin Existing => token[t] = None
BY DEF TypeOK, Existing

LEMMA RowFields ==
    ASSUME NEW row \in Row
    PROVE  /\ Rotated(row) \in Row
           /\ [row EXCEPT !.revoked = TRUE] \in Row
           /\ [row EXCEPT !.reused = TRUE] \in Row
           /\ [row EXCEPT !.expired = TRUE] \in Row
           /\ row.user \in Users /\ row.family \in Tokens /\ row.parent \in Tokens \cup {None}
BY DEF Row, Rotated

\* A row that differs from another only in what may change.
SameToken(new, row) ==
    /\ new \in Row
    /\ new.user = row.user /\ new.family = row.family /\ new.parent = row.parent
    /\ row.revoked => new.revoked
    /\ row.reused => new.reused

LEMMA RowChanges ==
    ASSUME NEW row \in Row
    PROVE  /\ SameToken(Rotated(row), row) /\ Rotated(row).revoked
           /\ SameToken([row EXCEPT !.revoked = TRUE], row)
           /\ SameToken([row EXCEPT !.reused = TRUE], row)
           /\ SameToken([row EXCEPT !.expired = TRUE], row)
BY DEF Row, Rotated, SameToken

\* A change of one row that exists.
LEMMA RewriteOne ==
    ASSUME TypeOK, NEW t \in Existing, NEW new, SameToken(new, token[t]),
           token' = [token EXCEPT ![t] = new]
    PROVE  /\ Rewritten
           /\ token'[t] = new
           /\ \A x \in Tokens : x # t => token'[x] = token[x]
<1>1. new \in Row /\ new # None
  BY DEF SameToken
<1>2. /\ Typed /\ Existing' = Existing /\ token'[t] = new
      /\ \A x \in Tokens : x # t => token'[x] = token[x]
  BY <1>1 DEF TypeOK, Typed, Existing
<1>3. ASSUME NEW x \in Existing PROVE RowKept(x)
  BY <1>2, Rows DEF RowKept, SameToken
<1> QED
  BY <1>2, <1>3 DEF Rewritten

\* The UPDATE that revokes a set of rows.
LEMMA RevokeAll ==
    ASSUME TypeOK, NEW S \in SUBSET Existing,
           token' = [t \in Tokens |->
               IF t \in S THEN [token[t] EXCEPT !.revoked = TRUE] ELSE token[t]]
    PROVE  /\ Rewritten
           /\ \A t \in S : token'[t].revoked
<1>1. ASSUME NEW t \in Existing
      PROVE  /\ SameToken(token'[t], token[t])
             /\ t \in S => token'[t].revoked
  <2>1. token[t] \in Row /\ t \in Tokens
    BY Rows
  <2>2. CASE t \in S
    <3>1. token'[t] = [token[t] EXCEPT !.revoked = TRUE]
      BY <2>1, <2>2
    <3> QED
      BY <2>1, <3>1, RowChanges DEF Row
  <2>3. CASE t \notin S
    <3>1. token'[t] = token[t]
      BY <2>1, <2>3
    <3> QED
      BY <2>1, <2>3, <3>1 DEF SameToken
  <2> QED
    BY <2>2, <2>3
<1>2. \A t \in Tokens : t \notin Existing => token'[t] = None
  BY Rows
<1>3. Typed /\ Existing' = Existing
  BY <1>1, <1>2 DEF SameToken, Typed, Existing
<1>4. \A t \in Existing : RowKept(t)
  BY <1>1, <1>3 DEF SameToken, RowKept
<1> QED
  BY <1>1, <1>3, <1>4 DEF Rewritten

LEMMA NoRewrite == TypeOK /\ UNCHANGED token => Rewritten
BY DEF TypeOK, Rewritten, Typed, RowKept, Existing

LEMMA CreateOne ==
    ASSUME TypeOK, NEW t \in Tokens \ Existing, NEW new \in Row,
           token' = [token EXCEPT ![t] = new]
    PROVE  Created(t, new) /\ \A x \in Existing : RowKept(x)
BY DEF TypeOK, Created, Typed, RowKept, Existing

-------------------------------------------------------------------------------
(* Type correctness *)

\* One request moves, and the others keep what they hold.
OneMoves(r) ==
    /\ pc' \in [Requests -> PCs]
    /\ user' \in [Requests -> Users \cup {None}]
    /\ family' \in [Requests -> Tokens \cup {None}]
    /\ parent' \in [Requests -> Tokens \cup {None}]
    /\ fresh' \in [Requests -> Tokens \cup {None}]
    /\ sweep' \in [Requests -> SUBSET Tokens]
    /\ \A q \in Requests \ {r} :
          /\ pc'[q] = pc[q] /\ user'[q] = user[q] /\ family'[q] = family[q]
          /\ parent'[q] = parent[q] /\ fresh'[q] = fresh[q] /\ sweep'[q] = sweep[q]

Ends(r) ==
    /\ OneMoves(r)
    /\ pc'[r] = "idle" /\ family'[r] = None /\ parent'[r] = None /\ sweep'[r] = {}

\* A request goes on with the session it has.
GoesOn(r, next) ==
    /\ OneMoves(r)
    /\ pc'[r] = next /\ user'[r] = user[r]
    /\ family'[r] = family[r] /\ parent'[r] = parent[r] /\ sweep'[r] = sweep[r]

LEMMA FinishEnds == ASSUME TypeOK, NEW r \in Requests, Finish(r) PROVE Ends(r)
BY DEF TypeOK, Finish, Goto, OneMoves, Ends, PCs

LEMMA GotoGoesOn ==
    ASSUME TypeOK, NEW r \in Requests, NEW next \in PCs, Goto(r, next),
           UNCHANGED <<user, family, parent, fresh, sweep>>
    PROVE  GoesOn(r, next) /\ fresh'[r] = fresh[r]
BY DEF TypeOK, Goto, OneMoves, GoesOn

LEMMA MoveType ==
    ASSUME TypeOK, NEW r \in Requests, OneMoves(r), PointOK(r)',
           Typed, Existing \subseteq Existing',
           status' \in [Users -> {"active", "withdrawn"}], held' \subseteq Existing'
    PROVE  TypeOK'
<1>1. ASSUME NEW q \in Requests, q # r PROVE PointOK(q)'
  <2>1. /\ pc'[q] = pc[q] /\ user'[q] = user[q] /\ family'[q] = family[q]
        /\ parent'[q] = parent[q] /\ fresh'[q] = fresh[q] /\ sweep'[q] = sweep[q]
        /\ PointOK(q)
    BY <1>1 DEF OneMoves, TypeOK
  <2> HIDE DEF Existing
  <2> QED
    BY <2>1 DEF PointOK
<1> QED
  BY <1>1 DEF TypeOK, OneMoves, Typed

LEMMA EndType ==
    ASSUME TypeOK, NEW r \in Requests, Finish(r), Rewritten,
           status' \in [Users -> {"active", "withdrawn"}], held' \subseteq Existing
    PROVE  TypeOK'
<1>1. Ends(r)
  BY FinishEnds
<1>2. PointOK(r)'
  BY <1>1 DEF Ends, PointOK
<1> QED
  BY <1>1, <1>2, MoveType DEF Ends, Rewritten

LEMMA InitType == Init => TypeOK
BY DEF Init, TypeOK, PointOK, PCs, Existing

\* What the two kinds of row that are stored look like.
LEMMA NewTokenRow ==
    ASSUME TypeOK, NEW r \in Requests, pc[r] = "create", NEW t \in Tokens
    PROVE  /\ NewToken(r, t) \in Row
           /\ NewToken(r, t).user = user[r] /\ NewToken(r, t).parent = parent[r]
           /\ NewToken(r, t).family = FamilyOf(r, t)
           /\ ~NewToken(r, t).revoked /\ ~NewToken(r, t).reused
<1>1. user[r] \in Users /\ parent[r] \in Tokens \cup {None} /\ FamilyOf(r, t) \in Tokens
  BY DEF TypeOK, PointOK, FamilyOf
<1> QED
  BY <1>1 DEF NewToken, Row

\* The steps of a request, each by what it does to the rows.
LEMMA CreateStep ==
    ASSUME TypeOK, NEW r \in Requests, CreateRefreshTokenSession(r)
    PROVE  \E t \in Tokens \ Existing :
              /\ Created(t, NewToken(r, t)) /\ \A x \in Existing : RowKept(x)
              /\ GoesOn(r, "answer") /\ fresh'[r] = t
<1>1. PICK t \in Tokens \ Existing : /\ token' = [token EXCEPT ![t] = NewToken(r, t)]
                                     /\ fresh' = [fresh EXCEPT ![r] = t]
  BY DEF CreateRefreshTokenSession
<1>2. Created(t, NewToken(r, t)) /\ \A x \in Existing : RowKept(x)
  BY <1>1, NewTokenRow, CreateOne DEF CreateRefreshTokenSession
<1>3. GoesOn(r, "answer") /\ fresh'[r] = t
  BY <1>1 DEF CreateRefreshTokenSession, TypeOK, Goto, OneMoves, GoesOn, PCs
<1> QED
  BY <1>2, <1>3

LEMMA RotateStep ==
    ASSUME TypeOK, NEW r \in Requests, RotateRefreshToken(r)
    PROVE  /\ Rewritten /\ GoesOn(r, "create")
           /\ parent[r] \in Existing /\ token'[parent[r]].revoked
<1>1. parent[r] \in Existing /\ token[parent[r]] \in Row
  BY Rows DEF RotateRefreshToken, TypeOK, PointOK
<1>2. token' = [token EXCEPT ![parent[r]] = Rotated(token[parent[r]])]
  BY DEF RotateRefreshToken
<1>3. /\ SameToken(Rotated(token[parent[r]]), token[parent[r]])
      /\ Rotated(token[parent[r]]).revoked
  BY <1>1, RowChanges
<1>4. Rewritten /\ token'[parent[r]] = Rotated(token[parent[r]])
  BY <1>1, <1>2, <1>3, RewriteOne
<1>5. GoesOn(r, "create")
  BY GotoGoesOn DEF RotateRefreshToken, PCs
<1> QED
  BY <1>1, <1>3, <1>4, <1>5

LEMMA RevokeStep ==
    ASSUME TypeOK, NEW r \in Requests, RevokeRefreshTokenFamily(r)
    PROVE  Rewritten /\ GoesOn(r, "markReuse")
<1>1. GoesOn(r, "markReuse")
  BY GotoGoesOn DEF RevokeRefreshTokenFamily, PCs
<1>2. CASE MayFail /\ UNCHANGED token
  BY <1>1, <1>2, NoRewrite
<1>3. CASE token' = [t \in Tokens |->
              IF t \in Relatives(r) THEN [token[t] EXCEPT !.revoked = TRUE] ELSE token[t]]
  <2>1. Relatives(r) \in SUBSET Existing
    BY DEF Relatives
  <2> QED
    BY <1>1, <1>3, <2>1, RevokeAll
<1> QED
  BY <1>2, <1>3 DEF RevokeRefreshTokenFamily

LEMMA MarkStep ==
    ASSUME TypeOK, NEW r \in Requests, MarkRefreshTokenReuse(r)
    PROVE  Rewritten /\ Finish(r)
<1>1. parent[r] \in Existing /\ token[parent[r]] \in Row
  BY Rows DEF MarkRefreshTokenReuse, TypeOK, PointOK
<1>2. CASE UNCHANGED token
  BY <1>2, NoRewrite DEF MarkRefreshTokenReuse
<1>3. CASE token' = [token EXCEPT ![parent[r]].reused = TRUE]
  <2> DEFINE new == [token[parent[r]] EXCEPT !.reused = TRUE]
  <2>1. SameToken(new, token[parent[r]])
    BY <1>1, RowChanges
  <2>2. token' = [token EXCEPT ![parent[r]] = new]
    BY <1>3
  <2> HIDE DEF new
  <2>3. Rewritten
    BY <1>1, <2>1, <2>2, RewriteOne
  <2> QED
    BY <2>3 DEF MarkRefreshTokenReuse
<1> QED
  BY <1>2, <1>3 DEF MarkRefreshTokenReuse

LEMMA ExpireStep ==
    ASSUME TypeOK, NEW t \in Tokens, Expire(t)
    PROVE  Rewritten
<1> DEFINE new == [token[t] EXCEPT !.expired = TRUE]
<1>1. t \in Existing /\ token[t] \in Row
  BY Rows DEF Expire
<1>2. SameToken(new, token[t])
  BY <1>1, RowChanges
<1>3. token' = [token EXCEPT ![t] = new]
  BY DEF Expire
<1> HIDE DEF new
<1> QED
  BY <1>1, <1>2, <1>3, RewriteOne

LEMMA CommitStep ==
    ASSUME TypeOK, NEW r \in Requests, Commit(r)
    PROVE  /\ Rewritten /\ Finish(r) /\ user[r] \in Users
           /\ \A t \in sweep[r] : token'[t].revoked
<1>1. sweep[r] \in SUBSET Existing /\ user[r] \in Users
  BY DEF TypeOK, PointOK, Commit
<1> QED
  BY <1>1, RevokeAll DEF Commit

LEMMA StepType == TypeOK /\ [Next]_vars => TypeOK'
<1> SUFFICES ASSUME TypeOK, [Next]_vars PROVE TypeOK'
  OBVIOUS
<1> DEFINE Statuses == [Users -> {"active", "withdrawn"}]
<1>1. status \in Statuses /\ held \subseteq Existing /\ \A r \in Requests : PointOK(r)
  BY DEF TypeOK
<1>2. ASSUME NEW r \in Requests, NEW u \in Users, StartFamily(r, u) PROVE TypeOK'
  <2>1. OneMoves(r)
    BY <1>2 DEF StartFamily, Goto, OneMoves, TypeOK, PCs
  <2>2. PointOK(r)' /\ Existing' = Existing
    BY <1>2 DEF StartFamily, Goto, PointOK, TypeOK, Existing
  <2> QED
    BY <1>1, <1>2, <2>1, <2>2, MoveType DEF StartFamily, TypeOK, Typed
<1>3. ASSUME NEW r \in Requests, NEW t \in Tokens, GetRefreshTokenSession(r, t) PROVE TypeOK'
  <2>1. t \in Existing /\ token[t].user \in Users /\ token[t].family \in Tokens
    BY <1>1, <1>3, Rows, RowFields DEF GetRefreshTokenSession
  <2>2. OneMoves(r) /\ Existing' = Existing /\ Typed
    BY <1>3, <2>1 DEF GetRefreshTokenSession, Goto, OneMoves, TypeOK, PCs, Existing, Typed
  <2>3. PointOK(r)'
    BY <1>3, <2>1, <2>2 DEF GetRefreshTokenSession, Goto, PointOK, TypeOK
  <2> QED
    BY <1>1, <1>3, <2>2, <2>3, MoveType DEF GetRefreshTokenSession
<1>4. ASSUME NEW r \in Requests, RotateRefreshToken(r) PROVE TypeOK'
  <2>1. Rewritten /\ GoesOn(r, "create") /\ parent[r] \in Existing
    BY <1>4, RotateStep
  <2>2. PointOK(r)'
    BY <1>1, <1>4, <2>1 DEF GoesOn, PointOK, Rewritten, RotateRefreshToken
  <2> QED
    BY <1>1, <1>4, <2>1, <2>2, MoveType DEF GoesOn, Rewritten, RotateRefreshToken
<1>5. ASSUME NEW r \in Requests, CreateRefreshTokenSession(r) PROVE TypeOK'
  <2>1. PICK t \in Tokens \ Existing :
            Created(t, NewToken(r, t)) /\ GoesOn(r, "answer") /\ fresh'[r] = t
    BY <1>5, CreateStep
  <2>2. PointOK(r)'
    BY <1>1, <1>5, <2>1 DEF GoesOn, PointOK, Created, CreateRefreshTokenSession
  <2> QED
    BY <1>1, <1>5, <2>1, <2>2, MoveType DEF GoesOn, Created, CreateRefreshTokenSession
<1>6. ASSUME NEW r \in Requests, WriteAccessResponse(r) PROVE TypeOK'
  <2>1. held' \subseteq Existing /\ Finish(r)
    BY <1>1, <1>6 DEF WriteAccessResponse, PointOK
  <2> QED
    BY <1>1, <1>6, <2>1, NoRewrite, EndType DEF WriteAccessResponse
<1>7. ASSUME NEW r \in Requests, RevokeRefreshTokenFamily(r) PROVE TypeOK'
  <2>1. Rewritten /\ GoesOn(r, "markReuse")
    BY <1>7, RevokeStep
  <2>2. PointOK(r)'
    BY <1>1, <1>7, <2>1 DEF GoesOn, PointOK, Rewritten, RevokeRefreshTokenFamily
  <2> QED
    BY <1>1, <1>7, <2>1, <2>2, MoveType DEF GoesOn, Rewritten, RevokeRefreshTokenFamily
<1>8. ASSUME NEW r \in Requests, MarkRefreshTokenReuse(r) PROVE TypeOK'
  BY <1>1, <1>8, MarkStep, EndType DEF MarkRefreshTokenReuse
<1>9. ASSUME NEW r \in Requests, NEW u \in Users, Withdraw(r, u) PROVE TypeOK'
  <2>1. SweptOf(u) \subseteq Existing
    BY DEF SweptOf
  <2>2. OneMoves(r) /\ Existing' = Existing /\ Typed
    BY <1>9, <2>1, Rows DEF Withdraw, Goto, OneMoves, TypeOK, PCs, Existing, Typed
  <2>3. PointOK(r)'
    BY <1>9, <2>1, <2>2 DEF Withdraw, Goto, PointOK, TypeOK
  <2> QED
    BY <1>1, <1>9, <2>2, <2>3, MoveType DEF Withdraw
<1>10. ASSUME NEW r \in Requests, Commit(r) PROVE TypeOK'
  <2>1. status' \in Statuses
    BY <1>1, <1>10 DEF Commit
  <2> QED
    BY <1>1, <1>10, <2>1, CommitStep, EndType DEF Commit
<1>11. ASSUME NEW r \in Requests, Fail(r) PROVE TypeOK'
  BY <1>1, <1>11, NoRewrite, EndType DEF Fail
<1>12. ASSUME NEW t \in Tokens, Expire(t) PROVE TypeOK'
  <2>1. Rewritten
    BY <1>12, ExpireStep
  <2> QED
    BY <1>12, <2>1 DEF Expire, TypeOK, Rewritten, Typed, PointOK
<1>13. CASE UNCHANGED vars
  BY <1>13 DEF vars, TypeOK, PointOK, Existing
<1> QED
  BY <1>2, <1>3, <1>4, <1>5, <1>6, <1>7, <1>8, <1>9, <1>10, <1>11, <1>12, <1>13 DEF Next

\* Every token a request or a client holds has a row, for any number of them.
THEOREM TokensTypeCorrect == Spec => []TypeOK
BY InitType, StepType, PTL DEF Spec

\* A step rewrites rows, or creates one.
LEMMA RowsWritten ==
    ASSUME TypeOK, [Next]_vars
    PROVE  Rewritten \/ \E r \in Requests : CreateRefreshTokenSession(r)
<1>1. \/ UNCHANGED token
      \/ \E r \in Requests :
            \/ RotateRefreshToken(r) \/ CreateRefreshTokenSession(r)
            \/ RevokeRefreshTokenFamily(r) \/ MarkRefreshTokenReuse(r) \/ Commit(r)
      \/ \E t \in Tokens : Expire(t)
  BY DEF Next, vars, StartFamily, Withdraw, GetRefreshTokenSession, WriteAccessResponse, Fail
<1> QED
  BY <1>1, NoRewrite, RotateStep, RevokeStep, MarkStep, CommitStep, ExpireStep

\* No step undoes a row, whatever it does.
LEMMA RowsKept ==
    ASSUME TypeOK, [Next]_vars, NEW t \in Existing
    PROVE  RowKept(t)
<1>1. ASSUME NEW r \in Requests, CreateRefreshTokenSession(r) PROVE RowKept(t)
  BY <1>1, CreateStep
<1> QED
  BY <1>1, RowsWritten DEF Rewritten

-------------------------------------------------------------------------------
(* Families are trees *)

\* A refresh in progress carries the family and the user of the token it
\* presented, and creates a child only when that token is revoked.
Refresh == {"rotate", "create", "revokeFamily", "markReuse"}

SessionKnows(r) ==
    /\ pc[r] \in Refresh /\ parent[r] # None =>
          family[r] = token[parent[r]].family /\ user[r] = token[parent[r]].user
    /\ pc[r] = "create" /\ parent[r] # None => token[parent[r]].revoked

\* The token that started a family has a row.
FamilyKnown == \A t \in Existing : token[t].family \in Existing

TreeInv == TypeOK /\ FamilyTree /\ FamilyKnown /\ \A r \in Requests : SessionKnows(r)

LEMMA InitTree == Init => TreeInv
BY InitType DEF Init, TreeInv, FamilyTree, FamilyKnown, SessionKnows, Existing, Refresh

\* The tokens of requests in progress have rows.
LEMMA ParentExists ==
    ASSUME TypeOK, NEW r \in Requests, pc[r] \in Refresh, parent[r] # None
    PROVE  parent[r] \in Existing
BY DEF TypeOK, PointOK, Refresh

LEMMA RewrittenTree ==
    ASSUME TreeInv, Rewritten
    PROVE  FamilyTree' /\ FamilyKnown'
BY DEF TreeInv, Rewritten, RowKept, FamilyTree, FamilyKnown

\* Requests that stay where they are keep what they know.
LEMMA OthersKnow ==
    ASSUME TreeInv, NEW q \in Requests, SessionKnows(q), \A t \in Existing : RowKept(t),
           pc'[q] = pc[q], user'[q] = user[q], family'[q] = family[q], parent'[q] = parent[q]
    PROVE  SessionKnows(q)'
<1>1. pc[q] \in Refresh /\ parent[q] # None => RowKept(parent[q])
  BY ParentExists DEF TreeInv
<1> QED
  BY <1>1 DEF SessionKnows, RowKept, Refresh

LEMMA MoveTree ==
    ASSUME TreeInv, TypeOK', NEW r \in Requests, OneMoves(r), SessionKnows(r)',
           \A t \in Existing : RowKept(t), FamilyTree', FamilyKnown'
    PROVE  TreeInv'
<1>1. ASSUME NEW q \in Requests, q # r PROVE SessionKnows(q)'
  <2>1. /\ pc'[q] = pc[q] /\ user'[q] = user[q] /\ family'[q] = family[q]
        /\ parent'[q] = parent[q] /\ SessionKnows(q)
    BY <1>1 DEF OneMoves, TreeInv
  <2> QED
    BY <2>1, OthersKnow
<1> QED
  BY <1>1 DEF TreeInv

\* A step that rewrites rows, and ends the request or leaves it elsewhere.
LEMMA MoveRewritten ==
    ASSUME TreeInv, TypeOK', NEW r \in Requests, OneMoves(r), Rewritten,
           pc'[r] \notin Refresh \/ parent'[r] = None
    PROVE  TreeInv'
<1>1. SessionKnows(r)'
  BY DEF SessionKnows, Refresh
<1> QED
  BY <1>1, RewrittenTree, MoveTree DEF Rewritten

LEMMA CreatedTree ==
    ASSUME TreeInv, NEW r \in Requests, pc[r] = "create", NEW t \in Tokens \ Existing,
           Created(t, NewToken(r, t)), \A x \in Existing : RowKept(x)
    PROVE  FamilyTree' /\ FamilyKnown'
<1>1. /\ token'[t].parent = parent[r] /\ token'[t].user = user[r]
      /\ token'[t].family = FamilyOf(r, t)
  BY NewTokenRow DEF Created, TreeInv
<1>2. parent[r] = None <=> family[r] = None
  <2>1. PointOK(r) /\ Existing \subseteq Tokens
    BY Rows DEF TreeInv, TypeOK
  <2> QED
    BY <2>1 DEF PointOK
<1>3. CASE parent[r] = None
  <2>1. token'[t].family = t
    BY <1>1, <1>2, <1>3 DEF FamilyOf
  <2> QED
    BY <1>1, <1>3, <2>1 DEF TreeInv, FamilyTree, FamilyKnown, Created
<1>4. CASE parent[r] # None
  <2>1. /\ parent[r] \in Existing /\ token[parent[r]].revoked
        /\ family[r] = token[parent[r]].family /\ user[r] = token[parent[r]].user
    BY <1>4, ParentExists DEF TreeInv, SessionKnows, Refresh
  <2>2. token'[t].family = family[r] /\ family[r] \in Existing
    BY <1>1, <1>2, <1>4, <2>1 DEF FamilyOf, TreeInv, FamilyKnown
  <2> QED
    BY <1>1, <1>4, <2>1, <2>2 DEF TreeInv, FamilyTree, FamilyKnown, Created
<1> QED
  BY <1>3, <1>4

LEMMA StepTree == TreeInv /\ [Next]_vars => TreeInv'
<1> SUFFICES ASSUME TreeInv, [Next]_vars PROVE TreeInv'
  OBVIOUS
<1>1. TypeOK /\ TypeOK' /\ \A r \in Requests : SessionKnows(r) /\ PointOK(r)
  BY StepType DEF TreeInv, TypeOK
<1>2. ASSUME NEW r \in Requests, NEW u \in Users, StartFamily(r, u) \/ Withdraw(r, u)
      PROVE  TreeInv'
  <2>1. OneMoves(r) /\ UNCHANGED token /\ (pc'[r] \notin Refresh \/ parent'[r] = None)
    BY <1>1, <1>2, Rows
    DEF StartFamily, Withdraw, SweptOf, Goto, OneMoves, TypeOK, PointOK, PCs, Refresh
  <2> QED
    BY <1>1, <2>1, NoRewrite, MoveRewritten
<1>3. ASSUME NEW r \in Requests, NEW t \in Tokens, GetRefreshTokenSession(r, t) PROVE TreeInv'
  <2>1. t \in Existing /\ token[t].user \in Users /\ token[t].family \in Tokens
    BY <1>1, <1>3, Rows, RowFields DEF GetRefreshTokenSession, TypeOK
  <2>2. OneMoves(r) /\ UNCHANGED token
    BY <1>1, <1>3, <2>1 DEF GetRefreshTokenSession, Goto, OneMoves, TypeOK, PCs
  <2>3. /\ pc'[r] # "create" /\ parent'[r] = t
        /\ family'[r] = token[t].family /\ user'[r] = token[t].user
    BY <1>1, <1>3 DEF GetRefreshTokenSession, Goto, TypeOK
  <2>4. SessionKnows(r)'
    BY <2>2, <2>3 DEF SessionKnows
  <2> QED
    BY <1>1, <2>2, <2>4, NoRewrite, RewrittenTree, MoveTree DEF Rewritten
<1>4. ASSUME NEW r \in Requests, RotateRefreshToken(r) PROVE TreeInv'
  <2>1. /\ Rewritten /\ GoesOn(r, "create")
        /\ parent[r] \in Existing /\ token'[parent[r]].revoked /\ pc[r] = "rotate"
    BY <1>1, <1>4, RotateStep DEF RotateRefreshToken
  <2>2. SessionKnows(r)'
    BY <1>1, <2>1 DEF SessionKnows, GoesOn, Rewritten, RowKept, Refresh
  <2> QED
    BY <1>1, <2>1, <2>2, RewrittenTree, MoveTree DEF Rewritten, GoesOn
<1>5. ASSUME NEW r \in Requests, CreateRefreshTokenSession(r) PROVE TreeInv'
  <2>1. PICK t \in Tokens \ Existing :
            /\ Created(t, NewToken(r, t)) /\ \A x \in Existing : RowKept(x)
            /\ GoesOn(r, "answer")
    BY <1>1, <1>5, CreateStep
  <2>2. pc[r] = "create" /\ SessionKnows(r)'
    BY <1>5, <2>1 DEF CreateRefreshTokenSession, GoesOn, SessionKnows, Refresh
  <2> QED
    BY <1>1, <2>1, <2>2, CreatedTree, MoveTree DEF GoesOn
<1>6. ASSUME NEW r \in Requests, RevokeRefreshTokenFamily(r) PROVE TreeInv'
  <2>1. Rewritten /\ GoesOn(r, "markReuse") /\ pc[r] = "revokeFamily"
    BY <1>1, <1>6, RevokeStep DEF RevokeRefreshTokenFamily
  <2>2. parent[r] \in Existing
    BY <1>1, <2>1 DEF PointOK
  <2>3. SessionKnows(r)'
    BY <1>1, <2>1, <2>2 DEF SessionKnows, GoesOn, Rewritten, RowKept, Refresh
  <2> QED
    BY <1>1, <2>1, <2>3, RewrittenTree, MoveTree DEF Rewritten, GoesOn
<1>7. ASSUME NEW r \in Requests, Rewritten, Finish(r) PROVE TreeInv'
  BY <1>1, <1>7, FinishEnds, MoveRewritten DEF Ends
<1>8. ASSUME NEW r \in Requests,
             WriteAccessResponse(r) \/ MarkRefreshTokenReuse(r) \/ Commit(r) \/ Fail(r)
      PROVE  TreeInv'
  <2>1. Rewritten /\ Finish(r)
    BY <1>1, <1>8, NoRewrite, MarkStep, CommitStep DEF WriteAccessResponse, Fail
  <2> QED
    BY <1>7, <2>1
<1>9. ASSUME Rewritten, UNCHANGED <<pc, user, family, parent>> PROVE TreeInv'
  <2>1. \A q \in Requests : SessionKnows(q)'
    BY <1>1, <1>9, OthersKnow DEF Rewritten
  <2> QED
    BY <1>1, <1>9, <2>1, RewrittenTree DEF TreeInv
<1>10. ASSUME NEW t \in Tokens, Expire(t) PROVE TreeInv'
  BY <1>1, <1>9, <1>10, ExpireStep DEF Expire
<1>11. CASE UNCHANGED vars
  BY <1>1, <1>9, <1>11, NoRewrite DEF vars
<1> QED
  BY <1>2, <1>3, <1>4, <1>5, <1>6, <1>8, <1>10, <1>11 DEF Next

\* However refreshes, failures and withdrawals interleave, a token has the
\* family and the user of the token it was rotated from, which is revoked.
THEOREM FamiliesAreTrees == Spec => []FamilyTree
<1>1. TreeInv => FamilyTree
  BY DEF TreeInv
<1> QED
  BY <1>1, InitTree, StepTree, PTL DEF Spec

-------------------------------------------------------------------------------
(* Dead families *)

\* A token enters the family of the request that creates it, or starts one.
LEMMA FamilyRowsMove ==
    ASSUME TreeInv, [Next]_vars, NEW f \in Tokens, FamilyRows(f) # {}, Refreshing(f) = {}
    PROVE  /\ FamilyRows(f)' = FamilyRows(f)
           /\ \A t \in Existing : RowKept(t)
<1>1. TypeOK
  BY DEF TreeInv
<1>2. ASSUME Rewritten
      PROVE  FamilyRows(f)' = FamilyRows(f) /\ \A t \in Existing : RowKept(t)
  BY <1>2 DEF Rewritten, RowKept, FamilyRows
<1>3. ASSUME NEW r \in Requests, CreateRefreshTokenSession(r)
      PROVE  FamilyRows(f)' = FamilyRows(f) /\ \A t \in Existing : RowKept(t)
  <2>1. PICK t \in Tokens \ Existing :
            Created(t, NewToken(r, t)) /\ \A x \in Existing : RowKept(x)
    BY <1>1, <1>3, CreateStep
  <2>2. token'[t].family = FamilyOf(r, t)
    BY <1>1, <1>3, <2>1, NewTokenRow DEF Created, CreateRefreshTokenSession
  <2>3. f \in Existing
    BY DEF FamilyRows, TreeInv, FamilyKnown
  <2>4. family[r] # f
    BY <1>3 DEF Refreshing, CreateRefreshTokenSession
  <2>5. token'[t].family # f
    BY <2>2, <2>3, <2>4 DEF FamilyOf
  <2> QED
    BY <2>1, <2>5 DEF Created, FamilyRows
<1> QED
  BY <1>1, <1>2, <1>3, RowsWritten

\* A refresh of a family begins with a live token of it.
LEMMA RefreshingMove ==
    ASSUME TreeInv, [Next]_vars, NEW f \in Tokens, Refreshing(f) = {},
           \A t \in FamilyRows(f) : ~Live(t)
    PROVE  Refreshing(f)' = {}
<1>1. TypeOK /\ \A q \in Requests : ~(pc[q] \in {"rotate", "create"} /\ family[q] = f)
  BY DEF TreeInv, Refreshing
<1>2. ASSUME NEW r \in Requests, OneMoves(r),
             ~(pc'[r] \in {"rotate", "create"} /\ family'[r] = f)
      PROVE  Refreshing(f)' = {}
  BY <1>1, <1>2 DEF OneMoves, Refreshing
<1>3. ASSUME NEW r \in Requests, NEW u \in Users, StartFamily(r, u) \/ Withdraw(r, u)
      PROVE  Refreshing(f)' = {}
  <2>1. OneMoves(r) /\ (pc'[r] = "committing" \/ family'[r] = None)
    BY <1>1, <1>3, Rows
    DEF StartFamily, Withdraw, SweptOf, Goto, OneMoves, TypeOK, PointOK, PCs
  <2> QED
    BY <1>2, <2>1
<1>4. ASSUME NEW r \in Requests, NEW t \in Tokens, GetRefreshTokenSession(r, t)
      PROVE  Refreshing(f)' = {}
  <2>1. t \in Existing /\ token[t].user \in Users /\ token[t].family \in Tokens
    BY <1>1, <1>4, Rows, RowFields DEF GetRefreshTokenSession, TypeOK
  <2>2. OneMoves(r) /\ family'[r] = token[t].family
    BY <1>1, <1>4, <2>1 DEF GetRefreshTokenSession, Goto, OneMoves, TypeOK, PCs
  <2>3. pc'[r] = "revokeFamily" \/ Live(t)
    BY <1>1, <1>4, <2>1 DEF GetRefreshTokenSession, Goto, TypeOK, Reused, Live
  <2>4. Live(t) => token[t].family # f
    BY <2>1 DEF FamilyRows
  <2> QED
    BY <1>2, <2>2, <2>3, <2>4
<1>5. ASSUME NEW r \in Requests, RotateRefreshToken(r) PROVE Refreshing(f)' = {}
  BY <1>1, <1>2, <1>5, RotateStep DEF GoesOn, RotateRefreshToken
<1>6. ASSUME NEW r \in Requests, CreateRefreshTokenSession(r) PROVE Refreshing(f)' = {}
  BY <1>1, <1>2, <1>6, CreateStep DEF GoesOn
<1>7. ASSUME NEW r \in Requests, RevokeRefreshTokenFamily(r) PROVE Refreshing(f)' = {}
  BY <1>1, <1>2, <1>7, RevokeStep DEF GoesOn
<1>8. ASSUME NEW r \in Requests, Finish(r) PROVE Refreshing(f)' = {}
  BY <1>1, <1>2, <1>8, FinishEnds DEF Ends
<1>9. CASE UNCHANGED <<pc, family>>
  BY <1>1, <1>9 DEF Refreshing
<1> QED
  BY <1>3, <1>4, <1>5, <1>6, <1>7, <1>8, <1>9
  DEF Next, vars, WriteAccessResponse, MarkRefreshTokenReuse, Commit, Fail, Expire

LEMMA DeadStays ==
    ASSUME TreeInv, [Next]_vars, NEW f \in Tokens, Dead(f)
    PROVE  Dead(f)' /\ FamilyRows(f)' = FamilyRows(f)
<1>1. FamilyRows(f) # {} /\ Refreshing(f) = {} /\ \A t \in FamilyRows(f) : ~Live(t)
  BY DEF Dead
<1>2. FamilyRows(f)' = FamilyRows(f) /\ \A t \in Existing : RowKept(t)
  BY <1>1, FamilyRowsMove
<1>3. Refreshing(f)' = {}
  BY <1>1, RefreshingMove
<1>4. ASSUME NEW t \in FamilyRows(f)' PROVE ~Live(t)'
  <2>1. t \in Existing /\ token[t].revoked /\ RowKept(t)
    BY <1>1, <1>2, <1>4 DEF FamilyRows, Live
  <2> QED
    BY <2>1 DEF RowKept, Live
<1> QED
  BY <1>1, <1>2, <1>3, <1>4 DEF Dead

\* A family whose tokens are all revoked, with no refresh of it in progress,
\* never gets a token again: reuse detection cannot be outrun by new requests.
THEOREM DeadFamiliesStayDead == Spec => DeadFamilySealed
<1> SUFFICES Spec => [][\A f \in Tokens :
                 Dead(f) => Dead(f)' /\ FamilyRows(f)' = FamilyRows(f)]_vars
  BY DEF DeadFamilySealed
<1>1. TreeInv /\ [Next]_vars =>
          [\A f \in Tokens : Dead(f) => Dead(f)' /\ FamilyRows(f)' = FamilyRows(f)]_vars
  BY DeadStays
<1> QED
  BY <1>1, InitTree, StepTree, PTL DEF Spec

-------------------------------------------------------------------------------
(* Forks are bounded *)

\* Requests that presented t before it was revoked, and may still rotate it
\* into a child.
Rotating(t) == {r \in Requests : pc[r] \in {"rotate", "create"} /\ parent[r] = t}

\* The children of a token, and those it may still get, are no more than the
\* requests: a request that creates a child gives up its place, and none takes
\* a place once the token is revoked, which it is when it has a child.
ForkInv ==
    /\ TreeInv
    /\ \A t \in Tokens :
          /\ IsFiniteSet(Children(t))
          /\ Cardinality(Children(t)) + Cardinality(Rotating(t)) <= Cardinality(Requests)

LEMMA RotatingFinite ==
    ASSUME NEW t
    PROVE  /\ IsFiniteSet(Rotating(t)) /\ Cardinality(Rotating(t)) \in Nat
           /\ Cardinality(Rotating(t)) <= Cardinality(Requests)
           /\ Cardinality(Requests) \in Nat
<1>1. Rotating(t) \subseteq Requests
  BY DEF Rotating
<1> QED
  BY <1>1, RequestsAssumption, FS_Subset, FS_CardinalityType

LEMMA NoChildrenFits ==
    ASSUME NEW t, Children(t) = {}
    PROVE  /\ IsFiniteSet(Children(t))
           /\ Cardinality(Children(t)) + Cardinality(Rotating(t)) <= Cardinality(Requests)
BY RotatingFinite, FS_EmptySet

LEMMA InitFork == Init => ForkInv
<1> SUFFICES ASSUME Init, NEW t \in Tokens PROVE Children(t) = {}
  BY InitTree, NoChildrenFits DEF ForkInv
<1> QED
  BY DEF Init, Children, Existing

\* What a step does to the children of a token and to those who rotate it:
\* fewer rotate it, one does that presents it live, or one makes it a child.
LEMMA ForkMoves ==
    ASSUME TreeInv, [Next]_vars, NEW t \in Tokens
    PROVE  \/ Children(t)' = Children(t) /\ Rotating(t)' \subseteq Rotating(t)
           \/ Children(t)' = {}
           \/ \E r \in Rotating(t), x \in Tokens :
                  Children(t)' = Children(t) \cup {x} /\ Rotating(t)' = Rotating(t) \ {r}
<1>1. TypeOK
  BY DEF TreeInv
<1>2. ASSUME Rewritten PROVE Children(t)' = Children(t)
  BY <1>2 DEF Rewritten, RowKept, Children
<1>3. ASSUME NEW r \in Requests, OneMoves(r),
             ~(pc'[r] \in {"rotate", "create"} /\ parent'[r] = t) \/ r \in Rotating(t)
      PROVE  Rotating(t)' \subseteq Rotating(t)
  BY <1>3 DEF OneMoves, Rotating
<1>4. ASSUME NEW r \in Requests, NEW u \in Users, StartFamily(r, u) \/ Withdraw(r, u)
      PROVE  Children(t)' = Children(t) /\ Rotating(t)' \subseteq Rotating(t)
  <2>1. OneMoves(r) /\ UNCHANGED token /\ (pc'[r] = "committing" \/ parent'[r] = None)
    BY <1>1, <1>4, Rows
    DEF StartFamily, Withdraw, SweptOf, Goto, OneMoves, TypeOK, PointOK, PCs
  <2> QED
    BY <1>1, <1>2, <1>3, <2>1, NoRewrite
<1>5. ASSUME NEW r \in Requests, NEW x \in Tokens, GetRefreshTokenSession(r, x)
      PROVE  \/ Children(t)' = Children(t) /\ Rotating(t)' \subseteq Rotating(t)
             \/ Children(t)' = {}
  <2>1. x \in Existing /\ token[x].user \in Users /\ token[x].family \in Tokens
    BY <1>1, <1>5, Rows, RowFields DEF GetRefreshTokenSession, TypeOK
  <2>2. OneMoves(r) /\ parent'[r] = x /\ UNCHANGED token
    BY <1>1, <1>5, <2>1 DEF GetRefreshTokenSession, Goto, OneMoves, TypeOK, PCs
  <2>3. Children(t)' = Children(t)
    BY <1>1, <1>2, <2>2, NoRewrite
  <2>4. CASE x # t \/ Reused(x)
    <3>1. ~(pc'[r] \in {"rotate", "create"} /\ parent'[r] = t)
      BY <1>1, <1>5, <2>2, <2>4 DEF GetRefreshTokenSession, Goto, TypeOK
    <3> QED
      BY <1>3, <2>2, <2>3, <3>1
  <2>5. CASE x = t /\ ~Reused(x)
    <3>1. ~token[t].revoked
      BY <2>5 DEF Reused
    <3>2. Children(t) = {}
      BY <3>1 DEF Children, TreeInv, FamilyTree
    <3> QED
      BY <2>3, <3>2
  <2> QED
    BY <2>4, <2>5
<1>6. ASSUME NEW r \in Requests, RotateRefreshToken(r)
      PROVE  Children(t)' = Children(t) /\ Rotating(t)' \subseteq Rotating(t)
  <2>1. Rewritten /\ GoesOn(r, "create") /\ pc[r] = "rotate"
    BY <1>1, <1>6, RotateStep DEF RotateRefreshToken
  <2> QED
    BY <1>2, <1>3, <2>1 DEF GoesOn, Rotating
<1>7. ASSUME NEW r \in Requests, CreateRefreshTokenSession(r)
      PROVE  \/ Children(t)' = Children(t) /\ Rotating(t)' \subseteq Rotating(t)
             \/ \E x \in Tokens : /\ r \in Rotating(t)
                                  /\ Children(t)' = Children(t) \cup {x}
                                  /\ Rotating(t)' = Rotating(t) \ {r}
  <2>1. PICK x \in Tokens \ Existing :
            /\ Created(x, NewToken(r, x)) /\ \A y \in Existing : RowKept(y)
            /\ GoesOn(r, "answer")
    BY <1>1, <1>7, CreateStep
  <2>2. token'[x].parent = parent[r] /\ pc[r] = "create"
    BY <1>1, <1>7, <2>1, NewTokenRow DEF Created, CreateRefreshTokenSession
  <2>3. CASE parent[r] = t
    <3>1. Children(t)' = Children(t) \cup {x}
      BY <2>1, <2>2, <2>3 DEF Created, Children
    <3>2. r \in Rotating(t) /\ Rotating(t)' = Rotating(t) \ {r}
      BY <2>1, <2>2, <2>3 DEF GoesOn, OneMoves, Rotating
    <3> QED
      BY <3>1, <3>2
  <2>4. CASE parent[r] # t
    <3>1. Children(t)' = Children(t)
      BY <2>1, <2>2, <2>4 DEF Created, Children
    <3> QED
      BY <1>3, <2>1, <3>1 DEF GoesOn
  <2> QED
    BY <2>3, <2>4
<1>8. ASSUME NEW r \in Requests, RevokeRefreshTokenFamily(r)
      PROVE  Children(t)' = Children(t) /\ Rotating(t)' \subseteq Rotating(t)
  BY <1>1, <1>2, <1>3, <1>8, RevokeStep DEF GoesOn
<1>9. ASSUME NEW r \in Requests,
             WriteAccessResponse(r) \/ MarkRefreshTokenReuse(r) \/ Commit(r) \/ Fail(r)
      PROVE  Children(t)' = Children(t) /\ Rotating(t)' \subseteq Rotating(t)
  <2>1. Rewritten /\ Finish(r)
    BY <1>1, <1>9, NoRewrite, MarkStep, CommitStep DEF WriteAccessResponse, Fail
  <2> QED
    BY <1>1, <1>2, <1>3, <2>1, FinishEnds DEF Ends
<1>10. ASSUME Rewritten, UNCHANGED <<pc, parent>>
       PROVE  Children(t)' = Children(t) /\ Rotating(t)' \subseteq Rotating(t)
  BY <1>2, <1>10 DEF Rotating
<1>11. (\E x \in Tokens : Expire(x)) \/ UNCHANGED vars
           => Rewritten /\ UNCHANGED <<pc, parent>>
  BY <1>1, ExpireStep, NoRewrite DEF Expire, vars
<1> QED
  BY <1>4, <1>5, <1>6, <1>7, <1>8, <1>9, <1>10, <1>11 DEF Next

LEMMA StepFork == ForkInv /\ [Next]_vars => ForkInv'
<1> SUFFICES ASSUME ForkInv, [Next]_vars, NEW t \in Tokens
             PROVE  /\ IsFiniteSet(Children(t)')
                    /\ Cardinality(Children(t)') + Cardinality(Rotating(t)') <= Cardinality(Requests)
  BY StepTree DEF ForkInv
<1>1. /\ IsFiniteSet(Children(t))
      /\ Cardinality(Children(t)) + Cardinality(Rotating(t)) <= Cardinality(Requests)
      /\ Cardinality(Children(t)) \in Nat /\ TreeInv
  BY FS_CardinalityType DEF ForkInv
<1>2. /\ IsFiniteSet(Rotating(t)) /\ Cardinality(Rotating(t)) \in Nat
      /\ Cardinality(Requests) \in Nat
  BY RotatingFinite
<1>3. CASE Children(t)' = Children(t) /\ Rotating(t)' \subseteq Rotating(t)
  <2>1. IsFiniteSet(Rotating(t)') /\ Cardinality(Rotating(t)') <= Cardinality(Rotating(t))
    BY <1>2, <1>3, FS_Subset
  <2>2. Cardinality(Rotating(t)') \in Nat
    BY <2>1, FS_CardinalityType
  <2> QED
    BY <1>1, <1>2, <1>3, <2>1, <2>2
<1>4. CASE Children(t)' = {}
  <2>1. Rotating(t)' \subseteq Requests
    BY DEF Rotating
  <2>2. IsFiniteSet(Rotating(t)') /\ Cardinality(Rotating(t)') <= Cardinality(Requests)
    BY <2>1, RequestsAssumption, FS_Subset
  <2>3. Cardinality(Rotating(t)') \in Nat
    BY <2>2, FS_CardinalityType
  <2> QED
    BY <1>2, <1>4, <2>2, <2>3, FS_EmptySet
<1>5. ASSUME NEW r \in Rotating(t), NEW x \in Tokens,
             Children(t)' = Children(t) \cup {x}, Rotating(t)' = Rotating(t) \ {r}
      PROVE  /\ IsFiniteSet(Children(t)')
             /\ Cardinality(Children(t)') + Cardinality(Rotating(t)') <= Cardinality(Requests)
  <2>1. /\ IsFiniteSet(Children(t)')
        /\ \/ Cardinality(Children(t)') = Cardinality(Children(t))
           \/ Cardinality(Children(t)') = Cardinality(Children(t)) + 1
    BY <1>1, <1>5, FS_AddElement
  <2>2. Cardinality(Rotating(t)') = Cardinality(Rotating(t)) - 1
    BY <1>2, <1>5, FS_RemoveElement
  <2> QED
    BY <1>1, <1>2, <2>1, <2>2
<1> QED
  BY <1>1, <1>3, <1>4, <1>5, ForkMoves

\* Concurrent requests can fork a family, but a token is never rotated into
\* more children than requests can be in progress at once.
THEOREM ForksAreBounded == Spec => []ChildrenBounded
<1>1. ForkInv => ChildrenBounded
  <2> SUFFICES ASSUME ForkInv, NEW t \in Tokens
               PROVE  Cardinality(Children(t)) <= Cardinality(Requests)
    BY DEF ChildrenBounded
  <2>1. Cardinality(Children(t)) \in Nat
    BY FS_CardinalityType DEF ForkInv
  <2> QED
    BY <2>1, RotatingFinite DEF ForkInv
<1> QED
  BY <1>1, InitFork, StepFork, PTL DEF Spec

-------------------------------------------------------------------------------
(* A family that never forked has at most one live token *)

\* The tokens of a family that were not rotated into another.
Tips(f) == {t \in FamilyRows(f) : Children(t) = {}}

Linear(f) == \A t \in FamilyRows(f) : \A x, y \in Children(t) : x = y

\* Only the tip of a family may be live; where no token was rotated twice, every
\* rotation moves the one tip to the token it creates.
TipInv ==
    /\ ForkInv
    /\ \A f \in Tokens : Linear(f) => \A x, y \in Tips(f) : x = y

LEMMA InitTip == Init => TipInv
<1> SUFFICES ASSUME Init, NEW f \in Tokens PROVE Tips(f) = {}
  BY InitFork DEF TipInv
<1> QED
  BY DEF Init, Tips, FamilyRows, Existing

\* A family and the children of its tokens are as before.
SameFamily(f) ==
    /\ FamilyRows(f)' = FamilyRows(f)
    /\ \A t \in FamilyRows(f) : Children(t)' = Children(t)

LEMMA SameTips ==
    ASSUME TipInv, NEW f \in Tokens, SameFamily(f), Linear(f)'
    PROVE  \A x, y \in Tips(f)' : x = y
<1>1. Linear(f) /\ Tips(f)' = Tips(f)
  BY DEF SameFamily, Linear, Tips
<1> QED
  BY <1>1 DEF TipInv

\* The root of a new family is its tip.
LEMMA NewFamilyTips ==
    ASSUME TipInv, NEW r \in Requests, pc[r] = "create", parent[r] = None,
           NEW t \in Tokens \ Existing, Created(t, NewToken(r, t)),
           NEW f \in Tokens, Linear(f)'
    PROVE  \A x, y \in Tips(f)' : x = y
<1>1. /\ TypeOK /\ PointOK(r) /\ Existing \subseteq Tokens
      /\ FamilyKnown
  BY Rows DEF TipInv, ForkInv, TreeInv, TypeOK
<1>2. family[r] = None
  BY <1>1 DEF PointOK
<1>3. token'[t].family = t /\ token'[t].parent = None
  BY <1>1, <1>2, NewTokenRow DEF Created, FamilyOf
<1>4. CASE f = t
  <2>1. FamilyRows(f)' \subseteq {t}
    BY <1>1, <1>4 DEF Created, FamilyRows, FamilyKnown
  <2> QED
    BY <2>1 DEF Tips
<1>5. CASE f # t
  <2>1. FamilyRows(f)' = FamilyRows(f)
    BY <1>3, <1>5 DEF Created, FamilyRows
  <2>2. \A x \in Tokens : Children(x)' = Children(x)
    BY <1>3 DEF Created, Children
  <2> QED
    BY <1>1, <2>1, <2>2, SameTips DEF SameFamily, FamilyRows
<1> QED
  BY <1>4, <1>5

\* A child moves the tip of an unforked family from its parent to itself.
LEMMA ChildTips ==
    ASSUME TipInv, NEW r \in Requests, pc[r] = "create", parent[r] # None,
           NEW t \in Tokens \ Existing, Created(t, NewToken(r, t)),
           NEW f \in Tokens, Linear(f)'
    PROVE  \A x, y \in Tips(f)' : x = y
<1>1. TreeInv /\ TypeOK /\ Existing \subseteq Tokens
  BY Rows DEF TipInv, ForkInv, TreeInv
<1> PICK p \in Existing : p = parent[r]
  BY <1>1, ParentExists DEF Refresh
<1>2. family[r] = token[p].family /\ family[r] # None
  <2>1. family[r] = token[p].family
    BY <1>1 DEF TreeInv, SessionKnows, Refresh
  <2> QED
    BY <1>1, <2>1 DEF TreeInv, FamilyKnown
<1>3. token'[t].parent = p /\ token'[t].family = token[p].family
  BY <1>1, <1>2, NewTokenRow DEF Created, FamilyOf
<1>4. /\ Children(p)' = Children(p) \cup {t}
      /\ \A x \in Existing : x # p => Children(x)' = Children(x)
  BY <1>3 DEF Created, Children
<1>5. CASE f # token[p].family
  <2>1. FamilyRows(f)' = FamilyRows(f)
    BY <1>3, <1>5 DEF Created, FamilyRows
  <2>2. \A x \in FamilyRows(f) : Children(x)' = Children(x)
    BY <1>4, <1>5 DEF FamilyRows
  <2> QED
    BY <2>1, <2>2, SameTips DEF SameFamily
<1>6. CASE f = token[p].family
  <2>1. FamilyRows(f)' = FamilyRows(f) \cup {t} /\ p \in FamilyRows(f)
    BY <1>2, <1>3, <1>6 DEF Created, FamilyRows
  <2>2. Children(p) = {}
    <3> SUFFICES ASSUME NEW x \in Children(p) PROVE FALSE
      OBVIOUS
    <3>1. x \in Children(p)' /\ t \in Children(p)' /\ x # t
      BY <1>4 DEF Children
    <3> QED
      BY <2>1, <3>1 DEF Linear
  <2>3. Linear(f)
    BY <1>4, <2>1, <2>2 DEF Linear, FamilyRows
  <2>4. p \in Tips(f) /\ \A x \in Tips(f) : x = p
    BY <2>1, <2>2, <2>3 DEF TipInv, Tips
  <2>5. ASSUME NEW x \in Tips(f)' PROVE x = t
    <3> SUFFICES ASSUME x # t PROVE FALSE
      OBVIOUS
    <3>1. x \in FamilyRows(f) /\ Children(x)' = {}
      BY <2>1, <2>5 DEF Tips
    <3>2. x # p /\ Children(x) = {}
      BY <1>4, <3>1 DEF FamilyRows
    <3> QED
      BY <2>4, <3>1, <3>2 DEF Tips
  <2> QED
    BY <2>5
<1> QED
  BY <1>5, <1>6

LEMMA StepTip == TipInv /\ [Next]_vars => TipInv'
<1> SUFFICES ASSUME TipInv, [Next]_vars, NEW f \in Tokens, Linear(f)'
             PROVE  \A x, y \in Tips(f)' : x = y
  BY StepFork DEF TipInv
<1>1. TypeOK
  BY DEF TipInv, ForkInv, TreeInv
<1>2. ASSUME Rewritten PROVE \A x, y \in Tips(f)' : x = y
  <2>1. SameFamily(f)
    BY <1>2 DEF Rewritten, RowKept, SameFamily, FamilyRows, Children
  <2> QED
    BY <2>1, SameTips
<1>3. ASSUME NEW r \in Requests, CreateRefreshTokenSession(r)
      PROVE  \A x, y \in Tips(f)' : x = y
  <2>1. PICK t \in Tokens \ Existing : Created(t, NewToken(r, t))
    BY <1>1, <1>3, CreateStep
  <2>2. pc[r] = "create"
    BY <1>3 DEF CreateRefreshTokenSession
  <2> QED
    BY <2>1, <2>2, NewFamilyTips, ChildTips
<1> QED
  BY <1>1, <1>2, <1>3, RowsWritten

LEMMA AtMostOne ==
    ASSUME NEW S, \A x, y \in S : x = y
    PROVE  Cardinality(S) <= 1
<1>1. CASE S = {}
  BY <1>1, FS_EmptySet
<1>2. ASSUME NEW x \in S PROVE Cardinality(S) = 1
  <2>1. S = {x}
    OBVIOUS
  <2> QED
    BY <2>1, FS_Singleton
<1> QED
  BY <1>1, <1>2

LEMMA NotTwo ==
    ASSUME NEW S, IsFiniteSet(S), ~(Cardinality(S) > 1), NEW x \in S, NEW y \in S
    PROVE  x = y
<1> SUFFICES ASSUME x # y PROVE FALSE
  OBVIOUS
<1>1. Cardinality({x, y}) = 2
  <2>1. Cardinality({x}) = 1 /\ IsFiniteSet({x})
    BY FS_Singleton
  <2>2. Cardinality({x} \cup {y}) = Cardinality({x}) + 1
    BY <2>1, FS_AddElement
  <2>3. {x} \cup {y} = {x, y}
    OBVIOUS
  <2> QED
    BY <2>1, <2>2, <2>3
<1>2. Cardinality({x, y}) <= Cardinality(S) /\ Cardinality(S) \in Nat
  <2>1. {x, y} \subseteq S
    OBVIOUS
  <2> QED
    BY <2>1, FS_Subset, FS_CardinalityType
<1> QED
  BY <1>1, <1>2

\* However requests overlap and fail, a family in which no token was rotated
\* twice has at most one live token.
THEOREM UnforkedFamilyHasOneLive == Spec => []OneLiveUnlessForked
<1>1. TipInv => OneLiveUnlessForked
  <2> SUFFICES ASSUME TipInv, NEW f \in Tokens, ~Forked(f)
               PROVE  Cardinality({t \in FamilyRows(f) : Live(t)}) <= 1
    BY DEF OneLiveUnlessForked
  <2>1. Linear(f)
    <3> SUFFICES ASSUME NEW t \in FamilyRows(f), NEW x \in Children(t), NEW y \in Children(t)
                 PROVE  x = y
      BY DEF Linear
    <3>1. IsFiniteSet(Children(t))
      BY DEF TipInv, ForkInv, FamilyRows, Existing
    <3>2. ~(Cardinality(Children(t)) > 1)
      BY DEF Forked
    <3> QED
      BY <3>1, <3>2, NotTwo
  <2>2. \A t \in FamilyRows(f) : Live(t) => t \in Tips(f)
    <3>1. TypeOK /\ FamilyTree /\ Existing \subseteq Tokens
      BY Rows DEF TipInv, ForkInv, TreeInv
    <3> QED
      BY <3>1 DEF FamilyTree, Live, Tips, FamilyRows, Children
  <2>3. \A x, y \in {t \in FamilyRows(f) : Live(t)} : x = y
    BY <2>1, <2>2 DEF TipInv
  <2> QED
    BY <2>3, AtMostOne
<1> QED
  BY <1>1, InitTip, StepTip, PTL DEF Spec

-------------------------------------------------------------------------------
(* Stranded families *)

LEMMA UnderwayMove ==
    ASSUME TreeInv, [Next]_vars, NEW f \in Tokens, Stranded(f)
    PROVE  Underway(f)' = {}
<1> DEFINE Stays(q) ==
        /\ ~(pc'[q] \in {"rotate", "create", "answer"} /\ family'[q] = f)
        /\ ~(pc'[q] = "answer" /\ token'[fresh'[q]].family = f)
<1>1. /\ TypeOK /\ \A q \in Requests : PointOK(q)
      /\ f \in Existing
  BY DEF TreeInv, TypeOK, Stranded, FamilyRows, FamilyKnown
<1>2. \A q \in Requests :
          /\ ~(pc[q] \in {"rotate", "create", "answer"} /\ family[q] = f)
          /\ ~(pc[q] = "answer" /\ token[fresh[q]].family = f)
  BY DEF Stranded, Underway
<1>3. ASSUME NEW q \in Requests, pc'[q] = pc[q], family'[q] = family[q], fresh'[q] = fresh[q]
      PROVE  Stays(q)
  <2>1. pc[q] = "answer" => token'[fresh[q]].family = token[fresh[q]].family
    BY <1>1, RowsKept DEF PointOK, RowKept
  <2> QED
    BY <1>2, <1>3, <2>1
<1>4. ASSUME NEW r \in Requests, OneMoves(r), Stays(r) PROVE Underway(f)' = {}
  <2>1. \A q \in Requests : Stays(q)
    BY <1>3, <1>4 DEF OneMoves
  <2> QED
    BY <2>1 DEF Underway
<1>5. ASSUME NEW r \in Requests, NEW u \in Users, StartFamily(r, u) \/ Withdraw(r, u)
      PROVE  Underway(f)' = {}
  <2>1. /\ OneMoves(r) /\ pc'[r] \in {"create", "committing"} /\ family'[r] = None
    BY <1>1, <1>5, Rows
    DEF StartFamily, Withdraw, SweptOf, Goto, OneMoves, TypeOK, PointOK, PCs
  <2> QED
    BY <1>4, <2>1
<1>6. ASSUME NEW r \in Requests, NEW t \in Tokens, GetRefreshTokenSession(r, t)
      PROVE  Underway(f)' = {}
  <2>1. t \in held /\ t \in Existing /\ token[t].user \in Users /\ token[t].family \in Tokens
    BY <1>1, <1>6, Rows, RowFields DEF GetRefreshTokenSession, TypeOK
  <2>2. OneMoves(r) /\ family'[r] = token[t].family
    BY <1>1, <1>6, <2>1 DEF GetRefreshTokenSession, Goto, OneMoves, TypeOK, PCs
  <2>3. pc'[r] = "revokeFamily" \/ (pc'[r] = "rotate" /\ ~token[t].revoked)
    BY <1>1, <1>6, <2>1 DEF GetRefreshTokenSession, Goto, TypeOK, Reused
  <2>4. token[t].family = f => token[t].revoked
    BY <2>1 DEF Stranded
  <2> QED
    BY <1>4, <2>2, <2>3, <2>4
<1>7. ASSUME NEW r \in Requests, RotateRefreshToken(r) PROVE Underway(f)' = {}
  <2>1. GoesOn(r, "create") /\ pc[r] = "rotate"
    BY <1>1, <1>7, RotateStep DEF RotateRefreshToken
  <2> QED
    BY <1>2, <1>4, <2>1 DEF GoesOn
<1>8. ASSUME NEW r \in Requests, CreateRefreshTokenSession(r) PROVE Underway(f)' = {}
  <2>1. pc[r] = "create" /\ family[r] # f
    BY <1>2, <1>8 DEF CreateRefreshTokenSession
  <2>2. PICK t \in Tokens \ Existing :
            /\ Created(t, NewToken(r, t)) /\ GoesOn(r, "answer") /\ fresh'[r] = t
    BY <1>1, <1>8, CreateStep
  <2>3. token'[t].family = FamilyOf(r, t)
    BY <1>1, <2>1, <2>2, NewTokenRow DEF Created
  <2>4. FamilyOf(r, t) # f
    BY <1>1, <2>1, <2>2 DEF FamilyOf
  <2> QED
    BY <1>4, <2>1, <2>2, <2>3, <2>4 DEF GoesOn
<1>9. ASSUME NEW r \in Requests, RevokeRefreshTokenFamily(r) PROVE Underway(f)' = {}
  BY <1>1, <1>4, <1>9, RevokeStep DEF GoesOn
<1>10. ASSUME NEW r \in Requests, Finish(r) PROVE Underway(f)' = {}
  BY <1>1, <1>4, <1>10, FinishEnds DEF Ends
<1>11. CASE UNCHANGED <<pc, family, fresh>>
  <2>1. \A q \in Requests : Stays(q)
    BY <1>3, <1>11
  <2> QED
    BY <2>1 DEF Underway
<1> QED
  BY <1>5, <1>6, <1>7, <1>8, <1>9, <1>10, <1>11
  DEF Next, vars, WriteAccessResponse, MarkRefreshTokenReuse, Commit, Fail, Expire

\* A client is answered by a request that is underway.
LEMMA HeldMoves ==
    ASSUME [Next]_vars
    PROVE  \/ held' = held
           \/ \E r \in Requests : pc[r] = "answer" /\ held' = held \cup {fresh[r]}
BY DEF Next, vars, StartFamily, Withdraw, GetRefreshTokenSession, RotateRefreshToken,
   CreateRefreshTokenSession, WriteAccessResponse, RevokeRefreshTokenFamily,
   MarkRefreshTokenReuse, Commit, Fail, Expire

LEMMA StrandedStays ==
    ASSUME TreeInv, [Next]_vars, NEW f \in Tokens, Stranded(f)
    PROVE  Stranded(f)' /\ FamilyRows(f)' = FamilyRows(f)
<1>1. TypeOK /\ held \subseteq Existing /\ \A q \in Requests : PointOK(q)
  BY DEF TreeInv, TypeOK
<1>2. FamilyRows(f) # {} /\ Refreshing(f) = {}
  BY DEF Stranded, Underway, Refreshing
<1>3. FamilyRows(f)' = FamilyRows(f) /\ \A t \in Existing : RowKept(t)
  BY <1>2, FamilyRowsMove
<1>4. ASSUME NEW t \in held', token'[t].family = f PROVE token'[t].revoked
  <2>1. CASE t \in held
    BY <1>1, <1>3, <1>4, <2>1 DEF Stranded, RowKept
  <2>2. ASSUME NEW r \in Requests, pc[r] = "answer", t = fresh[r] PROVE FALSE
    <3>1. token[t].family = f
      BY <1>1, <1>3, <1>4, <2>2 DEF PointOK, RowKept
    <3> QED
      BY <2>2, <3>1 DEF Stranded, Underway
  <2> QED
    BY <1>4, <2>1, <2>2, HeldMoves
<1> QED
  BY <1>2, <1>3, <1>4, UnderwayMove DEF Stranded

\* A client left without a live token gets none of the family again, and the
\* family gets no row, whatever is retried and whatever fails.
THEOREM StrandedFamiliesStaySealed == Spec => StrandedFamilySealed
<1> SUFFICES Spec => [][\A f \in Tokens :
                 Stranded(f) => Stranded(f)' /\ FamilyRows(f)' = FamilyRows(f)]_vars
  BY DEF StrandedFamilySealed
<1>1. TreeInv /\ [Next]_vars =>
          [\A f \in Tokens : Stranded(f) => Stranded(f)' /\ FamilyRows(f)' = FamilyRows(f)]_vars
  BY StrandedStays
<1> QED
  BY <1>1, InitTree, StepTree, PTL DEF Spec

-------------------------------------------------------------------------------
(* Withdrawal revokes the tokens stored before it *)

\* What a step that is not a commit does to open withdrawals.
LEMMA SweepsMove ==
    ASSUME TypeOK, [Next]_vars, NEW r \in Requests, pc'[r] = "committing"
    PROVE  \/ pc[r] = "committing" /\ sweep'[r] = sweep[r] /\ user'[r] = user[r]
           \/ sweep'[r] = SweptOf(user'[r])
<1> DEFINE Stays == pc[r] = "committing" /\ sweep'[r] = sweep[r] /\ user'[r] = user[r]
<1>1. ASSUME NEW q \in Requests, NEW next \in PCs, GoesOn(q, next), next # "committing"
      PROVE  Stays
  BY <1>1 DEF GoesOn, OneMoves
<1>2. ASSUME NEW q \in Requests, Finish(q) PROVE Stays
  BY <1>2, FinishEnds DEF Ends, OneMoves
<1>3. ASSUME NEW q \in Requests,
             \/ \E u \in Users : StartFamily(q, u)
             \/ \E t \in Tokens : GetRefreshTokenSession(q, t)
      PROVE  Stays
  BY <1>3 DEF StartFamily, GetRefreshTokenSession, Goto, TypeOK
<1>4. ASSUME NEW q \in Requests, NEW u \in Users, Withdraw(q, u)
      PROVE  Stays \/ sweep'[r] = SweptOf(user'[r])
  BY <1>4 DEF Withdraw, Goto, TypeOK
<1>5. ASSUME NEW q \in Requests,
             RotateRefreshToken(q) \/ CreateRefreshTokenSession(q) \/ RevokeRefreshTokenFamily(q)
      PROVE  Stays
  BY <1>1, <1>5, RotateStep, CreateStep, RevokeStep DEF PCs
<1>6. CASE UNCHANGED <<pc, sweep, user>>
  BY <1>6
<1> QED
  BY <1>2, <1>3, <1>4, <1>5, <1>6
  DEF Next, vars, WriteAccessResponse, MarkRefreshTokenReuse, Commit, Fail, Expire

\* Only a commit changes a status, and it revokes its sweep.
LEMMA StatusMoves ==
    ASSUME TypeOK, [Next]_vars, NEW u \in Users
    PROVE  \/ status'[u] = status[u]
           \/ \E r \in Requests : /\ pc[r] = "committing" /\ user[r] = u
                                  /\ \A t \in sweep[r] : token'[t].revoked
<1>1. ASSUME NEW r \in Requests, Commit(r)
      PROVE  \/ status'[u] = status[u]
             \/ /\ pc[r] = "committing" /\ user[r] = u
                /\ \A t \in sweep[r] : token'[t].revoked
  BY <1>1, CommitStep DEF Commit, TypeOK
<1>2. CASE UNCHANGED status
  BY <1>2
<1> QED
  BY <1>1, <1>2
  DEF Next, vars, StartFamily, Withdraw, GetRefreshTokenSession, RotateRefreshToken,
      CreateRefreshTokenSession, WriteAccessResponse, RevokeRefreshTokenFamily,
      MarkRefreshTokenReuse, Fail, Expire

LEMMA CaughtStays ==
    ASSUME TypeOK, [Next]_vars, NEW t \in Tokens, NEW u \in Users, Caught(t, u)
    PROVE  Caught(t, u)'
<1>1. t \in Existing /\ token[t].user = u /\ RowKept(t)
  BY RowsKept DEF Caught
<1>2. t \in Existing' /\ token'[t].user = u /\ (token[t].revoked => token'[t].revoked)
  BY <1>1 DEF RowKept
<1>3. CASE token'[t].revoked
  BY <1>2, <1>3 DEF Caught
<1>4. CASE ~token'[t].revoked
  <2>1. /\ ~token[t].revoked /\ status[u] = "active"
        /\ \A r \in Requests : pc[r] = "committing" /\ user[r] = u => t \in sweep[r]
    BY <1>2, <1>4 DEF Caught
  <2>2. status'[u] = "active"
    BY <1>4, <2>1, StatusMoves
  <2>3. ASSUME NEW r \in Requests, pc'[r] = "committing", user'[r] = u
        PROVE  t \in sweep'[r]
    <3>1. t \in SweptOf(u)
      BY <1>1, <2>1 DEF SweptOf
    <3> QED
      BY <2>1, <2>3, <3>1, SweepsMove
  <2> QED
    BY <1>2, <2>2, <2>3 DEF Caught
<1> QED
  BY <1>3, <1>4

\* A token within the reach of the withdrawals of its user stays there,
\* however requests interleave and fail.
THEOREM StoredTokensStayCaught == Spec => StoredTokensAreCaught
<1> SUFFICES Spec => [][\A t \in Tokens, u \in Users : Caught(t, u) => Caught(t, u)']_vars
  BY DEF StoredTokensAreCaught
<1>1. TypeOK /\ [Next]_vars =>
          [\A t \in Tokens, u \in Users : Caught(t, u) => Caught(t, u)']_vars
  BY CaughtStays
<1> QED
  BY <1>1, TokensTypeCorrect, PTL DEF Spec

\* A token stored while its user is active and no withdrawal of the user is
\* between its UPDATEs and its commit.
StoredBefore(t, u) ==
    /\ t \in Existing /\ token[t].user = u /\ status[u] = "active"
    /\ \A r \in Requests : ~(pc[r] = "committing" /\ user[r] = u)

\* Such a token is revoked whenever the user is withdrawn.
THEOREM WithdrawalRevokesEarlierTokens ==
    \A t \in Tokens, u \in Users :
        Spec => [](StoredBefore(t, u) => [](status[u] = "withdrawn" => ~Live(t)))
<1> SUFFICES ASSUME NEW t \in Tokens, NEW u \in Users
             PROVE  Spec => [](StoredBefore(t, u) => [](status[u] = "withdrawn" => ~Live(t)))
  OBVIOUS
<1>1. StoredBefore(t, u) => Caught(t, u)
  BY DEF StoredBefore, Caught
<1>2. TypeOK /\ Caught(t, u) /\ [Next]_vars => Caught(t, u)'
  BY CaughtStays
<1>3. Caught(t, u) => (status[u] = "withdrawn" => ~Live(t))
  BY DEF Caught, Live
<1> QED
  BY <1>1, <1>2, <1>3, TokensTypeCorrect, PTL DEF Spec
===============================================================================
