--------------------------- MODULE CodeStore_proofs ---------------------------
(***************************************************************************)
(* Theorems about CodeStore, for any number of requests and codes, any     *)
(* lifespan, and any composition of the library's handlers.                *)
(***************************************************************************)
EXTENDS CodeStore, FiniteSetTheorems, TLAPS

USE HandlersAssumption, TimeAssumption, NoneAssumption, NoRowAssumption

-------------------------------------------------------------------------------
(* Type correctness *)

\* The two hashes of a code are no hash of another.
LEMMA HashesDiffer ==
    /\ \A c \in Codes : Sig(c) \in Hashes /\ Full(c) \in Hashes
    /\ \A c, d \in Codes : Sig(c) # Full(d)
    /\ \A c, d \in Codes : Sig(c) = Sig(d) => c = d
    /\ \A c, d \in Codes : Full(c) = Full(d) => c = d
BY DEF Hashes, Sig, Full

\* A row under h that no step deletes.
RowKept(h) ==
    /\ row[h] # None => row'[h] # None
    /\ row[h] # None /\ row[h].used => row'[h].used

\* What the three store methods may do: nothing, insert one unused row under
\* a new hash, or mark a row as used.
Inserted(h) ==
    /\ row[h] = None
    /\ row'[h] # None /\ ~row'[h].used
    /\ \A g \in Hashes \ {h} : row'[g] = row[g]
Spent(h) ==
    /\ Usable(h)
    /\ row'[h] # None /\ row'[h].used
    /\ \A g \in Hashes \ {h} : row'[g] = row[g]

LEMMA NewRow ==
    ASSUME NEW f \in Form
    PROVE  [expires |-> f.expires, used |-> FALSE, challenge |-> f.challenge] \in Row
BY DEF Row, Form

LEMMA FormsAreForms == TypeOK => Forms \subseteq Form
BY DEF TypeOK, Forms, Form

LEMMA CreateSessionStores ==
    ASSUME TypeOK, NEW r \in Requests, NEW h \in Hashes, NEW next \in PCs,
           form[r] \in Form, CreateSession(r, h, next)
    PROVE  /\ row' \in [Hashes -> Row \cup {None}]
           /\ \/ Inserted(h) /\ Goto(r, next)
              \/ UNCHANGED row /\ Finish(r)
<1> DEFINE new == [expires |-> form[r].expires, used |-> FALSE, challenge |-> form[r].challenge]
<1>1. new \in Row /\ new # None /\ ~new.used
  BY NewRow
<1>2. CASE SubjectSet /\ row[h] = None
  <2>1. row' = [row EXCEPT ![h] = new] /\ Goto(r, next)
    BY <1>2 DEF CreateSession
  <2> HIDE DEF new
  <2> QED
    BY <1>1, <1>2, <2>1 DEF Inserted, TypeOK
<1>3. CASE ~(SubjectSet /\ row[h] = None)
  BY <1>3 DEF CreateSession, TypeOK
<1> QED
  BY <1>2, <1>3

LEMMA UseCodeSpends ==
    ASSUME TypeOK, NEW r \in Requests, NEW h \in Hashes, NEW next \in PCs,
           UseCode(r, h, next)
    PROVE  /\ row' \in [Hashes -> Row \cup {None}]
           /\ \/ Spent(h) /\ Goto(r, next)
              \/ UNCHANGED row /\ Finish(r)
<1>1. CASE Usable(h)
  <2> DEFINE new == [row[h] EXCEPT !.used = TRUE]
  <2>1. row[h] \in Row
    BY <1>1 DEF Usable, TypeOK
  <2>2. new \in Row /\ new.used
    BY <2>1 DEF Row
  <2>3. row' = [row EXCEPT ![h] = new] /\ Goto(r, next)
    BY <1>1 DEF UseCode
  <2> HIDE DEF new
  <2> QED
    BY <1>1, <2>2, <2>3 DEF Spent, TypeOK
<1>2. CASE ~Usable(h)
  BY <1>2 DEF UseCode, TypeOK
<1> QED
  BY <1>1, <1>2

LEMMA RowsKept ==
    ASSUME TypeOK, NEW h \in Hashes, UNCHANGED row \/ Inserted(h) \/ Spent(h)
    PROVE  \A g \in Hashes : RowKept(g)
BY DEF RowKept, Inserted, Spent

\* One request moves, and the others keep what they know.
OneMoves(r) ==
    /\ pc' \in [Requests -> PCs]
    /\ code' \in [Requests -> Codes \cup {None}]
    /\ form' \in [Requests -> Form \cup {None}]
    /\ \A q \in Requests \ {r} : pc'[q] = pc[q] /\ code'[q] = code[q] /\ form'[q] = form[q]

LEMMA GotoMoves ==
    ASSUME TypeOK, NEW r \in Requests, NEW next \in PCs, Goto(r, next)
    PROVE  OneMoves(r) /\ pc'[r] = next /\ code'[r] = code[r] /\ form'[r] = form[r]
BY DEF TypeOK, Goto, OneMoves

LEMMA FinishMoves ==
    ASSUME TypeOK, NEW r \in Requests, Finish(r)
    PROVE  OneMoves(r) /\ pc'[r] = "idle" /\ code'[r] = None /\ form'[r] = None
BY DEF TypeOK, Finish, OneMoves, PCs

LEMMA MoveType ==
    ASSUME TypeOK, NEW r \in Requests, OneMoves(r), PointOK(r)',
           row' \in [Hashes -> Row \cup {None}], \A h \in Hashes : RowKept(h),
           now' \in 0 .. MaxTime, granted' \in [Codes -> Nat],
           issued \subseteq issued', issued' \subseteq {c \in Codes : row'[Sig(c)] # None}
    PROVE  TypeOK'
<1>1. ASSUME NEW q \in Requests PROVE PointOK(q)'
  <2>1. CASE q = r
    BY <2>1
  <2>2. CASE q # r
    <3>1. pc'[q] = pc[q] /\ code'[q] = code[q] /\ form'[q] = form[q] /\ PointOK(q)
      BY <2>2 DEF OneMoves, TypeOK
    <3>2. code[q] \in Codes /\ row[Sig(code[q])] # None => row'[Sig(code[q])] # None
      BY HashesDiffer DEF RowKept
    <3> QED
      BY <3>1, <3>2 DEF PointOK, Authorizing
  <2> QED
    BY <2>1, <2>2
<1> QED
  BY <1>1 DEF TypeOK, OneMoves

LEMMA InitType == Init => TypeOK
BY DEF Init, TypeOK, PCs, PointOK, Authorizing

\* A step that ends the request, or takes it to the next point of its way,
\* and writes no more than one row.
LEMMA StoreStepType ==
    ASSUME TypeOK, NEW r \in Requests, NEW next \in PCs, Finish(r) \/ Goto(r, next),
           row' \in [Hashes -> Row \cup {None}], \A h \in Hashes : RowKept(h),
           UNCHANGED <<now, issued, granted>>,
           pc'[r] = next => PointOK(r)'
    PROVE  TypeOK'
<1>1. OneMoves(r) /\ pc'[r] \in {next, "idle"}
  BY GotoMoves, FinishMoves
<1>2. PointOK(r)'
  BY <1>1 DEF PointOK, Authorizing
<1>3. issued \subseteq {c \in Codes : row'[Sig(c)] # None}
  BY HashesDiffer DEF TypeOK, RowKept
<1>4. now' \in 0 .. MaxTime /\ granted' \in [Codes -> Nat]
  BY DEF TypeOK
<1> QED
  BY <1>1, <1>2, <1>3, <1>4, MoveType

LEMMA SameRows == TypeOK /\ UNCHANGED row => row' \in [Hashes -> Row \cup {None}] /\ \A h \in Hashes : RowKept(h)
BY DEF TypeOK, RowKept

\* The points of /authorize.
LEMMA AuthorizeStepType ==
    ASSUME TypeOK, NEW r \in Requests,
           \/ CreateAuthorizeCodeSession(r) \/ CreateOpenIDConnectSession(r)
           \/ CreatePKCERequestSession(r)
    PROVE  TypeOK'
<1>1. code[r] \in Codes /\ form[r] \in Form /\ Sig(code[r]) \in Hashes /\ Full(code[r]) \in Hashes
  BY HashesDiffer
  DEF TypeOK, PointOK, Authorizing, CreateAuthorizeCodeSession,
      CreateOpenIDConnectSession, CreatePKCERequestSession
<1>2. UNCHANGED <<now, issued, granted>>
  BY DEF CreateAuthorizeCodeSession, CreateOpenIDConnectSession, CreatePKCERequestSession
<1>3. ASSUME NEW h \in Hashes, NEW next \in {"createOpenID", "createPKCE", "redirect"},
             CreateSession(r, h, next), h = Sig(code[r]) \/ row[Sig(code[r])] # None
      PROVE  TypeOK'
  <2>1. next \in PCs /\ next # "idle"
    BY DEF PCs
  <2>2. \/ Inserted(h) /\ Goto(r, next)
        \/ UNCHANGED row /\ Finish(r)
    BY <1>1, <1>3, <2>1, CreateSessionStores
  <2>3. row' \in [Hashes -> Row \cup {None}] /\ \A g \in Hashes : RowKept(g)
    BY <1>1, <1>3, <2>1, <2>2, CreateSessionStores, RowsKept
  <2>4. ASSUME pc'[r] = next PROVE PointOK(r)'
    <3>1. Inserted(h) /\ code'[r] = code[r] /\ form'[r] = form[r]
      BY <2>1, <2>2, <2>4, GotoMoves, FinishMoves
    <3>2. row'[Sig(code[r])] # None
      BY <1>1, <1>3, <2>3, <3>1 DEF Inserted, RowKept
    <3> QED
      BY <1>1, <2>4, <3>1, <3>2 DEF PointOK, Authorizing
  <2> QED
    BY <1>2, <2>1, <2>2, <2>3, <2>4, StoreStepType
<1>4. ASSUME NEW next \in {"createPKCE", "redirect"}, Goto(r, next), UNCHANGED row,
             row[Sig(code[r])] # None
      PROVE  TypeOK'
  <2>1. next \in PCs
    BY DEF PCs
  <2>2. pc'[r] = next /\ code'[r] = code[r] /\ form'[r] = form[r]
    BY <1>4, <2>1, GotoMoves
  <2>3. PointOK(r)'
    BY <1>1, <1>4, <2>2 DEF PointOK, Authorizing
  <2> QED
    BY <1>2, <1>4, <2>1, <2>3, SameRows, StoreStepType
<1>5. CASE CreateAuthorizeCodeSession(r)
  BY <1>1, <1>3, <1>5 DEF CreateAuthorizeCodeSession
<1>6. CASE CreateOpenIDConnectSession(r)
  <2>1. row[Sig(code[r])] # None
    BY <1>6 DEF CreateOpenIDConnectSession, TypeOK, PointOK
  <2> QED
    BY <1>1, <1>3, <1>4, <1>6, <2>1 DEF CreateOpenIDConnectSession
<1>7. CASE CreatePKCERequestSession(r)
  <2>1. row[Sig(code[r])] # None
    BY <1>7 DEF CreatePKCERequestSession, TypeOK, PointOK
  <2> QED
    BY <1>1, <1>3, <1>4, <1>7, <2>1 DEF CreatePKCERequestSession
<1> QED
  BY <1>5, <1>6, <1>7

\* The points of /token, which keep a code that was issued.
Exchanging ==
    {"checkCode", "checkPKCE", "deletePKCE", "getCode", "invalidate", "grant",
     "getOpenID", "deleteOpenID", "answer"}

LEMMA ExchangeMoves ==
    ASSUME TypeOK, NEW r \in Requests, pc[r] \in Exchanging,
           NEW next \in Exchanging, Goto(r, next)
    PROVE  /\ OneMoves(r) /\ pc'[r] = next /\ code'[r] = code[r]
           /\ code[r] \in Codes /\ code[r] \in issued
           /\ issued' = issued => PointOK(r)'
<1>1. next \in PCs
  BY DEF Exchanging, PCs
<1>2. OneMoves(r) /\ pc'[r] = next /\ code'[r] = code[r]
  BY <1>1, GotoMoves
<1>3. code[r] \in Codes /\ code[r] \in issued
  BY DEF TypeOK, PointOK, Authorizing, Exchanging
<1> QED
  BY <1>2, <1>3 DEF PointOK, Authorizing, Exchanging

LEMMA ExchangeStepType ==
    ASSUME TypeOK, NEW r \in Requests,
           \/ CheckCode(r) \/ GetPKCERequestSession(r) \/ DeletePKCERequestSession(r)
           \/ GetAuthorizeCodeSession(r) \/ InvalidateAuthorizeCodeSession(r)
           \/ GetOpenIDConnectSession(r) \/ DeleteOpenIDConnectSession(r)
    PROVE  TypeOK'
<1> USE DEF CheckCode, GetPKCERequestSession, DeletePKCERequestSession,
        GetAuthorizeCodeSession, InvalidateAuthorizeCodeSession,
        GetOpenIDConnectSession, DeleteOpenIDConnectSession
<1>1. /\ pc[r] \in Exchanging /\ code[r] \in Codes
      /\ Sig(code[r]) \in Hashes /\ Full(code[r]) \in Hashes
  BY HashesDiffer DEF TypeOK, PointOK, Authorizing, Exchanging
<1>2. UNCHANGED <<now, issued, granted>>
  OBVIOUS
<1>3. ASSUME NEW h \in Hashes, NEW next \in Exchanging,
             \/ UseCode(r, h, next) \/ GetSession(r, h, next)
             \/ Goto(r, next) /\ UNCHANGED row
      PROVE  TypeOK'
  <2>1. next \in PCs /\ next # "idle"
    BY DEF PCs, Exchanging
  <2>2. /\ Finish(r) \/ Goto(r, next)
        /\ row' \in [Hashes -> Row \cup {None}] /\ \A g \in Hashes : RowKept(g)
    BY <1>3, <2>1, UseCodeSpends, RowsKept, SameRows DEF GetSession
  <2>3. pc'[r] = next => PointOK(r)'
    BY <1>1, <1>2, <2>1, <2>2, ExchangeMoves, FinishMoves
  <2> QED
    BY <1>2, <2>1, <2>2, <2>3, StoreStepType
<1>4. \E h \in Hashes, next \in Exchanging :
          \/ UseCode(r, h, next) \/ GetSession(r, h, next)
          \/ Goto(r, next) /\ UNCHANGED row
  BY <1>1 DEF Exchanging
<1> QED
  BY <1>3, <1>4

LEMMA StepType == TypeOK /\ [Next]_vars => TypeOK'
<1> SUFFICES ASSUME TypeOK, [Next]_vars PROVE TypeOK'
  OBVIOUS
<1>1. ASSUME NEW r \in Requests, NEW c \in Codes, NEW f \in Forms, Authorize(r, c, f)
      PROVE  TypeOK'
  BY <1>1, FormsAreForms DEF Authorize, TypeOK, PointOK, Authorizing, PCs
<1>2. ASSUME NEW r \in Requests, NEW c \in Codes, Token(r, c) PROVE TypeOK'
  BY <1>2 DEF Token, TypeOK, PointOK, Authorizing, PCs
<1>3. ASSUME NEW r \in Requests, WriteAuthorizeResponse(r) PROVE TypeOK'
  <2>1. code[r] \in Codes /\ row[Sig(code[r])] # None /\ Finish(r)
    BY <1>3 DEF WriteAuthorizeResponse, TypeOK, PointOK
  <2>2. OneMoves(r) /\ PointOK(r)'
    BY <2>1, FinishMoves DEF PointOK, Authorizing
  <2> QED
    BY <1>3, <2>1, <2>2, SameRows, MoveType DEF WriteAuthorizeResponse, TypeOK
<1>4. ASSUME NEW r \in Requests, GrantTokens(r) PROVE TypeOK'
  <2>1. pc[r] \in Exchanging /\ "getOpenID" \in Exchanging /\ Goto(r, "getOpenID")
    BY <1>4 DEF GrantTokens, Exchanging
  <2>2. OneMoves(r) /\ PointOK(r)' /\ code[r] \in Codes
    BY <1>4, <2>1, ExchangeMoves DEF GrantTokens
  <2>3. granted' \in [Codes -> Nat]
    BY <1>4, <2>2 DEF GrantTokens, TypeOK
  <2> QED
    BY <1>4, <2>2, <2>3, SameRows, MoveType DEF GrantTokens, TypeOK
<1>5. ASSUME NEW r \in Requests, WriteAccessResponse(r) \/ Fail(r) PROVE TypeOK'
  <2>1. Finish(r) /\ UNCHANGED <<row, now, issued, granted>>
    BY <1>5 DEF WriteAccessResponse, Fail
  <2>2. OneMoves(r) /\ PointOK(r)'
    BY <2>1, FinishMoves DEF PointOK, Authorizing
  <2> QED
    BY <2>1, <2>2, SameRows, MoveType DEF TypeOK
<1>6. CASE Tick
  BY <1>6 DEF Tick, TypeOK, PointOK, Authorizing
<1>7. CASE UNCHANGED vars
  BY <1>7 DEF vars, TypeOK, PointOK, Authorizing
<1> QED
  BY <1>1, <1>2, <1>3, <1>4, <1>5, <1>6, <1>7, AuthorizeStepType, ExchangeStepType
  DEF Next, Advance

\* A request in progress works on a code that exists, and every code that a
\* client was sent, or presents, has its row in the store.
THEOREM CodesTypeCorrect == Spec => []TypeOK
BY InitType, StepType, PTL DEF Spec

-------------------------------------------------------------------------------
(* One exchange of a code spends it *)

Granting == {"getOpenID", "deleteOpenID", "answer"}

\* What an exchange past the spending of its code knows: the code is used, and
\* it has its tokens exactly if this exchange made them.
SpenderKnows(r) ==
    pc[r] \in PastSpending =>
        /\ row[Sig(code[r])].used
        /\ granted[code[r]] = IF pc[r] \in Granting THEN 1 ELSE 0

SpenderAlone ==
    \A r, q \in Requests :
        pc[r] \in PastSpending /\ pc[q] \in PastSpending /\ code[r] = code[q] => r = q

\* A code that was traded for tokens was traded once, and is used.
GrantedOnce(c) ==
    \/ granted[c] = 0
    \/ granted[c] = 1 /\ row[Sig(c)] # None /\ row[Sig(c)].used

OpenIDSpent(c) == row[Full(c)] # None /\ row[Full(c)].used

SpendInv ==
    /\ TypeOK
    /\ \A r \in Requests : SpenderKnows(r)
    /\ SpenderAlone
    /\ \A c \in Codes : GrantedOnce(c)
    /\ OpenIDAfterGrant

LEMMA InitSpend == Init => SpendInv
BY InitType, HashesDiffer
DEF Init, SpendInv, SpenderKnows, SpenderAlone, GrantedOnce, OpenIDAfterGrant, PastSpending

LEMMA SpendersPoints == PastSpending \subseteq Exchanging /\ Granting \subseteq PastSpending
BY DEF PastSpending, Exchanging, Granting

\* A request past the spending of its code presents a code that has a row.
LEMMA SpendersCode ==
    ASSUME TypeOK, NEW r \in Requests, pc[r] \in PastSpending
    PROVE  code[r] \in Codes /\ Sig(code[r]) \in Hashes /\ row[Sig(code[r])] # None
BY HashesDiffer, SpendersPoints DEF TypeOK, PointOK, Authorizing, Exchanging

\* The moves of a request that grant nothing: it ends or has spent nothing,
\* goes on past the spending, or spends its code now, when nobody had.
LEMMA MoveSpend ==
    ASSUME SpendInv, TypeOK', NEW r \in Requests, OneMoves(r),
           \A h \in Hashes : RowKept(h), UNCHANGED granted,
           \A c \in Codes : OpenIDSpent(c)' => OpenIDSpent(c) \/ granted[c] = 1,
           \/ pc'[r] \notin PastSpending
           \/ /\ pc[r] \in PastSpending /\ code'[r] = code[r]
              /\ pc[r] \in Granting <=> pc'[r] \in Granting
           \/ /\ code[r] \in Codes /\ code'[r] = code[r] /\ Spent(Sig(code[r]))
              /\ pc'[r] \notin Granting
    PROVE  SpendInv'
<1>1. ASSUME NEW q \in Requests, q # r
      PROVE  pc'[q] = pc[q] /\ code'[q] = code[q] /\ SpenderKnows(q)'
  <2>1. pc'[q] = pc[q] /\ code'[q] = code[q] /\ SpenderKnows(q)
    BY <1>1 DEF OneMoves, SpendInv
  <2>2. pc[q] \in PastSpending => row'[Sig(code[q])].used
    BY <2>1, SpendersCode DEF SpenderKnows, RowKept, SpendInv
  <2> QED
    BY <2>1, <2>2 DEF SpenderKnows, PastSpending, Granting
<1>2. \A c \in Codes : GrantedOnce(c)'
  BY HashesDiffer DEF SpendInv, GrantedOnce, RowKept
<1>3. OpenIDAfterGrant'
  BY DEF SpendInv, OpenIDAfterGrant, OpenIDSpent
<1>4. PastSpending' = PastSpending
  BY DEF PastSpending
<1>5. CASE pc'[r] \notin PastSpending
  <2>1. SpenderKnows(r)'
    BY <1>4, <1>5 DEF SpenderKnows
  <2>2. SpenderAlone'
    BY <1>1, <1>4, <1>5 DEF SpenderAlone, SpendInv
  <2> QED
    BY <1>1, <1>2, <1>3, <2>1, <2>2 DEF SpendInv
<1>6. CASE /\ pc[r] \in PastSpending /\ code'[r] = code[r]
           /\ pc[r] \in Granting <=> pc'[r] \in Granting
  <2>1. row'[Sig(code[r])].used
    BY <1>6, SpendersCode DEF SpenderKnows, RowKept, SpendInv
  <2>2. SpenderKnows(r)'
    BY <1>6, <2>1 DEF SpenderKnows, SpendInv
  <2>3. SpenderAlone'
    BY <1>1, <1>4, <1>6 DEF SpenderAlone, SpendInv
  <2> QED
    BY <1>1, <1>2, <1>3, <2>2, <2>3 DEF SpendInv
<1>7. CASE /\ code[r] \in Codes /\ code'[r] = code[r] /\ Spent(Sig(code[r]))
           /\ pc'[r] \notin Granting
  <2>1. ~row[Sig(code[r])].used /\ row'[Sig(code[r])].used
    BY <1>7 DEF Spent, Usable
  <2>2. granted[code[r]] = 0
    BY <1>7, <2>1 DEF SpendInv, GrantedOnce
  <2>3. SpenderKnows(r)'
    BY <1>7, <2>1, <2>2 DEF SpenderKnows
  <2>4. \A q \in Requests : pc[q] \in PastSpending => code[q] # code[r]
    BY <2>1 DEF SpendInv, SpenderKnows
  <2>5. SpenderAlone'
    BY <1>1, <1>4, <1>7, <2>4 DEF SpenderAlone, SpendInv
  <2> QED
    BY <1>1, <1>2, <1>3, <2>3, <2>5 DEF SpendInv
<1> QED
  BY <1>5, <1>6, <1>7

\* The tokens are made by the one exchange that spent the code, which made none.
LEMMA GrantSpend ==
    ASSUME SpendInv, TypeOK', NEW r \in Requests, GrantTokens(r)
    PROVE  /\ code[r] \in Codes /\ row[Sig(code[r])] # None /\ row[Sig(code[r])].used
           /\ granted[code[r]] = 0 /\ granted' = [granted EXCEPT ![code[r]] = 1]
           /\ SpendInv'
<1>1. pc[r] = "grant" /\ pc[r] \in PastSpending /\ pc[r] \notin Granting
  BY DEF GrantTokens, PastSpending, Granting
<1>2. code[r] \in Codes /\ row[Sig(code[r])] # None /\ row[Sig(code[r])].used
  BY <1>1, SpendersCode DEF SpendInv, SpenderKnows
<1>3. granted[code[r]] = 0
  BY <1>1 DEF SpendInv, SpenderKnows
<1>4. granted' = [granted EXCEPT ![code[r]] = 1]
  BY <1>3 DEF GrantTokens
<1>5. OneMoves(r) /\ pc'[r] = "getOpenID" /\ code'[r] = code[r] /\ UNCHANGED row
  BY GotoMoves DEF GrantTokens, SpendInv, PCs
<1>6. /\ granted'[code[r]] = 1
      /\ \A c \in Codes : c # code[r] => granted'[c] = granted[c]
  BY <1>2, <1>4 DEF SpendInv, TypeOK
<1>7. \A q \in Requests : SpenderKnows(q)'
  <2>1. SpenderKnows(r)'
    BY <1>2, <1>5, <1>6 DEF SpenderKnows, Granting
  <2>2. ASSUME NEW q \in Requests, q # r PROVE SpenderKnows(q)'
    <3>1. pc'[q] = pc[q] /\ code'[q] = code[q] /\ SpenderKnows(q)
      BY <1>5, <2>2 DEF OneMoves, SpendInv
    <3>2. pc[q] \in PastSpending => code[q] \in Codes /\ code[q] # code[r]
      BY <1>1, <2>2, SpendersCode DEF SpendInv, SpenderAlone
    <3> QED
      BY <1>5, <1>6, <3>1, <3>2 DEF SpenderKnows, PastSpending, Granting
  <2> QED
    BY <2>1, <2>2
<1>8. SpenderAlone'
  BY <1>1, <1>5 DEF SpendInv, SpenderAlone, OneMoves, PastSpending
<1>9. \A c \in Codes : GrantedOnce(c)'
  BY <1>2, <1>5, <1>6 DEF SpendInv, GrantedOnce
<1>10. OpenIDAfterGrant'
  BY <1>5, <1>6 DEF SpendInv, OpenIDAfterGrant
<1> QED
  BY <1>2, <1>3, <1>4, <1>7, <1>8, <1>9, <1>10 DEF SpendInv

\* A row inserted, or spent under a signature, is no OpenID session spent.
LEMMA OpenIDKept ==
    ASSUME TypeOK,
           \/ UNCHANGED row
           \/ \E h \in Hashes : Inserted(h)
           \/ \E c \in Codes : Spent(Sig(c))
    PROVE  \A c \in Codes : OpenIDSpent(c)' => OpenIDSpent(c)
<1>1. CASE UNCHANGED row
  BY <1>1 DEF OpenIDSpent
<1>2. ASSUME NEW h \in Hashes, Inserted(h)
      PROVE  \A c \in Codes : OpenIDSpent(c)' => OpenIDSpent(c)
  BY <1>2, HashesDiffer DEF OpenIDSpent, Inserted
<1>3. ASSUME NEW d \in Codes, Spent(Sig(d))
      PROVE  \A c \in Codes : OpenIDSpent(c)' => OpenIDSpent(c)
  BY <1>3, HashesDiffer DEF OpenIDSpent, Spent
<1> QED
  BY <1>1, <1>2, <1>3

\* A step that ends the request or takes it to a point before the spending.
LEMMA BeforeSpend ==
    ASSUME SpendInv, TypeOK', NEW r \in Requests, OneMoves(r), UNCHANGED granted,
           pc'[r] \notin PastSpending,
           \/ UNCHANGED row
           \/ \E h \in Hashes : Inserted(h)
           \/ \E c \in Codes : Spent(Sig(c))
    PROVE  SpendInv'
<1>1. \A c \in Codes : Sig(c) \in Hashes
  BY HashesDiffer
<1>2. \A g \in Hashes : RowKept(g)
  BY <1>1, SameRows, RowsKept DEF SpendInv
<1>3. \A c \in Codes : OpenIDSpent(c)' => OpenIDSpent(c)
  BY OpenIDKept DEF SpendInv
<1> QED
  BY <1>2, <1>3, MoveSpend

\* The requests to /authorize, and a token request that begins.
LEMMA AuthorizeSpend ==
    ASSUME SpendInv, TypeOK', NEW r \in Requests,
           \/ \E c \in Codes, f \in Forms : Authorize(r, c, f)
           \/ \E c \in Codes : Token(r, c)
           \/ CreateAuthorizeCodeSession(r) \/ CreateOpenIDConnectSession(r)
           \/ CreatePKCERequestSession(r) \/ WriteAuthorizeResponse(r)
           \/ WriteAccessResponse(r) \/ Fail(r)
    PROVE  SpendInv'
<1> DEFINE Before == {"idle", "createCode", "createOpenID", "createPKCE", "redirect", "checkCode"}
<1>1. Before \subseteq PCs /\ Before \cap PastSpending = {} /\ TypeOK
  BY DEF PCs, PastSpending, SpendInv
<1>2. UNCHANGED granted
  BY DEF Authorize, Token, CreateAuthorizeCodeSession, CreateOpenIDConnectSession,
     CreatePKCERequestSession, WriteAuthorizeResponse, WriteAccessResponse, Fail
<1>3. ASSUME Finish(r), UNCHANGED row PROVE SpendInv'
  BY <1>1, <1>2, <1>3, FinishMoves, BeforeSpend
<1>4. ASSUME NEW next \in Before, Goto(r, next), UNCHANGED row PROVE SpendInv'
  BY <1>1, <1>2, <1>4, GotoMoves, BeforeSpend
<1>5. ASSUME NEW h \in Hashes, NEW next \in Before, CreateSession(r, h, next), form[r] \in Form
      PROVE  SpendInv'
  <2>1. \/ Inserted(h) /\ Goto(r, next)
        \/ UNCHANGED row /\ Finish(r)
    BY <1>1, <1>5, CreateSessionStores
  <2>2. CASE Inserted(h) /\ Goto(r, next)
    BY <1>1, <1>2, <2>2, GotoMoves, BeforeSpend
  <2> QED
    BY <1>3, <2>1, <2>2
<1>6. CASE \/ CreateAuthorizeCodeSession(r) \/ CreateOpenIDConnectSession(r)
           \/ CreatePKCERequestSession(r)
  <2> USE <1>6 DEF CreateAuthorizeCodeSession, CreateOpenIDConnectSession, CreatePKCERequestSession
  <2>1. form[r] \in Form /\ Sig(code[r]) \in Hashes /\ Full(code[r]) \in Hashes
    BY <1>1, HashesDiffer DEF TypeOK, PointOK, Authorizing
  <2>2. \E next \in Before :
            \/ Goto(r, next) /\ UNCHANGED row
            \/ \E h \in Hashes : CreateSession(r, h, next)
    BY <2>1
  <2> QED
    BY <1>4, <1>5, <2>1, <2>2
<1>7. CASE \/ \E c \in Codes, f \in Forms : Authorize(r, c, f)
           \/ \E c \in Codes : Token(r, c)
  <2>1. OneMoves(r) /\ pc'[r] \in Before /\ UNCHANGED row
    BY <1>1, <1>7, FormsAreForms DEF Authorize, Token, TypeOK, OneMoves, PCs
  <2> QED
    BY <1>1, <1>2, <2>1, BeforeSpend
<1> QED
  BY <1>3, <1>6, <1>7 DEF WriteAuthorizeResponse, WriteAccessResponse, Fail

\* The exchange, up to the tokens.
LEMMA ExchangeSpend ==
    ASSUME SpendInv, TypeOK', NEW r \in Requests,
           \/ CheckCode(r) \/ GetPKCERequestSession(r) \/ DeletePKCERequestSession(r)
           \/ GetAuthorizeCodeSession(r) \/ InvalidateAuthorizeCodeSession(r)
           \/ GetOpenIDConnectSession(r) \/ DeleteOpenIDConnectSession(r)
    PROVE  SpendInv'
<1> USE DEF CheckCode, GetPKCERequestSession, DeletePKCERequestSession,
        GetAuthorizeCodeSession, InvalidateAuthorizeCodeSession,
        GetOpenIDConnectSession, DeleteOpenIDConnectSession
<1>1. /\ code[r] \in Codes /\ Sig(code[r]) \in Hashes /\ Full(code[r]) \in Hashes
      /\ TypeOK /\ UNCHANGED granted
  BY HashesDiffer DEF SpendInv, TypeOK, PointOK, Authorizing
<1>2. ASSUME Finish(r), UNCHANGED row PROVE SpendInv'
  BY <1>1, <1>2, FinishMoves, BeforeSpend DEF PastSpending
<1>3. ASSUME NEW next \in PCs, Goto(r, next), UNCHANGED row,
             \/ next \notin PastSpending
             \/ pc[r] \in PastSpending /\ (pc[r] \in Granting <=> next \in Granting)
      PROVE  SpendInv'
  <2>1. OneMoves(r) /\ pc'[r] = next /\ code'[r] = code[r]
    BY <1>1, <1>3, GotoMoves
  <2>2. \A c \in Codes : OpenIDSpent(c)' => OpenIDSpent(c)
    BY <1>1, <1>3, OpenIDKept
  <2> QED
    BY <1>1, <1>3, <2>1, <2>2, SameRows, MoveSpend
<1>4. ASSUME NEW next \in PCs \ Granting, UseCode(r, Sig(code[r]), next) PROVE SpendInv'
  <2>1. CASE Spent(Sig(code[r])) /\ Goto(r, next)
    <3>1. OneMoves(r) /\ pc'[r] = next /\ code'[r] = code[r]
      BY <1>1, <2>1, GotoMoves
    <3>2. \A h \in Hashes : RowKept(h)
      BY <1>1, <2>1, RowsKept
    <3>3. \A c \in Codes : OpenIDSpent(c)' => OpenIDSpent(c)
      BY <1>1, <2>1, OpenIDKept
    <3> QED
      BY <1>1, <1>4, <2>1, <3>1, <3>2, <3>3, MoveSpend
  <2> QED
    BY <1>1, <1>2, <1>4, <2>1, UseCodeSpends
<1>5. CASE CheckCode(r)
  BY <1>2, <1>3, <1>5 DEF GetSession, PCs, PastSpending
<1>6. CASE GetPKCERequestSession(r)
  BY <1>2, <1>3, <1>6 DEF GetSession, PCs, PastSpending
<1>7. CASE GetAuthorizeCodeSession(r)
  BY <1>2, <1>3, <1>7 DEF GetSession, PCs, PastSpending, Granting
<1>8. CASE DeletePKCERequestSession(r) \/ InvalidateAuthorizeCodeSession(r)
  BY <1>4, <1>8 DEF PCs, Granting
<1>9. CASE GetOpenIDConnectSession(r)
  BY <1>2, <1>3, <1>9 DEF GetSession, PCs, PastSpending, Granting
<1>10. CASE DeleteOpenIDConnectSession(r)
  <2>1. CASE Spent(Full(code[r])) /\ Goto(r, "answer")
    <3>1. OneMoves(r) /\ pc'[r] = "answer" /\ code'[r] = code[r]
      BY <1>1, <2>1, GotoMoves DEF PCs
    <3>2. \A h \in Hashes : RowKept(h)
      BY <1>1, <2>1, RowsKept
    <3>3. pc[r] \in PastSpending /\ pc[r] \in Granting /\ granted[code[r]] = 1
      BY <1>10 DEF SpendInv, SpenderKnows, PastSpending, Granting
    <3>4. \A c \in Codes : OpenIDSpent(c)' => OpenIDSpent(c) \/ granted[c] = 1
      BY <1>1, <2>1, <3>3, HashesDiffer DEF OpenIDSpent, Spent
    <3> QED
      BY <1>1, <3>1, <3>2, <3>3, <3>4, MoveSpend DEF Granting
  <2> QED
    BY <1>1, <1>2, <1>10, <2>1, UseCodeSpends DEF PCs
<1> QED
  BY <1>5, <1>6, <1>7, <1>8, <1>9, <1>10

LEMMA StepSpend == SpendInv /\ [Next]_vars => SpendInv'
<1> SUFFICES ASSUME SpendInv, [Next]_vars PROVE SpendInv'
  OBVIOUS
<1>1. TypeOK'
  BY StepType DEF SpendInv
<1>2. ASSUME UNCHANGED <<row, granted, pc, code>> PROVE SpendInv'
  BY <1>1, <1>2
  DEF SpendInv, SpenderKnows, SpenderAlone, GrantedOnce, OpenIDAfterGrant, PastSpending
<1> QED
  BY <1>1, <1>2, AuthorizeSpend, ExchangeSpend, GrantSpend DEF Next, Advance, Tick, vars

LEMMA AtMostOne ==
    ASSUME NEW S, \A x, y \in S : x = y
    PROVE  Cardinality(S) <= 1
<1>1. CASE S = {}
  BY <1>1, FS_EmptySet
<1>2. ASSUME NEW x \in S PROVE Cardinality(S) = 1
  <2>1. S = {x}
    OBVIOUS
  <2> QED
    BY <2>1, FS_Singleton
<1> QED
  BY <1>1, <1>2

LEMMA SpendSafe == SpendInv => OneSpender /\ OpenIDAfterGrant
<1> SUFFICES ASSUME SpendInv, NEW c \in Codes PROVE Cardinality(Spenders(c)) <= 1
  BY DEF SpendInv, OneSpender
<1> QED
  BY AtMostOne DEF SpendInv, SpenderAlone, Spenders

\* However exchanges of one code race, and whatever handlers are composed, one
\* gets past the statement that spends it.
THEOREM OneSpenderOnly == Spec => []OneSpender
BY InitSpend, StepSpend, SpendSafe, PTL DEF Spec

\* The OpenID session of a code is spent only when its tokens were made.
THEOREM OpenIDSpentAfterGrant == Spec => []OpenIDAfterGrant
BY InitSpend, StepSpend, SpendSafe, PTL DEF Spec

-------------------------------------------------------------------------------
(* CodeStore implements OneTimeCode *)

States == [c \in Codes |-> CodeState(c)]

LEMMA InitPromise == Init => Promise!Init
BY HashesDiffer DEF Init, Promise!Init, CodeState

\* Rows that are there under the same signatures, used or not as before.
LEMMA SameStates ==
    ASSUME UNCHANGED granted,
           \A c \in Codes : /\ row'[Sig(c)] = None <=> row[Sig(c)] = None
                            /\ row[Sig(c)] # None => row'[Sig(c)].used = row[Sig(c)].used
    PROVE  UNCHANGED Promise!vars
BY DEF Promise!vars, CodeState

LEMMA InsertIssues ==
    ASSUME TypeOK, UNCHANGED granted, NEW h \in Hashes, Inserted(h)
    PROVE  [Promise!Next]_(Promise!vars)
<1>1. CASE \A c \in Codes : h # Sig(c)
  <2>1. \A c \in Codes : row'[Sig(c)] = row[Sig(c)]
    BY <1>1, HashesDiffer DEF Inserted
  <2> QED
    BY <2>1, SameStates
<1>2. ASSUME NEW c \in Codes, h = Sig(c) PROVE Promise!Issue(c)
  <2>1. CodeState(c) = "unissued" /\ CodeState(c)' = "live"
    BY <1>2 DEF Inserted, CodeState
  <2>2. \A d \in Codes \ {c} : CodeState(d)' = CodeState(d)
    BY <1>2, HashesDiffer DEF Inserted, CodeState
  <2>3. States[c] = "unissued" /\ States' = [States EXCEPT ![c] = "live"]
    BY <2>1, <2>2 DEF States
  <2> QED
    BY <2>3 DEF Promise!Issue, States
<1> QED
  BY <1>1, <1>2 DEF Promise!Next

LEMMA UseSpends ==
    ASSUME TypeOK, UNCHANGED granted, NEW h \in Hashes, Spent(h)
    PROVE  [Promise!Next]_(Promise!vars)
<1>1. CASE \A c \in Codes : h # Sig(c)
  <2>1. \A c \in Codes : row'[Sig(c)] = row[Sig(c)]
    BY <1>1, HashesDiffer DEF Spent
  <2> QED
    BY <2>1, SameStates
<1>2. ASSUME NEW c \in Codes, h = Sig(c) PROVE Promise!Spend(c)
  <2>1. CodeState(c) = "live" /\ CodeState(c)' = "spent"
    BY <1>2 DEF Spent, Usable, CodeState
  <2>2. \A d \in Codes \ {c} : CodeState(d)' = CodeState(d)
    BY <1>2, HashesDiffer DEF Spent, CodeState
  <2>3. States[c] = "live" /\ States' = [States EXCEPT ![c] = "spent"]
    BY <2>1, <2>2 DEF States
  <2> QED
    BY <2>3 DEF Promise!Spend, States
<1> QED
  BY <1>1, <1>2 DEF Promise!Next

LEMMA GrantGrants ==
    ASSUME SpendInv, TypeOK', NEW r \in Requests, GrantTokens(r)
    PROVE  Promise!Next
<1>1. /\ code[r] \in Codes /\ row[Sig(code[r])] # None /\ row[Sig(code[r])].used
      /\ granted[code[r]] = 0 /\ granted' = [granted EXCEPT ![code[r]] = 1]
  BY GrantSpend
<1>2. States[code[r]] = "spent" /\ States' = States
  BY <1>1 DEF States, CodeState, GrantTokens
<1>3. Promise!Grant(code[r])
  BY <1>1, <1>2 DEF Promise!Grant, States
<1> QED
  BY <1>1, <1>3 DEF Promise!Next

LEMMA StepPromise == SpendInv /\ [Next]_vars => [Promise!Next]_(Promise!vars)
<1> SUFFICES ASSUME SpendInv, [Next]_vars PROVE [Promise!Next]_(Promise!vars)
  OBVIOUS
<1>1. TypeOK /\ TypeOK'
  BY StepType DEF SpendInv
<1>2. ASSUME UNCHANGED <<row, granted>> PROVE UNCHANGED Promise!vars
  BY <1>2, SameStates
<1>3. ASSUME NEW r \in Requests,
             \/ CreateAuthorizeCodeSession(r) \/ CreateOpenIDConnectSession(r)
             \/ CreatePKCERequestSession(r)
      PROVE  [Promise!Next]_(Promise!vars)
  <2> USE <1>3 DEF CreateAuthorizeCodeSession, CreateOpenIDConnectSession, CreatePKCERequestSession
  <2>1. form[r] \in Form /\ Sig(code[r]) \in Hashes /\ Full(code[r]) \in Hashes
    BY <1>1, HashesDiffer DEF TypeOK, PointOK, Authorizing
  <2>2. \/ UNCHANGED row
        \/ \E h \in Hashes, next \in PCs : CreateSession(r, h, next)
    BY <2>1 DEF PCs
  <2>3. UNCHANGED row \/ \E h \in Hashes : Inserted(h)
    BY <1>1, <2>1, <2>2, CreateSessionStores
  <2> QED
    BY <1>1, <1>2, <2>3, InsertIssues
<1>4. ASSUME NEW r \in Requests,
             \/ DeletePKCERequestSession(r) \/ InvalidateAuthorizeCodeSession(r)
             \/ DeleteOpenIDConnectSession(r)
      PROVE  [Promise!Next]_(Promise!vars)
  <2> USE <1>4 DEF DeletePKCERequestSession, InvalidateAuthorizeCodeSession, DeleteOpenIDConnectSession
  <2>1. Sig(code[r]) \in Hashes /\ Full(code[r]) \in Hashes
    BY <1>1, HashesDiffer DEF TypeOK, PointOK
  <2>2. \E h \in Hashes, next \in PCs : UseCode(r, h, next)
    BY <2>1 DEF PCs
  <2>3. UNCHANGED row \/ \E h \in Hashes : Spent(h)
    BY <1>1, <2>2, UseCodeSpends
  <2> QED
    BY <1>1, <1>2, <2>3, UseSpends
<1>5. ASSUME NEW r \in Requests, GrantTokens(r) PROVE Promise!Next
  BY <1>1, <1>5, GrantGrants
<1>6. \/ UNCHANGED <<row, granted>>
      \/ \E r \in Requests :
            \/ CreateAuthorizeCodeSession(r) \/ CreateOpenIDConnectSession(r)
            \/ CreatePKCERequestSession(r) \/ DeletePKCERequestSession(r)
            \/ InvalidateAuthorizeCodeSession(r) \/ DeleteOpenIDConnectSession(r)
            \/ GrantTokens(r)
  BY DEF Next, Advance, vars, Authorize, Token, Tick, Fail, WriteAuthorizeResponse,
     CheckCode, GetPKCERequestSession, GetAuthorizeCodeSession,
     GetOpenIDConnectSession, WriteAccessResponse, GetSession
<1> QED
  BY <1>2, <1>3, <1>4, <1>5, <1>6

\* The store, as the library drives it, implements the one-time code: whatever
\* handlers share its table, each code is issued, spent and traded at most once.
THEOREM CodesAreOneTime == Spec => OneTimeUse
BY InitSpend, StepSpend, InitPromise, StepPromise, PTL DEF Spec, Promise!Spec, OneTimeUse

-------------------------------------------------------------------------------
(* A code is spent for good *)

\* A request comes past the spending by spending a code that was usable.
LEMMA SpendersMove ==
    ASSUME TypeOK, NEW r \in Requests, NEW c \in Codes, CodeState(c) = "spent",
           \/ \E d \in Codes, f \in Forms : Authorize(r, d, f)
           \/ \E d \in Codes : Token(r, d)
           \/ Advance(r) \/ Fail(r)
    PROVE  Spenders(c)' \subseteq Spenders(c)
<1>1. ~Usable(Sig(c))
  BY DEF CodeState, Usable
<1>2. ASSUME OneMoves(r), pc'[r] \in PastSpending /\ code'[r] = c
                            => pc[r] \in PastSpending /\ code[r] = c
      PROVE  Spenders(c)' \subseteq Spenders(c)
  BY <1>2 DEF Spenders, OneMoves, PastSpending
<1>3. ASSUME Finish(r) PROVE Spenders(c)' \subseteq Spenders(c)
  BY <1>2, <1>3, FinishMoves DEF PastSpending
<1>4. ASSUME NEW next \in PCs, Goto(r, next),
             \/ next \notin PastSpending
             \/ pc[r] \in PastSpending
             \/ Usable(Sig(code[r]))
      PROVE  Spenders(c)' \subseteq Spenders(c)
  <2>1. OneMoves(r) /\ pc'[r] = next /\ code'[r] = code[r]
    BY <1>4, GotoMoves
  <2> QED
    BY <1>1, <1>2, <1>4, <2>1
<1>5. CASE \/ \E d \in Codes, f \in Forms : Authorize(r, d, f)
           \/ \E d \in Codes : Token(r, d)
  <2>1. OneMoves(r) /\ pc'[r] \in {"createCode", "checkCode"}
    BY <1>5, FormsAreForms DEF Authorize, Token, TypeOK, OneMoves, PCs
  <2> QED
    BY <1>2, <2>1 DEF PastSpending
<1>6. CASE \/ CreateAuthorizeCodeSession(r) \/ CreateOpenIDConnectSession(r)
           \/ CreatePKCERequestSession(r) \/ WriteAuthorizeResponse(r)
  <2>1. Finish(r) \/ \E next \in {"createOpenID", "createPKCE", "redirect"} : Goto(r, next)
    BY <1>6 DEF CreateAuthorizeCodeSession, CreateOpenIDConnectSession,
       CreatePKCERequestSession, WriteAuthorizeResponse, CreateSession
  <2> QED
    BY <1>3, <1>4, <2>1 DEF PCs, PastSpending
<1>7. CASE CheckCode(r) \/ GetPKCERequestSession(r)
  <2>1. Finish(r) \/ \E next \in {"checkPKCE", "deletePKCE", "getCode"} :
                        Goto(r, next) /\ next \notin PastSpending
    BY <1>7 DEF CheckCode, GetPKCERequestSession, GetSession, PastSpending
  <2> QED
    BY <1>3, <1>4, <2>1 DEF PCs
<1>8. CASE DeletePKCERequestSession(r) \/ InvalidateAuthorizeCodeSession(r)
  <2>1. \/ Finish(r)
        \/ Usable(Sig(code[r])) /\ \E next \in {"getCode", "grant"} : Goto(r, next)
    BY <1>8 DEF DeletePKCERequestSession, InvalidateAuthorizeCodeSession, UseCode
  <2> QED
    BY <1>3, <1>4, <2>1 DEF PCs
<1>9. CASE GetAuthorizeCodeSession(r)
  <2>1. Finish(r) \/ Goto(r, "invalidate")
    BY <1>9 DEF GetAuthorizeCodeSession, GetSession
  <2>2. "invalidate" \notin PastSpending \/ pc[r] \in PastSpending
    BY <1>9 DEF GetAuthorizeCodeSession, PastSpending
  <2> QED
    BY <1>3, <1>4, <2>1, <2>2 DEF PCs
<1>10. CASE \/ GrantTokens(r) \/ GetOpenIDConnectSession(r)
            \/ DeleteOpenIDConnectSession(r) \/ WriteAccessResponse(r)
  <2>1. pc[r] \in PastSpending
    BY <1>10 DEF GrantTokens, GetOpenIDConnectSession, DeleteOpenIDConnectSession,
       WriteAccessResponse, PastSpending
  <2>2. Finish(r) \/ \E next \in {"getOpenID", "deleteOpenID", "answer"} : Goto(r, next)
    BY <1>10 DEF GrantTokens, GetOpenIDConnectSession, DeleteOpenIDConnectSession,
       WriteAccessResponse, GetSession, UseCode
  <2> QED
    BY <1>3, <1>4, <2>1, <2>2 DEF PCs
<1> QED
  BY <1>3, <1>5, <1>6, <1>7, <1>8, <1>9, <1>10 DEF Advance, Fail

LEMMA StepSealed ==
    SpendInv /\ [Next]_vars =>
        \A c \in Codes : CodeState(c) = "spent" =>
            CodeState(c)' = "spent" /\ Spenders(c)' \subseteq Spenders(c)
<1> SUFFICES ASSUME SpendInv, [Next]_vars, NEW c \in Codes, CodeState(c) = "spent"
             PROVE  CodeState(c)' = "spent" /\ Spenders(c)' \subseteq Spenders(c)
  OBVIOUS
<1>1. CodeState(c)' = "spent"
  <2>1. States[c] = "spent" /\ States'[c] = CodeState(c)' /\ DOMAIN States = Codes
    BY DEF States
  <2>2. [Promise!Next]_(Promise!vars)
    BY StepPromise
  <2> QED
    BY <2>1, <2>2
    DEF Promise!Next, Promise!Issue, Promise!Spend, Promise!Grant, Promise!vars, States
<1>2. CASE UNCHANGED <<pc, code>>
  BY <1>1, <1>2 DEF Spenders, PastSpending
<1>3. TypeOK
  BY DEF SpendInv
<1> QED
  BY <1>1, <1>2, <1>3, SpendersMove DEF Next, Tick, vars

\* A code that was spent stays so, and no other exchange takes the place of one
\* that spent it and stopped.
THEOREM SpentCodesAreSealed == Spec => SpentCodeSealed
BY InitSpend, StepSpend, StepSealed, PTL DEF Spec, SpentCodeSealed
===============================================================================
