-------------------------- MODULE Registration_proofs --------------------------
(***************************************************************************)
(* Theorems about Registration, for any number of handlers, addresses and  *)
(* registrations, and any size of the pool.                                *)
(***************************************************************************)
EXTENDS Registration, FiniteSetTheorems, TLAPS

-------------------------------------------------------------------------------
(* Type correctness *)

\* Everything TypeOK says but the count of connections.
RowsOK ==
    /\ users \in [Emails -> Pendings \cup {None}]
    /\ pending \in [Pendings -> PendingRow \cup {None}]
    /\ mailed \subseteq Existing
    /\ pc \in [Requests -> PCs]
    /\ email \in [Requests -> Emails \cup {None}]
    /\ pend \in [Requests -> Pendings \cup {None}]
    /\ tx \subseteq Requests
    /\ \A r \in Requests : PointOK(r)

LEMMA TypeParts == /\ TypeOK <=> RowsOK /\ Free >= 0
                   /\ TypeOK' <=> RowsOK' /\ Free' >= 0
BY DEF TypeOK, RowsOK

\* A handler that gives its connection back, or has none, leaves no fewer free.
LEMMA FinishFrees ==
    ASSUME TypeOK, NEW r \in Requests, tx' = tx \ {r} \/ tx' = tx
    PROVE  Free' >= 0
<1>1. IsFiniteSet(tx)
  BY RequestsAssumption, FS_Subset DEF TypeOK
<1>2. IsFiniteSet(tx') /\ Cardinality(tx') <= Cardinality(tx)
  <2>1. tx' \subseteq tx
    OBVIOUS
  <2> QED
    BY <1>1, <2>1, FS_Subset
<1>3. Cardinality(tx) \in Nat /\ Cardinality(tx') \in Nat
  BY <1>1, <1>2, FS_CardinalityType
<1>4. Free >= 0
  BY DEF TypeOK
<1> QED
  BY <1>2, <1>3, <1>4, MaxOpenAssumption DEF Free

\* BeginTx takes one, when one is free.
LEMMA BeginTakes ==
    ASSUME TypeOK, NEW r \in Requests, Free > 0, tx' = tx \cup {r}
    PROVE  Free' >= 0
<1>1. IsFiniteSet(tx)
  BY RequestsAssumption, FS_Subset DEF TypeOK
<1>2. Cardinality(tx) \in Nat
  BY <1>1, FS_CardinalityType
<1>3. Cardinality(tx') = IF r \in tx THEN Cardinality(tx) ELSE Cardinality(tx) + 1
  BY <1>1, FS_AddElement
<1> QED
  BY <1>2, <1>3, MaxOpenAssumption DEF Free

LEMMA InitType == Init => TypeOK
<1> SUFFICES ASSUME Init PROVE TypeOK
  OBVIOUS
<1>1. RowsOK
  BY DEF Init, RowsOK, PointOK, Existing, PCs
<1>2. Free >= 0
  BY FS_EmptySet, MaxOpenAssumption DEF Init, Free
<1> QED
  BY <1>1, <1>2, TypeParts

LEMMA NewRow == ASSUME NEW e \in Emails PROVE NewPending(e) \in PendingRow
BY DEF NewPending, PendingRow

LEMMA RowsExist ==
    ASSUME TypeOK, NEW p \in Existing
    PROVE  p \in Pendings /\ pending[p] \in PendingRow /\ pending[p].email \in Emails
BY DEF TypeOK, Existing, PendingRow

\* One handler moves: what holds of the others, and of the rows they refer to,
\* is kept.
LEMMA OneMoves ==
    ASSUME RowsOK, NEW r \in Requests, NEW where \in PCs, Goto(r, where),
           email' \in [Requests -> Emails \cup {None}],
           pend' \in [Requests -> Pendings \cup {None}],
           tx' \subseteq Requests,
           \A q \in Requests : q # r =>
               email'[q] = email[q] /\ pend'[q] = pend[q] /\ (q \in tx' <=> q \in tx),
           Existing \subseteq Existing',
           PointOK(r)'
    PROVE  pc' \in [Requests -> PCs] /\ \A q \in Requests : PointOK(q)'
<1>1. pc' \in [Requests -> PCs] /\ \A q \in Requests : q # r => pc'[q] = pc[q]
  BY DEF RowsOK, Goto
<1>2. ASSUME NEW q \in Requests, q # r PROVE PointOK(q)'
  BY <1>1, <1>2 DEF RowsOK, PointOK
<1> QED
  BY <1>1, <1>2

\* A handler that ends, whatever it was doing, with the rows as they are typed.
LEMMA FinishType ==
    ASSUME TypeOK, NEW r \in Requests, Finish(r),
           users' \in [Emails -> Pendings \cup {None}],
           pending' \in [Pendings -> PendingRow \cup {None}],
           mailed' \subseteq Existing, Existing' = Existing
    PROVE  TypeOK'
<1>1. RowsOK
  BY TypeParts
<1>2. /\ email' \in [Requests -> Emails \cup {None}]
      /\ pend' \in [Requests -> Pendings \cup {None}]
      /\ tx' \subseteq Requests /\ r \notin tx'
      /\ \A q \in Requests : q # r =>
            email'[q] = email[q] /\ pend'[q] = pend[q] /\ (q \in tx' <=> q \in tx)
      /\ Goto(r, "idle")
  BY <1>1 DEF RowsOK, Finish
<1>3. pc'[r] = "idle"
  BY <1>1, <1>2 DEF RowsOK, Goto
<1>4. PointOK(r)'
  BY <1>2, <1>3 DEF PointOK
<1>5. "idle" \in PCs
  BY DEF PCs
<1>6. pc' \in [Requests -> PCs] /\ \A q \in Requests : PointOK(q)'
  BY <1>1, <1>2, <1>4, <1>5, OneMoves
<1>7. RowsOK'
  BY <1>2, <1>6 DEF RowsOK
<1>8. Free' >= 0
  BY FinishFrees DEF Finish
<1> QED
  BY <1>7, <1>8, TypeParts

\* A handler that goes on and writes no row but its own new one.
LEMMA GoOnType ==
    ASSUME TypeOK, NEW r \in Requests, NEW where \in PCs, Goto(r, where),
           UNCHANGED <<users, mailed>>,
           pending' \in [Pendings -> PendingRow \cup {None}],
           Existing \subseteq Existing',
           NEW e \in Emails \cup {None}, email' = [email EXCEPT ![r] = e],
           NEW p \in Pendings \cup {None}, pend' = [pend EXCEPT ![r] = p],
           tx' = tx \/ (tx' = tx \cup {r} /\ Free > 0),
           where = "create" => e \in Emails,
           where \notin {"idle", "create"} => p \in Existing',
           r \in tx' <=> where \in {"count", "insert", "commit"}
    PROVE  TypeOK'
<1>1. RowsOK
  BY TypeParts
<1>2. /\ email' \in [Requests -> Emails \cup {None}]
      /\ pend' \in [Requests -> Pendings \cup {None}]
      /\ tx' \subseteq Requests
      /\ \A q \in Requests : q # r =>
            email'[q] = email[q] /\ pend'[q] = pend[q] /\ (q \in tx' <=> q \in tx)
  BY <1>1 DEF RowsOK
<1>3. pc'[r] = where /\ email'[r] = e /\ pend'[r] = p
  BY <1>1 DEF RowsOK, Goto
<1>4. PointOK(r)'
  BY <1>3 DEF PointOK
<1>5. pc' \in [Requests -> PCs] /\ \A q \in Requests : PointOK(q)'
  BY <1>1, <1>2, <1>4, OneMoves
<1>6. RowsOK'
  BY <1>1, <1>2, <1>5 DEF RowsOK
<1>7. Free' >= 0
  BY FinishFrees, BeginTakes
<1> QED
  BY <1>6, <1>7, TypeParts

LEMMA StepType == TypeOK /\ [Next]_vars => TypeOK'
<1> SUFFICES ASSUME TypeOK, [Next]_vars PROVE TypeOK'
  OBVIOUS
<1>0. RowsOK
  BY TypeParts
<1>1. ASSUME NEW r \in Requests
      PROVE  /\ email = [email EXCEPT ![r] = email[r]] /\ email[r] \in Emails \cup {None}
             /\ pend = [pend EXCEPT ![r] = pend[r]] /\ pend[r] \in Pendings \cup {None}
             /\ PointOK(r)
  BY <1>0, <1>1 DEF RowsOK
<1>2. ASSUME UNCHANGED pending
      PROVE  Existing' = Existing /\ pending' \in [Pendings -> PendingRow \cup {None}]
  BY <1>0, <1>2 DEF RowsOK, Existing
<1>3. ASSUME NEW r \in Requests, NEW e \in Emails, PostRegister(r, e) PROVE TypeOK'
  <2>1. r \notin tx
    BY <1>1, <1>3 DEF PostRegister, PointOK
  <2>2. UNCHANGED <<users, pending, mailed, tx>> /\ pend' = [pend EXCEPT ![r] = pend[r]]
        /\ email' = [email EXCEPT ![r] = e] /\ Goto(r, "create")
    BY <1>1, <1>3 DEF PostRegister
  <2> QED
    BY <1>1, <1>2, <2>1, <2>2, GoOnType DEF PCs
<1>4. ASSUME NEW r \in Requests, NEW p \in Pendings, VerifyEmailToken(r, p) PROVE TypeOK'
  <2>1. r \notin tx /\ p \in Existing
    BY <1>0, <1>1, <1>4 DEF VerifyEmailToken, PointOK, RowsOK
  <2>2. UNCHANGED <<users, pending, mailed, tx>> /\ pend' = [pend EXCEPT ![r] = p]
        /\ email' = [email EXCEPT ![r] = email[r]] /\ Goto(r, "begin")
    BY <1>1, <1>4 DEF VerifyEmailToken
  <2> QED
    BY <1>1, <1>2, <2>1, <2>2, GoOnType DEF PCs
<1>5. ASSUME NEW r \in Requests, CreatePending(r) PROVE TypeOK'
  <2>1. PICK p \in Pendings : /\ pending[p] = None
                              /\ pending' = [pending EXCEPT ![p] = NewPending(email[r])]
                              /\ pend' = [pend EXCEPT ![r] = p]
    BY <1>5 DEF CreatePending
  <2>2. NewPending(email[r]) \in PendingRow /\ r \notin tx
    BY <1>1, <1>5, NewRow DEF CreatePending, PointOK
  <2>3. /\ pending' \in [Pendings -> PendingRow \cup {None}]
        /\ Existing' = Existing \cup {p}
    BY <1>0, <2>1, <2>2, NoRowAssumption DEF RowsOK, Existing
  <2>4. UNCHANGED <<users, mailed, tx>> /\ email' = [email EXCEPT ![r] = email[r]]
        /\ Goto(r, "mail")
    BY <1>1, <1>5 DEF CreatePending
  <2> QED
    BY <1>1, <2>1, <2>2, <2>3, <2>4, GoOnType DEF PCs
<1>6. ASSUME NEW r \in Requests, SendVerificationEmail(r) PROVE TypeOK'
  <2>1. mailed' \subseteq Existing
    BY <1>0, <1>1, <1>6 DEF SendVerificationEmail, PointOK, RowsOK
  <2> QED
    BY <1>0, <1>2, <1>6, <2>1, FinishType DEF SendVerificationEmail, RowsOK
<1>7. ASSUME NEW r \in Requests, BeginTx(r) PROVE TypeOK'
  <2>1. pend[r] \in Existing
    BY <1>1, <1>7 DEF BeginTx, PointOK
  <2>2. UNCHANGED <<users, pending, mailed>> /\ Free > 0 /\ tx' = tx \cup {r}
        /\ email' = [email EXCEPT ![r] = email[r]]
        /\ pend' = [pend EXCEPT ![r] = pend[r]] /\ Goto(r, "count")
    BY <1>1, <1>7 DEF BeginTx
  <2> QED
    BY <1>1, <1>2, <2>1, <2>2, GoOnType DEF PCs
<1>8. ASSUME NEW r \in Requests, CountUsers(r) \/ CreateUser(r) PROVE TypeOK'
  <2>1. UNCHANGED <<users, pending, mailed>> /\ pend[r] \in Existing /\ r \in tx
    BY <1>1, <1>8 DEF CountUsers, CreateUser, PointOK
  <2>2. CASE Finish(r)
    BY <1>0, <1>2, <2>1, <2>2, FinishType DEF RowsOK
  <2>3. CASE ~Finish(r)
    <3>1. /\ Goto(r, "insert") \/ Goto(r, "commit")
          /\ tx' = tx
          /\ email' = [email EXCEPT ![r] = email[r]]
          /\ pend' = [pend EXCEPT ![r] = pend[r]]
      BY <1>1, <1>8, <2>3 DEF CountUsers, CreateUser
    <3>2. CASE Goto(r, "insert")
      BY <1>1, <1>2, <2>1, <3>1, <3>2, GoOnType DEF PCs
    <3>3. CASE Goto(r, "commit")
      BY <1>1, <1>2, <2>1, <3>1, <3>3, GoOnType DEF PCs
    <3> QED
      BY <3>1, <3>2, <3>3
  <2> QED
    BY <2>2, <2>3
<1>9. ASSUME NEW r \in Requests, Commit(r) PROVE TypeOK'
  <2>1. pend[r] \in Pendings /\ pending[pend[r]] \in PendingRow
    BY <1>1, <1>9, RowsExist DEF Commit, PointOK
  <2>2. [pending[pend[r]] EXCEPT !.used = TRUE] \in PendingRow
    BY <2>1 DEF PendingRow
  <2>3. /\ pending' \in [Pendings -> PendingRow \cup {None}]
        /\ Existing' = Existing
    BY <1>0, <1>9, <2>1, <2>2, NoRowAssumption DEF Commit, RowsOK, Existing
  <2>4. users' \in [Emails -> Pendings \cup {None}] /\ mailed' \subseteq Existing
    BY <1>0, <1>9, <2>1 DEF Commit, RowsOK
  <2> QED
    BY <1>9, <2>3, <2>4, FinishType DEF Commit
<1>10. ASSUME NEW r \in Requests, Fail(r) PROVE TypeOK'
  BY <1>0, <1>2, <1>10, FinishType DEF Fail, RowsOK
<1>11. ASSUME NEW p \in Pendings, ExpirePending(p) PROVE TypeOK'
  <2>1. pending[p] \in PendingRow
    BY <1>0, <1>11 DEF ExpirePending, RowsOK
  <2>2. [pending[p] EXCEPT !.expired = TRUE] \in PendingRow
    BY <2>1 DEF PendingRow
  <2>3. /\ pending' \in [Pendings -> PendingRow \cup {None}]
        /\ Existing' = Existing
    BY <1>0, <1>11, <2>1, <2>2, NoRowAssumption DEF ExpirePending, RowsOK, Existing
  <2>4. UNCHANGED <<users, mailed, pc, email, pend, tx>>
    BY <1>11 DEF ExpirePending
  <2>5. \A r \in Requests : PointOK(r)'
    BY <1>1, <2>3, <2>4 DEF PointOK
  <2>6. Free' = Free
    BY <2>4 DEF Free
  <2> QED
    BY <1>0, <2>3, <2>4, <2>5, <2>6, TypeParts DEF RowsOK
<1>12. CASE UNCHANGED vars
  <2>1. UNCHANGED <<users, pending, mailed, pc, email, pend, tx>>
    BY <1>12 DEF vars
  <2>2. Existing' = Existing /\ Free' = Free
    BY <2>1 DEF Existing, Free
  <2>3. \A r \in Requests : PointOK(r)'
    BY <1>1, <2>1, <2>2 DEF PointOK
  <2> QED
    BY <1>0, <2>1, <2>2, <2>3, TypeParts DEF RowsOK
<1> QED
  BY <1>3, <1>4, <1>5, <1>6, <1>7, <1>8, <1>9, <1>10, <1>11, <1>12 DEF Next, Confirm

\* The rows a handler works on exist, exactly the handlers inside ExecuteTx
\* hold a connection, and the pool never gives out more than it has.
THEOREM RegistrationTypeCorrect == Spec => []TypeOK
<1> QED
  BY InitType, StepType, PTL DEF Spec

-------------------------------------------------------------------------------
(* A confirmation is all or nothing *)

\* The address that the row of a handler's confirmation is for.
Address(r) == pending[pend[r]].email

\* The INSERT waits for whoever has inserted the address and not ended, and
\* fails once the address has a user: past it, the address has no user yet and
\* no other handler is past it with the address.
KeyOwned ==
    \A r \in Requests : pc[r] = "commit" =>
        /\ users[Address(r)] = None
        /\ \A q \in Requests : pc[q] = "commit" /\ Address(q) = Address(r) => q = r

UsersExist == \A e \in Emails : users[e] \in Existing \cup {None}

UsedInv == TypeOK /\ UsersExist /\ KeyOwned /\ UsedIffRegistered

LEMMA InitUsed == Init => UsedInv
BY InitType DEF Init, UsedInv, UsersExist, KeyOwned, UsedIffRegistered, Existing

\* What a handler past the INSERT knows.
LEMMA AtCommit ==
    ASSUME UsedInv, NEW r \in Requests, pc[r] = "commit"
    PROVE  /\ pend[r] \in Existing /\ pend[r] \in Pendings
           /\ Address(r) \in Emails
           /\ users[Address(r)] = None
<1>1. pend[r] \in Existing
  BY DEF UsedInv, TypeOK, PointOK
<1>2. pend[r] \in Pendings /\ Address(r) \in Emails
  BY <1>1, RowsExist DEF UsedInv, Address
<1> QED
  BY <1>1, <1>2 DEF UsedInv, KeyOwned

\* A step that registers nobody, changes no row that existed but its expiry,
\* and brings no handler past the INSERT.
LEMMA UsedKept ==
    ASSUME UsedInv, UNCHANGED users, Existing \subseteq Existing',
           \A p \in Existing : /\ pending'[p].email = pending[p].email
                               /\ pending'[p].used = pending[p].used,
           \A p \in Existing' \ Existing : ~pending'[p].used /\ pending'[p].email \in Emails,
           \A r \in Requests : pc'[r] = "commit" => pc[r] = "commit" /\ pend'[r] = pend[r]
    PROVE  UsersExist' /\ KeyOwned' /\ UsedIffRegistered'
<1>1. ASSUME NEW r \in Requests, pc'[r] = "commit" PROVE Address(r)' = Address(r)
  BY <1>1, AtCommit DEF Address
<1>2. KeyOwned'
  BY <1>1 DEF UsedInv, KeyOwned
<1>3. ASSUME NEW p \in Existing' \ Existing, NEW e \in Emails PROVE users[e] # p
  BY NoneAssumption, <1>3 DEF UsedInv, UsersExist, Existing
<1>4. UsedIffRegistered'
  BY <1>3 DEF UsedInv, UsedIffRegistered
<1>5. UsersExist'
  BY DEF UsedInv, UsersExist
<1> QED
  BY <1>2, <1>4, <1>5

\* The same, when no row is written at all.
LEMMA UsedKeptRows ==
    ASSUME UsedInv, UNCHANGED <<users, pending>>,
           \A r \in Requests : pc'[r] = "commit" => pc[r] = "commit" /\ pend'[r] = pend[r]
    PROVE  UsersExist' /\ KeyOwned' /\ UsedIffRegistered'
<1>1. Existing' = Existing
  BY DEF Existing
<1> QED
  BY <1>1, UsedKept

LEMMA GotoOnly ==
    ASSUME UsedInv, NEW r \in Requests, NEW where \in PCs \ {"commit"}, Goto(r, where),
           \A q \in Requests : q # r => pend'[q] = pend[q]
    PROVE  \A q \in Requests : pc'[q] = "commit" => q # r /\ pc[q] = "commit" /\ pend'[q] = pend[q]
BY DEF UsedInv, TypeOK, Goto

LEMMA FinishOnly ==
    ASSUME UsedInv, NEW r \in Requests, Finish(r)
    PROVE  \A q \in Requests : pc'[q] = "commit" => q # r /\ pc[q] = "commit" /\ pend'[q] = pend[q]
BY GotoOnly DEF UsedInv, TypeOK, Finish, PCs

\* A confirmation that inserts the user's row has the address to itself.
LEMMA InsertOwns ==
    ASSUME UsedInv, NEW r \in Requests, CreateUser(r), ~Duplicate(r)
    PROVE  UsersExist' /\ KeyOwned' /\ UsedIffRegistered'
<1>1. UNCHANGED <<users, pending, pend>> /\ Goto(r, "commit")
  BY DEF CreateUser
<1>2. users[Address(r)] = None
  BY DEF Duplicate, Address
<1>3. \A q \in Requests : pc[q] = "commit" => Address(q) # Address(r)
  BY DEF CreateUser, KeyTaken, Address
<1>4. \A q \in Requests : Address(q)' = Address(q) /\ (pc'[q] = "commit" => q = r \/ pc[q] = "commit")
  BY <1>1 DEF UsedInv, TypeOK, Goto, Address
<1>5. KeyOwned'
  BY <1>1, <1>2, <1>3, <1>4 DEF UsedInv, KeyOwned
<1>6. UsersExist' /\ UsedIffRegistered'
  BY <1>1 DEF UsedInv, UsersExist, UsedIffRegistered, Existing
<1> QED
  BY <1>5, <1>6

\* The COMMIT: the address becomes the row's, and the row is used.
LEMMA CommitRegisters ==
    ASSUME UsedInv, NEW r \in Requests, Commit(r)
    PROVE  /\ users' = [users EXCEPT ![Address(r)] = pend[r]]
           /\ pending' = [pending EXCEPT ![pend[r]].used = TRUE]
           /\ Existing' = Existing
           /\ \A p \in Existing : pending'[p].email = pending[p].email
           /\ \A p \in Existing : pending'[p].used = (p = pend[r] \/ pending[p].used)
<1>1. pend[r] \in Existing /\ pend[r] \in Pendings /\ pending[pend[r]] \in PendingRow
  BY AtCommit, RowsExist DEF UsedInv, Commit
<1>2. /\ users' = [users EXCEPT ![Address(r)] = pend[r]]
      /\ pending' = [pending EXCEPT ![pend[r]].used = TRUE]
  BY DEF Commit, Address
<1>3. [pending[pend[r]] EXCEPT !.used = TRUE] \in PendingRow
  BY <1>1 DEF PendingRow
<1>4. Existing' = Existing
  BY <1>1, <1>2, <1>3, NoRowAssumption DEF UsedInv, TypeOK, Existing
<1>5. ASSUME NEW p \in Existing
      PROVE  /\ pending'[p].email = pending[p].email
             /\ pending'[p].used = (p = pend[r] \/ pending[p].used)
  <2>1. p \in Pendings /\ pending[p] \in PendingRow
    BY <1>5, RowsExist DEF UsedInv
  <2>2. CASE p = pend[r]
    <3>1. pending'[p] = [pending[p] EXCEPT !.used = TRUE]
      BY <1>2, <2>1, <2>2 DEF UsedInv, TypeOK
    <3> QED
      BY <2>1, <2>2, <3>1 DEF PendingRow
  <2>3. CASE p # pend[r]
    <3>1. pending'[p] = pending[p] /\ pending[p].used \in BOOLEAN
      BY <1>2, <2>1, <2>3 DEF UsedInv, TypeOK, PendingRow
    <3> QED
      BY <2>3, <3>1
  <2> QED
    BY <2>2, <2>3
<1> QED
  BY <1>2, <1>4, <1>5

LEMMA CommitKeepsUsed ==
    ASSUME UsedInv, NEW r \in Requests, Commit(r)
    PROVE  UsersExist' /\ KeyOwned' /\ UsedIffRegistered'
<1>1. pend[r] \in Existing /\ Address(r) \in Emails /\ users[Address(r)] = None
      /\ pc[r] = "commit"
  BY AtCommit DEF Commit
<1>2. \A e \in Emails : users'[e] = IF e = Address(r) THEN pend[r] ELSE users[e]
  BY <1>1, CommitRegisters DEF UsedInv, TypeOK
<1>3. UsersExist'
  <2>1. Existing' = Existing /\ UsersExist
    BY CommitRegisters DEF UsedInv
  <2> QED
    BY <1>1, <1>2, <2>1 DEF UsersExist
<1>4. UsedIffRegistered'
  <2> SUFFICES ASSUME NEW p \in Existing
               PROVE  pending'[p].used <=> users'[pending'[p].email] = p
    BY CommitRegisters DEF UsedIffRegistered
  <2>1. pending'[p].email = pending[p].email /\ pending[p].email \in Emails
    BY CommitRegisters, RowsExist DEF UsedInv
  <2>2. pending'[p].used <=> p = pend[r] \/ pending[p].used
    BY CommitRegisters
  <2>3. pending[p].used <=> users[pending[p].email] = p
    BY DEF UsedInv, UsedIffRegistered
  <2>4. p # None
    BY NoneAssumption DEF Existing
  <2>5. CASE p = pend[r]
    BY <1>2, <2>1, <2>2, <2>5 DEF Address
  <2>6. CASE p # pend[r] /\ pending[p].email = Address(r)
    BY <1>1, <1>2, <2>1, <2>2, <2>3, <2>4, <2>6
  <2>7. CASE p # pend[r] /\ pending[p].email # Address(r)
    BY <1>2, <2>1, <2>2, <2>3, <2>7
  <2> QED
    BY <2>5, <2>6, <2>7
<1>5. KeyOwned'
  <2>1. ASSUME NEW q \in Requests, pc'[q] = "commit"
        PROVE  /\ q # r /\ pc[q] = "commit"
               /\ Address(q)' = Address(q) /\ Address(q) # Address(r)
    <3>1. q # r /\ pc[q] = "commit" /\ pend'[q] = pend[q]
      BY <2>1, FinishOnly DEF Commit
    <3>2. Address(q)' = Address(q)
      BY <3>1, AtCommit, CommitRegisters DEF Address
    <3>3. Address(q) # Address(r)
      BY <1>1, <3>1 DEF UsedInv, KeyOwned
    <3> QED
      BY <3>1, <3>2, <3>3
  <2>2. \A q \in Requests : pc'[q] = "commit" => users'[Address(q)'] = None
    BY <1>2, <2>1, AtCommit
  <2> QED
    BY <2>1, <2>2 DEF UsedInv, KeyOwned
<1> QED
  BY <1>3, <1>4, <1>5

LEMMA StepUsed == UsedInv /\ [Next]_vars => UsedInv'
<1> SUFFICES ASSUME UsedInv, [Next]_vars
             PROVE  UsersExist' /\ KeyOwned' /\ UsedIffRegistered'
  BY StepType DEF UsedInv
<1> DEFINE Kept == UsersExist' /\ KeyOwned' /\ UsedIffRegistered'
<1> HIDE DEF Kept
<1>1. ASSUME NEW r \in Requests, UNCHANGED <<users, pending>>, Finish(r) PROVE Kept
  BY <1>1, FinishOnly, UsedKeptRows DEF Kept
<1>2. ASSUME NEW r \in Requests, NEW where \in PCs \ {"commit"}, Goto(r, where),
             UNCHANGED <<users, pending>>,
             \A q \in Requests : q # r => pend'[q] = pend[q]
      PROVE  Kept
  BY <1>2, GotoOnly, UsedKeptRows DEF Kept
<1>3. ASSUME NEW r \in Requests, NEW e \in Emails, PostRegister(r, e) PROVE Kept
  BY <1>2, <1>3 DEF PostRegister, PCs
<1>4. ASSUME NEW r \in Requests, NEW p \in Pendings, VerifyEmailToken(r, p) PROVE Kept
  BY <1>2, <1>4 DEF VerifyEmailToken, PCs, UsedInv, TypeOK
<1>5. ASSUME NEW r \in Requests, CreatePending(r) PROVE Kept
  <2>1. PICK p \in Pendings : /\ pending[p] = None
                              /\ pending' = [pending EXCEPT ![p] = NewPending(email[r])]
                              /\ pend' = [pend EXCEPT ![r] = p]
    BY <1>5 DEF CreatePending
  <2>2. email[r] \in Emails /\ NewPending(email[r]) \in PendingRow
    BY <1>5, NewRow DEF UsedInv, TypeOK, PointOK, CreatePending
  <2>3. /\ pending'[p] = NewPending(email[r])
        /\ \A q \in Pendings : q # p => pending'[q] = pending[q]
        /\ Existing' = Existing \cup {p} /\ p \notin Existing
    BY <2>1, <2>2, NoRowAssumption DEF UsedInv, TypeOK, Existing
  <2>4. ~pending'[p].used /\ pending'[p].email \in Emails
    BY <2>2, <2>3 DEF NewPending
  <2>5. \A q \in Existing : pending'[q] = pending[q]
    BY <2>3 DEF Existing
  <2>6. Goto(r, "mail") /\ "mail" \in PCs \ {"commit"} /\ UNCHANGED users
        /\ \A q \in Requests : q # r => pend'[q] = pend[q]
    BY <1>5, <2>1 DEF CreatePending, PCs, UsedInv, TypeOK
  <2>7. \A q \in Requests : pc'[q] = "commit" => pc[q] = "commit" /\ pend'[q] = pend[q]
    BY <2>6, GotoOnly
  <2> QED
    BY <2>3, <2>4, <2>5, <2>6, <2>7, UsedKept DEF Kept
<1>6. ASSUME NEW r \in Requests, SendVerificationEmail(r) PROVE Kept
  BY <1>1, <1>6 DEF SendVerificationEmail
<1>7. ASSUME NEW r \in Requests, BeginTx(r) PROVE Kept
  BY <1>2, <1>7 DEF BeginTx, PCs
<1>8. ASSUME NEW r \in Requests, CountUsers(r) PROVE Kept
  <2>1. CASE Duplicate(r)
    BY <1>1, <1>8, <2>1 DEF CountUsers
  <2>2. CASE ~Duplicate(r)
    BY <1>2, <1>8, <2>2 DEF CountUsers, PCs
  <2> QED
    BY <2>1, <2>2
<1>9. ASSUME NEW r \in Requests, CreateUser(r) PROVE Kept
  <2>1. CASE Duplicate(r)
    BY <1>1, <1>9, <2>1 DEF CreateUser
  <2>2. CASE ~Duplicate(r)
    BY <1>9, <2>2, InsertOwns DEF Kept
  <2> QED
    BY <2>1, <2>2
<1>10. ASSUME NEW r \in Requests, Commit(r) PROVE Kept
  BY <1>10, CommitKeepsUsed DEF Kept
<1>11. ASSUME NEW r \in Requests, Fail(r) PROVE Kept
  BY <1>1, <1>11 DEF Fail
<1>12. ASSUME NEW p \in Pendings, ExpirePending(p) PROVE Kept
  <2>1. p \in Existing /\ pending[p] \in PendingRow
    BY <1>12, RowsExist DEF ExpirePending, UsedInv, Existing
  <2>2. [pending[p] EXCEPT !.expired = TRUE] \in PendingRow
    BY <2>1 DEF PendingRow
  <2>3. /\ pending'[p] = [pending[p] EXCEPT !.expired = TRUE]
        /\ \A q \in Pendings : q # p => pending'[q] = pending[q]
        /\ Existing' = Existing
    BY <1>12, <2>1, <2>2, NoRowAssumption DEF ExpirePending, UsedInv, TypeOK, Existing
  <2>4. pending'[p].email = pending[p].email /\ pending'[p].used = pending[p].used
    BY <2>1, <2>3 DEF PendingRow
  <2>5. \A q \in Existing : /\ pending'[q].email = pending[q].email
                            /\ pending'[q].used = pending[q].used
    BY <2>3, <2>4 DEF Existing
  <2> QED
    BY <1>12, <2>3, <2>5, UsedKept DEF Kept, ExpirePending
<1>13. CASE UNCHANGED vars
  BY <1>13, UsedKeptRows DEF Kept, vars
<1> QED
  BY <1>3, <1>4, <1>5, <1>6, <1>7, <1>8, <1>9, <1>10, <1>11, <1>12, <1>13
  DEF Next, Confirm, Kept

\* For every interleaving of confirmations of one token or of several tokens of
\* one address, a registration is used exactly when it became the user of its
\* address: the transaction is all or nothing.
THEOREM ConfirmedIffUsed == Spec => []UsedIffRegistered
<1>1. UsedInv => UsedIffRegistered
  BY DEF UsedInv
<1> QED
  BY InitUsed, StepUsed, <1>1, PTL DEF Spec

\* A user is registered by a COMMIT only, and only at an address without one.
LEMMA StepFinal ==
    UsedInv /\ [Next]_vars => \A e \in Emails : users[e] # None => users'[e] = users[e]
<1> SUFFICES ASSUME UsedInv, [Next]_vars, NEW e \in Emails, users[e] # None
             PROVE  users'[e] = users[e]
  OBVIOUS
<1>1. CASE UNCHANGED users
  BY <1>1
<1>2. ASSUME NEW r \in Requests, Commit(r) PROVE users'[e] = users[e]
  <2>1. pc[r] = "commit"
    BY <1>2 DEF Commit
  <2>2. users[Address(r)] = None /\ users' = [users EXCEPT ![Address(r)] = pend[r]]
    BY <1>2, <2>1, AtCommit, CommitRegisters
  <2>3. e # Address(r)
    BY <2>2
  <2> QED
    BY <2>2, <2>3 DEF UsedInv, TypeOK
<1>3. UNCHANGED users \/ \E r \in Requests : Commit(r)
  BY DEF Next, Confirm, vars, PostRegister, VerifyEmailToken, CreatePending,
     SendVerificationEmail, BeginTx, CountUsers, CreateUser, Fail, ExpirePending
<1> QED
  BY <1>1, <1>2, <1>3

\* A registered user is never replaced by another registration of the address,
\* though the duplicate check reads outside the transaction.
THEOREM RegisteredForGood == Spec => RegistrationIsFinal
<1>1. UsedInv /\ [Next]_vars => [\A e \in Emails : users[e] # None => users'[e] = users[e]]_vars
  BY StepFinal
<1> QED
  BY InitUsed, StepUsed, <1>1, PTL DEF Spec, RegistrationIsFinal

-------------------------------------------------------------------------------
(* Registration implements UserRegister *)

AddressOf == [p \in Pendings |-> IF pending[p] = None THEN None ELSE pending[p].email]
UsedRows == {p \in Existing : pending[p].used}

\* A step that writes no user, and of the rows neither address nor used_at.
LEMMA Stutter ==
    ASSUME UNCHANGED users, Existing' = Existing,
           \A p \in Existing : /\ pending'[p].email = pending[p].email
                               /\ pending'[p].used = pending[p].used
    PROVE  UNCHANGED Promise!vars
<1>1. AddressOf' = AddressOf
  BY DEF AddressOf, Existing
<1>2. UsedRows' = UsedRows
  BY DEF UsedRows
<1> QED
  BY <1>1, <1>2 DEF Promise!vars, AddressOf, UsedRows

LEMMA StutterRows == UNCHANGED <<users, pending>> => UNCHANGED Promise!vars
BY DEF Promise!vars, Existing

LEMMA InitPromise == Init => Promise!Init
BY DEF Init, Promise!Init, Existing

\* The INSERT of a pending row asks for its address.
LEMMA CreateAsks ==
    ASSUME UsedInv, NEW r \in Requests, CreatePending(r)
    PROVE  \E p \in Pendings, e \in Emails : Promise!Ask(p, e)
<1>1. PICK p \in Pendings : /\ pending[p] = None
                            /\ pending' = [pending EXCEPT ![p] = NewPending(email[r])]
  BY DEF CreatePending
<1>2. email[r] \in Emails /\ NewPending(email[r]) \in PendingRow
  BY NewRow DEF UsedInv, TypeOK, PointOK, CreatePending
<1>3. /\ pending'[p] = NewPending(email[r])
      /\ \A q \in Pendings : q # p => pending'[q] = pending[q]
      /\ Existing' = Existing \cup {p} /\ p \notin Existing
  BY <1>1, <1>2, NoRowAssumption DEF UsedInv, TypeOK, Existing
<1>4. pending'[p] # None /\ pending'[p].email = email[r] /\ ~pending'[p].used
  <2>1. pending'[p] # None
    BY <1>2, <1>3, NoRowAssumption
  <2>2. pending'[p].email = email[r] /\ ~pending'[p].used
    BY <1>3 DEF NewPending
  <2> QED
    BY <2>1, <2>2
<1>5. AddressOf[p] = None /\ AddressOf' = [AddressOf EXCEPT ![p] = email[r]]
  <2>1. \A q \in Pendings : AddressOf'[q] = IF q = p THEN email[r] ELSE AddressOf[q]
    BY <1>3, <1>4 DEF AddressOf
  <2>2. AddressOf' = [q \in Pendings |-> AddressOf'[q]]
        /\ AddressOf = [q \in Pendings |-> AddressOf[q]]
    BY DEF AddressOf
  <2>3. AddressOf[p] = None
    BY <1>1 DEF AddressOf
  <2> QED
    BY <2>1, <2>2, <2>3
<1>6. UsedRows' = UsedRows
  BY <1>3, <1>4 DEF UsedRows, Existing
<1>7. Promise!Ask(p, email[r])
  BY <1>5, <1>6 DEF Promise!Ask, AddressOf, UsedRows, CreatePending
<1> QED
  BY <1>2, <1>7 DEF Promise!Ask

\* The COMMIT of a confirmation registers its row.
LEMMA CommitIsRegister ==
    ASSUME UsedInv, NEW r \in Requests, Commit(r)
    PROVE  \E p \in Pendings : Promise!Register(p)
<1>1. /\ pend[r] \in Existing /\ pend[r] \in Pendings
      /\ Address(r) \in Emails /\ users[Address(r)] = None
  BY AtCommit DEF Commit
<1>2. AddressOf[pend[r]] = Address(r) /\ Address(r) # None
  BY <1>1, NoneAssumption DEF AddressOf, Address, Existing
<1>3. AddressOf' = AddressOf
  <2>1. ASSUME NEW p \in Pendings
        PROVE  /\ pending'[p] = None <=> pending[p] = None
               /\ pending[p] # None => pending'[p].email = pending[p].email
    <3>1. p \in Existing' <=> p \in Existing
      BY CommitRegisters
    <3>2. p \in Existing => pending'[p].email = pending[p].email
      BY CommitRegisters
    <3> QED
      BY <3>1, <3>2 DEF Existing
  <2> QED
    BY <2>1 DEF AddressOf
<1>4. UsedRows' = UsedRows \cup {pend[r]}
  BY <1>1, CommitRegisters DEF UsedRows
<1>5. Promise!Register(pend[r])
  BY <1>1, <1>2, <1>3, <1>4, CommitRegisters DEF Promise!Register, AddressOf, UsedRows
<1> QED
  BY <1>1, <1>5 DEF Promise!Register

LEMMA StepPromise == UsedInv /\ [Next]_vars => [Promise!Next]_(Promise!vars)
<1> SUFFICES ASSUME UsedInv, [Next]_vars PROVE [Promise!Next]_(Promise!vars)
  OBVIOUS
<1>1. ASSUME NEW r \in Requests, CreatePending(r) PROVE Promise!Next
  BY <1>1, CreateAsks DEF Promise!Next
<1>2. ASSUME NEW r \in Requests, Commit(r) PROVE Promise!Next
  BY <1>2, CommitIsRegister DEF Promise!Next
<1>3. ASSUME NEW p \in Pendings, ExpirePending(p) PROVE UNCHANGED Promise!vars
  <2>1. p \in Existing /\ pending[p] \in PendingRow
    BY <1>3, RowsExist DEF ExpirePending, UsedInv, Existing
  <2>2. [pending[p] EXCEPT !.expired = TRUE] \in PendingRow
    BY <2>1 DEF PendingRow
  <2>3. /\ pending'[p] = [pending[p] EXCEPT !.expired = TRUE]
        /\ \A q \in Pendings : q # p => pending'[q] = pending[q]
        /\ Existing' = Existing
    BY <1>3, <2>1, <2>2, NoRowAssumption DEF ExpirePending, UsedInv, TypeOK, Existing
  <2>4. pending'[p].email = pending[p].email /\ pending'[p].used = pending[p].used
    BY <2>1, <2>3 DEF PendingRow
  <2>5. \A q \in Existing : /\ pending'[q].email = pending[q].email
                            /\ pending'[q].used = pending[q].used
    BY <2>3, <2>4 DEF Existing
  <2> QED
    BY <1>3, <2>3, <2>5, Stutter DEF ExpirePending
<1>4. \/ UNCHANGED <<users, pending>>
      \/ \E r \in Requests : CreatePending(r) \/ Commit(r)
      \/ \E p \in Pendings : ExpirePending(p)
  BY DEF Next, Confirm, vars, PostRegister, VerifyEmailToken,
     SendVerificationEmail, BeginTx, CountUsers, CreateUser, Fail
<1> QED
  BY <1>1, <1>2, <1>3, <1>4, StutterRows

\* Seen from the committed rows, the statements of registration and
\* confirmation are the two atomic steps of UserRegister.
THEOREM RegistrationIsAtomic == Spec => AtomicRegistration
<1> QED
  BY InitUsed, StepUsed, InitPromise, StepPromise, PTL DEF Spec, Promise!Spec, AtomicRegistration
===============================================================================
