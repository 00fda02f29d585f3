--------------------------- MODULE LoginMFA_proofs ---------------------------
(***************************************************************************)
(* Theorems about LoginMFA, for any number of users, handlers, challenges, *)
(* sessions and attempts.                                                  *)
(***************************************************************************)
EXTENDS LoginMFA, FiniteSetTheorems, TLAPS

USE NoneAssumption, NoRowAssumption

\* Storing a row adds its id to the existing ones and keeps every other row.
LEMMA StoreChallenge ==
    ASSUME TypeOK, NEW c \in Challenges, NEW row \in ChallengeRow,
           challenge' = [challenge EXCEPT ![c] = row]
    PROVE  /\ challenge' \in [Challenges -> ChallengeRow \cup {None}]
           /\ Existing(challenge') = Existing(challenge) \cup {c}
           /\ challenge'[c] = row
           /\ \A d \in Challenges \ {c} : challenge'[d] = challenge[d]
  BY DEF TypeOK, TablesOK, Existing

LEMMA StoreSession ==
    ASSUME TypeOK, NEW s \in Sessions, NEW row \in SessionRow,
           session' = [session EXCEPT ![s] = row]
    PROVE  /\ session' \in [Sessions -> SessionRow \cup {None}]
           /\ Existing(session') = Existing(session) \cup {s}
           /\ session'[s] = row
           /\ \A t \in Sessions \ {s} : session'[t] = session[t]
  BY DEF TypeOK, TablesOK, Existing

\* Updating an existing row keeps the set of ids.
LEMMA UpdateChallenge ==
    ASSUME TypeOK, NEW c \in Existing(challenge), NEW row \in ChallengeRow,
           challenge' = [challenge EXCEPT ![c] = row]
    PROVE  /\ challenge' \in [Challenges -> ChallengeRow \cup {None}]
           /\ Existing(challenge') = Existing(challenge)
           /\ challenge'[c] = row
           /\ \A d \in Challenges \ {c} : challenge'[d] = challenge[d]
  BY DEF TypeOK, TablesOK, Existing

LEMMA UpdateSession ==
    ASSUME TypeOK, NEW s \in Existing(session), NEW row \in SessionRow,
           session' = [session EXCEPT ![s] = row]
    PROVE  /\ session' \in [Sessions -> SessionRow \cup {None}]
           /\ Existing(session') = Existing(session)
           /\ session'[s] = row
           /\ \A t \in Sessions \ {s} : session'[t] = session[t]
  BY DEF TypeOK, TablesOK, Existing

\* The rows the actions store.
LEMMA ExistingRows ==
    ASSUME TypeOK
    PROVE  /\ Existing(challenge) \subseteq Challenges
           /\ Existing(session) \subseteq Sessions
           /\ \A c \in Existing(challenge) : challenge[c] \in ChallengeRow
           /\ \A s \in Existing(session) : session[s] \in SessionRow
           /\ \A c \in Challenges : challenge[c] # None => c \in Existing(challenge)
           /\ \A s \in Sessions : session[s] # None => s \in Existing(session)
  BY DEF TypeOK, TablesOK, Existing

LEMMA ChallengeRows ==
    ASSUME NEW row \in ChallengeRow
    PROVE  /\ [row EXCEPT !.attempts = @ + 1] \in ChallengeRow
           /\ [row EXCEPT !.used = TRUE] \in ChallengeRow
           /\ [row EXCEPT !.expired = TRUE] \in ChallengeRow
           /\ row.user \in Users
  <1>1. row.attempts + 1 \in Nat
    BY DEF ChallengeRow
  <1>2. [row EXCEPT !.attempts = row.attempts + 1] \in ChallengeRow
    BY <1>1 DEF ChallengeRow
  <1> QED BY <1>2 DEF ChallengeRow

LEMMA SessionRows ==
    ASSUME NEW row \in SessionRow
    PROVE  /\ [row EXCEPT !.revoked = TRUE] \in SessionRow
           /\ [row EXCEPT !.expired = TRUE] \in SessionRow
           /\ row.user \in Users
  BY DEF SessionRow

LEMMA TypeInit == Init => TypeOK
  BY DEF Init, TypeOK, TablesOK, LocalsOK, PointOK, PCs, Existing

LEMMA TypeStep == TypeOK /\ [Next]_vars => TypeOK'
  <1> SUFFICES ASSUME TypeOK, [Next]_vars PROVE TypeOK'
    OBVIOUS
  <1> USE ExistingRows DEF TypeOK, TablesOK, LocalsOK, PointOK, PCs, Goto
  <1>1. ASSUME NEW r \in Requests, NEW u \in Users, Login(r, u) PROVE TypeOK'
    BY <1>1 DEF Login
  <1>2. ASSUME NEW r \in Requests, CreateChallenge(r) PROVE TypeOK'
    <2> PICK c \in Challenges :
              /\ challenge[c] = None
              /\ challenge' = [challenge EXCEPT ![c] =
                    [user |-> user[r], attempts |-> 0, used |-> FALSE, expired |-> FALSE]]
              /\ ch' = [ch EXCEPT ![r] = c]
      BY <1>2 DEF CreateChallenge
    <2> DEFINE row == [user |-> user[r], attempts |-> 0, used |-> FALSE, expired |-> FALSE]
    <2>1. row \in ChallengeRow
      BY <1>2 DEF CreateChallenge, ChallengeRow
    <2>2. /\ challenge' \in [Challenges -> ChallengeRow \cup {None}]
          /\ Existing(challenge') = Existing(challenge) \cup {c}
      BY <2>1, StoreChallenge
    <2>3. TablesOK'
      BY <1>2, <2>2 DEF CreateChallenge
    <2>4. LocalsOK'
      BY <1>2 DEF CreateChallenge
    <2>5. (\A q \in Requests : PointOK(q))'
      <3>1. /\ pc' = [pc EXCEPT ![r] = "mail"] /\ pc[r] = "challenge" /\ ch'[r] = c
            /\ user' = user /\ sess' = sess /\ sweep' = sweep /\ session' = session
            /\ \A q \in Requests \ {r} : ch'[q] = ch[q]
        BY <1>2 DEF CreateChallenge
      <3> SUFFICES ASSUME NEW q \in Requests PROVE PointOK(q)'
        OBVIOUS
      <3>2. CASE q = r
        <4>1. user'[r] \in Users /\ ch'[r] \in Existing(challenge') /\ pc'[r] = "mail"
          <5>1. user[r] \in Users
            BY <3>1
          <5>2. c \in Existing(challenge')
            BY <2>2
          <5> QED BY <5>1, <5>2, <3>1
        <4>2. sweep'[r] \subseteq Existing(session') /\ sweep'[r] = {}
          BY <3>1
        <4> QED BY <4>1, <4>2, <3>2
      <3>3. CASE q # r
        <4>1. pc'[q] = pc[q] /\ ch'[q] = ch[q]
          BY <3>1, <3>3
        <4> QED BY <4>1, <3>1, <2>2
      <3> QED BY <3>2, <3>3
    <2> QED BY <2>3, <2>4, <2>5
  <1>3. ASSUME NEW r \in Requests, SendOTPEmail(r) PROVE TypeOK'
    BY <1>3 DEF SendOTPEmail, Finish
  <1>4. ASSUME NEW r \in Requests, NEW c \in Challenges, VerifyMFA(r, c) PROVE TypeOK'
    BY <1>4 DEF VerifyMFA
  <1>5. ASSUME NEW r \in Requests, IncrementAttempts(r) PROVE TypeOK'
    <2> DEFINE c == ch[r]
    <2>1. c \in Challenges /\ c \in Existing(challenge) /\ challenge[c] \in ChallengeRow
      BY <1>5 DEF IncrementAttempts
    <2>2. [challenge[c] EXCEPT !.attempts = @ + 1] \in ChallengeRow
      BY <2>1, ChallengeRows
    <2>3. challenge' = [challenge EXCEPT ![c] = [challenge[c] EXCEPT !.attempts = @ + 1]]
      BY <1>5 DEF IncrementAttempts
    <2>4. /\ challenge' \in [Challenges -> ChallengeRow \cup {None}]
          /\ Existing(challenge') = Existing(challenge)
      BY <2>1, <2>2, <2>3, UpdateChallenge
    <2>5. challenge[c].user \in Users
      BY <2>1, ChallengeRows
    <2>6. TablesOK'
      BY <1>5, <2>4 DEF IncrementAttempts
    <2>7. LocalsOK' /\ (\A q \in Requests : PointOK(q))'
      BY <1>5, <2>1, <2>4, <2>5 DEF IncrementAttempts, Finish
    <2> QED BY <2>6, <2>7
  <1>6. ASSUME NEW r \in Requests, MarkUsed(r) PROVE TypeOK'
    <2> DEFINE c == ch[r]
    <2>1. c \in Challenges /\ c \in Existing(challenge) /\ challenge[c] \in ChallengeRow
      BY <1>6 DEF MarkUsed
    <2>2. [challenge[c] EXCEPT !.used = TRUE] \in ChallengeRow
      BY <2>1, ChallengeRows
    <2>3. challenge' = [challenge EXCEPT ![c] = [challenge[c] EXCEPT !.used = TRUE]]
      BY <1>6 DEF MarkUsed, Marked
    <2>4. /\ challenge' \in [Challenges -> ChallengeRow \cup {None}]
          /\ Existing(challenge') = Existing(challenge)
      BY <2>1, <2>2, <2>3, UpdateChallenge
    <2> QED BY <1>6, <2>4 DEF MarkUsed
  <1>7. ASSUME NEW r \in Requests, CreateSession(r) PROVE TypeOK'
    <2> PICK s \in Sessions :
              /\ session[s] = None
              /\ session' = [session EXCEPT ![s] =
                    [user |-> user[r], from |-> ch[r], revoked |-> FALSE, expired |-> FALSE]]
              /\ sess' = [sess EXCEPT ![r] = s]
      BY <1>7 DEF CreateSession
    <2> DEFINE row == [user |-> user[r], from |-> ch[r], revoked |-> FALSE, expired |-> FALSE]
    <2>1. row \in SessionRow
      BY <1>7 DEF CreateSession, SessionRow
    <2>2. /\ session' \in [Sessions -> SessionRow \cup {None}]
          /\ Existing(session') = Existing(session) \cup {s}
      BY <2>1, StoreSession
    <2>3. TablesOK'
      BY <1>7, <2>2 DEF CreateSession
    <2>4. LocalsOK'
      BY <1>7 DEF CreateSession
    <2>5. (\A q \in Requests : PointOK(q))'
      <3>1. /\ pc' = [pc EXCEPT ![r] = "completing"] /\ pc[r] = "inserting" /\ sess'[r] = s
            /\ user' = user /\ ch' = ch /\ sweep' = sweep /\ challenge' = challenge
            /\ \A q \in Requests \ {r} : sess'[q] = sess[q]
        BY <1>7 DEF CreateSession
      <3> SUFFICES ASSUME NEW q \in Requests PROVE PointOK(q)'
        OBVIOUS
      <3>2. CASE q = r
        BY <3>1, <3>2, <2>2
      <3>3. CASE q # r
        <4>1. pc'[q] = pc[q] /\ sess'[q] = sess[q]
          BY <3>1, <3>3
        <4> QED BY <4>1, <3>1, <2>2
      <3> QED BY <3>2, <3>3
    <2> QED BY <2>3, <2>4, <2>5
  <1>8. ASSUME NEW r \in Requests, CompleteAuthorizationRequest(r) PROVE TypeOK'
    BY <1>8 DEF CompleteAuthorizationRequest
  <1>9. ASSUME NEW r \in Requests, AnswerVerifyMFA(r) PROVE TypeOK'
    BY <1>9 DEF AnswerVerifyMFA, Finish
  <1>10. ASSUME NEW s \in Sessions, PostLogout(s) PROVE TypeOK'
    <2>1. s \in Existing(session) /\ session[s] \in SessionRow
      BY <1>10 DEF PostLogout
    <2>2. [session[s] EXCEPT !.revoked = TRUE] \in SessionRow
      BY <2>1, SessionRows
    <2>3. session' = [session EXCEPT ![s] = [session[s] EXCEPT !.revoked = TRUE]]
      BY <1>10 DEF PostLogout
    <2>4. /\ session' \in [Sessions -> SessionRow \cup {None}]
          /\ Existing(session') = Existing(session)
      BY <2>1, <2>2, <2>3, UpdateSession
    <2> QED BY <1>10, <2>4 DEF PostLogout
  <1>11. ASSUME NEW r \in Requests, NEW s \in Sessions, PostWithdraw(r, s) PROVE TypeOK'
    <2>1. session[s].user \in Users
      BY <1>11, SessionRows DEF PostWithdraw, GetSession
    <2> QED BY <1>11, <2>1 DEF PostWithdraw
  <1>12. ASSUME NEW r \in Requests, Withdraw(r) PROVE TypeOK'
    BY <1>12 DEF Withdraw, Swept
  <1>13. ASSUME NEW r \in Requests, Commit(r) PROVE TypeOK'
    <2>1. \A s \in sweep[r] : s \in Existing(session) /\ session[s] \in SessionRow
      OBVIOUS
    <2>2. \A s \in sweep[r] : [session[s] EXCEPT !.revoked = TRUE] \in SessionRow
      BY <2>1, SessionRows
    <2>3. session' = [s \in Sessions |->
             IF s \in sweep[r] THEN [session[s] EXCEPT !.revoked = TRUE] ELSE session[s]]
      BY <1>13 DEF Commit
    <2>4. /\ session' \in [Sessions -> SessionRow \cup {None}]
          /\ Existing(session') = Existing(session)
      BY <2>1, <2>2, <2>3 DEF Existing
    <2> QED BY <1>13, <2>4 DEF Commit, Finish
  <1>14. ASSUME NEW r \in Requests, Fail(r) PROVE TypeOK'
    BY <1>14 DEF Fail, Finish
  <1>15. ASSUME NEW c \in Challenges, ExpireChallenge(c) PROVE TypeOK'
    <2>1. c \in Existing(challenge) /\ challenge[c] \in ChallengeRow
      BY <1>15 DEF ExpireChallenge
    <2>2. [challenge[c] EXCEPT !.expired = TRUE] \in ChallengeRow
      BY <2>1, ChallengeRows
    <2>3. challenge' = [challenge EXCEPT ![c] = [challenge[c] EXCEPT !.expired = TRUE]]
      BY <1>15 DEF ExpireChallenge
    <2>4. /\ challenge' \in [Challenges -> ChallengeRow \cup {None}]
          /\ Existing(challenge') = Existing(challenge)
      BY <2>1, <2>2, <2>3, UpdateChallenge
    <2> QED BY <1>15, <2>4 DEF ExpireChallenge
  <1>16. ASSUME NEW s \in Sessions, ExpireSession(s) PROVE TypeOK'
    <2>1. s \in Existing(session) /\ session[s] \in SessionRow
      BY <1>16 DEF ExpireSession
    <2>2. [session[s] EXCEPT !.expired = TRUE] \in SessionRow
      BY <2>1, SessionRows
    <2>3. session' = [session EXCEPT ![s] = [session[s] EXCEPT !.expired = TRUE]]
      BY <1>16 DEF ExpireSession
    <2>4. /\ session' \in [Sessions -> SessionRow \cup {None}]
          /\ Existing(session') = Existing(session)
      BY <2>1, <2>2, <2>3, UpdateSession
    <2> QED BY <1>16, <2>4 DEF ExpireSession
  <1>17. CASE UNCHANGED vars
    BY <1>17 DEF vars
  <1> QED
    BY <1>1, <1>2, <1>3, <1>4, <1>5, <1>6, <1>7, <1>8, <1>9, <1>10, <1>11,
       <1>12, <1>13, <1>14, <1>15, <1>16, <1>17 DEF Next, Advance

THEOREM TypeCorrect == Spec => []TypeOK
  BY TypeInit, TypeStep, PTL DEF Spec

-------------------------------------------------------------------------------
(* Rows are never deleted or rewritten *)

\* What a step does to a challenge that exists.
ChallengeKept(c) ==
    /\ c \in Existing(challenge')
    /\ challenge'[c].user = challenge[c].user
    /\ challenge[c].used => challenge'[c].used
    /\ challenge[c].expired => challenge'[c].expired
    /\ challenge[c].attempts <= challenge'[c].attempts

\* What a step does to a session that exists.
SessionKept(s) ==
    /\ s \in Existing(session')
    /\ session'[s].user = session[s].user
    /\ session'[s].from = session[s].from
    /\ session[s].revoked => session'[s].revoked
    /\ session[s].expired => session'[s].expired

\* A step changes at most one challenge.
LEMMA ChallengesKept ==
    ASSUME TypeOK, [Next]_vars
    PROVE  \A c \in Existing(challenge) : ChallengeKept(c)
  <1> USE ExistingRows DEF ChallengeKept
  <1>1. CASE challenge' = challenge
    BY <1>1 DEF ChallengeRow
  <1>2. ASSUME NEW r \in Requests, CreateChallenge(r)
        PROVE  \A c \in Existing(challenge) : ChallengeKept(c)
    <2> PICK c \in Challenges :
              /\ challenge[c] = None
              /\ challenge' = [challenge EXCEPT ![c] =
                    [user |-> user[r], attempts |-> 0, used |-> FALSE, expired |-> FALSE]]
      BY <1>2 DEF CreateChallenge
    <2>1. c \notin Existing(challenge)
      BY DEF Existing
    <2>2. \A d \in Challenges \ {c} : challenge'[d] = challenge[d]
      BY DEF TypeOK, TablesOK
    <2>3. DOMAIN challenge' = Challenges
      BY DEF TypeOK, TablesOK
    <2>4. \A d \in Existing(challenge) : challenge[d].attempts <= challenge[d].attempts
      BY DEF ChallengeRow
    <2> QED BY <2>1, <2>2, <2>3, <2>4 DEF Existing
  <1>3. ASSUME NEW c \in Existing(challenge), NEW row \in ChallengeRow,
               challenge' = [challenge EXCEPT ![c] = row],
               row.user = challenge[c].user, challenge[c].used => row.used,
               challenge[c].expired => row.expired, challenge[c].attempts <= row.attempts
        PROVE  \A d \in Existing(challenge) : ChallengeKept(d)
    <2>1. \A d \in Existing(challenge) : challenge[d].attempts <= challenge[d].attempts
      BY DEF ChallengeRow
    <2> QED BY <1>3, <2>1, UpdateChallenge
  <1>4. ASSUME NEW r \in Requests, IncrementAttempts(r)
        PROVE  \A c \in Existing(challenge) : ChallengeKept(c)
    <2> DEFINE row == [challenge[ch[r]] EXCEPT !.attempts = challenge[ch[r]].attempts + 1]
    <2>1. ch[r] \in Existing(challenge)
      BY <1>4 DEF IncrementAttempts, TypeOK, PointOK
    <2>2. row \in ChallengeRow /\ row.user = challenge[ch[r]].user
            /\ row.used = challenge[ch[r]].used /\ row.expired = challenge[ch[r]].expired
            /\ challenge[ch[r]].attempts <= row.attempts
      BY <2>1, ChallengeRows DEF ChallengeRow
    <2>3. challenge' = [challenge EXCEPT ![ch[r]] = row]
      BY <1>4 DEF IncrementAttempts
    <2> QED BY <1>3, <2>1, <2>2, <2>3
  <1>5. ASSUME NEW r \in Requests, MarkUsed(r)
        PROVE  \A c \in Existing(challenge) : ChallengeKept(c)
    <2> DEFINE row == [challenge[ch[r]] EXCEPT !.used = TRUE]
    <2>1. ch[r] \in Existing(challenge)
      BY <1>5 DEF MarkUsed, TypeOK, PointOK
    <2>2. row \in ChallengeRow
      BY <2>1, ChallengeRows
    <2>3. /\ row.user = challenge[ch[r]].user /\ row.used
          /\ row.expired = challenge[ch[r]].expired
          /\ challenge[ch[r]].attempts <= row.attempts
      BY <2>1 DEF ChallengeRow
    <2>4. challenge' = [challenge EXCEPT ![ch[r]] = row]
      BY <1>5 DEF MarkUsed, Marked
    <2> QED BY <1>3, <2>1, <2>2, <2>3, <2>4
  <1>6. ASSUME NEW c \in Challenges, ExpireChallenge(c)
        PROVE  \A d \in Existing(challenge) : ChallengeKept(d)
    <2> DEFINE row == [challenge[c] EXCEPT !.expired = TRUE]
    <2>1. c \in Existing(challenge)
      BY <1>6 DEF ExpireChallenge
    <2>2. row \in ChallengeRow
      BY <2>1, ChallengeRows
    <2>3. /\ row.user = challenge[c].user
          /\ row.used = challenge[c].used /\ row.expired
          /\ challenge[c].attempts <= row.attempts
      BY <2>1 DEF ChallengeRow
    <2>4. challenge' = [challenge EXCEPT ![c] = row]
      BY <1>6 DEF ExpireChallenge
    <2> QED BY <1>3, <2>1, <2>2, <2>3, <2>4
  <1> QED
    BY <1>1, <1>2, <1>4, <1>5, <1>6
    DEF Next, Advance, vars, Login, SendOTPEmail, VerifyMFA, CreateSession,
        CompleteAuthorizationRequest, AnswerVerifyMFA, PostLogout, PostWithdraw,
        Withdraw, Commit, Fail, ExpireSession

LEMMA SessionsKept ==
    ASSUME TypeOK, [Next]_vars
    PROVE  \A s \in Existing(session) : SessionKept(s)
  <1> USE ExistingRows DEF SessionKept
  <1>1. CASE session' = session
    BY <1>1
  <1>2. ASSUME NEW r \in Requests, CreateSession(r)
        PROVE  \A s \in Existing(session) : SessionKept(s)
    <2> PICK s \in Sessions :
              /\ session[s] = None
              /\ session' = [session EXCEPT ![s] =
                    [user |-> user[r], from |-> ch[r], revoked |-> FALSE, expired |-> FALSE]]
      BY <1>2 DEF CreateSession
    <2>1. s \notin Existing(session)
      BY DEF Existing
    <2>2. \A t \in Sessions \ {s} : session'[t] = session[t]
      BY DEF TypeOK, TablesOK
    <2>3. DOMAIN session' = Sessions
      BY DEF TypeOK, TablesOK
    <2> QED BY <2>1, <2>2, <2>3 DEF Existing
  <1>3. ASSUME NEW S \in SUBSET Existing(session),
               session' = [s \in Sessions |->
                  IF s \in S THEN [session[s] EXCEPT !.revoked = TRUE] ELSE session[s]]
        PROVE  \A s \in Existing(session) : SessionKept(s)
    <2> SUFFICES ASSUME NEW s \in Existing(session) PROVE SessionKept(s)
      OBVIOUS
    <2>1. session[s] \in SessionRow /\ [session[s] EXCEPT !.revoked = TRUE] \in SessionRow
      BY SessionRows
    <2>2. s \in Existing(session')
      BY <1>3, <2>1 DEF Existing
    <2> QED BY <1>3, <2>1, <2>2 DEF SessionRow
  <1>4. ASSUME NEW s \in Sessions, PostLogout(s)
        PROVE  \A t \in Existing(session) : SessionKept(t)
    <2>1. s \in Existing(session)
      BY <1>4 DEF PostLogout, TypeOK, TablesOK
    <2>2. [session[s] EXCEPT !.revoked = TRUE] \in SessionRow
      BY <2>1, SessionRows
    <2>3. session' = [session EXCEPT ![s] = [session[s] EXCEPT !.revoked = TRUE]]
      BY <1>4 DEF PostLogout
    <2> QED BY <2>1, <2>2, <2>3, UpdateSession DEF SessionRow
  <1>5. ASSUME NEW s \in Sessions, ExpireSession(s)
        PROVE  \A t \in Existing(session) : SessionKept(t)
    <2>1. s \in Existing(session)
      BY <1>5 DEF ExpireSession
    <2>2. [session[s] EXCEPT !.expired = TRUE] \in SessionRow
      BY <2>1, SessionRows
    <2>3. session' = [session EXCEPT ![s] = [session[s] EXCEPT !.expired = TRUE]]
      BY <1>5 DEF ExpireSession
    <2> QED BY <2>1, <2>2, <2>3, UpdateSession DEF SessionRow
  <1>6. ASSUME NEW r \in Requests, Commit(r)
        PROVE  \A s \in Existing(session) : SessionKept(s)
    <2>1. sweep[r] \in SUBSET Existing(session)
      BY DEF TypeOK, PointOK
    <2> QED BY <1>3, <1>6, <2>1 DEF Commit
  <1> QED
    BY <1>1, <1>2, <1>4, <1>5, <1>6
    DEF Next, Advance, vars, Login, CreateChallenge, SendOTPEmail, VerifyMFA,
        IncrementAttempts, MarkUsed, CompleteAuthorizationRequest, AnswerVerifyMFA,
        PostWithdraw, Withdraw, Fail, ExpireChallenge
-------------------------------------------------------------------------------
(* The overshoot of the attempt limit *)

\* An attempt that passed the check and is not counted yet weighs as one that
\* is: what is counted and what may still be counted stay within the bound.
AttemptsInv ==
    \A c \in Existing(challenge) :
        challenge[c].attempts + Cardinality(Counting(c))
            <= MaxAttempts - 1 + Cardinality(Requests)

LEMMA CountingFinite ==
    ASSUME NEW S \in SUBSET Requests
    PROVE  /\ IsFiniteSet(S) /\ Cardinality(S) \in Nat
           /\ Cardinality(Requests) \in Nat
           /\ Cardinality(S) <= Cardinality(Requests)
           /\ \A T \in SUBSET S : Cardinality(T) \in Nat /\ Cardinality(T) <= Cardinality(S)
  BY RequestsAssumption, FS_Subset, FS_CardinalityType

\* The three ways a step can treat a challenge: it starts or goes on below the
\* limit, its counters do not grow, or one verification is counted.
AttemptsCase(c) ==
    \/ challenge'[c].attempts <= MaxAttempts - 1
    \/ /\ c \in Existing(challenge)
       /\ challenge'[c].attempts = challenge[c].attempts
       /\ Counting(c)' \subseteq Counting(c)
    \/ /\ c \in Existing(challenge)
       /\ challenge'[c].attempts = challenge[c].attempts + 1
       /\ \E r \in Counting(c) : Counting(c)' = Counting(c) \ {r}

LEMMA AttemptsCases ==
    ASSUME TypeOK, TypeOK', [Next]_vars
    PROVE  \A c \in Existing(challenge)' : AttemptsCase(c)
  <1> USE ExistingRows
  <1>1. ASSUME challenge' = challenge, \A c \in Challenges : Counting(c)' \subseteq Counting(c)
        PROVE  \A c \in Existing(challenge)' : AttemptsCase(c)
    BY <1>1 DEF AttemptsCase
  <1>2. ASSUME NEW r \in Requests, NEW where \in PCs \ {"counting"},
               pc' = [pc EXCEPT ![r] = where],
               \A q \in Requests \ {r} : ch'[q] = ch[q]
        PROVE  \A c \in Challenges : Counting(c)' \subseteq Counting(c)
    BY <1>2 DEF Counting, TypeOK, LocalsOK
  <1>3. ASSUME NEW r \in Requests, Finish(r)
        PROVE  \A c \in Challenges : Counting(c)' \subseteq Counting(c)
    BY <1>2, <1>3 DEF Finish, Goto, PCs, TypeOK, LocalsOK
  <1>4. ASSUME NEW r \in Requests, CreateChallenge(r)
        PROVE  \A c \in Existing(challenge)' : AttemptsCase(c)
    <2> PICK c \in Challenges :
              /\ challenge[c] = None
              /\ challenge' = [challenge EXCEPT ![c] =
                    [user |-> user[r], attempts |-> 0, used |-> FALSE, expired |-> FALSE]]
              /\ ch' = [ch EXCEPT ![r] = c]
      BY <1>4 DEF CreateChallenge
    <2>1. \A d \in Challenges : Counting(d)' \subseteq Counting(d)
      BY <1>2, <1>4 DEF CreateChallenge, Goto, PCs, TypeOK, LocalsOK
    <2>2. challenge'[c].attempts = 0 /\ 0 <= MaxAttempts - 1
      BY MaxAttemptsAssumption DEF TypeOK, TablesOK
    <2>3. \A d \in Challenges \ {c} : challenge'[d] = challenge[d]
      BY DEF TypeOK, TablesOK
    <2>4. ASSUME NEW d \in Existing(challenge)', d # c
          PROVE  d \in Existing(challenge)
      <3>1. DOMAIN challenge = Challenges /\ DOMAIN challenge' = Challenges
        BY DEF TypeOK, TablesOK
      <3>2. d \in Challenges /\ challenge'[d] # None
        BY <3>1 DEF Existing
      <3> QED BY <2>3, <2>4, <3>1, <3>2 DEF Existing
    <2> QED BY <2>1, <2>2, <2>3, <2>4 DEF AttemptsCase
  <1>5. ASSUME NEW r \in Requests, NEW c \in Challenges, VerifyMFA(r, c)
        PROVE  \A d \in Existing(challenge)' : AttemptsCase(d)
    <2>1. c \in Existing(challenge) /\ challenge' = challenge
      BY <1>5 DEF VerifyMFA, TypeOK, TablesOK
    <2>2. challenge'[c].attempts <= MaxAttempts - 1
      BY <1>5, <2>1, MaxAttemptsAssumption DEF VerifyMFA, MayVerify, ChallengeRow
    <2>3. \A d \in Challenges \ {c} : Counting(d)' \subseteq Counting(d)
      BY <1>5 DEF VerifyMFA, Goto, Counting, TypeOK, LocalsOK
    <2> QED BY <2>1, <2>2, <2>3 DEF AttemptsCase
  <1>6. ASSUME NEW r \in Requests, IncrementAttempts(r)
        PROVE  \A c \in Existing(challenge)' : AttemptsCase(c)
    <2>0. ch[r] \in Existing(challenge) /\ pc[r] = "counting"
      BY <1>6 DEF IncrementAttempts, TypeOK, PointOK
    <2> PICK c \in Existing(challenge) : c = ch[r]
      BY <2>0
    <2> DEFINE row == [challenge[c] EXCEPT !.attempts = challenge[c].attempts + 1]
    <2>1. c \in Existing(challenge) /\ c = ch[r] /\ pc[r] = "counting"
      BY <2>0
    <2>2. row \in ChallengeRow /\ row.attempts = challenge[c].attempts + 1
      BY <2>1, ChallengeRows DEF ChallengeRow
    <2>3. challenge' = [challenge EXCEPT ![c] = row]
      BY <1>6 DEF IncrementAttempts
    <2>4. /\ Existing(challenge') = Existing(challenge)
          /\ challenge'[c].attempts = challenge[c].attempts + 1
          /\ \A d \in Challenges \ {c} : challenge'[d] = challenge[d]
      BY <2>1, <2>2, <2>3, UpdateChallenge
    <2>5. /\ pc'[r] # "counting"
          /\ \A q \in Requests \ {r} : pc'[q] = pc[q] /\ ch'[q] = ch[q]
      BY <1>6 DEF IncrementAttempts, Finish, Goto, TypeOK, LocalsOK
    <2>6. r \in Counting(c) /\ Counting(c)' = Counting(c) \ {r}
      BY <2>1, <2>5 DEF Counting
    <2>7. \A d \in Challenges \ {c} : Counting(d)' \subseteq Counting(d)
      BY <2>5 DEF Counting
    <2> QED BY <2>1, <2>4, <2>6, <2>7 DEF AttemptsCase
  <1>7. ASSUME NEW c \in Existing(challenge), NEW row \in ChallengeRow,
               challenge' = [challenge EXCEPT ![c] = row],
               row.attempts = challenge[c].attempts,
               \A d \in Challenges : Counting(d)' \subseteq Counting(d)
        PROVE  \A d \in Existing(challenge)' : AttemptsCase(d)
    <2>1. /\ Existing(challenge') = Existing(challenge)
          /\ challenge'[c] = row
          /\ \A d \in Challenges \ {c} : challenge'[d] = challenge[d]
      BY <1>7, UpdateChallenge
    <2> QED BY <1>7, <2>1 DEF AttemptsCase
  <1>8. ASSUME NEW r \in Requests, MarkUsed(r)
        PROVE  \A c \in Existing(challenge)' : AttemptsCase(c)
    <2> DEFINE row == [challenge[ch[r]] EXCEPT !.used = TRUE]
    <2>1. ch[r] \in Existing(challenge)
      BY <1>8 DEF MarkUsed, TypeOK, PointOK
    <2>2. row \in ChallengeRow /\ row.attempts = challenge[ch[r]].attempts
      BY <2>1, ChallengeRows DEF ChallengeRow
    <2>3. challenge' = [challenge EXCEPT ![ch[r]] = row]
      BY <1>8 DEF MarkUsed, Marked
    <2>4. \A d \in Challenges : Counting(d)' \subseteq Counting(d)
      BY <1>2, <1>8 DEF MarkUsed, Goto, PCs
    <2> QED BY <1>7, <2>1, <2>2, <2>3, <2>4
  <1>9. ASSUME NEW c \in Challenges, ExpireChallenge(c)
        PROVE  \A d \in Existing(challenge)' : AttemptsCase(d)
    <2> DEFINE row == [challenge[c] EXCEPT !.expired = TRUE]
    <2>1. c \in Existing(challenge)
      BY <1>9 DEF ExpireChallenge
    <2>2. row \in ChallengeRow /\ row.attempts = challenge[c].attempts
      BY <2>1, ChallengeRows DEF ChallengeRow
    <2>3. challenge' = [challenge EXCEPT ![c] = row]
      BY <1>9 DEF ExpireChallenge
    <2>4. \A d \in Challenges : Counting(d)' \subseteq Counting(d)
      BY <1>9 DEF ExpireChallenge, Counting
    <2> QED BY <1>7, <2>1, <2>2, <2>3, <2>4
  <1>10. CASE UNCHANGED <<challenge, pc, ch>>
    BY <1>1, <1>10 DEF Counting
  <1>11. ASSUME NEW r \in Requests,
                \/ \E u \in Users : Login(r, u)
                \/ \E s \in Sessions : PostWithdraw(r, s)
                \/ CreateSession(r) \/ CompleteAuthorizationRequest(r) \/ Withdraw(r)
         PROVE  \A d \in Existing(challenge)' : AttemptsCase(d)
    BY <1>1, <1>2, <1>11
    DEF Login, PostWithdraw, CreateSession, CompleteAuthorizationRequest, Withdraw, Goto, PCs
  <1>12. ASSUME NEW r \in Requests,
                SendOTPEmail(r) \/ AnswerVerifyMFA(r) \/ Commit(r) \/ Fail(r)
         PROVE  \A d \in Existing(challenge)' : AttemptsCase(d)
    BY <1>1, <1>3, <1>12 DEF SendOTPEmail, AnswerVerifyMFA, Commit, Fail
  <1> QED
    BY <1>4, <1>5, <1>6, <1>8, <1>9, <1>10, <1>11, <1>12
    DEF Next, Advance, vars, PostLogout, ExpireSession

LEMMA AttemptsStep == TypeOK /\ TypeOK' /\ AttemptsInv /\ [Next]_vars => AttemptsInv'
  <1> SUFFICES ASSUME TypeOK, TypeOK', AttemptsInv, [Next]_vars,
                      NEW c \in Existing(challenge)'
               PROVE  challenge'[c].attempts + Cardinality(Counting(c)')
                         <= MaxAttempts - 1 + Cardinality(Requests)
    BY DEF AttemptsInv
  <1> DEFINE old == Counting(c)
             new == Counting(c)'
  <1>1. old \in SUBSET Requests /\ new \in SUBSET Requests
    BY DEF Counting
  <1>2. /\ Cardinality(old) \in Nat /\ Cardinality(new) \in Nat
        /\ Cardinality(Requests) \in Nat /\ Cardinality(new) <= Cardinality(Requests)
    BY <1>1, CountingFinite
  <1>3. c \in Challenges /\ challenge'[c].attempts \in Nat
    BY DEF TypeOK, TablesOK, Existing, ChallengeRow
  <1>4. c \in Existing(challenge) => challenge[c].attempts \in Nat
    BY ExistingRows DEF ChallengeRow
  <1>5. CASE challenge'[c].attempts <= MaxAttempts - 1
    BY <1>2, <1>3, <1>5, MaxAttemptsAssumption
  <1>6. CASE /\ c \in Existing(challenge)
             /\ challenge'[c].attempts = challenge[c].attempts
             /\ new \subseteq old
    <2>1. Cardinality(new) <= Cardinality(old)
      BY <1>1, <1>6, CountingFinite
    <2>2. challenge[c].attempts + Cardinality(old) <= MaxAttempts - 1 + Cardinality(Requests)
      BY <1>6 DEF AttemptsInv
    <2> QED BY <1>2, <1>4, <1>6, <2>1, <2>2, MaxAttemptsAssumption
  <1>7. CASE /\ c \in Existing(challenge)
             /\ challenge'[c].attempts = challenge[c].attempts + 1
             /\ \E r \in old : new = old \ {r}
    <2>1. Cardinality(new) = Cardinality(old) - 1
      BY <1>1, <1>7, CountingFinite, FS_RemoveElement
    <2>2. challenge[c].attempts + Cardinality(old) <= MaxAttempts - 1 + Cardinality(Requests)
      BY <1>7 DEF AttemptsInv
    <2> QED BY <1>2, <1>4, <1>7, <2>1, <2>2, MaxAttemptsAssumption
  <1>8. AttemptsCase(c)
    BY AttemptsCases
  <1> QED BY <1>5, <1>6, <1>7, <1>8 DEF AttemptsCase

\* However many handlers race and for however long, a challenge is tried at
\* most MaxAttempts - 1 + N times, N being the handlers that run at once.
THEOREM AttemptsStayBounded == Spec => []AttemptsBounded
  <1>1. Init => AttemptsInv
    BY DEF Init, AttemptsInv, Existing
  <1>2. TypeOK /\ AttemptsInv => AttemptsBounded
    <2> SUFFICES ASSUME TypeOK, AttemptsInv, NEW c \in Existing(challenge)
                 PROVE  challenge[c].attempts <= MaxAttempts - 1 + Cardinality(Requests)
      BY DEF AttemptsBounded
    <2>1. Cardinality(Counting(c)) \in Nat /\ Cardinality(Requests) \in Nat
      BY CountingFinite DEF Counting
    <2>2. challenge[c].attempts \in Nat
      BY ExistingRows DEF ChallengeRow
    <2>3. challenge[c].attempts + Cardinality(Counting(c))
             <= MaxAttempts - 1 + Cardinality(Requests)
      BY DEF AttemptsInv
    <2> QED BY <2>1, <2>2, <2>3, MaxAttemptsAssumption
  <1> QED BY <1>1, <1>2, TypeCorrect, AttemptsStep, PTL DEF Spec
-------------------------------------------------------------------------------
(* No session without the second factor *)

\* A handler past the OTP check acts for the user of its challenge, and
\* stores the session only after the challenge is spent.
BackedInv ==
    /\ SessionBacked
    /\ \A r \in Requests :
        /\ pc[r] \in {"marking", "inserting"} => user[r] = challenge[ch[r]].user
        /\ pc[r] = "inserting" => challenge[ch[r]].used

LEMMA BackedStep == TypeOK /\ BackedInv /\ [Next]_vars => BackedInv'
  <1> SUFFICES ASSUME TypeOK, BackedInv, [Next]_vars PROVE BackedInv'
    OBVIOUS
  <1>1. \A c \in Existing(challenge) : ChallengeKept(c)
    BY ChallengesKept
  <1>2. \A s \in Existing(session) : SessionKept(s)
    BY SessionsKept
  <1>3. ASSUME NEW s \in Existing(session)
        PROVE  /\ session'[s].from \in Existing(challenge')
               /\ challenge'[session'[s].from].used
               /\ challenge'[session'[s].from].user = session'[s].user
    BY <1>1, <1>2, <1>3 DEF BackedInv, SessionBacked, ChallengeKept, SessionKept
  <1>4. ASSUME Existing(session)' = Existing(session) PROVE SessionBacked'
    BY <1>3, <1>4 DEF SessionBacked
  <1>5. ASSUME NEW q \in Requests, pc'[q] = pc[q], user'[q] = user[q], ch'[q] = ch[q]
        PROVE  /\ pc'[q] \in {"marking", "inserting"} => user'[q] = challenge'[ch'[q]].user
               /\ pc'[q] = "inserting" => challenge'[ch'[q]].used
    <2>1. pc[q] \in {"marking", "inserting"} => ch[q] \in Existing(challenge)
      BY DEF TypeOK, PointOK
    <2> QED BY <1>1, <1>5, <2>1 DEF BackedInv, ChallengeKept
  <1>6. ASSUME NEW r \in Requests, pc'[r] \notin {"marking", "inserting"},
               \A q \in Requests \ {r} : pc'[q] = pc[q] /\ user'[q] = user[q] /\ ch'[q] = ch[q],
               Existing(session)' = Existing(session)
        PROVE  BackedInv'
    BY <1>4, <1>5, <1>6 DEF BackedInv
  <1>7. ASSUME NEW r \in Requests, Finish(r), Existing(session)' = Existing(session)
        PROVE  BackedInv'
    BY <1>6, <1>7 DEF Finish, Goto, TypeOK, LocalsOK
  <1>8. ASSUME UNCHANGED <<pc, user, ch>>, Existing(session)' = Existing(session)
        PROVE  BackedInv'
    BY <1>4, <1>5, <1>8 DEF BackedInv
  <1>9. ASSUME NEW r \in Requests,
               \/ \E u \in Users : Login(r, u)
               \/ \E c \in Challenges : VerifyMFA(r, c)
               \/ \E s \in Sessions : PostWithdraw(r, s)
               \/ CreateChallenge(r) \/ CompleteAuthorizationRequest(r) \/ Withdraw(r)
        PROVE  BackedInv'
    <2>1. /\ pc'[r] \notin {"marking", "inserting"}
          /\ \A q \in Requests \ {r} : pc'[q] = pc[q] /\ user'[q] = user[q] /\ ch'[q] = ch[q]
          /\ session' = session
      BY <1>9 DEF Login, VerifyMFA, PostWithdraw, CreateChallenge, Withdraw,
                  CompleteAuthorizationRequest, Goto, TypeOK, LocalsOK
    <2> QED BY <1>6, <2>1
  <1>10. ASSUME NEW r \in Requests, IncrementAttempts(r) PROVE BackedInv'
    <2>1. CASE Finish(r)
      BY <1>7, <1>10, <2>1 DEF IncrementAttempts
    <2>2. CASE Goto(r, "marking") /\ user' = [user EXCEPT ![r] = challenge[ch[r]].user] /\ ch' = ch
      <3>1. /\ pc'[r] = "marking" /\ user'[r] = challenge[ch[r]].user /\ ch'[r] = ch[r]
            /\ \A q \in Requests \ {r} : pc'[q] = pc[q] /\ user'[q] = user[q] /\ ch'[q] = ch[q]
        BY <2>2 DEF Goto, TypeOK, LocalsOK
      <3>2. ch[r] \in Existing(challenge)
        BY <1>10 DEF IncrementAttempts, TypeOK, PointOK
      <3>3. user'[r] = challenge'[ch'[r]].user
        BY <1>1, <3>1, <3>2 DEF ChallengeKept
      <3>4. SessionBacked'
        BY <1>4, <1>10 DEF IncrementAttempts
      <3> QED BY <1>5, <3>1, <3>3, <3>4 DEF BackedInv
    <2> QED BY <1>10, <2>1, <2>2 DEF IncrementAttempts
  <1>11. ASSUME NEW r \in Requests, MarkUsed(r) PROVE BackedInv'
    <2>1. /\ pc[r] = "marking" /\ pc'[r] = "inserting" /\ user'[r] = user[r] /\ ch'[r] = ch[r]
          /\ \A q \in Requests \ {r} : pc'[q] = pc[q] /\ user'[q] = user[q] /\ ch'[q] = ch[q]
      BY <1>11 DEF MarkUsed, Goto, TypeOK, LocalsOK
    <2>2. ch[r] \in Existing(challenge)
      BY <2>1 DEF TypeOK, PointOK
    <2>3. user'[r] = challenge'[ch'[r]].user
      BY <1>1, <2>1, <2>2 DEF BackedInv, ChallengeKept
    <2>4. challenge'[ch[r]].used
      BY <1>11, <2>2, ExistingRows DEF MarkUsed, Marked, ChallengeRow, TypeOK, TablesOK
    <2>5. SessionBacked'
      BY <1>4, <1>11 DEF MarkUsed
    <2> QED BY <1>5, <2>1, <2>3, <2>4, <2>5 DEF BackedInv
  <1>12. ASSUME NEW r \in Requests, CreateSession(r) PROVE BackedInv'
    <2>1. PICK s \in Sessions :
              /\ session[s] = None
              /\ session' = [session EXCEPT ![s] =
                    [user |-> user[r], from |-> ch[r], revoked |-> FALSE, expired |-> FALSE]]
      BY <1>12 DEF CreateSession
    <2>2. /\ pc[r] = "inserting" /\ pc'[r] = "completing" /\ challenge' = challenge
          /\ \A q \in Requests \ {r} : pc'[q] = pc[q] /\ user'[q] = user[q] /\ ch'[q] = ch[q]
      BY <1>12 DEF CreateSession, Goto, TypeOK, LocalsOK
    <2>3. DOMAIN session = Sessions /\ DOMAIN session' = Sessions
      BY <2>1 DEF TypeOK, TablesOK
    <2>4. /\ session'[s].user = user[r] /\ session'[s].from = ch[r]
      BY <2>1, <2>3
    <2>5. /\ ch[r] \in Existing(challenge)
          /\ challenge[ch[r]].used /\ challenge[ch[r]].user = user[r]
      BY <2>2 DEF BackedInv, TypeOK, PointOK
    <2>6. ASSUME NEW t \in Existing(session)', t # s PROVE t \in Existing(session)
      BY <2>1, <2>3, <2>6 DEF Existing
    <2>7. SessionBacked'
      BY <1>3, <2>2, <2>4, <2>5, <2>6 DEF SessionBacked
    <2> QED BY <1>5, <2>2, <2>7 DEF BackedInv
  <1>13. ASSUME NEW r \in Requests, SendOTPEmail(r) \/ AnswerVerifyMFA(r) \/ Fail(r)
         PROVE  BackedInv'
    BY <1>7, <1>13 DEF SendOTPEmail, AnswerVerifyMFA, Fail
  <1>14. ASSUME NEW r \in Requests, Commit(r) PROVE BackedInv'
    <2>1. session' = [s \in Sessions |->
             IF s \in sweep[r] THEN [session[s] EXCEPT !.revoked = TRUE] ELSE session[s]]
      BY <1>14 DEF Commit
    <2>2. Existing(session)' \subseteq Existing(session)
      BY <2>1 DEF Existing, TypeOK, TablesOK, PointOK
    <2>3. Existing(session) \subseteq Existing(session)'
      BY <1>2 DEF SessionKept
    <2>4. Existing(session)' = Existing(session)
      BY <2>2, <2>3
    <2>5. Finish(r)
      BY <1>14 DEF Commit
    <2> QED BY <1>7, <2>4, <2>5
  <1>15. ASSUME NEW s \in Sessions, PostLogout(s) \/ ExpireSession(s) PROVE BackedInv'
    <2>1. s \in Existing(session)
      BY <1>15 DEF PostLogout, ExpireSession, Existing, TypeOK, TablesOK
    <2>2. Existing(session)' \subseteq Existing(session)
      BY <1>15, <2>1 DEF PostLogout, ExpireSession, Existing, TypeOK, TablesOK
    <2>3. Existing(session) \subseteq Existing(session)'
      BY <1>2 DEF SessionKept
    <2> QED BY <1>8, <1>15, <2>2, <2>3 DEF PostLogout, ExpireSession
  <1>16. ASSUME NEW c \in Challenges, ExpireChallenge(c) PROVE BackedInv'
    BY <1>8, <1>16 DEF ExpireChallenge
  <1>17. CASE UNCHANGED vars
    BY <1>8, <1>17 DEF vars
  <1> QED
    BY <1>9, <1>10, <1>11, <1>12, <1>13, <1>14, <1>15, <1>16, <1>17 DEF Next, Advance

\* Every session goes back to a spent challenge of its own user.
THEOREM SessionsAreBacked == Spec => []SessionBacked
  <1>1. Init => BackedInv
    BY DEF Init, BackedInv, SessionBacked, Existing
  <1>2. BackedInv => SessionBacked
    BY DEF BackedInv
  <1> QED BY <1>1, <1>2, TypeCorrect, BackedStep, PTL DEF Spec
-------------------------------------------------------------------------------
(* A withdrawn user is not logged in again *)

\* Every handler but r stays where it is.
OthersKept(r) ==
    \A q \in Requests \ {r} : pc'[q] = pc[q] /\ user'[q] = user[q] /\ ch'[q] = ch[q]

\* Where r may arrive, and by which check or from which point.
Moves(r) ==
    \/ pc'[r] \notin {"challenge", "counting", "marking", "inserting"}
    \/ \E u \in Users : pc'[r] = "challenge" /\ MayLogin(u) /\ user'[r] = u
    \/ pc'[r] = "counting" /\ \E c \in Challenges : MayVerify(challenge[c]) /\ ch'[r] = c
    \/ /\ pc[r] \in {"counting", "marking"}
       /\ pc'[r] \in {"marking", "inserting"} /\ ch'[r] = ch[r]

\* A step leaves the handlers alone or moves one of them.
LEMMA HandlersMove ==
    ASSUME TypeOK, [Next]_vars
    PROVE  UNCHANGED <<pc, user, ch>> \/ \E r \in Requests : OthersKept(r) /\ Moves(r)
  <1> USE DEF OthersKept, Moves
  <1>1. ASSUME NEW r \in Requests, Finish(r) PROVE OthersKept(r) /\ Moves(r)
    BY <1>1 DEF Finish, Goto, TypeOK, LocalsOK
  <1>2. ASSUME NEW r \in Requests, NEW u \in Users, Login(r, u)
        PROVE  OthersKept(r) /\ Moves(r)
    BY <1>2 DEF Login, Goto, TypeOK, LocalsOK
  <1>3. ASSUME NEW r \in Requests, NEW c \in Challenges, VerifyMFA(r, c)
        PROVE  OthersKept(r) /\ Moves(r)
    BY <1>3 DEF VerifyMFA, Goto, TypeOK, LocalsOK
  <1>4. ASSUME NEW r \in Requests,
               \/ \E s \in Sessions : PostWithdraw(r, s)
               \/ CreateChallenge(r) \/ CreateSession(r)
               \/ CompleteAuthorizationRequest(r) \/ Withdraw(r)
        PROVE  OthersKept(r) /\ Moves(r)
    BY <1>4 DEF PostWithdraw, CreateChallenge, CreateSession,
                CompleteAuthorizationRequest, Withdraw, Goto, TypeOK, LocalsOK
  <1>5. ASSUME NEW r \in Requests, IncrementAttempts(r) PROVE OthersKept(r) /\ Moves(r)
    <2>1. CASE Finish(r)
      BY <1>1, <2>1
    <2>2. CASE /\ pc[r] = "counting" /\ Goto(r, "marking") /\ ch' = ch
               /\ user' = [user EXCEPT ![r] = challenge[ch[r]].user]
      BY <2>2 DEF Goto, TypeOK, LocalsOK
    <2> QED BY <1>5, <2>1, <2>2 DEF IncrementAttempts
  <1>6. ASSUME NEW r \in Requests, MarkUsed(r) PROVE OthersKept(r) /\ Moves(r)
    BY <1>6 DEF MarkUsed, Goto, TypeOK, LocalsOK
  <1>7. ASSUME NEW r \in Requests,
               SendOTPEmail(r) \/ AnswerVerifyMFA(r) \/ Commit(r) \/ Fail(r)
        PROVE  OthersKept(r) /\ Moves(r)
    BY <1>1, <1>7 DEF SendOTPEmail, AnswerVerifyMFA, Commit, Fail
  <1>8. CASE UNCHANGED <<pc, user, ch>>
    BY <1>8
  <1> HIDE DEF OthersKept, Moves
  <1> QED
    BY <1>2, <1>3, <1>4, <1>5, <1>6, <1>7, <1>8
    DEF Next, Advance, vars, PostLogout, ExpireSession, ExpireChallenge

\* A challenge is created for the user of a handler at "challenge", and an
\* attempt is counted by a handler at "counting".
ChallengeMoves(c) ==
    \/ /\ c \in Existing(challenge)
       /\ \/ challenge'[c].attempts = challenge[c].attempts
          \/ \E r \in Requests : pc[r] = "counting" /\ ch[r] = c
    \/ /\ c \notin Existing(challenge)
       /\ \E r \in Requests : pc[r] = "challenge" /\ challenge'[c].user = user[r]

\* A step brings no other row and no other count.
LEMMA ChallengesMove ==
    ASSUME TypeOK, [Next]_vars
    PROVE  \A c \in Existing(challenge)' : ChallengeMoves(c)
  <1> USE ExistingRows DEF ChallengeMoves
  <1>1. CASE challenge' = challenge
    BY <1>1
  <1>2. ASSUME NEW r \in Requests, CreateChallenge(r)
        PROVE  \A c \in Existing(challenge)' : ChallengeMoves(c)
    <2> PICK c \in Challenges :
              /\ challenge[c] = None
              /\ challenge' = [challenge EXCEPT ![c] =
                    [user |-> user[r], attempts |-> 0, used |-> FALSE, expired |-> FALSE]]
      BY <1>2 DEF CreateChallenge
    <2>1. pc[r] = "challenge" /\ challenge'[c].user = user[r] /\ c \notin Existing(challenge)
      BY <1>2 DEF CreateChallenge, Existing, TypeOK, TablesOK
    <2>2. ASSUME NEW d \in Existing(challenge)', d # c
          PROVE  d \in Existing(challenge) /\ challenge'[d] = challenge[d]
      BY <2>2 DEF Existing, TypeOK, TablesOK
    <2> QED BY <2>1, <2>2
  <1>3. ASSUME NEW c \in Existing(challenge), NEW row \in ChallengeRow,
               challenge' = [challenge EXCEPT ![c] = row],
               \/ row.attempts = challenge[c].attempts
               \/ \E r \in Requests : pc[r] = "counting" /\ ch[r] = c
        PROVE  \A d \in Existing(challenge)' : ChallengeMoves(d)
    <2>1. /\ Existing(challenge') = Existing(challenge)
          /\ challenge'[c] = row
          /\ \A d \in Challenges \ {c} : challenge'[d] = challenge[d]
      BY <1>3, UpdateChallenge
    <2> QED BY <1>3, <2>1
  <1>4. ASSUME NEW r \in Requests, IncrementAttempts(r)
        PROVE  \A c \in Existing(challenge)' : ChallengeMoves(c)
    <2> DEFINE row == [challenge[ch[r]] EXCEPT !.attempts = challenge[ch[r]].attempts + 1]
    <2>1. ch[r] \in Existing(challenge) /\ pc[r] = "counting"
      BY <1>4 DEF IncrementAttempts, TypeOK, PointOK
    <2>2. row \in ChallengeRow
      BY <2>1, ChallengeRows
    <2>3. challenge' = [challenge EXCEPT ![ch[r]] = row]
      BY <1>4 DEF IncrementAttempts
    <2> HIDE DEF row
    <2> QED BY <1>3, <2>1, <2>2, <2>3
  <1>5. ASSUME NEW r \in Requests, MarkUsed(r)
        PROVE  \A c \in Existing(challenge)' : ChallengeMoves(c)
    <2> DEFINE row == [challenge[ch[r]] EXCEPT !.used = TRUE]
    <2>1. ch[r] \in Existing(challenge)
      BY <1>5 DEF MarkUsed, TypeOK, PointOK
    <2>2. row \in ChallengeRow /\ row.attempts = challenge[ch[r]].attempts
      BY <2>1, ChallengeRows DEF ChallengeRow
    <2>3. challenge' = [challenge EXCEPT ![ch[r]] = row]
      BY <1>5 DEF MarkUsed, Marked
    <2> HIDE DEF row
    <2> QED BY <1>3, <2>1, <2>2, <2>3
  <1>6. ASSUME NEW c \in Challenges, ExpireChallenge(c)
        PROVE  \A d \in Existing(challenge)' : ChallengeMoves(d)
    <2> DEFINE row == [challenge[c] EXCEPT !.expired = TRUE]
    <2>1. c \in Existing(challenge)
      BY <1>6 DEF ExpireChallenge
    <2>2. row \in ChallengeRow /\ row.attempts = challenge[c].attempts
      BY <2>1, ChallengeRows DEF ChallengeRow
    <2>3. challenge' = [challenge EXCEPT ![c] = row]
      BY <1>6 DEF ExpireChallenge
    <2> HIDE DEF row
    <2> QED BY <1>3, <2>1, <2>2, <2>3
  <1> QED
    BY <1>1, <1>2, <1>4, <1>5, <1>6
    DEF Next, Advance, vars, Login, SendOTPEmail, VerifyMFA, CreateSession,
        CompleteAuthorizationRequest, AnswerVerifyMFA, PostLogout, PostWithdraw,
        Withdraw, Commit, Fail, ExpireSession

\* What CreateSession stores, and for whom.
Opens(r, s) ==
    /\ pc[r] = "inserting"
    /\ s \in Sessions /\ s \notin Existing(session)
    /\ Existing(session)' = Existing(session) \cup {s}
    /\ session'[s].from = ch[r] /\ session'[s].user = user[r]
    /\ pc'[r] = "completing" /\ sess'[r] = s /\ user'[r] = user[r]
    /\ \A q \in Requests \ {r} :
          pc'[q] = pc[q] /\ ch'[q] = ch[q] /\ sess'[q] = sess[q] /\ user'[q] = user[q]

LEMMA CreateSessionOpens ==
    ASSUME TypeOK, NEW r \in Requests, CreateSession(r)
    PROVE  \E s \in Sessions : Opens(r, s)
  <1> PICK s \in Sessions :
            /\ session[s] = None
            /\ session' = [session EXCEPT ![s] =
                  [user |-> user[r], from |-> ch[r], revoked |-> FALSE, expired |-> FALSE]]
            /\ sess' = [sess EXCEPT ![r] = s]
    BY DEF CreateSession
  <1> DEFINE row == [user |-> user[r], from |-> ch[r], revoked |-> FALSE, expired |-> FALSE]
  <1>1. row \in SessionRow
    BY ExistingRows DEF CreateSession, TypeOK, PointOK, SessionRow
  <1>2. /\ Existing(session)' = Existing(session) \cup {s} /\ session'[s] = row
        /\ s \notin Existing(session)
    BY <1>1, StoreSession DEF Existing
  <1>3. session'[s].from = ch[r] /\ session'[s].user = user[r]
    BY <1>2
  <1>4. /\ pc[r] = "inserting" /\ pc'[r] = "completing" /\ sess'[r] = s
        /\ user'[r] = user[r]
        /\ \A q \in Requests \ {r} :
              pc'[q] = pc[q] /\ ch'[q] = ch[q] /\ sess'[q] = sess[q] /\ user'[q] = user[q]
    BY DEF CreateSession, Goto, TypeOK, LocalsOK
  <1> QED BY <1>2, <1>3, <1>4 DEF Opens

\* No other step stores a session.
LEMMA OnlyCreateSessionOpens ==
    ASSUME TypeOK, [Next]_vars
    PROVE  \/ Existing(session)' = Existing(session)
           \/ \E r \in Requests : CreateSession(r)
  <1>1. Existing(session) \subseteq Existing(session)'
    BY SessionsKept DEF SessionKept
  <1>2. ASSUME NEW r \in Requests, Commit(r) PROVE Existing(session)' \subseteq Existing(session)
    BY <1>2 DEF Commit, Existing, TypeOK, TablesOK, PointOK
  <1>3. ASSUME NEW s \in Sessions, PostLogout(s) \/ ExpireSession(s)
        PROVE  Existing(session)' \subseteq Existing(session)
    <2>1. s \in Existing(session)
      BY <1>3 DEF PostLogout, ExpireSession, Existing, TypeOK, TablesOK
    <2> QED BY <1>3, <2>1 DEF PostLogout, ExpireSession, Existing, TypeOK, TablesOK
  <1>4. CASE session' = session
    BY <1>4
  <1> QED
    BY <1>1, <1>2, <1>3, <1>4
    DEF Next, Advance, vars, Login, CreateChallenge, SendOTPEmail, VerifyMFA,
        IncrementAttempts, MarkUsed, CompleteAuthorizationRequest, AnswerVerifyMFA,
        PostWithdraw, Withdraw, Fail, ExpireChallenge

\* A step opens a session only from the challenge of a handler at "inserting".
LEMMA SessionsMove ==
    ASSUME TypeOK, [Next]_vars, NEW c \in Challenges
    PROVE  From(c)' = From(c) \/ \E r \in Requests : pc[r] = "inserting" /\ ch[r] = c
  <1>1. CASE Existing(session)' = Existing(session)
    BY <1>1, SessionsKept DEF From, SessionKept
  <1>2. ASSUME NEW r \in Requests, NEW s \in Sessions, Opens(r, s)
        PROVE  From(c)' = From(c) \/ (pc[r] = "inserting" /\ ch[r] = c)
    BY <1>2, SessionsKept DEF Opens, From, SessionKept
  <1> QED BY <1>1, <1>2, OnlyCreateSessionOpens, CreateSessionOpens

\* A withdrawal is never undone.
LEMMA StatusKept ==
    ASSUME TypeOK, [Next]_vars, NEW u \in Users, status[u] = "withdrawn"
    PROVE  status'[u] = "withdrawn"
  <1>1. ASSUME NEW r \in Requests, Commit(r) PROVE status'[u] = "withdrawn"
    BY <1>1 DEF Commit, TypeOK, TablesOK
  <1>2. CASE status' = status
    BY <1>2
  <1> QED
    BY <1>1, <1>2
    DEF Next, Advance, vars, Login, CreateChallenge, SendOTPEmail, VerifyMFA,
        IncrementAttempts, MarkUsed, CreateSession, CompleteAuthorizationRequest,
        AnswerVerifyMFA, PostLogout, PostWithdraw, Withdraw, Fail, ExpireSession,
        ExpireChallenge

\* Once a user is withdrawn and no login that read the old status is under
\* way, that stays so and the user gets no further challenge, for ever.
THEOREM WithdrawalClosesLogin == Spec => NoLoginAfterWithdraw
  <1> SUFFICES Spec => [][\A u \in Users : LoginClosed(u) =>
                  LoginClosed(u)' /\ ChallengesOf(u)' = ChallengesOf(u)]_vars
    BY DEF NoLoginAfterWithdraw
  <1>1. ASSUME TypeOK, TypeOK', [Next]_vars, NEW u \in Users, LoginClosed(u)
        PROVE  LoginClosed(u)' /\ ChallengesOf(u)' = ChallengesOf(u)
    <2>1. status'[u] = "withdrawn"
      BY <1>1, StatusKept DEF LoginClosed
    <2>2. ~LoggingIn(u)'
      <3>1. \A r \in Requests : ~(pc[r] = "challenge" /\ user[r] = u)
        BY <1>1 DEF LoginClosed, LoggingIn
      <3>2. CASE UNCHANGED <<pc, user, ch>>
        BY <3>1, <3>2 DEF LoggingIn
      <3>3. ASSUME NEW r \in Requests, OthersKept(r), Moves(r) PROVE ~LoggingIn(u)'
        <4>1. ~(pc'[r] = "challenge" /\ user'[r] = u)
          BY <1>1, <3>3 DEF Moves, MayLogin, LoginClosed
        <4> QED BY <3>1, <3>3, <4>1 DEF OthersKept, LoggingIn
      <3> QED BY <1>1, <3>2, <3>3, HandlersMove
    <2>3. ChallengesOf(u) \subseteq ChallengesOf(u)'
      BY <1>1, ChallengesKept DEF ChallengesOf, ChallengeKept
    <2>4. ASSUME NEW c \in ChallengesOf(u)' PROVE c \in ChallengesOf(u)
      <3>1. c \in Existing(challenge)' /\ challenge'[c].user = u
        BY <2>4 DEF ChallengesOf
      <3>2. c \in Existing(challenge)
        BY <1>1, <3>1, ChallengesMove DEF ChallengeMoves, LoginClosed, LoggingIn
      <3> QED BY <1>1, <3>1, <3>2, ChallengesKept DEF ChallengesOf, ChallengeKept
    <2> QED BY <2>1, <2>2, <2>3, <2>4 DEF LoginClosed
  <1>2. TypeOK /\ TypeOK' /\ [Next]_vars =>
            [\A u \in Users : LoginClosed(u) =>
                LoginClosed(u)' /\ ChallengesOf(u)' = ChallengesOf(u)]_vars
    BY <1>1
  <1> QED BY <1>2, TypeCorrect, PTL DEF Spec

-------------------------------------------------------------------------------
(* A spent challenge stays spent *)

\* A spent challenge that no handler is verifying is never verified, counted
\* or turned into a session again.
THEOREM SpentChallengeIsSealed == Spec => SealedChallenge
  <1> SUFFICES Spec => [][\A c \in Challenges : Sealed(c) =>
                  /\ Sealed(c)'
                  /\ From(c)' = From(c)
                  /\ challenge'[c].attempts = challenge[c].attempts]_vars
    BY DEF SealedChallenge
  <1>1. ASSUME TypeOK, TypeOK', [Next]_vars, NEW c \in Challenges, Sealed(c)
        PROVE  /\ Sealed(c)'
               /\ From(c)' = From(c)
               /\ challenge'[c].attempts = challenge[c].attempts
    <2>1. c \in Existing(challenge) /\ challenge[c].used
      BY <1>1, ExistingRows DEF Sealed
    <2>2. \A r \in Requests : ~(pc[r] \in {"counting", "marking", "inserting"} /\ ch[r] = c)
      BY <1>1 DEF Sealed, Verifying
    <2>3. c \in Existing(challenge)' /\ challenge'[c].used
      BY <1>1, <2>1, ChallengesKept DEF ChallengeKept
    <2>4. Verifying(c)' = {}
      <3>1. CASE UNCHANGED <<pc, user, ch>>
        BY <2>2, <3>1 DEF Verifying
      <3>2. ASSUME NEW r \in Requests, OthersKept(r), Moves(r) PROVE Verifying(c)' = {}
        <4>1. ~(pc'[r] \in {"counting", "marking", "inserting"} /\ ch'[r] = c)
          BY <2>1, <2>2, <3>2 DEF Moves, MayVerify
        <4> QED BY <2>2, <3>2, <4>1 DEF OthersKept, Verifying
      <3> QED BY <1>1, <3>1, <3>2, HandlersMove
    <2>5. From(c)' = From(c)
      BY <1>1, <2>2, SessionsMove
    <2>6. challenge'[c].attempts = challenge[c].attempts
      BY <1>1, <2>1, <2>2, <2>3, ChallengesMove DEF ChallengeMoves
    <2>7. challenge'[c] # None
      BY <2>3 DEF Existing
    <2> QED BY <2>3, <2>4, <2>5, <2>6, <2>7 DEF Sealed
  <1>2. TypeOK /\ TypeOK' /\ [Next]_vars =>
            [\A c \in Challenges : Sealed(c) =>
                /\ Sealed(c)'
                /\ From(c)' = From(c)
                /\ challenge'[c].attempts = challenge[c].attempts]_vars
    BY <1>1
  <1> QED BY <1>2, TypeCorrect, PTL DEF Spec

-------------------------------------------------------------------------------
(* Sessions that one challenge opens *)

\* The sessions of a challenge, and those that verifications in progress may
\* still open, are no more than the handlers: one that opens a session gives up
\* its place, and none takes a place once the challenge is spent.
PerChallengeInv ==
    \A c \in Challenges :
        /\ IsFiniteSet(From(c))
        /\ Cardinality(From(c)) + Cardinality(Verifying(c)) <= Cardinality(Requests)

\* A step opens no session and lets no verification begin, lets one begin of a
\* challenge that has no session, or turns a verification into a session.
LEMMA VerificationsMove ==
    ASSUME TypeOK, BackedInv, [Next]_vars, NEW c \in Challenges
    PROVE  \/ From(c)' = From(c) /\ Verifying(c)' \subseteq Verifying(c)
           \/ From(c)' = {}
           \/ \E r \in Verifying(c), s \in Sessions :
                  From(c)' = From(c) \cup {s} /\ Verifying(c)' = Verifying(c) \ {r}
  <1>1. ASSUME NEW r \in Requests, NEW s \in Sessions, Opens(r, s), ch[r] = c
        PROVE  /\ r \in Verifying(c)
               /\ From(c)' = From(c) \cup {s} /\ Verifying(c)' = Verifying(c) \ {r}
    <2>1. r \in Verifying(c) /\ Verifying(c)' = Verifying(c) \ {r}
      BY <1>1 DEF Opens, Verifying
    <2>2. From(c)' = From(c) \cup {s}
      BY <1>1, SessionsKept DEF Opens, From, SessionKept
    <2> QED BY <2>1, <2>2
  <1>2. ASSUME NEW r \in Requests, NEW s \in Sessions, Opens(r, s), ch[r] # c
        PROVE  From(c)' = From(c) /\ Verifying(c)' \subseteq Verifying(c)
    <2>1. Verifying(c)' \subseteq Verifying(c)
      BY <1>2 DEF Opens, Verifying
    <2>2. From(c)' = From(c)
      BY <1>2, SessionsKept DEF Opens, From, SessionKept
    <2> QED BY <2>1, <2>2
  <1>3. CASE Existing(session)' = Existing(session)
    <2>1. From(c)' = From(c)
      BY <1>3, SessionsKept DEF From, SessionKept
    <2>2. CASE UNCHANGED <<pc, user, ch>>
      BY <2>1, <2>2 DEF Verifying
    <2>3. ASSUME NEW r \in Requests, OthersKept(r), Moves(r)
          PROVE  From(c)' = {} \/ Verifying(c)' \subseteq Verifying(c)
      <3>1. CASE pc'[r] = "counting" /\ ch'[r] = c /\ ~challenge[c].used
        BY <2>1, <3>1 DEF BackedInv, SessionBacked, From
      <3>2. CASE ~(pc'[r] \in {"counting", "marking", "inserting"} /\ ch'[r] = c)
        BY <2>3, <3>2 DEF OthersKept, Verifying
      <3>3. CASE pc[r] \in {"counting", "marking"} /\ ch[r] = ch'[r]
        BY <2>3, <3>3 DEF OthersKept, Verifying
      <3> QED BY <2>3, <3>1, <3>2, <3>3 DEF Moves, MayVerify
    <2> QED BY <2>1, <2>2, <2>3, HandlersMove
  <1> QED BY <1>1, <1>2, <1>3, OnlyCreateSessionOpens, CreateSessionOpens

LEMMA PerChallengeStep ==
    TypeOK /\ BackedInv /\ PerChallengeInv /\ [Next]_vars => PerChallengeInv'
  <1> SUFFICES ASSUME TypeOK, BackedInv, PerChallengeInv, [Next]_vars, NEW c \in Challenges
               PROVE  /\ IsFiniteSet(From(c)')
                      /\ Cardinality(From(c)') + Cardinality(Verifying(c)')
                            <= Cardinality(Requests)
    BY DEF PerChallengeInv
  <1>1. Verifying(c) \in SUBSET Requests /\ Verifying(c)' \in SUBSET Requests
    BY DEF Verifying
  <1>2. /\ IsFiniteSet(Verifying(c)) /\ Cardinality(Verifying(c)) \in Nat
        /\ Cardinality(Verifying(c)') \in Nat
        /\ Cardinality(Verifying(c)') <= Cardinality(Requests)
        /\ Cardinality(Requests) \in Nat
    BY <1>1, CountingFinite
  <1>3. /\ IsFiniteSet(From(c)) /\ Cardinality(From(c)) \in Nat
        /\ Cardinality(From(c)) + Cardinality(Verifying(c)) <= Cardinality(Requests)
    BY FS_CardinalityType DEF PerChallengeInv
  <1>4. CASE From(c)' = From(c) /\ Verifying(c)' \subseteq Verifying(c)
    <2>1. Cardinality(Verifying(c)') <= Cardinality(Verifying(c))
      BY <1>1, <1>4, CountingFinite
    <2> QED BY <1>2, <1>3, <1>4, <2>1
  <1>5. CASE From(c)' = {}
    BY <1>2, <1>5, FS_EmptySet
  <1>6. ASSUME NEW r \in Verifying(c), NEW s \in Sessions,
               From(c)' = From(c) \cup {s}, Verifying(c)' = Verifying(c) \ {r}
        PROVE  /\ IsFiniteSet(From(c)')
               /\ Cardinality(From(c)') + Cardinality(Verifying(c)') <= Cardinality(Requests)
    <2>1. /\ IsFiniteSet(From(c)')
          /\ \/ Cardinality(From(c)') = Cardinality(From(c))
             \/ Cardinality(From(c)') = Cardinality(From(c)) + 1
      BY <1>3, <1>6, FS_AddElement
    <2>2. Cardinality(Verifying(c)') = Cardinality(Verifying(c)) - 1
      BY <1>2, <1>6, FS_RemoveElement
    <2> QED BY <1>2, <1>3, <2>1, <2>2
  <1> QED BY <1>4, <1>5, <1>6, VerificationsMove

LEMMA BackedInit == Init => BackedInv
  BY DEF Init, BackedInv, SessionBacked, Existing

\* Concurrent verifications may open several sessions from one challenge, but
\* in the whole life of the challenge no more than the handlers that run at once.
THEOREM SessionsPerChallengeBounded == Spec => []SessionsPerChallenge
  <1>1. Init => PerChallengeInv
    <2> SUFFICES ASSUME Init, NEW c \in Challenges
                 PROVE  /\ IsFiniteSet(From(c))
                        /\ Cardinality(From(c)) + Cardinality(Verifying(c))
                              <= Cardinality(Requests)
      BY DEF PerChallengeInv
    <2>1. From(c) = {} /\ Verifying(c) = {}
      BY DEF Init, From, Verifying, Existing
    <2> QED BY <2>1, CountingFinite, FS_EmptySet
  <1>2. PerChallengeInv => SessionsPerChallenge
    <2> SUFFICES ASSUME PerChallengeInv, NEW c \in Challenges
                 PROVE  Cardinality(From(c)) <= Cardinality(Requests)
      BY DEF SessionsPerChallenge
    <2>1. /\ Cardinality(From(c)) \in Nat
          /\ Cardinality(From(c)) + Cardinality(Verifying(c)) <= Cardinality(Requests)
      BY FS_CardinalityType DEF PerChallengeInv
    <2>2. Cardinality(Verifying(c)) \in Nat /\ Cardinality(Requests) \in Nat
      BY CountingFinite DEF Verifying
    <2> QED BY <2>1, <2>2
  <1> QED BY <1>1, <1>2, BackedInit, BackedStep, PerChallengeStep, TypeCorrect, PTL DEF Spec

-------------------------------------------------------------------------------
(* No authorization request is completed without the second factor *)

\* A handler that is to complete a request holds a session of its own user.
CompletedInv ==
    /\ CompletedAfterMFA
    /\ \A r \in Requests : pc[r] = "completing" => session[sess[r]].user = user[r]

\* A handler comes to "completing" only by storing its session.
LEMMA CompletingMoves ==
    ASSUME TypeOK, [Next]_vars, NEW q \in Requests, pc'[q] = "completing"
    PROVE  \/ pc[q] = "completing" /\ sess'[q] = sess[q] /\ user'[q] = user[q]
           \/ CreateSession(q)
  <1>1. ASSUME NEW r \in Requests, Finish(r)
        PROVE  pc[q] = "completing" /\ sess'[q] = sess[q] /\ user'[q] = user[q]
    BY <1>1 DEF Finish, Goto, TypeOK, LocalsOK
  <1>2. ASSUME NEW r \in Requests,
               \/ \E u \in Users : Login(r, u)
               \/ \E c \in Challenges : VerifyMFA(r, c)
               \/ \E s \in Sessions : PostWithdraw(r, s)
               \/ CreateChallenge(r) \/ MarkUsed(r) \/ Withdraw(r)
               \/ CompleteAuthorizationRequest(r)
        PROVE  pc[q] = "completing" /\ sess'[q] = sess[q] /\ user'[q] = user[q]
    BY <1>2 DEF Login, VerifyMFA, PostWithdraw, CreateChallenge, MarkUsed, Withdraw,
                CompleteAuthorizationRequest, Goto, TypeOK, LocalsOK
  <1>3. ASSUME NEW r \in Requests, IncrementAttempts(r)
        PROVE  pc[q] = "completing" /\ sess'[q] = sess[q] /\ user'[q] = user[q]
    <2>1. CASE Goto(r, "marking") /\ user' = [user EXCEPT ![r] = challenge[ch[r]].user]
                 /\ UNCHANGED <<ch, sess, sweep>>
      BY <2>1 DEF Goto, TypeOK, LocalsOK
    <2> QED BY <1>1, <1>3, <2>1 DEF IncrementAttempts
  <1>4. ASSUME NEW r \in Requests, CreateSession(r)
        PROVE  \/ pc[q] = "completing" /\ sess'[q] = sess[q] /\ user'[q] = user[q]
               \/ CreateSession(q)
    BY <1>4, CreateSessionOpens DEF Opens
  <1>5. CASE UNCHANGED <<pc, sess, user>>
    BY <1>5
  <1> QED
    BY <1>1, <1>2, <1>3, <1>4, <1>5
    DEF Next, Advance, vars, SendOTPEmail, AnswerVerifyMFA, Commit, Fail, PostLogout,
        ExpireSession, ExpireChallenge

LEMMA CompletedStep == TypeOK /\ CompletedInv /\ [Next]_vars => CompletedInv'
  <1> SUFFICES ASSUME TypeOK, CompletedInv, [Next]_vars PROVE CompletedInv'
    OBVIOUS
  <1>1. \A s \in Existing(session) : SessionKept(s)
    BY SessionsKept
  <1>2. ASSUME NEW r \in Requests, pc'[r] = "completing"
        PROVE  session'[sess'[r]].user = user'[r]
    <2>1. CASE pc[r] = "completing" /\ sess'[r] = sess[r] /\ user'[r] = user[r]
      <3>1. sess[r] \in Existing(session) /\ session[sess[r]].user = user[r]
        BY <2>1 DEF TypeOK, PointOK, CompletedInv
      <3> QED BY <1>1, <2>1, <3>1 DEF SessionKept
    <2>2. CASE CreateSession(r)
      BY <2>2, CreateSessionOpens DEF Opens
    <2> QED BY <1>2, <2>1, <2>2, CompletingMoves
  <1>3. ASSUME NEW q \in AuthRequests, authUser'[q] # None, authUser'[q] = authUser[q]
        PROVE  \E s \in Existing(session)' : session'[s].user = authUser'[q]
    <2>1. PICK s \in Existing(session) : session[s].user = authUser[q]
      BY <1>3 DEF CompletedInv, CompletedAfterMFA
    <2> QED BY <1>1, <1>3, <2>1 DEF SessionKept
  <1>4. ASSUME NEW r \in Requests, CompleteAuthorizationRequest(r) PROVE CompletedAfterMFA'
    <2>1. sess[r] \in Existing(session) /\ session[sess[r]].user = user[r]
      BY <1>4 DEF CompleteAuthorizationRequest, TypeOK, PointOK, CompletedInv
    <2>2. sess[r] \in Existing(session)' /\ session'[sess[r]].user = user[r]
      BY <1>1, <2>1 DEF SessionKept
    <2>3. \A q \in AuthRequests : authUser'[q] = authUser[q] \/ authUser'[q] = user[r]
      BY <1>4 DEF CompleteAuthorizationRequest, TypeOK, TablesOK
    <2> QED BY <1>3, <2>2, <2>3 DEF CompletedAfterMFA
  <1>5. ASSUME authUser' = authUser PROVE CompletedAfterMFA'
    BY <1>3, <1>5 DEF CompletedAfterMFA
  <1>6. CompletedAfterMFA'
    BY <1>4, <1>5
    DEF Next, Advance, vars, Login, CreateChallenge, SendOTPEmail, VerifyMFA,
        IncrementAttempts, MarkUsed, CreateSession, AnswerVerifyMFA, PostLogout,
        PostWithdraw, Withdraw, Commit, Fail, ExpireSession, ExpireChallenge
  <1> QED BY <1>2, <1>6 DEF CompletedInv

\* An authorization request is completed only for a user whose login session
\* was stored before, whatever the handler does afterwards.
THEOREM CompletionNeedsMFA == Spec => []CompletedAfterMFA
  <1>1. Init => CompletedInv
    BY DEF Init, CompletedInv, CompletedAfterMFA
  <1>2. CompletedInv => CompletedAfterMFA
    BY DEF CompletedInv
  <1> QED BY <1>1, <1>2, TypeCorrect, CompletedStep, PTL DEF Spec

-------------------------------------------------------------------------------
(* Withdrawal ends the sessions stored before it *)

\* A session is revoked, or its user is active and every withdrawal of the user
\* that has run its UPDATEs has it in its sweep.
Doomed(s, u) ==
    /\ s \in Existing(session) /\ session[s].user = u
    /\ \/ session[s].revoked
       \/ /\ status[u] = "active"
          /\ \A r \in Requests : pc[r] = "committing" /\ user[r] = u => s \in sweep[r]

\* What a step that is not a commit does to open withdrawals.
LEMMA SweepsMove ==
    ASSUME TypeOK, [Next]_vars, NEW r \in Requests, pc'[r] = "committing"
    PROVE  \/ pc[r] = "committing" /\ sweep'[r] = sweep[r] /\ user'[r] = user[r]
           \/ sweep'[r] = Swept(user'[r])
  <1>1. ASSUME NEW q \in Requests, Finish(q)
        PROVE  pc[r] = "committing" /\ sweep'[r] = sweep[r] /\ user'[r] = user[r]
    BY <1>1 DEF Finish, Goto, TypeOK, LocalsOK
  <1>2. ASSUME NEW q \in Requests,
               \/ \E u \in Users : Login(q, u)
               \/ \E c \in Challenges : VerifyMFA(q, c)
               \/ \E s \in Sessions : PostWithdraw(q, s)
               \/ CreateChallenge(q) \/ MarkUsed(q) \/ CreateSession(q)
               \/ CompleteAuthorizationRequest(q)
        PROVE  pc[r] = "committing" /\ sweep'[r] = sweep[r] /\ user'[r] = user[r]
    BY <1>2 DEF Login, VerifyMFA, PostWithdraw, CreateChallenge, MarkUsed, CreateSession,
                CompleteAuthorizationRequest, Goto, TypeOK, LocalsOK
  <1>3. ASSUME NEW q \in Requests, IncrementAttempts(q)
        PROVE  pc[r] = "committing" /\ sweep'[r] = sweep[r] /\ user'[r] = user[r]
    <2>1. CASE Goto(q, "marking") /\ user' = [user EXCEPT ![q] = challenge[ch[q]].user]
                 /\ UNCHANGED <<ch, sess, sweep>>
      BY <2>1 DEF Goto, TypeOK, LocalsOK
    <2> QED BY <1>1, <1>3, <2>1 DEF IncrementAttempts
  <1>4. ASSUME NEW q \in Requests, Withdraw(q)
        PROVE  \/ pc[r] = "committing" /\ sweep'[r] = sweep[r] /\ user'[r] = user[r]
               \/ sweep'[r] = Swept(user'[r])
    BY <1>4 DEF Withdraw, Goto, TypeOK, LocalsOK
  <1>5. CASE UNCHANGED <<pc, sweep, user>>
    BY <1>5
  <1> QED
    BY <1>1, <1>2, <1>3, <1>4, <1>5
    DEF Next, Advance, vars, SendOTPEmail, AnswerVerifyMFA, Commit, Fail, PostLogout,
        ExpireSession, ExpireChallenge

\* Only a commit changes a status; it revokes its sweep.
LEMMA StatusMoves ==
    ASSUME TypeOK, [Next]_vars, NEW u \in Users, NEW s \in Existing(session)
    PROVE  \/ status'[u] = status[u]
           \/ \E r \in Requests : /\ pc[r] = "committing" /\ user[r] = u
                                  /\ s \in sweep[r] => session'[s].revoked
  <1>1. ASSUME NEW r \in Requests, Commit(r)
        PROVE  \/ status'[u] = status[u]
               \/ /\ pc[r] = "committing" /\ user[r] = u
                  /\ s \in sweep[r] => session'[s].revoked
    <2>1. s \in Sessions /\ session[s] \in SessionRow
      BY ExistingRows
    <2>2. s \in sweep[r] => session'[s] = [session[s] EXCEPT !.revoked = TRUE]
      BY <1>1, <2>1 DEF Commit
    <2>3. s \in sweep[r] => session'[s].revoked
      BY <2>1, <2>2 DEF SessionRow
    <2>4. pc[r] = "committing" /\ (user[r] = u \/ status'[u] = status[u])
      BY <1>1 DEF Commit, TypeOK, TablesOK
    <2> QED BY <2>3, <2>4
  <1>2. CASE status' = status
    BY <1>2
  <1> QED
    BY <1>1, <1>2
    DEF Next, Advance, vars, Login, CreateChallenge, SendOTPEmail, VerifyMFA,
        IncrementAttempts, MarkUsed, CreateSession, CompleteAuthorizationRequest,
        AnswerVerifyMFA, PostLogout, PostWithdraw, Withdraw, Fail, ExpireSession,
        ExpireChallenge

LEMMA DoomedStays ==
    ASSUME TypeOK, [Next]_vars, NEW s \in Sessions, NEW u \in Users, Doomed(s, u)
    PROVE  Doomed(s, u)'
  <1>1. s \in Existing(session) /\ session[s].user = u
    BY DEF Doomed
  <1>2. SessionKept(s)
    BY <1>1, SessionsKept
  <1>3. CASE session'[s].revoked
    BY <1>1, <1>2, <1>3 DEF Doomed, SessionKept
  <1>4. CASE ~session'[s].revoked
    <2>1. /\ ~session[s].revoked /\ status[u] = "active"
          /\ \A r \in Requests : pc[r] = "committing" /\ user[r] = u => s \in sweep[r]
      BY <1>2, <1>4 DEF Doomed, SessionKept
    <2>2. status'[u] = "active"
      BY <1>1, <1>4, <2>1, StatusMoves
    <2>3. ASSUME NEW r \in Requests, pc'[r] = "committing", user'[r] = u
          PROVE  s \in sweep'[r]
      <3>1. s \in Swept(u)
        BY <1>1, <2>1, ExistingRows DEF Swept, Existing
      <3> QED BY <2>1, <2>3, <3>1, SweepsMove
    <2> QED BY <1>1, <1>2, <2>2, <2>3 DEF Doomed, SessionKept
  <1> QED BY <1>3, <1>4

\* A session stored while its user is active and no withdrawal of the user is
\* between its UPDATEs and its commit is dead whenever the user is withdrawn.
THEOREM WithdrawalEndsSessions == Spec => WithdrawalEndsEarlierSessions
  <1> SUFFICES ASSUME NEW s \in Sessions, NEW u \in Users
               PROVE  Spec => [](StoredBefore(s, u) =>
                                    [](status[u] = "withdrawn" => ~GetSession(s)))
    BY DEF WithdrawalEndsEarlierSessions
  <1>1. StoredBefore(s, u) => Doomed(s, u)
    BY DEF StoredBefore, Doomed, Committing
  <1>2. TypeOK /\ Doomed(s, u) /\ [Next]_vars => Doomed(s, u)'
    BY DoomedStays
  <1>3. Doomed(s, u) => (status[u] = "withdrawn" => ~GetSession(s))
    BY DEF Doomed, GetSession
  <1> QED BY <1>1, <1>2, <1>3, TypeCorrect, PTL DEF Spec

-------------------------------------------------------------------------------
(* A withdrawn user with no way in gets none *)

\* A handler is about u; a challenge of u may be verified; a session of u works.
InHand(u) ==
    \E r \in Requests : user[r] = u \/ (ch[r] # None /\ challenge[ch[r]].user = u)
Verifiable(u) ==
    \E c \in Existing(challenge) : challenge[c].user = u /\ MayVerify(challenge[c])
Usable(u) == \E s \in Existing(session) : session[s].user = u /\ GetSession(s)

CutOff(u) == status[u] = "withdrawn" /\ ~InHand(u) /\ ~Verifiable(u) /\ ~Usable(u)

\* Where a handler takes its user and its challenge from.
UserFrom(r) ==
    \/ user'[r] = user[r] \/ user'[r] = None
    \/ \E u \in Users : MayLogin(u) /\ user'[r] = u
    \/ ch[r] # None /\ user'[r] = challenge[ch[r]].user
    \/ \E s \in Existing(session) : GetSession(s) /\ user'[r] = session[s].user

ChallengeFrom(r) ==
    \/ ch'[r] = ch[r] \/ ch'[r] = None
    \/ \E c \in Existing(challenge) : MayVerify(challenge[c]) /\ ch'[r] = c
    \/ \E c \in Existing(challenge)' \ Existing(challenge) : ch'[r] = c

LEMMA HandsMove ==
    ASSUME TypeOK, [Next]_vars, NEW r \in Requests
    PROVE  UserFrom(r) /\ ChallengeFrom(r)
  <1> USE DEF UserFrom, ChallengeFrom
  <1>1. ASSUME NEW q \in Requests, Finish(q) PROVE UserFrom(r) /\ ChallengeFrom(r)
    BY <1>1 DEF Finish, TypeOK, LocalsOK
  <1>2. ASSUME NEW q \in Requests, NEW u \in Users, Login(q, u)
        PROVE  UserFrom(r) /\ ChallengeFrom(r)
    BY <1>2 DEF Login, TypeOK, LocalsOK
  <1>3. ASSUME NEW q \in Requests, NEW c \in Challenges, VerifyMFA(q, c)
        PROVE  UserFrom(r) /\ ChallengeFrom(r)
    BY <1>3 DEF VerifyMFA, TypeOK, TablesOK, LocalsOK
  <1>4. ASSUME NEW q \in Requests, NEW s \in Sessions, PostWithdraw(q, s)
        PROVE  UserFrom(r) /\ ChallengeFrom(r)
    BY <1>4 DEF PostWithdraw, TypeOK, TablesOK, LocalsOK
  <1>5. ASSUME NEW q \in Requests, CreateChallenge(q) PROVE UserFrom(r) /\ ChallengeFrom(r)
    <2> PICK c \in Challenges :
              /\ challenge[c] = None
              /\ challenge' = [challenge EXCEPT ![c] =
                    [user |-> user[q], attempts |-> 0, used |-> FALSE, expired |-> FALSE]]
              /\ ch' = [ch EXCEPT ![q] = c]
      BY <1>5 DEF CreateChallenge
    <2> DEFINE row == [user |-> user[q], attempts |-> 0, used |-> FALSE, expired |-> FALSE]
    <2>1. row \in ChallengeRow
      BY <1>5 DEF CreateChallenge, TypeOK, PointOK, ChallengeRow
    <2>2. Existing(challenge)' = Existing(challenge) \cup {c} /\ c \notin Existing(challenge)
      BY <2>1, StoreChallenge DEF Existing
    <2>3. user' = user /\ (ch'[r] = ch[r] \/ ch'[r] = c)
      BY <1>5 DEF CreateChallenge, TypeOK, LocalsOK
    <2> QED BY <2>2, <2>3
  <1>6. ASSUME NEW q \in Requests, IncrementAttempts(q) PROVE UserFrom(r) /\ ChallengeFrom(r)
    <2>1. CASE user' = [user EXCEPT ![q] = challenge[ch[q]].user] /\ ch' = ch
      <3>1. ch[q] # None
        BY <1>6, ExistingRows DEF IncrementAttempts, TypeOK, PointOK
      <3> QED BY <2>1, <3>1 DEF TypeOK, LocalsOK
    <2> QED BY <1>1, <1>6, <2>1 DEF IncrementAttempts
  <1>7. CASE UNCHANGED <<user, ch>>
    BY <1>7
  <1> HIDE DEF UserFrom, ChallengeFrom
  <1> QED
    BY <1>1, <1>2, <1>3, <1>4, <1>5, <1>6, <1>7
    DEF Next, Advance, vars, SendOTPEmail, MarkUsed, CreateSession,
        CompleteAuthorizationRequest, AnswerVerifyMFA, Withdraw, Commit, Fail,
        PostLogout, ExpireSession, ExpireChallenge

\* Who completes a request is the user of a handler.
LEMMA AuthUserMoves ==
    ASSUME TypeOK, [Next]_vars, NEW q \in AuthRequests
    PROVE  authUser'[q] = authUser[q] \/ \E r \in Requests : authUser'[q] = user[r]
  <1>1. ASSUME NEW r \in Requests, CompleteAuthorizationRequest(r)
        PROVE  authUser'[q] = authUser[q] \/ authUser'[q] = user[r]
    BY <1>1 DEF CompleteAuthorizationRequest, TypeOK, TablesOK
  <1>2. CASE authUser' = authUser
    BY <1>2
  <1> QED
    BY <1>1, <1>2
    DEF Next, Advance, vars, Login, CreateChallenge, SendOTPEmail, VerifyMFA,
        IncrementAttempts, MarkUsed, CreateSession, AnswerVerifyMFA, PostLogout,
        PostWithdraw, Withdraw, Commit, Fail, ExpireSession, ExpireChallenge

LEMMA CutOffStays ==
    ASSUME TypeOK, [Next]_vars, NEW u \in Users, CutOff(u)
    PROVE  /\ CutOff(u)'
           /\ \A q \in AuthRequests : authUser'[q] = u => authUser[q] = u
  <1> USE ExistingRows
  <1>1. /\ \A r \in Requests : user[r] # u /\ (ch[r] # None => challenge[ch[r]].user # u)
        /\ \A c \in Existing(challenge) : challenge[c].user = u => ~MayVerify(challenge[c])
        /\ \A s \in Existing(session) : session[s].user = u => ~GetSession(s)
    BY DEF CutOff, InHand, Verifiable, Usable
  <1>2. ASSUME NEW c \in Existing(challenge)' \ Existing(challenge)
        PROVE  challenge'[c].user # u
    BY <1>1, ChallengesMove DEF ChallengeMoves
  <1>3. ASSUME NEW c \in Challenges, challenge[c].user # u PROVE challenge'[c].user # u
    <2>1. CASE c \in Existing(challenge)
      BY <1>3, <2>1, ChallengesKept DEF ChallengeKept
    <2>2. CASE c \in Existing(challenge)' \ Existing(challenge)
      BY <1>2, <2>2
    <2>3. CASE c \notin Existing(challenge)' /\ c \notin Existing(challenge)
      <3>1. DOMAIN challenge = Challenges /\ DOMAIN challenge' = Challenges
        BY TypeStep DEF TypeOK, TablesOK
      <3>2. challenge[c] = None /\ challenge'[c] = None
        BY <2>3, <3>1 DEF Existing
      <3> QED BY <1>3, <3>2
    <2> QED BY <2>1, <2>2, <2>3
  <1>4. ASSUME NEW r \in Requests
        PROVE  user'[r] # u /\ (ch'[r] # None => challenge'[ch'[r]].user # u)
    <2>1. user'[r] # u
      BY <1>1, HandsMove DEF UserFrom, MayLogin, CutOff
    <2>2. ch[r] # None => ch[r] \in Challenges
      BY DEF TypeOK, LocalsOK
    <2>3. ASSUME ch'[r] # None PROVE challenge'[ch'[r]].user # u
      <3>1. CASE ch'[r] = ch[r]
        BY <1>1, <1>3, <2>2, <2>3, <3>1
      <3>2. ASSUME NEW c \in Existing(challenge), MayVerify(challenge[c])
            PROVE  challenge'[c].user # u
        BY <1>1, <1>3, <3>2
      <3> QED BY <1>2, <2>3, <3>1, <3>2, HandsMove DEF ChallengeFrom
    <2> QED BY <2>1, <2>3
  <1>5. ASSUME NEW c \in Existing(challenge)', challenge'[c].user = u
        PROVE  ~MayVerify(challenge'[c])
    <2>1. c \in Existing(challenge) /\ ChallengeKept(c)
      BY <1>2, <1>5, ChallengesKept
    <2>2. ~MayVerify(challenge[c]) /\ challenge[c] \in ChallengeRow
      BY <1>1, <1>5, <2>1 DEF ChallengeKept
    <2>3. challenge'[c] \in ChallengeRow
      BY <1>5, TypeStep DEF TypeOK, TablesOK, Existing
    <2> QED BY <2>1, <2>2, <2>3, MaxAttemptsAssumption DEF ChallengeKept, MayVerify, ChallengeRow
  <1>6. ASSUME NEW s \in Existing(session)', session'[s].user = u PROVE ~GetSession(s)'
    <2>1. CASE s \in Existing(session)
      <3>1. SessionKept(s)
        BY <2>1, SessionsKept
      <3>2. session[s].revoked \/ session[s].expired
        BY <1>1, <1>6, <2>1, <3>1 DEF SessionKept, GetSession, Existing
      <3> QED BY <3>1, <3>2 DEF SessionKept, GetSession
    <2>2. CASE s \notin Existing(session)
      BY <1>1, <1>6, <2>2, OnlyCreateSessionOpens, CreateSessionOpens DEF Opens
    <2> QED BY <2>1, <2>2
  <1>7. status'[u] = "withdrawn"
    BY StatusKept DEF CutOff
  <1>8. CutOff(u)'
    BY <1>4, <1>5, <1>6, <1>7 DEF CutOff, InHand, Verifiable, Usable
  <1>9. \A q \in AuthRequests : authUser'[q] = u => authUser[q] = u
    BY <1>1, AuthUserMoves
  <1> QED BY <1>8, <1>9
===============================================================================
