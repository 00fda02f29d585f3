--------------------------- MODULE Authorize_proofs ---------------------------
(***************************************************************************)
(* Theorems about Authorize, for any number of users, login handlers,      *)
(* visits, requests and codes, and however long the clock runs.            *)
(*                                                                         *)
(* What login does beside the visits is known from LoginMFA_proofs, whose  *)
(* lemmas are instantiated here as L: L has the definitions of MFA, and    *)
(* the lemmas of the first section say so.                                 *)
(***************************************************************************)
EXTENDS Authorize, FiniteSetTheorems, WellFoundedInduction, TLAPS

L == INSTANCE LoginMFA_proofs

USE NoneAssumption, NoRowAssumption

-------------------------------------------------------------------------------
(* Login, as Authorize has it *)

\* What LoginMFA assumes of its constants holds of those of Authorize.
LEMMA LoginAssumptions ==
    /\ None \notin Users \cup Challenges \cup Sessions
    /\ None \notin L!ChallengeRow /\ None \notin L!SessionRow
    /\ L!IsFiniteSet(Requests)
    /\ MaxAttempts \in Nat \ {0}
<1>1. L!IsFiniteSet(Requests)
  BY RequestsAssumption DEF L!IsFiniteSet, IsFiniteSet
<1> QED
  BY <1>1, NoLoginRowAssumption, MaxAttemptsAssumption
  DEF L!ChallengeRow, L!SessionRow, MFA!ChallengeRow, MFA!SessionRow

LEMMA SameState ==
    /\ loginVars = L!vars
    /\ MFA!Init <=> L!Init
    /\ MFA!TypeOK <=> L!TypeOK
    /\ MFA!Existing(session) = L!Existing(session)
    /\ MFA!Existing(challenge) = L!Existing(challenge)
    /\ \A s : MFA!GetSession(s) <=> L!GetSession(s)
    /\ \A row : MFA!MayVerify(row) <=> L!MayVerify(row)
<1>1. MFA!TypeOK <=> L!TypeOK
  BY DEF MFA!TypeOK, L!TypeOK, MFA!TablesOK, L!TablesOK, MFA!LocalsOK, L!LocalsOK,
         MFA!PointOK, L!PointOK, MFA!Existing, L!Existing, MFA!PCs, L!PCs,
         MFA!ChallengeRow, L!ChallengeRow, MFA!SessionRow, L!SessionRow
<1> QED
  BY <1>1 DEF loginVars, L!vars, MFA!Init, L!Init, MFA!Existing, L!Existing,
              MFA!GetSession, L!GetSession, MFA!MayVerify, L!MayVerify

LEMMA SameStateNext ==
    /\ MFA!TypeOK' <=> L!TypeOK'
    /\ MFA!Existing(session)' = L!Existing(session)'
    /\ MFA!Existing(challenge)' = L!Existing(challenge)'
    /\ \A s : MFA!GetSession(s)' <=> L!GetSession(s)'
<1>1. MFA!TypeOK <=> L!TypeOK
  BY SameState
<1>2. MFA!TypeOK' <=> L!TypeOK'
  BY <1>1, PTL
<1> QED
  BY <1>2 DEF MFA!Existing, L!Existing, MFA!GetSession, L!GetSession

LEMMA SameNext == MFA!Next <=> L!Next
<1> USE DEF MFA!Goto, L!Goto, MFA!Finish, L!Finish
<1>1. ASSUME NEW r \in Requests, NEW u \in Users PROVE MFA!Login(r, u) <=> L!Login(r, u)
  BY DEF MFA!Login, L!Login, MFA!MayLogin, L!MayLogin
<1>2. ASSUME NEW r \in Requests, NEW c \in Challenges
      PROVE  MFA!VerifyMFA(r, c) <=> L!VerifyMFA(r, c)
  BY DEF MFA!VerifyMFA, L!VerifyMFA, MFA!MayVerify, L!MayVerify
<1>3. ASSUME NEW r \in Requests, NEW s \in Sessions
      PROVE  MFA!PostWithdraw(r, s) <=> L!PostWithdraw(r, s)
  BY DEF MFA!PostWithdraw, L!PostWithdraw, MFA!GetSession, L!GetSession
<1>4. ASSUME NEW r \in Requests PROVE MFA!Advance(r) <=> L!Advance(r)
  BY DEF MFA!Advance, L!Advance, MFA!CreateChallenge, L!CreateChallenge,
         MFA!SendOTPEmail, L!SendOTPEmail, MFA!IncrementAttempts, L!IncrementAttempts,
         MFA!MarkUsed, L!MarkUsed, MFA!Marked, L!Marked, MFA!CreateSession, L!CreateSession,
         MFA!CompleteAuthorizationRequest, L!CompleteAuthorizationRequest,
         MFA!AnswerVerifyMFA, L!AnswerVerifyMFA, MFA!Withdraw, L!Withdraw,
         MFA!Swept, L!Swept, MFA!Commit, L!Commit
<1>5. ASSUME NEW r \in Requests PROVE MFA!Fail(r) <=> L!Fail(r)
  BY DEF MFA!Fail, L!Fail
<1>6. ASSUME NEW s \in Sessions
      PROVE  /\ MFA!PostLogout(s) <=> L!PostLogout(s)
             /\ MFA!ExpireSession(s) <=> L!ExpireSession(s)
  BY DEF MFA!PostLogout, L!PostLogout, MFA!ExpireSession, L!ExpireSession
<1>7. ASSUME NEW c \in Challenges PROVE MFA!ExpireChallenge(c) <=> L!ExpireChallenge(c)
  BY DEF MFA!ExpireChallenge, L!ExpireChallenge
<1> HIDE DEF MFA!Goto, L!Goto, MFA!Finish, L!Finish
<1> QED
  BY <1>1, <1>2, <1>3, <1>4, <1>5, <1>6, <1>7 DEF MFA!Next, L!Next

\* A visit leaves login alone: a step is one of LoginMFA, or none.
LEMMA LoginSteps ==
    ASSUME [Next]_vars
    PROVE  [L!Next]_(L!vars)
<1>1. CASE UNCHANGED loginVars
  BY <1>1, SameState DEF loginVars, L!vars
<1>2. CASE LoginStep
  BY <1>2, SameNext DEF LoginStep
<1> QED
  BY <1>1, <1>2
  DEF Next, vars, HandleAuthenticated, HandleUnauthenticated, HandleResumed, Advance,
      CreateAuthorizationRequest, ReadAuthTime, NewAuthorizeResponse, Fail, ExpireRequest, Tick

\* Login, seen beside the visits, is that of LoginMFA: what is proved of it there
\* holds here, though requests must be saved before they are completed.
THEOREM LoginIsLoginMFA == Spec => MFA!Spec
<1>1. Init => MFA!Init
  BY DEF Init
<1>2. [Next]_vars => [MFA!Next]_(MFA!vars)
  BY LoginSteps, SameState, SameNext DEF L!vars, MFA!vars
<1> QED
  BY <1>1, <1>2, PTL DEF Spec, MFA!Spec

LEMMA LoginRows ==
    ASSUME MFA!TypeOK
    PROVE  /\ MFA!Existing(session) \subseteq Sessions
           /\ \A s \in Sessions : s \in MFA!Existing(session) <=> session[s] # None
           /\ \A s \in MFA!Existing(session) : session[s].user \in Users
           /\ authUser \in [AuthRequests -> Users \cup {None}]
<1>1. /\ L!Existing(session) \subseteq Sessions
      /\ \A s \in L!Existing(session) : session[s] \in L!SessionRow
      /\ \A s \in Sessions : session[s] # None => s \in L!Existing(session)
  BY SameState, LoginAssumptions, L!ExistingRows, Zenon
<1>2. authUser \in [AuthRequests -> Users \cup {None}]
  BY DEF MFA!TypeOK, MFA!TablesOK
<1> QED
  BY <1>1, <1>2, SameState DEF L!SessionRow, MFA!Existing

LEMMA LoginTypeStep ==
    ASSUME MFA!TypeOK, [Next]_vars
    PROVE  MFA!TypeOK'
<1>1. L!TypeOK'
  BY SameState, LoginSteps, LoginAssumptions, L!TypeStep, Zenon
<1> QED
  BY <1>1, SameStateNext

\* Sessions keep their user.
LEMMA LoginSessionsKept ==
    ASSUME MFA!TypeOK, [Next]_vars, NEW s \in MFA!Existing(session)
    PROVE  s \in MFA!Existing(session)' /\ session'[s].user = session[s].user
<1>1. L!SessionKept(s)
  BY SameState, LoginSteps, LoginAssumptions, L!SessionsKept, Zenon
<1> QED
  BY <1>1, SameStateNext DEF L!SessionKept

-------------------------------------------------------------------------------
(* Dates *)

\* A set of dates that is not empty has a latest one.
LEMMA LatestDate ==
    ASSUME NEW n \in Nat, NEW S \in SUBSET (0 .. n), S # {}
    PROVE  Max(S) \in S /\ \A t \in S : t <= Max(S)
<1> DEFINE T == {n - t : t \in S}
<1>1. T \subseteq Nat /\ T # {}
  OBVIOUS
<1>2. PICK x \in T : \A y \in T : ~ (<<y, x>> \in OpToRel(<, Nat))
  BY <1>1, NatLessThanWellFounded, WFMin
<1>3. \A y \in T : ~(y < x)
  BY <1>1, <1>2 DEF OpToRel
<1>4. PICK s \in S : x = n - s
  OBVIOUS
<1>5. ASSUME NEW t \in S PROVE t <= s
  <2>1. n - t \in T
    OBVIOUS
  <2>2. ~(n - t < n - s)
    BY <1>3, <1>4, <2>1
  <2>3. t \in 0 .. n /\ s \in 0 .. n
    OBVIOUS
  <2> HIDE DEF T
  <2> QED
    BY <2>2, <2>3
<1>6. \E m \in S : \A t \in S : m >= t
  BY <1>4, <1>5
<1> QED
  BY <1>6 DEF Max

LEMMA DatesOK ==
    ASSUME TypeOK, NEW u
    PROVE  Dates(u) \subseteq 0 .. MaxTime
<1>1. ASSUME NEW s \in SessionsOf(u) PROVE authTime[s] \in 0 .. MaxTime
  <2>1. s \in Sessions /\ session[s] # None
    BY <1>1, LoginRows DEF SessionsOf, TypeOK
  <2> QED
    BY <2>1 DEF TypeOK
<1> QED
  BY <1>1 DEF Dates

\* The latest of the dates and 0, which a visit that resumes a request notes.
LEMMA LatestKnown ==
    ASSUME TypeOK, NEW u
    PROVE  Max(Dates(u) \cup {0}) \in Nat /\ Max(Dates(u) \cup {0}) \in Dates(u) \cup {0}
<1>1. Dates(u) \cup {0} \in SUBSET (0 .. MaxTime)
  BY DatesOK, TimeAssumption
<1> QED
  <2> DEFINE S == Dates(u) \cup {0}
  <2>1. Max(S) \in S
    BY <1>1, LatestDate, TimeAssumption
  <2> HIDE DEF S
  <2>2. Max(S) \in Nat
    BY <1>1, <2>1, TimeAssumption DEF S
  <2> QED
    BY <2>1, <2>2 DEF S

-------------------------------------------------------------------------------
(* Type correctness *)

VisitsOK ==
    /\ at \in [Visits -> {"idle", "saving", "dating", "issuing"}]
    /\ held \in [Visits -> Held \cup {None}]
    /\ \A v \in Visits : held[v] # None <=> at[v] \in {"dating", "issuing"}

TimesOK ==
    /\ now \in 0 .. MaxTime
    /\ authTime \in [Sessions -> 0 .. MaxTime \cup {None}]
    /\ \A s \in Sessions : authTime[s] # None <=> session[s] # None

LEMMA TypeParts ==
    TypeOK <=> /\ MFA!TypeOK /\ VisitsOK /\ TimesOK
               /\ saved \in [AuthRequests -> {"open", "expired", None}]
               /\ code \in [Codes -> Held \cup {None}]
BY DEF TypeOK, VisitsOK, TimesOK

\* One visit moves.
LEMMA GotoMoves ==
    ASSUME TypeOK, NEW v \in Visits,
           NEW where \in {"idle", "saving", "dating", "issuing"}, NEW what \in Held \cup {None},
           what # None <=> where \in {"dating", "issuing"},
           Goto(v, where, what)
    PROVE  /\ VisitsOK'
           /\ at'[v] = where /\ held'[v] = what
           /\ \A w \in Visits \ {v} : at'[w] = at[w] /\ held'[w] = held[w]
<1>1. /\ at' \in [Visits -> {"idle", "saving", "dating", "issuing"}]
      /\ held' \in [Visits -> Held \cup {None}]
      /\ at'[v] = where /\ held'[v] = what
      /\ \A w \in Visits \ {v} : at'[w] = at[w] /\ held'[w] = held[w]
  BY DEF TypeOK, Goto
<1>2. \A w \in Visits \ {v} : held'[w] # None <=> at'[w] \in {"dating", "issuing"}
  BY <1>1 DEF TypeOK
<1> QED
  BY <1>1, <1>2 DEF VisitsOK

LEMMA FinishMoves ==
    ASSUME TypeOK, NEW v \in Visits, Finish(v)
    PROVE  /\ VisitsOK'
           /\ at'[v] = "idle" /\ held'[v] = None
           /\ \A w \in Visits \ {v} : at'[w] = at[w] /\ held'[w] = held[w]
BY GotoMoves DEF Finish

\* What a visit takes up at each step that brings it a row to hold.
LEMMA AuthenticatedRow ==
    ASSUME TypeOK, NEW v \in Visits, NEW s \in Sessions, HandleAuthenticated(v, s)
    PROVE  \E row \in Held :
              /\ row = [user |-> session[s].user, authTime |-> authTime[s],
                        request |-> None, since |-> authTime[s]]
              /\ s \in SessionsOf(row.user)
              /\ Goto(v, "issuing", row)
<1>1. session[s] # None
  BY DEF HandleAuthenticated, MFA!GetSession
<1>2. s \in MFA!Existing(session) /\ session[s].user \in Users
  BY <1>1, LoginRows DEF TypeOK
<1>3. authTime[s] \in 0 .. MaxTime
  BY <1>1 DEF TypeOK
<1> QED
  BY <1>2, <1>3 DEF HandleAuthenticated, Held, SessionsOf

LEMMA ResumedRow ==
    ASSUME TypeOK, NEW v \in Visits, NEW q \in AuthRequests, HandleResumed(v, q)
    PROVE  \E row \in Held :
              /\ row = [user |-> authUser[q], authTime |-> None, request |-> q,
                        since |-> Max(Dates(authUser[q]) \cup {0})]
              /\ Goto(v, "dating", row)
<1>1. authUser[q] \in Users
  BY LoginRows DEF TypeOK, HandleResumed, Resumable
<1>2. Max(Dates(authUser[q]) \cup {0}) \in Nat
  BY LatestKnown
<1> QED
  BY <1>1, <1>2 DEF HandleResumed, Held

LEMMA DatedRow ==
    ASSUME TypeOK, NEW v \in Visits, ReadAuthTime(v)
    PROVE  \E t \in Dates(held[v].user) \cup {now} :
              /\ t = now \/ t = LatestLogin(held[v].user)
              /\ held[v] \in Held /\ [held[v] EXCEPT !.authTime = t] \in Held
              /\ Goto(v, "issuing", [held[v] EXCEPT !.authTime = t])
<1>1. held[v] \in Held
  BY DEF TypeOK, ReadAuthTime
<1>2. PICK t \in Dates(held[v].user) \cup {now} :
          /\ t = now \/ t = LatestLogin(held[v].user)
          /\ Goto(v, "issuing", [held[v] EXCEPT !.authTime = t])
  BY DEF ReadAuthTime
<1>3. t \in Nat
  BY DatesOK DEF TypeOK
<1>4. [held[v] EXCEPT !.authTime = t] \in Held
  BY <1>1, <1>3 DEF Held
<1> QED
  BY <1>1, <1>2, <1>4

LEMMA VisitsStep ==
    ASSUME TypeOK, [Next]_vars
    PROVE  VisitsOK'
<1>1. ASSUME NEW v \in Visits, NEW s \in Sessions, HandleAuthenticated(v, s) PROVE VisitsOK'
  BY <1>1, AuthenticatedRow, GotoMoves
<1>2. ASSUME NEW v \in Visits, HandleUnauthenticated(v) PROVE VisitsOK'
  BY <1>2, GotoMoves DEF HandleUnauthenticated
<1>3. ASSUME NEW v \in Visits, NEW q \in AuthRequests, HandleResumed(v, q) PROVE VisitsOK'
  BY <1>3, ResumedRow, GotoMoves
<1>4. ASSUME NEW v \in Visits, ReadAuthTime(v) PROVE VisitsOK'
  BY <1>4, DatedRow, GotoMoves
<1>5. ASSUME NEW v \in Visits, Finish(v) PROVE VisitsOK'
  BY <1>5, FinishMoves
<1>6. CASE UNCHANGED <<at, held>>
  BY <1>6 DEF TypeOK, VisitsOK
<1> QED
  BY <1>1, <1>2, <1>3, <1>4, <1>5, <1>6
  DEF Next, vars, Advance, CreateAuthorizationRequest, NewAuthorizeResponse, Fail,
      LoginStep, ExpireRequest, Tick

\* A session is dated when it is stored, and keeps its date.
LEMMA TimesStep ==
    ASSUME TypeOK, [Next]_vars
    PROVE  /\ TimesOK'
           /\ now <= now'
           /\ \A s \in MFA!Existing(session) : authTime'[s] = authTime[s]
           /\ \A s \in MFA!Existing(session)' \ MFA!Existing(session) : authTime'[s] = now
<1>1. /\ MFA!Existing(session) \subseteq Sessions /\ MFA!Existing(session)' \subseteq Sessions
      /\ \A s \in Sessions : s \in MFA!Existing(session) <=> session[s] # None
      /\ \A s \in Sessions : s \in MFA!Existing(session)' <=> session'[s] # None
  <2>1. MFA!TypeOK'
    BY LoginTypeStep DEF TypeOK
  <2>2. DOMAIN session = Sessions /\ DOMAIN session' = Sessions
    BY <2>1 DEF TypeOK, MFA!TypeOK, MFA!TablesOK
  <2> QED
    BY <2>2 DEF MFA!Existing
<1>2. \A s \in MFA!Existing(session) : s \in MFA!Existing(session)'
  BY LoginSessionsKept DEF TypeOK
<1>3. TimesOK /\ MaxTime \in Nat /\ now \in Nat
  BY TimeAssumption DEF TypeOK, TimesOK
<1>4. CASE LoginStep
  <2>1. authTime' = [s \in Sessions |->
            IF session[s] = None /\ session'[s] # None THEN now ELSE authTime[s]]
        /\ now' = now
    BY <1>4 DEF LoginStep
  <2>2. \A s \in MFA!Existing(session) : authTime'[s] = authTime[s]
    BY <1>1, <2>1
  <2>3. \A s \in MFA!Existing(session)' \ MFA!Existing(session) : authTime'[s] = now
    BY <1>1, <2>1
  <2>4. authTime' \in [Sessions -> 0 .. MaxTime \cup {None}]
    BY <1>3, <2>1 DEF TimesOK
  <2>5. now # None
    BY <1>3
  <2>6. ASSUME NEW s \in Sessions PROVE authTime'[s] # None <=> session'[s] # None
    BY <1>1, <1>2, <1>3, <2>1, <2>5 DEF TimesOK
  <2> QED
    BY <1>3, <2>1, <2>2, <2>3, <2>4, <2>6 DEF TimesOK
<1>5. CASE Tick
  BY <1>3, <1>5 DEF Tick, TimesOK, loginVars
<1>6. CASE UNCHANGED <<session, authTime, now>>
  BY <1>3, <1>6 DEF TimesOK, MFA!Existing
<1> QED
  BY <1>4, <1>5, <1>6
  DEF Next, vars, loginVars, HandleAuthenticated, HandleUnauthenticated, HandleResumed, Advance,
      CreateAuthorizationRequest, ReadAuthTime, NewAuthorizeResponse, Fail, ExpireRequest

\* How the rows that visits write change.
LEMMA SavedMoves ==
    ASSUME TypeOK, [Next]_vars
    PROVE  /\ saved' \in [AuthRequests -> {"open", "expired", None}]
           /\ \A q \in AuthRequests : saved[q] = "expired" => saved'[q] = "expired"
           /\ \A q \in AuthRequests : saved[q] # None => saved'[q] # None
<1>1. ASSUME NEW v \in Visits, NEW q \in AuthRequests, CreateAuthorizationRequest(v, q)
      PROVE  /\ saved' \in [AuthRequests -> {"open", "expired", None}]
             /\ \A p \in AuthRequests : saved[p] = "expired" => saved'[p] = "expired"
             /\ \A p \in AuthRequests : saved[p] # None => saved'[p] # None
  <2>1. saved' = [saved EXCEPT ![q] = "open"] /\ saved[q] = None
    BY <1>1 DEF CreateAuthorizationRequest
  <2>2. saved[q] # "expired" /\ "open" # None
    BY <2>1 DEF TypeOK
  <2> QED
    BY <2>1, <2>2 DEF TypeOK
<1>2. ASSUME NEW q \in AuthRequests, ExpireRequest(q)
      PROVE  /\ saved' \in [AuthRequests -> {"open", "expired", None}]
             /\ \A p \in AuthRequests : saved[p] = "expired" => saved'[p] = "expired"
             /\ \A p \in AuthRequests : saved[p] # None => saved'[p] # None
  BY <1>2 DEF ExpireRequest, TypeOK
<1>3. CASE UNCHANGED saved
  BY <1>3 DEF TypeOK
<1> QED
  BY <1>1, <1>2, <1>3
  DEF Next, vars, HandleAuthenticated, HandleUnauthenticated, HandleResumed, Advance,
      ReadAuthTime, NewAuthorizeResponse, Fail, LoginStep, Tick

\* A code is stored once, and says what the visit that stores it holds.
LEMMA CodesMove ==
    ASSUME TypeOK, [Next]_vars
    PROVE  /\ code' \in [Codes -> Held \cup {None}]
           /\ \A c \in Issued : c \in Issued' /\ code'[c] = code[c]
           /\ \A c \in Issued' \ Issued :
                 \E v \in Visits : at[v] = "issuing" /\ code'[c] = held[v] /\ held[v] \in Held
<1>1. ASSUME NEW v \in Visits, NEW c \in Codes, NewAuthorizeResponse(v, c)
      PROVE  /\ code' \in [Codes -> Held \cup {None}]
             /\ \A d \in Issued : d \in Issued' /\ code'[d] = code[d]
             /\ \A d \in Issued' \ Issued :
                   at[v] = "issuing" /\ code'[d] = held[v] /\ held[v] \in Held
  <2>1. /\ code' = [code EXCEPT ![c] = held[v]] /\ at[v] = "issuing" /\ code[c] = None
        /\ held[v] \in Held
    BY <1>1 DEF NewAuthorizeResponse, TypeOK
  <2> QED
    BY <2>1 DEF TypeOK, Issued
<1>2. CASE UNCHANGED code
  BY <1>2 DEF TypeOK, Issued
<1> QED
  BY <1>1, <1>2
  DEF Next, vars, HandleAuthenticated, HandleUnauthenticated, HandleResumed, Advance,
      CreateAuthorizationRequest, ReadAuthTime, Fail, LoginStep, ExpireRequest, Tick

LEMMA InitType == Init => TypeOK
<1> SUFFICES ASSUME Init PROVE TypeOK
  OBVIOUS
<1>1. L!TypeOK
  BY SameState, LoginAssumptions, L!TypeInit, Zenon DEF Init
<1>2. session = [s \in Sessions |-> None]
  BY DEF Init, MFA!Init
<1> QED
  BY <1>1, <1>2, SameState, TimeAssumption DEF Init, TypeOK

LEMMA StepType == TypeOK /\ [Next]_vars => TypeOK'
<1> SUFFICES ASSUME TypeOK, [Next]_vars PROVE TypeOK'
  OBVIOUS
<1>1. MFA!TypeOK' /\ VisitsOK' /\ TimesOK'
  BY LoginTypeStep, VisitsStep, TimesStep DEF TypeOK
<1> QED
  BY <1>1, SavedMoves, CodesMove DEF TypeOK, VisitsOK, TimesOK

\* Login keeps its types beside the visits, and a visit holds a user, a request
\* and a date exactly while it needs them.
THEOREM AuthorizeTypeCorrect == Spec => []TypeOK
BY InitType, StepType, PTL DEF Spec

-------------------------------------------------------------------------------
(* What a code says of the login *)

\* What a code, and a visit about to issue one, says is true of the user.
Told(row) ==
    /\ row.authTime \in Nat /\ row.authTime <= now /\ row.since <= row.authTime
    /\ \E s \in MFA!Existing(session) :
          session[s].user = row.user /\ authTime[s] <= row.authTime

\* A visit that is to read the date has a user who logged in, and knows of a
\* login of that user or of none.
Dated(row) ==
    \E s \in MFA!Existing(session) :
        session[s].user = row.user /\ (row.since = 0 \/ row.since = authTime[s])

VisitKnows(v) ==
    /\ at[v] = "issuing" => Told(held[v])
    /\ at[v] = "dating" => Dated(held[v])

VisitInv ==
    /\ TypeOK
    /\ L!CompletedInv
    /\ \A s \in MFA!Existing(session) : authTime[s] <= now
    /\ \A c \in Issued : Told(code[c])
    /\ \A v \in Visits : VisitKnows(v)

LEMMA InitVisit == Init => VisitInv
<1> SUFFICES ASSUME Init PROVE VisitInv
  OBVIOUS
<1>1. TypeOK /\ L!CompletedInv
  BY InitType DEF Init, MFA!Init, L!CompletedInv, L!CompletedAfterMFA
<1>2. MFA!Existing(session) = {}
  BY DEF Init, MFA!Init, MFA!Existing
<1> QED
  BY <1>1, <1>2 DEF Init, VisitInv, Issued, VisitKnows

\* Sessions that exist keep user and date, and the clock goes on.
LEMMA LoginsKept ==
    ASSUME TypeOK, [Next]_vars
    PROVE  /\ now \in Nat /\ now' \in Nat /\ now <= now'
           /\ \A s \in MFA!Existing(session) :
                /\ s \in MFA!Existing(session)' /\ session'[s].user = session[s].user
                /\ authTime'[s] = authTime[s] /\ authTime[s] \in Nat
<1>1. now \in Nat /\ now' \in Nat /\ now <= now'
  BY TimesStep, TimeAssumption DEF TypeOK, TimesOK
<1>2. ASSUME NEW s \in MFA!Existing(session) PROVE authTime[s] \in Nat
  BY <1>2, LoginRows DEF TypeOK
<1> QED
  BY <1>1, <1>2, LoginSessionsKept, TimesStep DEF TypeOK

\* So what was true of a user stays true.
LEMMA ToldKept ==
    ASSUME TypeOK, [Next]_vars, NEW row \in Held, Told(row)
    PROVE  /\ row.authTime \in Nat /\ row.authTime <= now' /\ row.since <= row.authTime
           /\ \E s \in MFA!Existing(session)' :
                 session'[s].user = row.user /\ authTime'[s] <= row.authTime
<1>1. PICK s \in MFA!Existing(session) :
          session[s].user = row.user /\ authTime[s] <= row.authTime
  BY DEF Told
<1>2. row.authTime <= now'
  BY LoginsKept DEF Told
<1> QED
  BY <1>1, <1>2, LoginsKept DEF Told

LEMMA DatedKept ==
    ASSUME TypeOK, [Next]_vars, NEW row \in Held, Dated(row)
    PROVE  \E s \in MFA!Existing(session)' :
               session'[s].user = row.user /\ (row.since = 0 \/ row.since = authTime'[s])
<1>1. PICK s \in MFA!Existing(session) :
          session[s].user = row.user /\ (row.since = 0 \/ row.since = authTime[s])
  BY DEF Dated
<1> QED
  BY <1>1, LoginsKept

\* A visit goes on with what it holds, or takes up a row that says the truth.
VisitMoves(v) ==
    /\ at'[v] = "issuing" => Told(held'[v])
    /\ at'[v] = "dating" => Dated(held'[v])

LEMMA SessionTold ==
    ASSUME VisitInv, NEW v \in Visits, NEW s \in Sessions, HandleAuthenticated(v, s)
    PROVE  at'[v] = "issuing" /\ Told(held'[v])
<1>1. TypeOK
  BY DEF VisitInv
<1>2. PICK row \in Held :
          /\ row = [user |-> session[s].user, authTime |-> authTime[s],
                    request |-> None, since |-> authTime[s]]
          /\ s \in SessionsOf(row.user)
          /\ Goto(v, "issuing", row)
  BY <1>1, AuthenticatedRow
<1>3. at'[v] = "issuing" /\ held'[v] = row
  BY <1>1, <1>2, GotoMoves
<1>4. s \in MFA!Existing(session) /\ session[s].user = row.user /\ authTime[s] <= now
  BY <1>2 DEF SessionsOf, VisitInv
<1>5. authTime[s] \in Nat /\ now \in Nat
  BY <1>1, <1>4, LoginRows DEF TypeOK
<1>6. Told(row)
  BY <1>2, <1>4, <1>5 DEF Told
<1> QED
  BY <1>3, <1>6

LEMMA RequestDated ==
    ASSUME VisitInv, NEW v \in Visits, NEW q \in AuthRequests, HandleResumed(v, q)
    PROVE  at'[v] = "dating" /\ Dated(held'[v])
<1>1. TypeOK
  BY DEF VisitInv
<1>2. PICK row \in Held :
          /\ row = [user |-> authUser[q], authTime |-> None, request |-> q,
                    since |-> Max(Dates(authUser[q]) \cup {0})]
          /\ Goto(v, "dating", row)
  BY <1>1, ResumedRow
<1>3. at'[v] = "dating" /\ held'[v] = row
  BY <1>1, <1>2, GotoMoves
<1>4. PICK s \in MFA!Existing(session) : session[s].user = row.user
  BY <1>2, SameState DEF VisitInv, L!CompletedInv, L!CompletedAfterMFA, HandleResumed, Resumable
<1>5. row.since \in Dates(row.user) \cup {0}
  BY <1>1, <1>2, LatestKnown
<1>6. row.since = 0 \/ \E t \in MFA!Existing(session) :
          session[t].user = row.user /\ row.since = authTime[t]
  BY <1>5 DEF Dates, SessionsOf
<1> QED
  BY <1>3, <1>4, <1>6 DEF Dated

LEMMA DateTold ==
    ASSUME VisitInv, NEW v \in Visits, ReadAuthTime(v)
    PROVE  at'[v] = "issuing" /\ Told(held'[v])
<1>1. TypeOK /\ Dated(held[v])
  BY DEF VisitInv, VisitKnows, ReadAuthTime
<1>2. PICK t \in Dates(held[v].user) \cup {now} :
          /\ t = now \/ t = LatestLogin(held[v].user)
          /\ held[v] \in Held /\ [held[v] EXCEPT !.authTime = t] \in Held
          /\ Goto(v, "issuing", [held[v] EXCEPT !.authTime = t])
  BY <1>1, DatedRow
<1> DEFINE row == [held[v] EXCEPT !.authTime = t]
<1>3. /\ at'[v] = "issuing" /\ held'[v] = row
  BY <1>1, <1>2, GotoMoves
<1>4. row.user = held[v].user /\ row.since = held[v].since /\ row.authTime = t
  BY <1>2 DEF Held
<1> HIDE DEF row
<1>5. PICK s \in MFA!Existing(session) :
          session[s].user = row.user /\ (row.since = 0 \/ row.since = authTime[s])
  BY <1>1, <1>4 DEF Dated
<1>6. authTime[s] \in Nat /\ now \in Nat /\ authTime[s] <= now /\ authTime[s] \in Dates(row.user)
  BY <1>1, <1>5, LoginRows DEF VisitInv, TypeOK, Dates, SessionsOf
<1>7. ASSUME t = now PROVE Told(row)
  BY <1>4, <1>5, <1>6, <1>7 DEF Told
<1>8. ASSUME t = LatestLogin(row.user) PROVE Told(row)
  <2>1. Dates(row.user) \subseteq 0 .. MaxTime /\ Dates(row.user) # {}
    BY <1>1, <1>6, DatesOK
  <2>2. t \in Dates(row.user) /\ \A d \in Dates(row.user) : d <= t
    BY <1>8, <2>1, LatestDate, TimeAssumption DEF LatestLogin
  <2>3. PICK x \in MFA!Existing(session) : session[x].user = row.user /\ authTime[x] = t
    BY <2>2 DEF Dates, SessionsOf
  <2>4. t \in Nat /\ t <= now
    BY <2>1, <2>2, <2>3, TimeAssumption DEF VisitInv
  <2>5. row.since <= t
    BY <1>5, <1>6, <2>2, <2>4
  <2> QED
    BY <1>4, <2>3, <2>4, <2>5 DEF Told
<1> QED
  BY <1>2, <1>3, <1>4, <1>7, <1>8

LEMMA VisitsMove ==
    ASSUME VisitInv, [Next]_vars, NEW v \in Visits
    PROVE  VisitMoves(v)
<1>1. TypeOK /\ VisitKnows(v)
  BY DEF VisitInv
<1>2. ASSUME at'[v] = at[v], held'[v] = held[v] PROVE VisitMoves(v)
  BY <1>1, <1>2 DEF VisitMoves, VisitKnows
<1>3. ASSUME NEW w \in Visits,
             \/ \E s \in Sessions : HandleAuthenticated(w, s)
             \/ \E q \in AuthRequests : HandleResumed(w, q)
             \/ ReadAuthTime(w)
      PROVE  VisitMoves(v)
  <2>1. CASE w = v
    BY <1>3, <2>1, SessionTold, RequestDated, DateTold DEF VisitMoves
  <2>2. CASE w # v
    <3>1. \E where \in {"issuing", "dating"}, row \in Held : Goto(w, where, row)
      BY <1>1, <1>3, AuthenticatedRow, ResumedRow, DatedRow
    <3> QED
      BY <1>1, <1>2, <2>2, <3>1, GotoMoves
  <2> QED
    BY <2>1, <2>2
<1>4. ASSUME NEW w \in Visits, HandleUnauthenticated(w) \/ Finish(w) PROVE VisitMoves(v)
  <2>1. CASE w = v
    <3>1. at'[v] = "saving" \/ at'[v] = "idle"
      BY <1>1, <1>4, <2>1, GotoMoves, FinishMoves DEF HandleUnauthenticated
    <3> QED
      BY <3>1 DEF VisitMoves
  <2>2. CASE w # v
    BY <1>1, <1>2, <1>4, <2>2, GotoMoves, FinishMoves DEF HandleUnauthenticated
  <2> QED
    BY <2>1, <2>2
<1>5. CASE UNCHANGED <<at, held>>
  BY <1>2, <1>5
<1> QED
  BY <1>3, <1>4, <1>5
  DEF Next, vars, Advance, CreateAuthorizationRequest, NewAuthorizeResponse, Fail,
      LoginStep, ExpireRequest, Tick

LEMMA StepVisit == VisitInv /\ [Next]_vars => VisitInv'
<1> SUFFICES ASSUME VisitInv, [Next]_vars PROVE VisitInv'
  OBVIOUS
<1>1. TypeOK /\ TypeOK'
  BY StepType DEF VisitInv
<1>2. L!CompletedInv'
  BY <1>1, SameState, LoginSteps, LoginAssumptions, L!CompletedStep, Zenon DEF VisitInv, TypeOK
<1>3. ASSUME NEW s \in MFA!Existing(session)' PROVE authTime'[s] <= now'
  <2>1. CASE s \in MFA!Existing(session)
    BY <1>1, <2>1, LoginsKept DEF VisitInv
  <2>2. CASE s \notin MFA!Existing(session)
    BY <1>1, <1>3, <2>2, TimesStep
  <2> QED
    BY <2>1, <2>2
<1>4. ASSUME NEW c \in Issued' PROVE Told(code[c])'
  <2>1. code'[c] \in Held /\ Told(code'[c])
    <3>1. CASE c \in Issued
      BY <1>1, <3>1, CodesMove DEF VisitInv, TypeOK, Issued
    <3>2. CASE c \notin Issued
      BY <1>1, <1>4, <3>2, CodesMove DEF VisitInv, VisitKnows
    <3> QED
      BY <3>1, <3>2
  <2> QED
    BY <1>1, <2>1, ToldKept DEF Told
<1>5. ASSUME NEW v \in Visits PROVE VisitKnows(v)'
  <2>1. at'[v] \in {"dating", "issuing"} => held'[v] \in Held
    BY <1>1 DEF TypeOK
  <2>2. ASSUME at'[v] = "issuing" PROVE Told(held[v])'
    BY <1>1, <2>1, <2>2, VisitsMove, ToldKept DEF VisitMoves, Told
  <2>3. ASSUME at'[v] = "dating" PROVE Dated(held[v])'
    BY <1>1, <2>1, <2>3, VisitsMove, DatedKept DEF VisitMoves, Dated
  <2> QED
    BY <2>2, <2>3 DEF VisitKnows
<1> QED
  BY <1>1, <1>2, <1>3, <1>4, <1>5 DEF VisitInv

\* A code belongs to a user who had logged in with both factors when it says
\* so: no two users are mixed, whoever completes the request meanwhile.
THEOREM CodesFollowLogins == Spec => []CodeAfterLogin
<1>1. VisitInv => CodeAfterLogin
  BY DEF VisitInv, Told, CodeAfterLogin, SessionsOf
<1> QED
  BY <1>1, InitVisit, StepVisit, PTL DEF Spec

\* The login a code tells of is no older than any the visit knew of.
THEOREM AuthTimeIsFresh == Spec => []AuthTimeNotBefore
<1>1. VisitInv => AuthTimeNotBefore
  <2> SUFFICES ASSUME VisitInv, NEW c \in Issued PROVE code[c].authTime >= code[c].since
    BY DEF AuthTimeNotBefore
  <2>1. code[c].since \in Nat
    BY DEF VisitInv, TypeOK, Issued, Held
  <2> QED
    BY <2>1 DEF VisitInv, Told
<1> QED
  BY <1>1, InitVisit, StepVisit, PTL DEF Spec

-------------------------------------------------------------------------------
(* An expired request is closed *)

\* A request comes to a visit only by being resumed.
LEMMA RequestsMove ==
    ASSUME TypeOK, [Next]_vars, NEW v \in Visits
    PROVE  \/ held'[v] = None
           \/ held[v] # None /\ held'[v].request = held[v].request /\ held'[v].user = held[v].user
           \/ /\ held'[v].request = None
              /\ \E s \in MFA!Existing(session) :
                    MFA!GetSession(s) /\ held'[v].user = session[s].user
           \/ \E q \in AuthRequests :
                 Resumable(q) /\ held'[v].request = q /\ held'[v].user = authUser[q]
<1>1. ASSUME held'[v] = held[v]
      PROVE  \/ held'[v] = None
             \/ held[v] # None /\ held'[v].request = held[v].request /\ held'[v].user = held[v].user
  BY <1>1
<1>2. ASSUME NEW w \in Visits, NEW s \in Sessions, HandleAuthenticated(w, s), held'[v] # held[v]
      PROVE  /\ held'[v].request = None
             /\ s \in MFA!Existing(session) /\ MFA!GetSession(s)
             /\ held'[v].user = session[s].user
  <2>1. PICK row \in Held :
            /\ row = [user |-> session[s].user, authTime |-> authTime[s],
                      request |-> None, since |-> authTime[s]]
            /\ s \in SessionsOf(row.user)
            /\ Goto(w, "issuing", row)
    BY <1>2, AuthenticatedRow
  <2>2. held'[v] = row
    BY <1>2, <2>1, GotoMoves
  <2> QED
    BY <1>2, <2>1, <2>2 DEF HandleAuthenticated, SessionsOf
<1>3. ASSUME NEW w \in Visits, NEW q \in AuthRequests, HandleResumed(w, q), held'[v] # held[v]
      PROVE  Resumable(q) /\ held'[v].request = q /\ held'[v].user = authUser[q]
  <2>1. PICK row \in Held :
            /\ row = [user |-> authUser[q], authTime |-> None, request |-> q,
                      since |-> Max(Dates(authUser[q]) \cup {0})]
            /\ Goto(w, "dating", row)
    BY <1>3, ResumedRow
  <2>2. held'[v] = row
    BY <1>3, <2>1, GotoMoves
  <2> QED
    BY <1>3, <2>1, <2>2 DEF HandleResumed
<1>4. ASSUME NEW w \in Visits, ReadAuthTime(w), held'[v] # held[v]
      PROVE  /\ held[v] # None
             /\ held'[v].request = held[v].request /\ held'[v].user = held[v].user
  <2>1. PICK t \in Dates(held[w].user) \cup {now} :
            /\ held[w] \in Held /\ [held[w] EXCEPT !.authTime = t] \in Held
            /\ Goto(w, "issuing", [held[w] EXCEPT !.authTime = t])
    BY <1>4, DatedRow
  <2>2. v = w /\ held'[w] = [held[w] EXCEPT !.authTime = t]
    BY <1>4, <2>1, GotoMoves
  <2> QED
    BY <2>1, <2>2 DEF Held
<1>5. ASSUME NEW w \in Visits, HandleUnauthenticated(w) \/ Finish(w), held'[v] # held[v]
      PROVE  held'[v] = None
  BY <1>5, GotoMoves, FinishMoves DEF HandleUnauthenticated
<1>6. CASE UNCHANGED held
  BY <1>1, <1>6
<1> QED
  BY <1>1, <1>2, <1>3, <1>4, <1>5, <1>6
  DEF Next, vars, Advance, CreateAuthorizationRequest, NewAuthorizeResponse, Fail,
      LoginStep, ExpireRequest, Tick

LEMMA ClosedStays ==
    ASSUME TypeOK, [Next]_vars, NEW q \in AuthRequests, Closed(q)
    PROVE  Closed(q)' /\ CodesFrom(q)' = CodesFrom(q)
<1>1. saved[q] = "expired" /\ saved'[q] = "expired"
  BY SavedMoves DEF Closed
<1>2. \A v \in Visits : held[v] = None \/ held[v].request # q
  BY DEF Closed
<1>3. ASSUME NEW v \in Visits PROVE held'[v] = None \/ held'[v].request # q
  BY <1>1, <1>2, RequestsMove DEF Resumable
<1>4. CodesFrom(q)' = CodesFrom(q)
  <2>1. ASSUME NEW c \in Issued' \ Issued PROVE code'[c].request # q
    BY <1>2, <2>1, CodesMove
  <2> QED
    BY <2>1, CodesMove DEF CodesFrom
<1> QED
  BY <1>1, <1>3, <1>4 DEF Closed

\* Once a saved request has expired and no visit is past the check, no code
\* comes from it, whatever login completes it.
THEOREM ExpiryClosesRequests == Spec => ExpiredRequestIsClosed
<1> SUFFICES Spec => [][\A q \in AuthRequests :
                 Closed(q) => Closed(q)' /\ CodesFrom(q)' = CodesFrom(q)]_vars
  BY DEF ExpiredRequestIsClosed
<1>1. TypeOK /\ [Next]_vars =>
          [\A q \in AuthRequests : Closed(q) => Closed(q)' /\ CodesFrom(q)' = CodesFrom(q)]_vars
  BY ClosedStays
<1> QED
  BY <1>1, AuthorizeTypeCorrect, PTL DEF Spec

-------------------------------------------------------------------------------
(* A withdrawn user out of reach stays so *)

\* LoggingIn and Present are what LoginMFA_proofs calls the ways in, and the
\* requests and visits of the user.
LEMMA ReachParts ==
    ASSUME MFA!TypeOK, NEW u \in Users
    PROVE  WithinReach(u) <=>
               \/ ~L!CutOff(u)
               \/ \E q \in AuthRequests : authUser[q] = u /\ saved[q] # "expired"
               \/ \E v \in Visits : held[v] # None /\ held[v].user = u
<1>1. LoggingIn(u) <=> L!InHand(u) \/ L!Verifiable(u)
  BY SameState DEF LoggingIn, L!InHand, L!Verifiable
<1>2. (\E s \in SessionsOf(u) : ~session[s].revoked /\ ~session[s].expired) <=> L!Usable(u)
  BY SameState DEF SessionsOf, L!Usable, L!GetSession, L!Existing, MFA!Existing
<1>3. status[u] = "active" \/ status[u] = "withdrawn"
  BY DEF MFA!TypeOK, MFA!TablesOK
<1> QED
  BY <1>1, <1>2, <1>3 DEF WithinReach, Present, L!CutOff

LEMMA LoginCutOff ==
    ASSUME MFA!TypeOK, [Next]_vars, NEW u \in Users, L!CutOff(u)
    PROVE  L!CutOff(u)' /\ \A q \in AuthRequests : authUser'[q] = u => authUser[q] = u
BY SameState, LoginSteps, LoginAssumptions, L!CutOffStays, Zenon

LEMMA OutOfReachStays ==
    ASSUME TypeOK, TypeOK', [Next]_vars, NEW u \in Users, ~WithinReach(u)
    PROVE  ~WithinReach(u)' /\ CodesOf(u)' = CodesOf(u)
<1>1. /\ L!CutOff(u)
      /\ \A q \in AuthRequests : authUser[q] = u => saved[q] = "expired"
      /\ \A v \in Visits : held[v] = None \/ held[v].user # u
  BY ReachParts DEF TypeOK
<1>2. L!CutOff(u)' /\ \A q \in AuthRequests : authUser'[q] = u => authUser[q] = u
  BY <1>1, LoginCutOff DEF TypeOK
<1>3. \A q \in AuthRequests : authUser'[q] = u => saved'[q] = "expired"
  BY <1>1, <1>2, SavedMoves
<1>4. ASSUME NEW v \in Visits PROVE held'[v] = None \/ held'[v].user # u
  <2>1. ASSUME NEW s \in MFA!Existing(session), MFA!GetSession(s) PROVE session[s].user # u
    BY <1>1, <2>1, SameState DEF L!CutOff, L!Usable
  <2> QED
    BY <1>1, <2>1, RequestsMove DEF Resumable
<1>5. ~WithinReach(u)'
  <2>1. status'[u] # "active"
    BY <1>2 DEF L!CutOff
  <2>2. ~LoggingIn(u)'
    BY <1>2, SameStateNext
    DEF L!CutOff, LoggingIn, L!InHand, L!Verifiable, MFA!MayVerify, L!MayVerify
  <2>3. ~Present(u)'
    BY <1>2, <1>3, <1>4, SameStateNext
    DEF L!CutOff, Present, SessionsOf, L!Usable, L!GetSession, L!Existing, MFA!Existing
  <2> QED
    BY <2>1, <2>2, <2>3 DEF WithinReach
<1>6. CodesOf(u)' = CodesOf(u)
  <2>1. ASSUME NEW c \in Issued' \ Issued PROVE code'[c].user # u
    BY <1>1, <2>1, CodesMove
  <2> QED
    BY <2>1, CodesMove DEF CodesOf
<1> QED
  BY <1>5, <1>6

\* A withdrawn user with no login under way, no challenge, no session, no
\* request and no visit left gets none again, and no more codes, for ever.
THEOREM WithdrawnStaysOutOfReach == Spec => WithdrawnOutOfReach
<1> SUFFICES Spec => [][\A u \in Users : ~WithinReach(u) =>
                 ~WithinReach(u)' /\ CodesOf(u)' = CodesOf(u)]_vars
  BY DEF WithdrawnOutOfReach
<1>1. TypeOK /\ TypeOK' /\ [Next]_vars =>
          [\A u \in Users : ~WithinReach(u) =>
              ~WithinReach(u)' /\ CodesOf(u)' = CodesOf(u)]_vars
  BY OutOfReachStays
<1> QED
  BY <1>1, AuthorizeTypeCorrect, PTL DEF Spec
===============================================================================
