------------------------------ MODULE CodeStore ------------------------------
(***************************************************************************)
(* Authorization codes: the store that internal/storage/postgres/          *)
(* fosite_store.go gives to the Ory Fosite library, and the library's      *)
(* handlers that drive it from GET /authorize and POST /token, composed in *)
(* internal/security/fosite_factory.go.                                    *)
(*                                                                         *)
(* Three handlers keep something under a code.  The store has one table    *)
(* for the three, keyed by a hash: of the code's signature for "explicit"  *)
(* and "pkce", of the whole code for "openid".  The store is not           *)
(* transactional, so each of its statements is a transaction, and a step.  *)
(*                                                                         *)
(* The library is not part of the repository: what it calls, and when, is  *)
(* external.  It asks all handlers to check a request first, then asks all *)
(* of them to answer it, in the order of composition.                      *)
(*                                                                         *)
(* Abstracted: client authentication, redirect_uri and code_verifier       *)
(* checks (a request that fails them is one that Fail stops), the content  *)
(* of the tokens.                                                          *)
(***************************************************************************)
EXTENDS Naturals, FiniteSets

CONSTANTS
    Requests,       \* HTTP handlers that may be in progress at once
    Codes,          \* fresh authorization codes
    Handlers,       \* the library's handlers in the composition
    SubjectSet,     \* whether the session of an /authorize names its subject
    Lifespan,       \* AuthorizeCodeLifespan
    MaxTime,        \* bound on the clock
    MayFail,        \* whether requests may fail for reasons outside the store
    None            \* an absent row

ASSUME HandlersAssumption == Handlers \subseteq {"explicit", "openid", "pkce"}
ASSUME SubjectAssumption == SubjectSet \in BOOLEAN
ASSUME TimeAssumption == Lifespan \in Nat \ {0} /\ MaxTime \in Nat
ASSUME NoneAssumption == None \notin Codes

VARIABLES
    row,            \* authorization_codes, by code_hash
    now,            \* the clock
    issued,         \* codes that were sent to a client
    granted,        \* how many times a code was traded for tokens
    pc, code, form  \* where a request is, its code, what its form asks for

vars == <<row, now, issued, granted, pc, code, form>>

Hashes == Codes \X {"sig", "full"}
Sig(c) == <<c, "sig">>
Full(c) == <<c, "full">>

Row == [expires : Nat, used : BOOLEAN, challenge : BOOLEAN]
Form == [openid : BOOLEAN, challenge : BOOLEAN, expires : Nat]
\* What a request may ask for now: the library sets the expiry of the code in
\* the session when it draws the code.
Forms == [openid : BOOLEAN, challenge : BOOLEAN, expires : {now + Lifespan}]
ASSUME NoRowAssumption == None \notin Row /\ None \notin Form

PCs == {"idle",
        "createCode", "createOpenID", "createPKCE", "redirect",       \* /authorize
        "checkCode", "checkPKCE", "deletePKCE", "getCode",            \* /token
        "invalidate", "grant", "getOpenID", "deleteOpenID", "answer"}

Init ==
    /\ row = [h \in Hashes |-> None]
    /\ now = 0
    /\ issued = {}
    /\ granted = [c \in Codes |-> 0]
    /\ pc = [r \in Requests |-> "idle"]
    /\ code = [r \in Requests |-> None]
    /\ form = [r \in Requests |-> None]

Goto(r, where) ==
    /\ pc' = [pc EXCEPT ![r] = where]
    /\ UNCHANGED <<code, form>>

Finish(r) ==
    /\ pc' = [pc EXCEPT ![r] = "idle"]
    /\ code' = [code EXCEPT ![r] = None]
    /\ form' = [form EXCEPT ![r] = None]

-------------------------------------------------------------------------------
(* The store *)

\* CreateAuthorizeCodeSession: an error if the session has no subject, else one
\* INSERT, refused by UNIQUE code_hash.  The lookups of the client and of the
\* user before it are among what Fail stops.  The PKCE and OpenID sessions are
\* stored by the same function.
CreateSession(r, h, next) ==
    IF SubjectSet /\ row[h] = None
    THEN /\ row' = [row EXCEPT ![h] =
               [expires |-> form[r].expires, used |-> FALSE, challenge |-> form[r].challenge]]
         /\ Goto(r, next)
    ELSE UNCHANGED row /\ Finish(r)

\* GetAuthorizeCodeSession: unused, and time.Now() is not after expires_at.
Found(h) == row[h] # None /\ ~row[h].used /\ now <= row[h].expires

GetSession(r, h, next) ==
    /\ UNCHANGED row
    /\ IF Found(h) THEN Goto(r, next) ELSE Finish(r)

UsableAgain(h) == row[h] # None /\ row[h].expires > now
\* UseAuthorizationCode: WHERE used_at IS NULL AND expires_at > now().
Usable(h) == row[h] # None /\ ~row[h].used /\ row[h].expires > now

\* InvalidateAuthorizeCodeSession: no row updated is sql.ErrNoRows.
UseCode(r, h, next) ==
    IF Usable(h)
    THEN row' = [row EXCEPT ![h].used = TRUE] /\ Goto(r, next)
    ELSE UNCHANGED row /\ Finish(r)

-------------------------------------------------------------------------------
(* GET /authorize *)

\* A code is drawn; it is random, so no request drew it before.  The session is
\* built here, from Claims that name the user; the subject that the store asks
\* for is a field of its own (SubjectSet).
Authorize(r, c, f) ==
    /\ pc[r] = "idle"
    /\ row[Sig(c)] = None
    /\ \A q \in Requests : code[q] # c
    /\ pc' = [pc EXCEPT ![r] = "createCode"]
    /\ code' = [code EXCEPT ![r] = c]
    /\ form' = [form EXCEPT ![r] = f]
    /\ UNCHANGED <<row, now, issued, granted>>

CreateSessionLost(r) ==
    /\ pc[r] = "createCode"
    /\ Goto(r, "createOpenID")
    /\ UNCHANGED <<row, now, issued, granted>>

CreateAuthorizeCodeSession(r) ==
    /\ pc[r] = "createCode"
    /\ CreateSession(r, Sig(code[r]), "createOpenID")
    /\ UNCHANGED <<now, issued, granted>>

CreateOpenIDConnectSession(r) ==
    /\ pc[r] = "createOpenID"
    /\ IF "openid" \in Handlers /\ form[r].openid
       THEN CreateSession(r, Full(code[r]), "createPKCE")
       ELSE Goto(r, "createPKCE") /\ UNCHANGED row
    /\ UNCHANGED <<now, issued, granted>>

CreatePKCERequestSession(r) ==
    /\ pc[r] = "createPKCE"
    /\ IF "pkce" \in Handlers /\ form[r].challenge
       THEN CreateSession(r, Sig(code[r]), "redirect")
       ELSE Goto(r, "redirect") /\ UNCHANGED row
    /\ UNCHANGED <<now, issued, granted>>

\* The redirect carries the code to the client.
WriteAuthorizeResponse(r) ==
    /\ pc[r] = "redirect"
    /\ issued' = issued \cup {code[r]}
    /\ Finish(r)
    /\ UNCHANGED <<row, now, granted>>

-------------------------------------------------------------------------------
(* POST /token, grant_type=authorization_code *)

Token(r, c) ==
    /\ pc[r] = "idle"
    /\ c \in issued
    /\ pc' = [pc EXCEPT ![r] = "checkCode"]
    /\ code' = [code EXCEPT ![r] = c]
    /\ UNCHANGED <<row, now, issued, granted, form>>

CheckCodeSpending(r) ==
    /\ pc[r] = "checkCode"
    /\ UseCode(r, Sig(code[r]), IF "pkce" \in Handlers THEN "checkPKCE" ELSE "getCode")
    /\ UNCHANGED <<now, issued, granted>>

\* NewAccessRequest.
CheckCode(r) ==
    /\ pc[r] = "checkCode"
    /\ GetSession(r, Sig(code[r]), IF "pkce" \in Handlers THEN "checkPKCE" ELSE "getCode")
    /\ UNCHANGED <<now, issued, granted>>

GetPKCERequestSession(r) ==
    /\ pc[r] = "checkPKCE"
    /\ GetSession(r, Sig(code[r]), "deletePKCE")
    /\ UNCHANGED <<now, issued, granted>>

DeletePKCERequestSession(r) ==
    /\ pc[r] = "deletePKCE"
    /\ UseCode(r, Sig(code[r]), "getCode")
    /\ UNCHANGED <<now, issued, granted>>

\* NewAccessResponse.
GetAuthorizeCodeSession(r) ==
    /\ pc[r] = "getCode"
    /\ GetSession(r, Sig(code[r]), "invalidate")
    /\ UNCHANGED <<now, issued, granted>>

InvalidateBeforeOpenID(r) ==
    /\ pc[r] = "invalidate"
    /\ UseCode(r, Sig(code[r]), "getOpenID")
    /\ UNCHANGED <<now, issued, granted>>

InvalidateAuthorizeCodeSession(r) ==
    /\ pc[r] = "invalidate"
    /\ UseCode(r, Sig(code[r]), "grant")
    /\ UNCHANGED <<now, issued, granted>>

\* The access token, and the refresh token if one is due, are made.
GrantTokens(r) ==
    /\ pc[r] = "grant"
    /\ granted' = [granted EXCEPT ![code[r]] = @ + 1]
    /\ Goto(r, "getOpenID")
    /\ UNCHANGED <<row, now, issued>>

\* Without an OpenID session the library's handler leaves the answer alone.
GetOpenIDConnectSession(r) ==
    /\ pc[r] = "getOpenID"
    /\ IF "openid" \in Handlers /\ row[Full(code[r])] # None
       THEN GetSession(r, Full(code[r]), "deleteOpenID")
       ELSE Goto(r, "answer") /\ UNCHANGED row
    /\ UNCHANGED <<now, issued, granted>>

DeleteOpenIDConnectSession(r) ==
    /\ pc[r] = "deleteOpenID"
    /\ UseCode(r, Full(code[r]), "answer")
    /\ UNCHANGED <<now, issued, granted>>

WriteAccessResponse(r) ==
    /\ pc[r] = "answer"
    /\ Finish(r)
    /\ UNCHANGED <<row, now, issued, granted>>

-------------------------------------------------------------------------------
(* The environment *)

\* A check of the library, a statement or the process fails.
Fail(r) ==
    /\ MayFail
    /\ pc[r] # "idle"
    /\ Finish(r)
    /\ UNCHANGED <<row, now, issued, granted>>

Tick ==
    /\ now < MaxTime
    /\ now' = now + 1
    /\ UNCHANGED <<row, issued, granted, pc, code, form>>

Advance(r) ==
    \/ CreateAuthorizeCodeSession(r) \/ CreateOpenIDConnectSession(r)
    \/ CreatePKCERequestSession(r) \/ WriteAuthorizeResponse(r)
    \/ CheckCode(r) \/ GetPKCERequestSession(r) \/ DeletePKCERequestSession(r)
    \/ GetAuthorizeCodeSession(r) \/ InvalidateAuthorizeCodeSession(r) \/ GrantTokens(r)
    \/ GetOpenIDConnectSession(r) \/ DeleteOpenIDConnectSession(r) \/ WriteAccessResponse(r)

Next ==
    \/ \E r \in Requests :
        \/ \E c \in Codes, f \in Forms : Authorize(r, c, f)
        \/ \E c \in Codes : Token(r, c)
        \/ Advance(r)
        \/ Fail(r)
    \/ Tick

Spec == Init /\ [][Next]_vars

\* A request that began goes on.
FairSpec == Spec /\ \A r \in Requests : WF_vars(Advance(r))
-------------------------------------------------------------------------------
Authorizing(r) == pc[r] \in {"createCode", "createOpenID", "createPKCE", "redirect"}

\* What each program point knows: a request in progress has a code, past its
\* INSERT the code has a row, and a code that is presented was issued.
PointOK(r) ==
    /\ pc[r] # "idle" => code[r] \in Codes
    /\ Authorizing(r) => form[r] \in Form
    /\ pc[r] \in {"createOpenID", "createPKCE", "redirect"} => row[Sig(code[r])] # None
    /\ pc[r] # "idle" /\ ~Authorizing(r) => code[r] \in issued

\* Type correctness, and a code that a client got has a row.
TypeOK ==
    /\ row \in [Hashes -> Row \cup {None}]
    /\ now \in 0 .. MaxTime
    /\ issued \subseteq {c \in Codes : row[Sig(c)] # None}
    /\ granted \in [Codes -> Nat]
    /\ pc \in [Requests -> PCs]
    /\ code \in [Requests -> Codes \cup {None}]
    /\ form \in [Requests -> Form \cup {None}]
    /\ \A r \in Requests : PointOK(r)

\* The code as OneTimeCode sees it: the row under its signature.
CodeState(c) ==
    IF row[Sig(c)] = None THEN "unissued"
    ELSE IF row[Sig(c)].used THEN "spent" ELSE "live"

Promise == INSTANCE OneTimeCode WITH state <- [c \in Codes |-> CodeState(c)]

\* Whatever handlers share the table, and however exchanges of one code race,
\* a code is traded for tokens at most once, and only after it was spent.
OneTimeUse == Promise!Spec

\* Where a request is after the UPDATE that spends its code: the deletion of the
\* PKCE session if PKCE is composed, the invalidation of the code if not.
PastSpending ==
    {"grant", "getOpenID", "deleteOpenID", "answer"}
        \cup (IF "pkce" \in Handlers THEN {"getCode", "invalidate"} ELSE {})

Spenders(c) == {r \in Requests : code[r] = c /\ pc[r] \in PastSpending}

\* Any number of exchanges of one code may have read it as unused, but one gets
\* past the statement that spends it.
OneSpender ==
    \A c \in Codes : Cardinality(Spenders(c)) <= 1

\* Whatever fails, a code is spent for good: when the exchange that spent it
\* stops before the tokens, no other takes its place, not even one that read the
\* code as unused before.
SpentCodeSealed ==
    [][\A c \in Codes : CodeState(c) = "spent" =>
        CodeState(c)' = "spent" /\ Spenders(c)' \subseteq Spenders(c)]_vars

\* The OpenID session of a code is spent only by an exchange that has made its
\* tokens, though it lives in a row of its own.
OpenIDAfterGrant ==
    \A c \in Codes : row[Full(c)] # None /\ row[Full(c)].used => granted[c] = 1

Overdue(c) == row[Sig(c)] # None /\ now >= row[Sig(c)].expires

\* If nothing fails, some exchange of a code that was presented in time ends
\* in tokens: racing exchanges do not make each other fail.
PresentedCodeIsGranted ==
    \A c \in Codes :
        (\E r \in Requests : pc[r] = "checkCode" /\ code[r] = c)
            ~> (granted[c] = 1 \/ Overdue(c))

\* If nothing fails, a request that was given a code to answer with ends in its
\* redirect, as a user who is logged in is promised.
AuthorizedRequestGetsCode ==
    \A c \in Codes :
        (\E r \in Requests : pc[r] = "createCode" /\ code[r] = c) ~> c \in issued
===============================================================================
