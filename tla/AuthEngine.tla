----------------------------- MODULE AuthEngine -----------------------------
(***************************************************************************)
(* The downstream OpenID Connect authorization server of obligator         *)
(* (src/oidc.go, NewOIDCHandler: /auth, /approve, /token, /userinfo)       *)
(* together with the handlers that write the aggregated session cookie     *)
(* (the tail of /callback in src/unnamed/part_001 and                      *)
(* /login-fedcm, /complete-login-fedcm in src/unnamed/part_000).           *)
(*                                                                         *)
(* The server keeps no session table: all cross-request state is in the   *)
(* cookies of the one user agent modelled here, which has several tabs     *)
(* that issue requests in any order.  Relying parties redeem the codes     *)
(* delivered to their redirect_uri; a code that leaks from a URL can be    *)
(* tried by any client.  Time is a bounded clock of abstract ticks.        *)
(*                                                                         *)
(* Data is abstracted: a client id https://h is identified with its host   *)
(* h, an identity is its (id, provider) pair (email identities, id =       *)
(* email), SHA-256 + base64url is an injective tag of the verifier, and    *)
(* signatures are left out (every envelope here is one the server signed). *)
(***************************************************************************)
EXTENDS Naturals, FiniteSets, Sequences, SequencesExt

CONSTANTS
    Clients,        \* client ids; redirect_uri hosts are drawn from the same set
    Emails,         \* identity ids that a form may name
    Providers,      \* upstream provider names (FedCM: the issuer)
    Accounts,       \* the (email, provider) identities the user can prove upstream
    FedCmAccounts,  \* the (email, issuer) identities a FedCM IdP asserts for the user
    RogueIssuers,   \* issuers whose signing key the browser's holder controls
    Users,          \* allow-list of configured users (db.GetUsers)
    Public,         \* config.Public: anyone may log in
    Tabs,           \* tabs of the one user agent
    Verifier,       \* Verifier[c]: the PKCE code_verifier relying party c holds
    Queries,        \* the /auth query strings the user agent may be sent to
    CodeTTL,        \* 16 s: lifetime of codes and access tokens
    AuthRequestTTL, \* 8 min: lifetime of the auth_request envelope
    SessionTTL,     \* lifetime of the login_key envelope
    MaxTime,        \* bound of the clock
    NoCookie,       \* an absent cookie
    NoClaim         \* an empty string claim / form value

ASSUME Users \subseteq Emails
ASSUME DOMAIN Verifier = Clients
ASSUME CodeTTL \in Nat \ {0} /\ AuthRequestTTL \in Nat /\ SessionTTL \in Nat
       /\ MaxTime \in Nat

Identity == [id: Emails, provider: Providers]

ASSUME Accounts \cup FedCmAccounts \subseteq Identity
ASSUME RogueIssuers \subseteq Providers

\* the emails the user can prove at some upstream provider
UserEmails == {a.id : a \in Accounts \cup FedCmAccounts}

\* base64url_nopad(SHA-256(v)): injective, distinct from every verifier
GeneratePKCECodeChallenge(v) == <<"S256", v>>

\* A query's code_challenge: the relying party's own verifier, hashed
Challenge(q) ==
    IF q.pkce THEN GeneratePKCECodeChallenge(Verifier[q.client]) ELSE NoClaim

VARIABLES
    now,            \* the clock
    loginKey,       \* cookie <prefix>login_key: the session envelope
    authRequest,    \* cookie <prefix>auth_request
    returnUri,      \* cookie <prefix>return_uri: the /auth query to bounce to
    tab,            \* tab[t]: the page tab t shows
    codes,          \* authorization codes delivered in a redirect
    leaked,         \* codes whose URL leaked to every client
    tokens,         \* /token responses
    answers         \* /userinfo responses

vars == <<now, loginKey, authRequest, returnUri, tab, codes, leaked, tokens,
          answers>>

Blank == [page |-> "blank", q |-> NoClaim]

\* jwt.Parse: the envelope is present and now is before its exp
Fresh(env) == env # NoCookie /\ now < env.exp

EmptySession == [idents |-> <<>>, logins |-> [c \in Clients |-> {}]]

-----------------------------------------------------------------------------
(* Session cookie helpers (outside src/, modelled from the spec 4.3).      *)

\* addIdentToCookie: start from the current cookie only if it parses, add
\* the identity unless (id, provider) is already there, re-sign.
addIdentToCookie(cookie, ident) ==
    LET base == IF Fresh(cookie) THEN cookie ELSE EmptySession
    IN  [idents |-> IF Contains(base.idents, ident) THEN base.idents
                    ELSE Append(base.idents, ident),
         logins |-> base.logins,
         exp    |-> now + SessionTTL]

\* Mutant: the re-signed cookie keeps only the identity just used.
addLoginToCookieOneIdent(cookie, c, ident) ==
    [cookie EXCEPT !.idents = <<ident>>, !.logins[c] = @ \cup {ident},
                   !.exp = now + SessionTTL]

\* addLoginToCookie: record that ident was used for client c, re-sign.
addLoginToCookie(cookie, c, ident) ==
    [cookie EXCEPT !.logins[c] = @ \cup {ident}, !.exp = now + SessionTTL]

-----------------------------------------------------------------------------
(* /auth (oidc.go 181-319, ParseAuthRequest 583-653).  Sent by tab t       *)
(* with query q.  Every rejection of ParseAuthRequest (host mismatch 400,  *)
(* prompt=none and missing response_type 303 to redirect_uri) leaves the   *)
(* cookies alone and navigates the tab away.                               *)
\* Mutant: the missing response_type is not rejected.
AuthRejectedAnyResponseType(q) ==
    \/ q.client # q.redirect
    \/ q.prompt = "none"

AuthRejected(q) ==
    \/ q.client # q.redirect
    \/ q.prompt = "none"
    \/ q.responseType = NoClaim

Auth(t, q) ==
    \/ /\ AuthRejected(q)
       /\ tab' = [tab EXCEPT ![t] = Blank]
       /\ UNCHANGED <<authRequest, returnUri>>
    \/ /\ ~AuthRejected(q)
       /\ authRequest' = [client       |-> q.client,
                          redirect     |-> q.redirect,
                          scope        |-> q.scope,
                          challenge    |-> Challenge(q),
                          responseType |-> q.responseType,
                          exp          |-> now + AuthRequestTTL]
       /\ returnUri' = q
       /\ tab' = [tab EXCEPT ![t] = [page |-> "consent", q |-> q]]

\* The user agent is sent to /auth by a relying party.  The redirect to
\* the return URI after an upstream login is the same request, for a
\* query that Queries contains.
RequestAuth(t, q) ==
    /\ Auth(t, q)
    /\ UNCHANGED <<now, loginKey, codes, leaked, tokens, answers>>

-----------------------------------------------------------------------------
(* /approve (oidc.go 321-483), the consent form of tab t posting           *)
(* identity_id = e.  The auth_request cookie is cleared before it is read, *)
(* so every outcome after the login_key check consumes it.  The identity   *)
(* is the first one of the session whose id is e.                          *)
\* Mutant: the id comparison of the lookup is lost; any identity matches.
OwnedIdentityIndexAnyId(e) == SelectInSeq(loginKey.idents, LAMBDA i: TRUE)

\* The lookup of identity_id among the session's identities: the index of
\* the first identity with that id, 0 when the caller does not own it.
OwnedIdentityIndex(e) == SelectInSeq(loginKey.idents, LAMBDA i: i.id = e)

Approve(t, e) ==
    LET ar    == authRequest
        idx   == OwnedIdentityIndex(e)
        ident == loginKey.idents[idx]
        email == IF "email" \in ar.scope THEN ident.id ELSE NoClaim
        code  == [sub       |-> email,
                  idToken   |-> [sub |-> e, aud |-> ar.client, email |-> email],
                  challenge |-> ar.challenge,
                  exp       |-> now + CodeTTL,
                  redirect  |-> ar.redirect,
                  consentFor |-> tab[t].q.client]
    IN
    /\ tab[t].page = "consent"
    /\ tab' = [tab EXCEPT ![t] = Blank]
    /\ \/ /\ ~Fresh(loginKey)                     \* 401
          /\ UNCHANGED <<loginKey, authRequest, codes>>
       \/ /\ Fresh(loginKey)
          /\ authRequest' = NoCookie               \* clearCookie
          /\ \/ /\ ~Fresh(ar) \/ idx = 0            \* 401, 403
                /\ UNCHANGED <<loginKey, codes>>
             \/ /\ Fresh(ar) /\ idx # 0
                /\ loginKey' = addLoginToCookie(loginKey, ar.client, ident)
                /\ codes' = IF ar.responseType = "none" THEN codes
                            ELSE codes \cup {code}
    /\ UNCHANGED <<now, returnUri, leaked, tokens, answers>>

\* Mutant: the challenge is only checked when a verifier is sent.
PkceOkOnlyIfSent(challenge, v) ==
    IF challenge # NoClaim /\ v # NoClaim
    THEN GeneratePKCECodeChallenge(v) = challenge
    ELSE TRUE

\* PKCE check of /token: a challenge demands the verifier that hashes to
\* it, no challenge forbids a verifier.
PkceOk(challenge, v) ==
    IF challenge # NoClaim THEN GeneratePKCECodeChallenge(v) = challenge
    ELSE v = NoClaim

\* /token (oidc.go 485-578): client c presents code k with verifier v.
\* Each failure is a 401 that changes nothing, so it is a guard.
Token(c, k, v) ==
    /\ k \in codes
    /\ k.redirect = c \/ k \in leaked
    /\ now < k.exp
    /\ PkceOk(k.challenge, v)
    /\ tokens' = tokens \cup
         {[redeemer |-> c, code |-> k,
           access   |-> [sub |-> k.sub, exp |-> now + CodeTTL]]}
    /\ UNCHANGED <<now, loginKey, authRequest, returnUri, tab, codes, leaked,
                   answers>>

\* /userinfo (oidc.go 150-179): the bearer of token tk asks for its subject.
Userinfo(tk) ==
    /\ tk \in tokens
    /\ now < tk.access.exp
    /\ answers' = answers \cup
         {[sub |-> tk.access.sub, idTokenSub |-> tk.code.idToken.sub]}
    /\ UNCHANGED <<now, loginKey, authRequest, returnUri, tab, codes, leaked,
                   tokens>>

-----------------------------------------------------------------------------
(* The tail of /callback (part_001 304-366), after the upstream provider   *)
(* vouched for email e at provider p in tab t.  The access-control gate    *)
(* sends a non-user to /no-account; a missing return_uri cookie is a 500.  *)
Callback(t, e, p) ==
    /\ [id |-> e, provider |-> p] \in Accounts
    /\ \/ /\ returnUri = NoCookie \/ ~(Public \/ e \in Users)
          /\ tab' = [tab EXCEPT ![t] = Blank]
          /\ UNCHANGED <<loginKey, returnUri>>
       \/ /\ returnUri # NoCookie /\ (Public \/ e \in Users)
          /\ returnUri' = NoCookie
          /\ loginKey' = addIdentToCookie(loginKey, [id |-> e, provider |-> p])
          /\ tab' = [tab EXCEPT ![t] = Blank]     \* 303 to the return URI
    /\ UNCHANGED <<now, authRequest, codes, leaked, tokens, answers>>

\* /login-fedcm (part_000 36-62) from the consent page of tab t: the page's
\* return URI is stored in the return_uri cookie.
LoginFedCm(t) ==
    /\ tab[t].page = "consent"
    /\ returnUri' = tab[t].q
    /\ tab' = [tab EXCEPT ![t] = [page |-> "fedcm", q |-> tab[t].q]]
    /\ UNCHANGED <<now, loginKey, authRequest, codes, leaked, tokens, answers>>

\* The assertion's signature checks out against the keys of the issuer the
\* token itself names (ParseInsecure, GetOidcConfiguration(issuer), its
\* jwks_uri, jwt.Parse): an honest issuer signs only its own user's
\* identities, an issuer whose key the holder controls signs any email.
FedCmTokenVerifies(e, iss) ==
    \/ [id |-> e, provider |-> iss] \in FedCmAccounts
    \/ iss \in RogueIssuers

completeLoginFedCm(lk, ru, e, iss) ==
    \/ UNCHANGED <<loginKey, returnUri>>            \* 500: metadata, JWKS
    \/ /\ ru = NoCookie                             \* 500
       /\ UNCHANGED <<loginKey, returnUri>>
    \/ /\ ru # NoCookie
       /\ returnUri' = NoCookie
       /\ loginKey' = addIdentToCookie(lk, [id |-> e, provider |-> iss])

\* The user's tab t, on the FedCM page, posts an assertion; the request
\* carries the browser's cookies.  The tab follows the 303 or shows the 500.
CompleteLoginFedCm(t, e, iss) ==
    /\ tab[t].page = "fedcm"
    /\ FedCmTokenVerifies(e, iss)
    /\ tab' = [tab EXCEPT ![t] = Blank]
    /\ completeLoginFedCm(loginKey, returnUri, e, iss)
    /\ UNCHANGED <<now, authRequest, codes, leaked, tokens, answers>>

\* A page of another site auto-submits a form to /complete-login-fedcm in
\* tab t with an assertion for an identity the user does not own (login
\* CSRF; no cookie ties the post to a flow, part_000 72-74).  The post is
\* cross-site, so the browser sends no SameSite=Lax cookie with it.
CrossSiteFedCm(t, e, iss) ==
    /\ e \notin UserEmails
    /\ tab' = [tab EXCEPT ![t] = Blank]
    /\ completeLoginFedCm(NoCookie, NoCookie, e, iss)
    /\ UNCHANGED <<now, authRequest, codes, leaked, tokens, answers>>

-----------------------------------------------------------------------------
(* Environment: a code's URL leaks; time passes.                           *)
Leak(k) ==
    /\ k \in codes \ leaked
    /\ leaked' = leaked \cup {k}
    /\ UNCHANGED <<now, loginKey, authRequest, returnUri, tab, codes, tokens,
                   answers>>

\* Time passing.  Codes and access tokens that can no longer be parsed
\* are dropped from the model's record of them: nothing can use them any
\* more, and every property about them was checked when they were made.
Unexpired(S, t) == {k \in S: t < k.exp}

Tick ==
    /\ now < MaxTime
    /\ now' = now + 1
    /\ codes' = Unexpired(codes, now + 1)
    /\ leaked' = Unexpired(leaked, now + 1)
    /\ tokens' = {tk \in tokens: now + 1 < tk.access.exp}
    /\ UNCHANGED <<loginKey, authRequest, returnUri, tab, answers>>

Init ==
    /\ now = 0
    /\ loginKey = NoCookie
    /\ authRequest = NoCookie
    /\ returnUri = NoCookie
    /\ tab = [t \in Tabs |-> Blank]
    /\ codes = {}
    /\ leaked = {}
    /\ tokens = {}
    /\ answers = {}

Next ==
    \/ \E t \in Tabs, q \in Queries: RequestAuth(t, q)
    \/ \E t \in Tabs, e \in Emails: Approve(t, e)
    \/ \E c \in Clients, k \in codes:
           \E v \in {NoClaim, Verifier[c]}: Token(c, k, v)
    \/ \E tk \in tokens: Userinfo(tk)
    \/ \E t \in Tabs, e \in Emails, p \in Providers: Callback(t, e, p)
    \/ \E t \in Tabs: LoginFedCm(t)
    \/ \E t \in Tabs, e \in Emails, p \in Providers: CompleteLoginFedCm(t, e, p)
    \/ \E t \in Tabs, e \in Emails, p \in Providers: CrossSiteFedCm(t, e, p)
    \/ \E k \in codes: Leak(k)
    \/ Tick

Spec == Init /\ [][Next]_vars

-----------------------------------------------------------------------------
(* Properties.                                                             *)

Query == [client: Clients, redirect: Clients, responseType: {"code", "none", NoClaim},
          prompt: {"none", NoClaim}, scope: SUBSET {"openid", "email", "profile"},
          pkce: BOOLEAN]
ChallengeValue == {NoClaim} \cup
                  {GeneratePKCECodeChallenge(Verifier[c]) : c \in Clients}
Session == [idents: Seq(Identity), logins: [Clients -> SUBSET Identity],
            exp: 0..MaxTime + SessionTTL]
IdToken == [sub: Emails, aud: Clients, email: Emails \cup {NoClaim}]
Code == [sub: Emails \cup {NoClaim}, idToken: IdToken, challenge: ChallengeValue,
         exp: 0..MaxTime + CodeTTL, redirect: Clients, consentFor: Clients]

\* Every variable holds a value of its type; the clock stays in its bound.
TypeOK ==
    /\ now \in 0..MaxTime
    /\ loginKey \in Session \cup {NoCookie}
    /\ authRequest \in {NoCookie} \cup
         [client: Clients, redirect: Clients, scope: SUBSET {"openid", "email", "profile"},
          challenge: ChallengeValue, responseType: {"code", "none"},
          exp: 0..MaxTime + AuthRequestTTL]
    /\ returnUri \in Query \cup {NoCookie}
    /\ tab \in [Tabs -> {Blank} \cup
                 [page: {"consent", "fedcm"}, q: Query]]
    /\ codes \subseteq Code /\ leaked \subseteq codes
    /\ \A tk \in tokens: tk.code \in codes /\ tk.redeemer \in Clients
    /\ \A a \in answers: a.sub \in Emails \cup {NoClaim} /\ a.idTokenSub \in Emails

\* PKCE (oidc.go 513-536): a code minted for a request that carried a
\* code_challenge yields tokens only to the relying party it was issued
\* to, even after its URL leaked to every other client.
PkceBindsRedeemer ==
    \A tk \in tokens:
        tk.code.challenge # NoClaim => tk.redeemer = tk.code.idToken.aud

\* /approve (oidc.go 353-372): every ID token names as subject an email
\* the user proved at an upstream provider, whatever identity_id the
\* consent form posts and however the session cookie was rewritten.
SubjectAuthenticated ==
    \A k \in codes: k.idToken.sub \in UserEmails

\* The consent form of a tab authorizes the client that tab shows: every
\* code carries an ID token whose audience is the client named on the
\* consent page the user submitted (/auth stores the request in a single
\* auth_request cookie, /approve reads it back, oidc.go 263, 346).
ConsentMatchesCode ==
    \A k \in codes: k.idToken.aud = k.consentFor

\* /userinfo answers with the subject of the ID token issued with the
\* access token (OIDC Core 5.3.2); the access token's sub is copied from
\* the code's, which /approve sets to the ID token's email (oidc.go 449).
UserinfoSubjectMatchesIdToken ==
    \A a \in answers: a.sub = a.idTokenSub

\* On a server that is not public, only configured users get ID tokens:
\* /callback sends everyone else to /no-account (part_001 325-329).
OnlyUsersGetTokens ==
    ~Public => \A k \in codes: k.idToken.sub \in Users


\* The session as AbstractSession sees it: the identities of the valid
\* login_key cookie.
SessionView == IF Fresh(loginKey) THEN ToSet(loginKey.idents) ELSE {}

Abstract == INSTANCE AbstractSession
    WITH session <- SessionView, Owned <- Accounts \cup FedCmAccounts

\* The writers of login_key in this module (/callback's tail,
\* /complete-login-fedcm in the user's tab and from another site, and
\* /approve's addLoginToCookie re-signing the cookie with a new exp)
\* implement the spec's session (4.3): while the cookie is valid, its
\* identities only grow, by identities the user proved, in any
\* interleaving of tabs.
AbstractSessionSpec == Abstract!Spec
=============================================================================
