---------------------------- MODULE UpstreamLogin ----------------------------
(***************************************************************************)
(* The federated login of obligator (src/unnamed/part_001,                 *)
(* NewAddIdentityOauth2Handler): /login-oauth2 stores a fresh state,      *)
(* nonce and PKCE verifier in the upstream_oauth2_request cookie and sends *)
(* the tab to the provider; /callback exchanges the returned code at the   *)
(* provider's token endpoint, checks the nonce (OIDC) or fetches the       *)
(* profile (plain OAuth2), applies the access-control gate and adds the    *)
(* identity to the login_key cookie.                                       *)
(*                                                                         *)
(* /callback is split at its suspension point, the token exchange:         *)
(* CallbackRequest is the request as the browser sends it, carrying the    *)
(* cookies of that moment; ProviderRespond is the provider's answer and    *)
(* the rest of the handler, whose Set-Cookie headers overwrite whatever    *)
(* the browser holds by then.  The tabs of one browser share its cookies.  *)
(* An attacker runs its own logins and can navigate a tab of the browser   *)
(* to /callback with a code of its own (a cross-site top-level GET, which  *)
(* SameSite=Lax lets through).                                             *)
(*                                                                         *)
(* A flow's state, nonce and verifier are random and unique; all three are *)
(* abstracted to the flow's number.  The provider's code records the flow  *)
(* whose authorization request produced it.                                *)
(***************************************************************************)
EXTENDS Naturals, Sequences, SequencesExt

CONSTANTS
    Providers,       \* configured upstream providers
    Oidc,            \* providers with openid_connect = true
    PkceEnforcing,   \* providers whose token endpoint checks code_verifier
    ProfileProviders,\* plain providers GetProfile knows ("github")
    Accounts,        \* [owner, provider, email, verified] at the providers
    User,            \* the owner of the browser
    Attacker,        \* the owner of the attacking site
    Users,           \* db.GetUsers allow-list
    Public,          \* config.Public
    Tabs,            \* tabs of the browser
    MaxFlows,        \* bound on /login-oauth2 runs (victim and attacker)
    UpstreamTTL,     \* 8 min: upstream_oauth2_request lifetime
    ReturnTTL,       \* return_uri lifetime
    SessionTTL,      \* login_key lifetime
    MaxTime,         \* bound of the clock
    NoCookie,        \* an absent cookie
    NoEmail          \* the empty email string

ASSUME Oidc \cup PkceEnforcing \cup ProfileProviders \subseteq Providers
ASSUME ProfileProviders \cap Oidc = {}

VARIABLES
    now,            \* the clock
    loginKey,       \* cookie login_key: [idents, exp]
    upstreamReq,    \* cookie upstream_oauth2_request: [provider, flow, exp]
    returnUri,      \* cookie return_uri: [exp]
    tab,            \* tab[t]: the page tab t is on
    flows,          \* number of /login-oauth2 runs so far
    issued,         \* codes the providers issued
    redeemed,       \* codes the providers already exchanged (single use)
    stolen          \* the attacker's own codes

vars == <<now, loginKey, upstreamReq, returnUri, tab, flows, issued,
          redeemed, stolen>>

Fresh(env) == env # NoCookie /\ now < env.exp

Idle == [page |-> "idle"]

\* Identity{Id: email, ProviderName: provider.Name}
IdentityOf(email, p) == [id |-> email, provider |-> p]

\* The identities the browser's owner can prove: verified emails of its
\* own accounts.
Owned == {IdentityOf(a.email, a.provider) :
            a \in {b \in Accounts: b.owner = User /\ b.verified}}

-----------------------------------------------------------------------------
(* addIdentToCookie (outside src/, spec 4.3): parse the cookie sent with   *)
(* the request, start over if it does not parse, append the identity      *)
(* unless present, re-sign.                                                *)
\* Mutant: the cookie sent with the request is ignored.
addIdentToCookieFresh(cookie, ident) ==
    [idents |-> <<ident>>, exp |-> now + SessionTTL]

addIdentToCookie(cookie, ident) ==
    LET base == IF Fresh(cookie) THEN cookie.idents ELSE <<>>
    IN  [idents |-> IF Contains(base, ident) THEN base ELSE Append(base, ident),
         exp    |-> now + SessionTTL]

\* /auth (oidc.go 311) sets return_uri to itself and shows the consent
\* page, with its /login-oauth2 buttons.
VisitAuth(t) ==
    /\ returnUri' = [exp |-> now + ReturnTTL]
    /\ tab' = [tab EXCEPT ![t] = [page |-> "consent"]]
    /\ UNCHANGED <<now, loginKey, upstreamReq, flows, issued, redeemed, stolen>>

\* /login-oauth2 (part_001 69-157) for provider p from the consent page of
\* tab t.  An OIDC provider whose metadata cannot be fetched is a 500;
\* otherwise a new flow is stored in the cookie and the tab goes to the
\* provider's authorization endpoint.
LoginOAuth2(t, p) ==
    /\ tab[t].page = "consent"
    /\ \/ /\ p \in Oidc                                   \* GetMeta fails
          /\ tab' = [tab EXCEPT ![t] = Idle]
          /\ UNCHANGED <<upstreamReq, flows>>
       \/ /\ flows < MaxFlows
          /\ flows' = flows + 1
          /\ upstreamReq' = [provider |-> p, flow |-> flows + 1,
                             exp |-> now + UpstreamTTL]
          /\ tab' = [tab EXCEPT ![t] = [page |-> "provider", provider |-> p,
                                        flow |-> flows + 1]]
    /\ UNCHANGED <<now, loginKey, returnUri, issued, redeemed, stolen>>

\* The user signs in at the provider with one of its accounts there; the
\* provider redirects to /callback with a code for this flow.
ProviderAuthorize(t, a) ==
    /\ tab[t].page = "provider"
    /\ a \in Accounts /\ a.owner = User /\ a.provider = tab[t].provider
    /\ LET k == [provider |-> a.provider, flow |-> tab[t].flow, account |-> a]
       IN  /\ issued' = issued \cup {k}
           /\ tab' = [tab EXCEPT ![t] = [page |-> "callback", code |-> k]]
    /\ UNCHANGED <<now, loginKey, upstreamReq, returnUri, flows, redeemed,
                   stolen>>

\* The attacker runs /login-oauth2 in its own browser and signs in at p
\* with its own account, but keeps the code instead of following the
\* redirect to /callback.
AttackerObtainCode(a) ==
    /\ a \in Accounts /\ a.owner = Attacker
    /\ flows < MaxFlows
    /\ flows' = flows + 1
    /\ LET k == [provider |-> a.provider, flow |-> flows + 1, account |-> a]
       IN  /\ issued' = issued \cup {k}
           /\ stolen' = stolen \cup {k}
    /\ UNCHANGED <<now, loginKey, upstreamReq, returnUri, tab, redeemed>>

\* A page of the attacker navigates tab t to /callback?code=k.
InjectCallback(t, k) ==
    /\ k \in stolen
    /\ tab' = [tab EXCEPT ![t] = [page |-> "callback", code |-> k]]
    /\ UNCHANGED <<now, loginKey, upstreamReq, returnUri, flows, issued,
                   redeemed, stolen>>
-----------------------------------------------------------------------------
(* /callback (part_001 159-367).                                           *)

\* Mutant: a missing or expired upstream cookie is not rejected.
CallbackRequestUnchecked(t) ==
    /\ tab[t].page = "callback"
    /\ tab' = [tab EXCEPT ![t] =
          [page |-> "exchanging", code |-> tab[t].code, req |-> upstreamReq,
           loginKey |-> loginKey, returnUri |-> returnUri]]
    /\ UNCHANGED <<now, loginKey, upstreamReq, returnUri, flows, issued,
                   redeemed, stolen>>

\* The request: the upstream_oauth2_request cookie must parse (500
\* otherwise); the handler then awaits the token endpoint of the provider
\* the cookie names.  The cookies of the request are the ones used after
\* the await.
CallbackRequest(t) ==
    /\ tab[t].page = "callback"
    /\ \/ /\ ~Fresh(upstreamReq)                           \* 500
          /\ tab' = [tab EXCEPT ![t] = Idle]
       \/ /\ Fresh(upstreamReq)
          /\ tab' = [tab EXCEPT ![t] =
                [page |-> "exchanging", code |-> tab[t].code,
                 req |-> upstreamReq, loginKey |-> loginKey,
                 returnUri |-> returnUri]]
    /\ UNCHANGED <<now, loginKey, upstreamReq, returnUri, flows, issued,
                   redeemed, stolen>>

\* The provider's token endpoint accepts code k with the request's
\* code_verifier: it issued k, has not exchanged it yet, and checks the
\* verifier if it enforces PKCE.
ExchangeOk(k, req) ==
    /\ k \in issued \ redeemed
    /\ k.provider = req.provider
    /\ req.provider \in PkceEnforcing => k.flow = req.flow

\* The nonce of the provider's ID token (the one of the authorization
\* request that produced k) equals the stored nonce.
\* Mutant: the comparison with the stored nonce is lost.
NonceOkAny(k, req) == TRUE

NonceOk(k, req) == k.flow = req.flow

\* GetProfile (part_001 417-454): only the "github" provider is known; it
\* returns the account's primary email, verified or not, and "" with an
\* error on any failure of the profile API.
GetProfile(k) ==
    IF k.provider \in ProfileProviders THEN {k.account.email, NoEmail}
    ELSE {NoEmail}

\* The email /callback obtains: the ID token's for OIDC; for a plain
\* provider GetProfile's, its error ignored (email "").
Emails(k, req) ==
    IF req.provider \in Oidc THEN {k.account.email} ELSE GetProfile(k)

\* The answer of the token endpoint and the rest of the handler.  A
\* transport error can end any exchange (500).  Every Set-Cookie of the
\* response overwrites what the browser holds now.
ProviderRespond(t) ==
    LET k   == tab[t].code
        req == tab[t].req
    IN
    /\ tab[t].page = "exchanging"
    /\ tab' = [tab EXCEPT ![t] = Idle]
    /\ \/ /\ UNCHANGED <<loginKey, upstreamReq, returnUri, redeemed>>  \* 500
       \/ /\ ExchangeOk(k, req)
          /\ redeemed' = redeemed \cup {k}
          /\ \/ /\ req.provider \in Oidc /\ ~NonceOk(k, req)      \* 403
                /\ UNCHANGED <<loginKey, upstreamReq, returnUri>>
             \/ /\ req.provider \in Oidc => NonceOk(k, req)
                /\ \E email \in Emails(k, req):
                   \/ /\ ~Fresh(tab[t].returnUri)                \* 500
                      /\ UNCHANGED <<loginKey, upstreamReq, returnUri>>
                   \/ /\ Fresh(tab[t].returnUri)
                      /\ ~Public /\ email \notin Users           \* /no-account
                      /\ UNCHANGED <<loginKey, upstreamReq, returnUri>>
                   \/ /\ Fresh(tab[t].returnUri)
                      /\ Public \/ email \in Users
                      /\ returnUri' = NoCookie
                      /\ loginKey' = addIdentToCookie(tab[t].loginKey,
                                        IdentityOf(email, req.provider))
                      /\ upstreamReq' = NoCookie
    /\ UNCHANGED <<now, flows, issued, stolen>>

-----------------------------------------------------------------------------
\* Time passes; envelopes are checked against it when they are parsed.
Tick ==
    /\ now < MaxTime
    /\ now' = now + 1
    /\ UNCHANGED <<loginKey, upstreamReq, returnUri, tab, flows, issued,
                   redeemed, stolen>>

Init ==
    /\ now = 0
    /\ loginKey = NoCookie
    /\ upstreamReq = NoCookie
    /\ returnUri = NoCookie
    /\ tab = [t \in Tabs |-> Idle]
    /\ flows = 0
    /\ issued = {}
    /\ redeemed = {}
    /\ stolen = {}

Next ==
    \/ \E t \in Tabs: VisitAuth(t)
    \/ \E t \in Tabs, p \in Providers: LoginOAuth2(t, p)
    \/ \E t \in Tabs, a \in Accounts: ProviderAuthorize(t, a)
    \/ \E a \in Accounts: AttackerObtainCode(a)
    \/ \E t \in Tabs, k \in stolen: InjectCallback(t, k)
    \/ \E t \in Tabs: CallbackRequest(t)
    \/ \E t \in Tabs: ProviderRespond(t)
    \/ Tick

Spec == Init /\ [][Next]_vars

-----------------------------------------------------------------------------
(* Properties.                                                             *)
Code == [provider: Providers, flow: 1..MaxFlows, account: Accounts]
UpstreamRequest == [provider: Providers, flow: 1..MaxFlows,
                    exp: 0..MaxTime + UpstreamTTL]
Identity == [id: {a.email: a \in Accounts} \cup {NoEmail}, provider: Providers]
Session == [idents: Seq(Identity), exp: 0..MaxTime + SessionTTL]
Cookie(S) == S \cup {NoCookie}

\* Every variable holds a value of its type; an exchanging tab carries the
\* parsed upstream cookie of its request.
TypeOK ==
    /\ now \in 0..MaxTime
    /\ loginKey \in Cookie(Session)
    /\ upstreamReq \in Cookie(UpstreamRequest)
    /\ returnUri \in Cookie([exp: 0..MaxTime + ReturnTTL])
    /\ flows \in 0..MaxFlows
    /\ redeemed \subseteq issued /\ stolen \subseteq issued /\ issued \subseteq Code
    /\ \A t \in Tabs:
         tab[t].page = "exchanging" =>
            /\ tab[t].code \in issued /\ tab[t].req \in UpstreamRequest
            /\ tab[t].loginKey \in Cookie(Session)

\* /callback (part_001 159-367) only ever adds to the browser's session an
\* identity its owner proved: neither a code the attacker pushes into a
\* tab (the state is never compared, part_001 182) nor a code of another
\* tab's flow, nor a failed profile fetch, puts a foreign or empty email
\* into login_key.
SessionEmailsControlled ==
    loginKey # NoCookie => \A i \in ToSet(loginKey.idents): i \in Owned

\* The login_key cookie as the browser holds it implements the abstract
\* session of the spec: while it parses its identities only grow, each
\* proved by the holder, and they all go only when it expires.  The
\* Set-Cookie of a /callback response replaces the cookie with one built
\* from the cookie its request carried.
SessionView == IF Fresh(loginKey) THEN ToSet(loginKey.idents) ELSE {}

Abstract == INSTANCE AbstractSession WITH session <- SessionView

AbstractSessionSpec == Abstract!Spec

\* Spec 5: every upstream HTTP call carries a deadline, so a /callback
\* whose token exchange is under way is eventually answered, whatever the
\* provider does.  The server's own steps are fair.
ServerFairness ==
    \A t \in Tabs: WF_vars(CallbackRequest(t))

FairSpec == Spec /\ ServerFairness

CallbackAnswered ==
    \A t \in Tabs: tab[t].page = "exchanging" ~> tab[t].page # "exchanging"

=============================================================================
