# TLA+ models of obligator

obligator (`src/`) is an OpenID Connect / OAuth 2 authorization server with
no server-side sessions. Relying parties (RPs) send the browser to `/auth`.
The user proves an identity at an upstream provider (OAuth2/OIDC
`/login-oauth2` → `/callback`, or FedCM `/login-fedcm` →
`/complete-login-fedcm`), then approves on a consent page (`/approve`). The
RP redeems the code at `/token` and calls `/userinfo`. Every piece of state
that spans requests lives in a JWT signed by the server. Each JWT is a
cookie in the user agent or a string handed to the RP:

| envelope | written by | read by | code |
|---|---|---|---|
| `login_key` cookie (identities, logins per client) | `/callback`, `/complete-login-fedcm`, `/approve` | `/auth`, `/approve`, `validate` | `addIdentToCookie`, `addLoginToCookie` |
| `auth_request` cookie | `/auth` (oidc.go 263) | `/approve` (cleared at 344) | |
| `return_uri` cookie | `/auth` (311), `/login-fedcm` | `/callback`, `/complete-login-fedcm` | |
| `upstream_oauth2_request` cookie | `/login-oauth2` (part_001 143) | `/callback` | |
| code, 16 s | `/approve` (445) | `/token` | |
| access token, 16 s | `/token` | `/userinfo` | |

The hard parts all come from the cookies being shared across the tabs of
one browser and from the envelopes being bearer values:

- requests from several tabs interleave on one cookie jar;
- a code can be replayed until it expires;
- a code that leaks from a URL can be tried by any client, and only PKCE
  stops that;
- envelopes expire between steps;
- handlers clear or overwrite cookies before their checks finish.

## Components and modules

| component | source | module | status |
|---|---|---|---|
| AuthEngine: `/auth`, `/approve`, `/token`, `/userinfo` | src/oidc.go | AuthEngine | modelled |
| Session cookie (login_key) | spec 4.3 (helpers not in src/) | AuthEngine, UpstreamLogin, AbstractSession | partly (`/approve`'s write is still atomic) |
| Envelope codec | src/oidc.go | AuthEngine, UpstreamLogin | partly (expiry only, signatures abstracted) |
| Upstream login `/login-oauth2`, `/callback` | src/unnamed/part_001 | UpstreamLogin | modelled |
| FedCM `/login-fedcm`, `/complete-login-fedcm` (with the issuer it trusts and a cross-site poster) | src/unnamed/part_000 | AuthEngine | modelled |
| PKCE helpers | src/unnamed/part_001 | AuthEngine, UpstreamLogin | partly |
| Forward-auth `validate` | src/obligator.go | ForwardAuth | partly (an operator no run checks) |
| `/add-domain`, server restart (`NewServer` reloading the proxy from the database) | src/obligator.go | ForwardAuth | partly (`/domains` and the mux are not) |
| `/register` and `NewOIDCHandler`'s shared `err` | src/oidc.go | OIDCSharedErr | modelled |
| Upstream metadata / remote JWKS | part_001, outside src/ | none | not modelled (its failures are a choice in UpstreamLogin) |
| Key manager (JWKS generation) | src/obligator.go | none | not modelled: start-up only, cryptography |
| Mux, config, email/QR/IndieAuth | src/obligator.go, outside src/ | none | not modelled: no protocol state |

### AuthEngine.tla

**Actors.** There is one user agent with the tabs `Tabs`, a set of relying
parties `Clients`, and the upstream providers.

**State.**

| variable | what it holds |
|---|---|
| `now` | a bounded clock |
| `loginKey`, `authRequest`, `returnUri` | the three cookies, each a record with an `exp`, or `NoCookie` |
| `tab` | the page each tab shows: blank, a consent page for a query, or the FedCM page |
| `codes` | codes delivered to a redirect URI |
| `leaked` | codes whose URL every client has seen |
| `tokens` | `/token` responses |
| `answers` | `/userinfo` responses |

**Abstractions.**

- A client id `https://h` is its host `h`, so a redirect URI is compared
  with the client by equality.
- An identity is its `(id, provider)` pair.
- SHA-256 + base64url is the injective tag `<<"S256", v>>`.
- An envelope is valid iff `now < exp`, which is jwx's rule that exp must
  be after now.
- Signatures are not modelled: every envelope in the model is one the
  server signed.

**Actions.** Each action is one whole handler, and its guards and
disjuncts are the handler's early returns:

- `RequestAuth`/`Auth` — `/auth` with `ParseAuthRequest`. A rejection
  leaves the cookies alone. Otherwise the handler writes auth_request and
  return_uri and shows the consent page.
- `Approve` — `/approve`. A stale login_key gives a 401. Otherwise the
  auth_request cookie is cleared *before* the auth request and the identity
  are checked. On success the handler runs `addLoginToCookie` and mints a
  code, unless response_type is `none`. The code's `sub` is the email claim,
  as at oidc.go 449.
- `Token` — `/token`. Its guards are: the code parses, the redirect URI
  matches (or the code leaked), and the PKCE check of 513-536 passes.
- `Userinfo` — `/userinfo`.
- `Callback` — the tail of `/callback`, after the provider vouched for an
  account. A missing return_uri gives a 500. The allow-list gate sends
  non-users to `/no-account`. On success the handler runs
  `addIdentToCookie`, clears return_uri and redirects.
- `LoginFedCm` and `CompleteLoginFedCm` — the FedCM pair. It has no
  allow-list gate, as in the code. The assertion is checked by
  `FedCmTokenVerifies`, against the keys of whatever issuer the token
  names: an honest issuer signs only its own user's identities. An issuer
  in `RogueIssuers` is one whose key the browser's holder controls, so it
  signs any email. The handler body `completeLoginFedCm` takes the
  request's cookies as arguments: it appends the identity first and sets
  the cookie only after the return_uri check.
- `CrossSiteFedCm` — another site's form posts an assertion for an
  identity the user does not own to `/complete-login-fedcm` in one of the
  user's tabs (login CSRF; nothing ties the post to a flow). The POST is
  cross-site, so it carries no SameSite=Lax cookie.
- `Leak` — the environment exposes a code's URL to every client.
- `Tick` — time advances. Envelopes that have expired and can no longer be
  used are dropped from `codes`, `leaked` and `tokens`. Every property about
  them was checked when they were minted.

`MCAuthEngine.tla` instantiates the module with:

- clients `c1`, `c2` with verifiers `"v1"`, `"v2"`;
- emails `alice`, `bob`, `mallory`;
- providers `google`, `github`, and `evil`, an issuer the user hosts
  (only the rogue-issuer run names it in `Providers` and `RogueIssuers`);
- the user's accounts: `alice` at google (OAuth2) and `alice` at github
  (FedCM);
- a curated set of `/auth` queries: PKCE and no PKCE, the email scope and
  none, `response_type=none`, a mismatched redirect URI, `prompt=none`, and a missing `response_type`.

### UpstreamLogin.tla and AbstractSession.tla

`UpstreamLogin` models `/login-oauth2` and the whole of `/callback`. It has
one browser with tabs, two upstream providers and an attacker.

**State.**

| variable | what it holds |
|---|---|
| `loginKey`, `upstreamReq`, `returnUri` | the browser's cookies |
| `tab` | each tab's page; an `"exchanging"` tab carries the cookies its `/callback` request sent |
| `flows` | how many `/login-oauth2` runs there were; a flow's state, nonce and verifier are all its number |
| `issued`, `redeemed` | the providers' codes, and those already exchanged (codes are single-use at the provider) |
| `stolen` | codes the attacker obtained with its own accounts |

**Actions.**

- `VisitAuth` — `/auth` setting return_uri.
- `LoginOAuth2` — `/login-oauth2`. A metadata failure gives a 500;
  otherwise a new flow goes into the cookie.
- `ProviderAuthorize` — the user signs in at the provider.
- `AttackerObtainCode` and `InjectCallback` — the attacker gets a code
  for its own account and navigates a tab of the victim to
  `/callback?code=…`. SameSite=Lax lets that top-level GET carry the
  cookies.
- `CallbackRequest` — the `/callback` request up to the token exchange.
  A missing or expired upstream cookie gives a 500.
- `ProviderRespond` — the provider's answer and the rest of the handler:
  - a transport failure;
  - the token endpoint's rejection (`ExchangeOk`: the code is unknown,
    reused or for another provider, or the PKCE verifier is wrong where
    the provider checks it);
  - the nonce check (`NonceOk`) for OIDC;
  - `GetProfile` for plain providers, with its error ignored;
  - a missing return_uri;
  - the `/no-account` gate;
  - success, which sets login_key from the cookie the *request* carried.

Splitting `/callback` at its only suspension point is what exposes
cookies read before the await and written after it.

`AbstractSession` is the spec's promise for the session cookie. While the
cookie is valid its set of identities only grows, and only by identities
the holder proved. Everything goes at once when it expires. `UpstreamLogin`
is checked to implement it with the refinement mapping
`session <- IF Fresh(loginKey) THEN ToSet(loginKey.idents) ELSE {}`
(`AbstractSessionSpec`).

### ForwardAuth.tla

`ForwardAuth` extends `UpstreamLogin` with the two consumers of login_key
in obligator.go:

- `validate` is an operator. A missing, bad or expired cookie gives
  "no identity" in passthrough mode and an error otherwise. A valid one
  gives the *first* identity (`tokIdents[0]`).
- `AddDomain` is `/add-domain`. A non-owner gets a 403. Otherwise the
  handler writes the database, then the proxy, and a proxy failure is a
  500 after the database write. A failure of the database write is a 500
  before it.
- `Restart` is the server process stopping and `NewServer` running again.
  The database, the signing keys and the browser's cookies survive. The
  new proxy gets every recorded domain, and each failure is only logged.
  A `/callback` waiting on its token exchange loses its connection, and
  the provider may already have exchanged its code.

No run checks `validate` on its own. Which identity it names changes
mid-session only through the lost update of `/callback`, which
`lost_update` already shows.

### OIDCSharedErr.tla

`NewOIDCHandler` declares one `err` (oidc.go 66) that every handler
closure captures. `/register` assigns it (117) and tests it (118) without
declaring its own, and a non-POST `/approve` calls `err.Error()` on it
(326). Each request is a process with a program counter:

- `RegisterDecode` is the decode into the shared `err`;
- `RegisterRespond` is the test of `err` and of the body's redirect_uris,
  answering 400 or 201;
- `ApproveNotPost` answers 405, or drops the connection (`Reset`) when
  `err` is nil and `.Error()` panics.

Other handlers declare a local `err` with `:=`, so they are not actors
here.

## Runs

| run | cfg | expect | what it shows |
|---|---|---|---|
| core | MCAuthEngine.cfg | pass | See below. |
| consent_confusion | MCAuthEngineConsent.cfg | violation | `ConsentMatchesCode`: tab 1 shows consent for `c1`. Tab 2's `/auth` for `c2` overwrites the single auth_request cookie. Submitting tab 1's form issues an ID token for `c2`. |
| userinfo_subject | MCAuthEngineUserinfo.cfg | violation | `UserinfoSubjectMatchesIdToken`: without the `email` scope the code's sub is `""`, so `/userinfo` answers `sub: ""` while the ID token's sub is the email. |
| fedcm_gate | MCAuthEngineFedCm.cfg | violation | `OnlyUsersGetTokens`: on a non-public server a FedCM assertion for `bob`, who is not a user, ends in an ID token for `bob`. `/callback` would have sent bob to `/no-account`. |
| upstream_tabs | MCUpstreamLoginTabs.cfg | pass | Two tabs whose logins overwrite each other's upstream cookie, under attack. A code never completes against another flow's nonce or verifier: `SessionEmailsControlled`. |
| login_csrf | MCUpstreamLoginCsrf.cfg | violation | `SessionEmailsControlled`: with a plain provider that does not check PKCE, the attacker's code pushed into the browser adds the attacker's account to the session. `state` is never checked. |
| profile_error | MCUpstreamLoginProfile.cfg | violation | `SessionEmailsControlled`: on a public server a failed `GetProfile` is ignored and an identity with an empty email is added. |
| lost_update | MCUpstreamLoginLostUpdate.cfg | violation | `AbstractSessionSpec`: two overlapping `/callback`s in two tabs; the later Set-Cookie drops the identity the earlier one added. |
| callback_timeout | MCUpstreamLoginTimeout.cfg | violation | `CallbackAnswered` under `FairSpec`: the token exchange has no deadline, so a provider that never answers leaves `/callback` waiting forever. Spec 5 requires a deadline. |
| rogue_issuer | MCAuthEngineRogueIssuer.cfg | violation | `SubjectAuthenticated`: the user, alice, hosts an issuer `evil`. They post to `/complete-login-fedcm` an assertion for bob signed by evil's key. The handler fetches evil's own metadata and keys, accepts it, and `/approve` issues an ID token with sub `bob`. |
| forward_auth | MCForwardAuth.cfg | pass | One tab under attack, two user emails at an OIDC provider that does not check PKCE and a plain provider that does, `/add-domain` failing at either write, and restarts. It checks `TypeOK`, `AbstractSessionSpec` (the refinement, now with `/add-domain` and restarts beside the logins), `DomainOwnersProved` (every domain belongs to a proved identity) and `ProxiedRecorded` (the proxy serves only recorded domains). |
| register_race | MCOIDCSharedErr.cfg | violation | `AnswerFromOwnRequest`: a valid `/register` decodes, a malformed one decodes into the same `err`, and the valid one is answered 400. |

The core run has one tab and two relying parties, and codes can leak. It
checks:

- `PkceBindsRedeemer`: a code issued with a challenge is redeemed only by
  the client it was issued to, even after it leaked.
- `SubjectAuthenticated`: every ID token names an email the user proved.
  This includes after another site posts an attacker's FedCM assertion: it
  holds only because that cross-site POST carries no return_uri cookie and
  the handler sets the session after the return_uri check.
- `AbstractSessionSpec`: `AuthEngine`'s writers of
  login_key implement `AbstractSession`, under the same mapping as
  `UpstreamLogin`'s. The writers are `/callback`'s tail, FedCM in the
  user's tab and from another site, and `/approve` re-signing the cookie
  with a new `exp`. Its handlers are atomic, so this checks what each
  writer puts in the cookie. The lost update across an await is
  `UpstreamLogin`'s (`lost_update`).

Every violation run is a finding (PROJECT.json "findings").

`register_race` has two requests, one valid registration and one
malformed body: the fewest that let one request's decode fall between
another's write and read. Deadlock is not checked there because every
request ends.

**Bounds.** The TTLs are abstract ticks: code and access token 1,
auth_request 2, session 3, and the clock stops at 4. These values are
enough for every expiry ordering that matters:

- a code expires before the auth request;
- an auth request outlives a code;
- the session expires between an upstream login and `/approve`, after
  which `addIdentToCookie` starts from an empty session.

One tab covers every single-flow path of `AuthEngine`; the
interleavings of cookie writers across tabs are the upstream runs'. Two
clients are the minimum for
cross-client code theft and for consent confusion.

**Bounds of the upstream runs.**

- `MaxFlows = 3` (2 in the two-tab lost-update run) gives room for a user
  flow, an attacker flow and a retry.
- The TTLs of 2 against a clock of 3 let every envelope expire inside a
  flow, including between a `/callback` request and its response.
- The two-tab runs cover every overlap of two logins on one cookie jar.
- The user's accounts at both providers let both protections against an
  injected code (nonce, PKCE) be exercised and removed.

**Fairness.** The runs of `AuthEngine` and the safety runs of the
upstream login assume no fairness: every step is a choice of the user, a
relying party, a provider or the attacker. `FairSpec` in
`UpstreamLogin` adds weak fairness of `CallbackRequest` only. Once a tab
is redirected to `/callback` the browser sends the request by itself.
The provider's answer is not fair, because it is an external server.
`CallbackAnswered` asks whether the server bounds the wait without the
provider's help, as spec 5 requires. It does not.

## Plan (what is left, most important first)

1. **`/approve` as a request and a response**, with the `login_key_hash`
   that `/auth` stores and `/approve` never checks. Both hazards that
   remain there need a violation run: the stale consent and the lost
   update of an identity by `/approve`'s Set-Cookie.
2. **Pkce**: `GeneratePKCECodeVerifier`/`Challenge` as operators checked
   against a reference definition over a small alphabet.

## Not modelled

Every run slot is used. The remaining uncovered hazards (login_key_hash,
the cookie growing past the browser's size limit, the
FedCM audience) would each be a violation run of its own, and they rank
below the findings the current violation runs show. Most of the
unmapped lines of `obligator.go` configure or start the server:
defaults, storage and database opening, template parsing and handler
registration. The rest is the request log of `ObligatorMux`,
`GenerateJWK` and the HTTP listener. None of them changes protocol
state beyond what `Restart` models.

- **Key generation and signatures.** These are cryptography.
- **HTML templates.** The consent form's content is not under src/.
- **Discovery, `/jwks`.** They change no state.
- **`/domains`, the proxy's own behaviour, the email, QR and IndieAuth
  providers.** These are read-only, outside src/ or outside the protocol.
  `/add-domain` is modelled.
- **Upstream ID-token signatures and the remote JWKS cache.** An ID token
  is taken to be the provider's for the code it answers. Failures to
  fetch metadata or keys are modelled as 500 outcomes.
- **Whether GitHub keeps unverified primary emails.** `GetProfile` is
  modelled as taking the primary email whatever its verified flag. No run
  is built on an unverified one, because that depends on the provider.
