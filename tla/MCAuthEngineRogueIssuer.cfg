\* A private server whose users are alice and bob; the browser's holder,
\* alice, also runs an OIDC issuer (evil) whose signing key they hold.
\* No FedCM IdP asserts anything for them.
CONSTANTS
    c1 = c1  c2 = c2  alice = alice  bob = bob  mallory = mallory
    google = google  github = github  evil = evil
    NoCookie = NoCookie  NoClaim = NoClaim
    Clients = {c1}
    Emails = {alice, bob}
    Accounts <- MCAccounts
    FedCmAccounts = {}
    RogueIssuers = {evil}
    Providers = {google, evil}
    Users = {alice, bob}
    Public = FALSE
    t1 = t1  t2 = t2
    Tabs = {t1}
    Verifier <- MCVerifier
    Queries <- MCQueriesOneClient
    CodeTTL = 1
    AuthRequestTTL = 2
    SessionTTL = 3
    MaxTime = 2
SPECIFICATION Spec
INVARIANTS SubjectAuthenticated
