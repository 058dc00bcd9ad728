\* Two tabs under attack, flows of one tab racing those of the other on the
\* single upstream_oauth2_request cookie.
CONSTANTS
    google = google
    github = github
    alice = alice
    bob = bob
    mallory = mallory
    user = user
    attacker = attacker
    t1 = t1
    t2 = t2
    Providers = {google, github}
    Oidc = {google}
    PkceEnforcing = {github}
    ProfileProviders = {github}
    Accounts <- MCAccounts
    User = user
    Attacker = attacker
    Users = {alice, mallory}
    Public = FALSE
    Tabs = {t1, t2}
    MaxFlows = 3
    UpstreamTTL = 2
    ReturnTTL = 2
    SessionTTL = 2
    MaxTime = 3
    NoCookie = NoCookie
    NoEmail = NoEmail
SPECIFICATION Spec
SYMMETRY TabSymmetry
INVARIANT SessionEmailsControlled
