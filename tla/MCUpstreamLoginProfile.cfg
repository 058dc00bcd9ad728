\* A public server; the GitHub profile fetch can fail.
CONSTANTS
    google = google
    github = github
    alice = alice
    bob = bob
    mallory = mallory
    user = user
    attacker = attacker
    t1 = t1
    t2 = t2
    Providers = {google, github}
    Oidc = {google}
    PkceEnforcing = {github}
    ProfileProviders = {github}
    Accounts <- MCAccountsUserOnly
    User = user
    Attacker = attacker
    Users = {alice, mallory}
    Public = TRUE
    Tabs = {t1}
    MaxFlows = 3
    UpstreamTTL = 2
    ReturnTTL = 2
    SessionTTL = 2
    MaxTime = 3
    NoCookie = NoCookie
    NoEmail = NoEmail
SPECIFICATION Spec
INVARIANT SessionEmailsControlled
