\* One login; the provider may never answer the token request.
CONSTANTS
    google = google
    github = github
    alice = alice
    bob = bob
    mallory = mallory
    user = user
    attacker = attacker
    t1 = t1
    t2 = t2
    Providers = {google, github}
    Oidc = {google}
    PkceEnforcing = {github}
    ProfileProviders = {github}
    Accounts <- MCAccountsUserOnly
    User = user
    Attacker = attacker
    Users = {alice, mallory}
    Public = FALSE
    Tabs = {t1}
    MaxFlows = 1
    UpstreamTTL = 2
    ReturnTTL = 2
    SessionTTL = 2
    MaxTime = 3
    NoCookie = NoCookie
    NoEmail = NoEmail
SPECIFICATION FairSpec
PROPERTY CallbackAnswered
