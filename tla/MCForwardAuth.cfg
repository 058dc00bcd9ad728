\* One tab under attack; the user logs in with two different emails at
\* two providers, the attacker holds accounts at both.
CONSTANTS
    google = google
    github = github
    alice = alice
    bob = bob
    mallory = mallory
    user = user
    attacker = attacker
    t1 = t1
    t2 = t2
    d1 = d1
    Providers = {google, github}
    Oidc = {google}
    PkceEnforcing = {github}
    ProfileProviders = {github}
    Accounts <- MCAccounts
    User = user
    Attacker = attacker
    Users = {alice, bob, mallory}
    Public = FALSE
    Tabs = {t1}
    MaxFlows = 3
    UpstreamTTL = 2
    ReturnTTL = 2
    SessionTTL = 2
    MaxTime = 3
    NoCookie = NoCookie
    NoEmail = NoEmail
    Passthrough = FALSE
    Domains = {d1}
    Panic = Panic
    NoValidation = NoValidation
    ValidationError = ValidationError
SPECIFICATION faSpec
INVARIANTS TypeOK DomainOwnersProved ProxiedRecorded
PROPERTY AbstractSessionSpec
