\* A private server whose FedCM IdP asserts a non-user.
CONSTANTS
    c1 = c1  c2 = c2  alice = alice  bob = bob  mallory = mallory
    google = google  github = github  evil = evil
    NoCookie = NoCookie  NoClaim = NoClaim
    Clients = {c1, c2}
    Emails = {alice, bob}
    Accounts <- MCAccounts
    FedCmAccounts <- MCFedCmStranger
    RogueIssuers = {}
    Providers = {google, github}
    Users = {alice}
    Public = FALSE
    t1 = t1  t2 = t2
    Tabs = {t1}
    Verifier <- MCVerifier
    Queries <- MCQueries
    CodeTTL = 1
    AuthRequestTTL = 2
    SessionTTL = 3
    MaxTime = 2
SPECIFICATION Spec
INVARIANTS OnlyUsersGetTokens
