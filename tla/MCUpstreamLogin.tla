--------------------------- MODULE MCUpstreamLogin ---------------------------
(* Instances of UpstreamLogin for TLC.  google is an OIDC provider that   *)
(* does not check the PKCE verifier (the nonce is what binds its codes);  *)
(* github is a plain OAuth2 provider with a profile API.                  *)
EXTENDS UpstreamLogin, TLC

CONSTANTS google, github, alice, bob, mallory, user, attacker, t1, t2

Acct(o, p, e, v) == [owner |-> o, provider |-> p, email |-> e, verified |-> v]

\* the user has alice at both providers, the attacker mallory at both
MCAccounts ==
    { Acct(user, google, alice, TRUE), Acct(user, github, alice, TRUE),
      Acct(attacker, google, mallory, TRUE), Acct(attacker, github, mallory, TRUE) }

\* one account at each provider, no attacker
MCAccountsUserOnly ==
    { Acct(user, google, alice, TRUE), Acct(user, github, alice, TRUE) }

TabSymmetry == Permutations(Tabs)
====
