---------------------------- MODULE MCAuthEngine ----------------------------
(* Model-checking instance of AuthEngine: two relying parties, one of    *)
(* them a stranger to the user, two upstream providers that both vouch   *)
(* for the user's one email, and a handful of /auth queries covering     *)
(* every branch of ParseAuthRequest and of /approve.                     *)
EXTENDS AuthEngine

CONSTANTS c1, c2, alice, bob, mallory, google, github, evil, t1, t2

MCVerifier == [c \in Clients |-> IF c = c1 THEN "v1" ELSE "v2"]

\* alice logs in at google through /callback and at github through FedCM
MCAccounts == {[id |-> alice, provider |-> google]}
MCFedCmAccounts == {[id |-> alice, provider |-> github]}

\* bob, who is not a configured user, is asserted by the FedCM IdP
MCFedCmStranger == {[id |-> bob, provider |-> github]}

AuthQuery(c, r, rt, pr, sc, pk) ==
    [client |-> c, redirect |-> r, responseType |-> rt, prompt |-> pr,
     scope |-> sc, pkce |-> pk]

MCQueries ==
    { AuthQuery(c1, c1, "code", NoClaim, {"openid", "email"}, TRUE),
      AuthQuery(c2, c2, "code", NoClaim, {"openid", "email"}, FALSE),
      AuthQuery(c2, c2, "none", NoClaim, {"openid", "email"}, TRUE),
      \* rejected: redirect_uri on another host, prompt=none, no response_type
      AuthQuery(c1, c2, "code", NoClaim, {"openid", "email"}, TRUE),
      AuthQuery(c1, c1, "code", "none", {"openid", "email"}, TRUE),
      AuthQuery(c1, c1, NoClaim, NoClaim, {"openid", "email"}, TRUE) }

\* one relying party using PKCE
MCQueriesOneClient ==
    { AuthQuery(c1, c1, "code", NoClaim, {"openid", "email"}, TRUE) }

\* tabs are interchangeable: nothing in the model names one
TabSymmetry == Permutations(Tabs)

\* the same, and a request for c1 that leaves out the email scope
MCQueriesNoEmail ==
    MCQueries \cup {AuthQuery(c1, c1, "code", NoClaim, {"openid"}, TRUE)}
=============================================================================
