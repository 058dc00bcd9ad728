---------------------------- MODULE MCForwardAuth ----------------------------
(* Instances of ForwardAuth for TLC: the user has two different verified  *)
(* emails, alice at google and bob at github, so that validate's choice   *)
(* between them is visible.                                               *)
EXTENDS ForwardAuth, TLC

CONSTANTS google, github, alice, bob, mallory, user, attacker, t1, t2, d1

Acct(o, p, e, v) == [owner |-> o, provider |-> p, email |-> e, verified |-> v]

MCAccounts ==
    { Acct(user, google, alice, TRUE), Acct(user, github, bob, TRUE),
      Acct(attacker, google, mallory, TRUE), Acct(attacker, github, mallory, TRUE) }

MCAccountsUserOnly ==
    { Acct(user, google, alice, TRUE), Acct(user, github, bob, TRUE) }

TabSymmetry == Permutations(Tabs)
====
