--------------------------- MODULE AbstractSession ---------------------------
(***************************************************************************)
(* What the aggregated session cookie (login_key) promises its holder, in  *)
(* the words of the spec (4.3, 4.5 step 5): the session is a set of        *)
(* identities that only grows, by an identity its holder proved upstream,  *)
(* until the whole envelope expires.  Nothing removes one identity.        *)
(***************************************************************************)
CONSTANT Owned      \* the identities the session's holder can prove

VARIABLE session    \* the identities of the valid session, {} if none

Init == session = {}

\* AppendIdentity: one identity the holder proved joins the session.
Append == \E i \in Owned: session' = session \cup {i}

\* The envelope expires: the holder has no session any more.
Expire == session' = {}

Next == Append \/ Expire

Spec == Init /\ [][Next]_session

=============================================================================
