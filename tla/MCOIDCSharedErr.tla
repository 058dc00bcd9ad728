--------------------------- MODULE MCOIDCSharedErr ---------------------------
(* Two /register requests, one with a valid body and one malformed,      *)
(* served at the same time.                                              *)
EXTENDS OIDCSharedErr, TLC

CONSTANTS r1, r2

MCKind == (r1 :> "valid") @@ (r2 :> "malformed")
=============================================================================
