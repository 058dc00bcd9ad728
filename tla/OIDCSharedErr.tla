---------------------------- MODULE OIDCSharedErr ----------------------------
(***************************************************************************)
(* The variable err of NewOIDCHandler (src/oidc.go 66), shared by every    *)
(* handler closure the function registers, and so by every request the    *)
(* server runs concurrently.  Two closures use it without declaring their *)
(* own: /register assigns it (117) and reads it back (118), and /approve   *)
(* reads it for a request that is not a POST (324-327).  Every other       *)
(* handler declares a local err with := before its first use.              *)
(*                                                                         *)
(* Each request is a process with a program counter; /register has two    *)
(* steps around the shared variable, so other requests' steps can fall    *)
(* between its write and its read.  A body is one of: a registration with *)
(* redirect_uris, one with an empty list, or one json cannot decode.      *)
(***************************************************************************)
EXTENDS Naturals

CONSTANTS
    Requests,       \* concurrent requests
    Kind,           \* Kind[r]: "valid", "noUris", "malformed" or "approveGet"
    Nil,            \* a nil error
    DecodeError,    \* the error json.Decode returns for a malformed body
    NoAnswer,       \* the request has not been answered yet
    Reset           \* a handler panic: net/http closes the connection

RegisterKinds == {"valid", "noUris", "malformed"}

ASSUME Kind \in [Requests -> RegisterKinds \cup {"approveGet"}]

VARIABLES
    err,            \* the shared err of NewOIDCHandler
    pc,             \* pc[r]: "start", "decoded" or "done"
    answer          \* answer[r]: the status code the client receives

vars == <<err, pc, answer>>

\* NewOIDCHandler: jwk.PublicSetOf succeeded (otherwise the process exits
\* at 67-70), so err starts nil.
Init ==
    /\ err = Nil
    /\ pc = [r \in Requests |-> "start"]
    /\ answer = [r \in Requests |-> NoAnswer]

\* /register, 115-117: decode the body into the local regReq and assign
\* the result to the shared err.
RegisterDecode(r) ==
    /\ pc[r] = "start"
    /\ Kind[r] \in RegisterKinds
    /\ err' = IF Kind[r] = "malformed" THEN DecodeError ELSE Nil
    /\ pc' = [pc EXCEPT ![r] = "decoded"]
    /\ UNCHANGED answer

\* /register, 118-147: test the shared err (400 if set), then the local
\* regReq: no redirect_uri is a 400 (a malformed body decodes to none),
\* otherwise 201 with the client id of the first redirect_uri (the url.Parse
\* at 128 declares a local err).
RegisterRespond(r) ==
    /\ pc[r] = "decoded"
    /\ answer' = [answer EXCEPT ![r] =
                    IF err # Nil \/ Kind[r] # "valid" THEN 400 ELSE 201]
    /\ pc' = [pc EXCEPT ![r] = "done"]
    /\ UNCHANGED err

\* /approve for a non-POST request, 321-327: WriteHeader(405), then
\* err.Error() on the shared err; calling Error on a nil error panics, and
\* net/http recovers by closing the connection before the buffered 405
\* is sent.
ApproveNotPost(r) ==
    /\ pc[r] = "start"
    /\ Kind[r] = "approveGet"
    /\ answer' = [answer EXCEPT ![r] = IF err = Nil THEN Reset ELSE 405]
    /\ pc' = [pc EXCEPT ![r] = "done"]
    /\ UNCHANGED err

Next ==
    \E r \in Requests:
        RegisterDecode(r) \/ RegisterRespond(r) \/ ApproveNotPost(r)

Spec == Init /\ [][Next]_vars

-----------------------------------------------------------------------------
(* Properties.                                                             *)

\* The answer the spec gives each request, from its own input alone:
\* /register is 201 for a body with a redirect_uri and 400 otherwise
\* (spec /register, example 4), and /approve is 405 for any method but
\* POST (spec's endpoint table).
Expected(r) ==
    CASE Kind[r] = "valid"      -> 201
      [] Kind[r] = "approveGet" -> 405
      [] OTHER                  -> 400

\* Every answered request got the answer its own input calls for, however
\* the server's concurrent requests interleave on the shared err.
AnswerFromOwnRequest ==
    \A r \in Requests: pc[r] = "done" => answer[r] = Expected(r)
=============================================================================
