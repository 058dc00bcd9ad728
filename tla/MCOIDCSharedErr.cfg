\* A valid and a malformed registration in flight at once.  Every request
\* ends, so the final states have no successor.
CONSTANTS
    r1 = r1  r2 = r2
    Requests = {r1, r2}
    Kind <- MCKind
    Nil = Nil  DecodeError = DecodeError  NoAnswer = NoAnswer  Reset = Reset
SPECIFICATION Spec
INVARIANT AnswerFromOwnRequest
CHECK_DEADLOCK FALSE
