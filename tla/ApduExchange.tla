---------------------------- MODULE ApduExchange ----------------------------
(***************************************************************************)
(* What a transport promises: a host asks, the application holds exactly   *)
(* what was asked, and the host gets one whole answer, the one made for    *)
(* its request, before it asks again.                                      *)
(***************************************************************************)
EXTENDS Integers

CONSTANTS
    MaxApdus,      \* number of requests
    Lengths,       \* lengths of the requests
    AnswerLengths, \* lengths of the answers
    NULL

VARIABLES
    phase,  \* "free", "asked" or "held"
    id,     \* number of requests so far
    want,   \* the bytes of the request
    held,   \* what the application was given
    reply   \* the answer the host has in full, or NULL

vars == <<phase, id, want, held, reply>>

Content(k, n) == [i \in 0 .. n - 1 |-> <<k, i>>]

Init ==
    /\ phase = "free" /\ id = 0
    /\ want = Content(0, 0) /\ held = Content(0, 0)
    /\ reply = NULL

Ask(n) ==
    /\ phase = "free" /\ id < MaxApdus
    /\ phase' = "asked" /\ id' = id + 1
    /\ want' = Content(id + 1, n)
    /\ reply' = NULL
    /\ UNCHANGED held

Deliver ==
    /\ phase = "asked"
    /\ phase' = "held"
    /\ held' = want
    /\ UNCHANGED <<id, want, reply>>

Answer(n) ==
    /\ phase = "held"
    /\ phase' = "free"
    /\ reply' = [msg |-> MaxApdus + id, length |-> n]
    /\ UNCHANGED <<id, want, held>>

Next ==
    \/ \E n \in Lengths : Ask(n)
    \/ Deliver
    \/ \E n \in AnswerLengths : Answer(n)

Spec == Init /\ [][Next]_vars
=============================================================================
