--------------------------- MODULE LedgerAnyPeer ---------------------------
(***************************************************************************)
(* The device end of the framing protocol facing an arbitrary peer: any    *)
(* packet may come at any time, the application may start an answer at any *)
(* time and the MTU may change between two chunks.                         *)
(***************************************************************************)
EXTENDS LedgerEndpoint

CONSTANTS
    Chunks,         \* APDU chunks the peer may send
    ControlLengths, \* lengths of the other packets
    Mtus,           \* transmit MTUs
    AnswerLengths,  \* lengths of the answers of the application
    Answers         \* messages the application may send

ASSUME EndpointSets ==
    /\ Chunks \subseteq [length : Words, seq : SeqNumbers, total : Words,
                         msg : Nat, from : Nat]
    /\ ControlLengths \subseteq Words
    /\ Mtus \subseteq Words
    /\ AnswerLengths \subseteq Words
    /\ Answers \subseteq Nat /\ NULL \notin Nat

Next ==
    \/ \E c \in Chunks : RxApdu(c)
    \/ \E tag \in ControlTags \cup {"ABORT"}, n \in ControlLengths, mtu \in Mtus : RxControl(tag, n, mtu)
    \/ \E m \in Answers, n \in AnswerLengths, mtu \in Mtus : Tx(m, n, mtu)
    \/ \E mtu \in Mtus : Tx(NULL, 0, mtu)
    \/ Restart

Spec == EndpointInit /\ [][Next]_endpointVars
=============================================================================
