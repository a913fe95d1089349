--------------------------- MODULE LedgerEndpoint ---------------------------
(***************************************************************************)
(* The device end of the framing protocol: the protocol handle a driver    *)
(* owns, its buffers, and one action per call the driver makes.  The       *)
(* modules that extend this one say who makes the calls: LedgerAnyPeer an  *)
(* arbitrary peer, ApduLink a host that follows the protocol.              *)
(***************************************************************************)
EXTENDS LedgerProtocol

VARIABLES
    h,           \* ledger_protocol_t
    apdu_buffer, \* the receive buffer, type byte included
    last,        \* greatest index of apdu_buffer the last step wrote, -1 for none
    delivered,   \* the last APDU handed over
    chunk        \* the last chunk LEDGER_PROTOCOL_tx left in proto_buf, or NULL

endpointVars == <<h, apdu_buffer, last, delivered, chunk>>

Nothing == [length |-> 0, bytes |-> [i \in {} |-> NULL]]

EndpointInit ==
    /\ h = LEDGER_PROTOCOL_init(ZeroHandle)
    /\ apdu_buffer = [i \in BufferIndex |-> NULL]
    /\ last = -1
    /\ delivered = Nothing
    /\ chunk = NULL

(***************************************************************************)
(* A byte of the buffer; past its end, one that nothing stored.            *)
(***************************************************************************)
ByteAt(buf, i) == IF i \in BufferIndex THEN buf[i] ELSE NULL

(***************************************************************************)
(* The driver's data_ready, called after every packet: it hands a complete *)
(* APDU over, without its type byte, and waits for the next one.           *)
(***************************************************************************)
data_ready_StatusKept(g, buf) ==
    /\ h' = g
    /\ delivered' = IF g.rx_apdu_status = "COMPLETE"
                    THEN [length |-> g.rx_apdu_length - 1,
                          bytes  |-> [i \in 0 .. g.rx_apdu_length - 2 |-> ByteAt(buf, i + 1)]]
                    ELSE delivered

data_ready(g, buf) ==
    IF g.rx_apdu_status = "COMPLETE"
    THEN /\ h' = [g EXCEPT !.rx_apdu_status = "WAITING"]
         /\ delivered' = [length |-> g.rx_apdu_length - 1,
                          bytes  |-> [i \in 0 .. g.rx_apdu_length - 2 |-> ByteAt(buf, i + 1)]]
    ELSE /\ h' = g
         /\ UNCHANGED delivered

(***************************************************************************)
(* A TAG_APDU packet.                                                      *)
(***************************************************************************)
RxApdu(c) ==
    LET r == process_apdu_chunk(h, apdu_buffer, c)
    IN /\ apdu_buffer' = r.buf
       /\ last' = r.last
       /\ data_ready(r.h, r.buf)
       /\ UNCHANGED chunk

(***************************************************************************)
(* Any other packet.                                                       *)
(***************************************************************************)
RxControl(tag, length, mtu) ==
    /\ h' = rx_control(h, tag, length, mtu)
    /\ last' = -1
    /\ UNCHANGED <<apdu_buffer, delivered, chunk>>

(***************************************************************************)
(* LEDGER_PROTOCOL_tx with a message (first chunk) or without (next one).  *)
(***************************************************************************)
Tx(msg, length, mtu) ==
    LET r == LEDGER_PROTOCOL_tx(h, msg, length, mtu)
    IN /\ h' = r.h
       /\ chunk' = r.chunk
       /\ last' = -1
       /\ UNCHANGED <<apdu_buffer, delivered>>

(***************************************************************************)
(* The driver is started again: the handle is zeroed and initialised.      *)
(***************************************************************************)
Restart ==
    /\ h' = LEDGER_PROTOCOL_init(ZeroHandle)
    /\ last' = -1
    /\ chunk' = NULL
    /\ UNCHANGED <<apdu_buffer, delivered>>

-----------------------------------------------------------------------------
(***************************************************************************)
(* Every field keeps the type ledger_protocol_t gives it.                  *)
(***************************************************************************)
Handles ==
    [rx_apdu_status : ApduStatus, rx_apdu_sequence_number : SeqNumbers,
     rx_apdu_length : Words, rx_apdu_offset : Words,
     tx_apdu_buffer : Nat \cup {NULL}, tx_apdu_length : Words,
     tx_apdu_sequence_number : SeqNumbers, tx_apdu_offset : Words,
     tx_chunk_length : Words]

TxChunks == [seq : SeqNumbers, total : Words, msg : Nat, from : Words, n : Words]

EndpointTypeOK ==
    /\ h \in Handles
    /\ DOMAIN apdu_buffer = BufferIndex
    /\ last \in Int
    /\ delivered.length \in Nat
    /\ chunk \in TxChunks \cup {NULL}

(***************************************************************************)
(* In the middle of an APDU the offset is inside the announced length and  *)
(* that length inside the buffer: what makes the subtraction that removes  *)
(* the padding and the completion test of process_apdu_chunk safe.  A      *)
(* complete APDU never stays behind in the handle.                         *)
(***************************************************************************)
Midway(g) ==
    g.rx_apdu_sequence_number # 0 =>
        /\ g.rx_apdu_offset <= g.rx_apdu_length
        /\ g.rx_apdu_length <= ApduBufferSize

RxMidway == Midway(h) /\ h.rx_apdu_status # "COMPLETE"

(***************************************************************************)
(* No packet, whatever its announced length, sequence number or padding,   *)
(* makes process_apdu_chunk write outside apdu_buffer.                     *)
(***************************************************************************)
RxInBounds == last < ApduBufferSize

(***************************************************************************)
(* An APDU that is handed over was stored in full: its bytes are all in    *)
(* the buffer, behind the type byte.                                       *)
(***************************************************************************)
DeliveredFits == 1 + delivered.length <= ApduBufferSize

(***************************************************************************)
(* The reassembly of any sequence of packets, cut transfers and aborts     *)
(* included, keeps to its buffer: nothing is written outside, what it      *)
(* counts in the middle of an APDU stays within the bounds its             *)
(* subtractions rely on, and only whole APDUs are handed over              *)
(* (process_apdu_chunk, LEDGER_PROTOCOL_rx).                               *)
(***************************************************************************)
RxSafe == RxMidway /\ RxInBounds /\ DeliveredFits

(***************************************************************************)
(* Whatever the MTU passed for each chunk, LEDGER_PROTOCOL_tx neither      *)
(* writes past proto_buf nor reads past the message, and tx_chunk_length   *)
(* counts exactly the bytes it prepared.                                   *)
(***************************************************************************)
TxInBounds ==
    /\ h.tx_apdu_offset <= h.tx_apdu_length
    /\ h.tx_chunk_length <= ProtoBufSize
    /\ chunk # NULL => chunk.from + chunk.n <= chunk.total

(***************************************************************************)
(* The chunk that ends a message reaches exactly its last byte, and the    *)
(* others leave the message loaded: no answer is truncated.                *)
(***************************************************************************)
TxComplete ==
    chunk # NULL /\ h.tx_apdu_buffer = NULL => chunk.from + chunk.n = chunk.total

(***************************************************************************)
(* An answer is cut into chunks within both buffers and to its last byte,  *)
(* also when the MTU changes on the way, a control packet comes in between *)
(* or a new answer takes its place (LEDGER_PROTOCOL_tx).                   *)
(***************************************************************************)
TxSafe == TxInBounds /\ TxComplete

(***************************************************************************)
(* The comment of process_apdu_chunk on the length check of the first      *)
(* chunk: "Check if we have enough space to store the apdu".  An APDU that *)
(* passes the check can be stored, type byte included.                     *)
(***************************************************************************)
SpaceChecked ==
    h.rx_apdu_status = "NEED_MORE_DATA" => 1 + h.rx_apdu_length <= ApduBufferSize
=============================================================================
