--------------------------- MODULE LedgerProtocol ---------------------------
(***************************************************************************)
(* The Ledger framing protocol of protocol/src/ledger_protocol.c: an APDU  *)
(* travels as numbered chunks, the first of which announces its length.    *)
(* The module holds the operations as functions of a protocol handle, so   *)
(* that every transport that owns a handle (BLE, USB HID, WebUSB) uses the *)
(* same definitions.                                                       *)
(*                                                                         *)
(* Payload bytes are abstract: byte i of message m is the pair <<m, i>>,   *)
(* so a buffer tells which byte of which message was stored where.         *)
(*                                                                         *)
(* A definition named Op_Slip is Op with a plausible mistake in it; no     *)
(* specification uses it, it shows that some property tells it from Op.    *)
(***************************************************************************)
EXTENDS Integers

CONSTANTS
    ApduBufferSize,  \* apdu_buffer_size: room for the type byte and the APDU
    ProtoBufSize,    \* proto_buf_size: room for one chunk
    SeqModulus,      \* 2^16 in the code: sequence numbers are uint16_t
    WordModulus,     \* 2^16 in the code: lengths and offsets are uint16_t
    NULL             \* the null pointer

(***************************************************************************)
(* proto_buf_size is a uint8_t and apdu_buffer_size a uint16_t;            *)
(* HeaderSize is sizeof(protocol_header_t), the smallest proto_buf taken.  *)
(***************************************************************************)
HeaderSize == 8

ASSUME ProtocolSizes ==
    /\ ApduBufferSize \in Nat \ {0}
    /\ WordModulus \in Nat /\ ApduBufferSize < WordModulus
    /\ ProtoBufSize \in Nat /\ HeaderSize <= ProtoBufSize /\ ProtoBufSize < WordModulus
    /\ SeqModulus \in Nat /\ SeqModulus > 1

MTU_MIN_SIZE == 3

(***************************************************************************)
(* ledger_protocol_t.  tx_apdu_buffer is the message being sent, or NULL.  *)
(***************************************************************************)
ApduStatus == {"WAITING", "NEED_MORE_DATA", "COMPLETE"}

Results == {"SUCCESS", "INVALID_PARAMETER", "NOT_ENOUGH_SPACE", "NOT_SUPPORTED"}

Words == 0 .. WordModulus - 1

SeqNumbers == 0 .. SeqModulus - 1

BufferIndex == 0 .. ApduBufferSize - 1

(***************************************************************************)
(* LEDGER_PROTOCOL_init: only the receiving side is reset.                 *)
(***************************************************************************)
LEDGER_PROTOCOL_init(h) ==
    [h EXCEPT !.rx_apdu_status = "WAITING", !.rx_apdu_sequence_number = 0]

(***************************************************************************)
(* What the class drivers hold before LEDGER_PROTOCOL_init: a zeroed       *)
(* structure.                                                              *)
(***************************************************************************)
ZeroHandle ==
    [rx_apdu_status |-> "WAITING", rx_apdu_sequence_number |-> 0,
     rx_apdu_length |-> 0, rx_apdu_offset |-> 0,
     tx_apdu_buffer |-> NULL, tx_apdu_length |-> 0,
     tx_apdu_sequence_number |-> 0, tx_apdu_offset |-> 0,
     tx_chunk_length |-> 0]

-----------------------------------------------------------------------------
(***************************************************************************)
(* A chunk, as process_apdu_chunk sees it: its length in bytes, the        *)
(* sequence number and the total length read from its first four bytes     *)
(* (meaningless when the chunk is shorter), and the bytes that follow,     *)
(* those of message msg starting at byte from.                             *)
(***************************************************************************)
HeaderOf(h) == IF h.rx_apdu_sequence_number = 0 THEN 4 ELSE 2

WrongSequence(h, c) == c.length < 2 \/ c.seq # h.rx_apdu_sequence_number

MissingTotal(h, c) == c.length < 4 /\ h.rx_apdu_sequence_number = 0

TotalTooLong_Unchecked(h, c) == FALSE

TotalTooLong(h, c) == h.rx_apdu_sequence_number = 0 /\ c.total > ApduBufferSize

(***************************************************************************)
(* The second length check, which counts the type byte.                    *)
(***************************************************************************)
NoRoom_TypeForgotten(o, n) == o.rx_apdu_offset + n > ApduBufferSize

NoRoom(o, n) == 1 + o.rx_apdu_offset + n > ApduBufferSize

(***************************************************************************)
(* The handle once the first chunk has been recognised.                    *)
(***************************************************************************)
Opened_OffsetKept(h, c) ==
    IF h.rx_apdu_sequence_number = 0
    THEN [h EXCEPT !.rx_apdu_status = "NEED_MORE_DATA", !.rx_apdu_length = c.total]
    ELSE h

Opened(h, c) ==
    IF h.rx_apdu_sequence_number = 0
    THEN [h EXCEPT !.rx_apdu_status = "NEED_MORE_DATA",
                   !.rx_apdu_length = c.total,
                   !.rx_apdu_offset = 0]
    ELSE h

(***************************************************************************)
(* The number of payload bytes kept: padding is removed.  The subtraction  *)
(* is made in uint16_t.                                                    *)
(***************************************************************************)
Kept(o, c, header) ==
    IF o.rx_apdu_offset + (c.length - header) > o.rx_apdu_length
    THEN (o.rx_apdu_length - o.rx_apdu_offset) % WordModulus
    ELSE c.length - header

(***************************************************************************)
(* memcpy(&apdu_buffer[1 + offset], ...).                                  *)
(***************************************************************************)
Copied(buf, offset, n, c) ==
    [i \in BufferIndex |->
        IF 1 + offset <= i /\ i <= offset + n
        THEN <<c.msg, c.from + (i - 1 - offset)>>
        ELSE buf[i]]

Stored_SeqTooWide(o, n) ==
    IF o.rx_apdu_offset + n = o.rx_apdu_length
    THEN [o EXCEPT !.rx_apdu_offset = @ + n,
                   !.rx_apdu_length = (@ + 1) % WordModulus,
                   !.rx_apdu_sequence_number = 0,
                   !.rx_apdu_status = "COMPLETE"]
    ELSE [o EXCEPT !.rx_apdu_offset = @ + n,
                   !.rx_apdu_sequence_number = @ + 1,
                   !.rx_apdu_status = "NEED_MORE_DATA"]

Stored(o, n) ==
    IF o.rx_apdu_offset + n = o.rx_apdu_length
    THEN [o EXCEPT !.rx_apdu_offset = @ + n,
                   !.rx_apdu_length = (@ + 1) % WordModulus,
                   !.rx_apdu_sequence_number = 0,
                   !.rx_apdu_status = "COMPLETE"]
    ELSE [o EXCEPT !.rx_apdu_offset = @ + n,
                   !.rx_apdu_sequence_number = (@ + 1) % SeqModulus,
                   !.rx_apdu_status = "NEED_MORE_DATA"]

(***************************************************************************)
(* process_apdu_chunk.  The result carries the new handle, the new buffer, *)
(* the return code and last, the greatest buffer index written (0 for the  *)
(* type byte, -1 for none).                                                *)
(***************************************************************************)
process_apdu_chunk(h, buf, c) ==
    LET o      == Opened(h, c)
        n      == Kept(o, c, HeaderOf(h))
        typed  == IF h.rx_apdu_sequence_number = 0
                  THEN [buf EXCEPT ![0] = "type"] ELSE buf
        base   == IF h.rx_apdu_sequence_number = 0 THEN 0 ELSE -1
    IN IF WrongSequence(h, c)
       THEN IF h.rx_apdu_status = "NEED_MORE_DATA"
            THEN [h |-> [h EXCEPT !.rx_apdu_status = "WAITING"], buf |-> buf,
                  result |-> "NOT_ENOUGH_SPACE", last |-> -1]
            ELSE [h |-> h, buf |-> buf, result |-> "SUCCESS", last |-> -1]
       ELSE IF MissingTotal(h, c)
       THEN [h |-> [h EXCEPT !.rx_apdu_status = "WAITING"], buf |-> buf,
             result |-> "NOT_ENOUGH_SPACE", last |-> -1]
       ELSE IF TotalTooLong(h, c)
       THEN [h |-> [h EXCEPT !.rx_apdu_status = "WAITING",
                             !.rx_apdu_length = ApduBufferSize],
             buf |-> typed, result |-> "NOT_ENOUGH_SPACE", last |-> base]
       ELSE IF NoRoom(o, n)
       THEN [h |-> o, buf |-> typed, result |-> "NOT_ENOUGH_SPACE", last |-> base]
       ELSE [h |-> Stored(o, n),
             buf |-> Copied(typed, o.rx_apdu_offset, n, c),
             result |-> "SUCCESS",
             last |-> IF n = 0 THEN base ELSE o.rx_apdu_offset + n]

-----------------------------------------------------------------------------
(***************************************************************************)
(* LEDGER_PROTOCOL_rx for the tags other than TAG_APDU: the answer is      *)
(* prepared in proto_buf and only tx_chunk_length changes.  length counts  *)
(* the whole packet, mtu the parameter with its default applied.           *)
(***************************************************************************)
ControlTags == {"GET_PROTOCOL_VERSION", "ALLOCATE_CHANNEL", "PING", "MTU"}

ControlAnswerLength(tag, length) ==
    CASE tag = "GET_PROTOCOL_VERSION" ->
            3 + (IF ProtoBufSize - 3 < 4 THEN ProtoBufSize - 3 ELSE 4)
      [] tag = "ALLOCATE_CHANNEL"     -> 3
      [] tag = "PING"                 -> IF ProtoBufSize < length THEN ProtoBufSize ELSE length
      [] tag = "MTU"                  -> 8

ControlResult(tag, mtu) ==
    IF tag \notin ControlTags THEN "NOT_SUPPORTED"
    ELSE IF tag = "MTU" /\ mtu < MTU_MIN_SIZE THEN "INVALID_PARAMETER"
    ELSE "SUCCESS"

rx_control(h, tag, length, mtu) ==
    IF ControlResult(tag, mtu) = "SUCCESS"
    THEN [h EXCEPT !.tx_chunk_length = ControlAnswerLength(tag, length)]
    ELSE h

-----------------------------------------------------------------------------
(***************************************************************************)
(* LEDGER_PROTOCOL_tx.  A message starts a transfer, NULL continues it.    *)
(***************************************************************************)
Loaded_ShortLength(h, msg, length) ==
    IF msg = NULL THEN h
    ELSE [h EXCEPT !.tx_apdu_buffer = msg, !.tx_apdu_length = length % 8,
                   !.tx_apdu_sequence_number = 0, !.tx_apdu_offset = 0]

Loaded(h, msg, length) ==
    IF msg = NULL THEN h
    ELSE [h EXCEPT !.tx_apdu_buffer = msg, !.tx_apdu_length = length,
                   !.tx_apdu_sequence_number = 0, !.tx_apdu_offset = 0]

TxHeader(h) == IF h.tx_apdu_sequence_number = 0 THEN 7 ELSE 5

TxFits(h, mtu) == h.tx_apdu_length + TxHeader(h) <= mtu + h.tx_apdu_offset

(***************************************************************************)
(* Every early return of LEDGER_PROTOCOL_tx once the message is loaded.    *)
(***************************************************************************)
TxRefused_BufferUnchecked(h, mtu) ==
    \/ mtu < MTU_MIN_SIZE
    \/ ~TxFits(h, mtu) /\ (mtu < TxHeader(h) \/ mtu > ProtoBufSize)

TxRefused_Empty(h, mtu) ==
    \/ mtu < MTU_MIN_SIZE
    \/ h.tx_apdu_length = 0
    \/ ~TxFits(h, mtu) /\ (mtu < TxHeader(h) \/ mtu > ProtoBufSize)
    \/ TxFits(h, mtu) /\ h.tx_apdu_length - h.tx_apdu_offset > ProtoBufSize - TxHeader(h)

TxRefused(h, mtu) ==
    \/ mtu < MTU_MIN_SIZE
    \/ ~TxFits(h, mtu) /\ (mtu < TxHeader(h) \/ mtu > ProtoBufSize)
    \/ TxFits(h, mtu) /\ h.tx_apdu_length - h.tx_apdu_offset > ProtoBufSize - TxHeader(h)

TxPayload(h, mtu) ==
    IF TxFits(h, mtu) THEN h.tx_apdu_length - h.tx_apdu_offset ELSE mtu - TxHeader(h)

(***************************************************************************)
(* The chunk left in proto_buf.                                            *)
(***************************************************************************)
TxChunk(h, mtu) ==
    [seq |-> h.tx_apdu_sequence_number, total |-> h.tx_apdu_length,
     msg |-> h.tx_apdu_buffer, from |-> h.tx_apdu_offset, n |-> TxPayload(h, mtu)]

TxAdvanced_EndsEarly(h, mtu) ==
    [h EXCEPT !.tx_apdu_offset = @ + TxPayload(h, mtu),
              !.tx_apdu_buffer = IF TxFits(h, mtu + 1) THEN NULL ELSE @,
              !.tx_apdu_sequence_number = IF TxFits(h, mtu) THEN @ ELSE (@ + 1) % SeqModulus,
              !.tx_chunk_length = TxHeader(h) + TxPayload(h, mtu)]

TxAdvanced(h, mtu) ==
    IF TxFits(h, mtu)
    THEN [h EXCEPT !.tx_apdu_offset = h.tx_apdu_length,
                   !.tx_apdu_buffer = NULL,
                   !.tx_chunk_length = TxHeader(h) + TxPayload(h, mtu)]
    ELSE [h EXCEPT !.tx_apdu_offset = @ + TxPayload(h, mtu),
                   !.tx_apdu_sequence_number = (@ + 1) % SeqModulus,
                   !.tx_chunk_length = mtu]

LEDGER_PROTOCOL_tx(h, msg, length, mtu) ==
    LET l == Loaded(h, msg, length)
    IN IF msg = NULL /\ h.tx_apdu_buffer = NULL
       THEN [h |-> h, chunk |-> NULL, result |-> "INVALID_PARAMETER"]
       ELSE IF TxRefused(l, mtu)
       THEN [h |-> l, chunk |-> NULL, result |-> "INVALID_PARAMETER"]
       ELSE [h |-> TxAdvanced(l, mtu), chunk |-> TxChunk(l, mtu), result |-> "SUCCESS"]
=============================================================================
