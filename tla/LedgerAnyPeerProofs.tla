------------------------ MODULE LedgerAnyPeerProofs ------------------------
(***************************************************************************)
(* Proofs for LedgerAnyPeer: no packet and no MTU makes the framing code   *)
(* leave its buffers, whatever the sizes of the buffers and the widths of  *)
(* the counters.                                                           *)
(***************************************************************************)
EXTENDS LedgerAnyPeer, TLAPS

(***************************************************************************)
(* A remainder stays below its modulus: how the uint16_t assignments are   *)
(* modelled.                                                               *)
(***************************************************************************)
LEMMA ModuloRange ==
    ASSUME NEW a \in Int, NEW m \in Nat, m > 0
    PROVE  a % m \in 0 .. m - 1
  OBVIOUS

(***************************************************************************)
(* A number below the modulus is its own remainder.                        *)
(***************************************************************************)
LEMMA ModuloSmall ==
    ASSUME NEW m \in Nat, NEW a \in 0 .. m - 1
    PROVE  a % m = a
  OBVIOUS

ChunkRecords == [length : Words, seq : SeqNumbers, total : Words, msg : Nat, from : Nat]

SameTx(g, k) ==
    /\ g.tx_apdu_buffer = k.tx_apdu_buffer
    /\ g.tx_apdu_length = k.tx_apdu_length
    /\ g.tx_apdu_offset = k.tx_apdu_offset
    /\ g.tx_chunk_length = k.tx_chunk_length

(***************************************************************************)
(* Recognising a first chunk whose length was accepted leaves a handle     *)
(* whose offset is inside the length and whose length is inside the        *)
(* buffer.                                                                 *)
(***************************************************************************)
LEMMA OpenedInside ==
    ASSUME NEW g \in Handles, Midway(g),
           NEW c \in ChunkRecords,
           ~TotalTooLong(g, c)
    PROVE  LET o == Opened(g, c) IN
             /\ o \in Handles
             /\ o.rx_apdu_offset <= o.rx_apdu_length
             /\ o.rx_apdu_length <= ApduBufferSize
             /\ o.rx_apdu_sequence_number = g.rx_apdu_sequence_number
             /\ SameTx(o, g)
  <1>1. c.total \in Words /\ 0 \in Words
    BY ProtocolSizes DEF ChunkRecords, Words
  <1>2. CASE g.rx_apdu_sequence_number = 0
    <2>1. Opened(g, c) = [g EXCEPT !.rx_apdu_status = "NEED_MORE_DATA",
                                   !.rx_apdu_length = c.total, !.rx_apdu_offset = 0]
      BY <1>2 DEF Opened
    <2>2. c.total <= ApduBufferSize /\ 0 <= c.total
      BY <1>1, <1>2, ProtocolSizes DEF TotalTooLong, Words
    <2>3. Opened(g, c) \in Handles
      BY <1>1, <2>1 DEF Handles, ApduStatus
    <2> QED
      BY <2>1, <2>2, <2>3 DEF Handles, SameTx
  <1>3. CASE g.rx_apdu_sequence_number # 0
    BY <1>3 DEF Opened, Midway, SameTx
  <1> QED
    BY <1>2, <1>3

(***************************************************************************)
(* What is kept of a chunk never exceeds what the APDU still lacks.        *)
(***************************************************************************)
LEMMA KeptInside ==
    ASSUME NEW o \in Handles,
           o.rx_apdu_offset <= o.rx_apdu_length, o.rx_apdu_length <= ApduBufferSize,
           NEW c \in ChunkRecords, NEW header \in Nat, header <= c.length
    PROVE  /\ Kept(o, c, header) \in Nat
           /\ o.rx_apdu_offset + Kept(o, c, header) <= o.rx_apdu_length
  <1>1. o.rx_apdu_offset \in Nat /\ o.rx_apdu_length \in Nat /\ c.length \in Nat
    BY ProtocolSizes DEF Handles, ChunkRecords, Words
  <1>2. o.rx_apdu_length - o.rx_apdu_offset \in 0 .. WordModulus - 1
    BY <1>1, ProtocolSizes
  <1>3. (o.rx_apdu_length - o.rx_apdu_offset) % WordModulus = o.rx_apdu_length - o.rx_apdu_offset
    BY <1>2, ModuloSmall, ProtocolSizes
  <1> QED
    BY <1>1, <1>3 DEF Kept

(***************************************************************************)
(* Storing a chunk that passed the last length check keeps the handle well *)
(* formed, and an APDU it completes fits the buffer with its type byte.    *)
(***************************************************************************)
LEMMA StoredInside ==
    ASSUME NEW o \in Handles, NEW n \in Nat,
           o.rx_apdu_offset + n <= o.rx_apdu_length, o.rx_apdu_length <= ApduBufferSize,
           1 + o.rx_apdu_offset + n <= ApduBufferSize
    PROVE  LET s == Stored(o, n) IN
             /\ s \in Handles
             /\ Midway(s)
             /\ SameTx(s, o)
             /\ s.rx_apdu_status = "COMPLETE" =>
                  s.rx_apdu_length \in 1 .. ApduBufferSize /\ s.rx_apdu_sequence_number = 0
  <1>1. o.rx_apdu_offset \in Nat /\ o.rx_apdu_length \in Nat /\ o.rx_apdu_sequence_number \in Nat
    BY ProtocolSizes DEF Handles, Words, SeqNumbers
  <1>2. (o.rx_apdu_sequence_number + 1) % SeqModulus \in SeqNumbers
    BY <1>1, ProtocolSizes, ModuloRange DEF SeqNumbers
  <1>3. o.rx_apdu_offset + n \in Words
    BY <1>1, ProtocolSizes DEF Words
  <1>4. CASE o.rx_apdu_offset + n = o.rx_apdu_length
    <2>1. o.rx_apdu_length + 1 \in 1 .. ApduBufferSize
      BY <1>1, <1>4, ProtocolSizes
    <2>2. (o.rx_apdu_length + 1) % WordModulus = o.rx_apdu_length + 1
      BY <2>1, ModuloSmall, ProtocolSizes
    <2>3. o.rx_apdu_length + 1 \in Words
      BY <2>1, ProtocolSizes DEF Words
    <2>4. Stored(o, n) = [o EXCEPT !.rx_apdu_offset = o.rx_apdu_offset + n,
                                   !.rx_apdu_length = o.rx_apdu_length + 1,
                                   !.rx_apdu_sequence_number = 0,
                                   !.rx_apdu_status = "COMPLETE"]
      BY <1>4, <2>2 DEF Stored
    <2>5. 0 \in SeqNumbers
      BY ProtocolSizes DEF SeqNumbers
    <2>6. Stored(o, n) \in Handles
      BY <1>3, <2>3, <2>4, <2>5 DEF Handles, ApduStatus
    <2> QED
      BY <2>1, <2>4, <2>6 DEF Handles, Midway, SameTx
  <1>5. CASE o.rx_apdu_offset + n # o.rx_apdu_length
    <2>1. Stored(o, n) = [o EXCEPT !.rx_apdu_offset = o.rx_apdu_offset + n,
                                   !.rx_apdu_sequence_number = (o.rx_apdu_sequence_number + 1) % SeqModulus,
                                   !.rx_apdu_status = "NEED_MORE_DATA"]
      BY <1>5 DEF Stored
    <2>2. Stored(o, n) \in Handles
      BY <1>2, <1>3, <2>1 DEF Handles, ApduStatus
    <2> QED
      BY <1>1, <2>1, <2>2 DEF Handles, Midway, SameTx
  <1> QED
    BY <1>4, <1>5

(***************************************************************************)
(* process_apdu_chunk on any chunk: the handle stays well formed, nothing  *)
(* is written outside the buffer, and the sending side is left alone.      *)
(***************************************************************************)
LEMMA ChunkSafe ==
    ASSUME NEW g \in Handles, Midway(g), g.rx_apdu_status # "COMPLETE",
           NEW buf, DOMAIN buf = BufferIndex,
           NEW c \in ChunkRecords
    PROVE  LET r == process_apdu_chunk(g, buf, c) IN
             /\ r.h \in Handles /\ Midway(r.h) /\ SameTx(r.h, g)
             /\ DOMAIN r.buf = BufferIndex
             /\ r.last \in Int /\ r.last < ApduBufferSize
             /\ r.h.rx_apdu_status = "COMPLETE" => r.h.rx_apdu_length \in 1 .. ApduBufferSize
  <1> DEFINE o == Opened(g, c)
             n == Kept(o, c, HeaderOf(g))
             r == process_apdu_chunk(g, buf, c)
             typed == IF g.rx_apdu_sequence_number = 0
                      THEN [buf EXCEPT ![0] = "type"] ELSE buf
  <1>1. g.rx_apdu_sequence_number \in Nat /\ c.length \in Nat /\ c.total \in Nat
    BY ProtocolSizes DEF Handles, ChunkRecords, Words, SeqNumbers
  <1>2. DOMAIN typed = BufferIndex
    OBVIOUS
  <1>3. CASE WrongSequence(g, c)
    <2>1. CASE g.rx_apdu_status = "NEED_MORE_DATA"
      BY <1>3, <2>1, ProtocolSizes
         DEF process_apdu_chunk, Handles, Midway, SameTx, ApduStatus
    <2>2. CASE g.rx_apdu_status # "NEED_MORE_DATA"
      BY <1>3, <2>2, ProtocolSizes DEF process_apdu_chunk, SameTx
    <2> QED
      BY <2>1, <2>2
  <1>4. CASE ~WrongSequence(g, c) /\ MissingTotal(g, c)
    BY <1>4, ProtocolSizes DEF process_apdu_chunk, Handles, Midway, SameTx, ApduStatus
  <1>5. CASE ~WrongSequence(g, c) /\ ~MissingTotal(g, c) /\ TotalTooLong(g, c)
    <2>1. r = [h |-> [g EXCEPT !.rx_apdu_status = "WAITING", !.rx_apdu_length = ApduBufferSize],
               buf |-> typed, result |-> "NOT_ENOUGH_SPACE",
               last |-> IF g.rx_apdu_sequence_number = 0 THEN 0 ELSE -1]
      BY <1>5 DEF process_apdu_chunk
    <2>2. ApduBufferSize \in Words
      BY ProtocolSizes DEF Words
    <2> DEFINE refused == [g EXCEPT !.rx_apdu_status = "WAITING",
                                    !.rx_apdu_length = ApduBufferSize]
    <2>3. refused \in Handles
      BY <2>2 DEF Handles, ApduStatus
    <2>4. Midway(refused) /\ SameTx(refused, g) /\ refused.rx_apdu_status # "COMPLETE"
      BY <1>5 DEF Handles, Midway, SameTx, TotalTooLong
    <2>5. r.h = refused /\ r.buf = typed /\ r.last \in {0, -1}
      BY <2>1
    <2> HIDE DEF refused, typed
    <2> QED
      BY <1>2, <2>3, <2>4, <2>5, ProtocolSizes
  <1>6. CASE ~WrongSequence(g, c) /\ ~MissingTotal(g, c) /\ ~TotalTooLong(g, c)
    <2>1. /\ o \in Handles
          /\ o.rx_apdu_offset <= o.rx_apdu_length
          /\ o.rx_apdu_length <= ApduBufferSize
          /\ o.rx_apdu_sequence_number = g.rx_apdu_sequence_number
          /\ SameTx(o, g)
      BY <1>6, OpenedInside
    <2>2. HeaderOf(g) \in Nat /\ HeaderOf(g) <= c.length
      BY <1>1, <1>6 DEF HeaderOf, WrongSequence, MissingTotal
    <2>3. n \in Nat /\ o.rx_apdu_offset + n <= o.rx_apdu_length
      BY <2>1, <2>2, KeptInside
    <2>4. o.rx_apdu_offset \in Nat /\ o.rx_apdu_status \in ApduStatus
      BY <2>1 DEF Handles, Words
    <2>5. CASE NoRoom(o, n)
      <3>1. r = [h |-> o, buf |-> typed, result |-> "NOT_ENOUGH_SPACE",
                 last |-> IF g.rx_apdu_sequence_number = 0 THEN 0 ELSE -1]
        BY <1>6, <2>5 DEF process_apdu_chunk
      <3>2. o.rx_apdu_status # "COMPLETE"
        BY DEF Opened
      <3> QED
        BY <1>2, <2>1, <3>1, <3>2, ProtocolSizes DEF Midway
    <2>6. CASE ~NoRoom(o, n)
      <3>1. r = [h |-> Stored(o, n), buf |-> Copied(typed, o.rx_apdu_offset, n, c),
                 result |-> "SUCCESS",
                 last |-> IF n = 0
                          THEN (IF g.rx_apdu_sequence_number = 0 THEN 0 ELSE -1)
                          ELSE o.rx_apdu_offset + n]
        BY <1>6, <2>6 DEF process_apdu_chunk
      <3>2. 1 + o.rx_apdu_offset + n <= ApduBufferSize
        BY <2>3, <2>4, <2>6, ProtocolSizes DEF NoRoom
      <3>3. /\ Stored(o, n) \in Handles
            /\ Midway(Stored(o, n))
            /\ SameTx(Stored(o, n), o)
            /\ Stored(o, n).rx_apdu_status = "COMPLETE" =>
                 Stored(o, n).rx_apdu_length \in 1 .. ApduBufferSize
        BY <2>1, <2>3, <3>2, StoredInside
      <3>4. DOMAIN Copied(typed, o.rx_apdu_offset, n, c) = BufferIndex
        BY DEF Copied
      <3>5. r.last \in Int /\ r.last < ApduBufferSize
        BY <2>3, <2>4, <3>1, <3>2, ProtocolSizes
      <3>6. SameTx(Stored(o, n), g)
        BY <2>1, <3>3 DEF SameTx
      <3> QED
        BY <3>1, <3>3, <3>4, <3>5, <3>6
    <2> QED
      BY <2>5, <2>6
  <1> QED
    BY <1>3, <1>4, <1>5, <1>6

(***************************************************************************)
(* LEDGER_PROTOCOL_tx for any message and any MTU: it stays inside the     *)
(* message and inside proto_buf, leaves the receiving side alone, and ends *)
(* a message exactly at its last byte.                                     *)
(***************************************************************************)
TxInside(g) ==
    g.tx_apdu_offset <= g.tx_apdu_length /\ g.tx_chunk_length <= ProtoBufSize

SameRx(g, k) ==
    /\ g.rx_apdu_status = k.rx_apdu_status
    /\ g.rx_apdu_sequence_number = k.rx_apdu_sequence_number
    /\ g.rx_apdu_length = k.rx_apdu_length
    /\ g.rx_apdu_offset = k.rx_apdu_offset

(***************************************************************************)
(* Loading a message restarts the sending side at its first byte.          *)
(***************************************************************************)
LEMMA LoadedInside ==
    ASSUME NEW g \in Handles, TxInside(g),
           NEW msg \in Nat \cup {NULL}, NEW length \in Words
    PROVE  /\ Loaded(g, msg, length) \in Handles
           /\ TxInside(Loaded(g, msg, length))
           /\ SameRx(Loaded(g, msg, length), g)
           /\ msg # NULL => Loaded(g, msg, length).tx_apdu_buffer = msg
           /\ msg = NULL => Loaded(g, msg, length) = g
  <1>1. 0 \in Words /\ 0 \in SeqNumbers /\ 0 <= length
    BY ProtocolSizes DEF Words, SeqNumbers
  <1>2. CASE msg = NULL
    BY <1>2 DEF Loaded, SameRx
  <1>3. CASE msg # NULL
    <2>1. Loaded(g, msg, length) =
            [g EXCEPT !.tx_apdu_buffer = msg, !.tx_apdu_length = length,
                      !.tx_apdu_sequence_number = 0, !.tx_apdu_offset = 0]
      BY <1>3 DEF Loaded
    <2>2. Loaded(g, msg, length) \in Handles
      BY <1>1, <2>1 DEF Handles
    <2> QED
      BY <1>1, <1>3, <2>1, <2>2 DEF Handles, TxInside, SameRx
  <1> QED
    BY <1>2, <1>3

(***************************************************************************)
(* A chunk that is not refused advances inside the message and inside      *)
(* proto_buf.                                                              *)
(***************************************************************************)
LEMMA AdvancedInside ==
    ASSUME NEW l \in Handles, TxInside(l), l.tx_apdu_buffer # NULL,
           NEW mtu \in Words, ~TxRefused(l, mtu)
    PROVE  LET a == TxAdvanced(l, mtu)
               k == TxChunk(l, mtu)
           IN /\ a \in Handles /\ TxInside(a) /\ SameRx(a, l)
              /\ k \in TxChunks
              /\ k.from + k.n <= k.total
              /\ a.tx_apdu_buffer = NULL => k.from + k.n = k.total
  <1> DEFINE n == TxPayload(l, mtu)
             hd == TxHeader(l)
             k == TxChunk(l, mtu)
  <1>1. /\ l.tx_apdu_length \in Nat /\ l.tx_apdu_offset \in Nat
        /\ l.tx_apdu_length < WordModulus /\ l.tx_apdu_offset <= l.tx_apdu_length
        /\ l.tx_apdu_sequence_number \in SeqNumbers
        /\ l.tx_apdu_buffer \in Nat
        /\ mtu \in Nat /\ hd \in {5, 7}
    BY ProtocolSizes DEF Handles, Words, TxInside, TxHeader
  <1>2. (l.tx_apdu_sequence_number + 1) % SeqModulus \in SeqNumbers
    BY <1>1, ProtocolSizes, ModuloRange DEF SeqNumbers
  <1>3. CASE TxFits(l, mtu)
    <2>1. n = l.tx_apdu_length - l.tx_apdu_offset
      BY <1>3 DEF TxPayload
    <2>2. hd + n <= ProtoBufSize
      BY <1>1, <1>3, <2>1, ProtocolSizes DEF TxRefused
    <2>3. n \in Words /\ hd + n \in Words
      BY <1>1, <2>1, <2>2, ProtocolSizes DEF Words
    <2>4. TxAdvanced(l, mtu) = [l EXCEPT !.tx_apdu_offset = l.tx_apdu_length,
                                         !.tx_apdu_buffer = NULL,
                                         !.tx_chunk_length = hd + n]
      BY <1>3 DEF TxAdvanced
    <2> HIDE DEF n, hd
    <2>5. TxAdvanced(l, mtu) \in Handles
      BY <2>3, <2>4 DEF Handles
    <2>6. TxInside(TxAdvanced(l, mtu)) /\ SameRx(TxAdvanced(l, mtu), l)
      BY <1>1, <2>2, <2>4 DEF Handles, TxInside, SameRx
    <2>7. k = [seq |-> l.tx_apdu_sequence_number, total |-> l.tx_apdu_length,
               msg |-> l.tx_apdu_buffer, from |-> l.tx_apdu_offset, n |-> n]
      BY DEF TxChunk, n
    <2>8. k \in TxChunks /\ k.from + k.n = k.total
      BY <1>1, <2>1, <2>3, <2>7 DEF TxChunks, Handles, Words
    <2> QED
      BY <1>1, <2>1, <2>5, <2>6, <2>7, <2>8
  <1>4. CASE ~TxFits(l, mtu)
    <2>1. n = mtu - hd
      BY <1>4 DEF TxPayload
    <2>2. hd <= mtu /\ mtu <= ProtoBufSize
      BY <1>1, <1>4, ProtocolSizes DEF TxRefused
    <2>3. n \in Words /\ mtu \in Words /\ l.tx_apdu_offset + n < l.tx_apdu_length
      BY <1>1, <1>4, <2>1, <2>2, ProtocolSizes DEF Words, TxFits
    <2>4. TxAdvanced(l, mtu) =
            [l EXCEPT !.tx_apdu_offset = l.tx_apdu_offset + n,
                      !.tx_apdu_sequence_number = (l.tx_apdu_sequence_number + 1) % SeqModulus,
                      !.tx_chunk_length = mtu]
      BY <1>4 DEF TxAdvanced
    <2> HIDE DEF n, hd
    <2>5. l.tx_apdu_offset + n \in Words
      BY <1>1, <2>3, ProtocolSizes DEF Words
    <2>6. TxAdvanced(l, mtu) \in Handles
      BY <1>2, <2>3, <2>4, <2>5 DEF Handles
    <2>7. TxInside(TxAdvanced(l, mtu))
      <3>1. /\ TxAdvanced(l, mtu).tx_apdu_offset = l.tx_apdu_offset + n
            /\ TxAdvanced(l, mtu).tx_apdu_length = l.tx_apdu_length
            /\ TxAdvanced(l, mtu).tx_chunk_length = mtu
        BY <2>4 DEF Handles
      <3>2. l.tx_apdu_offset + n <= l.tx_apdu_length
        BY <1>1, <2>3 DEF Words
      <3> QED
        BY <2>2, <3>1, <3>2 DEF TxInside
    <2>10. SameRx(TxAdvanced(l, mtu), l) /\ TxAdvanced(l, mtu).tx_apdu_buffer # NULL
      BY <2>4 DEF Handles, SameRx
    <2>8. k = [seq |-> l.tx_apdu_sequence_number, total |-> l.tx_apdu_length,
               msg |-> l.tx_apdu_buffer, from |-> l.tx_apdu_offset, n |-> n]
      BY DEF TxChunk, n
    <2>9. k \in TxChunks /\ k.from + k.n <= k.total
      BY <1>1, <2>3, <2>8 DEF TxChunks, Handles, Words
    <2> QED
      BY <2>6, <2>7, <2>9, <2>10
  <1> QED
    BY <1>3, <1>4

(***************************************************************************)
(* The inductive invariant: the types and the five properties the runs     *)
(* check.                                                                  *)
(***************************************************************************)
Inv ==
    /\ EndpointTypeOK
    /\ RxMidway
    /\ RxInBounds
    /\ DeliveredFits
    /\ TxInBounds
    /\ TxComplete

(***************************************************************************)
(* A freshly initialised handle is well formed.                            *)
(***************************************************************************)
LEMMA FreshHandle ==
    LET z == LEDGER_PROTOCOL_init(ZeroHandle) IN
      z \in Handles /\ Midway(z) /\ z.rx_apdu_status = "WAITING" /\ TxInside(z)
  <1>1. 0 \in Words /\ 0 \in SeqNumbers /\ 0 <= ProtoBufSize
    BY ProtocolSizes DEF Words, SeqNumbers, HeaderSize
  <1>2. ZeroHandle \in Handles
    BY <1>1 DEF ZeroHandle, Handles, ApduStatus
  <1>3. LEDGER_PROTOCOL_init(ZeroHandle) \in Handles
    BY <1>1, <1>2 DEF LEDGER_PROTOCOL_init, Handles, ApduStatus
  <1>4. /\ LEDGER_PROTOCOL_init(ZeroHandle).rx_apdu_status = "WAITING"
        /\ LEDGER_PROTOCOL_init(ZeroHandle).rx_apdu_sequence_number = 0
        /\ LEDGER_PROTOCOL_init(ZeroHandle).tx_apdu_offset = 0
        /\ LEDGER_PROTOCOL_init(ZeroHandle).tx_apdu_length = 0
        /\ LEDGER_PROTOCOL_init(ZeroHandle).tx_chunk_length = 0
    BY DEF LEDGER_PROTOCOL_init, ZeroHandle
  <1> QED
    BY <1>1, <1>3, <1>4 DEF Midway, TxInside

(***************************************************************************)
(* The initial state satisfies the invariant.                              *)
(***************************************************************************)
LEMMA InitInv == EndpointInit => Inv
  <1> SUFFICES ASSUME EndpointInit PROVE Inv
    OBVIOUS
  <1>1. h \in Handles /\ Midway(h) /\ h.rx_apdu_status = "WAITING" /\ TxInside(h)
    BY FreshHandle DEF EndpointInit
  <1>2. delivered.length = 0
    BY DEF EndpointInit, Nothing
  <1>3. DOMAIN apdu_buffer = BufferIndex /\ last = -1 /\ chunk = NULL
    BY DEF EndpointInit
  <1> QED
    BY <1>1, <1>2, <1>3, ProtocolSizes
       DEF Inv, EndpointTypeOK, RxMidway, RxInBounds, DeliveredFits, TxInBounds, TxComplete, TxInside

(***************************************************************************)
(* A received APDU chunk preserves the invariant.                          *)
(***************************************************************************)
LEMMA RxApduInv ==
    ASSUME Inv, NEW c \in Chunks, RxApdu(c)
    PROVE  Inv'
  <1> DEFINE r == process_apdu_chunk(h, apdu_buffer, c)
  <1>1. c \in ChunkRecords
    BY EndpointSets DEF ChunkRecords
  <1>2. /\ r.h \in Handles /\ Midway(r.h) /\ SameTx(r.h, h)
        /\ DOMAIN r.buf = BufferIndex
        /\ r.last \in Int /\ r.last < ApduBufferSize
        /\ r.h.rx_apdu_status = "COMPLETE" => r.h.rx_apdu_length \in 1 .. ApduBufferSize
    BY <1>1, ChunkSafe DEF Inv, EndpointTypeOK, RxMidway
  <1>3. apdu_buffer' = r.buf /\ last' = r.last /\ chunk' = chunk
    BY DEF RxApdu
  <1>4. data_ready(r.h, r.buf)
    BY DEF RxApdu
  <1> HIDE DEF r
  <1>5. CASE r.h.rx_apdu_status = "COMPLETE"
    <2>1. h' = [r.h EXCEPT !.rx_apdu_status = "WAITING"]
      BY <1>4, <1>5 DEF data_ready
    <2>2. h' \in Handles
      BY <1>2, <2>1 DEF Handles, ApduStatus
    <2>3. Midway(h') /\ SameTx(h', h) /\ h'.rx_apdu_status # "COMPLETE"
      BY <1>2, <2>1 DEF Handles, Midway, SameTx
    <2>4. delivered'.length = r.h.rx_apdu_length - 1
      BY <1>4, <1>5 DEF data_ready
    <2>5. delivered'.length \in Nat /\ 1 + delivered'.length <= ApduBufferSize
      BY <1>2, <1>5, <2>4, ProtocolSizes
    <2> QED
      BY <1>2, <1>3, <2>2, <2>3, <2>5
         DEF Inv, EndpointTypeOK, RxMidway, RxInBounds, DeliveredFits, TxInBounds, TxComplete, SameTx, Midway
  <1>6. CASE r.h.rx_apdu_status # "COMPLETE"
    <2>1. h' = r.h /\ delivered' = delivered
      BY <1>4, <1>6 DEF data_ready
    <2> QED
      BY <1>2, <1>3, <1>6, <2>1
         DEF Inv, EndpointTypeOK, RxMidway, RxInBounds, DeliveredFits, TxInBounds, TxComplete, SameTx, Midway
  <1> QED
    BY <1>5, <1>6

(***************************************************************************)
(* A packet with another tag preserves the invariant.                      *)
(***************************************************************************)
LEMMA RxControlInv ==
    ASSUME Inv, NEW tag, NEW n \in Words, NEW mtu \in Words, RxControl(tag, n, mtu)
    PROVE  Inv'
  <1>1. last' = -1 /\ apdu_buffer' = apdu_buffer /\ delivered' = delivered /\ chunk' = chunk
    BY DEF RxControl
  <1>2. h' \in Handles /\ SameRx(h', h) /\ TxInside(h')
        /\ h'.tx_apdu_buffer = h.tx_apdu_buffer
    <2>1. CASE ControlResult(tag, mtu) = "SUCCESS"
      <3>1. tag \in ControlTags
        BY <2>1 DEF ControlResult
      <3>2. ControlAnswerLength(tag, n) \in Words /\ ControlAnswerLength(tag, n) <= ProtoBufSize
        <4>1. CASE tag = "GET_PROTOCOL_VERSION"
          BY <4>1, ProtocolSizes DEF ControlAnswerLength, Words, HeaderSize
        <4>2. CASE tag = "ALLOCATE_CHANNEL"
          BY <4>2, ProtocolSizes DEF ControlAnswerLength, Words, HeaderSize
        <4>3. CASE tag = "PING"
          BY <4>3, ProtocolSizes DEF ControlAnswerLength, Words, HeaderSize
        <4>4. CASE tag = "MTU"
          BY <4>4, ProtocolSizes DEF ControlAnswerLength, Words, HeaderSize
        <4> QED
          BY <3>1, <4>1, <4>2, <4>3, <4>4 DEF ControlTags
      <3>3. h' = [h EXCEPT !.tx_chunk_length = ControlAnswerLength(tag, n)]
        BY <2>1 DEF RxControl, rx_control
      <3>4. h' \in Handles
        BY <3>2, <3>3 DEF Inv, EndpointTypeOK, Handles
      <3> QED
        BY <3>2, <3>3, <3>4 DEF Inv, EndpointTypeOK, TxInBounds, Handles, SameRx, TxInside
    <2>2. CASE ControlResult(tag, mtu) # "SUCCESS"
      BY <2>2 DEF RxControl, rx_control, Inv, EndpointTypeOK, TxInBounds, SameRx, TxInside
    <2> QED
      BY <2>1, <2>2
  <1> QED
    BY <1>1, <1>2, ProtocolSizes
       DEF Inv, EndpointTypeOK, RxMidway, Midway, RxInBounds, DeliveredFits, TxInBounds, TxComplete,
           SameRx, TxInside

(***************************************************************************)
(* LEDGER_PROTOCOL_tx preserves the invariant, with a message or without.  *)
(***************************************************************************)
LEMMA TxInv ==
    ASSUME Inv, NEW msg \in Nat \cup {NULL}, NEW n \in Words, NEW mtu \in Words,
           Tx(msg, n, mtu)
    PROVE  Inv'
  <1> DEFINE l == Loaded(h, msg, n)
             r == LEDGER_PROTOCOL_tx(h, msg, n, mtu)
  <1>1. h \in Handles /\ TxInside(h)
    BY DEF Inv, EndpointTypeOK, TxInBounds, TxInside
  <1>2. /\ l \in Handles /\ TxInside(l) /\ SameRx(l, h)
        /\ msg # NULL => l.tx_apdu_buffer = msg
        /\ msg = NULL => l = h
    BY <1>1, LoadedInside
  <1>3. /\ h' = r.h /\ chunk' = r.chunk /\ last' = -1
        /\ apdu_buffer' = apdu_buffer /\ delivered' = delivered
    BY DEF Tx
  <1>4. /\ h' \in Handles /\ TxInside(h') /\ SameRx(h', h)
        /\ chunk' \in TxChunks \cup {NULL}
        /\ chunk' # NULL => chunk'.from + chunk'.n <= chunk'.total
        /\ chunk' # NULL /\ h'.tx_apdu_buffer = NULL => chunk'.from + chunk'.n = chunk'.total
    <2>1. CASE msg = NULL /\ h.tx_apdu_buffer = NULL
      <3>1. r.h = h /\ r.chunk = NULL
        BY <2>1 DEF LEDGER_PROTOCOL_tx
      <3> QED
        BY <1>1, <1>3, <3>1 DEF SameRx
    <2>2. CASE ~(msg = NULL /\ h.tx_apdu_buffer = NULL) /\ TxRefused(l, mtu)
      <3>1. r.h = l /\ r.chunk = NULL
        BY <2>2 DEF LEDGER_PROTOCOL_tx
      <3> QED
        BY <1>2, <1>3, <3>1
    <2>3. CASE ~(msg = NULL /\ h.tx_apdu_buffer = NULL) /\ ~TxRefused(l, mtu)
      <3>1. r.h = TxAdvanced(l, mtu) /\ r.chunk = TxChunk(l, mtu)
        BY <2>3 DEF LEDGER_PROTOCOL_tx
      <3>2. l.tx_apdu_buffer # NULL
        BY <1>2, <2>3
      <3>3. /\ TxAdvanced(l, mtu) \in Handles /\ TxInside(TxAdvanced(l, mtu))
            /\ SameRx(TxAdvanced(l, mtu), l)
            /\ TxChunk(l, mtu) \in TxChunks
            /\ TxChunk(l, mtu).from + TxChunk(l, mtu).n <= TxChunk(l, mtu).total
            /\ TxAdvanced(l, mtu).tx_apdu_buffer = NULL =>
                 TxChunk(l, mtu).from + TxChunk(l, mtu).n = TxChunk(l, mtu).total
        BY <1>2, <2>3, <3>2, AdvancedInside
      <3> HIDE DEF l, r
      <3> QED
        BY <1>2, <1>3, <3>1, <3>3 DEF SameRx
    <2> QED
      BY <2>1, <2>2, <2>3
  <1> QED
    BY <1>3, <1>4, ProtocolSizes
       DEF Inv, EndpointTypeOK, RxMidway, Midway, RxInBounds, DeliveredFits, TxInBounds, TxComplete,
           SameRx, TxInside

(***************************************************************************)
(* Starting the driver again preserves the invariant.                      *)
(***************************************************************************)
LEMMA RestartInv == Inv /\ Restart => Inv'
  <1> SUFFICES ASSUME Inv, Restart PROVE Inv'
    OBVIOUS
  <1>1. h' \in Handles /\ Midway(h') /\ h'.rx_apdu_status = "WAITING" /\ TxInside(h')
    BY FreshHandle DEF Restart
  <1>2. last' = -1 /\ chunk' = NULL /\ apdu_buffer' = apdu_buffer /\ delivered' = delivered
    BY DEF Restart
  <1> QED
    BY <1>1, <1>2, ProtocolSizes
       DEF Inv, EndpointTypeOK, RxMidway, Midway, RxInBounds, DeliveredFits, TxInBounds, TxComplete, TxInside

(***************************************************************************)
(* Inv is an invariant of the endpoint facing any peer.                    *)
(***************************************************************************)
THEOREM InvInvariant == Spec => []Inv
  <1>1. EndpointInit => Inv
    BY InitInv
  <1>2. Inv /\ [Next]_endpointVars => Inv'
    <2> SUFFICES ASSUME Inv, [Next]_endpointVars PROVE Inv'
      OBVIOUS
    <2>1. ASSUME NEW c \in Chunks, RxApdu(c) PROVE Inv'
      BY <2>1, RxApduInv
    <2>2. ASSUME NEW tag \in ControlTags \cup {"ABORT"}, NEW n \in ControlLengths, NEW mtu \in Mtus,
                 RxControl(tag, n, mtu)
          PROVE Inv'
      BY <2>2, RxControlInv, EndpointSets
    <2>3. ASSUME NEW m \in Answers, NEW n \in AnswerLengths, NEW mtu \in Mtus, Tx(m, n, mtu)
          PROVE Inv'
      <3>1. m \in Nat \cup {NULL} /\ n \in Words /\ mtu \in Words
        BY EndpointSets
      <3> QED
        BY <2>3, <3>1, TxInv
    <2>4. ASSUME NEW mtu \in Mtus, Tx(NULL, 0, mtu) PROVE Inv'
      <3>1. 0 \in Words /\ mtu \in Words
        BY EndpointSets, ProtocolSizes DEF Words
      <3> QED
        BY <2>4, <3>1, TxInv
    <2>5. CASE Restart
      BY <2>5, RestartInv
    <2>6. CASE UNCHANGED endpointVars
      BY <2>6 DEF endpointVars, Inv, EndpointTypeOK, RxMidway, Midway, RxInBounds, DeliveredFits,
                  TxInBounds, TxComplete
    <2> QED
      BY <2>1, <2>2, <2>3, <2>4, <2>5, <2>6 DEF Next
  <1> QED
    BY <1>1, <1>2, PTL DEF Spec

(***************************************************************************)
(* Every field of ledger_protocol_t keeps its type: lengths, offsets and   *)
(* sequence numbers never leave the range of their width.                  *)
(***************************************************************************)
THEOREM TypeCorrect == Spec => []EndpointTypeOK
  <1>1. Inv => EndpointTypeOK
    BY DEF Inv
  <1> QED
    BY <1>1, InvInvariant, PTL

(***************************************************************************)
(* In the middle of an APDU the receive offset is inside the announced     *)
(* length and that length inside the buffer.                               *)
(***************************************************************************)
THEOREM MidwayCorrect == Spec => []RxMidway
  <1>1. Inv => RxMidway
    BY DEF Inv
  <1> QED
    BY <1>1, InvInvariant, PTL

(***************************************************************************)
(* process_apdu_chunk never writes outside apdu_buffer, and an APDU it     *)
(* completes fits the buffer, for every buffer size and every peer.        *)
(***************************************************************************)
THEOREM RxSafety == Spec => []RxSafe
  <1>1. Inv => RxSafe
    BY DEF Inv, RxSafe
  <1> QED
    BY <1>1, InvInvariant, PTL

(***************************************************************************)
(* LEDGER_PROTOCOL_tx never leaves the message or proto_buf and ends every *)
(* message at its last byte, for every MTU, also when it changes midway.   *)
(***************************************************************************)
THEOREM TxSafety == Spec => []TxSafe
  <1>1. Inv => TxSafe
    BY DEF Inv, TxSafe
  <1> QED
    BY <1>1, InvInvariant, PTL
=============================================================================
