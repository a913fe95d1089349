------------------------------ MODULE ApduLink ------------------------------
(***************************************************************************)
(* A host and a device that exchange APDUs over the framing protocol.  The *)
(* device is LedgerEndpoint.  The host is external: it cuts a request into *)
(* chunks, sends them in order and waits for the answer.  faults, chosen   *)
(* once, says what else may happen: the host gives up in the middle of a   *)
(* request, it times out waiting for the answer, or a chunk is dropped on  *)
(* the way.                                                                *)
(***************************************************************************)
EXTENDS LedgerEndpoint

CONSTANTS
    HostChunk,     \* bytes a host chunk may hold after channel and tag
    Padded,        \* TRUE when chunks are padded to HostChunk (USB reports)
    Lengths,       \* request lengths the host may send
    AnswerLengths, \* answer lengths the application may return
    Mtus,          \* transmit MTUs; BLE may renegotiate between two chunks
    MaxApdus,      \* bound on the number of requests
    FaultSets      \* set of subsets of {"abandon", "timeout", "loss"}

(***************************************************************************)
(* Requests fit the buffer, type byte included, and every MTU has room for *)
(* the header of a first chunk and fits proto_buf, as the drivers ensure.  *)
(***************************************************************************)
ASSUME LinkSizes ==
    /\ HostChunk \in Words /\ HostChunk > 4
    /\ Padded \in BOOLEAN
    /\ Lengths \subseteq 0 .. ApduBufferSize - 1
    /\ AnswerLengths \subseteq Words
    /\ Mtus \subseteq 7 .. ProtoBufSize
    /\ MaxApdus \in Nat
    /\ FaultSets \subseteq SUBSET {"abandon", "timeout", "loss"}
    /\ ApduBufferSize <= SeqModulus
    /\ NULL \notin Nat

VARIABLES
    pending,    \* request the application has not answered yet, or NULL
    host,       \* the request being sent or waited for
    answer,     \* the host's reassembly of the answer
    faults      \* the faults of this behaviour

vars == <<h, apdu_buffer, last, delivered, chunk, pending, host, answer, faults>>

(***************************************************************************)
(* Request k is message k, its answer is message MaxApdus + k.             *)
(***************************************************************************)
AnswerTo(k) == MaxApdus + k

NoAnswer == [msg |-> NULL, total |-> 0, got |-> 0, seq |-> 0, intact |-> TRUE]

(***************************************************************************)
(* host.clean and host.handed are history: this request met a device that  *)
(* was waiting for a first chunk and no chunk of it was lost; the number   *)
(* of APDUs the device handed over while it was sent.                      *)
(***************************************************************************)
Init ==
    /\ EndpointInit
    /\ pending = NULL
    /\ host = [state |-> "idle", id |-> 0, length |-> 0, sent |-> 0, seq |-> 0,
               clean |-> TRUE, handed |-> 0]
    /\ answer = NoAnswer
    /\ faults \in FaultSets

-----------------------------------------------------------------------------
(***************************************************************************)
(* The host.                                                               *)
(***************************************************************************)
HostHeader == IF host.seq = 0 THEN 4 ELSE 2

HostPayload ==
    IF host.length - host.sent < HostChunk - HostHeader
    THEN host.length - host.sent
    ELSE HostChunk - HostHeader

Chunk ==
    [length |-> IF Padded THEN HostChunk ELSE HostHeader + HostPayload,
     seq |-> host.seq, total |-> host.length, msg |-> host.id, from |-> host.sent]

Completes(c) ==
    process_apdu_chunk(h, apdu_buffer, c).h.rx_apdu_status = "COMPLETE"

HostAdvance(clean, handed) ==
    host' = [host EXCEPT !.sent = @ + HostPayload,
                         !.seq = (@ + 1) % SeqModulus,
                         !.state = IF host.sent + HostPayload = host.length
                                   THEN "waiting" ELSE "sending",
                         !.clean = clean,
                         !.handed = handed]

HostStart(n) ==
    /\ host.state = "idle" /\ host.id < MaxApdus
    /\ host' = [state |-> "sending", id |-> host.id + 1, length |-> n, sent |-> 0, seq |-> 0,
                clean |-> h.rx_apdu_sequence_number = 0, handed |-> 0]
    /\ answer' = NoAnswer
    /\ UNCHANGED <<h, apdu_buffer, last, delivered, chunk, pending, faults>>

HostSend ==
    /\ host.state = "sending"
    /\ RxApdu(Chunk)
    /\ pending' = IF Completes(Chunk) THEN host.id ELSE pending
    /\ HostAdvance(host.clean, IF Completes(Chunk) THEN host.handed + 1 ELSE host.handed)
    /\ UNCHANGED <<answer, faults>>

(***************************************************************************)
(* The empty chunk Ledger Live sends after a request that filled its last  *)
(* chunk exactly (comment in process_apdu_chunk).                          *)
(***************************************************************************)
EmptyChunk == [length |-> 2, seq |-> host.seq, total |-> 0, msg |-> host.id, from |-> host.sent]

HostTrailing ==
    /\ host.state = "waiting"
    /\ host.seq # 0
    /\ RxApdu(EmptyChunk)
    /\ pending' = IF Completes(EmptyChunk) THEN host.id ELSE pending
    /\ host' = [host EXCEPT !.seq = 0,
                            !.handed = IF Completes(EmptyChunk) THEN @ + 1 ELSE @]
    /\ UNCHANGED <<answer, faults>>

HostAbandon ==
    /\ "abandon" \in faults
    /\ host.state = "sending"
    /\ host' = [host EXCEPT !.state = "idle"]
    /\ UNCHANGED <<h, apdu_buffer, last, delivered, chunk, pending, answer, faults>>

HostTimeout ==
    /\ "timeout" \in faults
    /\ host.state = "waiting"
    /\ host' = [host EXCEPT !.state = "idle"]
    /\ UNCHANGED <<h, apdu_buffer, last, delivered, chunk, pending, answer, faults>>

ChunkLost ==
    /\ "loss" \in faults
    /\ host.state = "sending"
    /\ HostAdvance(FALSE, host.handed)
    /\ UNCHANGED <<h, apdu_buffer, last, delivered, chunk, pending, answer, faults>>

-----------------------------------------------------------------------------
(***************************************************************************)
(* The application answers; the host appends what each chunk carries.      *)
(* intact stays TRUE as long as the bytes come in order from one message.  *)
(***************************************************************************)
Merged(c) ==
    LET first == c.seq = 0
        got   == IF first THEN 0 ELSE answer.got
    IN [msg |-> c.msg, total |-> IF first THEN c.total ELSE answer.total,
        got |-> got + c.n, seq |-> (c.seq + 1) % SeqModulus,
        intact |-> /\ c.from = got
                   /\ first \/ (answer.intact /\ c.msg = answer.msg /\ c.seq = answer.seq)]

HostCollect ==
    IF chunk' = NULL
    THEN UNCHANGED <<host, answer>>
    ELSE /\ answer' = Merged(chunk')
         /\ host' = IF answer'.got = answer'.total /\ host.state = "waiting"
                    THEN [host EXCEPT !.state = "idle"] ELSE host

AppAnswer(n, mtu) ==
    /\ pending # NULL
    /\ Tx(AnswerTo(pending), n, mtu)
    /\ pending' = NULL
    /\ HostCollect
    /\ UNCHANGED faults

AnswerNext(mtu) ==
    /\ h.tx_apdu_buffer # NULL
    /\ Tx(NULL, 0, mtu)
    /\ HostCollect
    /\ UNCHANGED <<pending, faults>>

(***************************************************************************)
(* The driver is started again (USB reset, BLE restart) between requests.  *)
(***************************************************************************)
LinkRestart ==
    /\ "abandon" \in faults
    /\ host.state = "idle"
    /\ Restart
    /\ UNCHANGED <<pending, host, answer, faults>>

Next ==
    \/ \E n \in Lengths : HostStart(n)
    \/ HostSend
    \/ HostTrailing
    \/ HostAbandon
    \/ HostTimeout
    \/ ChunkLost
    \/ \E n \in AnswerLengths, mtu \in Mtus : AppAnswer(n, mtu)
    \/ \E mtu \in Mtus : AnswerNext(mtu)
    \/ LinkRestart

Spec == Init /\ [][Next]_vars

(***************************************************************************)
(* The host keeps sending and waiting, the application answers, and the    *)
(* transport acknowledges every chunk of the answer so that the next one   *)
(* goes out.                                                               *)
(***************************************************************************)
Fairness ==
    /\ WF_vars(HostSend)
    /\ WF_vars(\E n \in AnswerLengths, mtu \in Mtus : AppAnswer(n, mtu))
    /\ WF_vars(\E mtu \in Mtus : AnswerNext(mtu))

FairSpec == Spec /\ Fairness

-----------------------------------------------------------------------------
(***************************************************************************)
(* Recovery: a request whose first chunk finds the device between two      *)
(* APDUs is delivered exactly and once, whatever was abandoned, lost or    *)
(* timed out before it; any other makes the device hand over one APDU at   *)
(* most, also when it meets a transfer that was cut.                       *)
(***************************************************************************)
CleanDelivery ==
    /\ host.handed <= 1
    /\ host.clean /\ host.state = "waiting" =>
          /\ host.handed = 1
          /\ delivered.length = host.length
          /\ delivered.bytes = [i \in 0 .. host.length - 1 |-> <<host.id, i>>]

(***************************************************************************)
(* When nothing goes wrong on the link every request ends with the         *)
(* complete answer made for it.                                            *)
(***************************************************************************)
RequestAnswered ==
    faults = {} /\ host.state = "sending" ~>
        /\ host.state = "idle"
        /\ answer.msg = AnswerTo(host.id) /\ answer.got = answer.total

(***************************************************************************)
(* The framing implements whole-APDU exchange: chunks, padding, sequence   *)
(* numbers and MTU changes are invisible to the host and the application.  *)
(* A behaviour with faults maps to one in which nothing is asked.          *)
(***************************************************************************)
Exchange ==
    INSTANCE ApduExchange WITH
        phase <- IF faults # {} \/ host.state = "idle" THEN "free"
                 ELSE IF host.state = "sending" THEN "asked" ELSE "held",
        id    <- IF faults # {} THEN 0 ELSE host.id,
        want  <- IF faults # {} THEN Nothing.bytes
                 ELSE [i \in 0 .. host.length - 1 |-> <<host.id, i>>],
        held  <- IF faults # {} THEN Nothing.bytes ELSE delivered.bytes,
        reply <- IF faults = {} /\ host.state = "idle" /\ host.id > 0
                 THEN [msg |-> answer.msg, length |-> answer.got] ELSE NULL

ImplementsExchange == Exchange!Spec
=============================================================================
