--------------------------- MODULE BleProfileApdu ---------------------------
(***************************************************************************)
(* The APDU profile of lib_blewbxx/src/ble_ledger_profile_apdu.c between a *)
(* BLE controller, a central and the application.  The profile owns one    *)
(* protocol handle, one chunk buffer and shares one command buffer with    *)
(* the manager: a handler that forges two commands sends the last one.     *)
(*                                                                         *)
(* The manager is reduced to what the profile sees of it: while it starts  *)
(* advertising again after a disconnection, completions do not reach the   *)
(* profile and the application cannot send.  BleLedger models it in full.  *)
(*                                                                         *)
(* A definition named Op_Slip is Op with a plausible mistake in it; no     *)
(* specification uses it, it shows that some property tells it from Op.    *)
(***************************************************************************)
EXTENDS LedgerProtocol, Sequences, FiniteSets

CONSTANTS
    DefaultMtu,    \* BLE_ATT_DEFAULT_MTU - 1
    Mtus,          \* what the MTU exchange may end with, minus 1
    WriteSize,     \* bytes of a write after channel and tag
    Lengths,       \* request lengths of the central
    AnswerLengths, \* answer lengths of the application
    Modes,         \* how the central writes: subset of {"req", "cmd"}
    Transfer,      \* TRUE when the application may set the transfer mode
    MaxApdus,      \* bound on the number of requests
    MaxLinks,      \* bound on the number of connections
    MaxInFlight    \* registrations wait while more than this is in flight

ASSUME ProfileSizes ==
    /\ Mtus \cup {DefaultMtu} \subseteq 9 .. ProtoBufSize  \* a status fits one chunk
    /\ WriteSize \in Words /\ WriteSize > 4
    /\ Lengths \subseteq 0 .. ApduBufferSize - 1
    /\ AnswerLengths \subseteq Words
    /\ Modes \subseteq {"req", "cmd"}
    /\ Transfer \in BOOLEAN
    /\ MaxApdus \in Nat /\ MaxLinks \in Nat /\ MaxInFlight \in Nat
    /\ NULL \notin Int

VARIABLES
    p,        \* the profile handle, its chunk buffer and its APDU buffer
    mgr,      \* "RUNNING" or "START_ADVERTISING"
    held,     \* the APDU the application has not answered yet, or NULL
    cmds,     \* commands on their way to the controller
    evts,     \* events on their way to the manager
    central,  \* the other end of the link
    answer    \* what the central has reassembled

vars == <<p, mgr, held, cmds, evts, central, answer>>

(***************************************************************************)
(* Request k is message k and its answer message MaxApdus + k.  The        *)
(* profile itself sends the two-byte status kept in resp, SWO_SUCCESS or   *)
(* another one.  A control answer and a wiped chunk buffer carry no        *)
(* message.                                                                *)
(***************************************************************************)
AnswerTo(k) == MaxApdus + k
StatusMsg(resp) == IF resp = "OK" THEN 0 ELSE -1

Wiped == [seq |-> 0, total |-> 0, msg |-> -2, from |-> 0, n |-> 0]
Control == [seq |-> 0, total |-> 0, msg |-> -3, from |-> 0, n |-> 0]

ZeroProfile ==
    [h |-> ZeroHandle, buf |-> [i \in BufferIndex |-> NULL], chunk |-> Wiped,
     mtu |-> DefaultMtu, mtu_negotiated |-> FALSE, link_is_encrypted |-> FALSE,
     long_interval |-> FALSE, connection_updated |-> FALSE,
     notifications_enabled |-> FALSE, wait_write_resp_ack |-> FALSE,
     transfer_wanted |-> FALSE, transfer |-> FALSE,
     send_response |-> FALSE, resp |-> "KO"]

-----------------------------------------------------------------------------
(***************************************************************************)
(* Every handler returns the profile and the command it has sent.          *)
(***************************************************************************)
Silent(q) == [p |-> q, out |-> <<>>]

Sending(q, op) == [p |-> q, out |-> <<[op |-> op, chunk |-> Wiped]>>]

(***************************************************************************)
(* notify_chunk, and the send the caller does next: when nothing is forged *)
(* the buffer still holds an earlier command.                              *)
(***************************************************************************)
notify_chunk(q) ==
    IF q.h.tx_chunk_length >= 2 /\ q.h.tx_chunk_length <= ProtoBufSize
    THEN [p |-> q, out |-> <<[op |-> "UPDATE_CHAR_VALUE", chunk |-> q.chunk]>>]
    ELSE Sending(q, "earlier command")

check_transfer_mode(q) ==
    IF q.transfer_wanted /\ ~q.transfer
    THEN [q EXCEPT !.transfer = TRUE, !.send_response = TRUE, !.resp = "OK"]
    ELSE [q EXCEPT !.transfer = q.transfer_wanted]

(***************************************************************************)
(* LEDGER_PROTOCOL_tx into the chunk buffer of the profile.                *)
(***************************************************************************)
Tx(q, msg, n) ==
    LET t == LEDGER_PROTOCOL_tx(q.h, msg, n, q.mtu)
    IN [p  |-> [q EXCEPT !.h = t.h, !.chunk = IF t.chunk = NULL THEN Wiped ELSE t.chunk],
        ok |-> t.result = "SUCCESS"]

(***************************************************************************)
(* LEDGER_PROTOCOL_rx: every packet wipes the chunk buffer.                *)
(***************************************************************************)
Rx(q, w) ==
    IF w.control
    THEN [p  |-> [q EXCEPT !.h = rx_control(q.h, "MTU", w.length + 3, q.mtu), !.chunk = Control],
          ok |-> ControlResult("MTU", q.mtu) = "SUCCESS"]
    ELSE LET r == process_apdu_chunk(q.h, q.buf, w)
         IN [p  |-> [q EXCEPT !.h = r.h, !.buf = r.buf, !.chunk = Wiped],
             ok |-> r.result = "SUCCESS"]

connection_evt(q, long) ==
    [q EXCEPT !.notifications_enabled = FALSE, !.mtu = DefaultMtu, !.mtu_negotiated = FALSE,
              !.connection_updated = FALSE, !.wait_write_resp_ack = FALSE, !.transfer = FALSE,
              !.send_response = FALSE, !.long_interval = long]

(***************************************************************************)
(* att_modified: the client configuration, then a write without response.  *)
(***************************************************************************)
Registered(q, on) ==
    LET r == [q EXCEPT !.notifications_enabled = on]
    IN IF on /\ ~q.mtu_negotiated THEN Sending(r, "EXCHANGE_CONFIG") ELSE Silent(r)

TransferAnswer(q) ==
    LET t == Tx(q, StatusMsg(q.resp), 2)
    IN IF t.ok THEN notify_chunk([t.p EXCEPT !.send_response = FALSE]) ELSE Silent(t.p)

WriteCommand(q, w) ==
    LET r == Rx(q, w)
        m == check_transfer_mode(r.p)
    IN IF ~(q.notifications_enabled /\ q.link_is_encrypted) THEN Silent(q)
       ELSE IF ~r.ok THEN Silent(r.p)
       ELSE IF r.p.h.rx_apdu_status = "COMPLETE"
       THEN IF ~m.transfer THEN Silent(m)
            ELSE IF m.resp # "OK"
            THEN Silent(check_transfer_mode([m EXCEPT !.transfer_wanted = FALSE]))
            ELSE IF m.send_response THEN TransferAnswer(m) ELSE Silent(m)
       ELSE IF r.p.h.tx_chunk_length >= 2 THEN notify_chunk(r.p) ELSE Silent(r.p)


write_permit_req(q, w) ==
    LET a == [q EXCEPT !.wait_write_resp_ack = TRUE]
        r == Rx(a, w)
    IN IF q.notifications_enabled /\ q.link_is_encrypted
       THEN IF r.ok THEN Sending(r.p, "WRITE_RESP") ELSE Silent(r.p)
       ELSE Sending([a EXCEPT !.h.tx_chunk_length = 0], "WRITE_RESP")

write_rsp_ack_AckLost(q) == Silent([q EXCEPT !.wait_write_resp_ack = FALSE])

write_rsp_ack(q) ==
    IF q.wait_write_resp_ack /\ q.h.tx_chunk_length >= 2
    THEN notify_chunk([q EXCEPT !.wait_write_resp_ack = FALSE])
    ELSE Silent([q EXCEPT !.wait_write_resp_ack = FALSE])

(***************************************************************************)
(* update_char_value_ack: the next chunk, and once the message has ended   *)
(* the connection parameters, forged in the same command buffer.           *)
(***************************************************************************)
Ended_LengthKept(q) == q

Ended(q) == [q EXCEPT !.h.tx_chunk_length = 0]

update_char_value_ack(q) ==
    LET e == Ended(q)
        t == Tx(e, NULL, 0)
        r == IF e.h.tx_apdu_buffer = NULL THEN Silent(e) ELSE notify_chunk(t.p)
    IN IF q.transfer THEN Silent(e)
       ELSE IF e.h.tx_apdu_buffer # NULL /\ ~t.ok THEN Silent(t.p)
       ELSE IF r.p.h.tx_apdu_buffer # NULL THEN r
       ELSE IF ~q.connection_updated /\ q.long_interval
       THEN Sending([Ended(r.p) EXCEPT !.connection_updated = TRUE], "CONNECTION_UPDATE")
       ELSE [r EXCEPT !.p = Ended(r.p)]

(***************************************************************************)
(* send_packet: in transfer mode a two-byte answer is kept for the next    *)
(* APDU; otherwise a pending write response delays the notification.       *)
(***************************************************************************)
send_packet_NotDelayed(q, msg, n, resp) ==
    LET t == Tx(q, msg, n) IN IF t.ok THEN notify_chunk(t.p) ELSE Silent(t.p)

send_packet(q, msg, n, resp) ==
    IF q.transfer /\ n = 2
    THEN LET k == [q EXCEPT !.send_response = TRUE, !.resp = resp]
             t == Tx(k, StatusMsg(resp), 2)
         IN IF q.h.rx_apdu_length = 0 THEN Silent(k)
            ELSE IF t.ok THEN notify_chunk(t.p) ELSE Silent(t.p)
    ELSE LET failed == q.send_response /\ q.resp # "OK"
             t == IF failed THEN Tx(q, StatusMsg(q.resp), 2) ELSE Tx(q, msg, n)
             s == [t.p EXCEPT !.send_response = FALSE]
         IN IF ~t.ok THEN Silent(t.p)
            ELSE IF q.wait_write_resp_ack THEN Silent(s) ELSE notify_chunk(s)

-----------------------------------------------------------------------------
(***************************************************************************)
(* data_ready: a complete APDU goes to the application.  held.id is        *)
(* history: the request the central was sending.                           *)
(***************************************************************************)
data_ready(q) ==
    IF q.h.rx_apdu_status = "COMPLETE"
    THEN [q EXCEPT !.h.rx_apdu_status = "WAITING", !.h.rx_apdu_length = 0]
    ELSE q

Handed_TypeCounted(q) ==
    IF q.h.rx_apdu_status = "COMPLETE"
    THEN [id |-> central.id,
          bytes |-> [i \in 0 .. q.h.rx_apdu_length - 1 |-> q.buf[i]]]
    ELSE held

Handed(q) ==
    IF q.h.rx_apdu_status = "COMPLETE"
    THEN [id |-> central.id,
          bytes |-> [i \in 0 .. q.h.rx_apdu_length - 2 |-> q.buf[i + 1]]]
    ELSE held

(***************************************************************************)
(* One event, handled to its end.                                          *)
(***************************************************************************)
Take == evts' = Tail(evts)

VendorDone(r) ==
    /\ p' = data_ready(r.p)
    /\ held' = Handed(r.p)
    /\ cmds' = cmds \o r.out
    /\ UNCHANGED mgr

Connected ==
    /\ evts # <<>> /\ Head(evts).type = "connected"
    /\ p' = connection_evt(p, Head(evts).long)
    /\ Take
    /\ UNCHANGED <<mgr, held, cmds, central, answer>>

Disconnected ==
    /\ evts # <<>> /\ Head(evts).type = "disconnected"
    /\ mgr' = "START_ADVERTISING"
    /\ cmds' = Append(cmds, [op |-> "ADVERTISE", chunk |-> Wiped])
    /\ Take
    /\ UNCHANGED <<p, held, central, answer>>

EncryptionChanged ==
    /\ evts # <<>> /\ Head(evts).type = "encrypted"
    /\ p' = [p EXCEPT !.link_is_encrypted = TRUE]
    /\ Take
    /\ UNCHANGED <<mgr, held, cmds, central, answer>>

VendorEvent ==
    /\ evts # <<>>
    /\ LET e == Head(evts)
       IN \/ e.type = "config" /\ VendorDone(Registered(p, e.on))
          \/ e.type = "cmd"    /\ VendorDone(WriteCommand(p, e.w))
          \/ e.type = "req"    /\ VendorDone(write_permit_req(p, e.w))
          \/ e.type = "mtu"
             /\ VendorDone(Silent([p EXCEPT !.mtu = e.mtu, !.mtu_negotiated = TRUE]))
    /\ Take
    /\ UNCHANGED <<central, answer>>

Completed ==
    /\ evts # <<>> /\ Head(evts).type = "complete"
    /\ LET op == Head(evts).op
           r  == IF mgr = "RUNNING" /\ op = "WRITE_RESP" THEN write_rsp_ack(p)
                 ELSE IF mgr = "RUNNING" /\ op = "UPDATE_CHAR_VALUE" THEN update_char_value_ack(p)
                 ELSE Silent(p)
       IN /\ p' = r.p
          /\ cmds' = cmds \o r.out
          /\ mgr' = IF op = "ADVERTISE" THEN "RUNNING" ELSE mgr
    /\ Take
    /\ UNCHANGED <<held, central, answer>>

-----------------------------------------------------------------------------
(***************************************************************************)
(* The application: it answers what it holds, or sets the transfer mode.   *)
(* BLE_LEDGER_send drops the answer unless the manager is running.         *)
(***************************************************************************)
AppAnswer(n, resp) ==
    /\ held # NULL
    /\ held' = NULL
    /\ LET r == IF mgr = "RUNNING" THEN send_packet(p, AnswerTo(held.id), n, resp) ELSE Silent(p)
       IN p' = r.p /\ cmds' = cmds \o r.out
    /\ UNCHANGED <<mgr, evts, central, answer>>

setting(on) ==
    /\ Transfer /\ mgr = "RUNNING"
    /\ p' = [p EXCEPT !.transfer_wanted = on]
    /\ UNCHANGED <<mgr, held, cmds, evts, central, answer>>

-----------------------------------------------------------------------------
(***************************************************************************)
(* The controller executes commands in order and reports each one; the     *)
(* central receives notifications when it is connected and registered.     *)
(***************************************************************************)
NoAnswer == [msg |-> NULL, total |-> 0, got |-> 0, seq |-> 0, intact |-> TRUE]

Merged(c) ==
    LET first == c.seq = 0
        got   == IF first THEN 0 ELSE answer.got
    IN [msg |-> c.msg, total |-> IF first THEN c.total ELSE answer.total,
        got |-> got + c.n, seq |-> c.seq + 1,
        intact |-> /\ c.msg # Wiped.msg /\ c.from = got
                   /\ first \/ (answer.intact /\ c.msg = answer.msg /\ c.seq = answer.seq)]

Received(c) ==
    IF c.msg = Control.msg
    THEN /\ central' = [central EXCEPT !.asked = "done"]
         /\ UNCHANGED answer
    ELSE LET a == Merged(c)
             whole == a.got = a.total
         IN /\ answer' = a
            /\ central' = [central EXCEPT !.state = IF whole /\ @ = "waiting" THEN "idle" ELSE @,
                                          !.answers = IF whole THEN @ + 1 ELSE @]

Complete(op) == [type |-> "complete", op |-> op]

Controller ==
    /\ cmds # <<>>
    /\ LET c == Head(cmds)
       IN \/ /\ c.op = "WRITE_RESP"
             /\ central' = [central EXCEPT !.unacked = FALSE]
             /\ evts' = Append(evts, Complete(c.op))
             /\ UNCHANGED answer
          \/ /\ c.op \in {"UPDATE_CHAR_VALUE", "earlier command"}
             /\ IF central.on /\ central.registered THEN Received(c.chunk) ELSE UNCHANGED <<central, answer>>
             /\ evts' = Append(evts, Complete("UPDATE_CHAR_VALUE"))
          \/ /\ c.op = "EXCHANGE_CONFIG"
             /\ IF central.on
                THEN \E m \in Mtus : evts' = Append(evts, [type |-> "mtu", mtu |-> m])
                ELSE UNCHANGED evts
             /\ UNCHANGED <<central, answer>>
          \/ /\ c.op \in {"CONNECTION_UPDATE", "ADVERTISE"}
             /\ evts' = Append(evts, Complete(c.op))
             /\ UNCHANGED <<central, answer>>
    /\ cmds' = Tail(cmds)
    /\ UNCHANGED <<p, mgr, held>>

-----------------------------------------------------------------------------
(***************************************************************************)
(* The central.  clean is history: the link was opened while nothing of an *)
(* earlier exchange was left on the device.  A central on a link with a    *)
(* long interval asks for the MTU before its first request, as Ledger's    *)
(* hosts do.                                                               *)
(***************************************************************************)
AtRest ==
    /\ held = NULL /\ cmds = <<>> /\ evts = <<>> /\ mgr = "RUNNING"
    /\ p.h.rx_apdu_sequence_number = 0
    /\ p.h.tx_apdu_buffer = NULL /\ p.h.tx_chunk_length = 0

NoCentral ==
    [on |-> FALSE, links |-> 0, mode |-> "req", long |-> FALSE, encrypted |-> FALSE,
     registered |-> FALSE, asked |-> "no", unacked |-> FALSE, state |-> "idle",
     id |-> 0, length |-> 0, sent |-> 0, seq |-> 0, clean |-> TRUE, answers |-> 0]

Emit(c, e) ==
    /\ central' = c
    /\ evts' = Append(evts, e)
    /\ UNCHANGED <<p, mgr, held, cmds>>

Connect(mode, long) ==
    /\ ~central.on /\ central.links < MaxLinks
    /\ mgr = "RUNNING" /\ \A i \in 1 .. Len(evts) : evts[i].type # "disconnected"
    /\ Emit([NoCentral EXCEPT !.on = TRUE, !.links = central.links + 1, !.mode = mode,
                              !.long = long, !.id = central.id, !.clean = AtRest],
            [type |-> "connected", long |-> long])
    /\ answer' = NoAnswer

Drop ==
    /\ central.on /\ central.links < MaxLinks
    /\ Emit([central EXCEPT !.on = FALSE, !.state = "idle"], [type |-> "disconnected"])
    /\ UNCHANGED answer

Encrypt ==
    /\ central.on /\ ~central.encrypted
    /\ Emit([central EXCEPT !.encrypted = TRUE], [type |-> "encrypted"])
    /\ UNCHANGED answer

Register(on) ==
    /\ central.on /\ central.encrypted /\ central.state = "idle"
    /\ central.registered # on /\ Len(cmds) + Len(evts) < MaxInFlight
    /\ Emit([central EXCEPT !.registered = on], [type |-> "config", on |-> on])
    /\ UNCHANGED answer

Free == central.on /\ central.registered /\ ~central.unacked /\ central.asked # "wait"

Write(w, c) ==
    Emit([c EXCEPT !.unacked = central.mode = "req"], [type |-> central.mode, w |-> w])

AskMtu ==
    /\ Free /\ central.state = "idle" /\ central.asked = "no"
    /\ Write([control |-> TRUE, length |-> 5], [central EXCEPT !.asked = "wait"])
    /\ UNCHANGED answer

Request(n) ==
    /\ Free /\ central.state = "idle" /\ central.id < MaxApdus
    /\ central.long => central.asked = "done"
    /\ central' = [central EXCEPT !.state = "sending", !.id = @ + 1, !.length = n,
                                  !.sent = 0, !.seq = 0, !.answers = 0]
    /\ answer' = NoAnswer
    /\ UNCHANGED <<p, mgr, held, cmds, evts>>

CentralHeader == IF central.seq = 0 THEN 4 ELSE 2

CentralPayload ==
    IF central.length - central.sent < WriteSize - CentralHeader
    THEN central.length - central.sent ELSE WriteSize - CentralHeader

SendChunk ==
    /\ Free /\ central.state = "sending"
    /\ Write([control |-> FALSE, length |-> CentralHeader + CentralPayload, seq |-> central.seq,
              total |-> central.length, msg |-> central.id, from |-> central.sent],
             [central EXCEPT !.sent = @ + CentralPayload, !.seq = @ + 1,
                             !.state = IF central.sent + CentralPayload = central.length
                                       THEN "waiting" ELSE "sending"])
    /\ UNCHANGED answer

-----------------------------------------------------------------------------
Init ==
    /\ p = ZeroProfile /\ mgr = "RUNNING" /\ held = NULL
    /\ cmds = <<>> /\ evts = <<>>
    /\ central = NoCentral /\ answer = NoAnswer

(***************************************************************************)
(* During a transfer the application stores a block and gives its status   *)
(* before it asks for the next event.                                      *)
(***************************************************************************)
Device ==
    /\ p.transfer => held = NULL
    /\ \/ Connected \/ Disconnected \/ EncryptionChanged \/ VendorEvent \/ Completed

(***************************************************************************)
(* During a transfer the application only answers two-byte statuses.       *)
(***************************************************************************)
Answering ==
    \E n \in AnswerLengths, resp \in {"OK", "KO"} :
        /\ IF p.transfer THEN n = 2 ELSE resp = "OK"
        /\ AppAnswer(n, resp)

Next ==
    \/ Device
    \/ Answering
    \/ \E on \in BOOLEAN : setting(on)
    \/ Controller
    \/ \E mode \in Modes, long \in BOOLEAN : Connect(mode, long)
    \/ Drop
    \/ Encrypt
    \/ \E on \in BOOLEAN : Register(on)
    \/ AskMtu
    \/ \E n \in Lengths : Request(n)
    \/ SendChunk

Spec == Init /\ [][Next]_vars

(***************************************************************************)
(* The event loop handles every event, the controller every command, the   *)
(* application answers what it holds and the central goes on with a        *)
(* request it has started.  The first three are weak fairness with the     *)
(* guard of the action written out: a queue that stays non-empty is read.  *)
(***************************************************************************)
FairSpec ==
    /\ Spec
    /\ []<>(evts = <<>> \/ (p.transfer /\ held # NULL)) \/ []<><<evts' = Tail(evts)>>_evts
    /\ []<>(cmds = <<>>) \/ []<><<cmds' = Tail(cmds)>>_cmds
    /\ []<>(held = NULL) \/ []<><<held' = NULL>>_held
    /\ WF_vars(SendChunk)

-----------------------------------------------------------------------------
(***************************************************************************)
(* On a link that was opened with the device at rest, what data_ready      *)
(* hands to the application is the request of the central, byte for byte,  *)
(* however writes, acknowledgements and MTU changes interleave.            *)
(***************************************************************************)
ExactDelivery ==
    central.clean /\ held # NULL /\ held.id = central.id =>
        held.bytes = [i \in 0 .. central.length - 1 |-> <<central.id, i>>]

(***************************************************************************)
(* On such a link every notification continues the answer in progress: no  *)
(* chunk is lost, repeated, overwritten in the shared command buffer or    *)
(* wiped by LEDGER_PROTOCOL_rx before notify_chunk sends it.               *)
(***************************************************************************)
AnswerIntact == central.clean => answer.intact

(***************************************************************************)
(* A request gets at most one answer.                                      *)
(***************************************************************************)
OneAnswer == central.clean => central.answers <= 1

(***************************************************************************)
(* An exchange over the profile is exact both ways and answered once       *)
(* (ble_ledger_profile_apdu.c).                                            *)
(***************************************************************************)
ExchangeExact == ExactDelivery /\ AnswerIntact /\ OneAnswer

(***************************************************************************)
(* On such a link, and while it holds, every request is answered in full,  *)
(* in the transfer mode too.                                               *)
(***************************************************************************)
RequestAnswered ==
    central.clean /\ central.state = "sending" ~>
        \/ ~central.on \/ ~central.registered
        \/ central.state = "idle" /\ answer.got = answer.total
           /\ answer.msg \in {AnswerTo(central.id), StatusMsg("OK"), StatusMsg("KO")}

(***************************************************************************)
(* Every write request gets its response, or the central would have to     *)
(* give the link up after its transaction timeout.                         *)
(***************************************************************************)
WriteAnswered == central.clean /\ central.unacked ~> ~central.unacked \/ ~central.on

=============================================================================
