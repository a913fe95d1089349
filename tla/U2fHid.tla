------------------------------- MODULE U2fHid -------------------------------
(***************************************************************************)
(* U2F and CTAP2 over USB HID: the packet layer of                         *)
(* lib_u2f/src/u2f_transport.c and the class of                            *)
(* lib_stusb/src/usbd_ledger_hid_u2f.c, between clients that each own a    *)
(* channel and an application.  Events are handled one at a time: an OUT   *)
(* packet is processed, and data_ready called, before the next event.      *)
(*                                                                         *)
(* The bytes of a message are the spans <<request, from, n>> its packets   *)
(* carried.  A definition named Op_Slip is Op with a plausible mistake in  *)
(* it; no specification uses it.                                           *)
(***************************************************************************)
EXTENDS Integers, Sequences, FiniteSets

CONSTANTS
    Clients,       \* programs on the host
    PacketSize,    \* LEDGER_HID_U2F_EPIN_SIZE
    BufferSize,    \* rx_message_buffer_size
    MaxLength,     \* max_length: room in the buffer of the application
    WordModulus,   \* 2^16: rx_message_length is a uint16_t
    Version,       \* protocol_version of the settings
    Caps,          \* capabilities of the settings: subset of {"CBOR", "NMSG", "WINK"}
    Commands,      \* what clients send
    Lengths,       \* body lengths of requests
    Contents,      \* what tells two MSG bodies apart (message_crc)
    AnswerLengths, \* body lengths of the answers of the application
    MaxRequests,   \* bound on the number of requests and of stray packets
    StrayLengths,  \* lengths they announce
    Strays,        \* who sends packets: TRUE for programs that follow no protocol
    NULL

ASSUME U2fSizes ==
    /\ PacketSize \in Nat /\ PacketSize > 8
    /\ BufferSize \in Nat /\ BufferSize < WordModulus /\ BufferSize > 11
    /\ MaxLength \in Nat /\ WordModulus \in Nat /\ MaxRequests \in Nat
    /\ Caps \subseteq {"CBOR", "NMSG", "WINK"} /\ Version \in {1, 2}
    /\ Strays \subseteq BOOLEAN /\ Commands \subseteq {"MSG", "CBOR", "PING", "WINK"}
    /\ \A n \in Lengths : n + 3 <= BufferSize /\ n + 4 <= MaxLength
    \* seven bytes: data_ready looks at a byte of the output buffer, not modelled
    /\ 7 \notin Lengths

VARIABLES
    u,        \* the class handle, its transport and ledger_hid_free_cid
    ep,       \* the packet waiting in the IN endpoint, or NULL
    app,      \* what the application works on
    host,     \* host[c]: the exchange of client c
    requests, \* number of requests and stray packets sent
    stray     \* whether the packets of this behaviour are stray ones

vars == <<u, ep, app, host, requests, stray>>

FORBIDDEN == 0
BROADCAST == -1

InitRoom == PacketSize - 7
ContRoom == PacketSize - 5

Least(a, b) == IF a < b THEN a ELSE b

(***************************************************************************)
(* USBD_LEDGER_HID_U2F_init and U2F_TRANSPORT_init.  tx is the message     *)
(* being sent, or NULL; backup the answer kept while presence is asked.    *)
(***************************************************************************)
ZeroTransport ==
    [state |-> "IDLE", cid |-> FORBIDDEN, tx_cid |-> FORBIDDEN, error |-> "SUCCESS",
     rx_cmd |-> NULL, rx_length |-> 0, rx_offset |-> 0, rx_seq |-> 0, rx_content |-> NULL,
     rx |-> <<>>, tx |-> NULL, tx_length |-> 0, tx_offset |-> 0, tx_seq |-> 0, packet |-> NULL]

ZeroHandle ==
    [t |-> ZeroTransport, state |-> "IDLE", message_crc |-> NULL,
     user_presence |-> "IDLE", backup |-> NULL, free_cid |-> 1]

-----------------------------------------------------------------------------
(***************************************************************************)
(* process_packet.  A packet k has a channel, a length in bytes, a command *)
(* ("CONT" for a continuation), the announced length or the sequence       *)
(* number, and the bytes of request k.req from k.from on.                  *)
(***************************************************************************)
Failed(t, e) == [t EXCEPT !.error = e]

Appended_Unclamped(t, k, room) ==
    LET off == t.rx_offset + room
    IN [t EXCEPT !.error = "SUCCESS",
                 !.rx = Append(@, <<k.req, k.from, room>>),
                 !.rx_offset = off,
                 !.state = IF off >= t.rx_length THEN "COMPLETE" ELSE @]

Appended(t, k, room) ==
    LET n   == Least(room, t.rx_length - t.rx_offset)
        off == t.rx_offset + n
    IN IF t.rx_length < t.rx_offset THEN Failed(t, "OTHER")
       ELSE [t EXCEPT !.error = "SUCCESS",
                      !.rx = IF n = 0 THEN @ ELSE Append(@, <<k.req, k.from, n>>),
                      !.rx_offset = off,
                      !.state = IF off = t.rx_length THEN "COMPLETE" ELSE @]

Initialization(t, k) ==
    LET b == [t EXCEPT !.rx_length = (k.total + 3) % WordModulus]
    IN IF k.length < 7 THEN Failed(t, "OTHER")
       ELSE IF b.rx_length > BufferSize THEN Failed(b, "INVALID_LENGTH")
       ELSE IF b.rx_length <= 3 /\ k.cmd = "CBOR"
       THEN Failed([b EXCEPT !.rx_cmd = "CBOR"], "INVALID_CBOR")
       ELSE Appended([b EXCEPT !.state = "FRAMING", !.rx_offset = 3, !.rx_seq = 0, !.rx = <<>>,
                               !.rx_cmd = k.cmd, !.rx_content = k.content],
                     k, k.length - 7)

Continuation(t, k) ==
    IF t.state # "FRAMING" THEN Failed(t, "OTHER")
    ELSE IF k.seq # t.rx_seq THEN Failed(t, "INVALID_SEQ")
    ELSE Appended([t EXCEPT !.rx_seq = @ + 1], k, k.length - 5)

Framed(t, k) ==
    IF k.length < 5 THEN Failed(t, "OTHER")
    ELSE IF k.cmd = "CONT" THEN Continuation(t, k) ELSE Initialization(t, k)

(***************************************************************************)
(* The channel checks, in the order of the code.                           *)
(***************************************************************************)
process_packet(t, k) ==
    LET a == [t EXCEPT !.tx_cid = k.cid]
    IN IF k.length < 4 THEN Failed([t EXCEPT !.cid = BROADCAST], "OTHER")
       ELSE IF k.cid = FORBIDDEN THEN Failed(a, "INVALID_CHANNEL")
       ELSE IF k.cid = BROADCAST /\ k.length >= 5 /\ k.cmd # "INIT"
       THEN Failed([a EXCEPT !.cid = BROADCAST], "INVALID_CHANNEL")
       ELSE IF t.cid # FORBIDDEN /\ t.cid # k.cid THEN Failed(a, "CHANNEL_BUSY")
       ELSE IF t.state \in {"COMPLETE", "PROCESSING"} /\ k.length >= 5 /\ k.cmd # "CANCEL"
       THEN Failed(a, "CHANNEL_BUSY")
       ELSE Framed([a EXCEPT !.cid = IF @ = FORBIDDEN THEN k.cid ELSE @], k)

U2F_TRANSPORT_rx(t, k) == IF k.length < 3 THEN t ELSE process_packet(t, k)

(***************************************************************************)
(* U2F_TRANSPORT_tx: a message starts a transfer, NULL continues it.  The  *)
(* packet is left in the packet buffer.  The last packet releases the      *)
(* channel.                                                                *)
(***************************************************************************)
Loaded(t, m, n) ==
    IF m = NULL THEN t
    ELSE [t EXCEPT !.tx = m, !.tx_length = n, !.tx_seq = 0, !.tx_offset = 0]

U2F_TRANSPORT_tx_SeqStuck(t, m, n) ==
    LET l    == Loaded(t, m, n)
        room == IF m = NULL THEN ContRoom ELSE InitRoom
        left == l.tx_length - l.tx_offset
        sent == Least(room, left)
        pkt  == [cid |-> l.tx_cid, first |-> m # NULL, total |-> l.tx_length,
                 seq |-> l.tx_seq, msg |-> l.tx, from |-> l.tx_offset, n |-> sent]
    IN IF m = NULL /\ t.tx = NULL THEN t
       ELSE [l EXCEPT !.packet = pkt,
                      !.tx_offset = @ + sent,
                      !.tx = IF left <= room THEN NULL ELSE @,
                      !.cid = IF left <= room THEN FORBIDDEN ELSE @]

U2F_TRANSPORT_tx(t, m, n) ==
    LET l    == Loaded(t, m, n)
        room == IF m = NULL THEN ContRoom ELSE InitRoom
        left == l.tx_length - l.tx_offset
        sent == Least(room, left)
        pkt  == [cid |-> l.tx_cid, first |-> m # NULL, total |-> l.tx_length,
                 seq |-> l.tx_seq, msg |-> l.tx, from |-> l.tx_offset, n |-> sent]
    IN IF m = NULL /\ t.tx = NULL THEN t
       ELSE [l EXCEPT !.packet = pkt,
                      !.tx_offset = @ + sent,
                      !.tx_seq = IF m = NULL THEN @ + 1 ELSE @,
                      !.tx = IF left <= room THEN NULL ELSE @,
                      !.cid = IF left <= room THEN FORBIDDEN ELSE @]

-----------------------------------------------------------------------------
(***************************************************************************)
(* The class.  An operation returns the handle, the packet given to        *)
(* USBD_LL_Transmit (or NULL) and what goes up to the application.  A      *)
(* message has a kind, the request it is made for and a length.            *)
(***************************************************************************)
Step(v) == [u |-> v, out |-> NULL, up |-> NULL]

Transmitted(v, m) ==
    LET t == U2F_TRANSPORT_tx(v.t, m, m.n)
    IN IF v.state = "IDLE"
       THEN [u   |-> [v EXCEPT !.t = t, !.state = IF t.tx # NULL THEN "BUSY" ELSE @],
             out |-> t.packet, up |-> NULL]
       ELSE Step([v EXCEPT !.t = t])

(***************************************************************************)
(* send_message for an APDU answer: "ask" is the status 0xFFFF, by which   *)
(* the application says that it waits for the user, "status" is            *)
(* SWO_CONDITIONS_NOT_SATISFIED.                                           *)
(***************************************************************************)
send_apdu_PresenceForgotten(v, m) ==
    IF m.what = "ask" THEN Transmitted([v EXCEPT !.user_presence = "ASKING"], [m EXCEPT !.what = "status"])
    ELSE Transmitted(v, m)

send_apdu(v, m) ==
    IF m.what = "ask"
    THEN Transmitted([v EXCEPT !.user_presence = "ASKING"], [m EXCEPT !.what = "status"])
    ELSE IF v.user_presence = "ASKING" /\ m.what # "status"
    THEN Step([v EXCEPT !.user_presence = "CONFIRMED", !.backup = m])
    ELSE Transmitted(v, m)

Message(what, req, n) == [what |-> what, req |-> req, n |-> n, cid |-> FORBIDDEN]

Error(v, k) == Transmitted(v, Message("error", k.req, 1))

(***************************************************************************)
(* A complete message goes up unless it is longer than the buffer of the   *)
(* application, which is answered, or leaves no room for its type byte,    *)
(* which is not.                                                           *)
(***************************************************************************)
TooLong(v) == MaxLength < v.t.rx_length - 2

GoesUp(v, k, state) ==
    [u |-> [v EXCEPT !.t.state = state], out |-> NULL,
     up |-> [cmd |-> v.t.rx_cmd, req |-> k.req, content |-> v.t.rx_content, bytes |-> v.t.rx]]

HandedUp(v, k) ==
    IF TooLong(v) THEN Error(v, k)
    ELSE IF v.t.rx_length + 1 > MaxLength THEN Step(v) ELSE GoesUp(v, k, "PROCESSING")

(***************************************************************************)
(* U2F_COMMAND_MSG: while the user is asked, and once they have confirmed, *)
(* the class answers the repeated request itself.  message_crc stands for  *)
(* the content of the request.  APDU_MIN_HEADER is 7.                      *)
(***************************************************************************)
WrongLength(n) == n < 7 \/ n = 9

Msg(v, k) ==
    LET same == v.message_crc = v.t.rx_content
    IN IF Version >= 2 /\ "NMSG" \in Caps THEN Error(v, k)
       ELSE IF WrongLength(v.t.rx_length) THEN send_apdu(v, Message("length", k.req, 2))
       ELSE IF v.user_presence = "ASKING"
       THEN IF same THEN send_apdu(v, Message("status", k.req, 2)) ELSE Error(v, k)
       ELSE IF v.user_presence = "CONFIRMED"
       THEN LET r == IF same THEN Transmitted(v, v.backup) ELSE Step(v)
            IN [r EXCEPT !.u.user_presence = "IDLE"]
       ELSE IF TooLong(v) THEN send_apdu(v, Message("error", k.req, 2))
       ELSE IF v.t.rx_length + 1 > MaxLength THEN Step(v)
       ELSE GoesUp([v EXCEPT !.message_crc = v.t.rx_content], k, "PROCESSING")


InitAnswer(v, k) ==
    IF v.t.rx_length # 11 THEN Error(v, k)
    ELSE IF v.t.cid = BROADCAST
    THEN Transmitted([v EXCEPT !.free_cid = @ + 1],
                     [Message("init", k.req, 17) EXCEPT !.cid = v.free_cid])
    ELSE Transmitted(v, [Message("init", k.req, 17) EXCEPT !.cid = v.t.cid])

Cancel(v, k) ==
    LET r == IF Version < 2 THEN Error(v, k)
             ELSE IF TooLong(v) THEN Step(v)
             ELSE GoesUp(v, k, "PROCESSING_CANCEL")
    IN [r EXCEPT !.u.t.cid = FORBIDDEN]

Command(v, k) ==
    CASE v.t.rx_cmd = "INIT"   -> InitAnswer(v, k)
      [] v.t.rx_cmd = "MSG"    -> Msg(v, k)
      [] v.t.rx_cmd = "CBOR"   -> IF "CBOR" \in Caps THEN HandedUp(v, k) ELSE Error(v, k)
      [] v.t.rx_cmd = "CANCEL" -> Cancel(v, k)
      [] v.t.rx_cmd = "PING"   -> Transmitted(v, Message("ping", k.req, v.t.rx_length - 3))
      [] v.t.rx_cmd = "WINK"   -> IF "WINK" \in Caps THEN Step(v) ELSE Error(v, k)
      [] OTHER -> Error(v, k)

data_ready(v, k) ==
    LET cleared == [v EXCEPT !.t.error = "SUCCESS"]
    IN IF v.t.error = "OTHER" THEN Step(cleared)
       ELSE IF v.t.error # "SUCCESS" THEN Error(cleared, k)
       ELSE IF v.t.state # "COMPLETE" THEN Step(v)
       ELSE Command([v EXCEPT !.t.state = "IDLE"], k)

data_out(v, k) == data_ready([v EXCEPT !.t = U2F_TRANSPORT_rx(v.t, k)], k)

(***************************************************************************)
(* data_in: the next packet, or the end of the message.                    *)
(***************************************************************************)
data_in_ProcessingKept(v) ==
    LET t == U2F_TRANSPORT_tx(v.t, NULL, 0)
    IN [u   |-> [v EXCEPT !.t = t, !.state = IF t.tx = NULL THEN "IDLE" ELSE "BUSY"],
        out |-> IF v.t.tx = NULL THEN NULL ELSE t.packet, up |-> NULL]

data_in_BusyKept(v) ==
    LET t == U2F_TRANSPORT_tx(v.t, NULL, 0)
    IN [u   |-> [v EXCEPT !.t = [t EXCEPT !.state = IF t.tx = NULL THEN "IDLE" ELSE @]],
        out |-> IF v.t.tx = NULL THEN NULL ELSE t.packet, up |-> NULL]

data_in(v) ==
    LET t == U2F_TRANSPORT_tx(v.t, NULL, 0)
        ended == [t EXCEPT !.state = IF @ \in {"PROCESSING", "PROCESSING_CANCEL"} THEN "IDLE" ELSE @]
    IN [u   |-> IF t.tx = NULL THEN [v EXCEPT !.t = ended, !.state = "IDLE"]
                ELSE [v EXCEPT !.t = t, !.state = "BUSY"],
        out |-> IF v.t.tx = NULL THEN NULL ELSE t.packet, up |-> NULL]

-----------------------------------------------------------------------------
(***************************************************************************)
(* The application.  It holds one request; an MSG request may first be     *)
(* answered with "ask", then the user confirms and it gives the answer.    *)
(* spoke: such a message has been sent, at most one in the model.          *)
(***************************************************************************)
NoWork == [req |-> 0, cmd |-> NULL, bytes |-> <<>>, spoke |-> FALSE]

Taken(r) ==
    IF r.up = NULL \/ r.up.cmd = "CANCEL" THEN app
    ELSE [req |-> r.up.req, cmd |-> r.up.cmd, bytes |-> r.up.bytes, spoke |-> FALSE]

Effect(r) ==
    /\ u' = r.u
    /\ app' = Taken(r)
    /\ ep' = IF r.out # NULL THEN r.out ELSE ep

AppStep(v, a) ==
    /\ u' = v.u /\ app' = a
    /\ ep' = IF v.out # NULL THEN v.out ELSE ep
    /\ UNCHANGED <<host, requests, stray>>

AppAnswer(n) ==
    /\ app.req # 0
    /\ LET m == Message("answer", app.req, n)
       IN AppStep(IF app.cmd = "MSG" THEN send_apdu(u, m) ELSE Transmitted(u, m), NoWork)

AppAsks ==
    /\ app.req # 0 /\ app.cmd = "MSG" /\ ~app.spoke
    /\ AppStep(send_apdu(u, Message("ask", app.req, 2)), [app EXCEPT !.spoke = TRUE])

(***************************************************************************)
(* OS_IO_PACKET_TYPE_USB_U2F_HID_RAW: a keep-alive during a CBOR request.  *)
(***************************************************************************)
AppKeepAlive ==
    /\ app.req # 0 /\ app.cmd = "CBOR" /\ ~app.spoke
    /\ AppStep(Transmitted(u, Message("keepalive", app.req, 1)), [app EXCEPT !.spoke = TRUE])

-----------------------------------------------------------------------------
(***************************************************************************)
(* The clients.  A platform lets one of them run an exchange at a time,    *)
(* from the first packet to the answer, the repetitions that wait for the  *)
(* user included.                                                          *)
(***************************************************************************)
NoReply == [msg |-> NULL, total |-> 0, got |-> 0, seq |-> 0, ok |-> TRUE]

NoExchange ==
    [cid |-> FORBIDDEN, state |-> "idle", cmd |-> NULL, content |-> NULL, n |-> 0,
     sent |-> 0, seq |-> 0, req |-> 0, cancelled |-> FALSE, reply |-> NoReply]

Alone(c) == \A d \in Clients \ {c} : host[d].state = "idle"

Packet(cid, cmd, total, seq, req, from, content) ==
    [cid |-> cid, length |-> PacketSize, cmd |-> cmd, total |-> total, seq |-> seq,
     req |-> req, from |-> from, content |-> content]

Begin(c, cmd, content, n) ==
    /\ ~stray /\ requests < MaxRequests
    /\ requests' = requests + 1
    /\ host' = [host EXCEPT ![c] = [NoExchange EXCEPT
                    !.cid = host[c].cid, !.state = "sending", !.cmd = cmd,
                    !.content = content, !.n = n, !.req = requests + 1]]
    /\ UNCHANGED <<u, ep, app, stray>>

OpenChannel(c) ==
    /\ host[c].state = "idle" /\ host[c].cid = FORBIDDEN /\ Alone(c)
    /\ Begin(c, "INIT", NULL, 8)

StartRequest(c) ==
    /\ host[c].state = "idle" /\ host[c].cid # FORBIDDEN /\ Alone(c)
    /\ \E cmd \in Commands, content \in Contents, n \in Lengths : Begin(c, cmd, content, n)

Repeat(c) ==
    /\ host[c].state = "polling"
    /\ host' = [host EXCEPT ![c].state = "sending", ![c].sent = 0, ![c].seq = 0,
                            ![c].reply = NoReply]
    /\ UNCHANGED <<u, ep, app, requests, stray>>

SendPacket(c) ==
    LET x    == host[c]
        first == x.seq = 0
        room == IF first THEN InitRoom ELSE ContRoom
        n    == Least(room, x.n - x.sent)
        cid  == IF x.cmd = "INIT" THEN BROADCAST ELSE x.cid
    IN /\ x.state = "sending"
       /\ Effect(data_out(u, Packet(cid, IF first THEN x.cmd ELSE "CONT", x.n, x.seq - 1, x.req, x.sent, x.content)))
       /\ host' = [host EXCEPT ![c].sent = @ + n, ![c].seq = @ + 1,
                               ![c].state = IF x.sent + n = x.n THEN "waiting" ELSE @]
       /\ UNCHANGED <<requests, stray>>

SendCancel(c) ==
    /\ host[c].state = "waiting" /\ host[c].cmd = "CBOR" /\ ~host[c].cancelled
    /\ Effect(data_out(u, Packet(host[c].cid, "CANCEL", 0, 0, host[c].req, 0, NULL)))
    /\ host' = [host EXCEPT ![c].cancelled = TRUE]
    /\ UNCHANGED <<requests, stray>>

(***************************************************************************)
(* The host reads the IN endpoint; the client the packet is for adds it to *)
(* its reply.                                                              *)
(***************************************************************************)
Concerned(c, k) ==
    IF k.cid = BROADCAST
    THEN host[c].state = "waiting" /\ host[c].cmd = "INIT" /\ k.msg.req = host[c].req
    ELSE host[c].cid # FORBIDDEN /\ k.cid = host[c].cid

Joined(a, k) ==
    IF k.first
    THEN [msg |-> k.msg, total |-> k.total, got |-> k.n, seq |-> 0, ok |-> k.from = 0]
    ELSE [a EXCEPT !.got = @ + k.n, !.seq = @ + 1,
                   !.ok = @ /\ k.msg = a.msg /\ k.from = a.got /\ k.seq = a.seq]

Replied(x, k) ==
    LET a == Joined(x.reply, k)
        y == [x EXCEPT !.reply = a]
    IN IF a.got # a.total \/ k.msg.what = "keepalive" THEN y
       ELSE [y EXCEPT !.state = IF k.msg.what = "status" THEN "polling" ELSE "idle",
                      !.cid = IF k.msg.what = "init" THEN k.msg.cid ELSE @]

HostRead ==
    /\ ep # NULL
    /\ LET r == data_in(u)
       IN u' = r.u /\ ep' = r.out
    /\ host' = [c \in Clients |-> IF Concerned(c, ep) THEN Replied(host[c], ep) ELSE host[c]]
    /\ UNCHANGED <<app, requests, stray>>

(***************************************************************************)
(* Packets of programs that follow no protocol: any channel, short reports,*)
(* lengths at the limits of the buffer, any order.  At most StrayChannels  *)
(* channels are opened this way.                                           *)
(***************************************************************************)
StrayChannels == 1

StrayPackets ==
    [cid : {FORBIDDEN, BROADCAST, 1}, length : {6, PacketSize},
     cmd : {"INIT", "MSG", "CBOR", "CANCEL", "PING"},
     total : StrayLengths,
     seq : {0}, req : {MaxRequests + 1}, from : {0}, content : {1}]
    \union
    [cid : {1}, length : {PacketSize}, cmd : {"CONT"}, total : {0},
     seq : {0, 1}, req : {MaxRequests + 1}, from : {0}, content : {1}]

(***************************************************************************)
(* A program that follows no protocol, and a USB reset, which starts the   *)
(* class again under the application.                                      *)
(***************************************************************************)
StrayPacket ==
    /\ stray
    /\ \E k \in StrayPackets :
           /\ k.cmd = "INIT" => u.free_cid <= StrayChannels
           /\ Effect(data_out(u, k))
    /\ requests < MaxRequests /\ requests' = requests + 1
    /\ UNCHANGED <<host, stray>>

UsbReset ==
    /\ stray
    /\ u' = [ZeroHandle EXCEPT !.free_cid = u.free_cid] /\ ep' = NULL
    /\ host' = [c \in Clients |-> [host[c] EXCEPT !.state = "idle"]]
    /\ UNCHANGED <<app, requests, stray>>

-----------------------------------------------------------------------------
Init ==
    /\ u = ZeroHandle /\ ep = NULL /\ app = NoWork
    /\ host = [c \in Clients |-> NoExchange]
    /\ requests = 0 /\ stray \in Strays

Next ==
    \/ \E c \in Clients : OpenChannel(c) \/ StartRequest(c) \/ Repeat(c)
    \/ \E c \in Clients : SendPacket(c)
    \/ \E c \in Clients : SendCancel(c)
    \/ HostRead
    \/ \E n \in AnswerLengths : AppAnswer(n)
    \/ AppAsks
    \/ AppKeepAlive
    \/ StrayPacket
    \/ UsbReset

Spec == Init /\ [][Next]_vars

(***************************************************************************)
(* Weak fairness with the guards written out: a client goes on with the    *)
(* packets of its request and repeats it while the user is asked, the host *)
(* reads the IN endpoint, and the application answers.                     *)
(***************************************************************************)
Waiting(states) == \E c \in Clients : host[c].state \in states

ClientMoves ==
    \E c \in Clients :
        host[c].state \in {"sending", "polling"} /\ host'[c].seq # host[c].seq

FairSpec ==
    /\ Spec
    /\ []<>~Waiting({"sending", "polling"}) \/ []<><<ClientMoves>>_host
    /\ []<>(ep = NULL) \/ []<><<HostRead>>_vars
    /\ []<>(app.req = 0) \/ []<><<app'.req = 0>>_app

-----------------------------------------------------------------------------
(***************************************************************************)
(* Whatever packets arrive, process_packet writes inside the receive       *)
(* buffer: the offset it writes up to never passes the buffer, also when   *)
(* the announced length plus three wraps around uint16_t.                  *)
(***************************************************************************)
RxInBounds == u.t.rx_offset <= BufferSize

(***************************************************************************)
(* The class is never busy forever: BUSY means that a packet waits in the  *)
(* IN endpoint, whose completion goes on with the message or ends it.      *)
(***************************************************************************)
BusyHasPacket == u.state = "BUSY" => ep # NULL

(***************************************************************************)
(* The transport does not refuse requests without reason: when it says     *)
(* that a request is in process, the application has it or its answer is   *)
(* still in the IN endpoint.                                               *)
(***************************************************************************)
ProcessingHasOwner == u.t.state = "PROCESSING" => app.req # 0 \/ ep # NULL

(***************************************************************************)
(* Neither the class nor the transport stays closed to the clients: what   *)
(* it waits for is on its way (usbd_ledger_hid_u2f.c, u2f_transport.c).    *)
(***************************************************************************)
NotWedged == BusyHasPacket /\ ProcessingHasOwner

(***************************************************************************)
(* What data_ready hands to the application is one whole request of one    *)
(* client: its packets in order and nothing else.                          *)
(***************************************************************************)
Spans(n) ==
    [i \in 1 .. Len(app.bytes) |->
        LET from == IF i = 1 THEN 0 ELSE InitRoom + (i - 2) * ContRoom
        IN <<app.req, from, Least(IF i = 1 THEN InitRoom ELSE ContRoom, n - from)>>]

ExactDelivery ==
    \A c \in Clients :
        app.req # 0 /\ host[c].req = app.req =>
            /\ app.bytes = Spans(host[c].n)
            /\ \/ Len(app.bytes) = 0 /\ host[c].n = 0
               \/ LET l == app.bytes[Len(app.bytes)] IN l[2] + l[3] = host[c].n

(***************************************************************************)
(* Every reply a client assembles was made for its own request, with all   *)
(* packets in order, and never grows past its announced length.            *)
(***************************************************************************)
ReplyIsOwn ==
    \A c \in Clients :
        LET a == host[c].reply
        IN a.msg # NULL => a.msg.req = host[c].req /\ a.ok /\ a.got <= a.total

(***************************************************************************)
(* Two clients never get the same channel, and none gets a reserved one.   *)
(***************************************************************************)
ChannelsDistinct ==
    \A c, d \in Clients :
        host[c].cid # FORBIDDEN =>
            host[c].cid # BROADCAST /\ (c # d => host[c].cid # host[d].cid)

(***************************************************************************)
(* Clients that share the device do not mix: each has its channel, the     *)
(* application gets whole requests of one of them, and each gets the reply *)
(* to its own (u2f_transport.c).                                           *)
(***************************************************************************)
ExchangeExact == ExactDelivery /\ ReplyIsOwn /\ ChannelsDistinct

(***************************************************************************)
(* Every exchange a client starts comes to its end: repeated requests that *)
(* wait for the user, keep-alives and a CANCEL on the way included.        *)
(***************************************************************************)
Answered ==
    \A c \in Clients : host[c].state = "sending" ~> host[c].state = "idle"
=============================================================================
