-------------------------------- MODULE AppIo --------------------------------
(***************************************************************************)
(* How an application sends and receives: os_io_rx_evt and os_io_tx_cmd of *)
(* io/src/os_io.c, the legacy layer of io_legacy/src/os_io_legacy.c and    *)
(* the loop of lib_standard_app/io.c, above transports that are modelled   *)
(* by themselves elsewhere.                                                *)
(*                                                                         *)
(* The secure element and the MCU take turns: a general status gives the   *)
(* turn to the MCU, an event gives it back, and a command sent out of turn *)
(* is refused.  Events of the operating system (ITC) need no turn.  The    *)
(* calls in progress are the frames of app.stack, innermost first.  A      *)
(* definition named Op_Slip is Op with a plausible mistake in it; no       *)
(* specification uses it.                                                  *)
(***************************************************************************)
EXTENDS Integers, Sequences, FiniteSets

CONSTANTS
    Transports, \* what hosts use: USB, BLE, NFC
    Acked,      \* those that report every packet the host has read: USB, BLE
    MaxChunks,  \* packets in the longest answer
    WaitMax,    \* rounds of the wait of os_io_tx_cmd (5)
    Scenarios,  \* what a behaviour may do, and how often
    NULL        \* APDU_TYPE_NONE, and nothing

(***************************************************************************)
(* The fields of a scenario: exclusive, hosts wait for each other; kinds,  *)
(* the requests they send; swap, the application is called by another one  *)
(* and ends with its answer; and bounds on requests, ITC events, button    *)
(* pushes and changes of the lock.  Tickers come all the time.             *)
(***************************************************************************)
ASSUME AppSizes ==
    /\ Acked \subseteq Transports /\ {MaxChunks, WaitMax} \subseteq Nat \ {0}
    /\ \A s \in Scenarios :
          /\ s.kinds \subseteq {"app", "version", "exit"}
          /\ {s.exclusive, s.swap} \subseteq BOOLEAN
          /\ {s.requests, s.itcs, s.buttons, s.locks} \subseteq Nat

VARIABLES
    app,    \* the application and its side of the link
    mcu,    \* the MCU: whose turn it is, its events, the packets it holds
    host,   \* host[t]: the exchange of the host on transport t
    budget  \* the scenario, with what is left of its bounds

vars == <<app, mcu, host, budget>>

Frame(call) == [call |-> call, t |-> NULL, req |-> 0, n |-> 0]

Init ==
    /\ app = [stack |-> <<Frame("loop")>>, at |-> "run", todo |-> <<>>, cached |-> NULL,
              type |-> NULL, tx |-> [t \in Transports |-> <<>>],
              busy |-> [t \in Transports |-> FALSE],
              pending |-> 0, locked |-> FALSE, hurried |-> FALSE]
    /\ mcu = [turn |-> "SE", events |-> <<>>, ep |-> [t \in Transports |-> NULL]]
    /\ host = [t \in Transports |-> [state |-> "idle", req |-> 0, got |-> 0, ok |-> TRUE]]
    /\ budget \in Scenarios

-----------------------------------------------------------------------------
(***************************************************************************)
(* An answer of n packets on transport t.  On a transport that reports     *)
(* what was read, the first packet is sent and the others follow one by    *)
(* one; os_io_tx_cmd then waits while the transport is busy.  NFC sends    *)
(* all at once.  Type NONE sends nothing.                                  *)
(***************************************************************************)
Packets(t, req, n) == [i \in 1 .. n |-> [t |-> t, req |-> req, i |-> i, last |-> i = n]]

os_io_tx_cmd_NoWait(a, t, req, n) ==
    IF t = NULL THEN a
    ELSE LET p == Packets(t, req, n)
         IN IF t \notin Acked THEN [a EXCEPT !.todo = p]
            ELSE [a EXCEPT !.todo = <<p[1]>>, !.tx[t] = Tail(p), !.busy[t] = TRUE]

os_io_tx_cmd(a, t, req, n) ==
    IF t = NULL THEN a
    ELSE LET p == Packets(t, req, n)
         IN IF t \notin Acked THEN [a EXCEPT !.todo = p]
            ELSE [a EXCEPT !.todo = <<p[1]>>, !.tx[t] = Tail(p), !.busy[t] = TRUE,
                           !.stack = <<[Frame("wait") EXCEPT !.t = t]>> \o @]

io_legacy_apdu_tx_TypeKept(a, req, n) == os_io_tx_cmd(a, a.type, req, n)

io_legacy_apdu_tx(a, req, n) == [os_io_tx_cmd(a, a.type, req, n) EXCEPT !.type = NULL]

(***************************************************************************)
(* Answer with what the legacy layer gives itself, and leave afterwards.   *)
(***************************************************************************)
Leaving(a, req) == [a EXCEPT !.stack = <<[Frame("exit") EXCEPT !.req = req]>> \o @]

(***************************************************************************)
(* io_send_response_buffers: called by another application, the answer     *)
(* ends this one.                                                          *)
(***************************************************************************)
io_send_response(a, req, n) ==
    io_legacy_apdu_tx(IF budget.swap THEN Leaving(a, req) ELSE a, req, n)

(***************************************************************************)
(* What the application does with a request: answer at once, after a       *)
(* heartbeat in a long computation, or once the user has confirmed.  A     *)
(* request that comes while another one waits for the user is refused at   *)
(* once or takes its place.                                                *)
(***************************************************************************)
Answering(req, n) == [Frame("answer") EXCEPT !.req = req, !.n = n]

Handled(a, req, n) ==
    {io_send_response(a, req, n),
     [a EXCEPT !.pending = req],
     [a EXCEPT !.pending = 0, !.stack = <<Frame("heartbeat"), Answering(req, n)>> \o @]}

(***************************************************************************)
(* io_legacy_apdu_rx, with what follows: the states it may lead to.  A     *)
(* locked device and the default requests are answered here.               *)
(***************************************************************************)
Refused(a, e) == [os_io_tx_cmd(a, a.type, e.req, 1) EXCEPT !.type = NULL]

Default(a, e, n) ==
    [os_io_tx_cmd(IF e.kind = "exit" THEN Leaving(a, e.req) ELSE a, a.type, e.req, n) EXCEPT !.type = NULL]

io_legacy_apdu_rx(a, e, n) ==
    LET b == [a EXCEPT !.type = e.t]
    IN CASE e.what = "apdu" -> IF a.locked THEN {Refused(b, e)}
                               ELSE IF e.kind = "app" THEN Handled(b, e.req, n)
                               ELSE {Default(b, e, n)}
         [] e.what = "button" /\ a.pending # 0 ->
                {io_send_response([a EXCEPT !.pending = 0], a.pending, n)}
         [] OTHER -> {a}

(***************************************************************************)
(* io_seproxyhal_io_heartbeat refuses the requests it meets.               *)
(***************************************************************************)
heartbeat(a, e) ==
    LET b == [a EXCEPT !.stack = Tail(@)]
    IN IF e.what = "apdu" THEN os_io_tx_cmd(b, e.t, e.req, 1) ELSE b

-----------------------------------------------------------------------------
(***************************************************************************)
(* os_io_rx_evt once it has an event: the transports handle theirs, an ITC *)
(* event may make the Bluetooth manager send a command, and the rest is    *)
(* for the caller.  The wait of os_io_tx_cmd looks at nothing it receives. *)
(***************************************************************************)
Transported_NextForgotten(a, e) ==
    IF e.what = "read" /\ a.tx[e.t] = <<>> THEN [a EXCEPT !.busy[e.t] = FALSE] ELSE a

Transported(a, e) ==
    CASE e.what = "read" /\ a.tx[e.t] # <<>> ->
            [a EXCEPT !.todo = <<Head(a.tx[e.t])>>, !.tx[e.t] = Tail(@)]
      [] e.what = "read" /\ a.tx[e.t] = <<>> -> [a EXCEPT !.busy[e.t] = FALSE]
      [] e.what = "itc" /\ e.kind = "command" ->
            [a EXCEPT !.todo = <<[t |-> NULL, req |-> 0, i |-> 1, last |-> TRUE]>>]
      [] OTHER -> a

Caller == Head(app.stack)

Received(a, e) ==
    /\ LET b == Transported([a EXCEPT !.at = "run"], e)
       IN CASE Caller.call = "loop"      -> \E n \in 1 .. MaxChunks : app' \in io_legacy_apdu_rx(b, e, n)
            [] Caller.call = "heartbeat" -> app' = heartbeat(b, e)
            [] Caller.call = "wait"      -> app' = b

(***************************************************************************)
(* os_io_rx_evt: a cached event comes first; out of turn, a general status *)
(* gives the turn to the MCU and the call blocks.                          *)
(***************************************************************************)
os_io_rx_evt_CacheIgnored(a) ==
    /\ app' = [a EXCEPT !.at = "rx"] /\ mcu' = [mcu EXCEPT !.turn = "MCU"]

os_io_rx_evt(a) ==
    IF a.cached # NULL
    THEN Received([a EXCEPT !.cached = NULL], a.cached) /\ UNCHANGED mcu
    ELSE app' = [a EXCEPT !.at = "rx"] /\ mcu' = [mcu EXCEPT !.turn = "MCU"]

Running == app.at = "run" /\ app.todo = <<>>

Receive ==
    /\ Running /\ Caller.call \in {"loop", "heartbeat"}
    /\ os_io_rx_evt(app)
    /\ UNCHANGED <<host, budget>>

Wait ==
    /\ Running /\ Caller.call = "wait"
    /\ IF Caller.n < WaitMax /\ app.busy[Caller.t]
       THEN os_io_rx_evt([app EXCEPT !.stack[1].n = @ + 1])
       ELSE app' = [app EXCEPT !.stack = Tail(@), !.hurried = @ \/ app.busy[Caller.t]] /\ UNCHANGED mcu
    /\ UNCHANGED <<host, budget>>

AnswerNow ==
    /\ Running /\ Caller.call = "answer"
    /\ app' = io_send_response([app EXCEPT !.stack = Tail(@)], Caller.req, Caller.n)
    /\ UNCHANGED <<mcu, host, budget>>

(***************************************************************************)
(* os_io_stop and the end of the application.                              *)
(***************************************************************************)
Leave ==
    /\ Running /\ Caller.call = "exit"
    /\ app' = [app EXCEPT !.at = "gone"]
    /\ UNCHANGED <<mcu, host, budget>>

(***************************************************************************)
(* os_io_tx_cmd with OS_IO_PACKET_TYPE_SEPH: a command sent out of turn is *)
(* sent again once an event has come, which is cached.                     *)
(***************************************************************************)
Taken(x, p) ==
    [x EXCEPT !.ok = @ /\ x.state = "waiting" /\ p.req = x.req /\ p.i = x.got + 1,
              !.got = p.i, !.state = IF p.last THEN "idle" ELSE @]

SendCommand ==
    /\ app.at = "run" /\ app.todo # <<>>
    /\ LET p == Head(app.todo)
       IN IF mcu.turn = "MCU"
          THEN app' = [app EXCEPT !.at = "caching"] /\ UNCHANGED <<mcu, host>>
          ELSE /\ app' = [app EXCEPT !.todo = Tail(@)]
               /\ mcu' = IF p.t \in Acked THEN [mcu EXCEPT !.ep[p.t] = p] ELSE mcu
               /\ host' = IF p.t \in Transports \ Acked
                          THEN [host EXCEPT ![p.t] = Taken(@, p)] ELSE host
    /\ UNCHANGED budget

Cached(a, e) == [a EXCEPT !.at = "run", !.cached = e]

-----------------------------------------------------------------------------
(***************************************************************************)
(* The MCU gives its next event; the operating system gives an ITC event,  *)
(* which the wait for an event to cache does not take (OS_IO_FLAG_NO_ITC). *)
(***************************************************************************)
McuEvent ==
    /\ mcu.turn = "MCU" /\ mcu.events # <<>> /\ app.at \in {"rx", "caching"}
    /\ mcu' = [mcu EXCEPT !.turn = "SE", !.events = Tail(@)]
    /\ IF app.at = "rx" THEN Received(app, Head(mcu.events))
       ELSE app' = Cached(app, Head(mcu.events))
    /\ UNCHANGED <<host, budget>>

Spend(what) == budget[what] > 0 /\ budget' = [budget EXCEPT ![what] = @ - 1]

Event(what, t, req, kind) ==
    [what |-> what, t |-> t, req |-> req, kind |-> kind]

ItcEvent ==
    /\ app.at = "rx" /\ Spend("itcs")
    /\ \E kind \in {"command", "silent"} : Received(app, Event("itc", NULL, 0, kind))
    /\ UNCHANGED <<mcu, host>>

Posted(m, e) == [m EXCEPT !.events = Append(@, e)]

Ticker ==
    /\ mcu.events = <<>>
    /\ mcu' = Posted(mcu, Event("ticker", NULL, 0, NULL))
    /\ UNCHANGED <<app, host, budget>>

Button ==
    /\ Spend("buttons")
    /\ mcu' = Posted(mcu, Event("button", NULL, 0, NULL))
    /\ UNCHANGED <<app, host>>

Lock ==
    /\ Spend("locks")
    /\ app' = [app EXCEPT !.locked = ~@]
    /\ UNCHANGED <<mcu, host>>

HostAsks(t, kind) ==
    /\ host[t].state = "idle" /\ app.at # "gone" /\ Spend("requests")
    /\ budget.exclusive => \A u \in Transports : host[u].state = "idle"
    /\ host' = [host EXCEPT ![t] = [@ EXCEPT !.state = "waiting", !.req = budget.requests, !.got = 0]]
    /\ mcu' = Posted(mcu, Event("apdu", t, budget.requests, kind))
    /\ UNCHANGED app

HostReads(t) ==
    /\ mcu.ep[t] # NULL
    /\ host' = [host EXCEPT ![t] = Taken(@, mcu.ep[t])]
    /\ mcu' = Posted([mcu EXCEPT !.ep[t] = NULL], Event("read", t, 0, NULL))
    /\ UNCHANGED <<app, budget>>

Next ==
    \/ Receive
    \/ Wait
    \/ AnswerNow
    \/ Leave
    \/ SendCommand
    \/ McuEvent
    \/ ItcEvent
    \/ Ticker
    \/ Button
    \/ Lock
    \/ \E t \in Transports, kind \in budget.kinds : HostAsks(t, kind)
    \/ \E t \in Acked : HostReads(t)

Spec == Init /\ [][Next]_vars

(***************************************************************************)
(* The application runs, the MCU gives its events, a ticker among them     *)
(* every 100 ms, and hosts read the packets that are ready for them.       *)
(***************************************************************************)
Device == Receive \/ Wait \/ AnswerNow \/ Leave \/ SendCommand \/ McuEvent

FairSpec ==
    /\ Spec
    /\ WF_vars(Device)
    /\ WF_vars(Ticker)
    /\ \A t \in Acked : WF_vars(HostReads(t))

-----------------------------------------------------------------------------
(* Properties *)

(***************************************************************************)
(* No event of the MCU is lost or overtaken: while os_io_tx_cmd has an     *)
(* event cached, neither os_io_rx_evt nor a command sent out of turn waits *)
(* for another one, whatever ITC events came in between and however deep   *)
(* the calls are nested.                                                   *)
(***************************************************************************)
CacheFirst == app.cached # NULL => app.at \notin {"rx", "caching"} /\ mcu.turn = "SE"

(***************************************************************************)
(* Every packet a host gets is the next one of the answer to the request   *)
(* it waits for: no answer on another transport, none to a request already *)
(* answered, none that was not asked for, also when several hosts talk and *)
(* a request comes while another one waits for the user.                   *)
(***************************************************************************)
AnswerIsOwn == \A t \in Transports : host[t].ok

(***************************************************************************)
(* An application that leaves, after an exit request or the answer that    *)
(* ends a swap, does so when the host has the whole of that answer, unless *)
(* the wait of os_io_tx_cmd ran out of rounds.                             *)
(***************************************************************************)
ExitAnswered ==
    app.at = "gone" /\ ~app.hurried =>
        \A t \in Transports : host[t].req = Caller.req => host[t].state = "idle"

(***************************************************************************)
(* An application that serves several hosts through one link to the MCU    *)
(* keeps every event until it has handled it, every answer for the host    *)
(* that asked, and stays until a last answer has gone (os_io_tx_cmd,       *)
(* os_io_rx_evt, io_legacy_apdu_rx and io_legacy_apdu_tx, app_exit).       *)
(***************************************************************************)
AnswersKept == CacheFirst /\ AnswerIsOwn /\ ExitAnswered

(***************************************************************************)
(* Hosts that wait for each other are all answered, or a request waits for *)
(* the user, or the application has left.                                  *)
(***************************************************************************)
RequestAnswered ==
    \A t \in Transports :
        budget.exclusive /\ host[t].state = "waiting" ~>
            host[t].state = "idle" \/ app.pending # 0 \/ app.at = "gone"
=============================================================================
