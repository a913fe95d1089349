------------------------------ MODULE UsbDevice ------------------------------
(***************************************************************************)
(* The USB device of lib_stusb: the device core (usbd_core.c), its         *)
(* standard requests (usbd_ctlreq.c, usbd_ioreq.c), the endpoints          *)
(* (usbd_conf.c), the set of classes (usbd_ledger.c) and, for every class, *)
(* the transfer state that HID and WebUSB share (usbd_ledger_hid.c).       *)
(*                                                                         *)
(* The controller is in the MCU: it holds the packet given for each IN     *)
(* endpoint and reports what the host did by events, which the device      *)
(* handles in order, one at a time.  A definition named Op_Slip is Op with *)
(* a plausible mistake in it; no specification uses it.                    *)
(***************************************************************************)
EXTENDS Integers, Sequences, FiniteSetsExt

CONSTANTS
    Scenarios,    \* what a behaviour may do, and how often
    EP0_SIZE,     \* USB_MAX_EP0_SIZE
    MaxChunks,    \* packets in the longest answer of an application
    NULL

(***************************************************************************)
(* The fields of a scenario: masks, the sets of classes an application may *)
(* ask for; descriptors, the lengths of the descriptors; wLengths, the     *)
(* lengths a host asks for; halts, whether it halts and resumes endpoints; *)
(* and bounds on the requests of the host beside enumeration, on its       *)
(* faults (bus resets, suspensions, given-up transfers), on the restarts   *)
(* and stops by the application and on the answers it sends.               *)
(***************************************************************************)
ASSUME UsbSizes ==
    /\ EP0_SIZE \in Nat \ {0} /\ MaxChunks \in Nat
    /\ \A s \in Scenarios :
          /\ s.masks # {} /\ s.halts \in BOOLEAN
          /\ s.descriptors \subseteq Nat \ {0} /\ s.wLengths \subseteq Nat
          /\ {s.requests, s.faults, s.restarts, s.sends} \subseteq Nat

VARIABLES
    d,      \* usbd_ledger_data, its usbd_handle and the stall masks
    cls,    \* cls[k]: the handle of class k
    hw,     \* the controller
    evts,   \* events on their way to the device
    host,   \* the host
    budget  \* the scenario, with what is left of its bounds

vars == <<d, cls, hw, evts, host, budget>>

Classes == UNION UNION {s.masks : s \in Scenarios}

EP0 == <<"ep0", "both">>
Ins(ks) == {<<k, "in">> : k \in ks}
Outs(ks) == {<<k, "out">> : k \in ks}
Endpoints(ks) == Ins(ks) \union Outs(ks)
AllEndpoints == Endpoints(Classes) \union {EP0}

Least(a, b) == IF a < b THEN a ELSE b

-----------------------------------------------------------------------------

OpenEP(s, ep) ==
    [s EXCEPT !.d.stall = {},
              !.hw.open = @ \union {ep}, !.hw.stalled = @ \ {ep},
              !.hw.armed = @ \ {ep}, !.hw.tx[ep] = NULL]

CloseEP(s, ep) ==
    [s EXCEPT !.hw.open = @ \ {ep}, !.hw.armed = @ \ {ep}, !.hw.tx[ep] = NULL]

StallEP(s, ep) == [s EXCEPT !.d.stall = @ \union {ep}, !.hw.stalled = @ \union {ep}]

ClearStallEP(s, ep) == [s EXCEPT !.d.stall = @ \ {ep}, !.hw.stalled = @ \ {ep}]

Transmit(s, ep, n) == IF ep \in s.hw.open THEN [s EXCEPT !.hw.tx[ep] = n] ELSE s

PrepareReceive(s, ep) == IF ep \in s.hw.open THEN [s EXCEPT !.hw.armed = @ \union {ep}] ELSE s

-----------------------------------------------------------------------------
(***************************************************************************)
(* usbd_ioreq.c: the control pipe.                                         *)
(***************************************************************************)
CtlSendData(s, len) ==
    Transmit([s EXCEPT !.d.ep0_state = "DATA_IN", !.d.total_length = len, !.d.rem_length = len],
             EP0, Least(len, EP0_SIZE))

CtlSendStatus(s) == Transmit([s EXCEPT !.d.ep0_state = "STATUS_IN"], EP0, 0)

CtlReceiveStatus(s) == PrepareReceive([s EXCEPT !.d.ep0_state = "STATUS_OUT"], EP0)

CtlError(s) == StallEP(s, EP0)

(***************************************************************************)
(* The classes.  USBD_LEDGER_HID_init clears the handle and receives; the  *)
(* class initialisation of usbd_ledger.c opens the endpoints before.       *)
(***************************************************************************)
ZeroClass == [state |-> "IDLE", left |-> 0]

HID_init(s, k) == PrepareReceive([s EXCEPT !.cls[k] = ZeroClass], <<k, "out">>)

init(s) ==
    LET opened(k, t) == HID_init(OpenEP(OpenEP(t, <<k, "in">>), <<k, "out">>), k)
    IN [FoldSet(opened, s, s.d.classes) EXCEPT
            !.d.class_data = TRUE, !.d.used = @ \union Endpoints(s.d.classes)]

de_init(s) ==
    LET closed(k, t) == CloseEP(CloseEP(t, <<k, "in">>), <<k, "out">>)
    IN [FoldSet(closed, s, s.d.classes) EXCEPT
            !.d.class_data = FALSE, !.d.used = @ \ Endpoints(s.d.classes)]

-----------------------------------------------------------------------------
(***************************************************************************)
(* usbd_ctlreq.c.  A request has a name, the length asked for and an       *)
(* argument: the length of a descriptor, a configuration or an endpoint.   *)
(***************************************************************************)
GetDescriptor(s, r) ==
    IF r.wLength = 0 THEN CtlSendStatus(s) ELSE CtlSendData(s, Least(r.arg, r.wLength))

SetAddress(s) ==
    IF s.d.dev_state = "CONFIGURED" THEN CtlError(s)
    ELSE [CtlSendStatus(s) EXCEPT !.d.dev_state = "ADDRESSED"]

SetConfig(s, cfg) ==
    IF s.d.dev_state = "ADDRESSED"
    THEN IF cfg = 0 THEN CtlSendStatus(s)
         ELSE [CtlSendStatus(init(s)) EXCEPT !.d.dev_state = "CONFIGURED", !.d.dev_config = cfg]
    ELSE IF s.d.dev_state = "CONFIGURED"
    THEN IF cfg # 0 THEN CtlSendStatus(s)
         ELSE CtlSendStatus(de_init([s EXCEPT !.d.dev_state = "ADDRESSED", !.d.dev_config = 0]))
    ELSE de_init(CtlError(s))

SetHalt(s, ep) ==
    IF s.d.dev_state = "ADDRESSED" THEN CtlError(StallEP(s, ep))
    ELSE IF s.d.dev_state = "CONFIGURED" THEN CtlSendStatus(StallEP(s, ep))
    ELSE CtlError(s)

ClearHalt(s, ep) ==
    IF s.d.dev_state = "ADDRESSED" THEN CtlError(StallEP(s, ep))
    ELSE IF s.d.dev_state = "CONFIGURED" THEN CtlSendStatus(ClearStallEP(s, ep))
    ELSE CtlError(s)

(***************************************************************************)
(* The status of an endpoint; the answer is recorded for the properties.   *)
(***************************************************************************)
GetHalt(s, ep) ==
    IF s.d.dev_state = "CONFIGURED" /\ ep \in s.d.used
    THEN CtlSendData([s EXCEPT !.d.status = ep \in s.d.stall], 2)
    ELSE CtlError(s)

SetupStage(s, r) ==
    LET t == [s EXCEPT !.d.ep0_state = "SETUP", !.d.ep0_data_len = r.wLength]
    IN CASE r.name = "GET_DESCRIPTOR"    -> GetDescriptor(t, r)
         [] r.name = "SET_ADDRESS"       -> SetAddress(t)
         [] r.name = "SET_CONFIGURATION" -> SetConfig(t, r.arg)
         [] r.name = "SET_HALT"          -> SetHalt(t, r.ep)
         [] r.name = "CLEAR_HALT"        -> ClearHalt(t, r.ep)
         [] r.name = "GET_STATUS"        -> GetHalt(t, r.ep)

-----------------------------------------------------------------------------
(***************************************************************************)
(* USBD_LL_DataInStage on the control pipe: the next packet, a last packet *)
(* of length zero when the host could not tell the end, or the status.     *)
(***************************************************************************)
Ep0DataIn_NoZlp(s) ==
    LET rem == s.d.rem_length
    IN IF s.d.ep0_state # "DATA_IN" THEN s
       ELSE IF rem > EP0_SIZE
       THEN PrepareReceive(Transmit([s EXCEPT !.d.rem_length = rem - EP0_SIZE],
                                    EP0, Least(rem - EP0_SIZE, EP0_SIZE)), EP0)
       ELSE CtlReceiveStatus(s)

Ep0DataIn_FullPacketEnds(s) ==
    LET rem == s.d.rem_length
    IN IF s.d.ep0_state # "DATA_IN" THEN s
       ELSE IF rem > EP0_SIZE
       THEN PrepareReceive(Transmit([s EXCEPT !.d.rem_length = rem - EP0_SIZE], EP0, EP0_SIZE), EP0)
       ELSE CtlReceiveStatus(s)

Ep0DataIn(s) ==
    LET rem == s.d.rem_length
    IN IF s.d.ep0_state # "DATA_IN" THEN s
       ELSE IF rem > EP0_SIZE
       THEN PrepareReceive(Transmit([s EXCEPT !.d.rem_length = rem - EP0_SIZE],
                                    EP0, Least(rem - EP0_SIZE, EP0_SIZE)), EP0)
       ELSE IF rem = EP0_SIZE /\ s.d.total_length >= EP0_SIZE /\ s.d.total_length < s.d.ep0_data_len
       THEN PrepareReceive(Transmit([s EXCEPT !.d.ep0_data_len = 0], EP0, 0), EP0)
       ELSE CtlReceiveStatus(s)


HID_data_in(s, k) ==
    LET t == IF s.cls[k].left > 0
             THEN Transmit([s EXCEPT !.cls[k].left = @ - 1, !.cls[k].state = "BUSY"], <<k, "in">>, 1)
             ELSE s
    IN IF t.cls[k].left = 0 THEN [t EXCEPT !.cls[k].state = "IDLE"] ELSE t

HID_data_out_NotRearmed(s, k) == s

HID_data_out(s, k) == PrepareReceive(s, <<k, "out">>)

HID_send_packet(s, k, chunks) ==
    LET t == [s EXCEPT !.cls[k].left = chunks - 1]
    IN IF s.d.dev_state = "CONFIGURED" /\ s.cls[k].state = "IDLE"
       THEN Transmit([t EXCEPT !.cls[k].state = "BUSY"], <<k, "in">>, 1)
       ELSE t

(***************************************************************************)
(* The events: USBD_LL_Reset, Suspend, Resume, and the stages of a         *)
(* transfer, which reach the classes only when the device is configured.   *)
(***************************************************************************)
Reset(s) ==
    LET t == [s EXCEPT !.d.dev_state = "DEFAULT", !.d.ep0_state = "IDLE", !.d.dev_config = 0]
    IN OpenEP(IF t.d.class_data THEN de_init(t) ELSE t, EP0)

Suspend(s) == [s EXCEPT !.d.dev_old_state = s.d.dev_state, !.d.dev_state = "SUSPENDED"]

Resume(s) ==
    IF s.d.dev_state = "SUSPENDED" THEN [s EXCEPT !.d.dev_state = s.d.dev_old_state] ELSE s

DataInStage(s, ep) ==
    IF ep = EP0 THEN Ep0DataIn(s)
    ELSE IF s.d.dev_state = "CONFIGURED" /\ ep[1] \in s.d.classes THEN HID_data_in(s, ep[1])
    ELSE s

DataOutStage(s, ep) ==
    IF ep # EP0 /\ s.d.dev_state = "CONFIGURED" /\ ep[1] \in s.d.classes
    THEN HID_data_out(s, ep[1])
    ELSE s

rx_seph_evt(s, e) ==
    IF s.d.state # "RUNNING" THEN s
    ELSE CASE e.type = "reset"   -> Reset(s)
           [] e.type = "suspend" -> Suspend(s)
           [] e.type = "resume"  -> Resume(s)
           [] e.type = "setup"   -> SetupStage(s, e.req)
           [] e.type = "in"      -> DataInStage(s, e.ep)
           [] e.type = "out"     -> DataOutStage(s, e.ep)

-----------------------------------------------------------------------------
(***************************************************************************)
(* usbd_ledger.c: init, start and stop.  The controller leaves and joins   *)
(* the bus.                                                                *)
(***************************************************************************)
ZeroHandle ==
    [state |-> "INITIALIZED", classes |-> {}, mask |-> {}, class_data |-> FALSE, used |-> {},
     dev_state |-> "ZERO", dev_old_state |-> "ZERO", dev_config |-> 0, ep0_state |-> "IDLE",
     ep0_data_len |-> 0, total_length |-> 0, rem_length |-> 0, stall |-> {}, status |-> FALSE]

OffBus == [attached |-> FALSE, open |-> {}, stalled |-> {}, armed |-> {},
           tx |-> [ep \in AllEndpoints |-> NULL]]

Disconnected(s) == [s EXCEPT !.hw = OffBus]

LEDGER_init(s, mask, force) ==
    IF force THEN [s EXCEPT !.d = [ZeroHandle EXCEPT !.mask = mask, !.stall = s.d.stall]]
    ELSE [s EXCEPT !.d.mask = mask]

LEDGER_start(s) ==
    LET fresh == s.d.state = "INITIALIZED" \/ s.d.classes # s.d.mask
        t     == IF s.d.state = "STOPPED" THEN s ELSE Disconnected(s)
        u     == IF fresh THEN [t EXCEPT !.d.state = "STOPPED", !.d.classes = s.d.mask,
                                         !.d.dev_state = "DEFAULT"]
                 ELSE s
    IN IF u.d.state = "STOPPED"
       THEN [u EXCEPT !.d.state = "RUNNING", !.hw.attached = TRUE]
       ELSE FoldSet(LAMBDA k, v : HID_init(v, k), u, u.d.classes)

LEDGER_stop(s) ==
    IF s.d.state = "RUNNING" THEN [Disconnected(s) EXCEPT !.d.state = "STOPPED"] ELSE s

-----------------------------------------------------------------------------
State == [d |-> d, cls |-> cls, hw |-> hw]

Become(s) == d' = s.d /\ cls' = s.cls /\ hw' = s.hw

Event(type, ep, req) == [type |-> type, ep |-> ep, req |-> req]

Spend(what) == budget[what] > 0 /\ budget' = [budget EXCEPT ![what] = @ - 1]

(***************************************************************************)
(* The host after its device has left the bus or was reset.                *)
(***************************************************************************)
Unconfigured == [config |-> 0, addressed |-> FALSE, suspended |-> FALSE, xfer |-> NULL]

Device ==
    /\ evts # <<>>
    /\ Become(rx_seph_evt(State, Head(evts)))
    /\ evts' = Tail(evts)
    /\ UNCHANGED <<host, budget>>

(***************************************************************************)
(* The application: os_io_init and os_io_start together, os_io_stop, and   *)
(* an answer on one of its classes.  It never starts the stack before it   *)
(* has initialised it.                                                     *)
(***************************************************************************)
Restart(mask, force) ==
    LET s == LEDGER_start(LEDGER_init(State, mask, force))
    IN /\ Spend("restarts")
       /\ Become(s)
       /\ host' = IF s.hw.open = {} THEN Unconfigured ELSE host
       /\ evts' = IF s.hw.open = {} THEN <<>> ELSE evts

Stop ==
    /\ d.state = "RUNNING" /\ Spend("restarts")
    /\ Become(LEDGER_stop(State))
    /\ host' = Unconfigured /\ evts' = <<>>

Send(k, n) ==
    /\ d.state = "RUNNING" /\ k \in d.classes /\ Spend("sends")
    /\ Become(HID_send_packet(State, k, n))
    /\ UNCHANGED <<evts, host>>

-----------------------------------------------------------------------------
(***************************************************************************)
(* The host and the bus.  A bus reset clears the controller.  A host gives *)
(* a request up only once the device has handled what it was sent.         *)
(***************************************************************************)
BusReset ==
    /\ hw.attached
    /\ hw.open = {} \/ Spend("faults")
    /\ hw.open = {} => UNCHANGED budget
    /\ Event("reset", NULL, NULL) \notin {evts[i] : i \in 1 .. Len(evts)}
    /\ hw' = [OffBus EXCEPT !.attached = TRUE]
    /\ evts' = Append(evts, Event("reset", NULL, NULL))
    /\ host' = Unconfigured
    /\ UNCHANGED <<d, cls>>

SuspendBus ==
    /\ hw.attached /\ EP0 \in hw.open /\ ~host.suspended /\ host.xfer = NULL /\ Spend("faults")
    /\ host' = [host EXCEPT !.suspended = TRUE]
    /\ evts' = Append(evts, Event("suspend", NULL, NULL))
    /\ UNCHANGED <<d, cls, hw>>

ResumeBus ==
    /\ host.suspended
    /\ host' = [host EXCEPT !.suspended = FALSE]
    /\ evts' = Append(evts, Event("resume", NULL, NULL))
    /\ UNCHANGED <<d, cls, hw, budget>>

Request(name, wLength, ep, arg) == [name |-> name, wLength |-> wLength, ep |-> ep, arg |-> arg]

Setup(r) ==
    /\ EP0 \in hw.open /\ ~host.suspended /\ host.xfer = NULL
    /\ evts = <<>>
    /\ hw' = [hw EXCEPT !.stalled = @ \ {EP0}, !.tx[EP0] = NULL, !.armed = @ \ {EP0}]
    /\ evts' = <<Event("setup", EP0, r)>>
    /\ host' = [host EXCEPT !.xfer = [req |-> r, got |-> 0, status |-> r.wLength = 0]]
    /\ UNCHANGED <<d, cls>>

Enumerate ==
    /\ host.config = 0
    /\ Setup(IF host.addressed THEN Request("SET_CONFIGURATION", 0, EP0, 1)
             ELSE Request("SET_ADDRESS", 0, EP0, 1))
    /\ UNCHANGED budget

AskDescriptor ==
    \E w \in budget.wLengths, n \in budget.descriptors :
        Setup(Request("GET_DESCRIPTOR", w, EP0, n)) /\ Spend("requests")

AskConfiguration ==
    \E c \in {0, 1} : Setup(Request("SET_CONFIGURATION", 0, EP0, c)) /\ Spend("requests")

AskHalt ==
    /\ budget.halts
    /\ \E ep \in Endpoints(Classes), r \in {<<"SET_HALT", 0>>, <<"CLEAR_HALT", 0>>, <<"GET_STATUS", 2>>} :
           Setup(Request(r[1], r[2], ep, 0)) /\ Spend("requests")

Finished(x, ok) ==
    [host EXCEPT !.xfer = NULL,
                 !.addressed = IF ok /\ x.req.name = "SET_ADDRESS" THEN TRUE ELSE @,
                 !.config = IF ok /\ x.req.name = "SET_CONFIGURATION" THEN x.req.arg ELSE @]

HostReads0 ==
    LET x == host.xfer
        n == hw.tx[EP0]
        got == x.got + n
    IN /\ x # NULL /\ hw.tx[EP0] # NULL /\ EP0 \notin hw.stalled
       /\ x.req.wLength > 0 => ~x.status
       /\ hw' = [hw EXCEPT !.tx[EP0] = NULL]
       /\ evts' = Append(evts, Event("in", EP0, NULL))
       /\ host' = IF x.req.wLength = 0 THEN Finished(x, TRUE)
                  ELSE [host EXCEPT !.xfer.got = got,
                                    !.xfer.status = n < EP0_SIZE \/ got = x.req.wLength]
       /\ UNCHANGED <<d, cls, budget>>

HostStatus ==
    /\ host.xfer # NULL /\ host.xfer.req.wLength > 0 /\ host.xfer.status /\ EP0 \in hw.armed
    /\ hw' = [hw EXCEPT !.armed = @ \ {EP0}]
    /\ evts' = Append(evts, Event("out", EP0, NULL))
    /\ host' = Finished(host.xfer, TRUE)
    /\ UNCHANGED <<d, cls, budget>>

HostStalled ==
    /\ host.xfer # NULL /\ EP0 \in hw.stalled
    /\ host' = Finished(host.xfer, FALSE)
    /\ UNCHANGED <<d, cls, hw, evts, budget>>

GiveUp ==
    /\ host.xfer # NULL /\ host.xfer.req.wLength > 0 /\ evts = <<>> /\ Spend("faults")
    /\ host' = Finished(host.xfer, FALSE)
    /\ UNCHANGED <<d, cls, hw, evts>>

Talking(ep) == host.config = 1 /\ ~host.suspended /\ ep \in hw.open /\ ep \notin hw.stalled

HostReads(ep) ==
    /\ Talking(ep) /\ hw.tx[ep] # NULL
    /\ hw' = [hw EXCEPT !.tx[ep] = NULL]
    /\ evts' = Append(evts, Event("in", ep, NULL))
    /\ UNCHANGED <<d, cls, host, budget>>

HostWrites(ep) ==
    /\ Talking(ep) /\ ep \in hw.armed /\ evts = <<>>
    /\ hw' = [hw EXCEPT !.armed = @ \ {ep}]
    /\ evts' = Append(evts, Event("out", ep, NULL))
    /\ UNCHANGED <<d, cls, host, budget>>

-----------------------------------------------------------------------------
Init ==
    /\ d = ZeroHandle
    /\ cls = [k \in Classes |-> ZeroClass]
    /\ hw = OffBus /\ evts = <<>> /\ host = Unconfigured
    /\ budget \in Scenarios

Next ==
    \/ Device
    \/ \E mask \in budget.masks, force \in BOOLEAN : Restart(mask, force)
    \/ Stop
    \/ \E k \in Classes, n \in 1 .. MaxChunks : Send(k, n)
    \/ BusReset
    \/ SuspendBus
    \/ ResumeBus
    \/ Enumerate
    \/ AskDescriptor
    \/ AskConfiguration
    \/ AskHalt
    \/ HostReads0
    \/ HostStatus
    \/ HostStalled
    \/ GiveUp
    \/ \E ep \in Ins(Classes) : HostReads(ep)
    \/ \E ep \in Outs(Classes) : HostWrites(ep)

Spec == Init /\ [][Next]_vars

(***************************************************************************)
(* The device handles its events; the host goes on with a transfer, resets *)
(* and enumerates a device that joins the bus, resumes a suspended bus and *)
(* reads the packets of the classes.                                       *)
(***************************************************************************)
FairSpec ==
    /\ Spec
    /\ []<>(evts = <<>>) \/ []<><<evts' = Tail(evts)>>_evts
    /\ WF_vars(HostReads0) /\ WF_vars(HostStatus) /\ WF_vars(HostStalled)
    /\ WF_vars(BusReset /\ hw.open = {}) /\ WF_vars(Enumerate) /\ WF_vars(ResumeBus)
    /\ \A ep \in Ins(Classes) : WF_vars(HostReads(ep))

-----------------------------------------------------------------------------
(***************************************************************************)
(* A host that reads a descriptor gets all of it up to the length it asked *)
(* for and nothing more, for lengths on both sides of a multiple of the    *)
(* packet size (USBD_LL_DataInStage).                                      *)
(***************************************************************************)
DescriptorExact ==
    LET x == host.xfer
    IN x # NULL /\ x.req.name = "GET_DESCRIPTOR" =>
           /\ x.got <= Least(x.req.arg, x.req.wLength)
           /\ x.status => x.got = Least(x.req.arg, x.req.wLength)

(***************************************************************************)
(* The host and the device agree: once SET_CONFIGURATION has completed,    *)
(* and until a reset, a stop or a new configuration, the device is         *)
(* configured, its classes have their endpoints and every class receives.  *)
(* Suspensions, resets at any moment and restarts of the stack come in     *)
(* between.                                                                *)
(***************************************************************************)
Settled == host.config = 1 /\ host.xfer = NULL /\ evts = <<>>

ReadyWhenConfigured ==
    Settled =>
        /\ d.state = "RUNNING"
        /\ d.dev_state = IF host.suspended THEN "SUSPENDED" ELSE "CONFIGURED"
        /\ Endpoints(d.classes) \subseteq hw.open \intersect d.used
        /\ Outs(d.classes) \subseteq hw.armed

(***************************************************************************)
(* USBD_LL_IsStallEP tells the truth: the masks the status of an endpoint  *)
(* is read from agree with the controller, which clears them itself when   *)
(* an endpoint is opened again.                                            *)
(***************************************************************************)
HaltTruth ==
    Settled => d.stall \intersect Endpoints(d.classes) = hw.stalled \intersect Endpoints(d.classes)


(***************************************************************************)
(* Every request a host makes on the control pipe comes to its end.        *)
(***************************************************************************)
ControlEnds == host.xfer # NULL ~> host.xfer = NULL

(***************************************************************************)
(* A class does not stay busy while the stack runs and its host has not    *)
(* halted the endpoint, so the wait of os_io_tx_cmd on USBD_LEDGER_is_busy *)
(* comes to its end.                                                       *)
(***************************************************************************)
BusyEnds ==
    \A k \in Classes :
        cls[k].state = "BUSY" /\ d.state = "RUNNING" /\ k \in d.classes ~>
            \/ cls[k].state = "IDLE" \/ <<k, "in">> \in hw.stalled
            \/ d.state # "RUNNING" \/ k \notin d.classes

=============================================================================
