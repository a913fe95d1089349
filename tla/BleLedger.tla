----------------------------- MODULE BleLedger -----------------------------
(***************************************************************************)
(* The BLE stack manager of lib_blewbxx/src/ble_ledger.c: it drives the    *)
(* radio controller through three step-by-step procedures (start, start    *)
(* advertising, stop), each step waiting for the completion event of the   *)
(* command sent before.  The whole stack shares one command buffer,        *)
(* cmd_data, whose opcode tells which completion is awaited.               *)
(*                                                                         *)
(* The manager is ble, the structure ble_ledger_data.  The controller and  *)
(* the central are external: commands reach the controller in order, and   *)
(* its events reach the manager in order, but both queues may be non-empty *)
(* at the same time, so an event may be about a state the manager has      *)
(* already left.                                                           *)
(*                                                                         *)
(* An operator Op_Slip is Op with the slip its name tells; the runs refute *)
(* a property with it in the place of Op.                                  *)
(***************************************************************************)
EXTENDS Integers, Sequences

CONSTANT Scenarios  \* what os_io and the central may do; a behaviour has one of them

(***************************************************************************)
(* The fields of a scenario: masks, the profile masks os_io_init may ask   *)
(* for; forced, whether it may force a re-initialisation; links, a bound   *)
(* on the number of connections; uses, what a connected central may do;    *)
(* inFlight, the commands and events in flight below which os_io and the   *)
(* central act.                                                            *)
(***************************************************************************)
ASSUME BleScenarios ==
    Scenarios \subseteq
        [masks : SUBSET {"APDU", "NONE"} \ {{}}, forced : BOOLEAN, links : Nat, inFlight : Nat,
         uses : SUBSET {"att", "numcomp", "passkey", "paired", "timeout"}]

VARIABLES
    ble,        \* ble_ledger_data
    init_mask,  \* ble_ledger_init_data.profile_mask
    plane,      \* OS_SETTING_PLANEMODE
    prompt,     \* the connection whose pairing prompt is displayed, 0 for none
    cmds,       \* commands on their way to the controller
    evts,       \* events on their way to the manager
    radio,      \* the controller
    scenario    \* the scenario of this behaviour

vars == <<ble, init_mask, plane, prompt, cmds, evts, radio, scenario>>

NoHandle == -1  \* 0xFFFF
AnyOpcode == "0xFFFF"

(***************************************************************************)
(* The steps of the three procedures, in order, numbered from 1; step 0 is *)
(* IDLE.  A step that sends one command is named after the command.        *)
(***************************************************************************)
InitSteps ==
    <<"RESET", "WRITE_CONFIG_DATA", "GATT_INIT", "GAP_INIT", "SET_IO_CAPABILITY",
      "SET_AUTH_REQUIREMENTS", "PROFILE_INIT", "PROFILE_CREATE_DB", "SET_TX_POWER_LEVEL",
      "CLEAR_SECURITY_DB", "START_ADVERTISING", "END">>

AdvSteps ==
    <<"SET_NON_DISCOVERABLE", "UPDATE_ADV_DATA", "SET_SCAN_RESPONSE_DATA",
      "UPDATE_CHAR_VALUE", "SET_DISCOVERABLE", "END">>

StopSteps == <<"DISCONNECT", "SET_NON_DISCOVERABLE", "RESET", "END">>

DbSteps == <<"ADD_SERVICE", "ADD_CHAR", "ADD_CHAR", "ADD_CHAR", "END">>

StepIs(steps, n, name) == n > 0 /\ steps[n] = name

(***************************************************************************)
(* ble_ledger_data zeroed, as BLE_LEDGER_init leaves it.  out collects the *)
(* commands one call of the manager sends, closed tells whether the call   *)
(* closed the pairing prompt; both are empty between two calls.            *)
(***************************************************************************)
ZeroBle ==
    [state |-> "INITIALIZED", init_step |-> 0, start_adv_step |-> 0, stopping_step |-> 0,
     db_step |-> 0, profiles |-> "NONE", stop_after_start |-> FALSE, start_after_stop |-> FALSE,
     opcode |-> "0", advertising_enabled |-> FALSE, connection_handle |-> 0,
     pairing_in_progress |-> 0, clear_pairing |-> FALSE, out |-> <<>>, closed |-> FALSE]

(***************************************************************************)
(* Forging a command records its opcode in cmd_data; send_hci_packet hands *)
(* it to the controller.                                                   *)
(***************************************************************************)
send_hci_packet(b, op) == [b EXCEPT !.opcode = op, !.out = Append(@, op)]

Unexpected(b, op) == b.opcode # AnyOpcode /\ op # b.opcode

end_pairing_ux(b) == IF b.pairing_in_progress # 0 THEN [b EXCEPT !.closed = TRUE] ELSE b

-----------------------------------------------------------------------------
StopStep_NoReset(b) ==
    LET next == IF b.stopping_step = 0 THEN (IF b.connection_handle = NoHandle THEN 2 ELSE 1)
                ELSE IF b.stopping_step = 1 THEN 2 ELSE 4
        g    == [b EXCEPT !.stop_after_start = FALSE, !.stopping_step = next]
    IN IF next = 4 THEN [g EXCEPT !.state = "INITIALIZED"]
       ELSE send_hci_packet(g, StopSteps[next])

(***************************************************************************)
(* stopping_mngr once the event is the expected one, without the restart   *)
(* of its last step.                                                       *)
(***************************************************************************)
StopStep(b) ==
    LET s0   == b.stopping_step
        s1   == IF s0 = 0 /\ b.connection_handle = NoHandle THEN 1 ELSE s0
        s2   == IF s1 = 1 /\ ~b.advertising_enabled THEN 2 ELSE s1
        next == s2 + 1
        g    == [b EXCEPT !.stop_after_start = IF s0 = 0 THEN FALSE ELSE @,
                          !.stopping_step = next]
    IN CASE StopSteps[next] = "DISCONNECT" -> send_hci_packet(end_pairing_ux(g), "DISCONNECT")
         [] StopSteps[next] = "END"        -> [g EXCEPT !.state = "INITIALIZED"]
         [] OTHER                          -> send_hci_packet(g, StopSteps[next])

BLE_LEDGER_stop(b) ==
    CASE b.state = "RUNNING" ->
            StopStep([b EXCEPT !.opcode = AnyOpcode, !.state = "STOPPING", !.stopping_step = 0])
      [] b.state \in {"STARTING", "START_ADVERTISING"} -> [b EXCEPT !.stop_after_start = TRUE]
      [] OTHER -> b

(***************************************************************************)
(* start_advertising_mngr: it gives up when a central is connected, stops  *)
(* when the device is in plane mode or a stop was asked for, and else goes *)
(* to the next step, skipping the one that stops an advertising that is    *)
(* not enabled.                                                            *)
(***************************************************************************)
AdvStep(b) ==
    LET skip == b.start_adv_step = 0 /\ ~b.advertising_enabled
        next == b.start_adv_step + (IF skip THEN 2 ELSE 1)
        g    == [b EXCEPT !.start_adv_step = next]
    IN CASE AdvSteps[next] = "UPDATE_ADV_DATA" ->
              send_hci_packet([g EXCEPT !.advertising_enabled = FALSE], "UPDATE_ADV_DATA")
         [] AdvSteps[next] = "END" ->
              [g EXCEPT !.advertising_enabled = TRUE, !.state = "RUNNING"]
         [] OTHER -> send_hci_packet(g, AdvSteps[next])

start_advertising_mngr_StopIgnored(b, op) ==
    LET g == [b EXCEPT !.start_after_stop = IF b.start_adv_step = 0 THEN FALSE ELSE @]
        last == AdvSteps[b.start_adv_step + 1] = "SET_DISCOVERABLE"
    IN IF Unexpected(b, op) THEN b
       ELSE IF b.connection_handle # NoHandle THEN [b EXCEPT !.state = "RUNNING"]
       ELSE IF last /\ plane THEN BLE_LEDGER_stop([g EXCEPT !.state = "RUNNING"])
       ELSE AdvStep(g)

start_advertising_mngr(b, op) ==
    LET g == [b EXCEPT !.start_after_stop = IF b.start_adv_step = 0 THEN FALSE ELSE @]
        last == AdvSteps[b.start_adv_step + 1] = "SET_DISCOVERABLE"
    IN IF Unexpected(b, op) THEN b
       ELSE IF b.connection_handle # NoHandle THEN [b EXCEPT !.state = "RUNNING"]
       ELSE IF last /\ (plane \/ b.stop_after_start)
       THEN BLE_LEDGER_stop([g EXCEPT !.state = "RUNNING"])
       ELSE AdvStep(g)

create_db_DoneEarly(b) ==
    LET g == [b EXCEPT !.db_step = @ + 1]
    IN IF g.db_step = Len(DbSteps) - 1
       THEN send_hci_packet([g EXCEPT !.init_step = @ + 1], "SET_TX_POWER_LEVEL")
       ELSE send_hci_packet([g EXCEPT !.init_step = @ - 1], DbSteps[g.db_step])

(***************************************************************************)
(* The database of the APDU profile, one command per element.              *)
(***************************************************************************)
create_db(b) ==
    LET g == [b EXCEPT !.db_step = @ + 1]
    IN IF DbSteps[g.db_step] = "END"
       THEN send_hci_packet([g EXCEPT !.init_step = @ + 1], "SET_TX_POWER_LEVEL")
       ELSE send_hci_packet([g EXCEPT !.init_step = @ - 1], DbSteps[g.db_step])

(***************************************************************************)
(* start_mngr after its tests on the event: the next step.  PROFILE_INIT   *)
(* falls through to PROFILE_CREATE_DB, which goes back one step until the  *)
(* database is complete; without a profile it is complete at once.         *)
(***************************************************************************)
StartStep(b) ==
    LET g == [b EXCEPT !.init_step = @ + 1]
        d == IF InitSteps[g.init_step] = "PROFILE_INIT"
             THEN [g EXCEPT !.init_step = @ + 1, !.db_step = 0] ELSE g
    IN CASE InitSteps[g.init_step] \in {"PROFILE_INIT", "PROFILE_CREATE_DB"} ->
              IF b.profiles = "APDU" THEN create_db(d)
              ELSE send_hci_packet([d EXCEPT !.init_step = @ + 1], "SET_TX_POWER_LEVEL")
         [] InitSteps[g.init_step] = "START_ADVERTISING" ->
              start_advertising_mngr([g EXCEPT !.opcode = AnyOpcode, !.start_adv_step = 0], "0")
         [] InitSteps[g.init_step] = "END" ->
              [g EXCEPT !.state = "RUNNING", !.clear_pairing = FALSE]
         [] OTHER -> send_hci_packet(g, InitSteps[g.init_step])

start_mngr_ClearForgotten(b, op) ==
    IF Unexpected(b, op) THEN b
    ELSE IF StepIs(InitSteps, b.init_step, "START_ADVERTISING")
    THEN LET a == start_advertising_mngr(b, op)
         IN IF StepIs(AdvSteps, a.start_adv_step, "END") THEN StartStep(a) ELSE a
    ELSE IF StepIs(InitSteps, b.init_step, "SET_TX_POWER_LEVEL")
    THEN StartStep([b EXCEPT !.init_step = @ + 1])
    ELSE StartStep(b)

start_mngr(b, op) ==
    IF Unexpected(b, op) THEN b
    ELSE IF StepIs(InitSteps, b.init_step, "START_ADVERTISING")
    THEN LET a == start_advertising_mngr(b, op)
         IN IF StepIs(AdvSteps, a.start_adv_step, "END") THEN StartStep(a) ELSE a
    ELSE IF StepIs(InitSteps, b.init_step, "SET_TX_POWER_LEVEL") /\ ~b.clear_pairing
    THEN StartStep([b EXCEPT !.init_step = @ + 1])
    ELSE StartStep(b)

StartAdvertising(b) ==
    start_advertising_mngr([b EXCEPT !.opcode = AnyOpcode, !.state = "START_ADVERTISING",
                                     !.start_adv_step = 0], "0")

BLE_LEDGER_start(b) ==
    IF b.state = "INITIALIZED" \/ b.profiles # init_mask
    THEN StartStep([b EXCEPT !.opcode = AnyOpcode, !.state = "STARTING", !.init_step = 0,
                             !.connection_handle = NoHandle, !.profiles = init_mask])
    ELSE CASE b.state = "RUNNING"  -> StartAdvertising(b)
           [] b.state = "STOPPING" -> [b EXCEPT !.start_after_stop = TRUE]
           [] OTHER                -> b

stopping_mngr_NoRestart(b, op) == IF Unexpected(b, op) THEN b ELSE StopStep(b)

stopping_mngr(b, op) ==
    IF Unexpected(b, op) THEN b
    ELSE LET s == StopStep(b)
         IN IF s.state = "INITIALIZED" /\ s.start_after_stop THEN BLE_LEDGER_start(s) ELSE s

-----------------------------------------------------------------------------
(***************************************************************************)
(* The manager's answer to one event: HCI_COMMAND_COMPLETE goes to the     *)
(* procedure in progress or, when none is, to the profile, which may have  *)
(* a notification to send (reply).                                         *)
(***************************************************************************)
Replying(b, reply) == IF reply = "none" THEN b ELSE send_hci_packet(b, reply)

hci_evt_cmd_complete(b, op, reply) ==
    CASE b.state = "STARTING"          -> start_mngr(b, op)
      [] b.state = "START_ADVERTISING" -> start_advertising_mngr(b, op)
      [] b.state = "STOPPING"          -> stopping_mngr(b, op)
      [] b.state = "RUNNING"           ->
            IF op \in {"WRITE_RESP", "UPDATE_CHAR_VALUE"} /\ b.profiles = "APDU"
            THEN Replying(b, reply) ELSE b

hci_command_status_Ignored(b, op) == b

(***************************************************************************)
(* HCI_COMMAND_STATUS only matters to the procedure that stops the stack.  *)
(***************************************************************************)
hci_command_status(b, op) == IF b.state = "STOPPING" THEN stopping_mngr(b, op) ELSE b

hci_connection_complete_AdvKept(b) == [b EXCEPT !.connection_handle = 1]

hci_connection_complete(b) ==
    [b EXCEPT !.connection_handle = 1, !.advertising_enabled = FALSE]

hci_disconnection_complete(b) ==
    LET g == end_pairing_ux([b EXCEPT !.connection_handle = NoHandle,
                                      !.advertising_enabled = FALSE])
    IN IF b.state = "RUNNING" THEN StartAdvertising(g) ELSE g

hci_evt_vendor_PromptLeft(b, type, reply) ==
    IF b.connection_handle # 1 THEN b
    ELSE CASE type = "att"      -> IF b.profiles = "APDU" THEN Replying(b, reply) ELSE b
           [] type = "numcomp"  -> [b EXCEPT !.pairing_in_progress = 1]
           [] type = "passkey"  -> [b EXCEPT !.pairing_in_progress = 2]
           [] type = "paired"   -> [b EXCEPT !.pairing_in_progress = 0]
           [] type = "timeout"  -> send_hci_packet(end_pairing_ux(b), "DISCONNECT")

(***************************************************************************)
(* Vendor events are about a connection and ignored unless it is the       *)
(* current one.  ATT events may make the profile answer with a packet.     *)
(***************************************************************************)
hci_evt_vendor(b, type, reply) ==
    IF b.connection_handle # 1 THEN b
    ELSE CASE type = "att"      -> IF b.profiles = "APDU" THEN Replying(b, reply) ELSE b
           [] type = "numcomp"  -> [b EXCEPT !.pairing_in_progress = 1]
           [] type = "passkey"  -> [b EXCEPT !.pairing_in_progress = 2]
           [] type = "paired"   -> [end_pairing_ux(b) EXCEPT !.pairing_in_progress = 0]
           [] type = "timeout"  -> send_hci_packet(end_pairing_ux(b), "DISCONNECT")

Asked(b, e) == e.type \in {"numcomp", "passkey"} /\ b.connection_handle = 1

(***************************************************************************)
(* The end of every call: its commands are on their way, the prompt is     *)
(* closed if the call closed it, or shows what shown says.                 *)
(***************************************************************************)
Done(b, shown) ==
    /\ ble' = [b EXCEPT !.out = <<>>, !.closed = FALSE]
    /\ cmds' = cmds \o b.out
    /\ prompt' = IF b.closed THEN 0 ELSE shown

Listening == ble.state \in {"STOPPING", "STARTING", "RUNNING", "START_ADVERTISING"}

Handled(b, e, reply) ==
    CASE e.type = "complete"     -> hci_evt_cmd_complete(b, e.op, reply)
      [] e.type = "status"       -> hci_command_status(b, e.op)
      [] e.type = "connected"    -> hci_connection_complete(b)
      [] e.type = "disconnected" -> hci_disconnection_complete(b)
      [] OTHER                   -> hci_evt_vendor(b, e.type, reply)

Replies(e) ==
    CASE e.type = "att"      -> {"none", "WRITE_RESP", "UPDATE_CHAR_VALUE"}
      [] e.type = "complete" -> {"none", "UPDATE_CHAR_VALUE"}
      [] OTHER               -> {"none"}

BLE_LEDGER_rx_seph_evt ==
    /\ evts # <<>>
    /\ evts' = Tail(evts)
    /\ LET e == Head(evts)
       IN IF Listening
          THEN \E reply \in Replies(e) :
                  Done(Handled(ble, e, reply), IF Asked(ble, e) THEN e.link ELSE prompt)
          ELSE UNCHANGED <<ble, cmds, prompt>>
    /\ UNCHANGED <<init_mask, plane, radio, scenario>>

(***************************************************************************)
(* The calls of os_io: start and stop, the requests that reach it as ITC   *)
(* events (reset the pairings, the name has changed, the user answered a   *)
(* pairing prompt) and the initialisation.                                 *)
(***************************************************************************)
InFlight == Len(cmds) + Len(evts)

Call(b) ==
    /\ InFlight < scenario.inFlight
    /\ Done(b, prompt)
    /\ UNCHANGED <<init_mask, plane, evts, radio, scenario>>

Start == Call(BLE_LEDGER_start(ble))

Stop == Call(BLE_LEDGER_stop(ble))

BLE_LEDGER_reset_pairings ==
    /\ ble.state = "RUNNING"
    /\ Call(BLE_LEDGER_start(BLE_LEDGER_stop([ble EXCEPT !.clear_pairing = TRUE])))

BLE_LEDGER_name_changed ==
    /\ ble.state = "RUNNING" /\ ble.connection_handle = NoHandle
    /\ Call(BLE_LEDGER_start(BLE_LEDGER_stop(ble)))

rsp_user_pairing_numeric_comparison(b, status) ==
    send_hci_packet(IF status = "IGNORE" THEN [b EXCEPT !.pairing_in_progress = 0]
                    ELSE end_pairing_ux(b), "CONFIRM_YESNO")

rsp_user_pairing_passkey(b, status) ==
    CASE status = "OK"     -> send_hci_packet(end_pairing_ux(b), "PASS_KEY_RESP")
      [] status = "IGNORE" -> [b EXCEPT !.pairing_in_progress = 0]
      [] status = "NO"     -> end_pairing_ux(b)

(***************************************************************************)
(* The user answers the prompt that is displayed.                          *)
(***************************************************************************)
BLE_LEDGER_accept_pairing(status) ==
    /\ prompt # 0 /\ ble.state = "RUNNING"
    /\ InFlight < scenario.inFlight
    /\ Done(CASE ble.pairing_in_progress = 1 -> rsp_user_pairing_numeric_comparison(ble, status)
              [] ble.pairing_in_progress = 2 -> rsp_user_pairing_passkey(ble, status)
              [] OTHER                       -> ble, 0)
    /\ UNCHANGED <<init_mask, plane, evts, radio, scenario>>

(***************************************************************************)
(* BLE_LEDGER_send: the profile has a packet to notify.                    *)
(***************************************************************************)
BLE_LEDGER_send ==
    /\ ble.state = "RUNNING" /\ ble.profiles = "APDU"
    /\ Call(send_hci_packet(ble, "UPDATE_CHAR_VALUE"))

(***************************************************************************)
(* BLE_LEDGER_init: a forced one zeroes the structure under the feet of a  *)
(* running controller.                                                     *)
(***************************************************************************)
BLE_LEDGER_init(mask, force) ==
    /\ init_mask' = mask
    /\ ble' = IF force \/ ble.state = "IDLE" THEN ZeroBle ELSE ble
    /\ UNCHANGED <<plane, prompt, cmds, evts, radio, scenario>>

PlaneMode ==
    /\ plane' = ~plane
    /\ UNCHANGED <<ble, init_mask, prompt, cmds, evts, radio, scenario>>

-----------------------------------------------------------------------------
(***************************************************************************)
(* The controller takes the next command.  A disconnection is announced by *)
(* a command status and then by the disconnection event; a reset drops the *)
(* connection, the advertising and the database without an event.          *)
(***************************************************************************)
Event(type, op) == [type |-> type, op |-> op, link |-> radio.link]

Executed(op) ==
    CASE op = "RESET"                      -> [radio EXCEPT !.adv = FALSE, !.link = 0, !.db = 0]
      [] op = "SET_NON_DISCOVERABLE"       -> [radio EXCEPT !.adv = FALSE]
      [] op = "SET_DISCOVERABLE"           -> [radio EXCEPT !.adv = (radio.link = 0)]
      [] op = "CLEAR_SECURITY_DB"          -> [radio EXCEPT !.bonded = FALSE]
      [] op = "DISCONNECT"                 -> [radio EXCEPT !.link = 0]
      [] op \in {"ADD_SERVICE", "ADD_CHAR"} -> [radio EXCEPT !.db = @ + 1]
      [] OTHER                             -> radio

Answered(op) ==
    CASE op = "DISCONNECT" -> <<Event("status", op)>> \o
                              (IF radio.link # 0 THEN <<Event("disconnected", op)>> ELSE <<>>)
      [] OTHER             -> <<Event("complete", op)>>

Controller ==
    /\ cmds # <<>>
    /\ cmds' = Tail(cmds)
    /\ radio' = Executed(Head(cmds))
    /\ evts' = evts \o Answered(Head(cmds))
    /\ UNCHANGED <<ble, init_mask, plane, prompt, scenario>>

(***************************************************************************)
(* The central connects, disconnects, and sends what a connected central   *)
(* may send.  A GATT procedure times out after 30 seconds without an       *)
(* answer, when no command is in flight any more.                          *)
(***************************************************************************)
Central(r, type) ==
    /\ InFlight < scenario.inFlight
    /\ radio' = r
    /\ evts' = Append(evts, [type |-> type, op |-> "0", link |-> r.link])
    /\ UNCHANGED <<ble, init_mask, plane, prompt, cmds, scenario>>

Connect ==
    /\ radio.adv /\ radio.last < scenario.links
    /\ Central([radio EXCEPT !.adv = FALSE, !.link = radio.last + 1, !.last = @ + 1], "connected")

Drop ==
    /\ radio.link # 0
    /\ Central([radio EXCEPT !.link = 0], "disconnected")

Use ==
    /\ radio.link # 0
    /\ \E type \in scenario.uses :
          /\ type = "timeout" => InFlight = 0
          /\ Central([radio EXCEPT !.bonded = @ \/ type = "paired"], type)

Init ==
    /\ ble = ZeroBle
    /\ scenario \in Scenarios
    /\ init_mask \in scenario.masks
    /\ plane = FALSE /\ prompt = 0
    /\ cmds = <<>> /\ evts = <<>>
    /\ radio = [adv |-> FALSE, link |-> 0, last |-> 0, db |-> 0, bonded |-> FALSE]

Next ==
    \/ BLE_LEDGER_rx_seph_evt
    \/ Start
    \/ Stop
    \/ BLE_LEDGER_reset_pairings
    \/ BLE_LEDGER_name_changed
    \/ \E status \in {"OK", "IGNORE", "NO"} : BLE_LEDGER_accept_pairing(status)
    \/ BLE_LEDGER_send
    \/ \E mask \in scenario.masks, force \in {FALSE, scenario.forced} : BLE_LEDGER_init(mask, force)
    \/ PlaneMode
    \/ Controller
    \/ Connect
    \/ Drop
    \/ Use

Spec == Init /\ [][Next]_vars

(***************************************************************************)
(* Events are delivered and the controller executes its commands.          *)
(***************************************************************************)
FairSpec ==
    /\ Spec
    /\ WF_vars(BLE_LEDGER_rx_seph_evt)
    /\ WF_vars(Controller)
-----------------------------------------------------------------------------
Quiet == cmds = <<>> /\ evts = <<>>

(***************************************************************************)
(* As long as os_io_init asks for the same profiles and forces nothing: a  *)
(* re-initialisation under a working controller forgets what it does.      *)
(***************************************************************************)
Steady == ~scenario.forced /\ scenario.masks = {"APDU"}

(***************************************************************************)
(* When nothing is in flight, what the running manager believes about the  *)
(* link and the advertising is what the controller does, and the device    *)
(* can be reached: it advertises or has a central.  Commands of the        *)
(* profiles overwrite the awaited opcode of cmd_data, events cross         *)
(* commands, and start_advertising_mngr may give up.                       *)
(***************************************************************************)
InSync ==
    Steady /\ Quiet /\ ble.state = "RUNNING" =>
        /\ ble.connection_handle # NoHandle <=> radio.link # 0
        /\ ble.advertising_enabled <=> radio.adv
        /\ radio.adv \/ radio.link # 0

(***************************************************************************)
(* Once stopping_mngr has come to its end the radio is silent, also when a *)
(* central connected in the middle of the stop.                            *)
(***************************************************************************)
StoppedSilent ==
    Steady /\ Quiet /\ ble.state = "INITIALIZED" => ~radio.adv /\ radio.link = 0

(***************************************************************************)
(* The device advertises only with the complete GATT database of the       *)
(* profile it runs: start_mngr repeats PROFILE_CREATE_DB until the profile *)
(* says it is complete.                                                    *)
(***************************************************************************)
Served ==
    radio.adv /\ ble.state \in {"RUNNING", "START_ADVERTISING"} =>
        radio.db = (IF ble.profiles = "APDU" THEN Len(DbSteps) - 1 ELSE 0)

(***************************************************************************)
(* A displayed pairing prompt is always known to the manager, so that the  *)
(* disconnection, the timeout or the end of the pairing closes it.         *)
(***************************************************************************)
PromptTracked == Steady /\ prompt # 0 => ble.pairing_in_progress # 0

(***************************************************************************)
(* After BLE_LEDGER_reset_pairings no old pairing is left when the device  *)
(* advertises again.                                                       *)
(***************************************************************************)
PairingsForgotten ==
    Steady /\ ble.clear_pairing /\ ble.state = "STARTING" /\ radio.adv => ~radio.bonded

(***************************************************************************)
(* What the manager of ble_ledger.c believes of the controller and of the  *)
(* user is so: the link, the advertising, the database, the prompt and the *)
(* pairings, after starts, stops and connections that cross each other.    *)
(***************************************************************************)
ManagerTrue == InSync /\ StoppedSilent /\ Served /\ PromptTracked /\ PairingsForgotten

(***************************************************************************)
(* A procedure in progress always has an answer on its way: the completion *)
(* it waits for was neither consumed nor replaced in cmd_data by that of a *)
(* command nobody sent.                                                    *)
(***************************************************************************)
NeverStuck == Quiet => ble.state \in {"INITIALIZED", "RUNNING"}

(***************************************************************************)
(* A start asked for while the stack stops is made when it has stopped, if *)
(* the central does not write without pause: its writes make the profile   *)
(* overwrite the awaited opcode, and could hold the procedure forever.     *)
(***************************************************************************)
RestartHonoured ==
    []<>Quiet => (Steady /\ ble.state = "STOPPING" /\ ble.start_after_stop ~> ble.state = "STARTING")

(***************************************************************************)
(* A stop asked for while the stack starts is made instead of advertising, *)
(* if it comes before the command that starts the advertising is sent and  *)
(* the central does not write without pause.                               *)
(***************************************************************************)
BeforeAdvertising ==
    /\ radio.link = 0 /\ ~radio.adv /\ ble.connection_handle = NoHandle
    /\ \A i \in 1 .. Len(evts) : evts[i].type # "connected"
    /\ \/ ble.state = "START_ADVERTISING" /\ ble.start_adv_step < 5
       \/ ble.state = "STARTING" /\ (ble.init_step < 11 \/ ble.start_adv_step < 5)

StopHonoured ==
    []<>Quiet => (Steady /\ ble.stop_after_start /\ BeforeAdvertising ~> ble.state = "STOPPING")

(***************************************************************************)
(* A start or a stop asked for in the middle of the other is made, though  *)
(* the manager only remembers it in start_after_stop or stop_after_start.  *)
(***************************************************************************)
RequestsHonoured == RestartHonoured /\ StopHonoured
=============================================================================
