-------------------------------- MODULE Ccid --------------------------------
(***************************************************************************)
(* The smart card reader class: the commands (lib_ccid/src/ccid_cmd.c),    *)
(* their packets (ccid_transport.c) and the USB class                      *)
(* (lib_stusb/src/usbd_ledger_ccid.c), with a host that waits for the      *)
(* answer to a command before it sends another, and an application that    *)
(* answers the APDUs.                                                      *)
(*                                                                         *)
(* Lengths are scaled: the header is HeaderSize units, the parameters and  *)
(* the data rate are one, the APDU made of a PIN operation is two.  A unit *)
(* of data is its value and its position; the value "c" is one that no     *)
(* command accepts, and 2 a specific byte of the header no command does.   *)
(***************************************************************************)
EXTENDS Integers, Sequences, SequencesExt

CONSTANTS
    HeaderSize, PacketSize,
    BufSize,         \* rx_msg_buffer_size
    XfrMax,          \* the longest APDU, 261
    CcidCommands,    \* the headers of the commands, with the value of their data
    AnswerLengths,   \* lengths of the answers of the application
    CcidSeqs,        \* the sequence numbers of control requests
    MaxCcidCommands      \* bound on the number of commands

ASSUME CcidAssumption ==
    /\ HeaderSize \in 1 .. PacketSize - 1
    /\ \A c \in CcidCommands : c.hdr.len <= BufSize

(* ccid is the state of the class and of its host:                         *)
(*   dev   ledger_ccid_handle; hdr is bulk_msg_header, a union: its type,  *)
(*         len, slot and seq serve for the command and for its answer      *)
(*   app   the APDU the application has to answer                          *)
(*   out   the packets of the command still to be sent                     *)
(*   wire  the packet the device is sending, acked: it has been received   *)
(*   host  what the host is doing, cmd its last command, got the packets   *)
(*         of the answer                                                   *)
(*   set   the parameters the host knows to be in force; reply the answer  *)
(*         the application gave; left the number of commands still allowed *)
VARIABLE ccid

ccidVars == <<ccid>>

NO_ERROR == "none"
Units(v, n) == [i \in 1 .. n |-> <<v, i>>]
DefaultParameters == Units("default", 1)

-----------------------------------------------------------------------------
(* Packets *)

NoHeader == [type |-> "none", len |-> 0, slot |-> 0, seq |-> 0, spec |-> 0]

\* USBD_LEDGER_CCID_init and CCID_TRANSPORT_init
USBD_LEDGER_CCID_init ==
    [rx |-> "WAITING", rxLen |-> 0, buf |-> Units("zero", BufSize), hdr |-> NoHeader,
     error |-> NO_ERROR, status |-> "active",
     tx |-> <<>>, txOff |-> 0, txOn |-> FALSE, packet |-> <<>>,
     state |-> "IDLE", params |-> DefaultParameters, rate |-> <<>>,
     aborting |-> FALSE, abortSeq |-> 0]

Overlay(buf, at, data) ==
    [i \in 1 .. BufSize |-> IF i - at \in 1 .. Len(data) THEN data[i - at] ELSE buf[i]]

\* CCID_TRANSPORT_rx.  A message longer than the buffer is dropped.
Smallest(a, b) == IF a < b THEN a ELSE b
FirstPacket(d, packet, taken) ==
    [d EXCEPT !.hdr = packet.hdr, !.rxLen = taken, !.buf = Overlay(@, 0, SubSeq(packet.data, 1, taken)),
              !.rx = IF taken = packet.hdr.len THEN "COMPLETE" ELSE "NEED_MORE_DATA"]
MorePacket(d, data, ends) ==
    IF BufSize <= Len(data) + (IF ends THEN 0 ELSE d.rxLen) THEN d
    ELSE [d EXCEPT !.buf = Overlay(@, d.rxLen, data), !.rxLen = @ + Len(data),
                   !.rx = IF ends THEN "COMPLETE" ELSE @]
CCID_TRANSPORT_rx(d, packet) ==
    IF d.rx = "WAITING" /\ packet.first
    THEN IF packet.hdr.len > BufSize THEN [d EXCEPT !.hdr = packet.hdr]
         ELSE FirstPacket(d, packet, Smallest(packet.hdr.len, Len(packet.data)))
    ELSE IF d.rx = "NEED_MORE_DATA"
    THEN MorePacket(d, SubSeq(packet.data, 1, Smallest(d.hdr.len - d.rxLen, Len(packet.data))),
                    d.hdr.len <= d.rxLen + Len(packet.data))
    ELSE d

\* CCID_TRANSPORT_tx: a packet of the message, its header in the first one.  A
\* message that ends with a full packet stays there for one call more.
HeaderOf(first) == IF first THEN HeaderSize ELSE 0
Cut(d, first, data) ==
    [first |-> first, hdr |-> d.hdr, error |-> d.error, data |-> data,
     size |-> Len(data) + HeaderOf(first)]
FullPacket(d, first, room) ==
    [d EXCEPT !.packet = Cut(d, first, SubSeq(d.tx, d.txOff + 1, d.txOff + room)), !.txOff = @ + room]
LastPacket(d, first) ==
    [d EXCEPT !.packet = Cut(d, first, SubSeq(d.tx, d.txOff + 1, Len(d.tx))),
              !.txOff = Len(d.tx), !.txOn = FALSE, !.rx = "WAITING"]
NextPacket(d, first) ==
    IF Len(d.tx) + HeaderOf(first) >= PacketSize + d.txOff
    THEN FullPacket(d, first, PacketSize - HeaderOf(first))
    ELSE LastPacket(d, first)
CCID_TRANSPORT_tx(d, data) ==
    NextPacket([d EXCEPT !.tx = data, !.txOff = 0, !.txOn = TRUE, !.hdr.len = Len(data)], TRUE)

-----------------------------------------------------------------------------
(* Commands, as operators on the device.  Once an error is set the checks  *)
(* that follow are skipped.                                                *)

Fine(d) == d.error = NO_ERROR
Failed(d, status, error) == [d EXCEPT !.status = status, !.error = error]
Checked(d, ok, status, error) == IF Fine(d) /\ ~ok THEN Failed(d, status, error) ELSE d

ccid_cmd_check_length(d, max) ==
    IF d.hdr.len > max THEN Failed(d, "inactive", "BAD_DWLENGTH") ELSE d
Short(d, max) == IF Fine(d) THEN ccid_cmd_check_length(d, max) ELSE d
NotAborted(d) == Checked(d, ~d.aborting, "inactive", "ABORTED")
Specific(d, max) == Checked(d, d.hdr.spec <= max, "active", "NOT_SUPPORTED")

\* The answers: their types, and no data after an error.
RDR_to_PC_DataBlock(d) == [d EXCEPT !.hdr.type = "DATA_BLOCK", !.hdr.len = IF Fine(d) THEN @ ELSE 0]
RDR_to_PC_SlotStatus(d) == [d EXCEPT !.hdr.type = "SLOT_STATUS", !.hdr.len = 0]
RDR_to_PC_Parameters(d) ==
    IF Fine(d)
    THEN [d EXCEPT !.hdr.type = "PARAMETERS", !.buf = Overlay(@, 0, d.params), !.hdr.len = Len(d.params)]
    ELSE [d EXCEPT !.hdr.type = "PARAMETERS", !.hdr.len = 0]
RDR_to_PC_Escape(d) == [d EXCEPT !.hdr.type = "ESCAPE_ANSWER"]
RDR_to_PC_DataRateAndClockFrequency(d) ==
    [d EXCEPT !.hdr.type = "DR_CLK_FREQ", !.hdr.len = IF Fine(d) THEN @ ELSE 0]

WithAtr(d) == IF Fine(d) THEN [d EXCEPT !.hdr.len = 1, !.buf = Overlay(@, 0, Units("atr", 1))] ELSE d
PC_to_RDR_IccPowerOn(d) ==
    RDR_to_PC_DataBlock(WithAtr(Checked(NotAborted(Short(d, 0)), d.hdr.spec <= 1,
                                        "inactive", "BAD_POWER_SELECT")))

PC_to_RDR_IccPowerOff(d) == RDR_to_PC_SlotStatus(Short(d, 0))

\* The length is looked at only after an error.
PC_to_RDR_GetSlotStatus(d) ==
    RDR_to_PC_SlotStatus(IF Fine(d) THEN d ELSE ccid_cmd_check_length(d, 0))
PC_to_RDR_GetParameters(d) ==
    RDR_to_PC_Parameters(IF Fine(d) THEN d ELSE ccid_cmd_check_length(d, 0))

ResetTo(d, params) == IF Fine(d) THEN [d EXCEPT !.params = params] ELSE d
PC_to_RDR_ResetParameters(d) == RDR_to_PC_Parameters(ResetTo(Short(d, 0), DefaultParameters))

SetChecked(d) ==
    Checked(Checked(Checked(d, d.hdr.spec = 0, "active", "INVALID_PROTOCOL"),
                    d.hdr.len = 1 /\ d.rxLen = 1, "active", "BAD_DWLENGTH"),
            d.buf[1][1] # "c", "active", "INVALID_CLOCK_STOP")
PC_to_RDR_SetParameters(d) == RDR_to_PC_Parameters(ResetTo(SetChecked(d), SubSeq(d.buf, 1, 1)))

Emptied(d) == IF Fine(d) THEN [d EXCEPT !.hdr.len = 0] ELSE d
PC_to_RDR_Escape(d) == RDR_to_PC_Escape(Emptied(NotAborted(d)))

PC_to_RDR_IccClock(d) == RDR_to_PC_SlotStatus(Specific(Short(d, 0), 0))
PC_to_RDR_T0APDU(d) == RDR_to_PC_SlotStatus(Specific(NotAborted(Short(d, 0)), 1))
PC_to_RDR_Mechanical(d) == RDR_to_PC_SlotStatus(Specific(Short(d, 0), 1))

Rated(d) == IF Fine(d) THEN [d EXCEPT !.rate = SubSeq(d.buf, 1, 1)] ELSE d
PC_to_RDR_SetDataRateAndClockFrequency(d) ==
    RDR_to_PC_DataRateAndClockFrequency(Rated(Checked(d, d.hdr.len = 1, "inactive", "BAD_DWLENGTH")))

\* CCID_CMD_abort is called by a control request and by a command: two calls
\* with one sequence number begin and end an abort.  Slot 0 is the only one.
CCID_CMD_abort(d, slot, seq) ==
    IF slot > 0 THEN d
    ELSE IF ~d.aborting THEN [d EXCEPT !.aborting = TRUE, !.abortSeq = seq]
    ELSE IF d.abortSeq = seq THEN [d EXCEPT !.aborting = FALSE] ELSE d
Aborted(d) == IF Fine(d) THEN CCID_CMD_abort(d, d.hdr.slot, d.hdr.seq) ELSE d
PC_to_RDR_Abort(d) == RDR_to_PC_SlotStatus(Aborted(Short(d, 0)))

\* PC_to_RDR_XfrBlock and PC_to_RDR_Secure: an APDU goes to the application.
PC_to_RDR_XfrBlock(d) == NotAborted(Short(d, XfrMax))
PC_to_RDR_Secure(d) ==
    Checked(Checked(NotAborted(d), d.hdr.spec = 0, "active", "NOT_SUPPORTED"),
            d.buf[1][1] # "c", "active", "NOT_SUPPORTED")

\* The APDU of a PIN operation is copied from inside its data.
PinApdu(d) == [d EXCEPT !.rxLen = 2, !.buf = Overlay(@, 0, <<<<"EF", 1>>, d.buf[4]>>)]
WithLevel(d) ==
    [d EXCEPT !.hdr.type = "DATA_BLOCK",
              !.error = IF d.hdr.len + HeaderSize > BufSize THEN "BAD_DWLENGTH" ELSE @]

Up(d) == [up |-> Fine(d), dev |-> IF Fine(d) THEN d ELSE RDR_to_PC_DataBlock(d)]
Down(d) == [up |-> FALSE, dev |-> d]
UpAs(r, d) == IF r.up THEN [r EXCEPT !.dev = d] ELSE r

\* CCID_CMD_process: the device after the command, and whether the application
\* has to answer it
CommandDispatched(d) ==
    CASE d.hdr.type = "ICC_POWER_ON"     -> Down(PC_to_RDR_IccPowerOn(d))
      [] d.hdr.type = "ICC_POWER_OFF"    -> Down(PC_to_RDR_IccPowerOff(d))
      [] d.hdr.type = "GET_SLOT_STATUS"  -> Down(PC_to_RDR_GetSlotStatus(d))
      [] d.hdr.type = "XFR_BLOCK"        -> UpAs(Up(PC_to_RDR_XfrBlock(d)), WithLevel(d))
      [] d.hdr.type = "GET_PARAMETERS"   -> Down(PC_to_RDR_GetParameters(d))
      [] d.hdr.type = "RESET_PARAMETERS" -> Down(PC_to_RDR_ResetParameters(d))
      [] d.hdr.type = "SET_PARAMETERS"   -> Down(PC_to_RDR_SetParameters(d))
      [] d.hdr.type = "ESCAPE"           -> Down(PC_to_RDR_Escape(d))
      [] d.hdr.type = "ICC_CLOCK"        -> Down(PC_to_RDR_IccClock(d))
      [] d.hdr.type = "T0_APDU"          -> Down(PC_to_RDR_T0APDU(d))
      [] d.hdr.type = "SECURE"           -> UpAs(Up(PC_to_RDR_Secure(d)),
                                                 [PinApdu(d) EXCEPT !.hdr.type = "DATA_BLOCK"])
      [] d.hdr.type = "MECHANICAL"       -> Down(PC_to_RDR_Mechanical(d))
      [] d.hdr.type = "ABORT"            -> Down(PC_to_RDR_Abort(d))
      [] d.hdr.type = "SET_DR_CLK_FREQ"  -> Down(PC_to_RDR_SetDataRateAndClockFrequency(d))
      [] OTHER -> Down(RDR_to_PC_SlotStatus(Failed(d, "active", "NOT_SUPPORTED")))
CCID_CMD_process(d) ==
    CommandDispatched(Checked([d EXCEPT !.error = NO_ERROR, !.status = "active"], d.hdr.slot <= 1,
                       "absent", "SLOT_DOES_NOT_EXIST"))

-----------------------------------------------------------------------------
(* The USB class.  s is the whole state.                                   *)

Transmitted(s) == [s EXCEPT !.wire = <<s.dev.packet>>]

\* USBD_LEDGER_CCID_send_packet: the message is replaced even when it is busy.
USBD_LEDGER_CCID_send_packet(s, data) ==
    IF s.dev.state = "IDLE"
    THEN Transmitted([s EXCEPT !.dev = [CCID_TRANSPORT_tx(@, data) EXCEPT !.state = "BUSY"]])
    ELSE [s EXCEPT !.dev = CCID_TRANSPORT_tx(@, data)]

\* USBD_LEDGER_CCID_data_ready
Processed(s, r) ==
    IF r.up THEN [s EXCEPT !.dev = r.dev, !.app = <<SubSeq(r.dev.buf, 1, r.dev.rxLen)>>]
    ELSE USBD_LEDGER_CCID_send_packet([s EXCEPT !.dev = r.dev], SubSeq(r.dev.buf, 1, r.dev.hdr.len))
USBD_LEDGER_CCID_data_ready(s) ==
    IF s.dev.rx # "COMPLETE" THEN s
    ELSE [Processed(s, CCID_CMD_process(s.dev)) EXCEPT !.dev.rx = "WAITING"]

\* USBD_LEDGER_CCID_data_in
Continued(s) ==
    IF ~s.dev.txOn THEN s
    ELSE IF NextPacket(s.dev, FALSE).packet.size = 0 THEN [s EXCEPT !.dev = NextPacket(@, FALSE)]
    ELSE Transmitted([s EXCEPT !.dev = [NextPacket(@, FALSE) EXCEPT !.state = "BUSY"]])
Idle(s) == IF s.dev.txOn THEN s ELSE [s EXCEPT !.dev.state = "IDLE"]
USBD_LEDGER_CCID_data_in(s) == Idle(Continued([s EXCEPT !.acked = FALSE]))

-----------------------------------------------------------------------------
(* The host *)

CcidInit ==
    ccid = [dev |-> USBD_LEDGER_CCID_init, app |-> <<>>, out |-> <<>>, wire |-> <<>>, acked |-> FALSE,
            host |-> "idle", cmd |-> [hdr |-> NoHeader, data |-> <<>>], got |-> <<>>, reply |-> <<>>,
            heard |-> <<>>, set |-> DefaultParameters, left |-> MaxCcidCommands]

\* A message as packets: the header and the first units, then full packets.
Room == PacketSize - HeaderSize
Packets(hdr, data) ==
    [k \in 1 .. 1 + (IF Len(data) <= Room THEN 0 ELSE (Len(data) - Room + PacketSize - 1) \div PacketSize) |->
        [first |-> k = 1, hdr |-> hdr,
         data |-> IF k = 1 THEN SubSeq(data, 1, Smallest(Room, Len(data)))
                  ELSE SubSeq(data, Room + (k - 2) * PacketSize + 1,
                              Smallest(Room + (k - 1) * PacketSize, Len(data)))]]

Quiet == ccid.host = "idle" /\ ~ccid.acked

HostCommand ==
    /\ Quiet /\ ccid.left > 0
    /\ \E c \in CcidCommands :
          ccid' = [ccid EXCEPT !.host = "waiting", !.left = @ - 1, !.got = <<>>, !.reply = <<>>,
                               !.heard = <<>>,
                               !.cmd = [hdr |-> c.hdr, data |-> Units(c.v, c.hdr.len)],
                               !.out = Packets(c.hdr, Units(c.v, c.hdr.len))]

\* USBD_LEDGER_CCID_setup: the abort request of the control endpoint.
USBD_LEDGER_CCID_setup ==
    /\ Quiet /\ ccid.left > 0
    /\ \E slot \in 0 .. 1, seq \in CcidSeqs :
          ccid' = [ccid EXCEPT !.dev = CCID_CMD_abort(@, slot, seq), !.left = @ - 1]

\* USBD_LEDGER_CCID_data_out, and the look at the classes that follows it
USBD_LEDGER_CCID_data_out ==
    /\ ccid.out # <<>> /\ ~ccid.acked
    /\ ccid' = USBD_LEDGER_CCID_data_ready([ccid EXCEPT !.dev = CCID_TRANSPORT_rx(@, Head(ccid.out)),
                                                        !.out = Tail(@)])

\* The application answers the APDU.
AppAnswers ==
    /\ ccid.app # <<>>
    /\ \E n \in AnswerLengths :
          ccid' = USBD_LEDGER_CCID_send_packet([ccid EXCEPT !.heard = ccid.app[1], !.app = <<>>,
                                                            !.reply = Units("reply", n)],
                                               Units("reply", n))

\* The host takes a packet; it has the whole answer when it has the length the
\* header says.  An answer with parameters tells it the ones in force.
CcidAnswer(got) == [hdr |-> got[1].hdr, error |-> got[1].error,
                data |-> FlattenSeq([i \in 1 .. Len(got) |-> got[i].data])]
WholeAnswer(got) == Len(CcidAnswer(got).data) >= got[1].hdr.len
KnownMessage(s, a) ==
    IF s.cmd.hdr.type = "SET_PARAMETERS" /\ a.error = NO_ERROR THEN s.cmd.data
    ELSE IF s.cmd.hdr.type = "RESET_PARAMETERS" /\ a.error = NO_ERROR THEN DefaultParameters
    ELSE s.set
Took(s, got) ==
    [s EXCEPT !.wire = <<>>, !.acked = TRUE, !.got = got,
              !.host = IF WholeAnswer(got) THEN "idle" ELSE @,
              !.set = IF WholeAnswer(got) THEN KnownMessage(s, CcidAnswer(got)) ELSE @]
HostTakes == ccid.wire # <<>> /\ ccid' = Took(ccid, Append(ccid.got, ccid.wire[1]))

DataIn == ccid.acked /\ ccid' = USBD_LEDGER_CCID_data_in(ccid)

CcidNext ==
    \/ HostCommand
    \/ USBD_LEDGER_CCID_setup
    \/ USBD_LEDGER_CCID_data_out
    \/ AppAnswers
    \/ HostTakes
    \/ DataIn

CcidSpec == CcidInit /\ [][CcidNext]_ccidVars

-----------------------------------------------------------------------------
(* Properties *)

AnswerType(type) ==
    IF type \in {"ICC_POWER_ON", "XFR_BLOCK", "SECURE"} THEN "DATA_BLOCK"
    ELSE IF type \in {"GET_PARAMETERS", "RESET_PARAMETERS", "SET_PARAMETERS"} THEN "PARAMETERS"
    ELSE IF type = "ESCAPE" THEN "ESCAPE_ANSWER"
    ELSE IF type = "SET_DR_CLK_FREQ" THEN "DR_CLK_FREQ"
    ELSE "SLOT_STATUS"

\* The answer a is the one to the command cmd.
Answers(a, cmd) ==
    /\ a.hdr.type = AnswerType(cmd.hdr.type)
    /\ <<a.hdr.slot, a.hdr.seq>> = <<cmd.hdr.slot, cmd.hdr.seq>>
    /\ Len(a.data) = a.hdr.len
    /\ cmd.hdr.type = "XFR_BLOCK" /\ a.error = NO_ERROR => ccid.heard = cmd.data /\ a.data = ccid.reply
    /\ AnswerType(cmd.hdr.type) = "PARAMETERS" /\ a.error = NO_ERROR => a.data = ccid.set


=============================================================================
