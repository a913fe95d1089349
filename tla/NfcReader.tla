------------------------------ MODULE NfcReader ------------------------------
(* The NFC reader of io_legacy/src/os_io_legacy.c: an application sends a command to a
   card with a timeout and is called back once, with the answer, with a timeout or with
   an error when the card is removed.  Commands are numbered in the order they are sent;
   an answer is the number of the command the card answers.  A callback may send the next
   command, in the middle of io_nfc_process_events.  Time counts tickers (100 ms). *)
EXTENDS Integers, Sequences, FiniteSets

CONSTANTS MaxCommands,  \* commands an application sends
          Timeouts,     \* their timeouts in tickers
          MaxVisits,    \* times a card comes into the field
          MaxStarts     \* times the application starts the reader

VARIABLES ctx,          \* G_io_reader_ctx
          field,        \* events on their way from the radio, in order
          card,         \* the card: present, and the commands it has not answered yet
          outcome,      \* what the callback of each command sent was told, in order
          visits, starts

nfcVars == <<ctx, field, card, outcome, visits, starts>>

NoCommand == 0
CARD_DETECTED == "CARD_DETECTED"
CARD_REMOVED == "CARD_REMOVED"

Sent == Len(outcome)
Told(k) == Len(outcome[k])

Verdict(kind, of) == [kind |-> kind, of |-> of]

(* A state of the reader and the log of its callbacks, threaded through a handler. *)
State == [ctx |-> ctx, outcome |-> outcome, tx |-> <<>>]

(* The callback as it would be called without being forgotten. *)
CallBack_Slip(s, verdict, again, timeout) ==
    [s EXCEPT !.outcome[s.ctx.resp_callback] = Append(@, verdict)]

(* The callback is forgotten before it is called; it may send the next command. *)
CallBack(s, verdict, again, timeout) ==
    LET cmd == s.ctx.resp_callback
        told == [s EXCEPT !.ctx.resp_callback = NoCommand,
                          !.outcome[cmd] = Append(@, verdict)]
    IN  IF again /\ Len(s.outcome) < MaxCommands
        THEN [told EXCEPT !.ctx.resp_callback = Len(s.outcome) + 1,
                          !.ctx.response_received = FALSE,
                          !.ctx.remaining_ms = timeout,
                          !.outcome = Append(@, <<>>),
                          !.tx = Append(@, Len(s.outcome) + 1)]
        ELSE told

io_nfc_process_events(s0, again, timeout) ==
    LET Pending(s) == s.ctx.resp_callback # NoCommand
        cleared == [s0 EXCEPT !.ctx.response_received = FALSE]
        s1 == IF s0.ctx.response_received /\ Pending(s0)
              THEN CallBack(cleared, Verdict("answer", s0.ctx.apdu_rx), again, timeout)
              ELSE cleared
        s2 == IF Pending(s1) /\ s1.ctx.remaining_ms = 0
              THEN CallBack(s1, Verdict("timeout", NoCommand), again, timeout) ELSE s1
        s3 == [s2 EXCEPT !.ctx.event_happened = FALSE]
        s4 == IF s2.ctx.event_happened /\ Pending(s3) /\ s2.ctx.last_event = CARD_REMOVED
              THEN CallBack(s3, Verdict("error", NoCommand), again, timeout) ELSE s3
        gone == s2.ctx.event_happened /\ s2.ctx.last_event = CARD_REMOVED
    IN  [s4 EXCEPT !.ctx.card = IF gone THEN FALSE ELSE @]

(* An answer that does not fit the buffer is dropped. *)
os_io_nfc_reader_rx(s, evt, again, timeout) ==
    IF evt.kind = "oversize" THEN s
    ELSE io_nfc_process_events([s EXCEPT !.ctx.response_received = TRUE, !.ctx.apdu_rx = evt.of],
                               again, timeout)

io_nfc_event(s, evt) ==
    CASE evt = CARD_DETECTED ->
           [s EXCEPT !.ctx.event_happened = TRUE, !.ctx.last_event = evt, !.ctx.card = TRUE]
      [] evt = CARD_REMOVED /\ s.ctx.evt_callback ->
           [s EXCEPT !.ctx.event_happened = TRUE, !.ctx.last_event = evt]
      [] OTHER -> s

(* The ticker as it would be if the last period never ran out. *)
io_nfc_ticker_Slip(s) ==
    IF s.ctx.remaining_ms <= 1 THEN s ELSE [s EXCEPT !.ctx.remaining_ms = @ - 1]

io_nfc_ticker(s) ==
    IF s.ctx.resp_callback = NoCommand THEN s
    ELSE [s EXCEPT !.ctx.remaining_ms = IF @ <= 1 THEN 0 ELSE @ - 1]

(* What a handler leaves; the commands it sent go to the card that is there. *)
ReaderLeft(s) ==
    /\ ctx' = s.ctx
    /\ outcome' = s.outcome
    /\ card' = IF card.present THEN [card EXCEPT !.asked = @ \o s.tx] ELSE card

(***************************************************************************)
(* The application                                                         *)
(***************************************************************************)
io_nfc_reader_start ==
    /\ starts < MaxStarts
    /\ starts' = starts + 1
    /\ ctx' = [ctx EXCEPT !.evt_callback = TRUE, !.reader_mode = TRUE, !.event_happened = FALSE,
                          !.resp_callback = NoCommand, !.response_received = FALSE]
    /\ UNCHANGED <<field, card, outcome, visits>>

io_nfc_reader_stop ==
    /\ ctx.reader_mode
    /\ ctx' = [ctx EXCEPT !.evt_callback = FALSE, !.reader_mode = FALSE, !.event_happened = FALSE,
                          !.resp_callback = NoCommand, !.response_received = FALSE]
    /\ UNCHANGED <<field, card, outcome, visits, starts>>

(* A command replaces the one that still waits, which is never called back. *)
io_nfc_reader_send(timeout) ==
    /\ ctx.reader_mode /\ Sent < MaxCommands
    /\ ReaderLeft([ctx |-> [ctx EXCEPT !.resp_callback = Sent + 1, !.response_received = FALSE,
                                  !.remaining_ms = timeout],
              outcome |-> Append(outcome, <<>>), tx |-> <<Sent + 1>>])
    /\ UNCHANGED <<field, visits, starts>>

(* os_io_rx_evt with an answer or an event of the radio *)
ReaderEvent(again, timeout) ==
    LET evt == Head(field)
    IN  /\ field # <<>>
        /\ field' = Tail(field)
        /\ ReaderLeft(IF evt.kind \in {"answer", "oversize"}
                 THEN os_io_nfc_reader_rx(State, evt, again, timeout)
                 ELSE io_nfc_process_events(io_nfc_event(State, evt.kind), again, timeout))
        /\ UNCHANGED <<visits, starts>>

Tick(again, timeout) ==
    /\ ReaderLeft(io_nfc_process_events(io_nfc_ticker(State), again, timeout))
    /\ UNCHANGED <<field, visits, starts>>

(***************************************************************************)
(* The card and the radio                                                  *)
(***************************************************************************)
CardComes ==
    /\ ~card.present /\ ctx.reader_mode /\ visits < MaxVisits
    /\ visits' = visits + 1
    /\ card' = [present |-> TRUE, asked |-> <<>>]
    /\ field' = Append(field, Verdict(CARD_DETECTED, NoCommand))
    /\ UNCHANGED <<ctx, outcome, starts>>

CardAnswers ==
    /\ card.asked # <<>>
    /\ \E size \in {"answer", "oversize"} : field' = Append(field, Verdict(size, Head(card.asked)))
    /\ card' = [card EXCEPT !.asked = Tail(@)]
    /\ UNCHANGED <<ctx, outcome, visits, starts>>

CardLeaves ==
    /\ card.present
    /\ card' = [present |-> FALSE, asked |-> <<>>]
    /\ field' = Append(field, Verdict(CARD_REMOVED, NoCommand))
    /\ UNCHANGED <<ctx, outcome, visits, starts>>

NfcInit ==
    /\ ctx = [evt_callback |-> FALSE, resp_callback |-> NoCommand, reader_mode |-> FALSE,
              event_happened |-> FALSE, response_received |-> FALSE, remaining_ms |-> 0,
              last_event |-> CARD_DETECTED, card |-> FALSE, apdu_rx |-> NoCommand]
    /\ field = <<>>
    /\ card = [present |-> FALSE, asked |-> <<>>]
    /\ outcome = <<>>
    /\ visits = 0
    /\ starts = 0

Ticking == \E again \in BOOLEAN, t \in Timeouts : Tick(again, t)

NfcNext ==
    \/ io_nfc_reader_start \/ io_nfc_reader_stop
    \/ \E t \in Timeouts : io_nfc_reader_send(t)
    \/ \E again \in BOOLEAN, t \in Timeouts : ReaderEvent(again, t)
    \/ Ticking
    \/ CardComes \/ CardAnswers \/ CardLeaves

NfcSpec == NfcInit /\ [][NfcNext]_nfcVars /\ WF_nfcVars(Ticking)

(***************************************************************************)
(* Properties                                                              *)
(***************************************************************************)
(* The callback of a command is called once at most, and an answer that it is given is the
   command's own, unless an earlier command was given up (a timeout, a new command or a
   stop before the answer): only then can os_io_nfc_reader_rx take a late answer for that
   of the command that waits. *)
NfcAnswerIsOwn ==
    \A k \in 1..Sent :
        /\ Told(k) <= 1
        /\ Told(k) = 1 /\ outcome[k][1].kind = "answer" =>
             \/ outcome[k][1].of = k
             \/ \E j \in 1..(k - 1) : outcome[j] = <<>> \/ outcome[j][1].kind # "answer"

(* A command that waits is called back in the end, with an answer, an error or a timeout,
   unless it is replaced or the reader is stopped: also when the card says nothing, is
   removed or was never there. *)
CallbackDue ==
    \A k \in 1..MaxCommands :
        ctx.resp_callback = k ~> ctx.resp_callback # k
=============================================================================
