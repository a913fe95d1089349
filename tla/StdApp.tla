------------------------------- MODULE StdApp -------------------------------
(***************************************************************************)
(* The life of an application built on lib_standard_app: how main.c starts *)
(* it from the dashboard or as a library of Exchange, how the commands of  *)
(* the class of the OS are answered for it (io_legacy_apdu_rx and          *)
(* io/src/os_io_default_apdu.c), and how its answers end a swap            *)
(* (lib_standard_app/io.c, swap_error_code_helpers.c).                     *)
(* A command is a sequence of bytes: class, instruction, P1, P2, Lc, data. *)
(***************************************************************************)
EXTENDS Integers, Sequences, SequencesExt

CONSTANTS
    StdCommands,                           \* the commands the host may send
    RxSize,                                \* sizeof(G_io_rx_buffer), type byte left out
    SWAP_ERROR_HELPER_MAX_BUFFER_COUNT,
    TxBuffers                              \* how many buffers fit in G_io_tx_buffer

ASSUME StdAppAssumption == \A c \in StdCommands : Len(c) <= RxSize

\* One record:
\*   mode    where the processor is: "dashboard", "exchange", or in the
\*           application, "standalone" or "library"
\*   swap, ready   G_called_from_swap, G_swap_response_ready
\*   cell    TRUE if G_swap_signing_return_value_address is Exchange's result
\*   result  Exchange's result
\*   io      TRUE once os_io_start was called, starting: need_to_start_io
\*   rx, len G_io_rx_buffer with what earlier commands left, the bytes received
\*   type    io_os_legacy_apdu_type is the one of a command
\*   owner   who handles the command: nobody, the application, or the default
\*           commands, for an answer that is sent later
\*   sent    the last answer the host got since the start
\*   locked  the PIN is set and not validated
VARIABLE std

stdVars == <<std>>

DEFAULT_APDU_CLA == 176
GET_VERSION == 1
GET_SEED_COOKIE == 2
LOAD_CERTIFICATE == 6
ADDRESS_BOOK == 16
STACK_CONSUMPTION == 87
APP_EXIT == 167

APDU_OFF_LC == 4
APDU_OFF_DATA == 5

NotSent == [sw |-> "none", out |-> <<>>, last |-> FALSE]

-----------------------------------------------------------------------------
(* The commands of the class of the OS *)

\* The byte of the buffer at an offset, received or not.
RxByte(rx, off) == rx[off + 1]

\* An answer, with the payload that was used for it.
Says(sw, out) == [sw |-> sw, out |-> out, exit |-> FALSE, used |-> <<>>]

Truncated(rx, len) == len <= APDU_OFF_LC \/ len < APDU_OFF_DATA + RxByte(rx, APDU_OFF_LC)

NoParameters(rx) == RxByte(rx, 2) = 0 /\ RxByte(rx, 3) = 0

\* The bytes given to the loader of certificates and to the address book.
ApduPayload(rx) == SubSeq(rx, APDU_OFF_DATA + 1, APDU_OFF_DATA + RxByte(rx, APDU_OFF_LC))

\* os_io_handle_default_apdu.  What the OS says of a certificate, and whether the
\* address book answers at once, is a function of the bytes it is given.
get_seed_cookie(locked) == IF locked THEN Says("CONDITIONS", <<>>) ELSE Says("SUCCESS", <<1, 64>>)
get_stack_consumption(mode, stack) == Says("SUCCESS", <<mode, stack>>)
pki_load_certificate(payload, usage) ==
    [Says(IF payload = <<>> THEN "PKI error" ELSE "SUCCESS", <<>>) EXCEPT !.used = payload \o <<usage>>]
addr_book_handle_apdu(payload) ==
    [Says(IF payload = <<>> THEN "WRONG_DATA" ELSE "NO_RESPONSE", <<>>) EXCEPT !.used = payload]

DefaultCommand(rx, len, locked) ==
    CASE RxByte(rx, 1) = GET_VERSION ->
            IF NoParameters(rx) THEN Says("SUCCESS", <<1, 1>>) ELSE Says("INVALID_CLA", <<>>)
      [] RxByte(rx, 1) = GET_SEED_COOKIE ->
            IF NoParameters(rx) THEN get_seed_cookie(locked) ELSE Says("INVALID_CLA", <<>>)
      [] RxByte(rx, 1) = STACK_CONSUMPTION ->
            IF RxByte(rx, 2) > 1 \/ RxByte(rx, 3) > 1 THEN Says("WRONG_P1_P2", <<>>)
            ELSE IF len <= APDU_OFF_LC \/ RxByte(rx, APDU_OFF_LC) = 0
            THEN get_stack_consumption(RxByte(rx, 2), RxByte(rx, 3))
            ELSE Says("INCORRECT_P3_LENGTH", <<>>)
      [] RxByte(rx, 1) = APP_EXIT ->
            IF NoParameters(rx) THEN [Says("SUCCESS", <<>>) EXCEPT !.exit = TRUE]
            ELSE Says("INVALID_CLA", <<>>)
      [] RxByte(rx, 1) = LOAD_CERTIFICATE ->
            IF Truncated(rx, len) THEN Says("INCORRECT_P3_LENGTH", <<>>)
            ELSE pki_load_certificate(ApduPayload(rx), RxByte(rx, 2))
      [] RxByte(rx, 1) = ADDRESS_BOOK ->
            IF Truncated(rx, len) THEN Says("INCORRECT_P3_LENGTH", <<>>)
            ELSE addr_book_handle_apdu(ApduPayload(rx))
      [] OTHER -> Says("INVALID_CLA", <<>>)

\* A command of no byte returns *post_action, which is no response.
os_io_handle_default_apdu(rx, len, locked) ==
    IF len = 0 THEN Says("NO_RESPONSE", <<>>)
    ELSE IF len < APDU_OFF_LC THEN Says("WRONG_LENGTH", <<>>)
    ELSE DefaultCommand(rx, len, locked)

-----------------------------------------------------------------------------
(* Starting and leaving *)

StdInit ==
    std = [mode |-> "dashboard", swap |-> FALSE, ready |-> FALSE, cell |-> FALSE, result |-> FALSE,
           io |-> FALSE, starting |-> FALSE, rx |-> [i \in 1 .. RxSize |-> 0], len |-> 0,
           type |-> FALSE, owner |-> "nobody", sent |-> NotSent, locked |-> FALSE]

HandlerRunning == std.mode \in {"standalone", "library"}

\* common_app_init and the io_init of app_main.
common_app_init(s) == [s EXCEPT !.starting = TRUE, !.io = FALSE]

\* A start finds in RAM what another application left.
ExchangeBegun(mode, swap, ready) ==
    [std EXCEPT !.mode = mode, !.swap = swap, !.ready = ready, !.cell = FALSE, !.sent = NotSent,
                !.type = FALSE, !.owner = "nobody", !.len = 0, !.result = FALSE]

\* main(0)
standalone_app_main ==
    /\ std.mode = "dashboard"
    /\ \E swap, ready \in BOOLEAN :
          std' = [common_app_init(ExchangeBegun("standalone", swap, ready))
                     EXCEPT !.swap = FALSE, !.ready = FALSE]

\* The dashboard starts Exchange.
StartExchange == std.mode = "dashboard" /\ std' = ExchangeBegun("exchange", FALSE, FALSE)

\* main(args): SIGN_TRANSACTION, which gives up if the parameters are not
\* copied; the other commands only call their handler and end.
SignTransaction(success, swap, ready) ==
    IF ~success THEN ExchangeBegun("exchange", swap, ready)
    ELSE [common_app_init(ExchangeBegun("library", swap, ready))
             EXCEPT !.swap = TRUE, !.ready = FALSE, !.cell = TRUE]

library_app_main ==
    /\ std.mode = "exchange"
    /\ \E swap, ready \in BOOLEAN :
          \/ \E success \in BOOLEAN : std' = SignTransaction(success, swap, ready)
          \/ std' = ExchangeBegun("exchange", swap, ready)

\* A wrong identifier ends the application instead of the call.
WrongId == std.mode = "exchange" /\ std' = [std EXCEPT !.mode = "dashboard"]

os_lib_end(s) == [s EXCEPT !.mode = "exchange", !.type = FALSE, !.owner = "nobody"]
os_sched_exit(s) == [s EXCEPT !.mode = "dashboard", !.io = FALSE, !.type = FALSE, !.owner = "nobody"]

\* An exception the application does not catch.
Throws ==
    /\ HandlerRunning /\ std.owner = "application"
    /\ std' = IF std.mode = "standalone" THEN os_sched_exit(std) ELSE os_lib_end(std)

-----------------------------------------------------------------------------
(* Commands and answers *)

\* The answer goes out if the transport takes it.
SentAs(s, answer, taken) ==
    [s EXCEPT !.sent = IF taken THEN answer ELSE @, !.type = FALSE, !.owner = "nobody"]

\* io_legacy_apdu_rx, for a default command.
AfterDefault(s, r, taken) ==
    IF r.sw = "NO_RESPONSE" THEN [s EXCEPT !.owner = IF s.len = 0 THEN "nobody" ELSE "default"]
    ELSE IF r.exit THEN os_sched_exit(SentAs(s, [sw |-> r.sw, out |-> r.out, last |-> FALSE], taken))
    ELSE SentAs(s, [sw |-> r.sw, out |-> IF r.sw = "SUCCESS" THEN r.out ELSE <<>>, last |-> FALSE], taken)

Dispatched(s, taken) ==
    IF s.locked THEN SentAs(s, [sw |-> "SEC_PIN_15", out |-> <<>>, last |-> FALSE], taken)
    ELSE IF RxByte(s.rx, 0) = DEFAULT_APDU_CLA
    THEN AfterDefault(s, os_io_handle_default_apdu(s.rx, s.len, s.locked), taken)
    ELSE [s EXCEPT !.owner = IF s.len = 0 THEN "nobody" ELSE "application"]

\* io_recv_command: the io is started first; a command overwrites the beginning
\* of the buffer.
Overwritten(rx, command) == [i \in 1 .. RxSize |-> IF i <= Len(command) THEN command[i] ELSE rx[i]]

io_recv_command ==
    /\ HandlerRunning /\ std.owner = "nobody"
    /\ \E command \in StdCommands, taken \in BOOLEAN :
          std' = Dispatched([std EXCEPT !.io = TRUE, !.starting = FALSE, !.type = TRUE,
                                        !.rx = Overwritten(std.rx, command), !.len = Len(command)],
                            taken)

\* An asynchronous answer of a default command (address_book).
LateAnswer ==
    /\ HandlerRunning /\ std.owner = "default"
    /\ \E taken \in BOOLEAN :
          std' = SentAs(std, [sw |-> "SUCCESS", out |-> <<>>, last |-> FALSE], taken)

\* io_send_response_buffers, with "count" buffers: in a swap that is ready, the
\* answer is the last one.
FittingBuffers(count, sw) == IF count > TxBuffers THEN "INSUFFICIENT_MEMORY" ELSE sw
Answer(sw, last) == [sw |-> sw, out |-> <<>>, last |-> last]

LastAnswer_Slip(s, sw, taken) ==
    IF taken THEN os_lib_end([SentAs(s, Answer(sw, TRUE), TRUE) EXCEPT !.result = TRUE])
    ELSE os_sched_exit(s)
LastAnswer(s, sw, taken) ==
    IF taken THEN os_lib_end([SentAs(s, Answer(sw, TRUE), TRUE) EXCEPT !.result = (sw = "SUCCESS")])
    ELSE os_sched_exit(s)

Responded(s, sw, taken) ==
    IF s.swap /\ s.ready THEN LastAnswer(s, sw, taken) ELSE SentAs(s, Answer(sw, FALSE), taken)

io_send_response_buffers(s, count, sw, taken) == Responded(s, FittingBuffers(count, sw), taken)

Respond ==
    /\ HandlerRunning /\ std.owner = "application"
    /\ \E count \in 0 .. TxBuffers + 1, sw \in {"SUCCESS", "DENIED"}, taken \in BOOLEAN :
          std' = io_send_response_buffers(std, count, sw, taken)

\* The application has checked the transaction against the parameters of the swap.
SwapChecked ==
    /\ std.mode = "library" /\ std.owner = "application" /\ ~std.ready
    /\ std' = [std EXCEPT !.ready = TRUE]

\* send_swap_error_with_buffers: never returns.
Capped(count) ==
    IF count > SWAP_ERROR_HELPER_MAX_BUFFER_COUNT THEN SWAP_ERROR_HELPER_MAX_BUFFER_COUNT ELSE count
send_swap_error_with_buffers ==
    /\ HandlerRunning /\ std.owner = "application"
    /\ \E count \in 0 .. TxBuffers + 1, taken \in BOOLEAN :
          std' = IF ~std.swap THEN os_sched_exit(std)
                 ELSE io_send_response_buffers([std EXCEPT !.ready = TRUE], Capped(count) + 1,
                                               "SWAP_FAIL", taken)

\* The user locks the device, or enters the PIN.
LockOrUnlock == HandlerRunning /\ std.owner = "nobody" /\ std' = [std EXCEPT !.locked = ~@]

\* Exchange ends.
ExchangeEnds == std.mode = "exchange" /\ std' = [std EXCEPT !.mode = "dashboard"]

StdNext ==
    \/ standalone_app_main \/ StartExchange \/ library_app_main \/ WrongId \/ Throws
    \/ io_recv_command \/ LateAnswer \/ Respond \/ SwapChecked \/ send_swap_error_with_buffers
    \/ LockOrUnlock \/ ExchangeEnds

StdSpec == StdInit /\ [][StdNext]_stdVars

-----------------------------------------------------------------------------
(* Properties *)

\* The result of a swap is the status of its last answer.
SwapResultTrue ==
    /\ std.mode = "library" => std.swap /\ std.cell /\ ~std.result /\ ~std.sent.last
    /\ std.mode = "standalone" => ~std.swap /\ ~std.sent.last
    /\ std.mode = "exchange" => std.result = (std.sent.last /\ std.sent.sw = "SUCCESS")

\* What a default command does depends on the bytes received, never on what an
\* earlier command left after them in the buffer (os_io_handle_default_apdu:
\* "Without these guards, Lc and data would be read from uninitialized
\* G_io_rx_buffer past the actually-received APDU").
DefaultReadsReceived ==
    RxByte(std.rx, 0) = DEFAULT_APDU_CLA =>
        \A b \in {0, 1, 2} :
            os_io_handle_default_apdu(std.rx, std.len, FALSE)
              = os_io_handle_default_apdu([i \in 1 .. RxSize |-> IF i <= std.len THEN std.rx[i] ELSE b],
                                          std.len, FALSE)


=============================================================================
