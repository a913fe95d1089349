# Verification of the Ledger secure SDK

TLA+ specifications of the transports of the Ledger secure SDK (`src/`), the TLC
configurations that check them on small instances, and proofs checked by TLAPS.

## The system

An application runs on a secure element.  It has no radio and no USB controller of
its own: a second chip owns them, and the two talk over a serial link (SEPH) in
packets, events one way and commands the other way.  The SDK is what lies between
that link and the application.

    host ── USB / BLE / NFC ── MCU or radio ── SEPH ── io/os_io ── transport ── framing ── application
                                                                    │
                     lib_stusb (HID, WebUSB, U2F, CCID, CDC, keyboard), lib_blewbxx, lib_nfc

Everything runs in one thread: a call of `os_io_rx_evt` handles one event to its end.
What makes the code hard to test is therefore not threads but *events in flight*: a
command is answered by an event that arrives later, behind other events; the other
end may disconnect, reconnect, send again or never answer; and several users share
one buffer, one pending-opcode field or one handle.

### Parts

| Part | Source | State | Operations | Hard behaviours |
|---|---|---|---|---|
| Framing protocol | `protocol/` | `ledger_protocol_t`: sequence numbers, lengths, offsets, chunk | `LEDGER_PROTOCOL_init/rx/tx` | announced lengths, padding, `uint16_t` arithmetic, lost chunks, abandoned transfers, MTU changing midway |
| BLE manager | `lib_blewbxx/src/ble_ledger.c` | `ble_ledger_data`: state, three step counters, awaited opcode, connection, pairing | start, stop, reset pairings, rename, pairing answers, send, every HCI event | completions that cross commands, the shared `cmd_data`, start/stop while stopping/starting |
| BLE APDU profile | `lib_blewbxx/src/ble_ledger_profile_apdu.c` | profile handle, protocol handle, write-response and transfer-mode flags | GATT database, attribute events, acknowledgements, send, data ready | answer racing the write response, one command buffer for several forged commands |
| USB manager | `lib_stusb/src/usbd_ledger.c` | class list, configuration, interface bindings | init, start, stop, events, send, data ready | class set changing, endpoint numbering |
| USB device core | `usbd_core.c`, `usbd_ctlreq.c`, `usbd_ioreq.c`, `usbd_conf.c` | device state, control stage, stall masks | control requests, data stages, resets | request order, reset in the middle of a data stage |
| USB HID and WebUSB | `usbd_ledger_hid.c`, `usbd_ledger_webusb.c` | transfer state, protocol handle | init, setup, data in/out, send, data ready | send while busy, shared buffers, OUT endpoint not prepared after an error |
| U2F over HID | `lib_u2f/`, `usbd_ledger_hid_u2f.c` | channel, message reassembly, user presence | init, packets, CANCEL, errors, keep-alive | channel arbitration, busy answers, sequence numbers |
| CCID | `lib_ccid/`, `usbd_ledger_ccid.c` | slot, bulk messages | power on/off, transfer, abort | abort in the middle of a transfer |
| NFC | `lib_nfc/`, NFC reader of `io_legacy` | card or reader state | events, reader commands with timeout | late answer of a command that timed out |
| Event loop | `io/src/os_io.c`, `os_io_seph_cmd.c` | cached event, pending commands | rx event, tx command, default APDUs | an event that arrives while a command is being sent |
| Legacy I/O | `io_legacy/src/os_io_legacy.c` | `G_io_app`, media, APDU length | `io_exchange`, `io_seproxyhal_*` | answer routed to the medium the request came from |
| Standard application | `lib_standard_app/` | command, response, storage header, swap parameters | receive, send, storage, parsers, BIP-32, formats | response without command, storage update cut by power loss |
| Memory and lists | `lib_alloc/`, `lib_lists/` | heap chunks and free lists, linked lists | alloc, free, realloc; insert, remove, sort | coalescing, splitting, double insertion |
| TLV | `lib_tlv/` | cursor, parsed mask | DER lengths, tag dispatch, use cases | length encodings, duplicated tags |
| Address book | `app_features/address_book/` | contacts under construction | register, edit, provide | multi-step commands |
| UX, NBGL, BAGL | `lib_ux*/`, `lib_nbgl/`, `lib_bagl/` | screen stack, pages, flows | push, pop, events, layouts | events for a screen that is gone |
| Cryptography, QR codes, printf | `lib_cxng/`, `qrcode/`, `src/` | contexts | hash, sign, encrypt | numeric code, outside the reach of model checking |

## The modules

Every definition keeps the name of the function, field or state it stands for, as far as
TLA+ allows it.  A definition named `Op_Slip` is `Op` with a plausible mistake in it; no
specification uses it, it is there to show that some property tells the two apart.

| Module | What it models |
|---|---|
| `LedgerProtocol` | The pure part of `ledger_protocol.c`: what `process_apdu_chunk`, the control tags and `LEDGER_PROTOCOL_tx` make of a handle, in `uint16_t` arithmetic (`WordModulus`). |
| `LedgerEndpoint` | A driver's handle and buffers, one action per call the driver makes, its `data_ready` included. |
| `LedgerAnyPeer` | `LedgerEndpoint` facing a peer that sends any packet at any time. |
| `LedgerAnyPeerProofs` | The theorems about `LedgerAnyPeer`. |
| `ApduExchange` | Abstract: ask, hand over, answer, of whole APDUs. |
| `ApduLink` | `LedgerEndpoint` and a host that speaks the protocol, with faults; implements `ApduExchange`. |
| `BleLedger` | The BLE manager, a controller and a central. |
| `BleProfileApdu` | The APDU profile, on the handle of `LedgerProtocol`, with the manager reduced to running or advertising again. |
| `U2fHid` | The U2F packet layer and HID class, two client programs and an application. |
| `UsbDevice` | The USB device core, the manager and the classes' transfer state, a controller and a host. |
| `AppIo` | `os_io_rx_evt`, `os_io_tx_cmd`, the legacy layer and the application's loop, the MCU and hosts. |
| `MC...` | The scenarios or input sets of the instance TLC checks. |

A *scenario* is a record that says what the environment of one behaviour may do and how
often.  It is chosen in the initial state, so that one run covers several environments
without the product of all their freedoms.

### State and actions against the code

* **Bytes.**  A byte is the pair of the message and the position it comes from, a chunk
  is the span it carries.  Content is abstracted, lengths and positions are not, so
  "delivered exactly" means every byte, in order, of one message.
* **Calls.**  A handler is one action, with every state change it makes: a packet is
  received *and* `data_ready` is asked, as `os_io_rx_evt` does.  Where a call waits for
  events inside (`os_io_tx_cmd`), the calls in progress are a stack in the state of
  `AppIo`, and other actors act between its steps.
* **In flight.**  `cmds` and `evts` are the commands and events between the secure element
  and the controller, both in order.  The controller, the hosts, the centrals, the MCU
  and the applications are external: they are modelled by what the code expects of them,
  and are as free as that allows.
* **Shared fields.**  `cmd_data` of the BLE stack, the chunk buffers and the protocol
  handle are single variables, as in the code: a handler that forges two commands sends
  the last one, and a packet that is received wipes the chunk buffer.

## The runs

| Run | Module, configuration | What it shows | States |
|---|---|---|---|
| `any_peer` | `MCLedgerAnyPeer`, `LedgerAnyPeer.cfg` | Types and widths (`EndpointTypeOK`); in the middle of an APDU the offset is inside the announced length (`RxMidway`); no packet writes outside the buffer (`RxInBounds`); chunks stay inside `proto_buf` and the message (`TxInBounds`) and an answer ends at its last byte (`TxComplete`). | 326,274 |
| `space_check` | `MCLedgerAnyPeer`, `LedgerSpaceCheck.cfg` | Violated: `SpaceChecked`, see Findings. | |
| `apdu_link` | `ApduLink` | `CleanDelivery`, `OneDeliveryPerRequest` after abandoned requests, timeouts and lost chunks; without faults `RequestAnswered` and `ImplementsExchange`. | 64,073 |
| `ble_manager` | `MCBleLedger`, `BleLedger.cfg` | `NeverStuck`: a procedure always has an answer on its way; `InSync`: with nothing in flight, manager and controller agree and the device can be reached; `StoppedSilent`, `Served`, `PromptTracked`, `PairingsForgotten`; `RestartHonoured`, `StopHonoured`: what is asked for in the middle of the opposite is done. | 865,966 |
| `ble_profile` | `BleProfileApdu` | On links opened with the device at rest: `ExactDelivery`, `AnswerIntact`, `OneAnswer`, `RequestAnswered`, `WriteAnswered`, in the transfer mode too. | 421,462 |
| `u2f_exchange` | `U2fHid` | Two clients: `ExactDelivery`, `ReplyIsOwn`, `ChannelsDistinct`, `Answered`; under stray packets too `BusyHasPacket`, `ProcessingHasOwner`. | 502,568 |
| `u2f_rx_bounds` | `U2fHid`, `U2fRxBounds.cfg` | Violated: `RxInBounds`, see Findings. | |
| `usb_device` | `MCUsbDevice`, `UsbDevice.cfg` | `ReadyWhenConfigured`, `HaltTruth`, `DescriptorExact`, `ControlEnds`, `BusyEnds` under restarts, resets, suspensions, halts and given-up transfers. | 518,161 |
| `app_io` | `MCAppIo`, `AppIo.cfg` | `CacheFirst`: no event is lost or overtaken by the one-place cache; `AnswerIsOwn`: a host only gets packets of its own answer; `ExitAnswered`: the application leaves after its answer; `RequestAnswered`. | 683,176 |

Run one with `tlc -workers 2 -config <cfg> <module>`; each takes between half a minute
and three minutes.

### Bounds

* `LedgerAnyPeer.cfg`: a four-byte buffer, chunks of 0 to 6 bytes, announced lengths on
  both sides of the buffer size, sequence numbers that wrap after 3 and lengths after 16,
  MTUs below the smallest header, between the two headers, equal to `proto_buf` and one
  past it.  Every comparison of the code has inputs on both sides; the proofs below need
  no bound at all.
* `ApduLink.cfg`: requests of 0, 3, 6 and 8 bytes are none, one, a bit more than one, and
  the most the buffer takes, in chunks of 6; three requests, so that one is sent after a
  fault and one after its recovery; two MTUs, chosen anew for every chunk.
* `MCBleLedger`: two links with two messages in flight, or one link with three; with
  three in flight a completion, an event of the central and a disconnection can wait
  behind each other.
* `BleProfileApdu.cfg`: two links, so that one opens after another dropped at any point,
  and two requests of one or more writes.
* `U2fHid.cfg`: the real packet and buffer sizes; requests of one, two and three packets,
  answers on both sides of the room of an initialization packet (57); four requests.
* `MCUsbDevice`: the real size of endpoint 0; descriptors of 18, 64, 128 and 130 bytes,
  asked for with 18, 64, 128 and 255; two restarts and one or two faults.
* `MCAppIo`: an acknowledged and an unacknowledged transport, answers of one and two
  packets, a wait of two rounds where the code has five: running out and not running out
  both happen.  Tickers are not bounded.

### Fairness

Safety needs none.  The liveness properties assume:

* the device handles the events it has (`WF` on its actions, or "the event queue is
  infinitely often empty or infinitely often served"): the application's loop always calls
  `os_io_rx_evt` again, and a handler has no unbounded loop;
* the controller executes commands and the MCU sends its periodic ticker, which is
  what the turn-taking of `os_io_seph_tx` rests on;
* the host goes on with what it began: it reads an IN endpoint that holds a packet and
  finishes a control transfer, or gives it up;
* an application that holds a request answers it.  Nothing is assumed of the user: where
  one has to confirm, the properties say "answered, or waiting for the user".

None asks for strong fairness, and no property assumes that the other end stays: they end
with "or the link is gone".  `RestartHonoured` and `StopHonoured` are stated for
behaviours in which the link is quiet again and again: a central that writes without
pause makes the profile overwrite the awaited opcode and can hold a procedure for as long
as it goes on.

## What is proved

`LedgerAnyPeerProofs`, checked with `tlapm LedgerAnyPeerProofs.tla`, proves for every
buffer size, every word width, every set of chunks, MTUs and answers:

| Theorem | Statement |
|---|---|
| `InvInvariant` | `Spec => []Inv`: the inductive invariant. |
| `TypeCorrect` | `Spec => []EndpointTypeOK`: no arithmetic leaves its width. |
| `MidwayCorrect` | `Spec => []RxMidway`. |
| `RxSafety` | `RxInBounds`, and that an APDU that is handed over lies in the buffer (`DeliveredFits`). |
| `TxSafety` | `TxInBounds` and `TxComplete`. |

The assumptions are those of the declaring modules: `ProtocolSizes` (the buffers are not
empty and smaller than the word; `proto_buf` holds a header, as the code checks) and
`EndpointSets` (the peer's values have the width of the fields they are parsed from).

`RxInBounds` alone is not inductive.  What makes it so is `Midway`: between the first and
the last chunk the offset is at most the announced length and that length at most the
buffer.  It is what the subtraction that removes the padding (line 112) needs, and it has
to hold after *every* way out of `process_apdu_chunk`, also the errors that keep the
handle of a transfer that was cut.  The lemmas follow the function: `OpenedInside` (the
handle after the first header), `KeptInside` (the bytes left without padding),
`StoredInside` (the handle after the copy), joined by `ChunkSafe`.  The transmit side needs
that the offset is inside the message until the message is finished (`TxInside`):
`LoadedInside` and `AdvancedInside`.  Each action of `LedgerAnyPeer` then has its lemma
(`RxApduInv`, `RxControlInv`, `TxInv`, `RestartInv`).

Only model-checked: every property of the other modules; that `ApduLink` implements
`ApduExchange`; liveness, which is out of the prover's reach.

## Findings

* `space_check`: the comment "Check if we have enough space to store the apdu"
  (`protocol/src/ledger_protocol.c:92`) stands above a comparison with the whole buffer,
  although the type byte takes its first place.  An APDU of exactly the buffer's size
  passes, and is refused in the middle of its transfer by the second check, which is what
  keeps `RxInBounds` true.
* `u2f_rx_bounds`: "Check if packet will fit in the rx buffer"
  (`lib_u2f/src/u2f_transport.c:113`): the announced length is stored before it is
  compared, and a refused one stays in the handle of the message that was being received,
  whose continuation packets are then measured against it.

Behaviour the models show and the properties are worded around, because nothing in the
repository promises otherwise:

* An answer cut by a BLE disconnection goes on over the next link: `connection_evt`
  resets neither the reassembly nor the answer (hence `central.clean`).
* A restart of the BLE stack for another profile mask forgets a link whose connection
  event is still on its way (hence `Steady`).
* A BLE stop asked for after the command that starts the advertising was sent waits for
  the next start of advertising (hence `BeforeAdvertising`).
* On U2F any packet, also a refused one, changes the channel the rest of an answer goes
  to; clients have to take turns (hence the stray scenario has fewer properties).
* A request that reaches a second transport while an answer waits for the user takes the
  answer's route away; the pending answer is then not sent (`AnswerIsOwn` allows it, and
  `RequestAnswered` is for hosts that take turns).
* The wait of `os_io_tx_cmd` may run out before a long last answer is read
  (`ExitAnswered` excepts it).

## What is not modelled

* Cryptography, QR codes, drawing (`lib_cxng`, `qrcode`, `lib_bagl`, most of `lib_nbgl`),
  `printf` and the system-call stubs: numeric or presentation code, generated code.
* The layouts of commands, descriptors and status words, except their lengths where a
  property is about them.
* In the modelled files: remote wake-up and test mode of USB, the HID class requests
  (idle rate, protocol), the attribute contents of the GATT database, connection
  parameters other than the interval's update, time (a timeout may come at any moment).
* The parts the table above lists and the plan below has left.

## Plan

Done: the framing with its proofs, the BLE manager and profile, U2F over HID, the USB
device, and the event loop with the legacy layer.  Left, in this order:

| Step | Modules | Runs, bounds | Abstract specification, theorems |
|---|---|---|---|
| 1 | `MemAlloc` (`mem_alloc.c`), `Lists` (`lists.c`) | One run each; a heap of a few chunks in units of the alignment, lists of four nodes | The heap as a set of disjoint blocks, the list as a sequence; chunks tile the heap, free lists and allocated bits agree, no block is handed out twice |
| 2 | `AppStorage` (`app_storage.c`) with a power loss between any two writes; `NfcReader` (`os_io_legacy.c`) with a timeout racing a late answer | One run with two components | Storage: after a restart either the old or the new contents are valid, or the loss is reported |
| 3 | `Tlv`, BIP-32 paths, varint, base 58, formats, `buffer.c` as operators | Bounded inputs against reference definitions, in one run | Lemmas about the cursor: it never passes the end |
| 4 | `Ccid`, the WebUSB, CDC and keyboard classes | Join `usb_device` as further kinds of class, or one run | |
| 5 | `AddressBook`, UX stack and flows, navigation of the NBGL use cases | One run with several components | |
| 6 | Proofs | | `CacheFirst` of `AppIo` (inductive as it stands, with the shape of the records); `CleanDelivery` and the refinement of `ApduExchange` by `ApduLink`; `HaltTruth` of `UsbDevice`; `ChannelsDistinct` of `U2fHid`; the tiling of `MemAlloc` |

Compositions: `BleProfileApdu` already contains the framing; `UsbDevice` with the
reassembly of `LedgerEndpoint` (the OUT endpoint after a framing error), and `AppIo` with
`os_io_init`, `os_io_start` and `os_io_stop` over abstract transports, follow step 2.
