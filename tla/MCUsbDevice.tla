---------------------------- MODULE MCUsbDevice ----------------------------
(***************************************************************************)
(* Two scenarios: one or two classes with halted endpoints and restarts,   *)
(* and one class whose host reads descriptors of lengths on both sides of  *)
(* the packet size, with faults at any moment.                             *)
(***************************************************************************)
EXTENDS UsbDevice

MCScenarios ==
    {[masks |-> {{"hid"}, {"hid", "u2f"}}, descriptors |-> {}, wLengths |-> {},
      halts |-> TRUE, requests |-> 2, faults |-> 1, restarts |-> 2, sends |-> 1],
     [masks |-> {{"hid"}}, descriptors |-> {18, 64, 128, 130}, wLengths |-> {18, 64, 128, 255},
      halts |-> FALSE, requests |-> 1, faults |-> 2, restarts |-> 2, sends |-> 1]}
=============================================================================
