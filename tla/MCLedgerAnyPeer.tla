-------------------------- MODULE MCLedgerAnyPeer --------------------------
(***************************************************************************)
(* LedgerAnyPeer on a four-byte buffer: every chunk length, sequence       *)
(* number and announced length around it, and MTUs around the two header   *)
(* sizes and the size of proto_buf.                                        *)
(***************************************************************************)
EXTENDS LedgerAnyPeer

MCChunks == [length : 0 .. 6, seq : 0 .. 2, total : {0, 3, 4, 5}, msg : {1}, from : {0}]
=============================================================================
