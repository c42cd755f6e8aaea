----------------------------- MODULE MCBatVElp ------------------------------
(***************************************************************************)
(* Small instances of BatVElp for TLC: 8 sequence numbers, a loss scale of *)
(* 8 and gaps of up to 2 packets.                                          *)
(***************************************************************************)
EXTENDS BatVElp
=============================================================================
