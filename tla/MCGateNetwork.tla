---------------------------- MODULE MCGateNetwork ----------------------------
(* A small instance of GateNetwork: networks of up to three gates over the   *)
(* two constants, with one output.                                          *)
EXTENDS GateNetwork

=============================================================================
