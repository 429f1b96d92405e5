---------------------------- MODULE MCOtaDevice ----------------------------
(***************************************************************************)
(* A small device and a host with two offers.                              *)
(***************************************************************************)
EXTENDS OtaDevice, TLC

CONSTANTS o1, o2

=============================================================================
