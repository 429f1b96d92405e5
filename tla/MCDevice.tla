-------------------------------- MODULE MCDevice --------------------------------
(***************************************************************************)
(* Small instances of the device.                                          *)
(***************************************************************************)
EXTENDS DevicePresses

CONSTANTS c1, c2

OneSession == [r \in Perms |-> CHOOSE s \in Sessions : TRUE]
OneRequest == [q \in Questions |-> "request"]
OneOption == <<c1>>
TwoOptions == <<c1, c2>>

AllEvents == Events
================================================================================
