------------------------------ MODULE MCArnavi ------------------------------
(***************************************************************************)
(* An Arnavi device for TLC: a ping, some binary data, and a position.     *)
(***************************************************************************)
EXTENDS Arnavi

Device == 7

Script ==
  <<[type |-> RecordPing, index |-> 1],
    [type |-> RecordBinary, index |-> 2, length |-> 6, t |-> 5],
    [type |-> RecordData, index |-> 3, t |-> 8, lat |-> 21, lon |-> 22, course |-> 23,
     alt |-> 24, sat |-> 25, speed |-> 26]>>
=============================================================================
