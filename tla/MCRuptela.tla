----------------------------- MODULE MCRuptela -----------------------------
(***************************************************************************)
(* A Ruptela device for TLC: a packet of one record, and one of two        *)
(* extended records, whose fields all differ.                              *)
(***************************************************************************)
EXTENDS Ruptela

Device == 7

(* A record whose fields tell n and each other apart.                      *)
Rec(n, io) ==
  [t |-> n, lon |-> 10 * n + 1, lat |-> 10 * n + 2, alt |-> 10 * n + 3,
   course |-> 10 * n + 4, sat |-> 10 * n + 5, speed |-> 10 * n + 6,
   hdop |-> 10 * n + 7, event |-> n, io |-> io]

(* The ignition, and a value that is read as an alarm but never stored.    *)
Few == <<<<<<5, 1>>, <<134, 1>>>>, <<>>, <<>>, <<>>>>
AllWidths == <<<<<<5, 0>>, <<9, 1>>>>, <<<<9, 2>>, <<30, 3>>>>, <<<<65, 4>>>>, <<<<9, 5>>>>>>

Script ==
  <<[imei |-> Device, tip |-> Records, left |-> 1, records |-> <<Rec(1, AllWidths)>>],
    [imei |-> Device, tip |-> RecordsExt, left |-> 0,
     records |-> <<Rec(2, Few), Rec(3, AllWidths)>>]>>
=============================================================================
