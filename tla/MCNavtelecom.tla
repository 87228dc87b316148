---------------------------- MODULE MCNavtelecom ----------------------------
(***************************************************************************)
(* A Navtelecom device for TLC: an archive of two records, an event and a  *)
(* current position.  Some of their fields are stored, some only skipped,  *)
(* and the values in all of them differ.                                   *)
(***************************************************************************)
EXTENDS Navtelecom

Device == 7
Fields == {1, 3, 8, 9, 10, 11, 12, 13, 14, 20, 29, 37, 70}

Rec(n) == [f \in Fields |-> IF f = Sat THEN 4 * n ELSE 1000 * n + 10 * f]

Script ==
  <<[kind |-> Archive, records |-> <<Rec(1), Rec(2)>>],
    [kind |-> Event, index |-> 5, records |-> <<Rec(3)>>],
    [kind |-> Current, records |-> <<Rec(4)>>]>>
=============================================================================
