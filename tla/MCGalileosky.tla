---------------------------- MODULE MCGalileosky ----------------------------
(***************************************************************************)
(* A GalileoSky device for TLC: a packet of two records and a compressed   *)
(* one of two records, whose fields all differ.                            *)
(***************************************************************************)
EXTENDS Galileosky

Device == 7

(* A record whose fields tell n and each other apart.                      *)
Rec(n, io) ==
  [t |-> n, lat |-> 10 * n + 1, lon |-> 10 * n + 2, alt |-> 10 * n + 3,
   course |-> 10 * n + 4, speed |-> 10 * n + 5, io |-> io]

(* Status and input; a fuel level in the first record only.                *)
Script ==
  <<[compressed |-> FALSE, imei |-> Device,
     records |-> <<Rec(1, <<<<64, 6>>, <<96, 7>>>>), Rec(2, <<<<64, 8>>, <<70, 9>>>>)>>],
    [compressed |-> TRUE, imei |-> Device,
     records |-> <<Rec(3, <<<<70, 10>>>>), Rec(4, <<<<70, 11>>>>)>>]>>
=============================================================================
