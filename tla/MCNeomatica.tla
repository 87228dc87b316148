---------------------------- MODULE MCNeomatica ----------------------------
(***************************************************************************)
(* A Neomatica device for TLC: two packets of data with different parts,   *)
(* and between them one of another kind, which holds no record.            *)
(***************************************************************************)
EXTENDS Neomatica

Device == 7

(* A record whose fields tell n and each other apart.                      *)
Rec(n) ==
  [t |-> n, lat |-> 100 * n + 1, lon |-> 100 * n + 2, alt |-> 100 * n + 3,
   course |-> 100 * n + 4, speed |-> 100 * n + 5, sat |-> n, hdop |-> 100 * n + 6,
   pwr_ext |-> 100 * n + 7, pwr_int |-> 100 * n + 8, vib |-> 100 * n + 9,
   in_a |-> 100 * n + 10, in_d |-> 100 * n + 20, fuel |-> 100 * n + 30,
   temp |-> 100 * n + 40, odometr |-> 100 * n + 50]

Script ==
  <<[kind |-> 0, parts |-> {"in_d", "odometr"}, r |-> Rec(1)],
    [kind |-> 2, parts |-> {"in_a"}, r |-> Rec(3)],
    [kind |-> 0, parts |-> {"vib", "in_a"}, r |-> Rec(2)]>>
=============================================================================
