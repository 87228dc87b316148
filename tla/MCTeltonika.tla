---------------------------- MODULE MCTeltonika ----------------------------
(***************************************************************************)
(* A Teltonika device for TLC: two packets, of two records and of one, in  *)
(* codec 8 and codec 8 extended, whose fields all differ.                  *)
(***************************************************************************)
EXTENDS Teltonika

Device == 7

(* A record whose fields tell n and each other apart; io and nx as given.  *)
Rec(n, io, nx) ==
  [t |-> n, lon |-> 10 * n + 1, lat |-> 10 * n + 2, alt |-> 10 * n + 3,
   course |-> 10 * n + 4, sat |-> 10 * n + 5, speed |-> 10 * n + 6,
   event |-> n % 2, io |-> io, nx |-> nx]

OneByte == <<<<<<1, 1>>, <<239, 2>>>>, <<>>, <<>>, <<>>>>
AllWidths == <<<<<<1, 3>>>>, <<<<66, 4>>>>, <<<<16, 5>>>>, <<<<78, 6>>>>>>

BothCodecs ==
  <<[codec |-> Codec8, records |-> <<Rec(1, OneByte, <<>>), Rec(2, AllWidths, <<>>)>>],
    [codec |-> Codec8Ext, records |-> <<Rec(3, AllWidths, <<>>)>>]>>

(* An element of eight bytes in the last group of codec 8 extended.        *)
NxScript == <<[codec |-> Codec8Ext, records |-> <<Rec(1, OneByte, <<8>>)>>]>>
=============================================================================
