------------------------------- MODULE MCEgts -------------------------------
(***************************************************************************)
(* Two EGTS devices for TLC, whose imeis are their numbers.  The first     *)
(* tells its imei at the end of its first packet, which is all the decoder *)
(* can make use of; the second does so first, in a packet that goes on     *)
(* after it.                                                               *)
(***************************************************************************)
EXTENDS Egts

Pos(n, alt) ==
  [type |-> PosData, t |-> n, lat |-> 11184810 * n, lon |-> 11184810 + n, speed |-> 300 + 20 * n,
   course |-> 30 + n, odometer |-> 40 + n, ign |-> 1, event |-> 50 + n, alt |-> alt]
Ext(n) == [type |-> ExtPosData, hdop |-> 60 + n, sat |-> n]
Sensor == [type |-> AdSensorsData, out |-> 71, in1 |-> 72, in8 |-> 73, a2 |-> 74]
Level == [type |-> LiquidLevelSensor, liquid |-> 81]
Ident(imei) == [type |-> TermIdentity, imei |-> imei]

Rec(index, flags, service, subrecords) ==
  [index |-> index, flags |-> flags, service |-> service, subrecords |-> subrecords]

Auth(imei) == Rec(9, 0, ServiceAuth, <<Ident(imei)>>)

Identified ==
  <<[index |-> 1, records |-> <<Rec(4, 1, ServiceTeledata, <<Pos(1, 0), Ext(5)>>),
                                Rec(5, 0, ServiceTeledata, <<Pos(2, 7)>>), Auth(1)>>],
    [index |-> 2, records |-> <<Rec(6, 6, ServiceTeledata, <<Pos(3, 0), Sensor, Level>>)>>]>>

IdentityFirst ==
  <<[index |-> 3, records |-> <<Auth(2), Rec(7, 0, ServiceTeledata, <<Pos(4, 8)>>)>>]>>

DeviceScripts == <<Identified, IdentityFirst>>

(* All that a cut leaves on the wire of these packets.                     *)
Leftovers ==
  LET packets == {Identified[1], Identified[2], IdentityFirst[1]}
  IN  UNION {{Skip(Encode(p), n) : n \in 0..Bytes(Encode(p))} : p \in packets}
=============================================================================
