-------------------------------- MODULE Egts --------------------------------
(***************************************************************************)
(* The decoder of egts.go as a function of one buffer: the responses it    *)
(* sends, the records, the imei, and whether its loop ends; and what a     *)
(* device sends and may expect.  The handlers are in EgtsServer.           *)
(*                                                                         *)
(* The lengths of subrecords are read by the code and never used, so that  *)
(* one of a type it does not know is read as a run of further ones; the    *)
(* devices here send none.                                                 *)
(***************************************************************************)
EXTENDS Wire, Integers, TLC

PtResponse == 0
PtAppdata == 1
ServiceAuth == 1
ServiceTeledata == 2
TermIdentity == 1
PosData == 16
ExtPosData == 17
AdSensorsData == 18
LiquidLevelSensor == 27

-----------------------------------------------------------------------------
(* Reading.  Two digits of an imei that are taken for a length make one    *)
(* that is beyond every buffer here: 0x3030 or more.                       *)
Check(number, index) == (number \div 2^index) % 2 = 1
Length(b) == IF b # <<>> /\ Head(b).w > 4 THEN 12336 ELSE Get(b, 2)

(* The first n bytes after those read, by Bytes()[:n]: of a shorter buffer *)
(* that is a panic, or not, with the capacity of the slice behind it.  In  *)
(* short is, for every such slice, what had been sent before it.           *)
Sliced(d, n) ==
  [d EXCEPT !.short = @ \cup (IF Bytes(d.b) < n THEN {d.responses} ELSE {}), !.b = Skip(@, n)]
Skipped(d, n) == [d EXCEPT !.b = Skip(@, n)]

(* A run of reads into variables that are declared outside of the loops: a *)
(* read that fails leaves one as it was.                                   *)
Kept(b, widths, old) ==
  LET End(k) == FoldLeft(LAMBDA n, w : n + w, 0, SubSeq(widths, 1, k))
  IN  [k \in DOMAIN widths |-> IF Bytes(b) < End(k) THEN old[k] ELSE Parse(b, widths)[k]]
Set(d, key, value) == [d EXCEPT !.params = key :> value @@ @]

(* A value of n bytes that is stored as a param if the bit is set.         *)
Optional(d, flags, bit, key, n) ==
  IF Check(flags, bit) THEN Skipped(Set(d, key, Get(d.b, n)), n) ELSE d

Result == 65536     \* stands for MSG_RESULT_CODE, where others have a record's index
Respond(d, type, index, of) ==
  [d EXCEPT !.responses = Append(@, [type |-> type, index |-> index, of |-> of])]

(* lat * 90 / 0xfffffff in 32 bits: k times the two halves of n, whose     *)
(* product wraps around, divided by 2^28 - 1.                              *)
Degrees(n, k) ==
  LET low == (n % 65536) * k
      high == ((n \div 65536) * k + (low \div 65536)) % 65536
      rest == (high % 4096) * 65536 + (low % 65536)
      whole == high \div 4096
  IN  IF whole + rest >= 2^28 - 1 THEN whole + 1 ELSE whole

-----------------------------------------------------------------------------
(* The subrecords *)

(* Truncate(n) is meant to read the imei: it keeps n bytes in the buffer,  *)
(* throws away all that follows, and consumes nothing.                     *)
Named(d, flags, bit, n) ==
  IF ~Check(flags, bit) THEN d
  ELSE IF Bytes(d.b) < n THEN [d EXCEPT !.panic = TRUE]
  ELSE [d EXCEPT !.b = Cut(@, n), !.imei = Get(Cut(d.b, n), 15)]
Identity(d) ==
  LET flags == Get(Skip(d.b, 4), 1)
      Past(e, bit, n) == IF Check(flags, bit) THEN Skipped(e, n) ELSE e
      imei == Named(Past(Skipped(d, 5), 0, 2), flags, 1, 15)
      imsi == Named(imei, flags, 2, 16)
      msisdn == Named(Past(Past(Past(imsi, 3, 3), 5, 3), 6, 2), flags, 7, 15)
  IN  IF msisdn.panic THEN msisdn ELSE Respond(msisdn, PtAppdata, 0, Result)

(* Only the low byte of the speed is used, in tenths.  1262304000 is added *)
(* to the time whether or not it was read (epochs).                        *)
Position(d) ==
  LET v == Kept(d.b, <<4, 4, 4, 1, 2, 1, 3, 1, 1>>,
                <<d.pos.t, d.lat, d.lon, 0, d.pos.speed, d.pos.course, 0, 0, 0>>)
      Signed(n, bit) == IF Check(v[4], bit) THEN -n ELSE n
      read == Skipped(Set(Set(Set(Sliced(Skipped(d, 16), 3),
                 <<"odometer">>, v[7] * 100), <<"ign">>, v[8]), <<"event_id">>, v[9]), 2)
      high == Check(v[4], 7)
  IN  [(IF high THEN Sliced(read, 3) ELSE read) EXCEPT
         !.lat = v[2], !.lon = v[3],
         !.pos = [t |-> v[1], epochs |-> IF Bytes(d.b) < 4 THEN @.epochs + 1 ELSE 1,
                  lat |-> Signed(Degrees(v[2], 90), 5), lon |-> Signed(Degrees(v[3], 180), 6),
                  speed |-> (v[5] % 256) \div 10, course |-> v[6],
                  alt |-> IF high THEN Get(read.b, 3) ELSE @.alt, sat |-> @.sat]]

ExtPosition(d) ==
  LET flags == Get(d.b, 1)
      read == Optional(Optional(Optional(Skipped(d, 1),
                 flags, 0, <<"vdop">>, 2), flags, 1, <<"hdop">>, 2), flags, 2, <<"pdop">>, 2)
  IN  IF Check(flags, 3)
      THEN Skipped([read EXCEPT !.pos.sat = Kept(read.b, <<1>>, <<@>>)[1]], 1)
      ELSE read

RECURSIVE Inputs(_, _, _), Analog(_, _, _)
Inputs(d, mask, i) == IF i = 8 THEN d ELSE Inputs(Optional(d, mask, i, <<"in", i + 1>>, 1), mask, i + 1)
Analog(d, mask, i) ==
  IF i = 8 THEN d
  ELSE IF ~Check(mask, i) THEN Analog(d, mask, i + 1)
  ELSE Analog(Sliced(Set(d, <<"a", i + 1>>, Get(d.b, 3)), 3), mask, i + 1)

Sensors(d) ==
  LET v == Parse(d.b, <<1, 1, 1>>)
  IN  Analog(Inputs(Skipped(Set(d, <<"key_output">>, v[2]), 3), v[1], 0), v[3], 0)

LiquidUnaddressed(d) ==
  LET flags == Get(d.b, 1)
      read == Skipped(d, 1)
  IN  IF Check(flags, 3) THEN Set(read, <<"liquidRaw">>, 0)
      ELSE Skipped(Set(read, <<"liquid">>, Get(read.b, 4)), 4)
Liquid(d) ==
  LET flags == Get(d.b, 1)
      read == Skipped(d, 3)
  IN  IF Check(flags, 3) THEN Set(read, <<"liquidRaw">>, 0)
      ELSE Skipped(Set(read, <<"liquid">>, Get(read.b, 4)), 4)

(* A record of teledata yields a Record for every one of its subrecords,   *)
(* with the latest position and the params that all of them share.         *)
Subrecord(d, service) ==
  LET type == Get(d.b, 1)
      body == Skipped(d, 3)
      read == CASE type = TermIdentity -> Identity(body)
                [] type = PosData -> Position(body)
                [] type = ExtPosData -> ExtPosition(body)
                [] type = AdSensorsData -> Sensors(body)
                [] type = LiquidLevelSensor -> Liquid(body)
                [] OTHER -> body
  IN  IF service = ServiceTeledata THEN [read EXCEPT !.records = Append(@, read.pos)] ELSE read

(* The loop goes on until the record's end is reached.  At the end of the  *)
(* buffer it still goes on, and reads nothing.                             *)
RECURSIVE SubrecordsInBuffer(_, _, _)
SubrecordsInBuffer(d, end, service) ==
  IF d.panic \/ d.length - Bytes(d.b) >= end \/ d.b = <<>> THEN d
  ELSE SubrecordsInBuffer(Subrecord(d, service), end, service)
RECURSIVE Subrecords(_, _, _)
Subrecords(d, end, service) ==
  IF d.panic \/ d.length - Bytes(d.b) >= end THEN d
  ELSE IF d.b = <<>> THEN [d EXCEPT !.endless = TRUE]
  ELSE Subrecords(Subrecord(d, service), end, service)

-----------------------------------------------------------------------------
(* The records.  Each is answered before it is decoded.  Bit 1 of the      *)
(* flags is tested twice, for two fields of four bytes.                    *)
Header(d, index) ==
  LET flags == Get(Skip(d.b, 4), 1)
      service == Skip(d.b, 5 + (IF Check(flags, 0) THEN 4 ELSE 0) + (IF Check(flags, 1) THEN 8 ELSE 0))
  IN  [read |-> Respond([d EXCEPT !.b = Skip(service, 2)], PtResponse, index, Get(Skip(d.b, 2), 2)),
       service |-> Get(service, 1), size |-> Length(d.b)]
DecodeRecord(h) ==
  Subrecords(h.read, h.read.length - Bytes(h.read.b) + h.size, h.service)

RECURSIVE RecordsToTheEnd(_, _)
RecordsToTheEnd(d, index) ==
  IF d.panic \/ d.endless \/ d.b = <<>> THEN d ELSE RecordsToTheEnd(DecodeRecord(Header(d, index)), index)
RECURSIVE Records(_, _)
Records(d, index) ==
  IF d.panic \/ d.endless \/ Bytes(d.b) <= 2 THEN d ELSE Records(DecodeRecord(Header(d, index)), index)

Nowhere == [t |-> 0, epochs |-> 0, lat |-> 0, lon |-> 0, speed |-> 0, course |-> 0, alt |-> 0, sat |-> 0]
Start(b) ==
  [b |-> b, length |-> Bytes(b), imei |-> Unknown, lat |-> 0, lon |-> 0, pos |-> Nowhere,
   params |-> <<>>, records |-> <<>>, responses |-> <<>>, short |-> {}, panic |-> FALSE, endless |-> FALSE]

Decode(b) ==
  IF Get(Skip(b, 3), 1) = PtResponse THEN Start(b)
  ELSE Records([Start(b) EXCEPT !.b = Skip(b, 4 + Get(b, 1))], Get(Skip(b, 1), 2))

(* What may come of it: it runs on, or one of the slices is a panic.       *)
Outcomes(b) ==
  LET d == Decode(b)
  IN  {d} \cup {[d EXCEPT !.responses = r, !.panic = TRUE, !.endless = FALSE] : r \in d.short}

-----------------------------------------------------------------------------
(* The devices: a packet is a sequence of records, each with its flags and *)
(* service, and these are sequences of subrecords.                         *)
EncodeSubrecord(s) ==
  LET Body ==
        CASE s.type = TermIdentity -> <<F(4, 0), F(1, 2), F(15, s.imei)>>
          [] s.type = PosData ->
               <<F(4, s.t), F(4, s.lat), F(4, s.lon), F(1, IF s.alt = 0 THEN 32 ELSE 192), F(2, s.speed),
                 F(1, s.course), F(3, s.odometer), F(1, s.ign), F(1, s.event)>>
               \o (IF s.alt = 0 THEN <<>> ELSE <<F(3, s.alt)>>)
          [] s.type = ExtPosData -> <<F(1, 10), F(2, s.hdop), F(1, s.sat)>>
          [] s.type = AdSensorsData -> <<F(1, 129), F(1, s.out), F(1, 2), F(1, s.in1), F(1, s.in8), F(3, s.a2)>>
          [] s.type = LiquidLevelSensor -> <<F(1, 0), F(2, 0), F(4, s.liquid)>>
  IN  <<F(1, s.type), F(2, Bytes(Body))>> \o Body

EncodeRecord(r) ==
  LET body == FlattenSeq([k \in DOMAIN r.subrecords |-> EncodeSubrecord(r.subrecords[k])])
  IN  <<F(2, Bytes(body)), F(2, r.index), F(1, r.flags)>>
      \o (IF Check(r.flags, 0) THEN <<F(4, 99)>> ELSE <<>>)
      \o (IF Check(r.flags, 1) THEN <<F(4, 98), F(4, 97)>> ELSE <<>>)
      \o <<F(1, r.service), F(1, r.service)>> \o body

Encode(p) ==
  <<F(1, 7), F(2, p.index), F(1, PtAppdata), F(7, 0)>>
  \o FlattenSeq([k \in DOMAIN p.records |-> EncodeRecord(p.records[k])]) \o <<F(2, 1)>>

-----------------------------------------------------------------------------
(* What a device may expect of a packet *)

RecordsOf(p, k) ==
  IF p.records[k].service = ServiceTeledata THEN p.records[k].subrecords ELSE <<>>
Teledata(p) == FlattenSeq([k \in DOMAIN p.records |-> RecordsOf(p, k)])
LastOf(xs, k, type) ==
  LET J == {j \in 1..k : xs[j].type = type}
  IN  IF J = {} THEN [type |-> 0] ELSE xs[CHOOSE j \in J : \A i \in J : i <= j]

(* The record after the k-th subrecord: the latest position, and the       *)
(* latest number of satellites.                                            *)
ContentAt(xs, k) ==
  LET pos == LastOf(xs, k, PosData)
      alts == SelectSeq(SubSeq(xs, 1, k), LAMBDA x : x.type = PosData /\ x.alt # 0)
      ext == LastOf(xs, k, ExtPosData)
      sign == IF pos.alt = 0 THEN <<-1, 1>> ELSE <<1, -1>>
  IN  [t |-> pos.t, epochs |-> 1,
       lat |-> sign[1] * Degrees(pos.lat, 90), lon |-> sign[2] * Degrees(pos.lon, 180),
       speed |-> (pos.speed % 256) \div 10, course |-> pos.course,
       alt |-> IF alts = <<>> THEN 0 ELSE Last(alts).alt,
       sat |-> IF ext.type = 0 THEN 0 ELSE ext.sat]
Stored(x) ==
  CASE x.type = PosData ->
         <<"odometer">> :> x.odometer * 100 @@ <<"ign">> :> x.ign @@ <<"event_id">> :> x.event
    [] x.type = ExtPosData -> <<"hdop">> :> x.hdop
    [] x.type = AdSensorsData ->
         <<"key_output">> :> x.out @@ <<"in", 1>> :> x.in1 @@ <<"in", 8>> :> x.in8 @@ <<"a", 2>> :> x.a2
    [] x.type = LiquidLevelSensor -> <<"liquid">> :> x.liquid
Params(p) == FoldRight(LAMBDA x, f : f @@ Stored(x), Teledata(p), <<>>)
Content(p) == [k \in 1..Len(Teledata(p)) |-> ContentAt(Teledata(p), k)]

HasIdentity(r) == \E k \in DOMAIN r.subrecords : r.subrecords[k].type = TermIdentity
IdentityLast(p) == \A k \in DOMAIN p.records : HasIdentity(p.records[k]) => k = Len(p.records)

(* Every record of a packet is confirmed once, in its order, and an        *)
(* identity gets its result besides.                                       *)
Confirmed(p) ==
  FlattenSeq([k \in DOMAIN p.records |->
    <<[type |-> PtResponse, index |-> p.index, of |-> p.records[k].index]>>
    \o (IF HasIdentity(p.records[k]) THEN <<[type |-> PtAppdata, index |-> 0, of |-> Result]>> ELSE <<>>)])
=============================================================================
