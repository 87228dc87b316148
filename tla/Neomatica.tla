----------------------------- MODULE Neomatica -----------------------------
(***************************************************************************)
(* The decoder of neomatica.go as a function.  A packet holds one record;  *)
(* the bits of its type tell which parts the record has.  A login is not   *)
(* answered, anything else is, whether it holds a record or not.           *)
(***************************************************************************)
EXTENDS Wire, Integers, TLC

CmdResponseSize == 132   \* 0x84
ImeiPack == 3

Ack == F(1, 1)

-----------------------------------------------------------------------------
(* BitUtil.  between shifts before it subtracts, which makes no difference *)
(* to its one user here, to.                                               *)
Check(number, index) == (number \div 2^index) % 2 = 1
To(number, to) == number % 2^to

(* getRecords.  The parts of a record: name, number and width of each      *)
(* value.  Fuel and temperature follow the counters and share their bit.   *)
Main == <<1, 2, 2, 4, 4, 2, 2, 1, 2, 1, 1, 4, 2, 2>>
Vibration == <<<<"vib", 1, 1>>, <<"vib_count", 1, 1>>, <<"out", 1, 1>>, <<"in_alarm", 1, 1>>>>
Analog == [i \in 1..6 |-> <<"in_a", i, 2>>]
Counters == [i \in 1..2 |-> <<"in_d", i, 4>>]
Fuel == [i \in 1..3 |-> <<"fuel", i, 2>>] \o [i \in 1..3 |-> <<"temp", i, 1>>]
Odometer == <<<<"odometr", 1, 4>>>>

PartsFuelAlone(dtype) ==
  (IF Check(dtype, 2) THEN Vibration ELSE <<>>) \o
  (IF Check(dtype, 3) THEN Analog ELSE <<>>) \o
  (IF Check(dtype, 4) THEN Counters ELSE <<>>) \o
  (IF Check(dtype, 5) THEN Fuel ELSE <<>>) \o
  (IF Check(dtype, 7) THEN Odometer ELSE <<>>)
Parts(dtype) ==
  (IF Check(dtype, 2) THEN Vibration ELSE <<>>) \o
  (IF Check(dtype, 3) THEN Analog ELSE <<>>) \o
  (IF Check(dtype, 4) THEN Counters \o Fuel ELSE <<>>) \o
  (IF Check(dtype, 7) THEN Odometer ELSE <<>>)

(* Of the outputs only the low four bits are stored.                       *)
Params(g, parts, values) ==
  LET Name(k) == <<parts[k][1], parts[k][2]>>
      Stored(k) == IF parts[k][1] = "out" THEN values[k] % 16 ELSE values[k]
  IN  {<<"hdop", 1, g[10]>>, <<"pwr_ext", 1, g[13]>>, <<"pwr_int", 1, g[14]>>}
      \cup {Append(Name(k), Stored(k)) : k \in DOMAIN parts}

Record(g) ==
  [t |-> g[12], lat |-> g[4], lon |-> g[5], alt |-> g[9],
   course |-> g[6] \div 10, speed |-> g[7], sat |-> g[11] % 16]

GetRecords(b, dtype) ==
  LET main == Parse(b, Main)
      parts == Parts(dtype)
      values == Parse(Skip(b, 30), [k \in DOMAIN parts |-> parts[k][3]])
  IN  IF To(dtype, 2) # 0 THEN <<>>
      ELSE <<Record(main) @@ [p |-> Params(main, parts, values)]>>

GetIMEI(b) ==
  IF Bytes(b) < 15 THEN Panic ELSE Response([imei |-> Get(b, 15)], <<>>, <<>>)

(* A response to a command is dropped, and leaves no imei behind.          *)
HandleForgetsImei(b, session) ==
  LET dtype == Get(Skip(b, 3), 1)
      rest == Skip(b, 4)
  IN  IF Get(Skip(b, 2), 1) = CmdResponseSize THEN Refuse(Fresh)
      ELSE IF dtype = ImeiPack THEN GetIMEI(rest)
      ELSE Response(Fresh, GetRecords(rest, dtype), <<Ack>>)
HandleAcksRecords(b, session) ==
  LET dtype == Get(Skip(b, 3), 1)
      rest == Skip(b, 4)
  IN  IF Get(Skip(b, 2), 1) = CmdResponseSize THEN Refuse(Fresh)
      ELSE IF dtype = ImeiPack THEN GetIMEI(rest)
      ELSE Response(session, GetRecords(rest, dtype), [k \in DOMAIN GetRecords(rest, dtype) |-> Ack])
Handle(b, session) ==
  LET dtype == Get(Skip(b, 3), 1)
      rest == Skip(b, 4)
  IN  IF Get(Skip(b, 2), 1) = CmdResponseSize THEN Refuse(Fresh)
      ELSE IF dtype = ImeiPack THEN GetIMEI(rest)
      ELSE Response(session, GetRecords(rest, dtype), <<Ack>>)

-----------------------------------------------------------------------------
(* The device's side, laid out as the code reads it.  A packet is a list   *)
(* of the parts it has and a record r; the parts of r that it has not are  *)
(* not sent.  The low two bits of its type are its kind, 0 for data.  The  *)
(* upper half of the byte of the satellites is in use by the device.       *)
Type(p) ==
  p.kind + (IF "vib" \in p.parts THEN 4 ELSE 0) + (IF "in_a" \in p.parts THEN 8 ELSE 0)
         + (IF "in_d" \in p.parts THEN 16 ELSE 0) + (IF "odometr" \in p.parts THEN 128 ELSE 0)

EncodePart(p, part, fields) == IF part \in p.parts THEN fields ELSE <<>>
Encode(p) ==
  LET r == p.r
      main == <<F(1, 0), F(2, 0), F(2, 0), F(4, r.lat), F(4, r.lon), F(2, 10 * r.course),
                F(2, r.speed), F(1, 0), F(2, r.alt), F(1, r.hdop), F(1, 16 + r.sat),
                F(4, r.t), F(2, r.pwr_ext), F(2, r.pwr_int)>>
      data == <<F(1, Type(p))>> \o main
              \o EncodePart(p, "vib", <<F(1, r.vib), F(1, 2), F(1, 3), F(1, 4)>>)
              \o EncodePart(p, "in_a", [i \in 1..6 |-> F(2, r.in_a + i)])
              \o EncodePart(p, "in_d", [i \in 1..2 |-> F(4, r.in_d + i)])
              \o EncodePart(p, "in_d", [i \in 1..3 |-> F(2, r.fuel + i)])
              \o EncodePart(p, "in_d", [i \in 1..3 |-> F(1, r.temp + i)])
              \o EncodePart(p, "odometr", <<F(4, r.odometr)>>)
  IN  <<F(2, 1), F(1, Bytes(data) + 3)>> \o data

LoginOf(imei) ==
  <<F(2, 1), F(1, 66), F(1, ImeiPack), F(15, imei), F(1, 0), F(1, 0), F(44, 0), F(1, 0)>>
LoginAnswered == FALSE

(* What a reader of the store may expect of a packet: only data is stored, *)
(* and exactly the parts that the device sent, each under its own name.    *)
Content(p) ==
  LET r == p.r
  IN  IF p.kind # 0 THEN <<>>
      ELSE <<[t |-> r.t, lat |-> r.lat, lon |-> r.lon, alt |-> r.alt,
             course |-> r.course, speed |-> r.speed, sat |-> r.sat]>>
Carries(p, params) ==
  LET r == p.r
  IN  params =
      {<<"hdop", 1, r.hdop>>, <<"pwr_ext", 1, r.pwr_ext>>, <<"pwr_int", 1, r.pwr_int>>}
      \cup (IF "vib" \in p.parts
            THEN {<<"vib", 1, r.vib>>, <<"vib_count", 1, 2>>, <<"out", 1, 3>>, <<"in_alarm", 1, 4>>}
            ELSE {})
      \cup (IF "in_a" \in p.parts THEN {<<"in_a", i, r.in_a + i>> : i \in 1..6} ELSE {})
      \cup (IF "in_d" \in p.parts
            THEN {<<"in_d", i, r.in_d + i>> : i \in 1..2} \cup
                 {<<"fuel", i, r.fuel + i>> : i \in 1..3} \cup
                 {<<"temp", i, r.temp + i>> : i \in 1..3}
            ELSE {})
      \cup (IF "odometr" \in p.parts THEN {<<"odometr", 1, r.odometr>>} ELSE {})

Accepted(p, reply) == reply = Ack
AcceptedLogin(k, reply) == FALSE
=============================================================================
