----------------------------- MODULE Teltonika -----------------------------
(***************************************************************************)
(* The decoder of teltonika.go as a function: what handle does with one    *)
(* buffer in a session.  The result tells the session's imei, the records  *)
(* returned, the replies written to the device and whether it panics.      *)
(*                                                                         *)
(* Ids, values and fields of the position that a failed read leaves at an  *)
(* earlier value are taken for zero: such a read ran past the end of the   *)
(* buffer, so the CRC field reads as zero too and the packet is refused.   *)
(* The length by which Truncate cuts does keep its earlier value.          *)
(***************************************************************************)
EXTENDS Wire, Integers, TLC

Codec8 == 8
Codec8Ext == 142    \* 0x8E
Codec12 == 12
CodecGH3000 == 7
EventIo == 65536    \* the key "event_io", which no id of an element equals

-----------------------------------------------------------------------------
(* One IO element of the group of values of w bytes; ids take x bytes.     *)
ElementOnce(d, w, x) ==
  [d EXCEPT !.b = Skip(@, x + w),
            !.params = @ @@ (Get(d.b, x) :> Get(Skip(d.b, x), w))]
Element(d, w, x) ==
  [d EXCEPT !.b = Skip(@, x + w),
            !.params = (Get(d.b, x) :> Get(Skip(d.b, x), w)) @@ @]

RECURSIVE Elements(_, _, _, _)
Elements(d, n, w, x) == IF n = 0 THEN d ELSE Elements(Element(d, w, x), n - 1, w, x)

Group(d, w, x) == Elements([d EXCEPT !.b = Skip(@, x)], Get(d.b, x), w, x)

(* Codec 8 extended has a group of values of any length: Truncate keeps    *)
(* the value and throws away everything after it, so the next element may  *)
(* be cut by the length of the one before, and panic.                      *)
RECURSIVE Values(_, _, _)
Values(d, n, before) ==
  LET length == IF Bytes(d.b) < 4 THEN before ELSE Get(Skip(d.b, 2), 2)
      rest == Skip(d.b, 4)
  IN  IF n = 0 THEN d
      ELSE IF length > Bytes(rest) THEN [d EXCEPT !.panic = TRUE]
      ELSE Values([d EXCEPT !.b = Cut(rest, length)], n - 1, length)

Extra(d) == Values([d EXCEPT !.b = Skip(@, 2)], Get(d.b, 2), 0)

(* One turn of the loop of getRecords.  d holds the unread buffer, the     *)
(* map params that the records of a packet share, and the records.         *)
Gps == <<8, 1, 4, 4, 2, 2, 1, 2>>

Record(g) ==
  [t |-> g[1] \div 1000, lat |-> g[4], lon |-> g[3],
   alt |-> g[5], course |-> g[6], speed |-> g[8], sat |-> g[7]]

DecodeRecord(d, codec) ==
  LET b == Skip(d.b, 24)
      x == IF codec = Codec8Ext THEN 2 ELSE 1
      event == Get(b, x)
      start == [d EXCEPT !.b = Skip(b, 2 * x),
                         !.params = IF event > 0 THEN (EventIo :> event) @@ @ ELSE @]
      io == Group(Group(Group(Group(start, 1, x), 2, x), 4, x), 8, x)
  IN  CASE codec = CodecGH3000 -> d
        [] codec \in {Codec8, Codec8Ext} ->
             [(IF codec = Codec8Ext THEN Extra(io) ELSE io)
                EXCEPT !.records = Append(@, Record(Parse(d.b, Gps)))]
        [] OTHER -> [d EXCEPT !.b = b]

RECURSIVE Decode(_, _, _)
Decode(d, codec, n) ==
  IF n = 0 \/ d.panic THEN d ELSE Decode(DecodeRecord(d, codec), codec, n - 1)

(* A packet of records: every error comes before the reply, and the branch *)
(* that would answer a wrong CRC with zero is never taken.                 *)
CheckedAcknowledges(session, d, crc, data) ==
  Response(session,
           IF crc = Crc(data) THEN [k \in DOMAIN d.records |-> d.records[k] @@ [p |-> d.params]]
           ELSE <<>>,
           <<F(4, Len(d.records))>>)
Checked(session, d, crc, data) ==
  IF crc # Crc(data) THEN Refuse(session)
  ELSE Response(session,
                [k \in DOMAIN d.records |-> d.records[k] @@ [p |-> d.params]],
                <<F(4, Len(d.records))>>)

GetRecordsOffByOne(b, session) ==
  LET length == Get(b, 4)
      data == Skip(b, 4)
      codec == Get(data, 1)
      count == Get(Skip(data, 1), 1)
      d == Decode([b |-> Skip(data, 2), params |-> <<>>, records |-> <<>>, panic |-> FALSE],
                  codec, count)
  IN  IF length > Bytes(data) \/ codec = Codec12 \/ count <= 1 THEN Refuse(session)
      ELSE IF d.panic THEN Panic
      ELSE Checked(session, d, Get(Skip(d.b, 1), 4), Cut(data, length))
GetRecords(b, session) ==
  LET length == Get(b, 4)
      data == Skip(b, 4)
      codec == Get(data, 1)
      count == Get(Skip(data, 1), 1)
      d == Decode([b |-> Skip(data, 2), params |-> <<>>, records |-> <<>>, panic |-> FALSE],
                  codec, count)
  IN  IF length > Bytes(data) \/ codec = Codec12 \/ count = 0 THEN Refuse(session)
      ELSE IF d.panic THEN Panic
      ELSE Checked(session, d, Get(Skip(d.b, 1), 4), Cut(data, length))

(* A login: Truncate(15) panics if fewer bytes are left.                   *)
GetIMEI(b) ==
  IF Bytes(b) < 15 THEN Panic ELSE Response([imei |-> Get(b, 15)], <<>>, <<F(1, 1)>>)

Handle(b, session) ==
  IF Get(b, 2) \in 1..15 THEN GetIMEI(Skip(b, 2)) ELSE GetRecords(Skip(b, 4), session)

-----------------------------------------------------------------------------
(* The device's side.  A packet is its codec and its records; a record has *)
(* the fields of Gps, an event, for each width a sequence of pairs of an   *)
(* id and a value, and, for codec 8 extended, nx, the lengths of the       *)
(* elements of any length.                                                 *)
EncodeIO(io, w, x) ==
  <<F(x, Len(io))>> \o FlattenSeq([k \in DOMAIN io |-> <<F(x, io[k][1]), F(w, io[k][2])>>])

EncodeRecord(r, codec) ==
  LET x == IF codec = Codec8Ext THEN 2 ELSE 1
      extra == <<F(2, Len(r.nx))>> \o
               FlattenSeq([k \in DOMAIN r.nx |-> <<F(2, 500), F(2, r.nx[k]), F(r.nx[k], 0)>>])
  IN  <<F(8, 1000 * r.t), F(1, 0), F(4, r.lon), F(4, r.lat), F(2, r.alt),
        F(2, r.course), F(1, r.sat), F(2, r.speed), F(x, r.event), F(x, 0)>>
      \o FlattenSeq([k \in 1..4 |-> EncodeIO(r.io[k], <<1, 2, 4, 8>>[k], x)])
      \o (IF codec = Codec8Ext THEN extra ELSE <<>>)

Encode(p) ==
  LET n == Len(p.records)
      data == <<F(1, p.codec), F(1, n)>>
              \o FlattenSeq([k \in 1..n |-> EncodeRecord(p.records[k], p.codec)])
              \o <<F(1, n)>>
  IN  <<F(2, 0), F(2, 0), F(4, Bytes(data))>> \o data \o <<F(4, Crc(data))>>

LoginOf(imei) == <<F(2, 15), F(15, imei)>>
LoginAnswered == TRUE

(* What a reader of the store may expect of a record, params apart, and of *)
(* the params: all records of a packet share them, the last one's remain.  *)
Position(r) == [t |-> r.t, lat |-> r.lat, lon |-> r.lon, alt |-> r.alt,
                course |-> r.course, speed |-> r.speed, sat |-> r.sat]
Content(p) == [k \in DOMAIN p.records |-> Position(p.records[k])]
Carries(p, params) ==
  \A k \in 1..4 : \A j \in DOMAIN Last(p.records).io[k] :
    LET e == Last(p.records).io[k][j] IN e[1] \in DOMAIN params /\ params[e[1]] = e[2]

(* The device takes the number of its records for the acknowledgement.     *)
Accepted(p, reply) == reply = F(4, Len(p.records))
AcceptedLogin(k, reply) == reply = F(1, 1)
=============================================================================
