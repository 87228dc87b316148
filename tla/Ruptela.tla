------------------------------ MODULE Ruptela ------------------------------
(***************************************************************************)
(* The decoder of ruptela.go as a function.  There is no login: every      *)
(* packet names its device, and whatever is no whole packet of records     *)
(* leaves the session without an imei, which ends it.                      *)
(***************************************************************************)
EXTENDS Wire, Integers

Records == 1        \* MSG_RECORDS
RecordsExt == 68    \* MSG_RECORDS_EXT
Identification == 15

Ack == F(6, 1)

-----------------------------------------------------------------------------
(* decodeParameter.  The ids it knows have a key of their own, the others  *)
(* one with the width of the value.  Braking and acceleration, and the     *)
(* values to be scaled, are asserted to be of a type they never have.      *)
Named == {5, 29, 30, 32, 65, 74, 114, 115, 197, 203, 207}
NeverSet == {134, 136}
AlwaysZero == {30, 74, 197}
Key(id, w) == IF id \in Named THEN <<0, id>> ELSE <<w, id>>
Hdop == <<0, -1>>
EventIo == <<0, -2>>

With(map, key, value) ==
  [k \in {key} \cup DOMAIN map |-> IF k = key THEN value ELSE map[k]]
Put(params, id, w, v) ==
  IF id \in NeverSet THEN params
  ELSE With(params, Key(id, w), IF id \in AlwaysZero THEN 0 ELSE v)

ElementKeepsFirst(d, w, x) ==
  [d EXCEPT !.b = Skip(@, x + w),
            !.params = IF Key(Get(d.b, x), w) \in DOMAIN @ THEN @
                       ELSE Put(@, Get(d.b, x), w, Get(Skip(d.b, x), w))]
Element(d, w, x) ==
  [d EXCEPT !.b = Skip(@, x + w),
            !.params = Put(@, Get(d.b, x), w, Get(Skip(d.b, x), w))]

Elements(d, n, w, x) ==
  LET read[k \in 0..n] == IF k = 0 THEN d ELSE Element(read[k - 1], w, x)
  IN  read[n]

(* The count of a group takes one byte, whatever its ids take.             *)
GroupWideCount(d, w, x) == Elements([d EXCEPT !.b = Skip(@, x)], Get(d.b, x), w, x)
Group(d, w, x) == Elements([d EXCEPT !.b = Skip(@, 1)], Get(d.b, 1), w, x)

(* One turn of the loop of getRecords; g is what it read after gpstime.    *)
Gps == <<4, 4, 2, 2, 1, 2, 1>>
Record(t, g) ==
  [t |-> t, lat |-> g[2], lon |-> g[1], alt |-> g[3] \div 10,
   course |-> g[4] \div 100, speed |-> g[6], sat |-> g[5]]

DecodeRecord(d, tip) ==
  LET x == IF tip = RecordsExt THEN 2 ELSE 1
      b == Skip(d.b, 5 + x)
      g == Parse(b, Gps)
      rest == Skip(b, 16)
      start == [d EXCEPT !.b = Skip(rest, x),
                         !.params = With(With(@, Hdop, g[7]), EventIo, Get(rest, x))]
  IN  [Group(Group(Group(Group(start, 1, x), 2, x), 4, x), 8, x)
         EXCEPT !.records = Append(@, Record(Get(d.b, 4), g))]

Decode(d, tip, n) ==
  LET read[k \in 0..n] == IF k = 0 THEN d ELSE DecodeRecord(read[k - 1], tip)
  IN  read[n]

(* The length is compared with that of the buffer as a uint16.             *)
TooLongOffByOne(length, b) == length > (Bytes(b) + 1) % 2^16
TooLong(length, b) == length > Bytes(b) % 2^16

(* The records of a packet share one map of params.  The branch that would *)
(* answer a wrong CRC with a refusal is never taken.                       *)
CheckedAcknowledges(imei, d, crc, data) ==
  Response([imei |-> imei],
           IF crc = Crc(data) THEN [k \in DOMAIN d.records |-> With(d.records[k], "p", d.params)]
           ELSE <<>>,
           <<Ack>>)
Checked(imei, d, crc, data) ==
  IF crc # Crc(data) THEN Refuse(Fresh)
  ELSE Response([imei |-> imei],
                [k \in DOMAIN d.records |-> With(d.records[k], "p", d.params)],
                <<Ack>>)

(* A slice that ends beyond the buffer panics.                             *)
GetRecords(b) ==
  LET length == Get(b, 2)
      data == Skip(b, 2)
      head == Parse(data, <<8, 1, 1, 1>>)
      d == Decode([b |-> Skip(data, 11), params |-> <<>>, records |-> <<>>], head[2], head[4])
  IN  IF TooLong(length, data) THEN Refuse(Fresh)
      ELSE IF length > Bytes(data) THEN Panic
      ELSE IF head[2] \notin {Records, RecordsExt} THEN Refuse(Fresh)
      ELSE Checked(head[1], d, Get(d.b, 2), Cut(data, length))

HandleKeepsImei(b, session) ==
  LET r == GetRecords(b) IN [r EXCEPT !.session = IF r.reply = <<>> THEN session ELSE @]
Handle(b, session) == GetRecords(b)

-----------------------------------------------------------------------------
(* The device's side.  A packet has the imei of its device, a tip, the     *)
(* number of records that stay behind, and its records.  Altitude and      *)
(* course are sent in tenths and hundredths.                               *)
EncodeIO(io, w, x) ==
  <<F(1, Len(io))>> \o FlattenSeq([k \in DOMAIN io |-> <<F(x, io[k][1]), F(w, io[k][2])>>])

EncodeRecord(r, tip) ==
  LET x == IF tip = RecordsExt THEN 2 ELSE 1
  IN  <<F(4, r.t), F(x, 0), F(1, 0), F(4, r.lon), F(4, r.lat), F(2, 10 * r.alt),
        F(2, 100 * r.course), F(1, r.sat), F(2, r.speed), F(1, r.hdop), F(x, r.event)>>
      \o FlattenSeq([k \in 1..4 |-> EncodeIO(r.io[k], <<1, 2, 4, 8>>[k], x)])

HeadOf(p) == <<F(8, p.imei), F(1, p.tip), F(1, p.left), F(1, Len(p.records))>>
DataOf(p) ==
  HeadOf(p) \o FlattenSeq([k \in 1..Len(p.records) |-> EncodeRecord(p.records[k], p.tip)])
Encode(p) == <<F(2, Bytes(DataOf(p)))>> \o DataOf(p) \o <<F(2, Crc(DataOf(p)))>>

(* What a reader of the store may expect of a record, params apart, and of *)
(* the params, which all records of a packet share and where ids of        *)
(* several widths have one name: those values of the last record remain    *)
(* that are stored as they are.                                            *)
Position(r) == [t |-> r.t, lat |-> r.lat, lon |-> r.lon, alt |-> r.alt,
                course |-> r.course, speed |-> r.speed, sat |-> r.sat]
Content(p) == [k \in DOMAIN p.records |-> Position(p.records[k])]
Stored(r) ==
  UNION {{<<r.io[k][j][1], <<1, 2, 4, 8>>[k], r.io[k][j][2]>> : j \in DOMAIN r.io[k]} : k \in 1..4}
Matters(e) == e[1] \notin NeverSet \cup AlwaysZero
KeyOf(e) == Key(e[1], e[2])
Carries(p, params) ==
  \A e \in Stored(Last(p.records)) : Matters(e) => params[KeyOf(e)] = e[3]

(* The packets of a device: no record has two values for one param, and    *)
(* the length counts them.  One whose CRC is zero is left out, which would *)
(* be accepted without its last bytes.                                     *)
Consistent(E) ==
  \A e, g \in E : Matters(e) /\ Matters(g) /\ KeyOf(e) = KeyOf(g) => e[3] = g[3]
Param == Nat \X Int
IsRecord(r) ==
  /\ r.t \in Int /\ r.lat \in Int /\ r.lon \in Int /\ r.alt \in Int /\ r.course \in Int
  /\ r.speed \in Int /\ r.sat \in Int /\ r.hdop \in Int /\ r.event \in Int
  /\ \A k \in 1..4 : r.io[k] \in Seq(Param)
ValidRecords(rs) ==
  /\ Len(rs) \in Nat /\ DOMAIN rs = 1..Len(rs)
  /\ \A k \in 1..Len(rs) : IsRecord(rs[k]) /\ Consistent(Stored(rs[k]))
Valid(p) ==
  /\ p.imei \in Nat \ {Unknown} /\ p.tip \in {Records, RecordsExt} /\ p.left \in Int
  /\ ValidRecords(p.records)
  /\ Crc(DataOf(p)) # 0 /\ Bytes(DataOf(p)) + 2 < 2^16

Accepted(p, reply) == reply = Ack
AcceptedLogin(k, reply) == FALSE
=============================================================================
