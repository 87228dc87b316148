----------------------------- MODULE Galileosky -----------------------------
(***************************************************************************)
(* The decoder of galileosky.go as a function.  A packet is a list of tags *)
(* with their values; a tag that comes again starts the next record.  The  *)
(* loops run until the length that the packet tells is consumed: with less *)
(* than that in the buffer they never end, and the handler reads no more.  *)
(*                                                                         *)
(* Bytes consumed are counted without the spare capacity of the buffer,    *)
(* which the code adds to both sides of its comparisons, and the uint16s   *)
(* are not wrapped: no buffer comes near 64 KB.                            *)
(***************************************************************************)
EXTENDS Wire, Integers, TLC

Imei == 3       \* 0x03
GpsTime == 32   \* 0x20
Location == 48  \* 0x30
Motion == 51    \* 0x33, speed and course
Altitude == 52  \* 0x34
Result == 225   \* 0xe1
UserData == 234 \* 0xea

Packet == 1
Compressed == 8

Loops == Refuse(Fresh)

-----------------------------------------------------------------------------
(* The tags whose values are read, by the widths of these: decodeTag and   *)
(* decodeTagOther.                                                         *)
One == {1, 2, 53, 67} \cup 160..175 \cup 196..210
Two == {4, 16, 52, 64, 65, 66, 69, 70, 72, 88, 89} \cup 80..87 \cup 96..98 \cup 176..185 \cup 214..218
Four == {32, 68, 144, 192, 194, 195, 212, 224} \cup 219..223 \cup 226..233 \cup 240..249

Widths(tag, b) ==
  CASE tag \in One -> <<1>>
    [] tag \in Two -> <<2>>
    [] tag \in Four -> <<4>>
    [] tag = Motion -> <<2, 2>>
    [] tag = 193 -> <<1, 1, 2>>
    [] tag \in {Result, UserData} -> <<1, Get(b, 1)>>
    [] OTHER -> <<>>

(* ... and those that are only skipped, by ITEM_LENGTH_MAP, where a tag it *)
(* does not know has the length zero.                                      *)
Skipped(tag) ==
  CASE tag \in {213} \cup 136..140 -> 1
    [] tag \in {33} \cup 112..125 -> 2
    [] tag \in {250, 93} \cup 99..111 \cup 128..135 -> 3
    [] tag \in {71, 90, 211} -> 4
    [] tag = 91 -> 7
    [] tag = 92 -> 68
    [] tag \in {253, 254} -> 8
    [] OTHER -> 0

(* The param of a tag: two tags tell an event_id.                          *)
Key(tag) == IF tag = 224 THEN 16 ELSE tag

DecodeTagOnce(d, tag) ==
  LET w == Widths(tag, d.b)
  IN  IF w = <<>> THEN [d EXCEPT !.b = Skip(@, Skipped(tag))]
      ELSE [d EXCEPT !.params = @ @@ (Key(tag) :> Parse(d.b, w)),
                     !.b = Skip(@, FoldSeq(+, 0, w))]
DecodeTag(d, tag) ==
  LET w == Widths(tag, d.b)
  IN  IF w = <<>> THEN [d EXCEPT !.b = Skip(@, Skipped(tag))]
      ELSE [d EXCEPT !.params = (Key(tag) :> Parse(d.b, w)) @@ @,
                     !.b = Skip(@, FoldSeq(+, 0, w))]

DecodeLocation(d) ==
  [d EXCEPT !.loc = TRUE, !.b = Skip(@, 9),
            !.lat = Get(Skip(d.b, 1), 4), !.lon = Get(Skip(d.b, 5), 4)]

(* A record of what has been read: the assertion of the type of a param    *)
(* that has not been set panics.                                           *)
Emit(d) ==
  IF {GpsTime, Motion, Altitude} \subseteq DOMAIN d.params
  THEN [d EXCEPT !.records = Append(@,
         [t |-> d.params[GpsTime][1], lat |-> d.lat, lon |-> d.lon,
          alt |-> d.params[Altitude][1], course |-> d.params[Motion][2] \div 10,
          speed |-> d.params[Motion][1] \div 10, sat |-> 0])]
  ELSE [d EXCEPT !.panic = TRUE]

Start(b) ==
  [b |-> b, tags |-> {}, list |-> <<>>, started |-> FALSE, loc |-> FALSE, lat |-> 0, lon |-> 0,
   imei |-> Unknown, params |-> <<>>, records |-> <<>>, panic |-> FALSE]

-----------------------------------------------------------------------------
(* decodePosition: a tag that repeats ends the record before it.           *)
EmitLocated(d) == IF d.loc /\ GpsTime \in DOMAIN d.params THEN Emit(d) ELSE d

NextTagKeepsTags(d) ==
  LET tag == Get(d.b, 1)
      e == IF tag \in d.tags THEN [EmitLocated(d) EXCEPT !.loc = FALSE] ELSE d
      f == [e EXCEPT !.tags = @ \cup {tag}, !.b = Skip(@, 1)]
  IN  CASE tag = Imei -> [f EXCEPT !.imei = Get(f.b, 15), !.b = Skip(@, 15)]
        [] tag = Location -> DecodeLocation(f)
        [] OTHER -> DecodeTag(f, tag)
NextTag(d) ==
  LET tag == Get(d.b, 1)
      e == IF tag \in d.tags THEN [EmitLocated(d) EXCEPT !.tags = {}, !.loc = FALSE] ELSE d
      f == [e EXCEPT !.tags = @ \cup {tag}, !.b = Skip(@, 1)]
  IN  CASE tag = Imei -> [f EXCEPT !.imei = Get(f.b, 15), !.b = Skip(@, 15)]
        [] tag = Location -> DecodeLocation(f)
        [] OTHER -> DecodeTag(f, tag)

(* decodeCompressedPositions: a record repeats the list of tags that the   *)
(* first one brings.  One without location asserts a lat never set.        *)
RECURSIVE DecodeTags(_, _)
DecodeTags(d, tags) ==
  IF tags = <<>> THEN d
  ELSE DecodeTags(IF Head(tags) = Location THEN DecodeLocation(d) ELSE DecodeTag(d, Head(tags)),
                  Tail(tags))

NextCompressed(d) ==
  LET b == Skip(d.b, 10)
      n == Get(b, 1) % 128
      list == IF d.started THEN d.list ELSE Parse(Skip(b, 1), [i \in 1..n |-> 1])
      e == DecodeTags([d EXCEPT !.b = IF d.started THEN b ELSE Skip(b, 1 + n),
                                !.list = list, !.started = TRUE], list)
  IN  IF e.loc THEN Emit(e) ELSE [e EXCEPT !.panic = TRUE]

(* Both loops, while more than `left` bytes remain in the buffer; if that  *)
(* is a negative number, for ever.                                         *)
RECURSIVE Loop(_, _, _)
LoopFrom(d, left, kind) == IF d.b = <<>> /\ left < 0 THEN d ELSE Loop(d, left, kind)
Loop(d, left, kind) ==
  IF Bytes(d.b) <= left \/ d.panic THEN d
  ELSE LoopFrom(IF kind = Packet THEN NextTag(d) ELSE NextCompressed(d), left, kind)

EmitLast(d, kind) == IF kind = Packet THEN EmitLocated(d) ELSE d

(* Whoever's checksum it is, it is sent back unchecked.  The imei is that  *)
(* of the packet, or of the session if the packet is compressed.           *)
SendResponse(checksum) == <<F(3, checksum)>>
Return(d, left, kind, session) ==
  IF d.panic THEN Panic
  ELSE IF left < 0 THEN Loops
  ELSE Response(IF kind = Packet THEN [imei |-> d.imei] ELSE session,
                [k \in DOMAIN d.records |-> d.records[k] @@ [p |-> d.params]],
                SendResponse(Get(d.b, 2)))

DecodeCountsHeader(b, kind, session) ==
  LET left == Bytes(b) - (Get(Skip(b, 1), 2) % 2^15)
  IN  Return(EmitLast(Loop(Start(Skip(b, 3)), left, kind), kind), left, kind, session)
Decode(b, kind, session) ==
  LET left == Bytes(Skip(b, 3)) - (Get(Skip(b, 1), 2) % 2^15)
  IN  Return(EmitLast(Loop(Start(Skip(b, 3)), left, kind), kind), left, kind, session)

(* The look at the bytes after the header, for Iridium, panics if there    *)
(* are less than three.  The Iridium packets themselves are left out.      *)
Handle(b, session) ==
  LET header == Get(b, 1)
  IN  CASE header = Packet /\ Bytes(b) < 4 -> Panic
        [] header = Packet /\ Bytes(b) >= 4 -> Decode(b, Packet, session)
        [] header = Compressed -> Decode(b, Compressed, session)
        [] OTHER -> Refuse(Fresh)

-----------------------------------------------------------------------------
(* The device's side.  It begins with a packet that tells its imei; so     *)
(* does every packet but the compressed ones, whose records are lists of   *)
(* the same tags.  r.io is a sequence of pairs of a tag of two bytes and   *)
(* its value.                                                              *)
Frame(header, body) ==
  LET m == <<F(1, header), F(2, Bytes(body))>> \o body IN m \o <<F(2, Crc(m))>>

LoginOf(imei) == Frame(Packet, <<F(1, 1), F(1, 9), F(1, Imei), F(15, imei), F(1, 4), F(2, 8)>>)
LoginAnswered == TRUE

Values(r) ==
  <<<<GpsTime, <<F(4, r.t)>>>>, <<Location, <<F(1, 7), F(4, r.lat), F(4, r.lon)>>>>,
    <<Motion, <<F(2, 10 * r.speed), F(2, 10 * r.course)>>>>, <<Altitude, <<F(2, r.alt)>>>>>>
  \o [k \in DOMAIN r.io |-> <<r.io[k][1], <<F(2, r.io[k][2])>>>>]

Tagged(r) == FlattenSeq([k \in DOMAIN Values(r) |-> <<F(1, Values(r)[k][1])>> \o Values(r)[k][2]])
Bare(r) == <<F(10, 0)>> \o FlattenSeq([k \in DOMAIN Values(r) |-> Values(r)[k][2]])
List(r) == <<F(1, Len(Values(r)))>> \o [k \in DOMAIN Values(r) |-> F(1, Values(r)[k][1])]

Encode(p) ==
  LET rs == p.records
      first == Bare(rs[1])
  IN  IF p.compressed
      THEN Frame(Compressed,
                 <<Head(first)>> \o List(rs[1]) \o Tail(first)
                 \o FlattenSeq([k \in 1..(Len(rs) - 1) |-> Bare(rs[k + 1])]))
      ELSE Frame(Packet, <<F(1, Imei), F(15, p.imei)>>
                         \o FlattenSeq([k \in DOMAIN rs |-> Tagged(rs[k])]))

(* What a reader of the store may expect, where there are no satellites,   *)
(* and of the params: those of the last record remain.                     *)
Position(r) == [t |-> r.t, lat |-> r.lat, lon |-> r.lon, alt |-> r.alt,
                course |-> r.course, speed |-> r.speed, sat |-> 0]
Content(p) == [k \in DOMAIN p.records |-> Position(p.records[k])]
Carries(p, params) ==
  LET io == Last(p.records).io IN \A i \in DOMAIN io : params[io[i][1]] = <<io[i][2]>>

Checksum(message) == Last(message).v
Accepted(p, reply) == reply = F(3, Checksum(Encode(p)))
AcceptedLogin(k, reply) == TRUE
=============================================================================
