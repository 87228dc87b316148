----------------------------- MODULE Navtelecom -----------------------------
(***************************************************************************)
(* The decoder of navtelecom.go as a function.  The device tells its imei  *)
(* and then, for FLEX, which fields its records have: the session keeps    *)
(* these as bits, here as the numbers of the fields, ascending.  Nothing   *)
(* of a message is checked, neither its length nor its checksums.          *)
(*                                                                         *)
(* Variables that a failed read leaves at an earlier record's value are    *)
(* taken for zero: the model stands for whole messages only.               *)
(***************************************************************************)
EXTENDS Wire, Integers

(* What a message begins with: "@NTC", or one of the FLEX kinds.           *)
Ntc == 1
Archive == 2   \* "~A"
Event == 3     \* "~T"
Current == 4   \* "~C"
Imei == 1      \* "*>S:" in a message of the first sort
Flex == 2      \* "*>FLEX"

NewSession == [imei |-> Unknown, bits |-> <<>>]

-----------------------------------------------------------------------------
(* The fields of a record, by their numbers, and the widths of the fields. *)
GpsTime == 3
Sat == 8
Lat == 10
Lon == 11
Alt == 12
Speed == 13
Course == 14

Two == {2, 14, 53, 55, 66, 68, 71, 75, 100, 106, 108, 141, 143, 171, 175}
       \cup 17..28 \cup 35..36 \cup 38..44 \cup 58..62 \cup 110..117 \cup 119..121
       \cup 133..138 \cup 147..166 \cup 177..178 \cup 180..192 \cup 200..201 \cup 223..237
Three == {142, 146, 198} \cup 84..93
Four == {1, 3, 37, 54, 57, 67, 74, 76, 105, 176, 179, 203}
        \cup 9..13 \cup 15..16 \cup 33..34 \cup 102..103 \cup 127..132
        \cup 172..174 \cup 193..196 \cup 205..206 \cup 238..252
Other == [f \in {70, 253, 254, 255} |-> 8] @@ [f \in {94, 107, 109, 197} |-> 6]
         @@ 73 :> 16 @@ 77 :> 37 @@ 95 :> 12 @@ 96 :> 24 @@ 97 :> 48 @@ 204 :> 5

Width(f) ==
  CASE f \in Two -> 2 [] f \in Three -> 3 [] f \in Four -> 4
    [] f \in DOMAIN Other -> Other[f] [] OTHER -> 1

(* The fields stored as params, which are more for the archive.            *)
Params(kind) == {9, 15, 19, 20} \cup (IF kind = Archive THEN 21..24 \cup 35..44 ELSE {})

(* One record: v gives the value of each of its fields.                    *)
RecordRawSat(v) ==
  LET Of(f) == IF f \in DOMAIN v THEN v[f] ELSE 0
  IN  [t |-> Of(GpsTime), lat |-> Of(Lat), lon |-> Of(Lon), alt |-> Of(Alt) \div 10,
       course |-> Of(Course), speed |-> Of(Speed), sat |-> Of(Sat)]
Record(v) ==
  LET Of(f) == IF f \in DOMAIN v THEN v[f] ELSE 0
  IN  [t |-> Of(GpsTime), lat |-> Of(Lat), lon |-> Of(Lon), alt |-> Of(Alt) \div 10,
       course |-> Of(Course), speed |-> Of(Speed), sat |-> Of(Sat) \div 4]

RECURSIVE Decode(_, _, _, _)
Decode(d, kind, bits, n) ==
  LET values == Parse(d.b, [k \in DOMAIN bits |-> Width(bits[k])])
      v == [f \in ToSet(bits) |-> values[CHOOSE k \in DOMAIN bits : bits[k] = f]]
  IN  IF n = 0 THEN d
      ELSE Decode([b |-> Skip(d.b, FoldSeq(LAMBDA f, w : w + Width(f), 0, bits)),
                   params |-> [f \in DOMAIN v \cap Params(kind) |-> v[f]] @@ d.params,
                   records |-> Append(d.records, Record(v))],
                  kind, bits, n - 1)

(* What all three kinds do: n records of the agreed fields, and a reply.   *)
RecordsForgetBits(b, session, kind, n, reply) ==
  LET d == Decode([b |-> b, params |-> <<>>, records |-> <<>>], kind, session.bits, n)
  IN  Response([session EXCEPT !.bits = <<>>],
               [k \in DOMAIN d.records |-> d.records[k] @@ [p |-> d.params]], <<reply>>)
Records(b, session, kind, n, reply) ==
  LET d == Decode([b |-> b, params |-> <<>>, records |-> <<>>], kind, session.bits, n)
  IN  Response(session, [k \in DOMAIN d.records |-> d.records[k] @@ [p |-> d.params]], <<reply>>)

-----------------------------------------------------------------------------
(* A reply goes back to where the message came from.                       *)
SendResponse(receiver, sender, payload) == <<sender, receiver, payload>>

(* "*>S:": the imei is what follows in a sentence of the length told.      *)
GetImei(b, length, receiver, sender) ==
  LET sentence == Cut(b, length)
      imei == Skip(sentence, 4)
  IN  IF Bytes(sentence) < 4 THEN Panic
      ELSE Response([imei |-> Get(imei, Bytes(imei)), bits |-> <<>>], <<>>,
                    <<SendResponse(receiver, sender, <<Imei>>)>>)

(* "*>FLEX": a protocol and its versions, sent back, and a bit per field.  *)
BitsReversed(b, n) ==
  LET bytes == Parse(b, [i \in 1..((n + 7) \div 8) |-> 1])
      IsSet(f) == (bytes[(f + 7) \div 8] \div 2^((f - 1) % 8)) % 2 = 1
  IN  SelectSeq([f \in 1..n |-> f], IsSet)
Bits(b, n) ==
  LET bytes == Parse(b, [i \in 1..((n + 7) \div 8) |-> 1])
      IsSet(f) == (bytes[(f + 7) \div 8] \div 2^(7 - ((f - 1) % 8))) % 2 = 1
  IN  SelectSeq([f \in 1..n |-> f], IsSet)

Negotiate(b, session, receiver, sender) ==
  Response([session EXCEPT !.bits = Bits(Skip(b, 4), Get(Skip(b, 3), 1))], <<>>,
           <<SendResponse(receiver, sender, <<Flex>> \o Parse(b, <<1, 1, 1>>))>>)

HandleNtc(b, session) ==
  LET h == Parse(b, <<4, 4, 2, 1, 1>>)
      body == Skip(b, 12)
  IN  CASE Get(body, 4) = Imei -> GetImei(body, h[3], h[1], h[2])
        [] Get(body, 6) = Flex -> Negotiate(Skip(body, 6), session, h[1], h[2])
        [] OTHER -> Refuse(NewSession)

(* Several records, which are counted; one record for an event, which is   *)
(* numbered; one record.                                                   *)
HandleArchive(data, session) ==
  LET count == Get(data, 1)
  IN  Records(Skip(data, 1), session, Archive, count, <<Archive, count>>)
HandleEventAsArchive(data, session) ==
  Records(Skip(data, 4), session, Event, 1, <<Event, 1>>)
HandleEvent(data, session) ==
  LET eventindex == Get(data, 4)
  IN  Records(Skip(data, 4), session, Event, 1, <<Event, eventindex>>)
HandleCurrent(data, session) == Records(data, session, Current, 1, <<Current>>)

(* Of the kinds of FLEX 2.0, and of an unknown one, nothing is kept and    *)
(* nothing answered, but the session goes on.                              *)
Handle(b, session) ==
  LET kind == Get(b, 2)
      data == Skip(b, 2)
  IN  CASE Get(b, 4) = Ntc -> HandleNtc(Skip(b, 4), session)
        [] kind = Archive -> HandleArchive(data, session)
        [] kind = Event -> HandleEvent(data, session)
        [] kind = Current -> HandleCurrent(data, session)
        [] OTHER -> Refuse(session)

-----------------------------------------------------------------------------
(* The device's side: it tells its imei, then the fields of its records,   *)
(* and sends packets of these fields.  A record is a function from the     *)
(* numbers of its fields to their values.                                  *)
Server == 1
Tracker == 2
Frame(content) ==
  <<F(4, Ntc), F(4, Server), F(4, Tracker), F(2, Bytes(content)), F(1, 0), F(1, 0)>> \o content

MaskByte(fields, i) ==
  FoldSet(LAMBDA f, sum : sum + 2^(8 * i - f), 0, fields \cap (8 * i - 7)..(8 * i))
LoginsOf(imei, fields, n) ==
  <<Frame(<<F(4, Imei), F(15, imei)>>),
    Frame(<<F(6, Flex), F(1, 176), F(1, 10), F(1, 10), F(1, n)>>
          \o [i \in 1..((n + 7) \div 8) |-> F(1, MaskByte(fields, i))])>>
LoginAnswered == TRUE

FieldsOf(r) == SelectSeq([f \in 1..255 |-> f], LAMBDA f : f \in DOMAIN r)
EncodeRecord(r) == [k \in DOMAIN FieldsOf(r) |-> F(Width(FieldsOf(r)[k]), r[FieldsOf(r)[k]])]
Encode(p) ==
  <<F(2, p.kind)>>
  \o (CASE p.kind = Archive -> <<F(1, Len(p.records))>>
        [] p.kind = Event -> <<F(4, p.index)>>
        [] p.kind = Current -> <<>>)
  \o FlattenSeq([k \in DOMAIN p.records |-> EncodeRecord(p.records[k])])
  \o <<F(1, 0)>>

(* What a reader of the store may expect of a packet, and of its params:   *)
(* those that are stored for every kind of message.                        *)
Content(p) ==
  [k \in DOMAIN p.records |->
     LET r == p.records[k]
     IN  [t |-> r[GpsTime], lat |-> r[Lat], lon |-> r[Lon], alt |-> r[Alt] \div 10,
          course |-> r[Course], speed |-> r[Speed], sat |-> r[Sat] \div 4]]
Carries(p, params) ==
  LET r == Last(p.records)
  IN  \A f \in DOMAIN r \cap {9, 15, 19, 20} : params[f] = r[f]

Accepted(p, reply) ==
  reply = CASE p.kind = Archive -> <<Archive, Len(p.records)>>
            [] p.kind = Event -> <<Event, p.index>>
            [] p.kind = Current -> <<Current>>
AcceptedLogin(k, reply) ==
  reply[1] = Tracker /\ reply[2] = Server /\ reply[3][1] = <<Imei, Flex>>[k]
=============================================================================
