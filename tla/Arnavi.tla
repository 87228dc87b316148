------------------------------- MODULE Arnavi -------------------------------
(***************************************************************************)
(* The decoder of arnavi.go as a function.  Nothing it reads is ever       *)
(* returned as a record: decodePosition is behind a test that a record of  *)
(* binary data cannot pass.  And as only a login sets res.imei, whatever   *)
(* follows the login ends the session.                                     *)
(***************************************************************************)
EXTENDS Wire

StartSign == 255     \* HEADER_START_SIGN
RecordPing == 0
RecordData == 1
RecordText == 3
RecordFile == 4
RecordBinary == 6

Ack(index) == F(1, index)    \* what sendResponse puts between 7b 00 and 7d

-----------------------------------------------------------------------------
(* Of a binary record the length, the time, the data and the checksum are  *)
(* skipped.                                                                *)
SkipBinary(b) == Skip(b, 2 + 4 + Get(b, 2) + 1)

(* The records in b, the first of them of the given type: are all of a     *)
(* known type?  Only a binary record is skipped by its length; the bytes   *)
(* of any other are taken for the types of further records.                *)
RECURSIVE KnownOrSkipped(_, _)
KnownOrSkipped(b, type) ==
  \/ Bytes(b) = 0
  \/ LET rest == IF type = RecordBinary THEN SkipBinary(b) ELSE b
     IN  KnownOrSkipped(Skip(rest, 1), Get(rest, 1))
RECURSIVE Known(_, _)
Known(b, type) ==
  \/ Bytes(b) = 0
  \/ /\ type \in {RecordPing, RecordData, RecordText, RecordFile, RecordBinary}
     /\ LET rest == IF type = RecordBinary THEN SkipBinary(b) ELSE b
        IN  Known(Skip(rest, 1), Get(rest, 1))

Handle(b, s) ==
  IF Get(b, 1) = StartSign THEN Response([imei |-> Get(Skip(b, 2), 8)], <<>>, <<>>)
  ELSE IF Known(Skip(b, 3), Get(Skip(b, 2), 1))
       THEN Response(Fresh, <<>>, <<Ack(Get(Skip(b, 1), 1))>>)
       ELSE Refuse(Fresh)

-----------------------------------------------------------------------------
(* The device: a package of one record, which is a ping, some data that is *)
(* no position, or a position in five bytes for each of its fields.        *)
LoginOf(imei) == <<F(1, StartSign), F(1, 34), F(8, imei)>>
LoginAnswered == FALSE
AcceptedLogin(k, reply) == FALSE

Record(p) ==
  CASE p.type = RecordPing -> <<>>
    [] p.type = RecordBinary -> <<F(2, p.length), F(4, p.t), F(p.length, 0), F(1, 0)>>
    [] p.type = RecordData ->
         <<F(1, 15), F(1, 0), F(4, p.t), F(1, 3), F(4, p.lat), F(1, 4), F(4, p.lon),
           F(1, 5), F(1, p.course), F(1, p.alt), F(1, p.sat), F(1, p.speed), F(1, 0)>>

Encode(p) == <<F(1, 91), F(1, p.index), F(1, p.type)>> \o Record(p) \o <<F(1, 93)>>

Content(p) ==
  IF p.type # RecordData THEN <<>>
  ELSE <<[t |-> p.t, lat |-> p.lat, lon |-> p.lon, alt |-> 10 * p.alt,
          course |-> 2 * p.course, speed |-> p.speed, sat |-> p.sat]>>
Carries(p, params) == TRUE

Accepted(p, reply) == reply = Ack(p.index)
=============================================================================
