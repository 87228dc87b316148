---------------------------- MODULE MCEgtsServer ----------------------------
(***************************************************************************)
(* EgtsServer for TLC, with the decoder of Egts and the devices of MCEgts. *)
(***************************************************************************)
EXTENDS EgtsServer

E == INSTANCE MCEgts

MCScript == E!DeviceScripts

MCEncodePacket(p) == E!Encode(p)
MCPacketRecords(p) == E!Content(p)
MCPacketParams(p) == E!Params(p)
MCResponsesTo(p) == E!Confirmed(p)
MCIdentityIsLast(p) == E!IdentityLast(p)
MCByteLen(b) == E!Bytes(b)
MCFirstBytes(b, n) == E!Cut(b, n)
MCBytesAfter(b, n) == E!Skip(b, n)
MCDecodeBuffer(b) == E!Outcomes(b)
=============================================================================
