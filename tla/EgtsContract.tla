---------------------------- MODULE EgtsContract ----------------------------
(***************************************************************************)
(* What EgtsServer takes from the devices and the decoder of egts.go, as   *)
(* parameters, and what it relies upon: what the decoder makes of one      *)
(* buffer, of those that may be on the wire.                               *)
(*                                                                         *)
(* DecodeBuffer returns what it may come to, which depends in places on    *)
(* the memory behind the buffer.  Each of these tells the records, their   *)
(* params, the imei, the responses and the length of the buffer, whether   *)
(* its loop does not end (endless), and whether it panics (panic), which   *)
(* it does after the responses.                                            *)
(***************************************************************************)
EXTENDS Naturals, SequencesExt

CONSTANTS
  Conns,                    \* the connections, each of another device
  Script,                   \* per connection: the packets its device sends
  EncodePacket(_),          \* the bytes of a packet
  PacketRecords(_), PacketParams(_), ResponsesTo(_), \* its records, their params and its responses
  IdentityIsLast(_),        \* does nothing follow an identity in it?
  ByteLen(_), FirstBytes(_, _), BytesAfter(_, _), \* the length of a buffer, and its parts
  DecodeBuffer(_)

(* A sequence, and a result of the decoder, are functions of some domain.  *)
Fields == {"length", "records", "params", "responses", "endless", "panic", "imei"}
Sequence(s) == Len(s) \in Nat /\ s = [k \in 1..Len(s) |-> s[k]]
Shaped(d) ==
  d = [f \in DOMAIN d |-> d[f]] /\ Fields \subseteq DOMAIN d /\ Sequence(d.responses)

(* A whole packet, whose decoding ends.                                    *)
Reads(p) ==
  \A d \in DecodeBuffer(EncodePacket(p)) :
    /\ d.records = PacketRecords(p) /\ d.params = PacketParams(p)
    /\ d.responses = ResponsesTo(p) /\ d.endless = FALSE /\ d.panic = FALSE

(* A packet, or a first piece of it: only records of the packet, from the  *)
(* first on, unless the decoder panics or hangs.                           *)
ReadsPieces(p) ==
  \A n \in 1..ByteLen(EncodePacket(p)) :
    \A d \in DecodeBuffer(FirstBytes(EncodePacket(p), n)) :
      d.endless \/ d.panic \/ IsPrefix(d.records, PacketRecords(p))

(* B has all that can be on the wire; the decoder takes the whole of every *)
(* portion that is read of it.                                             *)
Buffers(B) ==
  /\ <<>> \in B
  /\ \A b \in B :
       /\ ByteLen(b) \in Nat /\ (ByteLen(b) = 0 <=> b = <<>>) /\ FirstBytes(b, ByteLen(b)) = b
       /\ \A n \in 1..ByteLen(b) :
            /\ BytesAfter(b, n) \in B /\ ByteLen(BytesAfter(b, n)) = ByteLen(b) - n
            /\ DecodeBuffer(FirstBytes(b, n)) # {}
            /\ \A d \in DecodeBuffer(FirstBytes(b, n)) : Shaped(d) /\ d.length = n

(* The contract: whole packets are read as they were sent, if nothing      *)
(* follows an identity in them, and pieces as above.                       *)
Decodes(B) ==
  /\ Buffers(B)
  /\ \A none \in DecodeBuffer(<<>>) :
       /\ Shaped(none) /\ none.length = 0 /\ none.endless = FALSE /\ none.panic = FALSE
       /\ none.records = <<>> /\ none.responses = <<>>
  /\ \A c \in Conns : Sequence(Script[c]) /\ \A k \in 1..Len(Script[c]) :
       /\ EncodePacket(Script[c][k]) \in B \ {<<>>} /\ Sequence(PacketRecords(Script[c][k]))
       /\ IdentityIsLast(Script[c][k]) => Reads(Script[c][k])
       /\ ReadsPieces(Script[c][k])
=============================================================================
