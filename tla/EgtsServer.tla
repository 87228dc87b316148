------------------------------ MODULE EgtsServer ------------------------------
(***************************************************************************)
(* EGTS devices and the handlers of their connections.  What a handler has *)
(* to respond to a packet is sent response by response, and for the number *)
(* of each the handlers share packetId without a lock (egts.go:105).       *)
(*                                                                         *)
(* The decoder is a parameter, see EgtsContract.                           *)
(***************************************************************************)
EXTENDS EgtsContract

CONSTANTS
  Cuts,                     \* bound: the numbers of bytes TCP may deliver at once
  Registered                \* the imeis in main_unit

VARIABLES
  packetId, \* the global counter
  wire,     \* per connection: the bytes sent and not read yet
  sent,     \* per connection: how many packets its device has sent
  cut,      \* per connection: has TCP ever delivered a piece of a packet?
  at,       \* where the handler is; "endless" in a loop that does not end
  result,   \* what decoding the last buffer comes to, and the responses not yet sent
  register, \* the copy of packetId that packetId++ works on
  responses,\* those written to the connection, in this order
  overlap   \* have two handlers ever been in sendResponse at once?

vars == <<packetId, wire, sent, cut, at, result, register, responses, overlap>>

Init ==
  /\ packetId = 0
  /\ wire = [c \in Conns |-> <<>>] /\ sent = [c \in Conns |-> 0]
  /\ cut = [c \in Conns |-> FALSE]
  /\ at = [c \in Conns |-> "read"]
  /\ result \in [Conns -> DecodeBuffer(<<>>)]
  /\ register = [c \in Conns |-> 0]
  /\ responses = [c \in Conns |-> <<>>]
  /\ overlap = FALSE

(* A device waits for what becomes of its packet.                          *)
Send(c) ==
  /\ at[c] = "read" /\ wire[c] = <<>> /\ sent[c] < Len(Script[c])
  /\ sent' = [sent EXCEPT ![c] = @ + 1]
  /\ wire' = [wire EXCEPT ![c] = EncodePacket(Script[c][sent[c] + 1])]
  /\ UNCHANGED <<packetId, cut, at, result, register, responses, overlap>>

Pending(d) == IF d.responses # <<>> THEN "load" ELSE "done"

Read(c, n) ==
  /\ at[c] = "read" /\ n \in 1..ByteLen(wire[c])
  /\ wire' = [wire EXCEPT ![c] = BytesAfter(@, n)]
  /\ cut' = [cut EXCEPT ![c] = @ \/ n < ByteLen(wire[c])]
  /\ \E d \in DecodeBuffer(FirstBytes(wire[c], n)) :
       /\ result' = [result EXCEPT ![c] = d]
       /\ at' = [at EXCEPT ![c] = Pending(d)]
  /\ UNCHANGED <<packetId, sent, register, responses, overlap>>

(* The numbers of responses have two bytes.                                *)
Width == 65536

(* sendResponse: packetId++ reads the counter and writes it; then it is    *)
(* read once more, for the number of the response.                         *)
Load(c) ==
  /\ at[c] = "load"
  /\ register' = [register EXCEPT ![c] = packetId]
  /\ at' = [at EXCEPT ![c] = "store"]
  /\ overlap' = (overlap \/ \E e \in Conns \ {c} : at[e] \in {"store", "number"})
  /\ UNCHANGED <<packetId, wire, sent, cut, result, responses>>

StoreSkipped(c) ==
  /\ at[c] = "store"
  /\ at' = [at EXCEPT ![c] = "number"]
  /\ UNCHANGED <<packetId, wire, sent, cut, result, register, responses, overlap>>
Store(c) ==
  /\ at[c] = "store"
  /\ packetId' = register[c] + 1
  /\ at' = [at EXCEPT ![c] = "number"]
  /\ UNCHANGED <<wire, sent, cut, result, register, responses, overlap>>

Number(c) ==
  LET rest == [result[c] EXCEPT !.responses = Tail(@)]
  IN  /\ at[c] = "number"
      /\ responses' = [responses EXCEPT ![c] =
           Append(@, [number |-> packetId % Width, response |-> Head(result[c].responses)])]
      /\ result' = [result EXCEPT ![c] = rest]
      /\ at' = [at EXCEPT ![c] = Pending(rest)]
      /\ UNCHANGED <<packetId, wire, sent, cut, register, overlap>>

(* handle returns, if it does.  HandleRequest saves the records of a       *)
(* session that is registered and ends any other; which it is after every  *)
(* packet without an imei, so that what that brings is never saved.        *)
Finish(c) ==
  LET d == result[c]
      registered == d.imei \in Registered
  IN  /\ at[c] = "done" /\ ~d.panic
      /\ at' = [at EXCEPT ![c] = IF d.endless THEN "endless" ELSE IF registered THEN "read" ELSE "gone"]
      /\ UNCHANGED <<packetId, wire, sent, cut, result, register, responses, overlap>>

(* A panic ends the process, with all handlers.                            *)
Panic(c) ==
  /\ at[c] = "done" /\ result[c].panic
  /\ at' = [e \in Conns |-> "gone"]
  /\ UNCHANGED <<packetId, wire, sent, cut, result, register, responses, overlap>>

HandleRequest(c) ==
  \/ \E n \in Cuts \cup {ByteLen(wire[c])} : Read(c, n)
  \/ Load(c) \/ Store(c) \/ Number(c) \/ Finish(c) \/ Panic(c)

Next == \E c \in Conns : Send(c) \/ HandleRequest(c)

Spec == Init /\ [][Next]_vars

-----------------------------------------------------------------------------
(* Properties *)

Numbers(c) == {responses[c][k].number : k \in 1..Len(responses[c])}

(* As long as no two handlers were in sendResponse at once, and until the  *)
(* counter no longer fits, every response of the server has a number of    *)
(* its own, and they grow along each connection.                           *)
NumbersDistinct ==
  ~overlap /\ packetId < Width =>
    /\ \A c, e \in Conns : c # e => Numbers(c) \cap Numbers(e) = {}
    /\ \A c \in Conns : \A j, k \in 1..Len(responses[c]) :
         j < k => responses[c][j].number < responses[c][k].number

SentWhole(c) ==
  /\ ~cut[c] /\ wire[c] = <<>>
  /\ \A k \in 1..sent[c] : IdentityIsLast(Script[c][k])

(* Of packets that came whole every record is confirmed to its device, and *)
(* decoded as it was sent, however the records and subrecords follow each  *)
(* other, unless an identity is not the last of them; which holds of those *)
(* read before another handler panicked, too.                              *)
DecodedAsSent ==
  \A c \in Conns : SentWhole(c) =>
    /\ [k \in 1..Len(responses[c]) |-> responses[c][k].response] \o result[c].responses
         = FlattenSeq([k \in 1..sent[c] |-> ResponsesTo(Script[c][k])])
    /\ sent[c] > 0 => /\ result[c].records = PacketRecords(Script[c][sent[c]])
                      /\ result[c].params = PacketParams(Script[c][sent[c]])

(* Of a packet that TCP has cut, the first piece yields records of the     *)
(* packet, from its first on, and no half of one; or the decoder hangs, or *)
(* panics.                                                                 *)
PieceIsPrefix ==
  \A c \in Conns :
    /\ sent[c] > 0 /\ ~result[c].endless /\ ~result[c].panic
    /\ result[c].length + ByteLen(wire[c]) = ByteLen(EncodePacket(Script[c][sent[c]]))
    => IsPrefix(result[c].records, PacketRecords(Script[c][sent[c]]))

(* The decoder hangs only on a piece of a packet, and on a packet that     *)
(* goes on after an identity.                                              *)
HangsOnlyOnPieces ==
  \A c \in Conns : result[c].endless => cut[c] \/ ~IdentityIsLast(Script[c][sent[c]])

=============================================================================
