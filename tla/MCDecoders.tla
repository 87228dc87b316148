----------------------------- MODULE MCDecoders -----------------------------
(***************************************************************************)
(* Link for TLC, with the decoders and the devices of six protocols.       *)
(* TeltonikaNx is a Teltonika device that sends an element of eight bytes  *)
(* in the last group of codec 8 extended, which no other does.             *)
(*                                                                         *)
(* Cuts fall within and between the messages of each protocol.  Three have *)
(* none: their decoders look at no length and no checksum, see README.     *)
(***************************************************************************)
EXTENDS Link, TLC

W == INSTANCE Wire
T == INSTANCE MCTeltonika
R == INSTANCE MCRuptela
N == INSTANCE MCNeomatica
G == INSTANCE MCGalileosky
V == INSTANCE MCNavtelecom
A == INSTANCE MCArnavi
E == INSTANCE MCEgts

MCDeviceImei == 7

All == {"Teltonika", "TeltonikaNx", "Ruptela", "Neomatica", "Galileosky", "Navtelecom", "Arnavi"}

MCMaxConns == [p \in All |-> IF p \in {"Teltonika", "TeltonikaNx", "Galileosky"} THEN 2 ELSE 3]

MCCuts ==
  ("Teltonika" :> {10, 27, 74, 96} @@ "Ruptela" :> {2, 13, 30, 63, 65, 108} @@
   "Galileosky" :> {2, 6, 24, 40, 57}) @@ [p \in All |-> {}]

MCScripts ==
  [p \in All |->
     CASE p = "Teltonika" -> T!BothCodecs
       [] p = "TeltonikaNx" -> T!NxScript
       [] p = "Ruptela" -> R!Script
       [] p = "Neomatica" -> N!Script
       [] p = "Galileosky" -> G!Script
       [] p = "Navtelecom" -> V!Script
       [] p = "Arnavi" -> A!Script]

MCFreshSession == "Navtelecom" :> V!NewSession @@ [p \in All |-> W!Fresh]

MCLogins ==
  [p \in All |->
     CASE p \in {"Teltonika", "TeltonikaNx"} -> <<T!LoginOf(MCDeviceImei)>>
       [] p = "Ruptela" -> <<>>
       [] p = "Neomatica" -> <<N!LoginOf(MCDeviceImei)>>
       [] p = "Galileosky" -> <<G!LoginOf(MCDeviceImei)>>
       [] p = "Navtelecom" -> V!LoginsOf(MCDeviceImei, V!Fields, 72)
       [] p = "Arnavi" -> <<A!LoginOf(MCDeviceImei)>>]

MCLoginsAnswered ==
  {p \in All : CASE p \in {"Teltonika", "TeltonikaNx"} -> T!LoginAnswered
                 [] p = "Neomatica" -> N!LoginAnswered
                 [] p = "Galileosky" -> G!LoginAnswered
                 [] p = "Navtelecom" -> V!LoginAnswered
                 [] p = "Arnavi" -> A!LoginAnswered
                 [] OTHER -> FALSE}

(* An Arnavi position is never answered.                                   *)
MCAnswering == All \ {"Arnavi"}

MCEndsOnPiece == {"Ruptela"}

(* Ruptela has no login, and those of two others are not waited for.       *)
MCAgreedSessions ==
  [p \in All |->
     CASE p = "Navtelecom" -> {[imei |-> MCDeviceImei, bits |-> V!FieldsOf(V!Rec(1))]}
       [] p \in {"Ruptela", "Neomatica", "Arnavi"} -> {W!Fresh, [imei |-> MCDeviceImei]}
       [] OTHER -> {[imei |-> MCDeviceImei]}]

MCEncodePacket(p, k) ==
  CASE p \in {"Teltonika", "TeltonikaNx"} -> T!Encode(k)
    [] p = "Ruptela" -> R!Encode(k)
    [] p = "Neomatica" -> N!Encode(k)
    [] p = "Galileosky" -> G!Encode(k)
    [] p = "Navtelecom" -> V!Encode(k)
    [] p = "Arnavi" -> A!Encode(k)

MCPacketRecords(p, k) ==
  CASE p \in {"Teltonika", "TeltonikaNx"} -> T!Content(k)
    [] p = "Ruptela" -> R!Content(k)
    [] p = "Neomatica" -> N!Content(k)
    [] p = "Galileosky" -> G!Content(k)
    [] p = "Navtelecom" -> V!Content(k)
    [] p = "Arnavi" -> A!Content(k)

MCCarriesParams(p, k, params) ==
  CASE p \in {"Teltonika", "TeltonikaNx"} -> T!Carries(k, params)
    [] p = "Ruptela" -> R!Carries(k, params)
    [] p = "Neomatica" -> N!Carries(k, params)
    [] p = "Galileosky" -> G!Carries(k, params)
    [] p = "Navtelecom" -> V!Carries(k, params)
    [] p = "Arnavi" -> A!Carries(k, params)

MCAcceptsReply(p, k, reply) ==
  CASE p \in {"Teltonika", "TeltonikaNx"} -> T!Accepted(k, reply)
    [] p = "Ruptela" -> R!Accepted(k, reply)
    [] p = "Neomatica" -> N!Accepted(k, reply)
    [] p = "Galileosky" -> G!Accepted(k, reply)
    [] p = "Navtelecom" -> V!Accepted(k, reply)
    [] p = "Arnavi" -> A!Accepted(k, reply)

MCAcceptsLogin(p, n, reply) ==
  CASE p \in {"Teltonika", "TeltonikaNx"} -> T!AcceptedLogin(n, reply)
    [] p = "Galileosky" -> G!AcceptedLogin(n, reply)
    [] p = "Navtelecom" -> V!AcceptedLogin(n, reply)
    [] OTHER -> FALSE

MCHandleBuffer(p, b, s) ==
  CASE p \in {"Teltonika", "TeltonikaNx"} -> T!Handle(b, s)
    [] p = "Ruptela" -> R!Handle(b, s)
    [] p = "Neomatica" -> N!Handle(b, s)
    [] p = "Galileosky" -> G!Handle(b, s)
    [] p = "Navtelecom" -> V!Handle(b, s)
    [] p = "Arnavi" -> A!Handle(b, s)

MCByteLen(b) == W!Bytes(b)
MCFirstBytes(b, n) == W!Cut(b, n)
MCBytesAfter(b, n) == W!Skip(b, n)

(* What the theorems of RuptelaProofs want of a Link holds of this one's   *)
(* Ruptela.                                                                *)
ASSUME RuptelaScript ==
  LET p == "Ruptela"
  IN  /\ MCLogins[p] = <<>> /\ MCFreshSession[p] = R!Fresh
      /\ MCAgreedSessions[p] = {R!Fresh, [imei |-> MCDeviceImei]}
      /\ MCDeviceImei \in Nat \ {R!Unknown}
      /\ \A k \in DOMAIN MCScripts[p] : R!Valid(MCScripts[p][k]) /\ MCScripts[p][k].imei = MCDeviceImei

(* EGTS has no part in Link, but the theorems of EgtsProofs want of its    *)
(* decoder what is checked here, of every piece of the packets of MCEgts.  *)
EgtsDecoder == INSTANCE EgtsContract WITH
  Conns <- {1, 2}, Script <- E!DeviceScripts, EncodePacket <- E!Encode, PacketRecords <- E!Content,
  PacketParams <- E!Params, ResponsesTo <- E!Confirmed, IdentityIsLast <- E!IdentityLast,
  ByteLen <- E!Bytes, FirstBytes <- E!Cut, BytesAfter <- E!Skip, DecodeBuffer <- E!Outcomes
ASSUME EgtsPackets == EgtsDecoder!Decodes(E!Leftovers)

-----------------------------------------------------------------------------
(* The states of a connection, each with what the device does: it waits    *)
(* for the answer to m, or for none after t logins.                        *)
At(does, m, x) == [does |-> does, m |-> m, x |-> x]

Sends(p, a) ==
  {IF Awaited(p, m) THEN At("waits", m, Sending(p, m, a.x)) ELSE At("idles", m, Sending(p, m, a.x)) :
     m \in {k \in Stages(p) : a.does = "idles" /\ Before(p, k) = a.m}}
Reads(p, a) == {[a EXCEPT !.x = Reading(a.x, n, Result(p, a.x, n))] : n \in Portions(p, a.x)}
Receives(p, a) ==
  IF a.does = "idles" \/ a.x.back = <<>> THEN {}
  ELSE IF Takes(p, a.m, a.x) THEN {At("idles", Behind(p, a.m), Receiving(a.x, FALSE))}
  ELSE {[a EXCEPT !.x = Receiving(a.x, a.x.safe)]}

RECURSIVE Reached(_, _, _)
Reached(p, old, new) ==
  IF new = {} THEN old
  ELSE Reached(p, old \cup new,
               UNION {Sends(p, a) \cup Reads(p, a) \cup Receives(p, a) : a \in new} \ (old \cup new))

(* The decoders keep the contract that the theorems about Link rely upon,  *)
(* with these states of a connection, however TCP cuts the streams of the  *)
(* first three.  No variable has a part in that: once is enough.           *)
ContractKept ==
  conn = 0 =>
    LET p == protocol
        all == Reached(p, {}, {At("idles", 0, Start(p))})
        States(does, m) == {a.x : a \in {b \in all : b.does = does /\ b.m = m}}
    IN  Kept(p, [m \in Stages(p) |-> States("waits", m)],
             [t \in 0..Len(Logins[p]) |-> States("idles", t)])
=============================================================================
