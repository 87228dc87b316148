-------------------------------- MODULE Link --------------------------------
(***************************************************************************)
(* A tracker that delivers its packets to one of the protocol servers.     *)
(* The device sends one packet at a time, waits for its acknowledgement,   *)
(* and when none comes gives the connection up and starts again on a new   *)
(* one.  TCP is a stream: what HandleRequest reads at once, and passes to  *)
(* the protocol's handle, may be a part of a message or several of them.   *)
(*                                                                         *)
(* The protocols are a parameter: what handle does, what the device sends  *)
(* and which replies it takes.  Queries do not fail here, see Gateway.     *)
(***************************************************************************)
EXTENDS Naturals, Sequences

CONSTANTS
  Protocols,                \* a device speaks one of these
  MaxConns,                 \* bound, per protocol: the connections a device opens
  Scripts,                  \* per protocol: the packets the device has to deliver
  DeviceImei,               \* its imei, which is in main_unit and no other is
  Cuts,                     \* bound, per protocol: the numbers of bytes TCP may deliver at once
  FreshSession,             \* per protocol: HandleRequest's imei and bits for a new connection
  Logins,                   \* per protocol: the messages it logs in with, one after the other
  LoginsAnswered,           \* the protocols whose device waits for the answers to these
  Answering,                \* those whose decoder answers every packet
  EndsOnPiece,              \* those whose decoder ends the session upon a piece of one
  AgreedSessions,           \* per protocol: the sessions of a device that has logged in
  EncodePacket(_, _),       \* the message of a packet
  PacketRecords(_, _),      \* the records a packet stands for, and whether
  CarriesParams(_, _, _),   \* ... params are what its last record has
  AcceptsReply(_, _, _),    \* does the device take a reply for the packet's ack?
  AcceptsLogin(_, _, _),    \* and for that of the k-th login message?
  ByteLen(_), FirstBytes(_, _), BytesAfter(_, _), \* the length of a buffer, and its parts
  HandleBuffer(_, _, _)     \* the protocol's handle, for a buffer and a session

VARIABLES
  protocol, \* of the device and the server it connects to
  alive,   \* no decoder has panicked
  conn,    \* the device's connection, 0 before the first
  up,      \* does the device use it?
  told,    \* the login messages that it has got through
  waits,   \* has it sent a message, and waits for the answer?
  next,    \* the packet to deliver next; those before it are acknowledged
  wire,    \* per connection: the bytes sent and not read yet
  back,    \* per connection: the replies on their way
  open,    \* per connection: has HandleRequest not returned?
  session, \* per connection: HandleRequest's imei and bits
  saved    \* the batches saved, in this order

vars == <<protocol, alive, conn, up, told, waits, next, wire, back, open, session, saved>>

Conns == 1..MaxConns[protocol]
Packets == 1..Len(Scripts[protocol])
Messages == [p \in Protocols |-> [k \in DOMAIN Scripts[p] |-> EncodePacket(p, Scripts[p][k])]]
Contents == [p \in Protocols |-> [k \in DOMAIN Scripts[p] |-> PacketRecords(p, Scripts[p][k])]]
MessageOf(k) == Messages[protocol][k]
ContentOf(k) == Contents[protocol][k]

Init ==
  /\ protocol \in Protocols
  /\ alive = TRUE
  /\ conn = 0 /\ up = FALSE /\ told = 0 /\ waits = FALSE /\ next = 1
  /\ wire = [c \in Conns |-> <<>>]
  /\ back = [c \in Conns |-> <<>>]
  /\ open = [c \in Conns |-> TRUE]
  /\ session = [c \in Conns |-> FreshSession[protocol]]
  /\ saved = <<>>

-----------------------------------------------------------------------------
(* The device *)

Connect ==
  /\ ~up /\ conn < MaxConns[protocol] /\ next \in Packets
  /\ conn' = conn + 1
  /\ up' = TRUE /\ told' = 0
  /\ UNCHANGED <<protocol, alive, waits, next, wire, back, open, session, saved>>

SendLogin ==
  /\ up /\ ~waits /\ told < Len(Logins[protocol])
  /\ wire' = [wire EXCEPT ![conn] = @ \o Logins[protocol][told + 1]]
  /\ waits' = (protocol \in LoginsAnswered)
  /\ told' = IF protocol \in LoginsAnswered THEN told ELSE told + 1
  /\ UNCHANGED <<protocol, alive, conn, up, next, back, open, session, saved>>

SendPacket ==
  /\ up /\ ~waits /\ told = Len(Logins[protocol]) /\ next \in Packets
  /\ wire' = [wire EXCEPT ![conn] = @ \o MessageOf(next)]
  /\ waits' = TRUE
  /\ UNCHANGED <<protocol, alive, conn, up, told, next, back, open, session, saved>>

(* Any other reply is ignored.                                             *)
Receive ==
  /\ waits /\ back[conn] # <<>>
  /\ LET reply == Head(back[conn])
         login == told < Len(Logins[protocol]) /\ AcceptsLogin(protocol, told + 1, reply)
         packet == told = Len(Logins[protocol]) /\ AcceptsReply(protocol, Scripts[protocol][next], reply)
     IN  /\ told' = IF login THEN told + 1 ELSE told
         /\ next' = IF packet THEN next + 1 ELSE next
         /\ waits' = ~(login \/ packet)
  /\ back' = [back EXCEPT ![conn] = Tail(@)]
  /\ UNCHANGED <<protocol, alive, conn, up, wire, open, session, saved>>

(* The device may stop waiting at any time; what it has sent may still be  *)
(* read, and the answers to that are lost.                                 *)
GiveUp ==
  /\ waits
  /\ up' = FALSE /\ waits' = FALSE
  /\ UNCHANGED <<protocol, alive, conn, told, next, wire, back, open, session, saved>>

-----------------------------------------------------------------------------
(* HandleRequest: n bytes are read, handled and saved; the session ends if *)
(* the imei that handle returned is not registered.                        *)
Arrives(c, n) ==
  /\ alive /\ open[c]
  /\ 0 < n /\ n <= ByteLen(wire[c])
  /\ n \in Cuts[protocol] \/ n = ByteLen(wire[c])
  /\ wire' = [wire EXCEPT ![c] = BytesAfter(@, n)]

(* A panic, of which r tells neither a reply nor an imei, ends the process. *)
Message(c, n) ==
  /\ Arrives(c, n)
  /\ LET r == HandleBuffer(protocol, FirstBytes(wire[c], n), session[c])
         registered == r.session.imei = DeviceImei
     IN  /\ alive' = ~r.panic
         /\ back' = [back EXCEPT ![c] = @ \o r.reply]
         /\ session' = [session EXCEPT ![c] = r.session]
         /\ open' = [open EXCEPT ![c] = registered]
         /\ saved' = IF r.records = <<>> \/ ~registered THEN saved
                     ELSE Append(saved, [imei |-> r.session.imei, records |-> r.records])
  /\ UNCHANGED <<protocol, conn, up, told, waits, next>>

HandleRequest ==
  \E c \in Conns : \E n \in Cuts[protocol] \cup {ByteLen(wire[c])} : Message(c, n)

Next == Connect \/ SendLogin \/ SendPacket \/ Receive \/ GiveUp \/ HandleRequest

(* The device keeps trying, and the server reads what arrives.             *)
Fairness ==
  /\ WF_vars(Connect) /\ WF_vars(SendLogin) /\ WF_vars(SendPacket)
  /\ WF_vars(Receive) /\ WF_vars(HandleRequest)

Spec == Init /\ [][Next]_vars /\ Fairness

-----------------------------------------------------------------------------
(* Properties *)

(* What a batch says of the positions; and: is it the packet k, with its   *)
(* positions and params?                                                   *)
Positions(records) ==
  [k \in DOMAIN records |-> [f \in DOMAIN records[k] \ {"p"} |-> records[k][f]]]
IsPacketOf(p, b, k) ==
  /\ b.imei = DeviceImei
  /\ Positions(b.records) = Contents[p][k]
  /\ CarriesParams(p, Scripts[p][k], b.records[Len(b.records)].p)
IsPacket(b, k) == IsPacketOf(protocol, b, k)

(* A packet whose acknowledgement the device has taken is saved, under its *)
(* own imei, with all its records and the params of the last of them,      *)
(* unless it stands for none.                                              *)
AckedIsSaved ==
  \A k \in 1..(next - 1) : ContentOf(k) # <<>> => \E j \in 1..Len(saved) : IsPacket(saved[j], k)

(* What is saved is a packet that the device has sent, whole and with its  *)
(* values, however TCP cut the stream: no piece is taken for a message.    *)
SavedIsSent ==
  \A j \in 1..Len(saved) : \E k \in Packets : k <= next /\ IsPacket(saved[j], k)

(* A server that still reads what a logged-in device sends has the session *)
(* the two have agreed upon: the imei and, for Navtelecom, the fields by   *)
(* which the records are read.                                             *)
SessionAgreed ==
  up /\ told = Len(Logins[protocol]) /\ open[conn] => session[conn] \in AgreedSessions[protocol]

(* A packet that arrives whole and alone in a session of its device is     *)
(* acknowledged, in the protocols that answer every packet.                *)
WholePacket(p, k, bytes, rest, s) ==
  /\ bytes = Messages[p][k] /\ rest = <<>>
  /\ Logins[p] = <<>> \/ s.imei = DeviceImei
Answered ==
  [][\A c \in Conns, k \in Packets :
       protocol \in Answering /\ WholePacket(protocol, k, wire[c], wire'[c], session[c]) =>
         /\ Len(back'[c]) = Len(back[c]) + 1
         /\ AcceptsReply(protocol, Scripts[protocol][k], back'[c][Len(back'[c])])]_vars

(* A session that has read a part of a packet ends with it: the rest is    *)
(* never read, and cannot be taken for the start of one.  Neither the part *)
(* nor a whole packet ends the process, by a panic.                        *)
CutEnds ==
  [][(protocol \in EndsOnPiece) =>
       /\ alive'
       /\ \A c \in Conns :
            open[c] /\ wire'[c] # <<>> /\ ByteLen(wire'[c]) < ByteLen(wire[c]) => ~open'[c]]_vars

-----------------------------------------------------------------------------
(* What a decoder owes to a single connection, whose device sends messages *)
(* 1, 2, ...: the logins, then the packets.  A state of the connection is  *)
(* what VARIABLES say of it, and whether what was sent last has been saved *)
(* (safe).  A decoder keeps the contract if there are sets of states,      *)
(* after[m] while the device waits for the answer to message m, idle[t]    *)
(* while it waits for none and t logins are behind it, such that each step *)
(* leads from one to the next, what is saved is the packet that was sent,  *)
(* an answer that the device takes finds it saved, a whole packet gets     *)
(* such an answer, a piece ends the session where it has to, and that of a *)
(* logged-in device is one agreed upon.                                    *)
Stages(p) == 1..(Len(Logins[p]) + Len(Scripts[p]))
IsLogin(p, m) == m <= Len(Logins[p])
PacketOf(p, m) == m - Len(Logins[p])
TheMessage(p, m) == IF IsLogin(p, m) THEN Logins[p][m] ELSE Messages[p][PacketOf(p, m)]
Awaited(p, m) == IsLogin(p, m) => p \in LoginsAnswered
Before(p, m) == IF IsLogin(p, m) THEN m - 1 ELSE Len(Logins[p])
Behind(p, m) == IF IsLogin(p, m) THEN m ELSE Len(Logins[p])

Start(p) == [wire |-> <<>>, back |-> <<>>, open |-> TRUE, session |-> FreshSession[p], safe |-> FALSE]

Sending(p, m, x) ==
  [wire |-> x.wire \o TheMessage(p, m), back |-> x.back, open |-> x.open,
   session |-> x.session, safe |-> FALSE]

Portions(p, x) == {n \in Cuts[p] \cup {ByteLen(x.wire)} : x.open /\ 0 < n /\ n <= ByteLen(x.wire)}
Result(p, x, n) == HandleBuffer(p, FirstBytes(x.wire, n), x.session)
Saves(r) == r.session.imei = DeviceImei /\ r.records # <<>>
Reading(x, n, r) ==
  [wire |-> BytesAfter(x.wire, n), back |-> x.back \o r.reply, open |-> r.session.imei = DeviceImei,
   session |-> r.session, safe |-> IF Saves(r) THEN TRUE ELSE x.safe]

Answers(p, x, n, r) ==
  \A k \in DOMAIN Messages[p] :
    p \in Answering /\ WholePacket(p, k, x.wire, BytesAfter(x.wire, n), x.session) =>
      r.reply # <<>> /\ r.reply = <<Head(r.reply)>> /\ AcceptsReply(p, Scripts[p][k], Head(r.reply))

Takes(p, m, x) ==
  /\ x.back # <<>>
  /\ IF IsLogin(p, m) THEN AcceptsLogin(p, m, Head(x.back))
     ELSE AcceptsReply(p, Scripts[p][PacketOf(p, m)], Head(x.back))
Receiving(x, safe) ==
  [wire |-> x.wire, back |-> Tail(x.back), open |-> x.open, session |-> x.session, safe |-> safe]

EndsPiece(p, x, n, r) ==
  p \in EndsOnPiece => ~r.panic /\ (BytesAfter(x.wire, n) # <<>> => r.session.imei # DeviceImei)

KeptSending(p, m, X, Y) ==
  \A x \in X : /\ Sending(p, m, x) \in Y
              /\ ByteLen(x.wire) <= ByteLen(Sending(p, m, x).wire)

ReadsIdle(p, X, x, n, r) ==
  Reading(x, n, r) \in X /\ ~Saves(r) /\ Answers(p, x, n, r) /\ EndsPiece(p, x, n, r)
KeptIdle(p, X) ==
  \A x \in X : /\ ByteLen(x.wire) \in Nat
              /\ \A n \in Portions(p, x) : ReadsIdle(p, X, x, n, Result(p, x, n))

ReadsWaiting(p, m, X, x, n, r) ==
  /\ Reading(x, n, r) \in X
  /\ Saves(r) =>
       /\ ~IsLogin(p, m)
       /\ IsPacketOf(p, [imei |-> DeviceImei, records |-> r.records], PacketOf(p, m))
  /\ Answers(p, x, n, r) /\ EndsPiece(p, x, n, r)
KeptWaiting(p, m, X, Y) ==
  \A x \in X :
    /\ ByteLen(x.wire) \in Nat
    /\ \A n \in Portions(p, x) : ReadsWaiting(p, m, X, x, n, Result(p, x, n))
    /\ x.back # <<>> /\ ~Takes(p, m, x) => Receiving(x, x.safe) \in X
    /\ Takes(p, m, x) =>
         /\ Receiving(x, FALSE) \in Y
         /\ IsLogin(p, m) \/ Contents[p][PacketOf(p, m)] = <<>> \/ x.safe

KeptSession(p, X) == \A x \in X : x.open => x.session \in AgreedSessions[p]

Kept(p, after, idle) ==
  /\ Start(p) \in idle[0]
  /\ \A t \in 0..Len(Logins[p]) : KeptIdle(p, idle[t])
  /\ \A m \in Stages(p) :
       IF Awaited(p, m) THEN /\ KeptSending(p, m, idle[Before(p, m)], after[m])
                             /\ KeptWaiting(p, m, after[m], idle[Behind(p, m)])
       ELSE KeptSending(p, m, idle[Before(p, m)], idle[m])
  /\ KeptSession(p, idle[Len(Logins[p])])
  /\ \A m \in Stages(p) : ~IsLogin(p, m) => KeptSession(p, after[m])
=============================================================================
