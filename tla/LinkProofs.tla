----------------------------- MODULE LinkProofs -----------------------------
(***************************************************************************)
(* Delivery over a Link, for any number of protocols, connections, packets *)
(* and logins, however TCP cuts the streams and whenever the device gives  *)
(* up: if each decoder keeps its contract with a single connection, what   *)
(* is acknowledged is saved, and what is saved was sent.  MCDecoders has   *)
(* the sets of states with which the six decoders keep it (ContractKept).  *)
(* The inductive invariant is IInv.                                        *)
(***************************************************************************)
EXTENDS Link, TLAPS

(* The contract: every protocol has such sets of states.                   *)
Terms(after, idle) ==
  /\ ByteLen(<<>>) = 0
  /\ \A p \in Protocols :
       /\ MaxConns[p] \in Nat /\ Cuts[p] \subseteq Nat
       /\ Len(Logins[p]) \in Nat /\ \E S : Scripts[p] \in Seq(S)
       /\ Kept(p, after[p], idle[p])
       /\ \A m \in Stages(p) : \E S : TheMessage(p, m) \in Seq(S) \ {<<>>}
       /\ \A m \in Stages(p) : \A x \in after[p][m] : \E S : x.back \in Seq(S)
       /\ \A t \in 0..Len(Logins[p]) : \A x \in idle[p][t] : \E S : x.back \in Seq(S)
Contract == \E after, idle : Terms(after, idle)

(* Those that the proofs speak of.                                         *)
After == CHOOSE after : \E idle : Terms(after, idle)
Idle == CHOOSE idle : Terms(After, idle)
Chosen == Terms(After, Idle)

LEMMA ContractChosen == ASSUME Contract PROVE Chosen
<1>1. \E idle : Terms(After, idle)
  BY Zenon DEF Contract, After
<1> QED BY <1>1, Zenon DEF Idle, Chosen

L == Len(Logins[protocol])
Stage == IF told < L THEN told + 1 ELSE L + next
StateOf(c, safe) ==
  [wire |-> wire[c], back |-> back[c], open |-> open[c], session |-> session[c], safe |-> safe]
Saved(k) == \E j \in 1..Len(saved) : IsPacket(saved[j], k)

TypeOK ==
  /\ protocol \in Protocols
  /\ conn \in 0..MaxConns[protocol]
  /\ up \in BOOLEAN /\ waits \in BOOLEAN
  /\ told \in 0..L
  /\ next \in 1..(Len(Scripts[protocol]) + 1)
  /\ wire = [c \in Conns |-> wire[c]] /\ back = [c \in Conns |-> back[c]]
  /\ open = [c \in Conns |-> open[c]] /\ session = [c \in Conns |-> session[c]]
  /\ \E S : saved \in Seq(S)

(* A device that waits does so on its connection, for the answer to the    *)
(* next message, and if there is an answer to come that it will take, the  *)
(* packet is saved.                                                        *)
WaitsOK ==
  waits = TRUE =>
    /\ up = TRUE /\ conn \in Conns /\ Stage \in Stages(protocol) /\ Awaited(protocol, Stage)
    /\ \E safe \in BOOLEAN :
         /\ StateOf(conn, safe) \in After[protocol][Stage]
         /\ safe = TRUE /\ told = L => Saved(next)
IdleOK ==
  up = TRUE /\ waits = FALSE => conn \in Conns /\ StateOf(conn, FALSE) \in Idle[protocol][told]

(* Connections that were given up, with what is still to be read on them.  *)
Left(c) == c < conn \/ (c = conn /\ up = FALSE)
LeftOK ==
  \A c \in Conns : Left(c) =>
    \E m \in Stages(protocol) : \E safe \in BOOLEAN :
      m <= L + next /\ Awaited(protocol, m) /\ StateOf(c, safe) \in After[protocol][m]
FreshOK == \A c \in Conns : conn < c => StateOf(c, FALSE) = Start(protocol)

IInv == TypeOK /\ WaitsOK /\ IdleOK /\ LeftOK /\ FreshOK /\ AckedIsSaved /\ SavedIsSent

-----------------------------------------------------------------------------
LEMMA Shape ==
  ASSUME Chosen, TypeOK
  PROVE  /\ MaxConns[protocol] \in Nat /\ L \in Nat /\ Len(Scripts[protocol]) \in Nat
         /\ DOMAIN Scripts[protocol] = Packets
         /\ Kept(protocol, After[protocol], Idle[protocol])
         /\ conn \in Nat /\ told \in Nat /\ next \in Nat
BY DEF Chosen, Terms, TypeOK, L, Packets

(* Where a login, and a packet, is among the messages.                     *)
LEMMA LoginStage ==
  ASSUME NEW p, NEW t \in Nat, Len(Logins[p]) \in Nat, Len(Scripts[p]) \in Nat, t < Len(Logins[p])
  PROVE  /\ t + 1 \in Stages(p) /\ IsLogin(p, t + 1)
         /\ Before(p, t + 1) = t /\ Behind(p, t + 1) = t + 1
         /\ TheMessage(p, t + 1) = Logins[p][t + 1]
         /\ p \in LoginsAnswered => Awaited(p, t + 1)
         /\ p \notin LoginsAnswered => ~Awaited(p, t + 1)
<1>1. \A a, b \in Nat : t < a => t + 1 <= a /\ t + 1 \in 1..(a + b) /\ (t + 1) - 1 = t
  OBVIOUS
<1>2. IsLogin(p, t + 1) /\ t + 1 \in Stages(p) /\ (t + 1) - 1 = t
  BY <1>1, Zenon DEF IsLogin, Stages
<1> QED BY <1>2 DEF Before, Behind, TheMessage, Awaited

LEMMA PacketStage ==
  ASSUME NEW p, NEW k \in 1..Len(Scripts[p]), Len(Logins[p]) \in Nat, Len(Scripts[p]) \in Nat
  PROVE  LET m == Len(Logins[p]) + k
         IN  /\ m \in Stages(p) /\ ~IsLogin(p, m) /\ Awaited(p, m)
             /\ Before(p, m) = Len(Logins[p]) /\ Behind(p, m) = Len(Logins[p])
             /\ PacketOf(p, m) = k /\ TheMessage(p, m) = Messages[p][k]
<1> DEFINE m == Len(Logins[p]) + k
<1>1. \A a, b \in Nat : \A n \in 1..b : a + n \in 1..(a + b) /\ ~(a + n <= a) /\ (a + n) - a = n
  OBVIOUS
<1>2. m \in Stages(p) /\ ~IsLogin(p, m) /\ PacketOf(p, m) = k
  BY <1>1, Zenon DEF IsLogin, Stages, PacketOf
<1> QED BY <1>2 DEF Before, Behind, TheMessage, Awaited

(* A device that waits and has logged in waits for the next packet.        *)
LEMMA AwaitedPacket ==
  ASSUME Chosen, IInv, waits = TRUE, told = L
  PROVE  /\ next \in Packets /\ Stage = L + next
         /\ ~IsLogin(protocol, Stage) /\ PacketOf(protocol, Stage) = next
         /\ Behind(protocol, Stage) = L
<1>1. L \in Nat /\ Len(Scripts[protocol]) \in Nat /\ next \in 1..(Len(Scripts[protocol]) + 1)
  BY Shape DEF IInv, TypeOK
<1>2. Stage = L + next /\ Stage \in Stages(protocol)
  BY <1>1 DEF Stage, IInv, WaitsOK
<1>3. \A a, b \in Nat : \A k \in 1..(b + 1) : a + k \in 1..(a + b) => k \in 1..b
  OBVIOUS
<1>4. next \in 1..Len(Scripts[protocol])
  BY <1>1, <1>2, <1>3, Zenon DEF Stages, L
<1> QED BY <1>1, <1>2, <1>4, PacketStage DEF Packets, L

LEMMA InitIInv == ASSUME Chosen, Init PROVE IInv
<1>1. protocol \in Protocols /\ MaxConns[protocol] \in Nat /\ L \in Nat /\ Len(Scripts[protocol]) \in Nat
  BY DEF Init, Chosen, Terms, L
<1>2. up = FALSE /\ waits = FALSE /\ saved = <<>> /\ conn = 0 /\ told = 0 /\ next = 1
  BY Zenon DEF Init
<1>3. /\ wire = [c \in Conns |-> wire[c]] /\ back = [c \in Conns |-> back[c]]
      /\ open = [c \in Conns |-> open[c]] /\ session = [c \in Conns |-> session[c]]
      /\ \A c \in Conns : StateOf(c, FALSE) = Start(protocol)
  BY DEF Init, StateOf, Start
<1>4. TypeOK
  <2>1. \E S : saved \in Seq(S)
    <3>1. saved \in Seq(Nat)
      BY <1>2
    <3> QED BY <3>1
  <2>2. conn \in 0..MaxConns[protocol] /\ told \in 0..L /\ next \in 1..(Len(Scripts[protocol]) + 1)
    BY <1>1, <1>2
  <2>3. up \in BOOLEAN /\ waits \in BOOLEAN
    BY <1>2
  <2> QED BY <1>1, <1>3, <2>1, <2>2, <2>3, Zenon DEF TypeOK
<1>5. WaitsOK /\ IdleOK /\ FreshOK
  BY <1>2, <1>3 DEF WaitsOK, IdleOK, FreshOK
<1>6. LeftOK
  BY <1>1, <1>2 DEF LeftOK, Left, Conns
<1>7. AckedIsSaved /\ SavedIsSent
  BY <1>2 DEF AckedIsSaved, SavedIsSent
<1> QED BY <1>4, <1>5, <1>6, <1>7 DEF IInv

(* Connections whose state a step leaves alone keep what is known of them. *)
Same(c) == \A safe : StateOf(c, safe)' = StateOf(c, safe)
LEMMA LeftStays ==
  ASSUME IInv, Chosen, protocol' = protocol, next' \in Nat, next <= next',
         NEW c \in Conns, Left(c), Same(c)
  PROVE  \E m \in Stages(protocol)' : \E safe \in BOOLEAN :
           m <= (L + next)' /\ Awaited(protocol, m)' /\ StateOf(c, safe)' \in After[protocol'][m]
<1>1. PICK m \in Stages(protocol), safe \in BOOLEAN :
        m <= L + next /\ Awaited(protocol, m) /\ StateOf(c, safe) \in After[protocol][m]
  BY DEF IInv, LeftOK
<1>2. m \in Nat /\ L \in Nat /\ next \in Nat
  BY Shape DEF IInv, Stages, L
<1>3. m <= (L + next)'
  BY <1>1, <1>2 DEF L
<1>4. StateOf(c, safe)' \in After[protocol'][m]
  BY <1>1 DEF Same
<1> QED BY <1>1, <1>3, <1>4 DEF Stages, Awaited, IsLogin, L

(* The steps of the device that neither save nor acknowledge a packet.     *)
LEMMA SameSaved ==
  ASSUME UNCHANGED <<protocol, saved>>
  PROVE  \A k : Saved(k)' <=> Saved(k)
BY DEF Saved, IsPacket

LEMMA ConnectStep == ASSUME Chosen, IInv, Connect PROVE IInv'
<1> USE DEF Connect
<1>1. /\ conn + 1 \in Conns /\ conn' = conn + 1 /\ conn \in Nat
      /\ up' = TRUE /\ waits' = waits /\ told' = 0 /\ next' = next
      /\ UNCHANGED <<protocol, wire, back, open, session, saved>>
  BY Shape DEF IInv, TypeOK, Conns
<1>2. up = FALSE /\ waits = FALSE
  <2>1. up = FALSE
    BY Zenon DEF IInv, TypeOK
  <2>2. waits = TRUE => up = TRUE
    BY DEF IInv, WaitsOK
  <2> QED BY <2>1, <2>2, Zenon DEF IInv, TypeOK
<1>3. \A c \in Conns : Same(c)
  BY <1>1 DEF Same, StateOf
<1>4. TypeOK'
  BY <1>1, Shape DEF IInv, TypeOK, Conns, L
<1>5. WaitsOK'
  BY <1>1, <1>2 DEF WaitsOK
<1>6. IdleOK'
  <2>1. StateOf(conn + 1, FALSE) = Start(protocol)
    <3>1. conn + 1 \in Conns /\ conn < conn + 1
      BY <1>1
    <3> QED BY <3>1, Zenon DEF IInv, FreshOK
  <2>2. Start(protocol) \in Idle[protocol][0]
    BY Shape DEF IInv, Kept
  <2> QED BY <1>1, <1>3, <2>1, <2>2 DEF IdleOK, Same, Conns
<1>7. LeftOK'
  <2> SUFFICES ASSUME NEW c \in Conns, Left(c)' 
      PROVE \E m \in Stages(protocol)' : \E safe \in BOOLEAN :
              m <= (L + next)' /\ Awaited(protocol, m)' /\ StateOf(c, safe)' \in After[protocol'][m]
    BY <1>1 DEF LeftOK, Conns
  <2>1. Left(c)
    BY <1>1, <1>2 DEF Left, Conns
  <2> QED BY <1>1, <1>3, <2>1, LeftStays, Shape DEF IInv
<1>8. FreshOK'
  <2> SUFFICES ASSUME NEW c \in Conns, conn + 1 < c PROVE StateOf(c, FALSE)' = Start(protocol)
    BY <1>1 DEF FreshOK, Start, Conns
  <2>1. conn < c
    BY <1>1 DEF Conns
  <2> QED BY <1>3, <2>1, Zenon DEF IInv, FreshOK, Same
<1>9. AckedIsSaved' /\ SavedIsSent'
  BY <1>1 DEF IInv, AckedIsSaved, SavedIsSent, IsPacket, ContentOf, Packets
<1> QED BY <1>4, <1>5, <1>6, <1>7, <1>8, <1>9 DEF IInv

LEMMA GiveUpStep == ASSUME Chosen, IInv, GiveUp PROVE IInv'
<1> USE DEF GiveUp
<1>1. /\ up' = FALSE /\ waits' = FALSE
      /\ UNCHANGED <<protocol, conn, told, next, wire, back, open, session, saved>>
  OBVIOUS
<1>2. waits = TRUE
  BY Zenon DEF IInv, TypeOK
<1>3. \A c \in Conns : Same(c)
  BY <1>1 DEF Same, StateOf
<1>4. TypeOK'
  BY <1>1, Shape DEF IInv, TypeOK, Conns, L
<1>5. WaitsOK' /\ IdleOK'
  BY <1>1 DEF WaitsOK, IdleOK
<1>6. LeftOK'
  <2> SUFFICES ASSUME NEW c \in Conns, Left(c)' 
      PROVE \E m \in Stages(protocol)' : \E safe \in BOOLEAN :
              m <= (L + next)' /\ Awaited(protocol, m)' /\ StateOf(c, safe)' \in After[protocol'][m]
    BY <1>1 DEF LeftOK, Conns
  <2>1. CASE Left(c)
    BY <1>1, <1>3, <2>1, LeftStays, Shape DEF IInv
  <2>2. CASE c = conn
    <3>1. PICK safe \in BOOLEAN : StateOf(conn, safe) \in After[protocol][Stage]
      BY <1>2 DEF IInv, WaitsOK
    <3>2. Stage \in Stages(protocol) /\ Awaited(protocol, Stage) /\ Stage <= L + next
      BY <1>2, Shape DEF IInv, TypeOK, WaitsOK, Stage
    <3>3. StateOf(c, safe)' \in After[protocol'][Stage]
      BY <1>1, <1>3, <2>2, <3>1 DEF Same
    <3> QED BY <1>1, <3>2, <3>3 DEF Stages, Awaited, IsLogin, L
  <2> QED BY <1>1, <2>1, <2>2 DEF Left
<1>7. FreshOK'
  BY <1>1, <1>3 DEF IInv, FreshOK, Same, Start, Conns
<1>8. AckedIsSaved' /\ SavedIsSent'
  BY <1>1 DEF IInv, AckedIsSaved, SavedIsSent, IsPacket, ContentOf, Packets
<1> QED BY <1>4, <1>5, <1>6, <1>7, <1>8 DEF IInv

(* What a message adds to the state of the connection it is sent on.       *)
LEMMA SendingState ==
  ASSUME IInv, conn \in Conns, NEW m,
         wire' = [wire EXCEPT ![conn] = @ \o TheMessage(protocol, m)],
         UNCHANGED <<protocol, conn, back, open, session>>
  PROVE  /\ StateOf(conn, FALSE)' = Sending(protocol, m, StateOf(conn, FALSE))
         /\ wire' = [c \in Conns' |-> wire'[c]]
         /\ \A c \in Conns : c # conn => Same(c)
<1>1. wire'[conn] = wire[conn] \o TheMessage(protocol, m) /\ \A c \in Conns : c # conn => wire'[c] = wire[c]
  BY DEF IInv, TypeOK
<1>2. wire' = [c \in Conns' |-> wire'[c]]
  BY DEF IInv, TypeOK, Conns
<1>3. StateOf(conn, FALSE)' = Sending(protocol, m, StateOf(conn, FALSE))
  BY <1>1 DEF StateOf, Sending
<1> QED BY <1>1, <1>2, <1>3 DEF Same, StateOf

(* A step of a device that waits for nothing, on its own connection: what  *)
(* is left to show is where that leads.                                    *)
LEMMA OwnStep ==
  ASSUME Chosen, IInv, UNCHANGED <<protocol, conn, saved>>, conn \in Conns,
         up = TRUE, up' = TRUE, next' \in Nat, next <= next',
         \A c \in Conns : c # conn => Same(c)
  PROVE  LeftOK' /\ FreshOK' /\ \A k : Saved(k)' <=> Saved(k)
<1>1. LeftOK'
  <2> SUFFICES ASSUME NEW c \in Conns, Left(c)'
      PROVE \E m \in Stages(protocol)' : \E safe \in BOOLEAN :
              m <= (L + next)' /\ Awaited(protocol, m)' /\ StateOf(c, safe)' \in After[protocol'][m]
    BY DEF LeftOK, Conns
  <2>1. c < conn
    BY DEF Left
  <2>2. Left(c) /\ c # conn
    BY <2>1, Shape DEF Left, IInv, Conns
  <2> QED BY <2>2, LeftStays
<1>2. FreshOK'
  <2> SUFFICES ASSUME NEW c \in Conns, conn < c PROVE StateOf(c, FALSE)' = Start(protocol)
    BY DEF FreshOK, Start, Conns
  <2>1. c # conn
    BY Shape DEF IInv
  <2> QED BY <2>1, Zenon DEF IInv, FreshOK, Same
<1> QED BY <1>1, <1>2, SameSaved

LEMMA SendLoginStep == ASSUME Chosen, IInv, SendLogin PROVE IInv'
<1> DEFINE m == told + 1
<1>1. /\ told < L /\ wire' = [wire EXCEPT ![conn] = @ \o Logins[protocol][m]]
      /\ told' = IF protocol \in LoginsAnswered THEN told ELSE m
      /\ UNCHANGED <<protocol, conn, up, next, back, open, session, saved>>
  BY DEF SendLogin, L
<1>2. up = TRUE /\ waits = FALSE
  BY Zenon DEF SendLogin, IInv, TypeOK
<1>3. waits' \in BOOLEAN /\ (waits' = TRUE <=> protocol \in LoginsAnswered)
  <2>1. waits' = (protocol \in LoginsAnswered)
    BY DEF SendLogin
  <2>2. protocol \in LoginsAnswered => waits' = TRUE
    BY <2>1, Zenon
  <2>3. protocol \notin LoginsAnswered => ~waits'
    BY <2>1, Zenon
  <2>4. waits' \in BOOLEAN
    BY <2>1, SMT
  <2> QED BY <2>2, <2>3, <2>4, Zenon
<1>4. conn \in Conns /\ StateOf(conn, FALSE) \in Idle[protocol][told]
  BY <1>2 DEF IInv, IdleOK
<1>5. /\ m \in Stages(protocol) /\ IsLogin(protocol, m) /\ Before(protocol, m) = told
      /\ TheMessage(protocol, m) = Logins[protocol][m]
      /\ protocol \in LoginsAnswered => Awaited(protocol, m)
      /\ protocol \notin LoginsAnswered => ~Awaited(protocol, m)
      /\ L \in Nat /\ told \in Nat /\ next \in Nat
  BY <1>1, Shape, LoginStage DEF IInv, L
<1>6. /\ StateOf(conn, FALSE)' = Sending(protocol, m, StateOf(conn, FALSE))
      /\ wire' = [c \in Conns' |-> wire'[c]]
      /\ \A c \in Conns : c # conn => Same(c)
  BY <1>1, <1>4, <1>5, SendingState
<1>7. StateOf(conn, FALSE)' \in IF protocol \in LoginsAnswered THEN After[protocol][m] ELSE Idle[protocol][m]
  <2>1. KeptSending(protocol, m, Idle[protocol][told],
          IF protocol \in LoginsAnswered THEN After[protocol][m] ELSE Idle[protocol][m])
    BY <1>5, Shape DEF IInv, Kept
  <2> QED BY <1>4, <1>6, <2>1 DEF KeptSending
<1>8. LeftOK' /\ FreshOK' /\ \A k : Saved(k)' <=> Saved(k)
  BY <1>1, <1>2, <1>4, <1>5, <1>6, OwnStep
<1>9. TypeOK'
  BY <1>1, <1>3, <1>5, <1>6 DEF IInv, TypeOK, L, Conns
<1>10. WaitsOK' /\ IdleOK'
  <2>1. CASE protocol \in LoginsAnswered
    <3>1. Stage' = m /\ waits' = TRUE /\ up' = TRUE /\ conn' = conn /\ conn \in Conns'
      BY <1>1, <1>2, <1>3, <1>4, <2>1 DEF Stage, L, Conns
    <3>2. m \in Stages(protocol') /\ Awaited(protocol', m) /\ told' < L'
      BY <1>1, <1>5, <2>1 DEF L
    <3>3. StateOf(conn, FALSE)' \in After[protocol'][Stage']
      BY <1>1, <1>7, <2>1, <3>1
    <3> QED BY <3>1, <3>2, <3>3 DEF WaitsOK, IdleOK
  <2>2. CASE protocol \notin LoginsAnswered
    <3>1. told' = m /\ waits' = FALSE /\ conn' = conn /\ conn \in Conns' /\ protocol' = protocol
      BY <1>1, <1>3, <1>4, <2>2 DEF Conns
    <3>2. StateOf(conn, FALSE)' \in Idle[protocol][m]
      BY <1>7, <2>2
    <3> QED BY <3>1, <3>2 DEF WaitsOK, IdleOK
  <2> QED BY <2>1, <2>2
<1>11. AckedIsSaved' /\ SavedIsSent'
  BY <1>1 DEF IInv, AckedIsSaved, SavedIsSent, IsPacket, ContentOf, Packets
<1> QED BY <1>8, <1>9, <1>10, <1>11 DEF IInv

LEMMA SendPacketStep == ASSUME Chosen, IInv, SendPacket PROVE IInv'
<1> DEFINE m == L + next
<1>1. /\ told = L /\ next \in Packets /\ wire' = [wire EXCEPT ![conn] = @ \o MessageOf(next)]
      /\ waits' = TRUE
      /\ UNCHANGED <<protocol, conn, up, told, next, back, open, session, saved>>
  BY DEF SendPacket, L
<1>2. up = TRUE /\ waits = FALSE
  BY Zenon DEF SendPacket, IInv, TypeOK
<1>3. conn \in Conns /\ StateOf(conn, FALSE) \in Idle[protocol][L]
  BY <1>1, <1>2 DEF IInv, IdleOK
<1>4. /\ m \in Stages(protocol) /\ ~IsLogin(protocol, m) /\ Before(protocol, m) = L
      /\ Awaited(protocol, m) /\ TheMessage(protocol, m) = MessageOf(next)
      /\ L \in Nat /\ next \in Nat
  BY <1>1, Shape, PacketStage DEF IInv, Packets, L, MessageOf
<1>5. /\ StateOf(conn, FALSE)' = Sending(protocol, m, StateOf(conn, FALSE))
      /\ wire' = [c \in Conns' |-> wire'[c]]
      /\ \A c \in Conns : c # conn => Same(c)
  BY <1>1, <1>3, <1>4, SendingState
<1>6. StateOf(conn, FALSE)' \in After[protocol][m]
  <2>1. KeptSending(protocol, m, Idle[protocol][L], After[protocol][m])
    BY <1>4, Shape DEF IInv, Kept
  <2> QED BY <1>3, <1>5, <2>1 DEF KeptSending
<1>7. LeftOK' /\ FreshOK'
  BY <1>1, <1>2, <1>3, <1>4, <1>5, OwnStep
<1>8. TypeOK'
  BY <1>1, <1>5 DEF IInv, TypeOK, L, Conns
<1>9. WaitsOK' /\ IdleOK'
  <2>1. Stage' = m /\ up' = TRUE /\ conn' = conn /\ conn \in Conns' /\ protocol' = protocol
    BY <1>1, <1>2, <1>3, <1>4 DEF Stage, L, Conns
  <2>2. m \in Stages(protocol') /\ Awaited(protocol', m)
    BY <1>1, <1>4
  <2>3. StateOf(conn, FALSE)' \in After[protocol'][Stage']
    BY <1>1, <1>6, <2>1
  <2> QED BY <1>1, <2>1, <2>2, <2>3 DEF WaitsOK, IdleOK
<1>10. AckedIsSaved' /\ SavedIsSent'
  BY <1>1 DEF IInv, AckedIsSaved, SavedIsSent, IsPacket, ContentOf, Packets
<1> QED BY <1>7, <1>8, <1>9, <1>10 DEF IInv

LEMMA ReceiveStep == ASSUME Chosen, IInv, Receive PROVE IInv'
<1> DEFINE reply == Head(back[conn])
           login == told < L /\ AcceptsLogin(protocol, told + 1, reply)
           packet == told = L /\ AcceptsReply(protocol, Scripts[protocol][next], reply)
<1>1. /\ back[conn] # <<>> /\ back' = [back EXCEPT ![conn] = Tail(@)]
      /\ told' = IF login THEN told + 1 ELSE told
      /\ next' = IF packet THEN next + 1 ELSE next
      /\ UNCHANGED <<protocol, conn, up, wire, open, session, saved>>
  BY DEF Receive, L
<1>2. waits = TRUE
  BY Zenon DEF Receive, IInv, TypeOK
<1>3. waits' \in BOOLEAN /\ (waits' = TRUE <=> ~(login \/ packet))
  <2>1. waits' = ~(login \/ packet)
    BY DEF Receive, L
  <2> HIDE DEF login, packet
  <2>2. ~(login \/ packet) => waits' = TRUE
    BY <2>1, Zenon
  <2>3. login \/ packet => ~waits'
    BY <2>1, Zenon
  <2>4. waits' \in BOOLEAN
    BY <2>1, SMT
  <2> QED BY <2>2, <2>3, <2>4, Zenon
<1>4. /\ up = TRUE /\ conn \in Conns /\ Stage \in Stages(protocol) /\ Awaited(protocol, Stage)
      /\ L \in Nat /\ told \in 0..L /\ next \in Nat /\ Len(Scripts[protocol]) \in Nat
  BY <1>2, Shape DEF IInv, TypeOK, WaitsOK
<1>5. PICK safe \in BOOLEAN :
        StateOf(conn, safe) \in After[protocol][Stage] /\ (safe = TRUE /\ told = L => Saved(next))
  BY <1>2 DEF IInv, WaitsOK
<1>6. KeptWaiting(protocol, Stage, After[protocol][Stage], Idle[protocol][Behind(protocol, Stage)])
  BY <1>4, Shape DEF IInv, Kept
<1>7. /\ \A s : StateOf(conn, s)' = Receiving(StateOf(conn, safe), s)
      /\ \A c \in Conns : c # conn => Same(c)
      /\ back' = [c \in Conns' |-> back'[c]]
  <2>1. back'[conn] = Tail(back[conn]) /\ \A c \in Conns : c # conn => back'[c] = back[c]
    BY <1>1, <1>4 DEF IInv, TypeOK
  <2>2. back' = [c \in Conns' |-> back'[c]]
    BY <1>1 DEF IInv, TypeOK, Conns
  <2> QED BY <1>1, <2>1, <2>2 DEF Same, StateOf, Receiving
<1>8. LeftOK' /\ FreshOK' /\ \A k : Saved(k)' <=> Saved(k)
  BY <1>1, <1>4, <1>7, OwnStep
<1>9. SavedIsSent'
  BY <1>1, <1>4 DEF IInv, SavedIsSent, IsPacket, Packets
<1>10. told = L => /\ next \in Packets /\ Stage = L + next
                   /\ ~IsLogin(protocol, Stage) /\ PacketOf(protocol, Stage) = next
                   /\ Behind(protocol, Stage) = L
  BY <1>2, AwaitedPacket
<1>11. Takes(protocol, Stage, StateOf(conn, safe)) <=> login \/ packet
  <2>1. StateOf(conn, safe).back = back[conn]
    BY DEF StateOf
  <2>2. CASE told < L
    <3>1. Stage = told + 1 /\ IsLogin(protocol, Stage)
      BY <1>4, <2>2, LoginStage DEF Stage, L
    <3> QED BY <1>1, <1>4, <2>1, <2>2, <3>1 DEF Takes
  <2>3. CASE told = L
    <3> QED BY <1>1, <1>4, <1>10, <2>1, <2>3 DEF Takes
  <2> QED BY <1>4, <2>2, <2>3
<1>12. ASSUME ~(login \/ packet) PROVE IInv'
  <2>1. told' = told /\ next' = next /\ waits' = TRUE
    BY <1>1, <1>3, <1>12
  <2>2. StateOf(conn, safe)' \in After[protocol][Stage]
    <3>1. StateOf(conn, safe).back # <<>> /\ StateOf(conn, safe).safe = safe
      BY <1>1 DEF StateOf
    <3> QED BY <1>5, <1>6, <1>7, <1>11, <1>12, <3>1 DEF KeptWaiting
  <2>3. TypeOK'
    BY <1>1, <1>3, <1>7, <2>1 DEF IInv, TypeOK, L, Conns
  <2>4. WaitsOK' /\ IdleOK'
    <3>1. Stage' = Stage /\ conn \in Conns' /\ L' = L
      BY <1>1, <1>4, <2>1 DEF Stage, L, Conns
    <3> QED BY <1>1, <1>4, <1>5, <1>8, <2>1, <2>2, <3>1 DEF WaitsOK, IdleOK
  <2>5. AckedIsSaved'
    BY <1>1, <2>1 DEF IInv, AckedIsSaved, IsPacket, ContentOf
  <2> QED BY <1>8, <1>9, <2>3, <2>4, <2>5 DEF IInv
<1>13. ASSUME login \/ packet PROVE IInv'
  <2>1. waits' = FALSE
    BY <1>3, <1>13, Zenon
  <2>2. /\ StateOf(conn, FALSE)' \in Idle[protocol][Behind(protocol, Stage)]
        /\ IsLogin(protocol, Stage) \/ Contents[protocol][PacketOf(protocol, Stage)] = <<>>
           \/ StateOf(conn, safe).safe
    BY <1>5, <1>6, <1>7, <1>11, <1>13 DEF KeptWaiting
  <2>3. CASE login
    <3>1. told' = told + 1 /\ next' = next /\ told + 1 \in 0..L
      BY <1>1, <1>4, <2>3
    <3>2. Behind(protocol, Stage) = told + 1
      BY <1>4, <2>3, LoginStage DEF Stage, L
    <3>3. TypeOK'
      BY <1>1, <1>3, <1>7, <3>1 DEF IInv, TypeOK, L, Conns
    <3>4. WaitsOK' /\ IdleOK'
      BY <1>1, <1>4, <2>1, <2>2, <3>1, <3>2 DEF WaitsOK, IdleOK, Conns
    <3>5. AckedIsSaved'
      BY <1>1, <3>1 DEF IInv, AckedIsSaved, IsPacket, ContentOf
    <3> QED BY <1>8, <1>9, <3>3, <3>4, <3>5 DEF IInv
  <2>4. CASE packet
    <3>1. told' = told /\ next' = next + 1 /\ told = L
      BY <1>1, <1>4, <2>4
    <3>2. next \in Packets /\ ~IsLogin(protocol, Stage) /\ PacketOf(protocol, Stage) = next
          /\ Behind(protocol, Stage) = L
      BY <1>4, <1>10, <3>1
    <3>3. TypeOK'
      BY <1>1, <1>3, <1>4, <1>7, <3>1, <3>2 DEF IInv, TypeOK, L, Conns, Packets
    <3>4. WaitsOK' /\ IdleOK'
      BY <1>1, <1>4, <2>1, <2>2, <3>1, <3>2 DEF WaitsOK, IdleOK, Conns
    <3>5. ContentOf(next) = <<>> \/ Saved(next)
      <4>1. StateOf(conn, safe).safe = safe
        BY DEF StateOf
      <4>2. Contents[protocol][next] = <<>> \/ safe = TRUE
        BY <2>2, <3>2, <4>1, Zenon
      <4> QED BY <1>5, <3>1, <4>2 DEF ContentOf
    <3>6. AckedIsSaved'
      <4>1. \A k \in 1..(next' - 1) : k \in 1..(next - 1) \/ k = next
        BY <1>4, <3>1
      <4>2. \A k \in 1..(next - 1) : ContentOf(k) # <<>> => Saved(k)
        BY DEF IInv, AckedIsSaved, Saved
      <4>3. \A k \in 1..(next' - 1) : ContentOf(k) # <<>> => Saved(k)
        BY <3>5, <4>1, <4>2
      <4> QED BY <1>1, <4>3 DEF AckedIsSaved, Saved, IsPacket, ContentOf
    <3> QED BY <1>8, <1>9, <3>3, <3>4, <3>6 DEF IInv
  <2> QED BY <1>13, <2>3, <2>4
<1> QED BY <1>12, <1>13

-----------------------------------------------------------------------------
(* HandleRequest: what it reads, and what that adds to what is saved.      *)
Answer(c, n) == HandleBuffer(protocol, FirstBytes(wire[c], n), session[c])
Batch(r) == [imei |-> DeviceImei, records |-> r.records]

LEMMA AppendBatch ==
  ASSUME NEW s, NEW S, s \in Seq(S), NEW b
  PROVE  /\ \E T : Append(s, b) \in Seq(T)
         /\ Len(Append(s, b)) = Len(s) + 1 /\ Len(s) \in Nat
         /\ \A j \in 1..Len(s) : Append(s, b)[j] = s[j]
         /\ Append(s, b)[Len(s) + 1] = b
<1> DEFINE T == S \cup {b}
<1>1. s \in Seq(T) /\ b \in T
  OBVIOUS
<1>2. Append(s, b) \in Seq(T)
  BY <1>1
<1> HIDE DEF T
<1> QED BY <1>1, <1>2

LEMMA MessageEffect ==
  ASSUME Chosen, IInv, NEW c \in Conns, NEW n \in Cuts[protocol] \cup {ByteLen(wire[c])}, Message(c, n)
  PROVE  LET r == Answer(c, n)
         IN  /\ UNCHANGED <<protocol, conn, up, told, waits, next>>
             /\ \A s : /\ n \in Portions(protocol, StateOf(c, s))
                       /\ Result(protocol, StateOf(c, s), n) = r
                       /\ \A f : f = (IF Saves(r) THEN TRUE ELSE s) =>
                            StateOf(c, f)' = Reading(StateOf(c, s), n, r)
             /\ \A e \in Conns : e # c => Same(e)
             /\ c <= conn
             /\ saved' = IF Saves(r) THEN Append(saved, Batch(r)) ELSE saved
<1> DEFINE r == Answer(c, n)
<1>1. /\ open[c] /\ 0 < n /\ n <= ByteLen(wire[c])
      /\ wire' = [wire EXCEPT ![c] = BytesAfter(@, n)]
      /\ back' = [back EXCEPT ![c] = @ \o r.reply]
      /\ session' = [session EXCEPT ![c] = r.session]
      /\ open' = [open EXCEPT ![c] = (r.session.imei = DeviceImei)]
      /\ UNCHANGED <<protocol, conn, up, told, waits, next>>
  BY DEF Message, Arrives, Answer
<1>2. saved' = IF Saves(r) THEN Append(saved, Batch(r)) ELSE saved
  BY DEF Message, Answer, Saves, Batch
<1> HIDE DEF r
<1>3. /\ wire'[c] = BytesAfter(wire[c], n) /\ back'[c] = back[c] \o r.reply
      /\ session'[c] = r.session /\ open'[c] = (r.session.imei = DeviceImei)
      /\ \A e \in Conns : e # c => /\ wire'[e] = wire[e] /\ back'[e] = back[e]
                                  /\ session'[e] = session[e] /\ open'[e] = open[e]
  BY <1>1 DEF IInv, TypeOK
<1>4. \A e \in Conns : e # c => Same(e)
  BY <1>3 DEF Same, StateOf
<1>5. ASSUME NEW s
      PROVE  /\ n \in Portions(protocol, StateOf(c, s))
             /\ Result(protocol, StateOf(c, s), n) = r
             /\ \A f : f = (IF Saves(r) THEN TRUE ELSE s) =>
                  StateOf(c, f)' = Reading(StateOf(c, s), n, r)
  <2>1. LET x == StateOf(c, s)
        IN  /\ x.wire = wire[c] /\ x.back = back[c] /\ x.session = session[c]
            /\ x.open = open[c] /\ x.safe = s
    BY DEF StateOf
  <2>2. n \in Portions(protocol, StateOf(c, s))
    BY <1>1, <2>1, Zenon DEF Portions
  <2>3. Result(protocol, StateOf(c, s), n) = r
    BY <2>1 DEF Result, r, Answer
  <2>4. ASSUME NEW f, f = IF Saves(r) THEN TRUE ELSE s
        PROVE  StateOf(c, f)' = Reading(StateOf(c, s), n, r)
    <3>1. StateOf(c, f)' = [wire |-> BytesAfter(wire[c], n), back |-> back[c] \o r.reply,
                            open |-> r.session.imei = DeviceImei, session |-> r.session, safe |-> f]
      BY <1>3 DEF StateOf
    <3>2. Reading(StateOf(c, s), n, r)
            = [wire |-> BytesAfter(wire[c], n), back |-> back[c] \o r.reply,
               open |-> r.session.imei = DeviceImei, session |-> r.session, safe |-> f]
      BY <2>1, <2>3, <2>4, Zenon DEF Reading
    <3> QED BY <3>1, <3>2, Zenon
  <2> QED BY <2>2, <2>3, <2>4
<1>6. c <= conn
  <2>1. ASSUME conn < c PROVE FALSE
    <3>1. StateOf(c, FALSE) = Start(protocol)
      BY <2>1 DEF IInv, FreshOK
    <3>2. StateOf(c, FALSE).wire = wire[c] /\ Start(protocol).wire = <<>>
      BY DEF StateOf, Start
    <3>3. ByteLen(wire[c]) = 0
      BY <3>1, <3>2, Zenon DEF Chosen, Terms
    <3>4. n \in Nat
      BY <3>3 DEF Chosen, Terms, IInv, TypeOK
    <3> QED BY <1>1, <3>3, <3>4
  <2> QED BY <2>1, Shape DEF IInv, Conns
<1> QED BY <1>1, <1>2, <1>4, <1>5, <1>6 DEF r

(* A batch that is a packet that was sent keeps what is known of saved, as *)
(* nothing at all does.                                                    *)
LEMMA NothingSaved ==
  ASSUME IInv, UNCHANGED <<protocol, next, saved>>
  PROVE  /\ \E S : saved' \in Seq(S)
         /\ \A k : Saved(k) => Saved(k)'
         /\ AckedIsSaved' /\ SavedIsSent'
BY SameSaved DEF IInv, TypeOK, AckedIsSaved, SavedIsSent, IsPacket, ContentOf, Packets

LEMMA PacketSaved ==
  ASSUME IInv, UNCHANGED <<protocol, next>>, NEW b, saved' = Append(saved, b),
         NEW m \in Packets, m <= next, IsPacketOf(protocol, b, m)
  PROVE  /\ \E S : saved' \in Seq(S)
         /\ \A k : Saved(k) => Saved(k)'
         /\ Saved(m)'
         /\ AckedIsSaved' /\ SavedIsSent'
<1>1. /\ \E T : saved' \in Seq(T)
      /\ Len(saved') = Len(saved) + 1 /\ Len(saved) \in Nat
      /\ \A j \in 1..Len(saved) : saved'[j] = saved[j]
      /\ saved'[Len(saved) + 1] = b
  <2>1. PICK S : saved \in Seq(S)
    BY DEF IInv, TypeOK
  <2>2. /\ \E T : Append(saved, b) \in Seq(T)
        /\ Len(Append(saved, b)) = Len(saved) + 1 /\ Len(saved) \in Nat
        /\ \A j \in 1..Len(saved) : Append(saved, b)[j] = saved[j]
        /\ Append(saved, b)[Len(saved) + 1] = b
    BY <2>1, AppendBatch, Zenon
  <2>3. saved' = Append(saved, b)
    OBVIOUS
  <2> QED BY <2>2, <2>3, Zenon
<1>2. /\ \A j \in 1..Len(saved') : j \in 1..Len(saved) \/ j = Len(saved) + 1
      /\ \A j \in 1..Len(saved) : j \in 1..Len(saved')
      /\ Len(saved) + 1 \in 1..Len(saved')
  BY <1>1
<1>3. \A k : Saved(k) => Saved(k)'
  BY <1>1, <1>2 DEF Saved, IsPacket
<1>4. Saved(m)'
  BY <1>1, <1>2 DEF Saved, IsPacket
<1>5. AckedIsSaved'
  <2>1. \A k \in 1..(next - 1) : ContentOf(k) # <<>> => Saved(k)'
    BY <1>3 DEF IInv, AckedIsSaved, Saved
  <2> QED BY <2>1 DEF AckedIsSaved, Saved, ContentOf
<1>6. SavedIsSent'
  <2>1. \A j \in 1..Len(saved) : \E k \in Packets : k <= next /\ IsPacketOf(protocol, saved'[j], k)
    BY <1>1 DEF IInv, SavedIsSent, IsPacket
  <2> QED BY <1>1, <1>2, <2>1 DEF SavedIsSent, IsPacket, Packets
<1> QED BY <1>1, <1>3, <1>4, <1>5, <1>6

(* What is read from a connection whose device waits for the answer to m,  *)
(* or has done so.                                                         *)
LEMMA ReadAfter ==
  ASSUME Chosen, IInv, NEW c \in Conns, NEW n \in Cuts[protocol] \cup {ByteLen(wire[c])}, Message(c, n),
         NEW m \in Stages(protocol), m <= L + next, Awaited(protocol, m),
         NEW safe \in BOOLEAN, StateOf(c, safe) \in After[protocol][m]
  PROVE  /\ \E s \in BOOLEAN : /\ StateOf(c, s)' \in After[protocol][m]
                             /\ \A k : s = TRUE /\ ~IsLogin(protocol, m) /\ k = PacketOf(protocol, m)
                                        => safe = TRUE \/ Saved(k)'
         /\ \E S : saved' \in Seq(S)
         /\ \A k : Saved(k) => Saved(k)'
         /\ AckedIsSaved' /\ SavedIsSent'
<1> DEFINE r == Answer(c, n)
           k == PacketOf(protocol, m)
<1>1. /\ UNCHANGED <<protocol, next>>
      /\ n \in Portions(protocol, StateOf(c, safe))
      /\ Result(protocol, StateOf(c, safe), n) = r
      /\ \A f : f = (IF Saves(r) THEN TRUE ELSE safe) =>
           StateOf(c, f)' = Reading(StateOf(c, safe), n, r)
      /\ saved' = IF Saves(r) THEN Append(saved, Batch(r)) ELSE saved
  BY MessageEffect, Zenon
<1>2. KeptWaiting(protocol, m, After[protocol][m], Idle[protocol][Behind(protocol, m)])
  BY Shape DEF IInv, Kept
<1> HIDE DEF r
<1>3. Reading(StateOf(c, safe), n, r) \in After[protocol][m]
  BY <1>1, <1>2 DEF KeptWaiting, ReadsWaiting
<1>4. CASE ~Saves(r)
  <2>1. saved' = saved /\ StateOf(c, safe)' \in After[protocol][m]
    BY <1>1, <1>3, <1>4
  <2> QED BY <1>1, <2>1, NothingSaved
<1>5. CASE Saves(r)
  <2>1. saved' = Append(saved, Batch(r)) /\ StateOf(c, TRUE)' \in After[protocol][m]
    BY <1>1, <1>3, <1>5
  <2>2. ~IsLogin(protocol, m) /\ IsPacketOf(protocol, Batch(r), k)
    BY <1>1, <1>2, <1>5 DEF KeptWaiting, ReadsWaiting, Batch
  <2>3. k \in Packets /\ k <= next
    <3>1. \A a, b, d \in Nat : \A e \in 1..(a + b) :
            ~(e <= a) /\ e <= a + d => e - a \in 1..b /\ e - a <= d
      OBVIOUS
    <3>2. Len(Logins[protocol]) \in Nat /\ Len(Scripts[protocol]) \in Nat /\ next \in Nat
      BY Shape DEF IInv, L
    <3> QED BY <2>2, <3>1, <3>2, Zenon DEF IsLogin, Stages, PacketOf, L, Packets
  <2> QED BY <1>1, <2>1, <2>2, <2>3, PacketSaved
<1> QED BY <1>4, <1>5

LEMMA MessageStep ==
  ASSUME Chosen, IInv, NEW c \in Conns, NEW n \in Cuts[protocol] \cup {ByteLen(wire[c])}, Message(c, n)
  PROVE  IInv'
<1> DEFINE r == Answer(c, n)
<1>1. /\ UNCHANGED <<protocol, conn, up, told, waits, next>> /\ c <= conn
      /\ \A e \in Conns : e # c => Same(e)
      /\ saved' = IF Saves(r) THEN Append(saved, Batch(r)) ELSE saved
  BY MessageEffect, Zenon
<1>2. \A s : /\ n \in Portions(protocol, StateOf(c, s))
             /\ Result(protocol, StateOf(c, s), n) = r
             /\ \A f : f = (IF Saves(r) THEN TRUE ELSE s) =>
                  StateOf(c, f)' = Reading(StateOf(c, s), n, r)
  BY MessageEffect, Zenon
<1> HIDE DEF r
<1>3. /\ L' = L /\ Stage' = Stage /\ Conns' = Conns /\ L \in Nat /\ conn \in Nat
      /\ told \in 0..L /\ next \in Nat
  BY <1>1, Shape DEF IInv, TypeOK, L, Stage, Conns
<1>4. /\ wire' = [e \in Conns |-> wire'[e]] /\ back' = [e \in Conns |-> back'[e]]
      /\ open' = [e \in Conns |-> open'[e]] /\ session' = [e \in Conns |-> session'[e]]
  BY DEF Message, Arrives, IInv, TypeOK
<1>5. FreshOK'
  <2> SUFFICES ASSUME NEW e \in Conns, conn < e PROVE StateOf(e, FALSE)' = Start(protocol)
    BY <1>1, <1>3 DEF FreshOK, Start
  <2>1. e # c
    BY <1>1, <1>3 DEF Conns
  <2> QED BY <1>1, <2>1, Zenon DEF IInv, FreshOK, Same
(* The others that were given up.                                          *)
<1>6. ASSUME NEW e \in Conns, Left(e), e # c
      PROVE  \E m \in Stages(protocol)' : \E safe \in BOOLEAN :
               m <= (L + next)' /\ Awaited(protocol, m)' /\ StateOf(e, safe)' \in After[protocol'][m]
  BY <1>1, <1>3, <1>6, LeftStays
<1>7. \A e \in Conns : Left(e)' <=> Left(e)
  BY <1>1 DEF Left
<1>8. ASSUME \E S : saved' \in Seq(S) PROVE TypeOK'
  BY <1>1, <1>3, <1>4, <1>8 DEF IInv, TypeOK
<1>9. CASE Left(c)
  <2>1. PICK m \in Stages(protocol), safe \in BOOLEAN :
          m <= L + next /\ Awaited(protocol, m) /\ StateOf(c, safe) \in After[protocol][m]
    BY <1>9 DEF IInv, LeftOK
  <2>2. /\ \E s \in BOOLEAN : StateOf(c, s)' \in After[protocol][m]
        /\ \E S : saved' \in Seq(S)
        /\ \A k : Saved(k) => Saved(k)'
        /\ AckedIsSaved' /\ SavedIsSent'
    BY <2>1, ReadAfter, Zenon
  <2>3. LeftOK'
    <3>1. \E k \in Stages(protocol)' : \E s \in BOOLEAN :
            k <= (L + next)' /\ Awaited(protocol, k)' /\ StateOf(c, s)' \in After[protocol'][k]
      BY <1>1, <1>3, <2>1, <2>2
    <3> QED BY <1>3, <1>6, <1>7, <3>1 DEF LeftOK
  <2>4. WaitsOK' /\ IdleOK'
    <3>1. up = TRUE => conn # c
      BY <1>3, <1>9 DEF Left, Conns
    <3>2. up = TRUE /\ conn \in Conns => \A s : StateOf(conn, s)' = StateOf(conn, s)
      BY <1>1, <3>1 DEF Same
    <3> QED BY <1>1, <1>3, <2>2, <3>2 DEF IInv, WaitsOK, IdleOK
  <2> QED BY <1>5, <1>8, <2>2, <2>3, <2>4 DEF IInv
<1>10. CASE ~Left(c)
  <2>1. c = conn /\ up = TRUE
    BY <1>1, <1>3, <1>10 DEF Left, Conns, IInv, TypeOK
  <2>2. LeftOK'
    <3>1. \A e \in Conns : Left(e)' => Left(e) /\ e # c
      BY <1>7, <1>10
    <3> QED BY <1>3, <1>6, <3>1 DEF LeftOK
  <2>3. CASE waits = TRUE
    <3>1. /\ Stage \in Stages(protocol) /\ Awaited(protocol, Stage) /\ Stage <= L + next
          /\ told = L => ~IsLogin(protocol, Stage) /\ PacketOf(protocol, Stage) = next
      <4>1. Stage \in Stages(protocol) /\ Awaited(protocol, Stage)
        BY <2>3 DEF IInv, WaitsOK
      <4>2. Stage <= L + next
        BY <1>3, Shape DEF Stage, IInv, TypeOK
      <4> QED BY <2>3, <4>1, <4>2, AwaitedPacket
    <3>2. PICK safe \in BOOLEAN : /\ StateOf(c, safe) \in After[protocol][Stage]
                                  /\ safe = TRUE /\ told = L => Saved(next)
      BY <2>1, <2>3 DEF IInv, WaitsOK
    <3>3. /\ \E S : saved' \in Seq(S)
          /\ \A k : Saved(k) => Saved(k)'
          /\ AckedIsSaved' /\ SavedIsSent'
      BY <3>1, <3>2, ReadAfter
    <3>4. PICK s \in BOOLEAN :
            /\ StateOf(c, s)' \in After[protocol][Stage]
            /\ \A k : s = TRUE /\ ~IsLogin(protocol, Stage) /\ k = PacketOf(protocol, Stage)
                     => safe = TRUE \/ Saved(k)'
      BY <3>1, <3>2, ReadAfter, Zenon
    <3>5. \A k : s = TRUE /\ told = L /\ k = next => Saved(k)'
      BY <3>1, <3>2, <3>3, <3>4
    <3>6. WaitsOK' /\ IdleOK'
      BY <1>1, <1>3, <2>1, <2>3, <3>1, <3>4, <3>5 DEF WaitsOK, IdleOK, Saved, IsPacket
    <3> QED BY <1>5, <1>8, <2>2, <3>3, <3>6 DEF IInv
  <2>4. CASE waits = FALSE
    <3>1. StateOf(c, FALSE) \in Idle[protocol][told]
      BY <2>1, <2>4 DEF IInv, IdleOK
    <3>2. KeptIdle(protocol, Idle[protocol][told])
      BY <1>3, Shape DEF IInv, Kept, L
    <3>3. Reading(StateOf(c, FALSE), n, r) \in Idle[protocol][told] /\ ~Saves(r)
      BY <1>2, <3>1, <3>2 DEF KeptIdle, ReadsIdle
    <3>4. StateOf(c, FALSE)' \in Idle[protocol][told] /\ saved' = saved
      BY <1>1, <1>2, <3>3
    <3>5. WaitsOK' /\ IdleOK'
      BY <1>1, <1>3, <2>1, <2>4, <3>4 DEF WaitsOK, IdleOK
    <3> QED BY <1>1, <1>5, <1>8, <2>2, <3>4, <3>5, NothingSaved DEF IInv
  <2> QED BY <2>3, <2>4 DEF IInv, TypeOK
<1> QED BY <1>9, <1>10

LEMMA NextIInv == ASSUME Chosen, IInv, [Next]_vars PROVE IInv'
<1>1. CASE UNCHANGED vars
  BY <1>1 DEF vars, IInv, TypeOK, WaitsOK, IdleOK, LeftOK, FreshOK, AckedIsSaved, SavedIsSent, Left,
              Saved, IsPacket, StateOf, Start, Stage, L, Conns, Packets, ContentOf
<1>2. CASE HandleRequest
  BY <1>2, MessageStep DEF HandleRequest
<1> QED BY <1>1, <1>2, ConnectStep, GiveUpStep, SendLoginStep, SendPacketStep, ReceiveStep DEF Next

(* The invariant behind the theorems below.                                *)
THEOREM Inductive == ASSUME Contract PROVE Spec => []IInv
<1>1. Init => IInv
  BY ContractChosen, InitIInv
<1>2. IInv /\ [Next]_vars => IInv'
  BY ContractChosen, NextIInv
<1> QED BY <1>1, <1>2, PTL DEF Spec

(* For any number of connections, logins and packets, and whenever the     *)
(* device gives up and starts again: if each decoder keeps its contract    *)
(* with a single connection, a packet whose acknowledgement the device has *)
(* taken is saved, under its imei, with its positions and its params.      *)
THEOREM AckedSaved == ASSUME Contract PROVE Spec => []AckedIsSaved
BY Inductive, PTL DEF IInv

(* And nothing else is ever saved than packets that the device has sent,   *)
(* whichever of its connections still holds what of them.                  *)
THEOREM SavedSent == ASSUME Contract PROVE Spec => []SavedIsSent
BY Inductive, PTL DEF IInv

-----------------------------------------------------------------------------
(* A connection that bytes arrive on is in a state that the contract knows. *)
LEMMA KnownState ==
  ASSUME Chosen, IInv, NEW c \in Conns, c <= conn
  PROVE  \E s \in BOOLEAN :
           \/ \E m \in Stages(protocol) :
                Awaited(protocol, m) /\ StateOf(c, s) \in After[protocol][m]
           \/ told \in 0..L /\ StateOf(c, s) \in Idle[protocol][told]
<1>1. conn \in Nat /\ up \in BOOLEAN /\ waits \in BOOLEAN /\ told \in 0..L
  BY Shape DEF IInv, TypeOK
<1>2. CASE Left(c)
  BY <1>2 DEF IInv, LeftOK
<1>3. CASE ~Left(c)
  <2>1. c = conn /\ up = TRUE
    BY <1>1, <1>3 DEF Left, Conns
  <2>2. CASE waits = TRUE
    BY <2>1, <2>2 DEF IInv, WaitsOK
  <2>3. CASE waits = FALSE
    BY <1>1, <2>1, <2>3 DEF IInv, IdleOK
  <2> QED BY <1>1, <2>2, <2>3
<1> QED BY <1>2, <1>3

LEMMA ReadKept ==
  ASSUME Chosen, IInv, NEW c \in Conns, NEW n \in Cuts[protocol] \cup {ByteLen(wire[c])}, Message(c, n)
  PROVE  /\ \E s : /\ Answers(protocol, StateOf(c, s), n, Answer(c, n))
                  /\ EndsPiece(protocol, StateOf(c, s), n, Answer(c, n))
         /\ \E S : back[c] \in Seq(S)
<1> DEFINE r == Answer(c, n)
<1>1. /\ c <= conn
      /\ \A s : n \in Portions(protocol, StateOf(c, s)) /\ Result(protocol, StateOf(c, s), n) = r
  BY MessageEffect, Zenon
<1> HIDE DEF r
<1>2. PICK s \in BOOLEAN :
        \/ \E m \in Stages(protocol) : Awaited(protocol, m) /\ StateOf(c, s) \in After[protocol][m]
        \/ told \in 0..L /\ StateOf(c, s) \in Idle[protocol][told]
  BY <1>1, KnownState
<1>3. StateOf(c, s).back = back[c]
  BY DEF StateOf
<1>4. protocol \in Protocols
  BY DEF IInv, TypeOK
<1>5. CASE \E m \in Stages(protocol) : Awaited(protocol, m) /\ StateOf(c, s) \in After[protocol][m]
  <2>1. PICK m \in Stages(protocol) : Awaited(protocol, m) /\ StateOf(c, s) \in After[protocol][m]
    BY <1>5
  <2>2. KeptWaiting(protocol, m, After[protocol][m], Idle[protocol][Behind(protocol, m)])
    BY <2>1, Shape DEF IInv, Kept
  <2>3. Answers(protocol, StateOf(c, s), n, r) /\ EndsPiece(protocol, StateOf(c, s), n, r)
    BY <1>1, <2>1, <2>2 DEF KeptWaiting, ReadsWaiting
  <2>4. \E S : StateOf(c, s).back \in Seq(S)
    BY <1>4, <2>1, Zenon DEF Chosen, Terms
  <2> QED BY <1>3, <2>3, <2>4 DEF r
<1>6. CASE told \in 0..L /\ StateOf(c, s) \in Idle[protocol][told]
  <2>1. KeptIdle(protocol, Idle[protocol][told])
    BY <1>6, Shape DEF IInv, Kept, L
  <2>2. Answers(protocol, StateOf(c, s), n, r) /\ EndsPiece(protocol, StateOf(c, s), n, r)
    BY <1>1, <1>6, <2>1 DEF KeptIdle, ReadsIdle
  <2>3. \E S : StateOf(c, s).back \in Seq(S)
    BY <1>4, <1>6, Zenon DEF Chosen, Terms, L
  <2> QED BY <1>3, <2>2, <2>3 DEF r
<1> QED BY <1>2, <1>5, <1>6

(* Only HandleRequest empties a stream.                                    *)
LEMMA OnlyRead ==
  ASSUME Chosen, IInv, [Next]_vars, NEW c \in Conns, wire'[c] = <<>>,
         NEW k \in Packets, wire[c] = Messages[protocol][k]
  PROVE  \E n \in Cuts[protocol] \cup {ByteLen(wire[c])} : Message(c, n)
<1>1. /\ protocol \in Protocols /\ L \in Nat /\ Len(Scripts[protocol]) \in Nat
      /\ wire = [e \in Conns |-> wire[e]]
  BY Shape DEF IInv, TypeOK
<1>2. \E S : Messages[protocol][k] \in Seq(S) \ {<<>>}
  <2>1. L + k \in Stages(protocol) /\ TheMessage(protocol, L + k) = Messages[protocol][k]
    BY <1>1, PacketStage DEF Packets, L
  <2>2. \E S : TheMessage(protocol, L + k) \in Seq(S) \ {<<>>}
    BY <1>1, <2>1, Zenon DEF Chosen, Terms
  <2> QED BY <2>1, <2>2, Zenon
<1>3. ASSUME NEW m \in Stages(protocol), wire' = [wire EXCEPT ![conn] = @ \o TheMessage(protocol, m)]
      PROVE  FALSE
  <2>1. c = conn
    BY <1>1, <1>2, <1>3
  <2>2. wire'[c] = wire[c] \o TheMessage(protocol, m)
    BY <1>1, <1>3, <2>1
  <2>3. PICK S : wire[c] \in Seq(S) \ {<<>>}
    BY <1>2
  <2>4. PICK T : TheMessage(protocol, m) \in Seq(T) \ {<<>>}
    BY <1>1, Zenon DEF Chosen, Terms
  <2>5. wire[c] \in Seq(S \cup T) /\ TheMessage(protocol, m) \in Seq(S \cup T)
    BY <2>3, <2>4
  <2>6. \A U : \A a, b \in Seq(U) : a \o b = <<>> => a = <<>>
    OBVIOUS
  <2> QED BY <2>2, <2>3, <2>5, <2>6
<1>4. wire' # wire
  BY <1>2
<1>5. ASSUME SendLogin PROVE FALSE
  <2>1. told + 1 \in Stages(protocol) /\ TheMessage(protocol, told + 1) = Logins[protocol][told + 1]
    BY <1>1, <1>5, Shape, LoginStage DEF SendLogin, IInv, L
  <2> QED BY <1>3, <1>5, <2>1 DEF SendLogin
<1>6. ASSUME SendPacket PROVE FALSE
  <2>1. L + next \in Stages(protocol) /\ TheMessage(protocol, L + next) = MessageOf(next)
    BY <1>1, <1>6, PacketStage DEF SendPacket, Packets, L, MessageOf
  <2> QED BY <1>3, <1>6, <2>1 DEF SendPacket
<1>7. HandleRequest
  BY <1>4, <1>5, <1>6 DEF Next, vars, Connect, Receive, GiveUp
<1>8. PICK e \in Conns : \E n \in Cuts[protocol] \cup {ByteLen(wire[e])} : Message(e, n)
  BY <1>7 DEF HandleRequest
<1>9. e = c
  BY <1>1, <1>2, <1>8 DEF Message, Arrives
<1> QED BY <1>8, <1>9

LEMMA AnswersWhole ==
  ASSUME Chosen, IInv, [Next]_vars, NEW c \in Conns, NEW k \in Packets, protocol \in Answering,
         WholePacket(protocol, k, wire[c], wire'[c], session[c])
  PROVE  /\ Len(back'[c]) = Len(back[c]) + 1
         /\ AcceptsReply(protocol, Scripts[protocol][k], back'[c][Len(back'[c])])
<1>1. PICK n \in Cuts[protocol] \cup {ByteLen(wire[c])} : Message(c, n)
  BY OnlyRead DEF WholePacket
<1> DEFINE r == Answer(c, n)
<1>2. PICK s : Answers(protocol, StateOf(c, s), n, r)
  BY <1>1, ReadKept, Zenon
<1>3. PICK S : back[c] \in Seq(S)
  BY <1>1, ReadKept, Zenon
<1>4. wire'[c] = BytesAfter(wire[c], n) /\ back'[c] = back[c] \o r.reply
  BY <1>1 DEF Message, Arrives, Answer, IInv, TypeOK
<1> HIDE DEF r
<1>5. k \in DOMAIN Messages[protocol]
  BY Shape DEF Messages, IInv, TypeOK
<1>6. WholePacket(protocol, k, StateOf(c, s).wire, BytesAfter(StateOf(c, s).wire, n), StateOf(c, s).session)
  BY <1>4 DEF StateOf
<1>7. r.reply = <<Head(r.reply)>> /\ AcceptsReply(protocol, Scripts[protocol][k], Head(r.reply))
  BY <1>2, <1>5, <1>6, Zenon DEF Answers
<1>8. \A a : \A b \in Seq(S) : Len(b \o <<a>>) = Len(b) + 1 /\ (b \o <<a>>)[Len(b \o <<a>>)] = a
  BY SMT
<1> QED BY <1>3, <1>4, <1>7, <1>8

(* Under the same contract, a packet that arrives whole in a session of    *)
(* its device, and alone, is acknowledged at once, on its connection and   *)
(* on every other that still holds one.                                    *)
THEOREM WholeAnswered == ASSUME Contract PROVE Spec => Answered
<1>1. ASSUME IInv, [Next]_vars
      PROVE  \A c \in Conns, k \in Packets :
               protocol \in Answering /\ WholePacket(protocol, k, wire[c], wire'[c], session[c]) =>
                 /\ Len(back'[c]) = Len(back[c]) + 1
                 /\ AcceptsReply(protocol, Scripts[protocol][k], back'[c][Len(back'[c])])
  BY <1>1, ContractChosen, AnswersWhole
<1> QED BY <1>1, Inductive, PTL DEF Spec, Answered

LEMMA AgreedNow == ASSUME Chosen, IInv PROVE SessionAgreed
<1> SUFFICES ASSUME up, told = L, open[conn] PROVE session[conn] \in AgreedSessions[protocol]
  BY DEF SessionAgreed, L
<1>1. up = TRUE /\ waits \in BOOLEAN
  BY DEF IInv, TypeOK
<1>2. \A s : StateOf(conn, s).open /\ StateOf(conn, s).session = session[conn]
  BY DEF StateOf
<1>3. Kept(protocol, After[protocol], Idle[protocol])
  BY Shape DEF IInv
<1>4. CASE waits = TRUE
  <2>1. Stage \in Stages(protocol) /\ ~IsLogin(protocol, Stage)
    BY <1>4, AwaitedPacket DEF IInv, WaitsOK
  <2>2. \E s : StateOf(conn, s) \in After[protocol][Stage]
    BY <1>4 DEF IInv, WaitsOK
  <2> QED BY <1>2, <1>3, <2>1, <2>2 DEF Kept, KeptSession
<1>5. CASE waits = FALSE
  BY <1>1, <1>2, <1>3, <1>5 DEF Kept, KeptSession, IInv, IdleOK, L
<1> QED BY <1>1, <1>4, <1>5

(* And whoever reads the packets of a logged-in device has the session     *)
(* that was agreed upon, its fields included.                              *)
THEOREM SessionsAgreed == ASSUME Contract PROVE Spec => []SessionAgreed
BY Inductive, ContractChosen, AgreedNow, PTL

-----------------------------------------------------------------------------
(* What is still to be read has a length, and sending adds to it.          *)
LEMMA Length == ASSUME Chosen, IInv, NEW c \in Conns PROVE ByteLen(wire[c]) \in Nat
<1>1. conn \in Nat /\ L \in Nat
  BY Shape DEF IInv
<1>2. CASE conn < c
  <2>1. StateOf(c, FALSE) = Start(protocol)
    BY <1>2 DEF IInv, FreshOK
  <2>2. StateOf(c, FALSE).wire = wire[c] /\ Start(protocol).wire = <<>>
    BY DEF StateOf, Start
  <2>3. ByteLen(wire[c]) = 0
    BY <2>1, <2>2, Zenon DEF Chosen, Terms
  <2> QED BY <2>3
<1>3. CASE c <= conn
  <2>1. PICK s \in BOOLEAN :
          \/ \E m \in Stages(protocol) : Awaited(protocol, m) /\ StateOf(c, s) \in After[protocol][m]
          \/ told \in 0..L /\ StateOf(c, s) \in Idle[protocol][told]
    BY <1>3, KnownState
  <2>2. StateOf(c, s).wire = wire[c]
    BY DEF StateOf
  <2>3. ASSUME NEW m \in Stages(protocol), Awaited(protocol, m), StateOf(c, s) \in After[protocol][m]
        PROVE  ByteLen(StateOf(c, s).wire) \in Nat
    BY <2>3, Shape DEF IInv, Kept, KeptWaiting
  <2>4. ASSUME told \in 0..L, StateOf(c, s) \in Idle[protocol][told]
        PROVE  ByteLen(StateOf(c, s).wire) \in Nat
    BY <2>4, Shape DEF IInv, Kept, KeptIdle, L
  <2> QED BY <2>1, <2>2, <2>3, <2>4
<1> QED BY <1>1, <1>2, <1>3 DEF Conns

LEMMA SendingLength ==
  ASSUME Chosen, IInv, NEW m \in Stages(protocol), NEW x \in Idle[protocol][Before(protocol, m)],
         Behind(protocol, m) \in 0..L, Awaited(protocol, m) \/ Behind(protocol, m) = m
  PROVE  /\ ByteLen(Sending(protocol, m, x).wire) \in Nat
         /\ ByteLen(x.wire) <= ByteLen(Sending(protocol, m, x).wire)
<1>1. Kept(protocol, After[protocol], Idle[protocol])
  BY Shape DEF IInv
<1>2. CASE Awaited(protocol, m)
  <2>1. /\ KeptSending(protocol, m, Idle[protocol][Before(protocol, m)], After[protocol][m])
        /\ KeptWaiting(protocol, m, After[protocol][m], Idle[protocol][Behind(protocol, m)])
    BY <1>1, <1>2 DEF Kept
  <2> QED BY <2>1 DEF KeptSending, KeptWaiting
<1>3. CASE ~Awaited(protocol, m)
  <2>1. /\ KeptSending(protocol, m, Idle[protocol][Before(protocol, m)], Idle[protocol][m])
        /\ KeptIdle(protocol, Idle[protocol][m])
    BY <1>1, <1>3 DEF Kept, L
  <2> QED BY <2>1 DEF KeptSending, KeptIdle
<1> QED BY <1>2, <1>3

LEMMA OnlyReadShortens ==
  ASSUME Chosen, IInv, [Next]_vars, NEW c \in Conns, ByteLen(wire'[c]) < ByteLen(wire[c])
  PROVE  \E n \in Cuts[protocol] \cup {ByteLen(wire[c])} : Message(c, n)
<1>1. /\ L \in Nat /\ Len(Scripts[protocol]) \in Nat /\ told \in Nat
      /\ wire = [e \in Conns |-> wire[e]]
      /\ ByteLen(wire[c]) \in Nat
  BY Shape, Length DEF IInv, TypeOK
<1>2. wire'[c] # wire[c]
  BY <1>1
<1>3. ASSUME up, ~waits, NEW m \in Stages(protocol), Before(protocol, m) = told, Behind(protocol, m) \in 0..L,
             Awaited(protocol, m) \/ Behind(protocol, m) = m,
             wire' = [wire EXCEPT ![conn] = @ \o TheMessage(protocol, m)]
      PROVE  FALSE
  <2>1. c = conn
    BY <1>1, <1>2, <1>3
  <2>2. wire'[c] = wire[c] \o TheMessage(protocol, m)
    BY <1>1, <1>3, <2>1
  <2>3. StateOf(conn, FALSE) \in Idle[protocol][told]
    BY <1>3 DEF IInv, IdleOK, TypeOK
  <2>4. /\ StateOf(conn, FALSE).wire = wire[c]
        /\ Sending(protocol, m, StateOf(conn, FALSE)).wire = wire'[c]
    BY <2>1, <2>2 DEF StateOf, Sending
  <2>5. ByteLen(wire'[c]) \in Nat /\ ByteLen(wire[c]) <= ByteLen(wire'[c])
    BY <1>3, <2>3, <2>4, SendingLength
  <2> QED BY <1>1, <2>5
<1>4. ASSUME SendLogin PROVE FALSE
  <2>1. /\ told + 1 \in Stages(protocol) /\ TheMessage(protocol, told + 1) = Logins[protocol][told + 1]
        /\ Before(protocol, told + 1) = told /\ Behind(protocol, told + 1) = told + 1
        /\ told + 1 \in 0..L
    BY <1>1, <1>4, LoginStage DEF SendLogin, L
  <2> QED BY <1>3, <1>4, <2>1 DEF SendLogin
<1>5. ASSUME SendPacket PROVE FALSE
  <2>1. /\ L + next \in Stages(protocol) /\ TheMessage(protocol, L + next) = MessageOf(next)
        /\ Before(protocol, L + next) = L /\ Behind(protocol, L + next) = L /\ Awaited(protocol, L + next)
    BY <1>1, <1>5, PacketStage DEF SendPacket, Packets, L, MessageOf
  <2>2. L \in 0..L /\ told = L
    BY <1>1, <1>5 DEF SendPacket, L
  <2>3. up /\ ~waits /\ wire' = [wire EXCEPT ![conn] = @ \o TheMessage(protocol, L + next)]
    BY <1>5, <2>1 DEF SendPacket
  <2> QED BY <1>3, <2>1, <2>2, <2>3
<1>6. HandleRequest
  BY <1>2, <1>4, <1>5 DEF Next, vars, Connect, Receive, GiveUp
<1>7. PICK e \in Conns : \E n \in Cuts[protocol] \cup {ByteLen(wire[e])} : Message(e, n)
  BY <1>6 DEF HandleRequest
<1>8. e = c
  BY <1>1, <1>2, <1>7 DEF Message, Arrives
<1> QED BY <1>7, <1>8

(* The two parts of CutEnds, the second for a connection.                  *)
Living == protocol \in EndsOnPiece => alive = TRUE
LEMMA LivingStays == ASSUME Chosen, IInv, [Next]_vars, Living PROVE Living'
<1> SUFFICES ASSUME protocol' \in EndsOnPiece PROVE alive' = TRUE
  BY DEF Living
<1>1. protocol' = protocol
  BY DEF Next, vars, Connect, SendLogin, SendPacket, Receive, GiveUp, HandleRequest, Message
<1>2. CASE HandleRequest
  <2>1. PICK c \in Conns : \E n \in Cuts[protocol] \cup {ByteLen(wire[c])} : Message(c, n)
    BY <1>2 DEF HandleRequest
  <2>2. PICK n \in Cuts[protocol] \cup {ByteLen(wire[c])} : Message(c, n)
    BY <2>1
  <2> DEFINE r == Answer(c, n)
  <2>3. \E s : EndsPiece(protocol, StateOf(c, s), n, r)
    BY <2>2, ReadKept, Zenon
  <2>4. alive' = ~r.panic
    BY <2>2 DEF Message, Answer
  <2> HIDE DEF r
  <2>5. ~r.panic
    BY <1>1, <2>3 DEF EndsPiece
  <2> QED BY <2>4, <2>5
<1>3. CASE ~HandleRequest
  <2>1. alive' = alive
    BY <1>3 DEF Next, vars, Connect, SendLogin, SendPacket, Receive, GiveUp
  <2> QED BY <1>1, <2>1 DEF Living
<1> QED BY <1>2, <1>3

LEMMA PieceEnds ==
  ASSUME Chosen, IInv, [Next]_vars, protocol \in EndsOnPiece, NEW c \in Conns,
         wire'[c] # <<>>, ByteLen(wire'[c]) < ByteLen(wire[c])
  PROVE  ~open'[c]
<1>1. PICK n \in Cuts[protocol] \cup {ByteLen(wire[c])} : Message(c, n)
  BY OnlyReadShortens
<1> DEFINE r == Answer(c, n)
<1>2. PICK s : EndsPiece(protocol, StateOf(c, s), n, r)
  BY <1>1, ReadKept, Zenon
<1>3. wire'[c] = BytesAfter(wire[c], n) /\ open'[c] = (r.session.imei = DeviceImei)
  BY <1>1 DEF Message, Arrives, Answer, IInv, TypeOK
<1> HIDE DEF r
<1>4. BytesAfter(StateOf(c, s).wire, n) = wire'[c]
  BY <1>3 DEF StateOf
<1>5. r.session.imei # DeviceImei
  BY <1>2, <1>4 DEF EndsPiece
<1> QED BY <1>3, <1>5

(* Under the same contract, a session that has read a piece of a packet is *)
(* over, in the protocols that promise so, and neither a piece nor a whole *)
(* packet ends the process.                                                *)
THEOREM PiecesEnd == ASSUME Contract PROVE Spec => CutEnds
<1>1. Init => Living
  BY DEF Init, Living
<1>2. IInv /\ [Next]_vars /\ Living => Living'
  BY ContractChosen, LivingStays
<1>3. ASSUME IInv, [Next]_vars, Living, Living'
      PROVE  (protocol \in EndsOnPiece) =>
               /\ alive'
               /\ \A c \in Conns :
                    open[c] /\ wire'[c] # <<>> /\ ByteLen(wire'[c]) < ByteLen(wire[c]) => ~open'[c]
  <2>1. protocol' = protocol
    BY <1>3 DEF Next, vars, Connect, SendLogin, SendPacket, Receive, GiveUp, HandleRequest, Message
  <2> QED BY <1>3, <2>1, ContractChosen, PieceEnds DEF Living
<1> QED BY <1>1, <1>2, <1>3, Inductive, PTL DEF Spec, CutEnds
=============================================================================
