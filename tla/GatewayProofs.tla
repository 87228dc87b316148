---------------------------- MODULE GatewayProofs ----------------------------
(***************************************************************************)
(* What holds of Gateway for any number of connections, packets and        *)
(* restarts: its types, that what the device believes to be safe is        *)
(* accounted for, the order in which connections store, and that it        *)
(* implements Delivery.  The inductive invariant is IInv.                  *)
(***************************************************************************)
EXTENDS Gateway, SequenceTheorems, TLAPS

StoredBy(c, k) == \E j \in 1..Len(stored) : stored[j].conn = c /\ stored[j].packet = k
Safe(k) == Stored(k) \/ InHands(k) \/ k \in lost

(* What the device knows: it waits on its last connection, for an answer   *)
(* to the next packet, which is on its way there or on its way back.       *)
DeviceOK ==
  /\ waits = TRUE => using = TRUE /\ next \in Packets
  /\ using = TRUE => conn \in Conns
  /\ \A c \in Conns :
       /\ conn < c => handler[c] = "none" /\ wire[c] = Nothing /\ back[c] = Nothing
       /\ back[c] # Nothing => c = conn /\ waits = TRUE /\ back[c] = next /\ wire[c] = Nothing
       /\ wire[c] # Nothing /\ c = conn /\ using = TRUE => waits = TRUE /\ wire[c] = next

(* A handler holds a packet exactly while it saves it.                     *)
HeldOK == \A c \in Conns : handler[c] = "save" <=> held[c] # Nothing

(* An answer is on its way only for a packet that is accounted for.        *)
SafeOK ==
  /\ \A k \in 1..(next - 1) : Safe(k)
  /\ \A c \in Conns : back[c] # Nothing => Safe(next)

(* What a connection has stored, holds and has still to read is in order,  *)
(* and none of it is behind that of an earlier connection.                 *)
Took(c, k) == StoredBy(c, k) \/ held[c] = k
Has(c, k) == Took(c, k) \/ wire[c] = k
OrderOK ==
  \A c \in Conns :
    /\ \A k \in Packets : Has(c, k) => k <= next /\ c <= conn
    /\ \A k \in Packets : StoredBy(c, k) /\ held[c] # Nothing => k < held[c]
    /\ \A k \in Packets : Took(c, k) /\ wire[c] # Nothing => k < wire[c]
    /\ \A k \in Packets : Took(c, k) /\ c = conn /\ using = TRUE /\ waits = FALSE => k < next
    /\ \A d \in Conns : \A k \in Packets :
         d < c /\ Has(d, k) => /\ held[c] # Nothing => k <= held[c]
                               /\ wire[c] # Nothing => k <= wire[c]

IInv == TypeOK /\ DeviceOK /\ HeldOK /\ SafeOK /\ OrderOK /\ OvertakenByLater

-----------------------------------------------------------------------------
LEMMA InitIInv == Init => IInv
<1> SUFFICES ASSUME Init PROVE IInv
  OBVIOUS
<1>1. TypeOK
  <2>1. using \in BOOLEAN /\ waits \in BOOLEAN
    BY Zenon DEF Init
  <2> QED BY <2>1, BoundsAssumption DEF Init, TypeOK, Places, Nothing
<1>2. DeviceOK /\ HeldOK
  BY DEF Init, DeviceOK, HeldOK, Nothing
<1>3. SafeOK /\ OvertakenByLater
  BY DEF Init, SafeOK, OvertakenByLater
<1>4. OrderOK
  BY DEF Init, OrderOK, Has, Took, StoredBy, Packets, Nothing
<1> QED BY <1>1, <1>2, <1>3, <1>4 DEF IInv

(* The steps that touch neither what is held nor what is stored.           *)
Quiet == UNCHANGED <<held, stored, lost>>
LEMMA QuietSame ==
  ASSUME Quiet
  PROVE  /\ \A c, k : StoredBy(c, k)' <=> StoredBy(c, k)
         /\ \A k : Safe(k)' <=> Safe(k)
         /\ OvertakenByLater' <=> OvertakenByLater
BY DEF Quiet, StoredBy, Safe, Stored, InHands, OvertakenByLater

(* The device                                                              *)
LEMMA ConnectStep == ASSUME IInv, Connect PROVE IInv'
<1> USE DEF Connect
<1>1. conn + 1 \in Conns /\ next' = next /\ conn' = conn + 1
  BY BoundsAssumption DEF IInv, TypeOK, Conns
<1>2. TypeOK'
  <2>1. using' \in BOOLEAN /\ waits' \in BOOLEAN
    BY Zenon DEF IInv, TypeOK
  <2> QED BY <1>1, <2>1 DEF IInv, TypeOK, Places, Conns
<1>3. DeviceOK'
  BY <1>1 DEF IInv, TypeOK, DeviceOK, Conns
<1>4. HeldOK'
  BY <1>1 DEF IInv, TypeOK, DeviceOK, HeldOK, Conns
<1>5. Quiet
  BY DEF Quiet
<1>6. SafeOK' /\ OvertakenByLater'
  BY <1>5, QuietSame DEF IInv, SafeOK
<1>7. OrderOK'
  BY <1>1, <1>5, QuietSame DEF IInv, TypeOK, OrderOK, Has, Took, Conns, Packets
<1> QED BY <1>2, <1>3, <1>4, <1>6, <1>7 DEF IInv

LEMMA SendStep == ASSUME IInv, Send PROVE IInv'
<1> USE DEF Send
<1>1. conn \in Conns /\ next \in Packets /\ next' = next /\ conn' = conn
  BY DEF IInv, TypeOK, DeviceOK
<1>2. TypeOK'
  <2>1. using' \in BOOLEAN /\ waits' \in BOOLEAN
    BY Zenon DEF IInv, TypeOK
  <2> QED BY <1>1, <2>1 DEF IInv, TypeOK
<1>3. DeviceOK'
  BY <1>1 DEF IInv, TypeOK, DeviceOK, Packets, Nothing
<1>4. HeldOK'
  BY DEF IInv, HeldOK
<1>5. Quiet
  BY DEF Quiet
<1>6. SafeOK' /\ OvertakenByLater'
  BY <1>5, QuietSame DEF IInv, SafeOK
<1>7. OrderOK'
  BY <1>1, <1>5, QuietSame DEF IInv, TypeOK, DeviceOK, OrderOK, Has, Took, Conns, Packets, Nothing
<1> QED BY <1>2, <1>3, <1>4, <1>6, <1>7 DEF IInv

(* The answer that arrives is for the next packet, which is safe.          *)
LEMMA ReceiveStep == ASSUME IInv, Receive PROVE IInv'
<1> USE DEF Receive
<1>1. conn \in Conns /\ next \in Packets /\ next' = next + 1 /\ conn' = conn /\ back[conn] # Nothing
  BY DEF IInv, TypeOK, DeviceOK
<1>2. TypeOK'
  <2>1. using' \in BOOLEAN /\ waits' \in BOOLEAN
    BY Zenon DEF IInv, TypeOK
  <2>2. next' \in 1..(MaxPacket + 1)
    BY <1>1, BoundsAssumption DEF Packets
  <2>3. back' \in [Conns -> Packets \cup {Nothing}]
    BY DEF IInv, TypeOK
  <2> QED BY <2>1, <2>2, <2>3 DEF IInv, TypeOK
<1>3. DeviceOK'
  BY <1>1 DEF IInv, TypeOK, DeviceOK, Packets, Nothing
<1>4. HeldOK'
  BY DEF IInv, HeldOK
<1>5. Quiet
  BY DEF Quiet
<1>6. SafeOK'
  BY <1>1, <1>3, <1>5, QuietSame, BoundsAssumption DEF IInv, TypeOK, DeviceOK, SafeOK, Packets
<1>7. OrderOK'
  BY <1>1, <1>5, QuietSame, BoundsAssumption DEF IInv, TypeOK, DeviceOK, OrderOK, Has, Took, Conns, Packets, Nothing
<1>8. OvertakenByLater'
  BY <1>5, QuietSame DEF IInv
<1> QED BY <1>2, <1>3, <1>4, <1>6, <1>7, <1>8 DEF IInv

LEMMA GiveUpStep == ASSUME IInv, GiveUp PROVE IInv'
<1> USE DEF GiveUp
<1>1. conn \in Conns
  BY DEF IInv, DeviceOK
<1>2. TypeOK'
  <2>1. using' \in BOOLEAN /\ waits' \in BOOLEAN
    BY Zenon DEF IInv, TypeOK
  <2>2. back' \in [Conns -> Packets \cup {Nothing}]
    BY DEF IInv, TypeOK
  <2> QED BY <2>1, <2>2 DEF IInv, TypeOK
<1>3. DeviceOK'
  BY <1>1 DEF IInv, TypeOK, DeviceOK
<1>4. HeldOK'
  BY DEF IInv, HeldOK
<1>5. Quiet
  BY DEF Quiet
<1>6. SafeOK' /\ OvertakenByLater'
  BY <1>5, QuietSame DEF IInv, TypeOK, SafeOK
<1>7. OrderOK'
  BY <1>5, QuietSame DEF IInv, OrderOK, Has, Took
<1> QED BY <1>2, <1>3, <1>4, <1>6, <1>7 DEF IInv

-----------------------------------------------------------------------------
(* A handler that takes nothing and stores nothing: its place changes, and *)
(* a packet that was not read is gone.                                     *)
LEMMA IdleStep ==
  ASSUME IInv, NEW c \in Conns, Select(c) \/ ReadTimeout(c) \/ ReadEnds(c)
  PROVE  IInv'
<1>1. /\ handler[c] \in {"select", "read"}
      /\ \E p \in Places \ {"none", "save"} : handler' = [handler EXCEPT ![c] = p]
  BY DEF Select, ReadTimeout, ReadEnds, Places
<1>2. wire' = wire \/ (wire' = [wire EXCEPT ![c] = Nothing] /\ ~(c = conn /\ waits = TRUE))
  BY DEF Select, ReadTimeout, ReadEnds
<1>3. UNCHANGED <<process, starts, deviceVars, back, held, stored, lost>>
  BY DEF Select, ReadTimeout, ReadEnds
<1>4. TypeOK'
  <2>1. using' \in BOOLEAN /\ waits' \in BOOLEAN
    BY <1>3, Zenon DEF IInv, TypeOK, deviceVars
  <2> QED BY <1>1, <1>2, <1>3, <2>1 DEF IInv, TypeOK, deviceVars
<1>5. DeviceOK'
  BY <1>1, <1>2, <1>3 DEF IInv, TypeOK, DeviceOK, deviceVars
<1>6. HeldOK'
  BY <1>1, <1>3 DEF IInv, TypeOK, HeldOK
<1>7. Quiet
  BY <1>3 DEF Quiet
<1>8. SafeOK' /\ OvertakenByLater'
  BY <1>3, <1>7, QuietSame DEF IInv, SafeOK, deviceVars
<1>9. OrderOK'
  <2>1. \A d \in Conns : wire'[d] = Nothing \/ wire'[d] = wire[d]
    BY <1>2 DEF IInv, TypeOK
  <2> QED BY <2>1, <1>3, <1>7, QuietSame DEF IInv, OrderOK, Has, Took, deviceVars, Packets, Nothing
<1> QED BY <1>4, <1>5, <1>6, <1>8, <1>9 DEF IInv

(* What is answered is in the hands of the handler from then on.           *)
LEMMA AnswerStep == ASSUME IInv, NEW c \in Conns, Answer(c) PROVE IInv'
<1> USE DEF Answer
<1>1. /\ wire[c] \in Packets /\ wire[c] # Nothing /\ held[c] = Nothing
      /\ held' = [held EXCEPT ![c] = wire[c]] /\ wire' = [wire EXCEPT ![c] = Nothing]
      /\ UNCHANGED <<conn, using, waits, next, stored, lost>>
  BY DEF IInv, TypeOK, HeldOK, deviceVars
<1>2. TypeOK'
  <2>1. using' \in BOOLEAN /\ waits' \in BOOLEAN
    BY <1>1, Zenon DEF IInv, TypeOK
  <2>2. handler' \in [Conns -> Places]
    BY DEF IInv, TypeOK, Places
  <2>3. back' \in [Conns -> Packets \cup {Nothing}]
    BY <1>1 DEF IInv, TypeOK
  <2> QED BY <1>1, <2>1, <2>2, <2>3 DEF IInv, TypeOK, deviceVars
<1>3. DeviceOK'
  <2>1. \A d \in Conns : back'[d] = IF d = c THEN (IF c = conn /\ using THEN wire[c] ELSE Nothing) ELSE back[d]
    BY DEF IInv, TypeOK
  <2>2. \A d \in Conns : handler'[d] = IF d = c THEN "save" ELSE handler[d]
    BY DEF IInv, TypeOK
  <2>3. c <= conn
    BY DEF IInv, TypeOK, DeviceOK, Conns
  <2> QED BY <1>1, <2>1, <2>2, <2>3 DEF IInv, TypeOK, DeviceOK, Conns
<1>4. HeldOK'
  BY <1>1 DEF IInv, TypeOK, HeldOK
<1>5. \A k : StoredBy(c, k)' <=> StoredBy(c, k)
  BY <1>1 DEF StoredBy
<1>6. \A k \in Packets : Safe(k) => Safe(k)'
  <2> SUFFICES ASSUME NEW k \in Packets, Safe(k) PROVE Safe(k)'
    OBVIOUS
  <2>1. InHands(k) => InHands(k)'
    BY <1>1 DEF InHands, IInv, TypeOK, Packets, Nothing
  <2>2. Stored(k)' <=> Stored(k)
    BY <1>1 DEF Stored
  <2> QED BY <1>1, <2>1, <2>2 DEF Safe
<1>7. SafeOK'
  <2>1. \A k \in 1..(next - 1) : k \in Packets
    BY BoundsAssumption DEF IInv, TypeOK, Packets
  <2>2. \A d \in Conns : back'[d] # Nothing => Safe(next)'
    <3> SUFFICES ASSUME NEW d \in Conns, back'[d] # Nothing PROVE Safe(next)'
      OBVIOUS
    <3>1. CASE d = c
      <4>1. wire[c] = next
        BY <3>1 DEF IInv, TypeOK, DeviceOK
      <4>2. held'[c] = next
        BY <1>1, <4>1 DEF IInv, TypeOK
      <4>3. InHands(next)'
        BY <1>1, <4>2 DEF InHands
      <4> QED BY <4>3, <1>1 DEF Safe
    <3>2. CASE d # c
      <4>1. back[d] # Nothing
        BY <3>2 DEF IInv, TypeOK
      <4>2. next \in Packets /\ Safe(next)
        BY <4>1 DEF IInv, SafeOK, DeviceOK
      <4> QED BY <1>1, <1>6, <4>2
    <3> QED BY <3>1, <3>2
  <2> QED BY <1>1, <1>6, <2>1, <2>2 DEF IInv, SafeOK
<1>8. OrderOK'
  <2>1. \A d, k : StoredBy(d, k)' <=> StoredBy(d, k)
    BY <1>1 DEF StoredBy
  <2>2. \A d \in Conns : held'[d] = (IF d = c THEN wire[c] ELSE held[d])
                         /\ wire'[d] = (IF d = c THEN Nothing ELSE wire[d])
    BY <1>1 DEF IInv, TypeOK
  <2>3. Nothing \notin Packets
    BY DEF Packets, Nothing
  <2> QED BY <1>1, <2>1, <2>2, <2>3 DEF IInv, TypeOK, DeviceOK, OrderOK, Has, Took
<1>9. OvertakenByLater'
  BY <1>1 DEF IInv, OvertakenByLater
<1> QED BY <1>2, <1>3, <1>4, <1>7, <1>8, <1>9 DEF IInv

(* What is appended is what the handler held.                              *)
LEMMA StoreAppends ==
  ASSUME IInv, NEW c \in Conns, Store(c)
  PROVE  /\ held[c] \in Packets
         /\ Len(stored') = Len(stored) + 1
         /\ \A j \in 1..Len(stored) : stored'[j] = stored[j]
         /\ stored'[Len(stored) + 1] = [conn |-> c, packet |-> held[c]]
         /\ \A d \in Conns, k \in Packets : StoredBy(d, k)' <=> StoredBy(d, k) \/ (d = c /\ k = held[c])
         /\ \A k \in Packets : Stored(k)' <=> Stored(k) \/ k = held[c]
<1>1. held[c] \in Packets
  BY DEF Store, IInv, TypeOK, HeldOK
<1> DEFINE e == [conn |-> c, packet |-> held[c]]
<1>2. stored \in Seq([conn : Conns, packet : Packets]) /\ e \in [conn : Conns, packet : Packets]
  BY <1>1 DEF IInv, TypeOK
<1>3. stored' = Append(stored, e)
  BY DEF Store
<1>4. /\ Len(stored') = Len(stored) + 1
      /\ \A j \in 1..Len(stored) : stored'[j] = stored[j]
      /\ stored'[Len(stored) + 1] = e
  BY <1>2, <1>3
<1>5. Len(stored) \in Nat /\ e.conn = c /\ e.packet = held[c]
  BY <1>2
<1> HIDE DEF e
<1>6. \A d \in Conns, k \in Packets : StoredBy(d, k)' <=> StoredBy(d, k) \/ (d = c /\ k = held[c])
  BY <1>4, <1>5 DEF StoredBy
<1>7. \A k \in Packets : Stored(k)' <=> Stored(k) \/ k = held[c]
  BY <1>4, <1>5 DEF Stored
<1> QED BY <1>1, <1>4, <1>6, <1>7 DEF e

LEMMA StoreStep == ASSUME IInv, NEW c \in Conns, Store(c) PROVE IInv'
<1>s. /\ Len(stored') = Len(stored) + 1
      /\ \A j \in 1..Len(stored) : stored'[j] = stored[j]
      /\ stored'[Len(stored) + 1] = [conn |-> c, packet |-> held[c]]
  BY StoreAppends
<1>t. /\ \A d \in Conns, k \in Packets : StoredBy(d, k)' <=> StoredBy(d, k) \/ (d = c /\ k = held[c])
      /\ \A k \in Packets : Stored(k)' <=> Stored(k) \/ k = held[c]
  BY StoreAppends
<1>1. /\ held[c] # Nothing /\ held[c] \in Packets /\ held' = [held EXCEPT ![c] = Nothing]
      /\ handler[c] = "save" /\ handler' = [handler EXCEPT ![c] = "select"]
      /\ UNCHANGED <<process, starts, conn, using, waits, next, wire, back, lost>>
  BY StoreAppends DEF Store, IInv, TypeOK, HeldOK, deviceVars
<1>2. TypeOK'
  <2>1. using' \in BOOLEAN /\ waits' \in BOOLEAN
    BY <1>1, Zenon DEF IInv, TypeOK
  <2>2. stored' \in Seq([conn : Conns, packet : Packets])
    BY <1>1 DEF Store, IInv, TypeOK
  <2> QED BY <1>1, <2>1, <2>2 DEF IInv, TypeOK, Places
<1>3. DeviceOK'
  BY <1>1 DEF IInv, TypeOK, DeviceOK
<1>4. HeldOK'
  BY <1>1 DEF IInv, TypeOK, HeldOK
<1>5. \A k \in Packets : Safe(k) => Safe(k)'
  <2> SUFFICES ASSUME NEW k \in Packets, Safe(k) PROVE Safe(k)'
    OBVIOUS
  <2>1. CASE InHands(k)
    <3>1. PICK d \in Conns : held[d] = k
      BY <2>1 DEF InHands
    <3>2. d = c => Stored(k)'
      BY <3>1, StoreAppends
    <3>3. d # c => InHands(k)'
      BY <1>1, <3>1 DEF InHands, IInv, TypeOK
    <3> QED BY <3>2, <3>3 DEF Safe
  <2>2. CASE Stored(k) \/ k \in lost
    BY <1>1, <2>2, StoreAppends DEF Safe
  <2> QED BY <2>1, <2>2 DEF Safe
<1>6. SafeOK'
  <2>1. \A k \in 1..(next - 1) : k \in Packets
    BY BoundsAssumption DEF IInv, TypeOK, Packets
  <2>2. \A d \in Conns : back[d] # Nothing => next \in Packets
    BY DEF IInv, DeviceOK
  <2> QED BY <1>1, <1>5, <2>1, <2>2 DEF IInv, SafeOK
<1>7. OrderOK'
  <2>1. \A d \in Conns : held'[d] = IF d = c THEN Nothing ELSE held[d]
    BY <1>1 DEF IInv, TypeOK
  <2>2. Nothing \notin Packets
    BY DEF Packets, Nothing
  <2>3. \A d \in Conns, k \in Packets : Took(d, k)' <=> Took(d, k)
    BY <1>1, <1>t, <2>1, <2>2 DEF Took
  <2>4. \A d \in Conns, k \in Packets : Has(d, k)' <=> Has(d, k)
    BY <1>1, <2>3 DEF Has
  <2>5. \A d \in Conns, k \in Packets : StoredBy(d, k)' /\ held'[d] # Nothing => StoredBy(d, k) /\ d # c
    BY <1>t, <2>1, <2>2
  <2> QED BY <1>1, <2>1, <2>3, <2>4, <2>5 DEF IInv, OrderOK
<1>8. OvertakenByLater'
  <2> SUFFICES ASSUME NEW i \in 1..Len(stored'), NEW j \in 1..Len(stored'), i < j
               PROVE  /\ stored'[i].packet > stored'[j].packet => stored'[i].conn > stored'[j].conn
                      /\ stored'[i].packet = stored'[j].packet => stored'[i].conn # stored'[j].conn
    BY DEF OvertakenByLater
  <2>1. Len(stored) \in Nat
    BY DEF IInv, TypeOK
  <2>4. i \in 1..Len(stored)
    BY <1>s, <2>1
  <2>2. CASE j \in 1..Len(stored)
    BY <1>s, <2>4, <2>2 DEF IInv, OvertakenByLater
  <2>3. CASE j = Len(stored) + 1
    <3> DEFINE d == stored[i].conn  k == stored[i].packet
    <3>1. d \in Conns /\ k \in Packets /\ StoredBy(d, k)
      <4>1. stored[i] \in [conn : Conns, packet : Packets]
        <5>1. stored \in Seq([conn : Conns, packet : Packets])
          BY DEF IInv, TypeOK
        <5> QED BY <5>1, <2>4, ElementOfSeq
      <4>2. StoredBy(d, k)
        BY <2>4 DEF StoredBy
      <4> QED BY <4>1, <4>2
    <3>2. stored'[i].conn = d /\ stored'[i].packet = k
          /\ stored'[j].conn = c /\ stored'[j].packet = held[c]
      BY <1>s, <2>4, <2>3
    <3>3. d = c => k < held[c]
      BY <1>1, <3>1 DEF IInv, OrderOK
    <3>4. d < c => k <= held[c]
      BY <1>1, <3>1 DEF IInv, OrderOK, Has, Took
    <3> HIDE DEF d, k
    <3> QED BY <1>1, <3>1, <3>2, <3>3, <3>4 DEF Conns, Packets
  <2> QED BY <1>s, <2>1, <2>2, <2>3
<1> QED BY <1>2, <1>3, <1>4, <1>6, <1>7, <1>8 DEF IInv

(* What a failing query drops counts as lost.                              *)
LEMMA DropStep ==
  ASSUME IInv, NEW c \in Conns, LookupFails(c) \/ InsertFails(c)
  PROVE  IInv'
<1>1. /\ handler[c] = "save" /\ held[c] # Nothing /\ held[c] \in Packets
      /\ lost' = lost \cup {held[c]} /\ held' = [held EXCEPT ![c] = Nothing]
      /\ \E p \in {"gone", "select"} : handler' = [handler EXCEPT ![c] = p]
      /\ UNCHANGED <<process, starts, deviceVars, wire, back, stored>>
  BY DEF LookupFails, InsertFails, Drop, IInv, TypeOK, HeldOK
<1>2. TypeOK'
  <2>1. using' \in BOOLEAN /\ waits' \in BOOLEAN
    BY <1>1, Zenon DEF IInv, TypeOK, deviceVars
  <2> QED BY <1>1, <2>1 DEF IInv, TypeOK, Places, deviceVars
<1>3. DeviceOK'
  BY <1>1 DEF IInv, TypeOK, DeviceOK, deviceVars
<1>4. HeldOK'
  BY <1>1 DEF IInv, TypeOK, HeldOK
<1>5. \A k \in Packets : Safe(k) => Safe(k)'
  <2> SUFFICES ASSUME NEW k \in Packets, Safe(k) PROVE Safe(k)'
    OBVIOUS
  <2>1. CASE InHands(k)
    <3>1. PICK d \in Conns : held[d] = k
      BY <2>1 DEF InHands
    <3>2. d = c => k \in lost'
      BY <1>1, <3>1
    <3>3. d # c => InHands(k)'
      BY <1>1, <3>1 DEF InHands, IInv, TypeOK
    <3> QED BY <3>2, <3>3 DEF Safe
  <2>2. CASE Stored(k) \/ k \in lost
    BY <1>1, <2>2 DEF Safe, Stored
  <2> QED BY <2>1, <2>2 DEF Safe
<1>6. SafeOK'
  <2>1. \A k \in 1..(next - 1) : k \in Packets
    BY BoundsAssumption DEF IInv, TypeOK, Packets
  <2>2. \A d \in Conns : back[d] # Nothing => next \in Packets
    BY DEF IInv, DeviceOK
  <2> QED BY <1>1, <1>5, <2>1, <2>2 DEF IInv, SafeOK, deviceVars
<1>7. OrderOK' /\ OvertakenByLater'
  <2>1. \A d \in Conns : held'[d] = Nothing \/ held'[d] = held[d]
    BY <1>1 DEF IInv, TypeOK
  <2>2. \A d, k : StoredBy(d, k)' <=> StoredBy(d, k)
    BY <1>1 DEF StoredBy
  <2>3. Nothing \notin Packets
    BY DEF Packets, Nothing
  <2>4. OrderOK'
    BY <1>1, <2>1, <2>2, <2>3 DEF IInv, OrderOK, Has, Took, deviceVars
  <2>5. OvertakenByLater'
    BY <1>1 DEF IInv, OvertakenByLater
  <2> QED BY <2>4, <2>5
<1> QED BY <1>2, <1>3, <1>4, <1>6, <1>7 DEF IInv

-----------------------------------------------------------------------------
(* The end of the process loses what all handlers held.                    *)
LEMMA CrashStep == ASSUME IInv, Crash PROVE IInv'
<1>1. /\ lost' = lost \cup {held[d] : d \in {d \in Conns : handler[d] = "save"}}
      /\ held' = [d \in Conns |-> Nothing] /\ wire' = [d \in Conns |-> Nothing]
      /\ handler' = [d \in Conns |-> IF handler[d] = "none" THEN "none" ELSE "gone"]
      /\ process' = "down" /\ UNCHANGED <<starts, deviceVars, back, stored>>
  BY DEF Crash
<1>2. TypeOK'
  <2>1. using' \in BOOLEAN /\ waits' \in BOOLEAN
    BY <1>1, Zenon DEF IInv, TypeOK, deviceVars
  <2>2. lost' \subseteq Packets
    BY <1>1 DEF IInv, TypeOK, HeldOK
  <2>3. handler' \in [Conns -> Places]
    BY <1>1 DEF Places
  <2> QED BY <1>1, <2>1, <2>2, <2>3 DEF IInv, TypeOK, deviceVars
<1>3. DeviceOK'
  BY <1>1 DEF IInv, DeviceOK, deviceVars
<1>4. HeldOK'
  BY <1>1 DEF HeldOK
<1>5. \A k \in Packets : Safe(k) => Safe(k)'
  <2> SUFFICES ASSUME NEW k \in Packets, Safe(k) PROVE Safe(k)'
    OBVIOUS
  <2>1. CASE InHands(k)
    <3>1. PICK d \in Conns : held[d] = k
      BY <2>1 DEF InHands
    <3>2. handler[d] = "save"
      BY <3>1 DEF IInv, HeldOK, Packets, Nothing
    <3> QED BY <1>1, <3>1, <3>2 DEF Safe
  <2>2. CASE Stored(k) \/ k \in lost
    BY <1>1, <2>2 DEF Safe, Stored
  <2> QED BY <2>1, <2>2 DEF Safe
<1>6. SafeOK'
  <2>1. \A k \in 1..(next - 1) : k \in Packets
    BY BoundsAssumption DEF IInv, TypeOK, Packets
  <2>2. \A d \in Conns : back[d] # Nothing => next \in Packets
    BY DEF IInv, DeviceOK
  <2> QED BY <1>1, <1>5, <2>1, <2>2 DEF IInv, SafeOK, deviceVars
<1>7. OrderOK' /\ OvertakenByLater'
  <2>1. \A d, k : StoredBy(d, k)' <=> StoredBy(d, k)
    BY <1>1 DEF StoredBy
  <2>2. OrderOK'
    BY <1>1, <2>1 DEF IInv, OrderOK, Has, Took, deviceVars, Packets, Nothing
  <2>3. OvertakenByLater'
    BY <1>1 DEF IInv, OvertakenByLater
  <2> QED BY <2>2, <2>3
<1> QED BY <1>2, <1>3, <1>4, <1>6, <1>7 DEF IInv

(* A stop and a start touch only the process; so does a stutter.           *)
LEMMA ProcessStep == ASSUME IInv, Stop \/ Stopped \/ Start \/ UNCHANGED vars PROVE IInv'
<1>1. UNCHANGED <<deviceVars, handler, wire, back, held, stored, lost>>
  BY DEF Stop, Stopped, Start, vars, deviceVars
<1>2. process' \in {"up", "stopping", "down"} /\ starts' \in 0..MaxStarts
  BY BoundsAssumption DEF Stop, Stopped, Start, vars, IInv, TypeOK
<1>3. TypeOK'
  <2>1. using' \in BOOLEAN /\ waits' \in BOOLEAN
    BY <1>1, Zenon DEF IInv, TypeOK, deviceVars
  <2> QED BY <1>1, <1>2, <2>1 DEF IInv, TypeOK, deviceVars
<1>4. Quiet
  BY <1>1 DEF Quiet
<1>5. DeviceOK' /\ HeldOK'
  BY <1>1 DEF IInv, DeviceOK, HeldOK, deviceVars
<1>6. SafeOK' /\ OvertakenByLater'
  BY <1>1, <1>4, QuietSame DEF IInv, SafeOK, deviceVars
<1>7. OrderOK'
  BY <1>1, <1>4, QuietSame DEF IInv, OrderOK, Has, Took, deviceVars
<1> QED BY <1>3, <1>5, <1>6, <1>7 DEF IInv

-----------------------------------------------------------------------------
(* The inductive invariant behind the theorems below.                      *)
THEOREM Inductive == Spec => []IInv
<1>1. IInv /\ [Next]_vars => IInv'
  <2> SUFFICES ASSUME IInv, [Next]_vars PROVE IInv'
    OBVIOUS
  <2>1. ASSUME NEW c \in Conns, HandleRequest(c) PROVE IInv'
    BY <2>1, IdleStep, AnswerStep, StoreStep, DropStep DEF HandleRequest, Serve
  <2> QED BY <2>1, ConnectStep, SendStep, ReceiveStep, GiveUpStep, CrashStep, ProcessStep DEF Next
<1> QED BY <1>1, InitIInv, PTL DEF Spec

(* Types, for any number of connections, packets and restarts.             *)
THEOREM TypeCorrect == Spec => []TypeOK
BY Inductive, PTL DEF IInv

(* What the device was told is safe is stored, in the hands of a handler,  *)
(* or was lost by a failing query or the end of the process.               *)
THEOREM AckedAccountedFor == Spec => []AckedIsSafe
<1>1. IInv => AckedIsSafe
  BY DEF IInv, SafeOK, Safe, AckedIsSafe
<1> QED BY <1>1, Inductive, PTL

(* One connection stores each packet once and in their order, and is       *)
(* overtaken only by later ones.                                           *)
THEOREM OrderPerConnection == Spec => []OvertakenByLater
BY Inductive, PTL DEF IInv

(* The gateway implements Delivery: an answer is preceded by a Take, what  *)
(* is stored was held, and what is held and not stored is lost.            *)
THEOREM Implements == Spec => Delivers
<1>1. Init => Promise!Init
  BY DEF Init, Promise!Init, Nothing, Promise!Nothing
<1>2. IInv /\ [Next]_vars => [Promise!Next]_(Promise!vars)
  <2> SUFFICES ASSUME IInv, [Next]_vars PROVE [Promise!Next]_(Promise!vars)
    OBVIOUS
  <2> USE DEF Nothing, Promise!Nothing
  <2>1. CASE Receive
    <3>1. next \in Packets /\ Safe(next)
      BY <2>1 DEF Receive, IInv, SafeOK, DeviceOK
    <3>2. Promise!Acknowledge
      BY <2>1, <3>1 DEF Receive, Promise!Acknowledge, Safe, Stored, InHands, Promise!Stored, Promise!InHands
    <3> QED BY <3>2 DEF Promise!Next
  <2>2. ASSUME NEW c \in Conns, HandleRequest(c)
        PROVE  [Promise!Next]_(Promise!vars)
    <3>1. CASE Answer(c)
      <4>1. wire[c] \in Packets /\ wire[c] <= next /\ held[c] = Nothing
        BY <3>1 DEF Answer, IInv, TypeOK, HeldOK, OrderOK, Has
      <4>2. Promise!Take(c)
        BY <3>1, <4>1 DEF Answer, deviceVars, Promise!Take
      <4> QED BY <4>2 DEF Promise!Next
    <3>2. CASE Store(c)
      <4>1. Promise!Store(c)
        BY <3>2 DEF Store, deviceVars, Promise!Store, IInv, HeldOK
      <4> QED BY <4>1 DEF Promise!Next
    <3>3. CASE LookupFails(c) \/ InsertFails(c)
      <4>1. /\ held[c] # Nothing /\ UNCHANGED <<next, stored>>
            /\ lost' = lost \cup {held[c]} /\ held' = [held EXCEPT ![c] = Nothing]
        BY <3>3 DEF LookupFails, InsertFails, Drop, deviceVars, IInv, HeldOK
      <4>2. {held[d] : d \in {d \in {c} : held[d] # Nothing}} = {held[c]}
        BY <4>1
      <4>3. held' = [d \in Conns |-> IF d \in {c} THEN Nothing ELSE held[d]]
        BY <4>1 DEF IInv, TypeOK
      <4>4. Promise!Lose({c})
        BY <4>1, <4>2, <4>3 DEF Promise!Lose
      <4> QED BY <4>4 DEF Promise!Next
    <3>4. CASE Select(c) \/ ReadTimeout(c) \/ ReadEnds(c)
      BY <3>4 DEF Select, ReadTimeout, ReadEnds, deviceVars, Promise!vars
    <3> QED BY <2>2, <3>1, <3>2, <3>3, <3>4 DEF HandleRequest, Serve
  <2>3. CASE Crash
    <3>1. {d \in Conns : held[d] # Nothing} = {d \in Conns : handler[d] = "save"}
      BY DEF IInv, HeldOK
    <3>2. held' = [d \in Conns |-> IF d \in Conns THEN Nothing ELSE held[d]]
      BY <2>3 DEF Crash
    <3>3. Promise!Lose(Conns)
      BY <2>3, <3>1, <3>2 DEF Crash, deviceVars, Promise!Lose
    <3> QED BY <3>3 DEF Promise!Next
  <2>4. CASE Connect \/ Send \/ GiveUp \/ Stop \/ Stopped \/ Start \/ UNCHANGED vars
    BY <2>4 DEF Connect, Send, GiveUp, Stop, Stopped, Start, vars, deviceVars, Promise!vars
  <2> QED BY <2>1, <2>2, <2>3, <2>4 DEF Next
<1> QED BY <1>1, <1>2, Inductive, PTL DEF Spec, Delivers, Promise!Spec
=============================================================================
