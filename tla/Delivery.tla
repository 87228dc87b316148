------------------------------ MODULE Delivery ------------------------------
(***************************************************************************)
(* What the gateway promises about the packets of one device, whatever     *)
(* happens to the process, the databases and the connections.              *)
(*                                                                         *)
(* The device numbers its packets and has been acknowledged those before   *)
(* next.  A packet is acknowledged only once it was in the hands of a      *)
(* handler, one packet per connection, and from there it is either stored, *)
(* once, or lost.  It is thus no promise that all is stored, but one of    *)
(* how much can be lost: one packet per connection and mishap.             *)
(***************************************************************************)
EXTENDS Naturals, Sequences

CONSTANTS Conns, Packets   \* the connections of the device; its packets, 1, 2, ...

VARIABLES next, held, stored, lost

vars == <<next, held, stored, lost>>

Nothing == 0

Init ==
  /\ next = 1
  /\ held = [c \in Conns |-> Nothing]
  /\ stored = <<>>
  /\ lost = {}

(* A packet that the device still has reaches a handler.  It may be one    *)
(* that another connection has brought too.                                *)
Take(c) ==
  /\ held[c] = Nothing
  /\ \E k \in Packets : k <= next /\ held' = [held EXCEPT ![c] = k]
  /\ UNCHANGED <<next, stored, lost>>

Store(c) ==
  /\ held[c] # Nothing
  /\ stored' = Append(stored, [conn |-> c, packet |-> held[c]])
  /\ held' = [held EXCEPT ![c] = Nothing]
  /\ UNCHANGED <<next, lost>>

(* The end of the process loses what all the handlers hold.                *)
Lose(C) ==
  /\ lost' = lost \cup {held[c] : c \in {c \in C : held[c] # Nothing}}
  /\ held' = [c \in Conns |-> IF c \in C THEN Nothing ELSE held[c]]
  /\ UNCHANGED <<next, stored>>

InHands(k) == \E c \in Conns : held[c] = k
Stored(k) == \E j \in 1..Len(stored) : stored[j].packet = k

Acknowledge ==
  /\ next \in Packets
  /\ InHands(next) \/ Stored(next) \/ next \in lost
  /\ next' = next + 1
  /\ UNCHANGED <<held, stored, lost>>

Next ==
  \/ Acknowledge
  \/ \E c \in Conns : Take(c) \/ Store(c)
  \/ \E C \in SUBSET Conns : Lose(C)

Spec == Init /\ [][Next]_vars
=============================================================================
