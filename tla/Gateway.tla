------------------------------ MODULE Gateway ------------------------------
(***************************************************************************)
(* One device, its connections and the process, over crashes and restarts. *)
(*                                                                         *)
(* A handler answers the device before it looks the unit up and inserts    *)
(* the records (server.go:216-241), and nothing is kept on disk: whatever  *)
(* a handler holds when its queries fail or the process ends is gone, and  *)
(* the device may have been told that it is safe.                          *)
(*                                                                         *)
(* The device sends one packet at a time and waits for the answer; when    *)
(* none comes it opens another connection, while the handler of the old    *)
(* one goes on with what it has read.  Packets are taken here for whole    *)
(* messages and for all or none of their records; what TCP and the         *)
(* decoders make of them is in Link, the records one by one in Server.     *)
(***************************************************************************)
EXTENDS Naturals, Sequences

CONSTANTS
  MaxConns,     \* bound: the connections the device opens
  MaxPacket,    \* bound: the packets it has to deliver
  MaxStarts     \* bound: how often the process is started again

ASSUME BoundsAssumption == MaxConns \in Nat /\ MaxPacket \in Nat /\ MaxStarts \in Nat

VARIABLES
  process,  \* "up", "stopping" once Stop has closed the databases, "down"
  starts,   \* how often it was started again
  conn,     \* the device's last connection, 0 before the first
  using,    \* does the device still use it?
  waits,    \* has it sent a packet on it, and no answer yet?
  next,     \* the packet to deliver; those before it are acknowledged
  handler,  \* where HandleRequest is, per connection
  wire,     \* the packet sent and not read yet, per connection
  back,     \* the answer on its way to the device, per connection
  held,     \* the packet that is answered and being saved, per connection
  stored,   \* what was inserted, in this order, and over which connection
  lost      \* the packets that some handler held and did not store

deviceVars == <<conn, using, waits, next>>
vars == <<process, starts, conn, using, waits, next, handler, wire, back, held, stored, lost>>

Conns == 1..MaxConns
Packets == 1..MaxPacket
Nothing == 0

(* "none": not accepted; "gone": returned, and the connection closed.      *)
Places == {"none", "select", "read", "save", "gone"}

Init ==
  /\ process = "up" /\ starts = 0
  /\ conn = 0 /\ using = FALSE /\ waits = FALSE /\ next = 1
  /\ handler = [c \in Conns |-> "none"]
  /\ wire = [c \in Conns |-> Nothing]
  /\ back = [c \in Conns |-> Nothing]
  /\ held = [c \in Conns |-> Nothing]
  /\ stored = <<>> /\ lost = {}

-----------------------------------------------------------------------------
(* The device *)

(* It is accepted by Serve, which may take a last one after Stop's close.  *)
Connect ==
  /\ ~using /\ conn < MaxConns /\ next \in Packets
  /\ process # "down"
  /\ conn' = conn + 1 /\ using' = TRUE
  /\ handler' = [handler EXCEPT ![conn + 1] = "select"]
  /\ UNCHANGED <<process, starts, waits, next, wire, back, held, stored, lost>>

Send ==
  /\ using /\ ~waits /\ next \in Packets
  /\ wire' = [wire EXCEPT ![conn] = next]
  /\ waits' = TRUE
  /\ UNCHANGED <<process, starts, conn, using, next, handler, back, held, stored, lost>>

Receive ==
  /\ waits /\ back[conn] # Nothing
  /\ back' = [back EXCEPT ![conn] = Nothing]
  /\ waits' = FALSE /\ next' = next + 1
  /\ UNCHANGED <<process, starts, conn, using, handler, wire, held, stored, lost>>

(* It may stop waiting at any time.  What it has sent may still be read;   *)
(* the answer to that is lost.                                             *)
GiveUp ==
  /\ waits
  /\ using' = FALSE /\ waits' = FALSE
  /\ back' = [back EXCEPT ![conn] = Nothing]
  /\ UNCHANGED <<process, starts, conn, next, handler, wire, held, stored, lost>>

(* It does when the other side has closed the connection and no answer is  *)
(* on its way.                                                             *)
Refused == GiveUp /\ handler[conn] = "gone" /\ back[conn] = Nothing

-----------------------------------------------------------------------------
(* HandleRequest, for the connection c *)

(* The look at the channel that Stop closes.                               *)
Select(c) ==
  /\ handler[c] = "select"
  /\ handler' = [handler EXCEPT ![c] = IF process = "up" THEN "read" ELSE "gone"]
  /\ UNCHANGED <<process, starts, deviceVars, wire, back, held, stored, lost>>

ReadTimeout(c) ==
  /\ handler[c] = "read" /\ wire[c] = Nothing
  /\ handler' = [handler EXCEPT ![c] = "select"]
  /\ UNCHANGED <<process, starts, deviceVars, wire, back, held, stored, lost>>

(* The device has closed the connection, perhaps with what it had sent     *)
(* still on its way, or was silent for 305 seconds.                        *)
ReadEnds(c) ==
  /\ handler[c] = "read" /\ ~(c = conn /\ waits)
  /\ handler' = [handler EXCEPT ![c] = "gone"]
  /\ wire' = [wire EXCEPT ![c] = Nothing]
  /\ UNCHANGED <<process, starts, deviceVars, back, held, stored, lost>>

(* handle, which sends the answer; it fails unnoticed if nobody reads it.  *)
AnswerForgets(c) ==
  /\ handler[c] = "read" /\ wire[c] # Nothing
  /\ handler' = [handler EXCEPT ![c] = "select"]
  /\ wire' = [wire EXCEPT ![c] = Nothing]
  /\ back' = [back EXCEPT ![c] = IF c = conn /\ using THEN wire[c] ELSE Nothing]
  /\ held' = [held EXCEPT ![c] = wire[c]]
  /\ UNCHANGED <<process, starts, deviceVars, stored, lost>>
AnswerWhileSaving(c) ==
  /\ handler[c] \in {"read", "save"} /\ wire[c] # Nothing
  /\ handler' = [handler EXCEPT ![c] = "save"]
  /\ wire' = [wire EXCEPT ![c] = Nothing]
  /\ back' = [back EXCEPT ![c] = IF c = conn /\ using THEN wire[c] ELSE Nothing]
  /\ held' = [held EXCEPT ![c] = wire[c]]
  /\ UNCHANGED <<process, starts, deviceVars, stored, lost>>
Answer(c) ==
  /\ handler[c] = "read" /\ wire[c] # Nothing
  /\ handler' = [handler EXCEPT ![c] = "save"]
  /\ wire' = [wire EXCEPT ![c] = Nothing]
  /\ back' = [back EXCEPT ![c] = IF c = conn /\ using THEN wire[c] ELSE Nothing]
  /\ held' = [held EXCEPT ![c] = wire[c]]
  /\ UNCHANGED <<process, starts, deviceVars, stored, lost>>

StoreRetries(c) ==
  /\ handler[c] = "save" /\ process = "up"
  /\ stored' = Append(stored, [conn |-> c, packet |-> held[c]])
  /\ \/ /\ held' = [held EXCEPT ![c] = Nothing]
        /\ handler' = [handler EXCEPT ![c] = "select"]
     \/ UNCHANGED <<held, handler>>
  /\ UNCHANGED <<process, starts, deviceVars, wire, back, lost>>
Store(c) ==
  /\ handler[c] = "save" /\ process = "up"
  /\ stored' = Append(stored, [conn |-> c, packet |-> held[c]])
  /\ held' = [held EXCEPT ![c] = Nothing]
  /\ handler' = [handler EXCEPT ![c] = "select"]
  /\ UNCHANGED <<process, starts, deviceVars, wire, back, lost>>

(* A query may fail at any time, and does once Stop has closed the         *)
(* databases.  The lookup's error ends the session, the insertion's is     *)
(* ignored.                                                                *)
Drop(c, place) ==
  /\ handler[c] = "save"
  /\ lost' = lost \cup {held[c]}
  /\ held' = [held EXCEPT ![c] = Nothing]
  /\ handler' = [handler EXCEPT ![c] = place]
  /\ UNCHANGED <<process, starts, deviceVars, wire, back, stored>>

LookupFailsNoClose(c) == Drop(c, "none")
LookupFails(c) == Drop(c, "gone")
InsertFails(c) == Drop(c, "select")

Serve(c) == Select(c) \/ Answer(c) \/ Store(c) \/ LookupFails(c) \/ InsertFails(c)
HandleRequest(c) == Serve(c) \/ ReadTimeout(c) \/ ReadEnds(c)

-----------------------------------------------------------------------------
(* The process *)

(* A panic in any goroutine, or a kill: every connection is closed.  An    *)
(* answer that was sent may still reach the device.                        *)
Crash ==
  /\ process # "down"
  /\ process' = "down"
  /\ lost' = lost \cup {held[c] : c \in {c \in Conns : handler[c] = "save"}}
  /\ held' = [c \in Conns |-> Nothing]
  /\ wire' = [c \in Conns |-> Nothing]
  /\ handler' = [c \in Conns |-> IF handler[c] = "none" THEN "none" ELSE "gone"]
  /\ UNCHANGED <<starts, deviceVars, back, stored>>

(* Stop closes the databases, then the channel ...                         *)
Stop ==
  /\ process = "up"
  /\ process' = "stopping"
  /\ UNCHANGED <<starts, deviceVars, handler, wire, back, held, stored, lost>>

(* ... and returns when the last handler has.                              *)
Stopped ==
  /\ process = "stopping"
  /\ \A c \in Conns : handler[c] \in {"none", "gone"}
  /\ process' = "down"
  /\ UNCHANGED <<starts, deviceVars, handler, wire, back, held, stored, lost>>

(* Somebody starts it again: every session begins anew.                    *)
Start ==
  /\ process = "down" /\ starts < MaxStarts
  /\ process' = "up" /\ starts' = starts + 1
  /\ UNCHANGED <<deviceVars, handler, wire, back, held, stored, lost>>

Next ==
  \/ Connect \/ Send \/ Receive \/ GiveUp
  \/ \E c \in Conns : HandleRequest(c)
  \/ Crash \/ Stop \/ Stopped \/ Start

(* Handlers go on, reads end at their deadline, the device reads what it   *)
(* is sent and notices a connection that is closed.  That it gives up or   *)
(* connects, and all that befalls the process, may never happen.           *)
Fairness ==
  /\ \A c \in Conns : WF_vars(Serve(c)) /\ WF_vars(HandleRequest(c))
  /\ WF_vars(Receive) /\ WF_vars(Refused) /\ WF_vars(Stopped)

Spec == Init /\ [][Next]_vars /\ Fairness

-----------------------------------------------------------------------------
(* Properties *)

TypeOK ==
  /\ process \in {"up", "stopping", "down"} /\ starts \in 0..MaxStarts
  /\ conn \in 0..MaxConns /\ using \in BOOLEAN /\ waits \in BOOLEAN
  /\ next \in 1..(MaxPacket + 1)
  /\ handler \in [Conns -> Places]
  /\ wire \in [Conns -> Packets \cup {Nothing}]
  /\ back \in [Conns -> Packets \cup {Nothing}]
  /\ held \in [Conns -> Packets \cup {Nothing}]
  /\ stored \in Seq([conn : Conns, packet : Packets])
  /\ lost \subseteq Packets

Stored(k) == \E j \in 1..Len(stored) : stored[j].packet = k
InHands(k) == \E c \in Conns : held[c] = k

(* A packet that the device believes to be safe, and will never send       *)
(* again, is stored, or a handler that still runs holds it, or it was lost *)
(* by one of the mishaps above: there is no other way to lose it.          *)
AckedIsSafe == \A k \in 1..(next - 1) : Stored(k) \/ InHands(k) \/ k \in lost

(* Packets are stored twice, or before one with a smaller number, only by  *)
(* a device that has changed connections in between: one connection stores *)
(* each once and in their order, and an old one only lags behind.          *)
OvertakenByLater ==
  \A i, j \in 1..Len(stored) :
    i < j =>
      /\ stored[i].packet > stored[j].packet => stored[i].conn > stored[j].conn
      /\ stored[i].packet = stored[j].packet => stored[i].conn # stored[j].conn

(* The process keeps the promise of Delivery, over crashes and restarts.   *)
Promise == INSTANCE Delivery
Delivers == Promise!Spec

(* What is acknowledged does not stay in the hands of a handler: it is     *)
(* stored or lost in the end.                                              *)
AckedIsSettled == \A k \in Packets : k < next ~> Stored(k) \/ k \in lost

(* The device is not left waiting: it gets an answer, or sees its          *)
(* connection closed, through a stop and a crash too.                      *)
NeverLeftWaiting == waits ~> ~waits
=============================================================================
