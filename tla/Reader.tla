------------------------------- MODULE Reader -------------------------------
(***************************************************************************)
(* How HandleRequest gathers what it passes to a protocol's handle         *)
(* (server.go:160-214).  It reads into a buffer of Size bytes; if a read   *)
(* fills the whole buffer there may be more, and it reads on into one      *)
(* twice as long, until a read leaves some room.                           *)
(*                                                                         *)
(* Bytes are counted, not stored: what has arrived, what was read and what *)
(* was handled are three positions in one stream.  A message arrives in    *)
(* whole or in two parts, as TCP likes.                                    *)
(***************************************************************************)
EXTENDS Integers

CONSTANTS
  Size,       \* the length of the first buffer, 2048
  MaxIdle,    \* the timeouts in a row that are forgiven, 60
  Lengths,    \* the lengths of the messages the device may send
  MaxBytes    \* bound: the bytes it sends in all

ASSUME ReaderAssumption ==
  /\ Size \in Nat \ {0} /\ MaxIdle \in Nat /\ MaxBytes \in Nat
  /\ Lengths \subseteq Nat \ {0}

VARIABLES
  sent,     \* the end of the last message the device has sent
  arrived,  \* the bytes that can be read: of the last message a part may be missing
  ends,     \* the ends of the messages sent so far, and the start of the first
  whole,    \* has every message arrived at once?
  taken,    \* the bytes read
  handled,  \* those passed to handle
  room,     \* len(readbuff)
  i,        \* the timeouts in a row
  conn,     \* the connection: "open", "ended" by the device, "reset"
  stopped,  \* has Stop closed the channel?
  pc        \* "outer", "inner": the two selects; "read", "handle", "closed"

streamVars == <<sent, arrived, ends, whole>>
vars == <<sent, arrived, ends, whole, taken, handled, room, i, conn, stopped, pc>>

Init ==
  /\ sent = 0 /\ arrived = 0 /\ ends = {0} /\ whole = TRUE
  /\ taken = 0 /\ handled = 0 /\ room = Size /\ i = 0
  /\ conn = "open" /\ stopped = FALSE /\ pc = "outer"

-----------------------------------------------------------------------------
(* The device and TCP *)

Send(n, part) ==
  /\ conn = "open" /\ arrived = sent /\ sent + n <= MaxBytes
  /\ sent' = sent + n /\ ends' = ends \cup {sent + n}
  /\ arrived' = sent + part
  /\ whole' = (whole /\ part = n)
  /\ UNCHANGED <<taken, handled, room, i, conn, stopped, pc>>

RestArrives ==
  /\ conn = "open" /\ arrived < sent
  /\ arrived' = sent
  /\ UNCHANGED <<sent, ends, whole, taken, handled, room, i, conn, stopped, pc>>

HangUp ==
  /\ conn = "open" /\ arrived = sent
  /\ conn' = "ended"
  /\ UNCHANGED <<streamVars, taken, handled, room, i, stopped, pc>>

(* What is on its way then never arrives, and what has arrived may be read *)
(* or not.                                                                 *)
Reset ==
  /\ conn = "open"
  /\ conn' = "reset"
  /\ UNCHANGED <<streamVars, taken, handled, room, i, stopped, pc>>

Stop ==
  /\ ~stopped
  /\ stopped' = TRUE
  /\ UNCHANGED <<streamVars, taken, handled, room, i, conn, pc>>

-----------------------------------------------------------------------------
(* HandleRequest *)

(* A new message: a new buffer.                                            *)
Outer ==
  /\ pc = "outer"
  /\ pc' = IF stopped THEN "closed" ELSE "inner"
  /\ room' = IF stopped THEN room ELSE Size
  /\ UNCHANGED <<streamVars, taken, handled, i, conn, stopped>>

Inner ==
  /\ pc = "inner"
  /\ pc' = IF stopped THEN "closed" ELSE "read"
  /\ UNCHANGED <<streamVars, taken, handled, room, i, conn, stopped>>

(* conn.Read returns what there is, as far as there is room for it.  A     *)
(* read that fills the buffer is not taken for the end of the message.     *)
ReadFillsKeepsRoom ==
  /\ pc = "read" /\ arrived - taken >= room
  /\ taken' = taken + room
  /\ i' = 0 /\ pc' = "inner"
  /\ UNCHANGED <<streamVars, handled, room, conn, stopped>>
ReadFillsHandles ==
  /\ pc = "read" /\ arrived - taken >= room
  /\ taken' = taken + room
  /\ i' = 0 /\ pc' = "handle"
  /\ UNCHANGED <<streamVars, handled, room, conn, stopped>>
ReadFills ==
  /\ pc = "read" /\ arrived - taken >= room
  /\ taken' = taken + room
  /\ room' = 2 * room
  /\ i' = 0 /\ pc' = "inner"
  /\ UNCHANGED <<streamVars, handled, conn, stopped>>

ReadAll ==
  /\ pc = "read" /\ 0 < arrived - taken /\ arrived - taken < room
  /\ taken' = arrived
  /\ i' = 0 /\ pc' = "handle"
  /\ UNCHANGED <<streamVars, handled, room, conn, stopped>>

(* Whatever was read and not handled is gone with the handler.             *)
TimeoutForgets ==
  /\ pc = "read" /\ taken = arrived /\ conn = "open"
  /\ pc' = "inner" /\ UNCHANGED i
  /\ UNCHANGED <<streamVars, taken, handled, room, conn, stopped>>
Timeout ==
  /\ pc = "read" /\ taken = arrived /\ conn = "open"
  /\ IF i >= MaxIdle THEN pc' = "closed" /\ UNCHANGED i
                     ELSE pc' = "inner" /\ i' = i + 1
  /\ UNCHANGED <<streamVars, taken, handled, room, conn, stopped>>

(* EOF comes after all bytes, the error of a reset at any time.            *)
ReadEnds ==
  /\ pc = "read"
  /\ (conn = "ended" /\ taken = arrived) \/ conn = "reset"
  /\ pc' = "closed"
  /\ UNCHANGED <<streamVars, taken, handled, room, i, conn, stopped>>

(* handle, the lookup and SaveRecords; an unregistered imei ends it.       *)
Handle ==
  /\ pc = "handle"
  /\ handled' = taken
  /\ pc' \in {"outer", "closed"}
  /\ UNCHANGED <<streamVars, taken, room, i, conn, stopped>>

HandleRequest == Outer \/ Inner \/ ReadFills \/ ReadAll \/ Timeout \/ ReadEnds \/ Handle

Next ==
  \/ \E n \in Lengths : \E part \in 1..n : Send(n, part)
  \/ RestArrives \/ HangUp \/ Reset \/ Stop
  \/ HandleRequest

(* The handler goes on, and a read ends at its deadline.                   *)
Spec == Init /\ [][Next]_vars /\ WF_vars(HandleRequest)

-----------------------------------------------------------------------------
(* Properties *)

TypeOK ==
  /\ sent \in Nat /\ arrived \in Nat /\ ends \subseteq Nat /\ whole \in BOOLEAN
  /\ taken \in Nat /\ handled \in Nat /\ room \in Nat /\ i \in 0..MaxIdle
  /\ conn \in {"open", "ended", "reset"} /\ stopped \in BOOLEAN
  /\ pc \in {"outer", "inner", "read", "handle", "closed"}

(* Whatever the length of the messages, and if it is that of the buffer or *)
(* twice it: as long as TCP delivers them whole, handle gets whole ones.   *)
(* The buffer cuts none.                                                   *)
Boundary == whole /\ pc = "handle" => taken \in ends /\ handled \in ends

(* While a message is gathered the buffer is as much longer than the first *)
(* one as there are bytes waiting in buf: memory grows with what a device  *)
(* sends and no faster, and reads no more than that again.                 *)
RoomFits ==
  pc \in {"inner", "read"} => room = Size + (taken - handled) /\ taken <= arrived

(* The lengths that doubling makes of Size: those in every set that has    *)
(* Size, and with a length its double.                                     *)
Sizes == Size..(Size + MaxBytes)
Doubling == {D \in SUBSET Sizes : Size \in D /\ \A n \in D : 2 * n \in Sizes => 2 * n \in D}
Doubled == {n \in Sizes : \A D \in Doubling : n \in D}

(* A connection that ends, idle, reset or told to stop, throws nothing     *)
(* away that was read, unless reads have filled their buffers to the last  *)
(* byte: then it is Size, 3 * Size, 7 * Size ... bytes, one Size less than *)
(* a length that doubling makes, and they were never answered.             *)
LeftoverIsExact ==
  pc = "closed" /\ handled < taken => Size + (taken - handled) \in Doubled

(* What has arrived is handled, or the session ends.                       *)
EveryByteHandled == \A n \in 1..MaxBytes : arrived >= n ~> handled >= n \/ pc = "closed"
=============================================================================
