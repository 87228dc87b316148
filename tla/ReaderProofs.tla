---------------------------- MODULE ReaderProofs ----------------------------
(***************************************************************************)
(* What holds of Reader for every length of the first buffer, all lengths  *)
(* of messages and every bound: its types, that the buffer is as long as   *)
(* what it gathers requires, that it cuts no message, and what is left of  *)
(* one that is never handled.  The inductive invariant is IInv.            *)
(***************************************************************************)
EXTENDS Reader, TLAPS

(* The three positions in the stream, and the ends of the messages in it.  *)
StreamOK ==
  /\ handled <= taken /\ taken <= arrived /\ arrived <= sent
  /\ sent \in ends
  /\ whole = TRUE => arrived = sent

(* Between two messages nothing is left in buf, and while one is gathered  *)
(* the buffer is as long as all of it so far and one first buffer more.    *)
BufferOK ==
  /\ pc = "outer" => taken = handled
  /\ pc \in {"inner", "read"} => room = Size + (taken - handled)
  /\ pc = "closed" => taken = handled \/ room = Size + (taken - handled)

(* The length of the buffer is Size, or one that doubling makes of it.     *)
RoomOK == sent <= MaxBytes /\ room \in Doubled

(* As long as messages arrive whole, handle is passed whole ones.          *)
EndsOK ==
  /\ whole = TRUE => handled \in ends
  /\ whole = TRUE /\ pc = "handle" => taken \in ends

IInv == TypeOK /\ StreamOK /\ BufferOK /\ EndsOK /\ RoomOK

-----------------------------------------------------------------------------
(* Size is doubled no times, and a doubled length can be doubled again, as *)
(* long as it stays within the bound.                                      *)
LEMMA DoubledIsClosed ==
  /\ Size \in Doubled
  /\ \A n \in Doubled : 2 * n <= Size + MaxBytes => 2 * n \in Doubled
<1>1. Size \in Sizes
  BY ReaderAssumption DEF Sizes
<1>2. ASSUME NEW n \in Doubled, 2 * n <= Size + MaxBytes PROVE 2 * n \in Sizes
  BY <1>2, ReaderAssumption DEF Doubled, Sizes
<1> QED BY <1>1, <1>2 DEF Doubled, Doubling

LEMMA InitIInv == Init => IInv
<1> SUFFICES ASSUME Init PROVE IInv
  OBVIOUS
<1>1. TypeOK
  <2>1. whole \in BOOLEAN /\ stopped \in BOOLEAN
    BY Zenon DEF Init
  <2> QED BY <2>1, ReaderAssumption DEF Init, TypeOK
<1>2. StreamOK /\ BufferOK /\ EndsOK
  BY ReaderAssumption DEF Init, StreamOK, BufferOK, EndsOK
<1>3. RoomOK
  BY ReaderAssumption, DoubledIsClosed DEF Init, RoomOK
<1> QED BY <1>1, <1>2, <1>3 DEF IInv

(* The device and TCP move only the stream, and never back.                *)
LEMMA StreamStep ==
  ASSUME IInv, (\E n \in Lengths : \E part \in 1..n : Send(n, part)) \/ RestArrives \/ HangUp \/ Reset \/ Stop
  PROVE  IInv'
<1>1. ASSUME NEW n \in Lengths, NEW part \in 1..n, Send(n, part)
      PROVE  IInv'
  <2>1. n \in Nat /\ part \in Nat /\ 1 <= part /\ part <= n
    BY ReaderAssumption
  <2>2. TypeOK'
    BY <1>1, <2>1 DEF Send, IInv, TypeOK
  <2>3. StreamOK'
    <3>1. whole' = TRUE => part = n
      BY <1>1 DEF Send
    <3>2. sent' = sent + n /\ arrived' = sent + part /\ ends' = ends \cup {sent + n}
          /\ arrived = sent /\ UNCHANGED <<taken, handled>>
      BY <1>1 DEF Send
    <3> QED BY <3>1, <3>2, <2>1 DEF IInv, TypeOK, StreamOK
  <2>4. BufferOK' /\ EndsOK' /\ RoomOK'
    BY <1>1 DEF Send, IInv, BufferOK, EndsOK, RoomOK
  <2> QED BY <2>2, <2>3, <2>4 DEF IInv
<1>2. CASE RestArrives
  BY <1>2 DEF RestArrives, IInv, TypeOK, StreamOK, BufferOK, EndsOK, RoomOK
<1>3. CASE HangUp \/ Reset
  BY <1>3 DEF HangUp, Reset, streamVars, IInv, TypeOK, StreamOK, BufferOK, EndsOK, RoomOK
<1>4. CASE Stop
  BY <1>4 DEF Stop, streamVars, IInv, TypeOK, StreamOK, BufferOK, EndsOK, RoomOK
<1> QED BY <1>1, <1>2, <1>3, <1>4

(* The handler: a read that fills the buffer doubles it, which is as much  *)
(* more as it has brought; one that does not has read all that was sent.   *)
LEMMA HandlerStep == ASSUME IInv, HandleRequest PROVE IInv'
<1> USE ReaderAssumption, DoubledIsClosed DEF IInv, TypeOK, StreamOK, BufferOK, EndsOK, RoomOK, streamVars
<1>1. CASE Outer
  BY <1>1 DEF Outer
<1>2. CASE Inner
  BY <1>2 DEF Inner
<1>3. CASE ReadFills
  BY <1>3 DEF ReadFills
<1>4. CASE ReadAll
  BY <1>4 DEF ReadAll
<1>5. CASE Timeout
  BY <1>5 DEF Timeout
<1>6. CASE ReadEnds
  BY <1>6 DEF ReadEnds
<1>7. CASE Handle
  BY <1>7 DEF Handle
<1> QED BY <1>1, <1>2, <1>3, <1>4, <1>5, <1>6, <1>7 DEF HandleRequest

(* The invariant is inductive.                                             *)
THEOREM Inductive == Spec => []IInv
<1>1. IInv /\ [Next]_vars => IInv'
  <2> SUFFICES ASSUME IInv, [Next]_vars PROVE IInv'
    OBVIOUS
  <2>1. CASE UNCHANGED vars
    BY <2>1 DEF vars, streamVars, IInv, TypeOK, StreamOK, BufferOK, EndsOK, RoomOK
  <2> QED BY <2>1, StreamStep, HandlerStep DEF Next
<1> QED BY InitIInv, <1>1, PTL DEF Spec

(* Types; the counter of timeouts never passes MaxIdle.                    *)
THEOREM TypeCorrect == Spec => []TypeOK
BY Inductive, PTL DEF IInv

(* The buffer is as much longer than the first as there are bytes waiting  *)
(* in buf: its doubling takes no more memory than the device has sent.     *)
THEOREM RoomMatches == Spec => []RoomFits
<1>1. IInv => RoomFits
  BY DEF IInv, BufferOK, StreamOK, RoomFits
<1> QED BY <1>1, Inductive, PTL

(* Whatever the lengths of buffer and messages, the buffer cuts none.      *)
THEOREM WholeMessages == Spec => []Boundary
<1>1. IInv => Boundary
  BY DEF IInv, EndsOK, Boundary
<1> QED BY <1>1, Inductive, PTL

(* What a closing connection throws away is one Size less than a length    *)
(* that doubling makes: nothing, unless every read filled its buffer.      *)
THEOREM LeftoverExact == Spec => []LeftoverIsExact
<1>1. IInv => LeftoverIsExact
  BY DEF IInv, BufferOK, RoomOK, StreamOK, TypeOK, LeftoverIsExact
<1> QED BY <1>1, Inductive, PTL
=============================================================================
