---------------------------- MODULE ServerProofs ----------------------------
(***************************************************************************)
(* What holds of Server for every set of connections, devices and units    *)
(* and every bound: its types, that the WaitGroup counts the goroutines,   *)
(* that Stop drains the server, and the safety part of its refinement of   *)
(* Drain.  The inductive invariant is IInv.                                *)
(***************************************************************************)
EXTENDS Server, FiniteSetTheorems, SequenceTheorems, TLAPS

(* What a handler knows at its program points: it is saving the records of *)
(* a message it has read, and only after a lookup that found an id.        *)
SavingOK ==
  \A c \in Conns :
    /\ pc[c] \in Saving \cup {"handle", "spin"} => msgs[c] \in 1..MaxMsgs
    /\ pc[c] \in {"insert", "publish"} => todo[c] # <<>> /\ id[c] \in Ids

(* Serve closes the listener before it returns, and returns only after     *)
(* Stop has closed the channel; Stop returns at zero.                      *)
StopOK ==
  /\ ch = "closed" => stop \in {"wait", "returned"}
  /\ serve \in {"return", "done"} => listener = "closed" /\ ch = "closed"
  /\ stop = "returned" => wg = 0

IInv == TypeOK /\ WaitGroupCounts /\ SavingOK /\ StopOK

-----------------------------------------------------------------------------
(* Handlers is a finite set of connections.                                *)
LEMMA HandlersFinite == IsFiniteSet(Handlers) /\ Cardinality(Handlers) \in Nat
BY ServerAssumption, FS_Subset, FS_CardinalityType DEF Handlers

(* How a step of one goroutine changes the number of live handlers.        *)
LEMMA GotoCounts ==
  ASSUME NEW c \in Conns, NEW l, pc \in [Conns -> Points], Goto(c, l)
  PROVE  /\ pc[c] \in Live /\ l \in Live => Handlers' = Handlers
         /\ pc[c] \notin Live /\ l \notin Live => Handlers' = Handlers
         /\ pc[c] \notin Live /\ l \in Live =>
              /\ Handlers' = Handlers \cup {c} /\ c \notin Handlers
              /\ Cardinality(Handlers)' = Cardinality(Handlers) + 1
         /\ pc[c] \in Live /\ l \notin Live =>
              /\ Handlers' = Handlers \ {c} /\ c \in Handlers
              /\ Cardinality(Handlers)' = Cardinality(Handlers) - 1
<1>1. \A d \in Conns : pc'[d] = IF d = c THEN l ELSE pc[d]
  BY DEF Goto
<1>2. pc[c] \in Live /\ l \in Live => Handlers' = Handlers
  BY <1>1 DEF Handlers
<1>3. pc[c] \notin Live /\ l \notin Live => Handlers' = Handlers
  BY <1>1 DEF Handlers
<1>4. ASSUME pc[c] \notin Live, l \in Live
      PROVE  /\ Handlers' = Handlers \cup {c} /\ c \notin Handlers
             /\ Cardinality(Handlers)' = Cardinality(Handlers) + 1
  <2>1. Handlers' = Handlers \cup {c} /\ c \notin Handlers
    BY <1>1, <1>4 DEF Handlers
  <2> QED BY <2>1, HandlersFinite, FS_AddElement
<1>5. ASSUME pc[c] \in Live, l \notin Live
      PROVE  /\ Handlers' = Handlers \ {c} /\ c \in Handlers
             /\ Cardinality(Handlers)' = Cardinality(Handlers) - 1
  <2>1. Handlers' = Handlers \ {c} /\ c \in Handlers
    BY <1>1, <1>5 DEF Handlers
  <2> QED BY <2>1, HandlersFinite, FS_RemoveElement
<1> QED BY <1>2, <1>3, <1>4, <1>5

(* A goroutine that has not run its Done keeps the counter above zero.     *)
LEMMA CounterPositive ==
  ASSUME WaitGroupCounts
  PROVE  /\ \A c \in Conns : pc[c] \in Live => wg > 0
         /\ serve # "done" => wg > 0
<1>1. ASSUME NEW c \in Conns, pc[c] \in Live PROVE Cardinality(Handlers) > 0
  <2>1. Handlers # {}
    BY <1>1 DEF Handlers
  <2> QED BY <2>1, HandlersFinite, FS_EmptySet
<1> QED BY <1>1, HandlersFinite DEF WaitGroupCounts

-----------------------------------------------------------------------------
(* The initial state satisfies IInv: Serve is counted before it runs.      *)
LEMMA InitIInv == Init => IInv
<1> SUFFICES ASSUME Init PROVE IInv
  OBVIOUS
<1> USE DEF Init, NewServer
<1>1. TypeOK
  BY ServerAssumption DEF TypeOK, Points, Live, Saving, Batches, Docs
<1>2. WaitGroupCounts
  <2>1. Handlers = {}
    BY DEF Handlers, Live, Saving
  <2> QED BY <2>1, FS_EmptySet DEF WaitGroupCounts
<1>3. SavingOK /\ StopOK
  BY DEF SavingOK, StopOK, Saving
<1> QED BY <1>1, <1>2, <1>3 DEF IInv

(* The accept loop preserves IInv.                                         *)
LEMMA ServeIInv == IInv /\ Serve => IInv'
<1> SUFFICES ASSUME IInv, Serve PROVE IInv'
  OBVIOUS
<1> USE DEF IInv
<1>1. UNCHANGED <<alive, stopVars, mainUnit, session, storeVars>>
  BY DEF Serve
<1>2. CASE ServeSelect
  <2>1. TypeOK'
    BY <1>1, <1>2 DEF TypeOK, ServeSelect, stopVars, session, storeVars
  <2>2. Handlers' = Handlers
    BY <1>2 DEF ServeSelect, Handlers
  <2>3. WaitGroupCounts'
    BY <1>2, <2>2 DEF ServeSelect, WaitGroupCounts
  <2>4. SavingOK' /\ StopOK'
    BY <1>1, <1>2 DEF SavingOK, StopOK, ServeSelect, stopVars, session
  <2> QED BY <2>1, <2>3, <2>4
<1>3. CASE AcceptTimeout
  <2>1. TypeOK'
    BY <1>1, <1>3 DEF TypeOK, AcceptTimeout, stopVars, session, storeVars
  <2>2. Handlers' = Handlers
    BY <1>3 DEF AcceptTimeout, Handlers
  <2>3. WaitGroupCounts'
    BY <1>3, <2>2 DEF AcceptTimeout, WaitGroupCounts
  <2>4. SavingOK' /\ StopOK'
    BY <1>1, <1>3 DEF SavingOK, StopOK, AcceptTimeout, stopVars, session
  <2> QED BY <2>1, <2>3, <2>4
<1>4. ASSUME NEW c \in Conns, Accept(c) \/ AcceptError(c) PROVE IInv'
  <2> PICK l \in {"select", "nil"} : Spawn(c, l)
    BY <1>4 DEF Accept, AcceptError
  <2>0. /\ serve = "accept" /\ serve' = "select"
        /\ pc[c] = "none"
        /\ UNCHANGED listener
    BY <1>4 DEF Accept, AcceptError
  <2>1. wg' = wg + 1 /\ Goto(c, l)
    BY DEF Spawn
  <2>2. TypeOK'
    BY <1>1, <2>0, <2>1
    DEF TypeOK, Goto, Points, Live, stopVars, session, storeVars
  <2>3. WaitGroupCounts'
    <3>1. Cardinality(Handlers)' = Cardinality(Handlers) + 1
      BY <2>0, <2>1, GotoCounts DEF TypeOK, Live, Saving
    <3> QED BY <2>0, <2>1, <3>1, HandlersFinite DEF WaitGroupCounts
  <2>4. SavingOK'
    BY <1>1, <2>1 DEF SavingOK, Goto, Saving, session, TypeOK
  <2>5. StopOK'
    BY <1>1, <2>0, <2>1, CounterPositive DEF StopOK, stopVars
  <2> QED BY <2>2, <2>3, <2>4, <2>5
<1>5. CASE ServeReturn
  <2>0. wg > 0 /\ wg' = wg - 1
    BY <1>5, CounterPositive DEF ServeReturn
  <2>1. TypeOK'
    BY <1>1, <1>5, <2>0 DEF TypeOK, ServeReturn, stopVars, session, storeVars
  <2>2. Handlers' = Handlers
    BY <1>5 DEF ServeReturn, Handlers
  <2>3. WaitGroupCounts'
    BY <1>5, <2>2, HandlersFinite DEF ServeReturn, WaitGroupCounts
  <2>4. SavingOK' /\ StopOK'
    BY <1>1, <1>5, <2>0 DEF SavingOK, StopOK, ServeReturn, stopVars, session
  <2> QED BY <2>1, <2>3, <2>4
<1> QED BY <1>2, <1>3, <1>4, <1>5 DEF Serve

-----------------------------------------------------------------------------
(* A step of a handler that neither starts nor ends it keeps the counts.   *)
LEMMA HandlerGoes ==
  ASSUME IInv, NEW c \in Conns, NEW l \in Live, pc[c] \in Live, Goto(c, l),
         UNCHANGED <<serveVars, stopVars>>
  PROVE  WaitGroupCounts' /\ StopOK' /\ pc' \in [Conns -> Points]
<1> USE DEF IInv
<1>1. Handlers' = Handlers
  BY GotoCounts DEF TypeOK
<1>2. WaitGroupCounts' /\ StopOK'
  BY <1>1 DEF WaitGroupCounts, StopOK, serveVars, stopVars
<1>3. pc' \in [Conns -> Points]
  BY DEF Goto, TypeOK, Points
<1> QED BY <1>2, <1>3

(* Reading from the connection preserves IInv.                             *)
LEMMA ReadIInv ==
  ASSUME IInv, NEW c \in Conns,
         Select(c) \/ ReadTimeout(c) \/ ReadError(c) \/ ReadData(c),
         UNCHANGED <<alive, serveVars, stopVars, mainUnit, storeVars>>
  PROVE  IInv'
<1> USE DEF IInv, serveVars, stopVars, storeVars, session
<1>1. CASE Select(c)
  <2>1. PICK l \in {"return", "read"} : Goto(c, l)
    BY <1>1 DEF Select
  <2>2. pc[c] = "select" /\ UNCHANGED session
    BY <1>1 DEF Select
  <2>3. WaitGroupCounts' /\ StopOK' /\ pc' \in [Conns -> Points]
    BY <2>1, <2>2, HandlerGoes DEF Live
  <2>4. TypeOK'
    BY <2>2, <2>3 DEF TypeOK
  <2>5. SavingOK'
    BY <2>1, <2>2 DEF SavingOK, Goto, Saving, TypeOK
  <2> QED BY <2>3, <2>4, <2>5
<1>2. CASE ReadTimeout(c)
  <2>1. PICK l \in {"return", "select"} : Goto(c, l)
    BY <1>2 DEF ReadTimeout
  <2>2. /\ pc[c] = "read"
        /\ UNCHANGED <<full, msgs, imei, id, todo>>
    BY <1>2 DEF ReadTimeout
  <2>0. i' \in [Conns -> 0..MaxIdle]
    <3>1. CASE UNCHANGED i
      BY <3>1 DEF TypeOK
    <3>2. CASE i[c] < MaxIdle /\ i' = [i EXCEPT ![c] = @ + 1]
      BY <3>2, ServerAssumption DEF TypeOK
    <3> QED BY <1>2, <3>1, <3>2 DEF ReadTimeout
  <2>3. WaitGroupCounts' /\ StopOK' /\ pc' \in [Conns -> Points]
    BY <2>1, <2>2, HandlerGoes DEF Live
  <2>4. TypeOK'
    BY <2>0, <2>2, <2>3 DEF TypeOK
  <2>5. SavingOK'
    BY <2>1, <2>2 DEF SavingOK, Goto, Saving, TypeOK
  <2> QED BY <2>3, <2>4, <2>5
<1>3. CASE ReadError(c)
  <2>1. pc[c] = "read" /\ Goto(c, "return") /\ UNCHANGED session
    BY <1>3 DEF ReadError
  <2>2. WaitGroupCounts' /\ StopOK' /\ pc' \in [Conns -> Points]
    BY <2>1, HandlerGoes DEF Live
  <2>3. TypeOK'
    BY <2>1, <2>2 DEF TypeOK
  <2>4. SavingOK'
    BY <2>1 DEF SavingOK, Goto, Saving, TypeOK
  <2> QED BY <2>2, <2>3, <2>4
<1>4. CASE ReadData(c)
  <2>1. PICK l \in {"select", "handle"} : Goto(c, l)
    BY <1>4 DEF ReadData
  <2>2. /\ pc[c] = "read" /\ msgs[c] < MaxMsgs
        /\ i' = [i EXCEPT ![c] = 0]
        /\ UNCHANGED <<imei, id, todo>>
    BY <1>4 DEF ReadData
  <2>3. /\ full' \in [Conns -> 0..MaxFull] /\ msgs' \in [Conns -> 0..MaxMsgs]
        /\ \A d \in Conns : d # c => msgs'[d] = msgs[d]
        /\ pc'[c] = "handle" => msgs'[c] \in 1..MaxMsgs
    <3>1. CASE full[c] < MaxFull /\ full' = [full EXCEPT ![c] = @ + 1]
               /\ Goto(c, "select") /\ UNCHANGED msgs
      BY <3>1, ServerAssumption DEF TypeOK, Goto
    <3>2. CASE full' = [full EXCEPT ![c] = 0] /\ msgs' = [msgs EXCEPT ![c] = @ + 1]
               /\ Goto(c, "handle")
      BY <3>2, <2>2, ServerAssumption DEF TypeOK, Goto
    <3> QED BY <1>4, <3>1, <3>2 DEF ReadData
  <2>4. WaitGroupCounts' /\ StopOK' /\ pc' \in [Conns -> Points]
    BY <2>1, <2>2, HandlerGoes DEF Live
  <2>0. i' \in [Conns -> 0..MaxIdle]
    BY <2>2, ServerAssumption DEF TypeOK
  <2>5. TypeOK'
    BY <2>0, <2>2, <2>3, <2>4 DEF TypeOK
  <2>6. SavingOK'
    BY <2>1, <2>2, <2>3 DEF SavingOK, Goto, Saving, TypeOK
  <2> QED BY <2>4, <2>5, <2>6
<1> QED BY <1>1, <1>2, <1>3, <1>4

-----------------------------------------------------------------------------
(* Handling a message and saving its records preserve IInv.                *)
LEMMA DocTyped ==
  ASSUME TypeOK, SavingOK, NEW c \in Conns, pc[c] \in {"insert", "publish"}
  PROVE  Doc(c) \in Docs
<1>1. todo[c] \in Seq(1..MaxRecords) /\ todo[c] # <<>>
  BY DEF TypeOK, SavingOK
<1>2. Head(todo[c]) \in 1..MaxRecords
  BY <1>1, HeadTailProperties
<1> QED BY <1>2 DEF Doc, Docs, TypeOK, SavingOK, Saving

LEMMA MessageIInv ==
  ASSUME IInv, NEW c \in Conns,
         \/ Handle(c) \/ HandleSpins(c)
         \/ LookupFinds(c) \/ LookupFails(c) \/ Insert(c) \/ Publish(c),
         UNCHANGED <<alive, serveVars, stopVars, mainUnit>>
  PROVE  IInv'
<1> USE DEF IInv, serveVars, stopVars, session, storeVars
<1>1. CASE Handle(c)
  <2>1. PICK m \in Uids \cup {NoImei}, n \in 0..MaxRecords :
          /\ imei' = [imei EXCEPT ![c] = m]
          /\ todo' = [todo EXCEPT ![c] = [k \in 1..n |-> k]]
          /\ decoded' = decoded \cup (IF n = 0 THEN {} ELSE {Batch(c, n, m)})
    BY <1>1 DEF Handle
  <2>2. /\ pc[c] = "handle" /\ Goto(c, "lookup")
        /\ UNCHANGED <<i, full, msgs, id, dropped, missed, coll, feed>>
    BY <1>1 DEF Handle
  <2>3. WaitGroupCounts' /\ StopOK' /\ pc' \in [Conns -> Points]
    BY <2>2, HandlerGoes DEF Live, Saving
  <2>4. [k \in 1..n |-> k] \in Seq(1..MaxRecords)
    BY ServerAssumption
  <2>5. n # 0 => Batch(c, n, m) \in Batches
    BY <2>2, ServerAssumption DEF Batch, Batches, SavingOK
  <2>6. TypeOK'
    BY <2>1, <2>2, <2>3, <2>4, <2>5 DEF TypeOK
  <2>7. SavingOK'
    BY <2>1, <2>2 DEF SavingOK, Goto, Saving, TypeOK
  <2> QED BY <2>3, <2>6, <2>7
<1>2. CASE HandleSpins(c)
  <2>1. pc[c] = "handle" /\ Goto(c, "spin") /\ UNCHANGED <<session, storeVars>>
    BY <1>2 DEF HandleSpins
  <2>2. WaitGroupCounts' /\ StopOK' /\ pc' \in [Conns -> Points]
    BY <2>1, HandlerGoes DEF Live
  <2>3. TypeOK'
    BY <2>1, <2>2 DEF TypeOK
  <2>4. SavingOK'
    BY <2>1 DEF SavingOK, Goto, Saving, TypeOK
  <2> QED BY <2>2, <2>3, <2>4
<1>3. CASE LookupFinds(c)
  <2>1. PICK l \in {"select", "insert"} : Goto(c, l)
    BY <1>3 DEF LookupFinds
  <2>2. /\ pc[c] = "lookup"
        /\ id' = [id EXCEPT ![c] = Row(c)] /\ Row(c) # NoId
        /\ UNCHANGED <<i, full, msgs, imei, todo, storeVars>>
        /\ pc'[c] = "insert" => todo[c] # <<>>
    BY <1>3 DEF LookupFinds, Goto, TypeOK
  <2>3. Row(c) \in Ids
    BY <2>2, ServerAssumption DEF Row, TypeOK
  <2>4. WaitGroupCounts' /\ StopOK' /\ pc' \in [Conns -> Points]
    BY <2>1, <2>2, HandlerGoes DEF Live, Saving
  <2>5. TypeOK'
    BY <2>2, <2>3, <2>4 DEF TypeOK
  <2>6. SavingOK'
    BY <2>1, <2>2, <2>3 DEF SavingOK, Goto, Saving, TypeOK
  <2> QED BY <2>4, <2>5, <2>6
<1>4. CASE LookupFails(c)
  <2>1. /\ pc[c] = "lookup" /\ Goto(c, "return")
        /\ dropped' = dropped \cup {b \in decoded : b.conn = c /\ b.msg = msgs[c]}
        /\ todo' = [todo EXCEPT ![c] = <<>>]
        /\ UNCHANGED <<i, full, msgs, imei, id, decoded, missed, coll, feed>>
    BY <1>4 DEF LookupFails
  <2>2. WaitGroupCounts' /\ StopOK' /\ pc' \in [Conns -> Points]
    BY <2>1, HandlerGoes DEF Live, Saving
  <2>0. dropped' \subseteq decoded /\ todo' \in [Conns -> Seq(1..MaxRecords)]
    BY <2>1 DEF TypeOK
  <2>3. TypeOK'
    BY <2>0, <2>1, <2>2 DEF TypeOK
  <2>4. SavingOK'
    BY <2>1 DEF SavingOK, Goto, Saving, TypeOK
  <2> QED BY <2>2, <2>3, <2>4
<1>5. CASE Insert(c)
  <2>1. pc[c] = "insert" /\ Goto(c, "publish") /\ UNCHANGED <<session, decoded, dropped, feed>>
    BY <1>5 DEF Insert
  <2>2. id[c] \in Ids /\ Doc(c) \in Docs
    BY <2>1, DocTyped DEF SavingOK
  <2>3. coll' \in [Ids -> Seq(Docs)] /\ missed' \subseteq Docs
    <3>1. Append(coll[id[c]], Doc(c)) \in Seq(Docs)
      BY <2>2 DEF TypeOK
    <3>2. CASE coll' = [coll EXCEPT ![id[c]] = Append(@, Doc(c))] /\ UNCHANGED missed
      BY <3>1, <3>2 DEF TypeOK
    <3>3. CASE missed' = missed \cup {Doc(c)} /\ UNCHANGED coll
      BY <2>2, <3>3 DEF TypeOK
    <3> QED BY <1>5, <3>2, <3>3 DEF Insert, InsertTarget
  <2>4. WaitGroupCounts' /\ StopOK' /\ pc' \in [Conns -> Points]
    BY <2>1, HandlerGoes DEF Live, Saving
  <2>5. TypeOK'
    BY <2>1, <2>3, <2>4 DEF TypeOK
  <2>6. SavingOK'
    BY <2>1 DEF SavingOK, Goto, Saving, TypeOK
  <2> QED BY <2>4, <2>5, <2>6
<1>6. CASE Publish(c)
  <2>1. PICK l \in {"select", "insert"} : Goto(c, l)
    BY <1>6 DEF Publish
  <2>2. /\ pc[c] = "publish"
        /\ todo' = [todo EXCEPT ![c] = Tail(@)]
        /\ UNCHANGED <<i, full, msgs, imei, id, decoded, dropped, missed, coll>>
        /\ pc'[c] = "insert" => Tail(todo[c]) # <<>>
        /\ feed' \subseteq feed \cup {Doc(c)}
    BY <1>6 DEF Publish, Goto, TypeOK
  <2>3. Doc(c) \in Docs /\ todo[c] # <<>> /\ id[c] \in Ids
    BY <2>2, DocTyped DEF SavingOK
  <2>4. Tail(todo[c]) \in Seq(1..MaxRecords)
    BY <2>3 DEF TypeOK
  <2>5. WaitGroupCounts' /\ StopOK' /\ pc' \in [Conns -> Points]
    BY <2>1, <2>2, HandlerGoes DEF Live, Saving
  <2>6. TypeOK'
    BY <2>2, <2>3, <2>4, <2>5 DEF TypeOK
  <2>7. SavingOK'
    BY <2>1, <2>2, <2>3 DEF SavingOK, Goto, Saving, TypeOK
  <2> QED BY <2>5, <2>6, <2>7
<1> QED BY <1>1, <1>2, <1>3, <1>4, <1>5, <1>6

(* The deferred calls of a handler preserve IInv.                          *)
LEMMA DeferredIInv ==
  ASSUME IInv, NEW c \in Conns, Done(c) \/ Close(c),
         UNCHANGED <<alive, listener, serve, stopVars, mainUnit, session, storeVars>>
  PROVE  IInv'
<1> USE DEF IInv, stopVars, session, storeVars
<1>1. CASE Done(c)
  <2>1. pc[c] = "return" /\ wg' = wg - 1 /\ Goto(c, "done")
    BY <1>1 DEF Done
  <2>2. wg > 0
    BY <2>1, CounterPositive DEF Live
  <2>3. TypeOK'
    BY <2>1, <2>2 DEF TypeOK, Goto, Points, Live
  <2>4. WaitGroupCounts'
    <3>0. pc[c] \in Live /\ "done" \notin Live /\ pc \in [Conns -> Points]
      BY <2>1 DEF TypeOK, Live, Saving
    <3>1. Cardinality(Handlers)' = Cardinality(Handlers) - 1
      BY <2>1, <3>0, GotoCounts
    <3> QED BY <2>1, <3>1, HandlersFinite DEF WaitGroupCounts
  <2>5. SavingOK' /\ StopOK'
    BY <2>1, <2>2 DEF SavingOK, StopOK, Goto, Saving, TypeOK
  <2> QED BY <2>3, <2>4, <2>5
<1>2. CASE Close(c)
  <2>1. pc[c] = "done" /\ wg' = wg /\ Goto(c, "closed")
    BY <1>2 DEF Close
  <2>2. TypeOK'
    BY <2>1 DEF TypeOK, Goto, Points, Live
  <2>3. WaitGroupCounts'
    <3>1. Handlers' = Handlers
      BY <2>1, GotoCounts DEF TypeOK, Live, Saving
    <3> QED BY <2>1, <3>1 DEF WaitGroupCounts
  <2>4. SavingOK' /\ StopOK'
    BY <2>1 DEF SavingOK, StopOK, Goto, Saving, TypeOK
  <2> QED BY <2>2, <2>3, <2>4
<1> QED BY <1>1, <1>2

(* Every step of a handler preserves IInv.                                 *)
LEMMA HandlerIInv ==
  ASSUME IInv, NEW c \in Conns, HandleRequest(c) PROVE IInv'
<1>1. CASE Panic(c)
  <2>1. UNCHANGED <<serveVars, stopVars, mainUnit, pc, session, storeVars>> /\ alive' = FALSE
    BY <1>1 DEF Panic
  <2>2. Handlers' = Handlers
    BY <2>1 DEF Handlers
  <2> QED BY <2>1, <2>2
    DEF IInv, TypeOK, WaitGroupCounts, SavingOK, StopOK, serveVars, stopVars, session, storeVars
<1> QED BY <1>1, ReadIInv, MessageIInv, DeferredIInv DEF HandleRequest

(* The steps of Stop and of the environment preserve IInv: Stop returns at *)
(* zero, and nothing else sets stop to "returned".                         *)
LEMMA StopIInv == IInv /\ (Stop \/ Environment) => IInv'
<1> SUFFICES ASSUME IInv, Stop \/ Environment PROVE IInv'
  OBVIOUS
<1> USE DEF IInv
<1>1. UNCHANGED <<alive, serveVars, pc, session, storeVars>>
  BY DEF Stop, Environment, EditUnits
<1>2. Handlers' = Handlers
  BY <1>1 DEF Handlers
<1>3. WaitGroupCounts' /\ SavingOK'
  BY <1>1, <1>2 DEF WaitGroupCounts, SavingOK, serveVars, session
<1>4. CASE Stop
  <2>1. UNCHANGED mainUnit /\ StopSteps
    BY <1>4 DEF Stop
  <2>2. /\ ch' \in {"open", "closed"} /\ clients' \subseteq {"f", "redis", "pgsql", "mongo"}
        /\ stop' \in {"redis", "pgsql", "mongo", "ch", "wait", "returned"}
        /\ stop' = "returned" => wg = 0
        /\ ch' = "closed" => stop' \in {"wait", "returned"}
        /\ ch = "closed" => ch' = "closed"
    BY <2>1 DEF StopSteps, CloseClient, CloseChannel, Wait, TypeOK, StopOK
  <2> QED BY <1>1, <1>3, <2>1, <2>2 DEF TypeOK, StopOK, serveVars, session, storeVars
<1>5. CASE Environment
  <2>1. /\ UNCHANGED <<ch, clients>>
        /\ stop' = stop \/ (stop = "no" /\ stop' = "f")
        /\ mainUnit' \in [Uids -> Ids \cup {NoId}]
    BY <1>5 DEF Environment, Signal, EditUnits, TypeOK, stopVars
  <2> QED BY <1>1, <1>3, <2>1 DEF TypeOK, StopOK, serveVars, session, storeVars
<1> QED BY <1>4, <1>5

(* Every step preserves IInv.                                              *)
LEMMA NextIInv == IInv /\ [Next]_vars => IInv'
<1> SUFFICES ASSUME IInv, [Next]_vars PROVE IInv'
  OBVIOUS
<1>1. CASE UNCHANGED vars
  <2>1. Handlers' = Handlers
    BY <1>1 DEF vars, Handlers
  <2> QED BY <1>1, <2>1
    DEF IInv, TypeOK, WaitGroupCounts, SavingOK, StopOK, vars,
        serveVars, stopVars, session, storeVars
<1> QED BY <1>1, ServeIInv, HandlerIInv, StopIInv DEF Next

(* The inductive invariant holds in every state of every behaviour.        *)
THEOREM Inductive == Spec => []IInv
BY InitIInv, NextIInv, PTL DEF Spec

(* Every variable always has its type; in particular the WaitGroup never   *)
(* falls below zero, which would panic.                                    *)
THEOREM TypeCorrect == Spec => []TypeOK
<1>1. IInv => TypeOK
  BY DEF IInv
<1> QED BY <1>1, Inductive, PTL

(* The WaitGroup counts the goroutines that have not run their Done.       *)
THEOREM CounterExact == Spec => []WaitGroupCounts
<1>1. IInv => WaitGroupCounts
  BY DEF IInv
<1> QED BY <1>1, Inductive, PTL

(* When Stop has returned, Serve and every handler have run their Done.    *)
LEMMA DrainedAtZero ==
  ASSUME IInv, wg = 0 PROVE serve = "done" /\ Handlers = {}
<1>1. serve = "done"
  BY CounterPositive DEF IInv
<1>2. Handlers = {}
  BY CounterPositive DEF IInv, Handlers
<1> QED BY <1>1, <1>2

LEMMA IInvDrains == IInv => StopDrains
<1> SUFFICES ASSUME IInv, stop = "returned"
             PROVE  /\ serve = "done" /\ listener = "closed"
                    /\ \A c \in Conns : pc[c] \in {"none", "done", "closed"}
  BY DEF StopDrains
<1>1. wg = 0
  BY DEF IInv, StopOK
<1>2. serve = "done" /\ Handlers = {}
  BY <1>1, DrainedAtZero
<1>3. listener = "closed"
  BY <1>2 DEF IInv, StopOK
<1>4. \A c \in Conns : pc[c] \in {"none", "done", "closed"}
  BY <1>2 DEF IInv, TypeOK, Handlers, Points
<1> QED BY <1>2, <1>3, <1>4

(* A server whose Stop has returned is drained, whatever the number of     *)
(* connections and however its steps interleaved with theirs.              *)
THEOREM Drained == Spec => []StopDrains
BY IInvDrains, Inductive, PTL

-----------------------------------------------------------------------------
(* No step of a drained server changes the counter or what was stored.     *)
LEMMA QuietAtZero ==
  ASSUME IInv, wg = 0, [Next]_vars
  PROVE  wg' = 0 /\ UNCHANGED storeVars /\ UNCHANGED serve /\ Handlers' = Handlers
<1>1. serve = "done" /\ Handlers = {}
  BY DrainedAtZero
<1>2. \A c \in Conns : pc[c] \in {"none", "done", "closed"}
  BY <1>1 DEF IInv, TypeOK, Handlers, Points
<1>3. ~Serve
  BY <1>1 DEF Serve, ServeSelect, AcceptTimeout, Accept, AcceptError, ServeReturn
<1>4. ASSUME NEW c \in Conns, HandleRequest(c)
      PROVE  wg' = 0 /\ UNCHANGED storeVars /\ UNCHANGED serve /\ Handlers' = Handlers
  <2>1. Close(c) /\ UNCHANGED <<serve, storeVars>>
    BY <1>2, <1>4
    DEF HandleRequest, Select, ReadTimeout, ReadError, ReadData, Handle, HandleSpins,
        LookupFinds, LookupFails, Insert, Publish, Done, Panic
  <2>2. Handlers' = Handlers
    BY <2>1, GotoCounts DEF Close, IInv, TypeOK, Live, Saving
  <2> QED BY <2>1, <2>2 DEF Close
<1>5. CASE Stop \/ Environment \/ UNCHANGED vars
  <2>1. UNCHANGED <<wg, serve, pc, storeVars>>
    BY <1>5 DEF Stop, Environment, EditUnits, vars, serveVars
  <2> QED BY <2>1 DEF Handlers
<1> QED BY <1>3, <1>4, <1>5 DEF Next

(* The counter that Stop waits on stays at zero once it is there, so that  *)
(* no accept can overtake a Wait that has seen zero.                       *)
THEOREM ZeroIsFinal == Spec => NoAddAfterZero
<1>1. IInv /\ [Next]_vars => [wg = 0 => wg' = 0]_vars
  BY QuietAtZero
<1> QED BY <1>1, Inductive, PTL DEF Spec, NoAddAfterZero

(* After Stop has returned, no step decodes, stores or publishes.          *)
THEOREM QuietAfterStop == Spec => NoEffectAfterStop
<1>1. IInv /\ [Next]_vars => [stop = "returned" => UNCHANGED storeVars]_vars
  BY QuietAtZero DEF IInv, StopOK
<1> QED BY <1>1, Inductive, PTL DEF Spec, NoEffectAfterStop

-----------------------------------------------------------------------------
(* The refinement of Drain.                                                *)
LEMMA DrainInit == Init => Drain!Init
<1> SUFFICES ASSUME Init PROVE Drain!Init
  OBVIOUS
<1>1. Phase = "up" /\ (serve # "done") = TRUE
  BY DEF Init, Phase
<1>2. Handlers = {}
  BY DEF Init, Handlers, Live, Saving
<1> QED BY <1>1, <1>2 DEF Drain!Init

(* A step that changes neither alive, stop, serve = "done" nor the set of  *)
(* live handlers is not seen by Drain.                                     *)
LEMMA DrainStutter ==
  ASSUME UNCHANGED <<alive, stop>>, (serve = "done") <=> (serve' = "done"),
         Handlers' = Handlers
  PROVE  UNCHANGED Drain!vars
<1>1. Phase' = Phase
  BY DEF Phase
<1>2. (serve # "done")' = (serve # "done")
  OBVIOUS
<1> QED BY <1>1, <1>2 DEF Drain!vars

(* While a goroutine is counted, a live server is running in Drain's sense.*)
LEMMA CountedRunning ==
  ASSUME IInv, alive, wg > 0 PROVE Drain!Running
<1>1. stop # "returned"
  BY DEF IInv, TypeOK, StopOK
<1> QED BY <1>1 DEF Drain!Running, Phase

(* Every step of the server is a step of Drain or is not seen by it.       *)
LEMMA DrainServe == IInv /\ Serve => [Drain!Next]_(Drain!vars)
<1> SUFFICES ASSUME IInv, Serve PROVE [Drain!Next]_(Drain!vars)
  OBVIOUS
<1>0. alive /\ UNCHANGED <<alive, ch, stop>> /\ Phase' = Phase
  BY DEF Serve, stopVars, Phase
<1>1. CASE ServeSelect \/ AcceptTimeout
  <2>1. Handlers' = Handlers /\ serve # "done" /\ serve' # "done"
    BY <1>1 DEF ServeSelect, AcceptTimeout, Handlers
  <2> QED BY <1>0, <2>1, DrainStutter
<1>2. ASSUME NEW c \in Conns, Accept(c) \/ AcceptError(c) PROVE Drain!Next
  <2>1. PICK l \in {"select", "nil"} : Goto(c, l)
    BY <1>2 DEF Accept, AcceptError, Spawn
  <2>2. pc[c] = "none" /\ serve = "accept" /\ serve' = "select"
    BY <1>2 DEF Accept, AcceptError
  <2>3. Handlers' = Handlers \cup {c} /\ c \notin Handlers
    BY <2>1, <2>2, GotoCounts DEF IInv, TypeOK, Live, Saving
  <2>4. Drain!Running
    BY <1>0, <2>2, CounterPositive, CountedRunning DEF IInv
  <2>5. Drain!Open(c)
    BY <1>0, <2>2, <2>3, <2>4 DEF Drain!Open
  <2> QED BY <2>5 DEF Drain!Next
<1>3. CASE ServeReturn
  <2>1. serve = "return" /\ serve' = "done" /\ Handlers' = Handlers
    BY <1>3 DEF ServeReturn, Handlers
  <2>2. stop \in {"wait", "returned"} /\ wg > 0
    BY <2>1, CounterPositive DEF IInv, StopOK
  <2>3. Phase = "stopping"
    BY <1>0, <2>2 DEF Phase, IInv, StopOK, TypeOK
  <2>4. Drain!StopAccepting
    BY <1>0, <2>1, <2>3 DEF Drain!StopAccepting
  <2> QED BY <2>4 DEF Drain!Next
<1> QED BY <1>1, <1>2, <1>3 DEF Serve

LEMMA DrainHandler ==
  ASSUME IInv, NEW c \in Conns, HandleRequest(c) PROVE [Drain!Next]_(Drain!vars)
<1>1. CASE Panic(c)
  <2>1. pc[c] \in Live /\ alive /\ alive' = FALSE
    BY <1>1 DEF Panic, HandleRequest, Live, Saving
  <2>2. UNCHANGED serve /\ Handlers' = Handlers
    BY <1>1 DEF Panic, serveVars, Handlers
  <2>3. Drain!Running
    BY <2>1, CounterPositive, CountedRunning DEF IInv
  <2>4. Phase' = "crashed"
    BY <2>1 DEF Phase
  <2>5. Drain!Crash
    BY <2>2, <2>3, <2>4 DEF Drain!Crash
  <2> QED BY <2>5 DEF Drain!Next
<1>2. CASE Done(c) /\ ~Panic(c)
  <2>1. pc[c] = "return" /\ Goto(c, "done") /\ alive
    BY <1>2 DEF Done, HandleRequest
  <2>2. UNCHANGED <<alive, stop, serve>>
    BY <1>2, <2>1
    DEF HandleRequest, Select, ReadTimeout, ReadError, ReadData, Handle, HandleSpins,
        LookupFinds, LookupFails, Insert, Publish, Close, stopVars, serveVars
  <2>3. pc[c] \in Live /\ "done" \notin Live
    BY <2>1 DEF Live, Saving
  <2>4. Handlers' = Handlers \ {c} /\ c \in Handlers
    BY <2>1, <2>3, GotoCounts DEF IInv, TypeOK
  <2>5. Drain!Running
    BY <2>1, <2>3, CounterPositive, CountedRunning DEF IInv
  <2>6. Phase' = Phase
    BY <2>2 DEF Phase
  <2>7. Drain!Finish(c)
    BY <2>2, <2>4, <2>5, <2>6 DEF Drain!Finish
  <2> QED BY <2>7 DEF Drain!Next
<1>3. CASE ~Panic(c) /\ ~Done(c)
  <2>1. UNCHANGED <<alive, stop, serve>>
    BY <1>3 DEF HandleRequest, stopVars, serveVars
  <2>2. CASE Close(c)
    <3>1. pc[c] \notin Live /\ "closed" \notin Live /\ Goto(c, "closed")
      BY <2>2 DEF Close, Live, Saving
    <3>2. Handlers' = Handlers
      BY <3>1, GotoCounts DEF IInv, TypeOK
    <3> QED BY <2>1, <3>2, DrainStutter
  <2>3. CASE Select(c) \/ ReadTimeout(c) \/ ReadError(c) \/ ReadData(c)
    <3>1. pc[c] \in Live
      BY <2>3 DEF Select, ReadTimeout, ReadError, ReadData, Live
    <3>2. \E l \in {"select", "read", "handle", "return"} : Goto(c, l)
      BY <2>3 DEF Select, ReadTimeout, ReadError, ReadData
    <3>3. \E l \in Live : Goto(c, l)
      BY <3>2 DEF Live
    <3>4. Handlers' = Handlers
      BY <3>1, <3>3, GotoCounts DEF IInv, TypeOK
    <3> QED BY <2>1, <3>4, DrainStutter
  <2>4. CASE \/ Handle(c) \/ HandleSpins(c)
             \/ LookupFinds(c) \/ LookupFails(c) \/ Insert(c) \/ Publish(c)
    <3>1. pc[c] \in Live
      BY <2>4 DEF Handle, HandleSpins, LookupFinds, LookupFails, Insert, Publish, Live, Saving
    <3>2. \E l \in {"spin", "lookup", "insert", "publish", "select", "return"} : Goto(c, l)
      BY <2>4 DEF Handle, HandleSpins, LookupFinds, LookupFails, Insert, Publish
    <3>3. \E l \in Live : Goto(c, l)
      BY <3>2 DEF Live, Saving
    <3>4. Handlers' = Handlers
      BY <3>1, <3>3, GotoCounts DEF IInv, TypeOK
    <3> QED BY <2>1, <3>4, DrainStutter
  <2> QED BY <1>3, <2>2, <2>3, <2>4 DEF HandleRequest
<1> QED BY <1>1, <1>2, <1>3

LEMMA DrainStop == IInv /\ (Stop \/ Environment) => [Drain!Next]_(Drain!vars)
<1> SUFFICES ASSUME IInv, Stop \/ Environment PROVE [Drain!Next]_(Drain!vars)
  OBVIOUS
<1>1. alive /\ UNCHANGED <<alive, wg, serve>> /\ Handlers' = Handlers
  BY DEF Stop, Environment, EditUnits, serveVars, Handlers
<1>2. CASE Stop /\ Wait
  <2>1. serve = "done" /\ Handlers = {}
    BY <1>2, DrainedAtZero DEF Wait
  <2>2. Phase = "stopping" /\ Phase' = "stopped"
    BY <1>1, <1>2 DEF Wait, Phase
  <2>3. Drain!Return
    BY <1>1, <2>1, <2>2 DEF Drain!Return
  <2> QED BY <2>3 DEF Drain!Next
<1>3. CASE Stop /\ ~Wait
  <2>1. stop \notin {"no", "returned"} /\ stop' \notin {"no", "returned"}
    BY <1>3 DEF Stop, StopSteps, CloseClient, CloseChannel
  <2>2. Phase' = Phase
    BY <1>1, <2>1 DEF Phase
  <2> QED BY <1>1, <2>2 DEF Drain!vars
<1>4. CASE Environment /\ stop' # stop
  <2>1. stop = "no" /\ stop' = "f"
    BY <1>4 DEF Environment, Signal, EditUnits, stopVars
  <2>2. Phase = "up" /\ Phase' = "stopping"
    BY <1>1, <2>1 DEF Phase
  <2>3. Drain!RequestStop
    BY <1>1, <2>2 DEF Drain!RequestStop
  <2> QED BY <2>3 DEF Drain!Next
<1>5. CASE stop' = stop
  BY <1>1, <1>5, DrainStutter
<1> QED BY <1>2, <1>3, <1>4, <1>5

(* The server implements the safety part of Drain: whatever the devices    *)
(* do, a Stop that returns leaves nothing accepting and nothing active.    *)
THEOREM ImplementsDrain == Spec => Drain!Safety
<1>1. IInv /\ [Next]_vars => [Drain!Next]_(Drain!vars)
  <2> SUFFICES ASSUME IInv, [Next]_vars PROVE [Drain!Next]_(Drain!vars)
    OBVIOUS
  <2>1. CASE UNCHANGED vars
    <3>1. UNCHANGED <<alive, stop, serve>> /\ Handlers' = Handlers
      BY <2>1 DEF vars, stopVars, serveVars, Handlers
    <3> QED BY <3>1, DrainStutter
  <2> QED BY <2>1, DrainServe, DrainHandler, DrainStop DEF Next
<1> QED BY <1>1, DrainInit, Inductive, PTL DEF Spec, Drain!Safety
=============================================================================
