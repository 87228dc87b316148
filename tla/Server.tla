------------------------------- MODULE Server -------------------------------
(***************************************************************************)
(* One protocol server of server.go: the accept loop Serve, a goroutine    *)
(* HandleRequest per connection, and Stop, which the main goroutine calls  *)
(* after a signal.  They share the channel s.ch, which nobody sends on and *)
(* Stop closes, the WaitGroup, and the clients of Redis, PostgreSQL and    *)
(* MongoDB.                                                                *)
(*                                                                         *)
(* What a protocol's handle returns is left open: any imei, any number of  *)
(* records, a panic, or no return at all, so that what holds here holds    *)
(* for each of the eight protocols.  Every statement that touches shared   *)
(* state is a step of its own.  A query in flight when its pool is closed  *)
(* is awaited by Close (pgxpool) and Disconnect (mongo), so a query is one *)
(* step that comes before or after the closing.                            *)
(***************************************************************************)
EXTENDS Naturals, FiniteSets, Sequences

CONSTANTS
  Conns,       \* the TCP connections that devices open, each one once
  Uids,        \* device identifiers
  NoImei,      \* the empty imei of a session that is not identified
  Ids,         \* main_unit.id; a MongoDB collection is named by an id
  NoId,        \* the lookup finds no row
  Units,       \* main_unit when the server starts
  MaxIdle,     \* 60: timeouts in a row after which an idle session ends
  MaxRecords,  \* bound: records in a batch
  MaxMsgs,     \* bound: messages a device sends on a connection
  MaxFull,     \* bound: reads in a row that fill the read buffer
  Env          \* the events of the environment that may happen

Events == {"signal",  \* SIGINT or SIGTERM
           "accept",  \* AcceptTCP fails, not by a timeout
           "panic",   \* a decoder, or json on a NaN, panics
           "spin",    \* a decoder does not return
           "pgsql", "mongo",  \* a query fails
           "units"}   \* main_unit is edited by its owner

ASSUME ServerAssumption ==
  /\ IsFiniteSet(Conns)
  /\ NoImei \notin Uids
  /\ NoId \notin Ids
  /\ Units \in [Uids -> Ids \cup {NoId}]
  /\ MaxIdle \in Nat /\ MaxRecords \in Nat /\ MaxMsgs \in Nat /\ MaxFull \in Nat
  /\ Env \subseteq Events

VARIABLES
  alive,     \* no goroutine has panicked
  ch,        \* s.ch: "open" or "closed"
  wg,        \* the counter of s.waitGroup
  listener,  \* s.listener: "open" or "closed"
  serve,     \* where Serve is
  stop,      \* where Stop is; "no" before it is called
  clients,   \* what Stop has not closed yet: log file, redis, pgsql, mongo
  mainUnit,  \* the table main_unit: uid -> id
  pc,        \* where HandleRequest of a connection is
  i,         \* its counter of timeouts in a row
  full,      \* how often its read buffer was filled and doubled
  msgs,      \* how many messages it has read
  imei,      \* its session's imei
  id,        \* the id its last lookup returned
  todo,      \* the records of the batch that it has still to save
  decoded,   \* history: the batches handle returned, acknowledged by then
  dropped,   \* history: the batches whose unit was not found
  missed,    \* history: the documents whose insertion failed
  coll,      \* the MongoDB collections
  feed       \* what was published on the channel "realtime"

serveVars   == <<wg, listener, serve>>
stopVars    == <<ch, stop, clients>>
session     == <<i, full, msgs, imei, id, todo>>
storeVars   == <<decoded, dropped, missed, coll, feed>>
vars == <<alive, serveVars, stopVars, mainUnit, pc, session, storeVars>>

(* HandleRequest's program points.  "nil" is a handler of a nil connection *)
(* and "spin" one whose decoder loops.  A live handler has not run its     *)
(* deferred waitGroup.Done yet.                                            *)
Saving  == {"lookup", "insert", "publish"}
Live    == Saving \cup {"nil", "select", "read", "handle", "spin", "return"}
Points  == Live \cup {"none", "done", "closed"}
Handlers == {c \in Conns : pc[c] \in Live}

Goto(c, l) == pc' = [pc EXCEPT ![c] = l]

Batch(c, n, m) == [conn |-> c, msg |-> msgs[c], size |-> n, imei |-> m]
Doc(c) == [conn |-> c, msg |-> msgs[c], rec |-> Head(todo[c]), imei |-> imei[c]]
Batches == [conn : Conns, msg : 1..MaxMsgs, size : 1..MaxRecords,
            imei : Uids \cup {NoImei}]
Docs    == [conn : Conns, msg : 1..MaxMsgs, rec : 1..MaxRecords,
            imei : Uids \cup {NoImei}]

-----------------------------------------------------------------------------
(* NewServer, Listen and the `go s.Serve()` of Start have run.             *)
NewServerForgetsAdd == wg = 0 /\ ch = "open" /\ clients = {"f", "redis", "pgsql", "mongo"}
NewServer == wg = 1 /\ ch = "open" /\ clients = {"f", "redis", "pgsql", "mongo"}

Init ==
  /\ NewServer
  /\ alive = TRUE /\ listener = "open" /\ serve = "select" /\ stop = "no"
  /\ mainUnit = Units
  /\ pc = [c \in Conns |-> "none"]
  /\ i = [c \in Conns |-> 0]
  /\ full = [c \in Conns |-> 0]
  /\ msgs = [c \in Conns |-> 0]
  /\ imei = [c \in Conns |-> NoImei]
  /\ id = [c \in Conns |-> NoId]
  /\ todo = [c \in Conns |-> <<>>]
  /\ decoded = {} /\ dropped = {} /\ missed = {}
  /\ coll = [x \in Ids |-> <<>>]
  /\ feed = {}

-----------------------------------------------------------------------------
(* Serve *)

(* The select at the head of the loop.                                     *)
ServeSelect ==
  /\ serve = "select"
  /\ \/ ch = "closed" /\ listener' = "closed" /\ serve' = "return"
     \/ ch = "open" /\ serve' = "accept" /\ UNCHANGED listener
  /\ UNCHANGED <<wg, pc>>

(* No connection within the five seconds of SetDeadline.                   *)
AcceptTimeout ==
  /\ serve = "accept"
  /\ serve' = "select"
  /\ UNCHANGED <<wg, listener, pc>>

(* waitGroup.Add(1), then `go s.HandleRequest(conn)`.                      *)
SpawnForgetsAdd(c, l) == wg' = wg /\ Goto(c, l)
Spawn(c, l) == wg' = wg + 1 /\ Goto(c, l)

Accept(c) ==
  /\ serve = "accept"
  /\ pc[c] = "none"
  /\ Spawn(c, "select")
  /\ serve' = "select"
  /\ UNCHANGED listener

(* Any other error is only logged: the nil conn gets its handler too.      *)
AcceptError(c) ==
  /\ "accept" \in Env
  /\ serve = "accept"
  /\ pc[c] = "none"
  /\ Spawn(c, "nil")
  /\ serve' = "select"
  /\ UNCHANGED listener

(* The deferred waitGroup.Done.                                            *)
ServeReturn ==
  /\ serve = "return"
  /\ wg' = wg - 1
  /\ serve' = "done"
  /\ UNCHANGED <<listener, pc>>

Serve ==
  /\ alive
  /\ \/ ServeSelect
     \/ AcceptTimeout
     \/ \E c \in Conns : Accept(c) \/ AcceptError(c)
     \/ ServeReturn
  /\ UNCHANGED <<alive, stopVars, mainUnit, session, storeVars>>

-----------------------------------------------------------------------------
(* HandleRequest: reading *)

(* The select at the head of the two loops, one after the other.           *)
Select(c) ==
  /\ pc[c] = "select"
  /\ Goto(c, IF ch = "closed" THEN "return" ELSE "read")
  /\ UNCHANGED session

(* Five seconds without a byte.                                            *)
ReadTimeoutForgets(c) ==
  /\ pc[c] = "read"
  /\ Goto(c, "select")
  /\ UNCHANGED session
ReadTimeout(c) ==
  /\ pc[c] = "read"
  /\ \/ i[c] >= MaxIdle /\ Goto(c, "return") /\ UNCHANGED i
     \/ i[c] < MaxIdle /\ Goto(c, "select") /\ i' = [i EXCEPT ![c] = @ + 1]
  /\ UNCHANGED <<full, msgs, imei, id, todo>>

(* End of file or an error: what the buffer holds so far is lost.          *)
ReadError(c) ==
  /\ pc[c] = "read"
  /\ Goto(c, "return")
  /\ UNCHANGED session

(* A read that fills readbuff doubles it and waits for more; a shorter one *)
(* ends the message.                                                       *)
ReadData(c) ==
  /\ pc[c] = "read"
  /\ msgs[c] < MaxMsgs
  /\ i' = [i EXCEPT ![c] = 0]
  /\ \/ /\ full[c] < MaxFull
        /\ full' = [full EXCEPT ![c] = @ + 1]
        /\ Goto(c, "select")
        /\ UNCHANGED msgs
     \/ /\ full' = [full EXCEPT ![c] = 0]
        /\ msgs' = [msgs EXCEPT ![c] = @ + 1]
        /\ Goto(c, "handle")
  /\ UNCHANGED <<imei, id, todo>>

(* The deferred calls run last in, first out: waitGroup.Done, conn.Close.  *)
DoneSkipped(c) == pc[c] = "return" /\ wg' = wg /\ Goto(c, "done")
Done(c) == pc[c] = "return" /\ wg' = wg - 1 /\ Goto(c, "done")

Close(c) == pc[c] = "done" /\ wg' = wg /\ Goto(c, "closed")

-----------------------------------------------------------------------------
(* HandleRequest: a message *)

(* handle writes its reply to the device and returns an imei and records.  *)
(* Its error is logged: res.error == errors.New("crc16") compares two      *)
(* different pointers, so the branches on it are never taken.              *)
Handle(c) ==
  /\ pc[c] = "handle"
  /\ \E m \in Uids \cup {NoImei}, n \in 0..MaxRecords :
       /\ imei' = [imei EXCEPT ![c] = m]
       /\ todo' = [todo EXCEPT ![c] = [k \in 1..n |-> k]]
       /\ decoded' = decoded \cup (IF n = 0 THEN {} ELSE {Batch(c, n, m)})
  /\ Goto(c, "lookup")
  /\ UNCHANGED <<i, full, msgs, id, dropped, missed, coll, feed>>

HandleSpins(c) ==
  /\ "spin" \in Env
  /\ pc[c] = "handle"
  /\ Goto(c, "spin")
  /\ UNCHANGED <<session, storeVars>>

(* SELECT id FROM main_unit: a row, or no row or an error.                 *)
RowCached(c) ==
  IF id[c] # NoId \/ imei[c] \notin Uids THEN id[c] ELSE mainUnit[imei[c]]
Row(c) == IF imei[c] \in Uids THEN mainUnit[imei[c]] ELSE NoId

LookupFindsSkipsOne(c) ==
  /\ pc[c] = "lookup"
  /\ "pgsql" \in clients
  /\ Row(c) # NoId
  /\ id' = [id EXCEPT ![c] = Row(c)]
  /\ Goto(c, IF Len(todo[c]) <= 1 THEN "select" ELSE "insert")
  /\ UNCHANGED <<i, full, msgs, imei, todo, storeVars>>
LookupFinds(c) ==
  /\ pc[c] = "lookup"
  /\ "pgsql" \in clients
  /\ Row(c) # NoId
  /\ id' = [id EXCEPT ![c] = Row(c)]
  /\ Goto(c, IF todo[c] = <<>> THEN "select" ELSE "insert")
  /\ UNCHANGED <<i, full, msgs, imei, todo, storeVars>>

LookupFailsContinues(c) ==
  /\ pc[c] = "lookup"
  /\ "pgsql" \notin clients \/ Row(c) = NoId \/ "pgsql" \in Env
  /\ dropped' = dropped \cup {b \in decoded : b.conn = c /\ b.msg = msgs[c]}
  /\ todo' = [todo EXCEPT ![c] = <<>>]
  /\ Goto(c, "select")
  /\ UNCHANGED <<i, full, msgs, imei, id, decoded, missed, coll, feed>>
LookupFails(c) ==
  /\ pc[c] = "lookup"
  /\ "pgsql" \notin clients \/ Row(c) = NoId \/ "pgsql" \in Env
  /\ dropped' = dropped \cup {b \in decoded : b.conn = c /\ b.msg = msgs[c]}
  /\ todo' = [todo EXCEPT ![c] = <<>>]
  /\ Goto(c, "return")
  /\ UNCHANGED <<i, full, msgs, imei, id, decoded, missed, coll, feed>>

(* SaveRecords, one record: InsertOne, whose error is ignored ...          *)
InsertTargetReread(c) == IF Row(c) = NoId THEN id[c] ELSE Row(c)
InsertTarget(c) == id[c]

Insert(c) ==
  /\ pc[c] = "insert"
  /\ \/ /\ "mongo" \in clients
        /\ coll' = [coll EXCEPT ![InsertTarget(c)] = Append(@, Doc(c))]
        /\ UNCHANGED missed
     \/ /\ "mongo" \notin clients \/ "mongo" \in Env
        /\ missed' = missed \cup {Doc(c)}
        /\ UNCHANGED coll
  /\ Goto(c, "publish")
  /\ UNCHANGED <<session, decoded, dropped, feed>>

(* ... and Publish, unless the record is ten minutes old or Publish fails. *)
PublishRetries(c) ==
  /\ pc[c] = "publish"
  /\ \/ /\ "redis" \in clients /\ feed' = feed \cup {Doc(c)}
        /\ todo' = [todo EXCEPT ![c] = Tail(@)]
        /\ Goto(c, IF Tail(todo[c]) = <<>> THEN "select" ELSE "insert")
     \/ UNCHANGED <<feed, todo>> /\ Goto(c, "insert")
  /\ UNCHANGED <<i, full, msgs, imei, id, decoded, dropped, missed, coll>>
Publish(c) ==
  /\ pc[c] = "publish"
  /\ \/ "redis" \in clients /\ feed' = feed \cup {Doc(c)}
     \/ UNCHANGED feed
  /\ todo' = [todo EXCEPT ![c] = Tail(@)]
  /\ Goto(c, IF Tail(todo[c]) = <<>> THEN "select" ELSE "insert")
  /\ UNCHANGED <<i, full, msgs, imei, id, decoded, dropped, missed, coll>>

(* A panic of any goroutine ends the process: a decoder out of the range   *)
(* of its buffer, an entry put in the nil map that a record json cannot    *)
(* marshal leaves, the method of a nil conn.                               *)
Panic(c) ==
  /\ \/ "panic" \in Env /\ pc[c] \in {"handle", "publish"}
     \/ pc[c] = "nil"
  /\ alive' = FALSE
  /\ UNCHANGED <<serveVars, stopVars, mainUnit, pc, session, storeVars>>

HandleRequest(c) ==
  /\ alive
  /\ \/ /\ Select(c) \/ ReadTimeout(c) \/ ReadError(c) \/ ReadData(c)
        /\ UNCHANGED <<alive, serveVars, stopVars, mainUnit, storeVars>>
     \/ /\ \/ Handle(c) \/ HandleSpins(c)
           \/ LookupFinds(c) \/ LookupFails(c) \/ Insert(c) \/ Publish(c)
        /\ UNCHANGED <<alive, serveVars, stopVars, mainUnit>>
     \/ /\ Done(c) \/ Close(c)
        /\ UNCHANGED <<alive, listener, serve, stopVars, mainUnit, session, storeVars>>
     \/ Panic(c)

-----------------------------------------------------------------------------
(* Stop *)

Signal ==
  /\ "signal" \in Env
  /\ stop = "no"
  /\ stop' = "f"
  /\ UNCHANGED <<ch, clients>>

CloseClient(x, next) ==
  /\ stop = x
  /\ clients' = clients \ {x}
  /\ stop' = next
  /\ UNCHANGED ch

CloseChannelSkipped == stop = "ch" /\ stop' = "wait" /\ UNCHANGED <<ch, clients>>
CloseChannel == stop = "ch" /\ ch' = "closed" /\ stop' = "wait" /\ UNCHANGED clients

Wait ==
  /\ stop = "wait"
  /\ wg = 0
  /\ stop' = "returned"
  /\ UNCHANGED <<ch, clients>>

StopSteps ==
  \/ CloseClient("f", "redis")
  \/ CloseClient("redis", "pgsql")
  \/ CloseClient("pgsql", "mongo")
  \/ CloseClient("mongo", "ch")
  \/ CloseChannel
  \/ Wait

Stop ==
  /\ alive
  /\ StopSteps
  /\ UNCHANGED <<alive, serveVars, mainUnit, pc, session, storeVars>>

(* The owner of main_unit gives a device to another unit, or removes it.   *)
EditUnits ==
  /\ "units" \in Env
  /\ \E u \in Uids, x \in Ids \cup {NoId} : mainUnit' = [mainUnit EXCEPT ![u] = x]
  /\ UNCHANGED <<alive, serveVars, stopVars, pc, session, storeVars>>

-----------------------------------------------------------------------------
Environment ==
  /\ alive
  /\ \/ /\ Signal
        /\ UNCHANGED <<alive, serveVars, mainUnit, pc, session, storeVars>>
     \/ EditUnits

Next == Serve \/ (\E c \in Conns : HandleRequest(c)) \/ Stop \/ Environment

(* The Go scheduler runs every runnable goroutine, and every call that may *)
(* block returns: AcceptTCP and Read have a deadline of five seconds, the  *)
(* database drivers answer or fail.  Nothing makes a signal arrive.        *)
Fairness ==
  /\ WF_vars(Serve)
  /\ \A c \in Conns : WF_vars(HandleRequest(c))
  /\ WF_vars(Stop)

Spec == Init /\ [][Next]_vars /\ Fairness

-----------------------------------------------------------------------------
(* Properties *)

(* Every variable holds a value of its type: among others the counter of a *)
(* sync.WaitGroup, which panics below zero, never is.                      *)
TypeOK ==
  /\ alive \in BOOLEAN
  /\ ch \in {"open", "closed"}
  /\ wg \in Nat
  /\ listener \in {"open", "closed"}
  /\ serve \in {"select", "accept", "return", "done"}
  /\ stop \in {"no", "f", "redis", "pgsql", "mongo", "ch", "wait", "returned"}
  /\ clients \subseteq {"f", "redis", "pgsql", "mongo"}
  /\ mainUnit \in [Uids -> Ids \cup {NoId}]
  /\ pc \in [Conns -> Points]
  /\ i \in [Conns -> 0..MaxIdle]
  /\ full \in [Conns -> 0..MaxFull]
  /\ msgs \in [Conns -> 0..MaxMsgs]
  /\ imei \in [Conns -> Uids \cup {NoImei}]
  /\ id \in [Conns -> Ids \cup {NoId}]
  /\ todo \in [Conns -> Seq(1..MaxRecords)]
  /\ decoded \subseteq Batches /\ dropped \subseteq decoded
  /\ missed \subseteq Docs /\ feed \subseteq Docs
  /\ coll \in [Ids -> Seq(Docs)]

(* The counter that Stop waits on is, at every moment, the number of       *)
(* goroutines that have not run their Done: the Add of NewServer answers   *)
(* for Serve, those of Serve for the handlers it spawned.                  *)
WaitGroupCounts ==
  wg = Cardinality(Handlers) + (IF serve = "done" THEN 0 ELSE 1)

(* When Stop returns, Serve has returned and its listener is closed, and   *)
(* no handler can run more than its deferred conn.Close.                   *)
StopDrains ==
  stop = "returned" =>
    /\ serve = "done" /\ listener = "closed"
    /\ \A c \in Conns : pc[c] \in {"none", "done", "closed"}

(* Serve, which may still accept while Stop waits, never adds to a counter *)
(* that has reached zero: a Wait that has begun cannot be overtaken.       *)
NoAddAfterZero == [][wg = 0 => wg' = 0]_vars

(* After Stop has returned nothing is decoded, stored or published.        *)
NoEffectAfterStop == [][stop = "returned" => UNCHANGED storeVars]_vars

-----------------------------------------------------------------------------
Places(d) == UNION {{x} \X {k \in 1..Len(coll[x]) : coll[x][k] = d} : x \in Ids}
IsOf(d, b) == d.conn = b.conn /\ d.msg = b.msg
DocOf(b, r) == [conn |-> b.conn, msg |-> b.msg, rec |-> r, imei |-> b.imei]

Settled(b, r) == b \in dropped \/ DocOf(b, r) \in missed \/ Places(DocOf(b, r)) # {}

(* The batches of c, acknowledged to its device, with a record not yet     *)
(* stored, refused or dropped.                                             *)
Unsettled(c) == {b \in decoded : b.conn = c /\ \E r \in 1..b.size : ~Settled(b, r)}

(* What a crash can lose of a connection is its last message: every batch  *)
(* acknowledged before it is settled, and so is the last one unless its    *)
(* handler is still saving.                                                *)
LossWindow ==
  \A c \in Conns : \A b \in Unsettled(c) : b.msg = msgs[c] /\ pc[c] \in Saving

(* SaveRecords neither repeats nor loses a record nor changes their order: *)
(* each is stored once, or is missed, or is dropped with its batch, never  *)
(* two of these; and in each collection the documents of one connection    *)
(* stand in the order in which the device sent them.                       *)
Earlier(d, e) == d.msg < e.msg \/ (d.msg = e.msg /\ d.rec < e.rec)
StoredOnceInOrder ==
  /\ \A b \in decoded : \A r \in 1..b.size :
       Cardinality(Places(DocOf(b, r)))
         + (IF DocOf(b, r) \in missed THEN 1 ELSE 0)
         + (IF b \in dropped THEN 1 ELSE 0) <= 1
  /\ \A x \in Ids : \A k, l \in 1..Len(coll[x]) :
       k < l /\ coll[x][k].conn = coll[x][l].conn => Earlier(coll[x][k], coll[x][l])

(* While main_unit is not edited, a document lies in the collection of the *)
(* unit its own imei belongs to, also after a session changed its imei.    *)
FiledUnderOwner ==
  \A x \in Ids : \A k \in 1..Len(coll[x]) :
    coll[x][k].imei \in Uids /\ mainUnit[coll[x][k].imei] = x

(* Even if main_unit is edited while a batch is saved, the records of one  *)
(* batch all go to one collection: the id is looked up once per message.   *)
BatchInOneCollection ==
  \A b \in decoded :
    Cardinality({x \in Ids : \E k \in 1..Len(coll[x]) : IsOf(coll[x][k], b)}) <= 1

(* A device whose batch was acknowledged and then dropped, because its     *)
(* unit was not found, is disconnected: no later batch of it follows.      *)
DropEndsSession ==
  \A b \in dropped : pc[b.conn] \in {"return", "done", "closed"} /\ msgs[b.conn] = b.msg

-----------------------------------------------------------------------------
(* Once the signal has come, Stop returns, whatever the devices send,      *)
(* unless a panic ends the process.                                        *)
StopReturns == (stop # "no") ~> (stop = "returned" \/ ~alive)

(* A connection is closed in the end, since every device falls silent.     *)
IdleReaped == \A c \in Conns : (pc[c] = "select") ~> (pc[c] = "closed" \/ ~alive)

(* Every record of an acknowledged batch is settled in the end: stored,    *)
(* or missed by an insertion that failed, or dropped with its batch.       *)
BatchSettled ==
  \A b \in Batches : b \in decoded ~> (~alive \/ \A r \in 1..b.size : Settled(b, r))

(* The comment at server.go:194: "After 60 timeouts (5 minutes) we close   *)
(* the connection": a handler whose counter stands at 60 reads no more.    *)
ClosedAfterMaxIdle == \A c \in Conns : i[c] = MaxIdle => pc[c] \notin {"select", "read"}

-----------------------------------------------------------------------------
(* What the caller of Stop relies on, see Drain: the server is accepting   *)
(* until Serve has run its Done, and a connection is active until its      *)
(* handler has.                                                            *)
Phase == CASE ~alive -> "crashed"
           [] alive /\ stop = "no" -> "up"
           [] alive /\ stop = "returned" -> "stopped"
           [] OTHER -> "stopping"
Drain == INSTANCE Drain WITH
           phase <- Phase, accepting <- serve # "done", active <- Handlers

(* The server implements Drain: Stop returns only when nothing is active,  *)
(* nothing becomes active afterwards, and it does return.                  *)
Drains == Drain!Spec
=============================================================================
