-------------------------- MODULE ServerDataProofs --------------------------
(***************************************************************************)
(* What becomes of the records of Server, for every number of connections, *)
(* messages and records, every fault and a stop at any moment: what a      *)
(* crash can lose, that nothing is stored twice, out of order, under       *)
(* another's id or over two collections, and that a dropped batch ends its *)
(* session.  The inductive invariant is DataInv, beside IInv.              *)
(***************************************************************************)
EXTENDS ServerProofs

(* How many records of its current message a handler has given to          *)
(* InsertOne: none before the lookup, all once it reads again.             *)
Upto(c) ==
  IF pc[c] \in {"handle", "spin", "lookup"} THEN 0
  ELSE IF pc[c] = "insert" THEN Head(todo[c]) - 1
  ELSE IF pc[c] = "publish" THEN Head(todo[c])
  ELSE MaxRecords

Tried(d) ==
  \/ d.msg < msgs[d.conn]
  \/ d.msg = msgs[d.conn] /\ d.rec <= Upto(d.conn)

Stored(d) == \E x \in Ids : \E k \in 1..Len(coll[x]) : coll[x][k] = d

(* The records left are the last ones of the batch, in a row.              *)
TodoOK ==
  \A c \in Conns :
    /\ pc[c] \in Saving => \A k \in 1..Len(todo[c]) : todo[c][k] = todo[c][1] + k - 1
    /\ pc[c] = "lookup" /\ todo[c] # <<>> => todo[c][1] = 1
BatchFits(b) ==
  /\ b.msg <= msgs[b.conn]
  /\ b.msg = msgs[b.conn] =>
       /\ pc[b.conn] \notin {"handle", "spin"}
       /\ pc[b.conn] \in Saving =>
            /\ b.imei = imei[b.conn]
            /\ todo[b.conn] # <<>>
            /\ b.size = todo[b.conn][1] + Len(todo[b.conn]) - 1
BatchOK == \A b \in decoded : BatchFits(b)

(* What is stored or missed has been tried, and what has been tried of a   *)
(* batch is settled.                                                       *)
TriedOK == \A d \in Docs : d \in missed \/ Stored(d) => Tried(d)
Of(d, b) == d.conn = b.conn /\ d.msg = b.msg /\ d.imei = b.imei /\ d.rec <= b.size
SettledOK ==
  \A b \in decoded : \A d \in Docs :
    Of(d, b) /\ Tried(d) => b \in dropped \/ d \in missed \/ Stored(d)

(* A document is settled in one way only.                                  *)
OneWay ==
  /\ \A d \in missed : ~Stored(d)
  /\ \A b \in dropped : \A d \in Docs : d \in missed \/ Stored(d) => ~IsOf(d, b)

InOrder ==
  \A x \in Ids : \A k, l \in 1..Len(coll[x]) :
    k < l /\ coll[x][k].conn = coll[x][l].conn => Earlier(coll[x][k], coll[x][l])

(* The documents of one message stand in one collection: while it is       *)
(* saved, in that of the id looked up.                                     *)
OneCollection ==
  /\ \A x \in Ids : \A k \in 1..Len(coll[x]) :
       LET d == coll[x][k]
       IN  d.msg = msgs[d.conn] /\ pc[d.conn] \in {"insert", "publish"} => x = id[d.conn]
  /\ \A x, y \in Ids : \A k \in 1..Len(coll[x]), l \in 1..Len(coll[y]) :
       coll[x][k].conn = coll[y][l].conn /\ coll[x][k].msg = coll[y][l].msg => x = y

DataInv ==
  /\ TodoOK /\ BatchOK /\ TriedOK /\ SettledOK /\ OneWay
  /\ InOrder /\ OneCollection /\ DropEndsSession

dataVars == <<pc, msgs, imei, id, todo, storeVars>>

-----------------------------------------------------------------------------
(* What the batches, the stores and the sessions hold has its type.        *)
LEMMA BatchesTyped ==
  ASSUME IInv, NEW b \in decoded
  PROVE  b.conn \in Conns /\ b.msg \in Nat /\ b.size \in 1..MaxRecords
BY ServerAssumption DEF IInv, TypeOK, Batches

LEMMA CollTyped ==
  ASSUME IInv, NEW x \in Ids, NEW k \in 1..Len(coll[x])
  PROVE  coll[x][k] \in Docs /\ coll[x][k].conn \in Conns
<1>1. coll[x] \in Seq(Docs)
  BY DEF IInv, TypeOK
<1>2. coll[x][k] \in Docs
  BY <1>1
<1> QED BY <1>2 DEF Docs

LEMMA SessionTyped ==
  ASSUME IInv, NEW c \in Conns
  PROVE  msgs[c] \in Nat /\ todo[c] \in Seq(1..MaxRecords)
BY ServerAssumption DEF IInv, TypeOK

LEMMA DocsTyped ==
  ASSUME NEW d \in Docs
  PROVE  d.conn \in Conns /\ d.msg \in Nat \ {0} /\ d.rec \in 1..MaxRecords
BY ServerAssumption DEF Docs

LEMMA DataStutter == DataInv /\ UNCHANGED dataVars => DataInv'
BY DEF DataInv, dataVars, TodoOK, BatchOK, BatchFits, TriedOK, SettledOK, OneWay, InOrder,
       OneCollection, DropEndsSession, Stored, Tried, Upto, storeVars, IsOf, Of, Earlier

(* A step of one handler that leaves the stores alone and makes no record  *)
(* tried or untried.                                                       *)
LEMMA SameTried ==
  ASSUME IInv, DataInv, \A d \in Docs : Tried(d)' <=> Tried(d), UNCHANGED storeVars
  PROVE  TriedOK' /\ SettledOK' /\ OneWay' /\ InOrder'
<1>1. \A d : Stored(d)' <=> Stored(d)
  BY DEF Stored, storeVars
<1>2. TriedOK' /\ SettledOK' /\ OneWay'
  BY <1>1 DEF DataInv, TriedOK, SettledOK, OneWay, storeVars, Of, IsOf
<1>3. InOrder'
  BY DEF DataInv, InOrder, storeVars, Earlier
<1> QED BY <1>2, <1>3

(* What the other handlers know of their messages stays as it is.          *)
LEMMA Elsewhere ==
  ASSUME NEW c \in Conns, NEW e \in Conns, e # c,
         pc'[e] = pc[e], msgs'[e] = msgs[e], todo'[e] = todo[e]
  PROVE  Upto(e)' = Upto(e)
BY DEF Upto

(* Points at which nothing is left of the current message.                 *)
Idle == {"none", "nil", "select", "read", "return", "done", "closed"}

LEMMA UptoIdle ==
  ASSUME NEW c \in Conns, pc[c] \in Idle
  PROVE  Upto(c) = MaxRecords
BY DEF Upto, Idle

LEMMA FitsElsewhere ==
  ASSUME NEW b, BatchFits(b), UNCHANGED <<msgs[b.conn], pc[b.conn], imei[b.conn], todo[b.conn]>>
  PROVE  BatchFits(b)'
BY DEF BatchFits

(* The batches of a connection that has read one message more.             *)
LEMMA Past ==
  ASSUME NEW b, b.msg \in Nat, msgs'[b.conn] \in Nat, b.msg < msgs'[b.conn]
  PROVE  BatchFits(b)'
BY DEF BatchFits

(* A handler that goes from one such point to another changes nothing.     *)
LEMMA DataIdle ==
  ASSUME IInv, DataInv, NEW c \in Conns, NEW l \in Idle, pc[c] \in Idle, Goto(c, l),
         pc[c] \in {"return", "done", "closed"} => l \in {"return", "done", "closed"},
         UNCHANGED <<msgs, imei, id, todo, storeVars>>
  PROVE  DataInv'
<1>1. \A e \in Conns : pc'[e] = IF e = c THEN l ELSE pc[e]
  BY DEF Goto, IInv, TypeOK
<1>2. \A e \in Conns : Upto(e)' = Upto(e)
  BY <1>1 DEF Upto, Idle
<1>3. \A d \in Docs : Tried(d)' <=> Tried(d)
  BY <1>2 DEF Tried, Docs
<1>4. TodoOK' /\ BatchOK'
  BY <1>1, BatchesTyped DEF DataInv, TodoOK, BatchOK, BatchFits, Idle, Saving, storeVars
<1>5. OneCollection'
  BY <1>1, CollTyped DEF DataInv, OneCollection, storeVars, Idle
<1>6. DropEndsSession'
  BY <1>1, BatchesTyped DEF DataInv, DropEndsSession, storeVars, IInv, TypeOK
<1> QED BY <1>3, <1>4, <1>5, <1>6, SameTried DEF DataInv

(* A message has been read: all of the one before has been tried.          *)
LEMMA DataRead ==
  ASSUME IInv, DataInv, NEW c \in Conns, pc[c] = "read", Goto(c, "handle"),
         msgs' = [msgs EXCEPT ![c] = @ + 1],
         UNCHANGED <<imei, id, todo, storeVars>>
  PROVE  DataInv'
<1>1. /\ \A e \in Conns : pc'[e] = IF e = c THEN "handle" ELSE pc[e]
      /\ \A e \in Conns : msgs'[e] = IF e = c THEN msgs[c] + 1 ELSE msgs[e]
  BY DEF Goto, IInv, TypeOK
<1>2. Upto(c) = MaxRecords /\ Upto(c)' = 0
  BY <1>1 DEF Upto
<1>3. \A d \in Docs : Tried(d)' <=> Tried(d)
  <2> SUFFICES ASSUME NEW d \in Docs PROVE Tried(d)' <=> Tried(d)
    OBVIOUS
  <2>1. CASE d.conn = c
    BY <2>1, <1>1, <1>2, SessionTyped, DocsTyped, ServerAssumption DEF Tried
  <2>2. CASE d.conn # c
    <3>1. Upto(d.conn)' = Upto(d.conn)
      BY <2>2, <1>1, DocsTyped, Elsewhere
    <3> QED BY <2>2, <3>1, <1>1, DocsTyped DEF Tried
  <2> QED BY <2>1, <2>2
<1>4. TodoOK' /\ BatchOK'
  <2>1. TodoOK'
    BY <1>1 DEF DataInv, TodoOK, Saving
  <2>2. ASSUME NEW b \in decoded, b.conn = c PROVE BatchFits(b)'
    <3>1. b.msg <= msgs[c]
      BY <2>2 DEF DataInv, BatchOK, BatchFits
    <3>2. b.msg \in Nat /\ msgs[c] \in Nat /\ msgs'[c] = msgs[c] + 1
      BY <1>1, BatchesTyped, SessionTyped
    <3>3. b.msg < msgs'[c] /\ msgs'[c] \in Nat
      BY <3>1, <3>2
    <3> QED BY <2>2, <3>2, <3>3, Past
  <2>3. ASSUME NEW b \in decoded, b.conn # c PROVE BatchFits(b)'
    <3>1. UNCHANGED <<msgs[b.conn], pc[b.conn], imei[b.conn], todo[b.conn]>>
      BY <2>3, <1>1, BatchesTyped
    <3> QED BY <3>1, FitsElsewhere DEF DataInv, BatchOK
  <2>4. UNCHANGED decoded
    BY DEF storeVars
  <2> QED BY <2>1, <2>2, <2>3, <2>4 DEF BatchOK
<1>5. OneCollection'
  BY <1>1, CollTyped DEF DataInv, OneCollection, storeVars
<1>6. DropEndsSession'
  BY <1>1, BatchesTyped DEF DataInv, DropEndsSession, storeVars, IInv, TypeOK
<1> QED BY <1>3, <1>4, <1>5, <1>6, SameTried DEF DataInv

(* Reading, in all its outcomes.                                           *)
LEMMA ReadDataInv ==
  ASSUME IInv, DataInv, NEW c \in Conns,
         Select(c) \/ ReadTimeout(c) \/ ReadError(c) \/ ReadData(c), UNCHANGED storeVars
  PROVE  DataInv'
<1>1. CASE UNCHANGED msgs
  <2>1. PICK l \in Idle : Goto(c, l)
    <3>1. \E l \in {"return", "read", "select"} : Goto(c, l)
      BY <1>1 DEF Select, ReadTimeout, ReadError, ReadData, IInv, TypeOK
    <3> QED BY <3>1 DEF Idle
  <2>2. pc[c] \in {"select", "read"} /\ UNCHANGED <<imei, id, todo>>
    BY DEF Select, ReadTimeout, ReadError, ReadData, session
  <2>3. pc[c] \in Idle /\ pc[c] \notin {"return", "done", "closed"}
    BY <2>2 DEF Idle
  <2> QED BY <1>1, <2>1, <2>2, <2>3, DataIdle
<1>2. CASE ~UNCHANGED msgs
  BY <1>2, DataRead DEF Select, ReadTimeout, ReadError, ReadData, session
<1> QED BY <1>1, <1>2

-----------------------------------------------------------------------------
(* Nothing of a message is stored before its lookup: nothing of it has     *)
(* been tried.                                                             *)
LEMMA NothingYet ==
  ASSUME IInv, DataInv, NEW c \in Conns, pc[c] \in {"handle", "spin", "lookup"},
         NEW d \in Docs, d.conn = c, d.msg = msgs[c]
  PROVE  ~Tried(d) /\ d \notin missed /\ ~Stored(d)
<1>1. Upto(c) = 0
  BY DEF Upto
<1>2. ~Tried(d)
  BY <1>1, DocsTyped, SessionTyped DEF Tried
<1> QED BY <1>2 DEF DataInv, TriedOK

(* What handle returns is a batch of which nothing has been tried.         *)
LEMMA DataHandle ==
  ASSUME IInv, DataInv, NEW c \in Conns, Handle(c) PROVE DataInv'
<1>1. PICK m \in Uids \cup {NoImei}, n \in 0..MaxRecords :
        /\ imei' = [imei EXCEPT ![c] = m]
        /\ todo' = [todo EXCEPT ![c] = [k \in 1..n |-> k]]
        /\ decoded' = decoded \cup (IF n = 0 THEN {} ELSE {Batch(c, n, m)})
  BY DEF Handle
<1>2. /\ pc[c] = "handle" /\ Goto(c, "lookup")
      /\ UNCHANGED <<msgs, id, dropped, missed, coll, feed>>
  BY DEF Handle
<1>3. \A e \in Conns :
        /\ pc'[e] = IF e = c THEN "lookup" ELSE pc[e]
        /\ imei'[e] = IF e = c THEN m ELSE imei[e]
        /\ todo'[e] = IF e = c THEN [k \in 1..n |-> k] ELSE todo[e]
  BY <1>1, <1>2 DEF Goto, IInv, TypeOK
<1>4. \A e \in Conns : Upto(e)' = Upto(e)
  BY <1>2, <1>3 DEF Upto
<1>5. \A d \in Docs : Tried(d)' <=> Tried(d)
  BY <1>2, <1>4, DocsTyped DEF Tried
<1>6. \A d : Stored(d)' <=> Stored(d)
  BY <1>2 DEF Stored
<1>7. /\ todo'[c] = [k \in 1..n |-> k] /\ Len(todo'[c]) = n
      /\ n # 0 => todo'[c] # <<>> /\ todo'[c][1] = 1
  BY <1>3, ServerAssumption
<1>8. TodoOK' /\ BatchOK'
  <2>1. \A e \in Conns \ {c} : pc'[e] = pc[e] /\ todo'[e] = todo[e]
    BY <1>3
  <2>2. \A k \in 1..Len(todo'[c]) : todo'[c][k] = todo'[c][1] + k - 1
    BY <1>7
  <2>3. todo'[c] # <<>> => todo'[c][1] = 1
    BY <1>7
  <2>4. TodoOK'
    BY <2>1, <2>2, <2>3 DEF DataInv, TodoOK
  <2>5. ASSUME NEW b \in decoded, b.conn = c PROVE BatchFits(b)'
    <3>1. b.msg <= msgs[c] /\ b.msg # msgs[c]
      BY <1>2, <2>5 DEF DataInv, BatchOK, BatchFits
    <3>2. b.msg \in Nat /\ msgs[c] \in Nat /\ msgs'[c] = msgs[c]
      BY <1>2, BatchesTyped, SessionTyped
    <3>3. b.msg < msgs'[c]
      BY <3>1, <3>2
    <3> QED BY <2>5, <3>2, <3>3, Past
  <2>6. ASSUME NEW b \in decoded, b.conn # c PROVE BatchFits(b)'
    <3>1. UNCHANGED <<msgs[b.conn], pc[b.conn], imei[b.conn], todo[b.conn]>>
      BY <2>6, <1>2, <1>3, BatchesTyped
    <3> QED BY <3>1, FitsElsewhere DEF DataInv, BatchOK
  <2>7. ASSUME NEW b \in decoded', b \notin decoded PROVE BatchFits(b)'
    <3>1. n # 0 /\ b = Batch(c, n, m)
      BY <1>1, <2>7
    <3>2. b.conn = c /\ b.msg = msgs'[c] /\ b.imei = imei'[c] /\ b.size = n
      BY <1>2, <1>3, <3>1 DEF Batch
    <3>3. pc'[c] = "lookup" /\ msgs'[c] \in Nat
      BY <1>2, <1>3, SessionTyped
    <3>4. b.size = todo'[c][1] + Len(todo'[c]) - 1
      BY <1>7, <3>1, <3>2
    <3>5. todo'[c] # <<>>
      BY <1>7, <3>1
    <3> QED BY <3>2, <3>3, <3>4, <3>5 DEF BatchFits
  <2> QED BY <2>4, <2>5, <2>6, <2>7 DEF BatchOK
<1>9. TriedOK' /\ OneWay'
  BY <1>2, <1>5, <1>6 DEF DataInv, TriedOK, OneWay, IsOf
<1>10. SettledOK'
  <2>1. ASSUME NEW b \in decoded', b \notin decoded, NEW d \in Docs, Of(d, b)
        PROVE  ~Tried(d)
    <3>1. n # 0 /\ b = Batch(c, n, m)
      BY <1>1, <2>1
    <3>2. d.conn = c /\ d.msg = msgs[c]
      BY <2>1, <3>1 DEF Of, Batch
    <3> QED BY <3>2, <1>2, NothingYet
  <2> QED BY <2>1, <1>2, <1>5, <1>6 DEF DataInv, SettledOK, Of
<1>11. InOrder' /\ OneCollection'
  <2>1. InOrder'
    BY <1>2 DEF DataInv, InOrder, Earlier
  <2>2. OneCollection'
    BY <1>2, <1>3, CollTyped DEF DataInv, OneCollection
  <2> QED BY <2>1, <2>2
<1>12. DropEndsSession'
  BY <1>2, <1>3, BatchesTyped DEF DataInv, DropEndsSession, IInv, TypeOK
<1> QED BY <1>8, <1>9, <1>10, <1>11, <1>12 DEF DataInv

-----------------------------------------------------------------------------
(* Saving: how far the handler has come, and what a step makes tried.      *)
LEMMA UptoTyped ==
  ASSUME IInv, NEW c \in Conns
  PROVE  Upto(c) \in 0..MaxRecords
<1>1. CASE pc[c] \in {"insert", "publish"}
  <2>1. todo[c] # <<>> /\ todo[c] \in Seq(1..MaxRecords)
    BY <1>1, SessionTyped DEF IInv, SavingOK
  <2>2. Head(todo[c]) \in 1..MaxRecords
    BY <2>1, HeadTailProperties
  <2> QED BY <1>1, <2>2, ServerAssumption DEF Upto
<1> QED BY <1>1, ServerAssumption DEF Upto

LEMMA TriedGrows ==
  ASSUME IInv, NEW c \in Conns, UNCHANGED msgs,
         \A e \in Conns \ {c} : pc'[e] = pc[e] /\ todo'[e] = todo[e],
         Upto(c)' \in Nat, Upto(c) <= Upto(c)'
  PROVE  \A d \in Docs :
           /\ Tried(d) => Tried(d)'
           /\ Tried(d)' /\ ~Tried(d) =>
                d.conn = c /\ d.msg = msgs[c] /\ Upto(c) < d.rec /\ d.rec <= Upto(c)'
<1> SUFFICES ASSUME NEW d \in Docs
             PROVE  /\ Tried(d) => Tried(d)'
                    /\ Tried(d)' /\ ~Tried(d) =>
                         d.conn = c /\ d.msg = msgs[c] /\ Upto(c) < d.rec /\ d.rec <= Upto(c)'
  OBVIOUS
<1>1. d.conn \in Conns /\ d.rec \in Nat /\ Upto(c) \in Nat
  BY DocsTyped, UptoTyped
<1>2. CASE d.conn # c
  <2>1. Upto(d.conn)' = Upto(d.conn)
    BY <1>1, <1>2, Elsewhere
  <2> QED BY <1>2, <2>1 DEF Tried
<1>3. CASE d.conn = c
  BY <1>1, <1>3 DEF Tried
<1> QED BY <1>2, <1>3

(* A batch of another connection, or one whose handler goes on with it.    *)
LEMMA FitsOn ==
  ASSUME IInv, DataInv, NEW c \in Conns, NEW l, Goto(c, l), l \notin {"handle", "spin"},
         UNCHANGED <<msgs, imei, todo>>, pc[c] \in Saving
  PROVE  \A b \in decoded : BatchFits(b)'
<1> SUFFICES ASSUME NEW b \in decoded PROVE BatchFits(b)'
  OBVIOUS
<1>1. b.conn \in Conns /\ pc'[b.conn] = IF b.conn = c THEN l ELSE pc[b.conn]
  BY BatchesTyped DEF Goto, IInv, TypeOK
<1>2. BatchFits(b)
  BY DEF DataInv, BatchOK
<1> QED BY <1>1, <1>2 DEF BatchFits

(* The id has been looked up; without records the message is done.         *)
LEMMA DataFinds ==
  ASSUME IInv, DataInv, NEW c \in Conns, LookupFinds(c) PROVE DataInv'
<1>1. /\ pc[c] = "lookup"
      /\ Goto(c, IF todo[c] = <<>> THEN "select" ELSE "insert")
      /\ id' = [id EXCEPT ![c] = Row(c)]
      /\ UNCHANGED <<msgs, imei, todo, storeVars>>
  BY DEF LookupFinds
<1>2. \A e \in Conns :
        /\ pc'[e] = IF e = c THEN IF todo[c] = <<>> THEN "select" ELSE "insert" ELSE pc[e]
        /\ e # c => id'[e] = id[e]
  BY <1>1 DEF Goto, IInv, TypeOK
<1>3. Upto(c) = 0
  BY <1>1 DEF Upto
<1>4. Upto(c)' = IF todo[c] = <<>> THEN MaxRecords ELSE 0
  <2>1. CASE todo[c] = <<>>
    BY <1>1, <1>2, <2>1 DEF Upto
  <2>2. CASE todo[c] # <<>>
    <3>1. todo[c] \in Seq(1..MaxRecords) /\ todo[c][1] = 1
      BY <1>1, <2>2, SessionTyped DEF DataInv, TodoOK
    <3>2. Head(todo[c]) = 1
      BY <2>2, <3>1, HeadTailProperties
    <3> QED BY <1>1, <1>2, <2>2, <3>2 DEF Upto
  <2> QED BY <2>1, <2>2
<1>5. \A d \in Docs :
        /\ Tried(d) => Tried(d)'
        /\ Tried(d)' /\ ~Tried(d) => d.conn = c /\ d.msg = msgs[c] /\ todo[c] = <<>>
  <2>1. Upto(c)' \in Nat /\ Upto(c) <= Upto(c)'
    BY <1>3, <1>4, ServerAssumption
  <2>2. \A e \in Conns \ {c} : pc'[e] = pc[e] /\ todo'[e] = todo[e]
    BY <1>1, <1>2
  <2> QED BY <1>1, <1>3, <1>4, <2>1, <2>2, TriedGrows, DocsTyped
<1>6. TodoOK' /\ BatchOK'
  <2>1. TodoOK'
    BY <1>1, <1>2 DEF DataInv, TodoOK, Saving
  <2>2. \A b \in decoded : BatchFits(b)'
    BY <1>1, FitsOn DEF Saving
  <2> QED BY <1>1, <2>1, <2>2 DEF BatchOK, storeVars
<1>7. \A d : Stored(d)' <=> Stored(d)
  BY <1>1 DEF Stored, storeVars
<1>8. TriedOK' /\ OneWay' /\ InOrder'
  BY <1>1, <1>5, <1>7 DEF DataInv, TriedOK, OneWay, InOrder, storeVars, IsOf, Earlier
<1>9. SettledOK'
  <2>1. ASSUME NEW b \in decoded, NEW d \in Docs, Of(d, b), Tried(d)'
        PROVE  Tried(d)
    <3>1. b.conn = c /\ b.msg = msgs[c] => todo[c] # <<>>
      BY <1>1 DEF DataInv, BatchOK, BatchFits, Saving
    <3> QED BY <1>5, <2>1, <3>1 DEF Of
  <2> QED BY <1>1, <1>7, <2>1 DEF DataInv, SettledOK, storeVars, Of
<1>10. OneCollection'
  <2>1. ASSUME NEW x \in Ids, NEW k \in 1..Len(coll[x]), coll[x][k].conn = c
        PROVE  coll[x][k].msg # msgs[c]
    BY <1>1, <2>1, CollTyped, NothingYet DEF Stored
  <2> QED BY <1>1, <1>2, <2>1, CollTyped DEF DataInv, OneCollection, storeVars
<1>11. DropEndsSession'
  BY <1>1, <1>2, BatchesTyped DEF DataInv, DropEndsSession, IInv, TypeOK, storeVars
<1> QED BY <1>6, <1>8, <1>9, <1>10, <1>11 DEF DataInv

(* Without an id the batch is dropped, and the session ends.               *)
LEMMA DataFails ==
  ASSUME IInv, DataInv, NEW c \in Conns, LookupFails(c) PROVE DataInv'
<1>1. /\ pc[c] = "lookup" /\ Goto(c, "return")
      /\ dropped' = dropped \cup {b \in decoded : b.conn = c /\ b.msg = msgs[c]}
      /\ todo' = [todo EXCEPT ![c] = <<>>]
      /\ UNCHANGED <<msgs, imei, id, decoded, missed, coll>>
  BY DEF LookupFails
<1>2. \A e \in Conns :
        /\ pc'[e] = IF e = c THEN "return" ELSE pc[e]
        /\ e # c => todo'[e] = todo[e]
  BY <1>1 DEF Goto, IInv, TypeOK
<1>3. Upto(c) = 0 /\ Upto(c)' = MaxRecords
  BY <1>1, <1>2 DEF Upto
<1>4. \A d \in Docs :
        /\ Tried(d) => Tried(d)'
        /\ Tried(d)' /\ ~Tried(d) => d.conn = c /\ d.msg = msgs[c]
  BY <1>1, <1>2, <1>3, TriedGrows, ServerAssumption
<1>5. \A d : Stored(d)' <=> Stored(d)
  BY <1>1 DEF Stored
<1>6. TodoOK' /\ BatchOK'
  <2>1. TodoOK'
    BY <1>1, <1>2 DEF DataInv, TodoOK, Saving
  <2>2. ASSUME NEW b \in decoded PROVE BatchFits(b)'
    BY <1>1, <1>2, BatchesTyped DEF DataInv, BatchOK, BatchFits, Saving
  <2> QED BY <1>1, <2>1, <2>2 DEF BatchOK
<1>7. TriedOK' /\ InOrder'
  BY <1>1, <1>4, <1>5 DEF DataInv, TriedOK, InOrder, Earlier
<1>8. SettledOK'
  BY <1>1, <1>4, <1>5 DEF DataInv, SettledOK, Of
<1>9. OneWay'
  <2>1. ASSUME NEW d \in Docs, d \in missed \/ Stored(d)
        PROVE  ~(d.conn = c /\ d.msg = msgs[c])
    BY <1>1, <2>1, NothingYet
  <2> QED BY <1>1, <1>5, <2>1 DEF DataInv, OneWay, IsOf
<1>10. OneCollection'
  BY <1>1, <1>2, CollTyped DEF DataInv, OneCollection
<1>11. DropEndsSession'
  BY <1>1, <1>2, BatchesTyped DEF DataInv, DropEndsSession, IInv, TypeOK
<1> QED BY <1>6, <1>7, <1>8, <1>9, <1>10, <1>11 DEF DataInv

(* InsertOne: one record more is tried, and it is stored or missed.        *)
LEMMA SameDoc ==
  ASSUME NEW d \in Docs, NEW e \in Docs,
         d.conn = e.conn, d.msg = e.msg, d.rec = e.rec, d.imei = e.imei
  PROVE  d = e
BY DEF Docs

LEMMA DataInsert ==
  ASSUME IInv, DataInv, NEW c \in Conns, Insert(c) PROVE DataInv'
<1>0. PICK doc \in Docs : doc = Doc(c)
  BY DocTyped DEF Insert, IInv
<1>1. /\ pc[c] = "insert" /\ Goto(c, "publish")
      /\ UNCHANGED <<msgs, imei, id, todo, decoded, dropped>>
      /\ \/ coll' = [coll EXCEPT ![id[c]] = Append(@, doc)] /\ UNCHANGED missed
         \/ missed' = missed \cup {doc} /\ UNCHANGED coll
  BY <1>0 DEF Insert, InsertTarget, session
<1>2. \A e \in Conns : pc'[e] = IF e = c THEN "publish" ELSE pc[e]
  BY <1>1 DEF Goto, IInv, TypeOK
<1>3. id[c] \in Ids /\ todo[c] # <<>>
  BY <1>1 DEF IInv, SavingOK
<1>4. /\ doc.conn = c /\ doc.msg = msgs[c] /\ doc.imei = imei[c]
      /\ doc.rec = Head(todo[c]) /\ doc.rec \in Nat
  BY <1>0, DocsTyped DEF Doc
<1>5. Upto(c) = doc.rec - 1 /\ Upto(c)' = doc.rec
  BY <1>1, <1>2, <1>4 DEF Upto
<1>6. \A d \in Docs :
        /\ Tried(d) => Tried(d)'
        /\ Tried(d)' /\ ~Tried(d) => d.conn = c /\ d.msg = msgs[c] /\ d.rec = doc.rec
  <2>1. Upto(c)' \in Nat /\ Upto(c) <= Upto(c)'
    BY <1>4, <1>5
  <2>2. \A e \in Conns \ {c} : pc'[e] = pc[e] /\ todo'[e] = todo[e]
    BY <1>1, <1>2
  <2>3. \A d \in Docs : d.rec \in Nat
    BY DocsTyped
  <2>4. \A d \in Docs :
          /\ Tried(d) => Tried(d)'
          /\ Tried(d)' /\ ~Tried(d) =>
               d.conn = c /\ d.msg = msgs[c] /\ Upto(c) < d.rec /\ d.rec <= Upto(c)'
    BY <1>1, <2>1, <2>2, TriedGrows
  <2> QED BY <1>4, <1>5, <2>3, <2>4
<1>7. ~Tried(doc) /\ Tried(doc)' /\ doc \notin missed /\ ~Stored(doc)
  <2>1. msgs[c] \in Nat
    BY SessionTyped
  <2>2. ~Tried(doc) /\ Tried(doc)'
    BY <1>1, <1>4, <1>5, <2>1 DEF Tried
  <2> QED BY <1>3, <2>2 DEF DataInv, TriedOK
<1>8. coll[id[c]] \in Seq(Docs)
  BY <1>3 DEF IInv, TypeOK
<1> DEFINE Outcome ==
      /\ \A d \in Docs : d \in missed' \/ Stored(d)' <=> d \in missed \/ Stored(d) \/ d = doc
      /\ \A d \in missed' : ~Stored(d)'
      /\ InOrder' /\ OneCollection'
<1>9. ASSUME coll' = [coll EXCEPT ![id[c]] = Append(@, doc)] /\ UNCHANGED missed
      PROVE  Outcome
  <2>1. /\ \A x \in Ids : x # id[c] => coll'[x] = coll[x]
        /\ Len(coll'[id[c]]) = Len(coll[id[c]]) + 1
        /\ \A k \in 1..Len(coll[id[c]]) : coll'[id[c]][k] = coll[id[c]][k]
        /\ coll'[id[c]][Len(coll[id[c]]) + 1] = doc
        /\ Len(coll[id[c]]) \in Nat
    <3>1. coll'[id[c]] = Append(coll[id[c]], doc)
      BY <1>3, <1>9 DEF IInv, TypeOK
    <3>2. \A x \in Ids : x # id[c] => coll'[x] = coll[x]
      BY <1>9 DEF IInv, TypeOK
    <3> QED BY <1>3, <1>8, <3>1, <3>2, AppendProperties
  <2>2. ASSUME NEW x \in Ids, NEW k \in 1..Len(coll'[x])
        PROVE  \/ k \in 1..Len(coll[x]) /\ coll'[x][k] = coll[x][k]
               \/ x = id[c] /\ k = Len(coll[x]) + 1 /\ coll'[x][k] = doc
    BY <2>1
  <2>3. \A d : Stored(d)' <=> Stored(d) \/ d = doc
    <3>1. ASSUME NEW d, Stored(d)' PROVE Stored(d) \/ d = doc
      BY <2>2, <3>1 DEF Stored
    <3>2. ASSUME NEW d, Stored(d) PROVE Stored(d)'
      <4>1. PICK x \in Ids : \E k \in 1..Len(coll[x]) : coll[x][k] = d
        BY <3>2 DEF Stored
      <4>2. PICK k \in 1..Len(coll[x]) : coll[x][k] = d
        BY <4>1
      <4>3. k \in 1..Len(coll'[x]) /\ coll'[x][k] = d
        BY <2>1, <4>2
      <4> QED BY <4>3 DEF Stored
    <3>3. Stored(doc)'
      <4>1. Len(coll[id[c]]) + 1 \in 1..Len(coll'[id[c]])
        BY <2>1
      <4> QED BY <1>3, <2>1, <4>1 DEF Stored
    <3> QED BY <3>1, <3>2, <3>3
  <2>4. \A x \in Ids : \A k \in 1..Len(coll[x]) :
          /\ coll[x][k] \in Docs /\ coll[x][k].conn \in Conns
          /\ Tried(coll[x][k])
    BY CollTyped DEF DataInv, TriedOK, Stored
  <2>5. InOrder'
    <3> SUFFICES ASSUME NEW x \in Ids, NEW k \in 1..Len(coll'[x]), NEW l \in 1..Len(coll'[x]),
                        k < l, coll'[x][k].conn = coll'[x][l].conn
                 PROVE  Earlier(coll'[x][k], coll'[x][l])
      BY DEF InOrder, Earlier
    <3>1. CASE l \in 1..Len(coll[x])
      <4>1. k \in 1..Len(coll[x])
        BY <3>1
      <4>2. coll'[x][k] = coll[x][k] /\ coll'[x][l] = coll[x][l]
        BY <3>1, <4>1, <2>1
      <4> QED BY <3>1, <4>1, <4>2 DEF DataInv, InOrder
    <3>2. CASE l \notin 1..Len(coll[x])
      <4>1. x = id[c] /\ l = Len(coll[x]) + 1 /\ coll'[x][l] = doc
        BY <2>2, <3>2
      <4>2. k \in 1..Len(coll[x]) /\ coll'[x][k] = coll[x][k]
        BY <2>1, <4>1
      <4>3. coll[x][k].conn = c /\ Tried(coll[x][k]) /\ coll[x][k] \in Docs
        BY <1>4, <2>4, <4>1, <4>2
      <4>4. coll[x][k].rec \in Nat
        BY <4>3, DocsTyped
      <4> QED BY <1>4, <1>5, <4>1, <4>2, <4>3, <4>4 DEF Tried, Earlier
    <3> QED BY <3>1, <3>2
  <2>6. OneCollection'
    <3>1. ASSUME NEW y \in Ids, NEW k \in 1..Len(coll[y]),
                 coll[y][k].conn = c, coll[y][k].msg = msgs[c]
          PROVE  y = id[c]
      BY <1>1, <3>1 DEF DataInv, OneCollection
    <3>2. ASSUME NEW x \in Ids, NEW k \in 1..Len(coll'[x]),
                 coll'[x][k].msg = msgs'[coll'[x][k].conn],
                 pc'[coll'[x][k].conn] \in {"insert", "publish"}
          PROVE  x = id'[coll'[x][k].conn]
      <4>1. CASE k \in 1..Len(coll[x]) /\ coll'[x][k] = coll[x][k]
        BY <1>1, <1>2, <2>4, <3>2, <4>1 DEF DataInv, OneCollection
      <4>2. CASE x = id[c] /\ coll'[x][k] = doc
        BY <1>1, <1>4, <4>2
      <4> QED BY <2>2, <4>1, <4>2
    <3>3. ASSUME NEW x \in Ids, NEW y \in Ids,
                 NEW k \in 1..Len(coll'[x]), NEW l \in 1..Len(coll'[y]),
                 coll'[x][k].conn = coll'[y][l].conn, coll'[x][k].msg = coll'[y][l].msg
          PROVE  x = y
      <4>1. CASE coll'[x][k] = doc /\ x = id[c]
        BY <1>4, <2>2, <3>1, <3>3, <4>1
      <4>2. CASE coll'[y][l] = doc /\ y = id[c]
        BY <1>4, <2>2, <3>1, <3>3, <4>2
      <4>3. CASE /\ k \in 1..Len(coll[x]) /\ coll'[x][k] = coll[x][k]
                 /\ l \in 1..Len(coll[y]) /\ coll'[y][l] = coll[y][l]
        BY <3>3, <4>3 DEF DataInv, OneCollection
      <4> QED BY <2>2, <4>1, <4>2, <4>3
    <3> QED BY <3>2, <3>3 DEF OneCollection
  <2>7. \A d \in missed' : ~Stored(d)'
    BY <1>7, <1>9, <2>3 DEF DataInv, OneWay
  <2> QED BY <1>9, <2>3, <2>5, <2>6, <2>7
<1>10. ASSUME missed' = missed \cup {doc} /\ UNCHANGED coll
       PROVE  Outcome
  <2>1. \A d : Stored(d)' <=> Stored(d)
    BY <1>10 DEF Stored
  <2>2. InOrder'
    BY <1>10 DEF DataInv, InOrder, Earlier
  <2>3. OneCollection'
    BY <1>1, <1>2, <1>10, CollTyped DEF DataInv, OneCollection
  <2>4. \A d \in missed' : ~Stored(d)'
    BY <1>7, <1>10, <2>1 DEF DataInv, OneWay
  <2> QED BY <1>10, <2>1, <2>2, <2>3, <2>4
<1>11. Outcome
  BY <1>1, <1>9, <1>10
<1>12. TodoOK' /\ BatchOK'
  <2>1. TodoOK'
    BY <1>1, <1>2 DEF DataInv, TodoOK, Saving
  <2>2. \A b \in decoded : BatchFits(b)'
    BY <1>1, FitsOn DEF Saving
  <2> QED BY <1>1, <2>1, <2>2 DEF BatchOK
<1>13. TriedOK'
  BY <1>6, <1>7, <1>11 DEF DataInv, TriedOK
<1>14. SettledOK'
  <2>1. ASSUME NEW b \in decoded, NEW d \in Docs, Of(d, b), Tried(d)', ~Tried(d)
        PROVE  d = doc
    <3>1. d.conn = c /\ d.msg = msgs[c] /\ d.rec = doc.rec
      BY <1>6, <2>1
    <3>2. b.imei = imei[c]
      BY <1>1, <2>1, <3>1 DEF DataInv, BatchOK, BatchFits, Of, Saving
    <3> QED BY <1>3, <1>4, <2>1, <3>1, <3>2, SameDoc DEF Of
  <2> QED BY <1>1, <1>11, <2>1 DEF DataInv, SettledOK, Of
<1>15. OneWay' /\ DropEndsSession'
  <2>1. DropEndsSession'
    BY <1>1, <1>2, BatchesTyped DEF DataInv, DropEndsSession, IInv, TypeOK
  <2>2. \A b \in dropped : b.conn # c
    BY <1>1 DEF DataInv, DropEndsSession
  <2> QED BY <1>1, <1>4, <1>11, <2>1, <2>2 DEF DataInv, OneWay, IsOf
<1> QED BY <1>11, <1>12, <1>13, <1>14, <1>15 DEF DataInv

(* The tail of numbers in a row.                                           *)
LEMMA InARow ==
  ASSUME NEW N \in Nat, NEW s \in Seq(1..N), s # <<>>,
         \A k \in 1..Len(s) : s[k] = s[1] + k - 1
  PROVE  /\ s[1] \in 1..N /\ Head(s) = s[1] /\ Len(s) \in Nat
         /\ Len(Tail(s)) = Len(s) - 1
         /\ Tail(s) = <<>> => Len(s) = 1
         /\ Tail(s) # <<>> => Tail(s)[1] = s[1] + 1 /\ Head(Tail(s)) = s[1] + 1
         /\ \A k \in 1..Len(Tail(s)) : Tail(s)[k] = Tail(s)[1] + k - 1
<1>1. Len(s) \in Nat /\ Len(s) >= 1
  BY EmptySeq
<1>2. s[1] \in 1..N
  BY <1>1
<1>3. Head(s) = s[1]
  OBVIOUS
<1>4. /\ Tail(s) \in Seq(1..N) /\ Len(Tail(s)) = Len(s) - 1
      /\ \A k \in 1..Len(Tail(s)) : Tail(s)[k] = s[k + 1]
  BY HeadTailProperties
<1>5. Tail(s) = <<>> => Len(s) = 1
  <2>1. ASSUME Tail(s) = <<>> PROVE 0 = Len(s) - 1
    <3>1. Len(Tail(s)) = 0
      BY <2>1, EmptySeq
    <3>2. Len(Tail(s)) = Len(s) - 1
      BY <1>4
    <3> QED BY <3>1, <3>2
  <2> QED BY <1>1, <2>1
<1>6. \A k \in 1..Len(Tail(s)) : Tail(s)[k] = s[1] + k
  BY <1>1, <1>2, <1>4
<1>7. ASSUME Tail(s) # <<>>
      PROVE  Tail(s)[1] = s[1] + 1 /\ Head(Tail(s)) = s[1] + 1
  <2>1. Len(Tail(s)) >= 1
    BY <1>1, <1>4, <1>7, EmptySeq
  <2>2. Tail(s)[1] = s[1] + 1
    BY <1>1, <1>4, <1>6, <2>1
  <2>3. Head(Tail(s)) = Tail(s)[1]
    BY <1>4, <1>7
  <2> QED BY <2>2, <2>3
<1>8. \A k \in 1..Len(Tail(s)) : Tail(s)[k] = Tail(s)[1] + k - 1
  BY <1>1, <1>2, <1>4, <1>6
<1> QED BY <1>1, <1>2, <1>3, <1>4, <1>5, <1>7, <1>8

(* Publish: the record is done with, and the next one is at hand, or all   *)
(* of the batch has been tried.                                            *)
LEMMA DataPublish ==
  ASSUME IInv, DataInv, NEW c \in Conns, Publish(c) PROVE DataInv'
<1>0. PICK s \in Seq(1..MaxRecords) : s = todo[c]
  BY SessionTyped
<1>1. /\ pc[c] = "publish"
      /\ Goto(c, IF Tail(s) = <<>> THEN "select" ELSE "insert")
      /\ todo' = [todo EXCEPT ![c] = Tail(s)]
      /\ UNCHANGED <<msgs, imei, id, decoded, dropped, missed, coll>>
  BY <1>0 DEF Publish
<1>2. \A e \in Conns :
        /\ pc'[e] = IF e = c THEN IF Tail(s) = <<>> THEN "select" ELSE "insert" ELSE pc[e]
        /\ todo'[e] = IF e = c THEN Tail(s) ELSE todo[e]
  BY <1>1 DEF Goto, IInv, TypeOK
<1>3. s # <<>>
  BY <1>0, <1>1 DEF IInv, SavingOK
<1>4. \A k \in 1..Len(s) : s[k] = s[1] + k - 1
  BY <1>0, <1>1 DEF DataInv, TodoOK, Saving
<1>5. /\ s[1] \in 1..MaxRecords /\ Head(s) = s[1] /\ Len(s) \in Nat
      /\ Len(Tail(s)) = Len(s) - 1
  BY <1>3, <1>4, InARow, ServerAssumption
<1>6. Tail(s) # <<>> => Tail(s)[1] = s[1] + 1 /\ Head(Tail(s)) = s[1] + 1
  BY <1>3, <1>4, InARow, ServerAssumption
<1>7. Tail(s) = <<>> => Len(s) = 1
  BY <1>3, <1>4, InARow, ServerAssumption
<1>8. Upto(c) = s[1] /\ Upto(c)' = IF Tail(s) = <<>> THEN MaxRecords ELSE s[1]
  <2>1. Upto(c) = s[1]
    BY <1>0, <1>1, <1>5 DEF Upto
  <2>2. CASE Tail(s) = <<>>
    BY <1>2, <2>1, <2>2 DEF Upto
  <2>3. CASE Tail(s) # <<>>
    <3>1. pc'[c] = "insert" /\ Head(todo'[c]) = s[1] + 1
      BY <1>2, <1>6, <2>3
    <3>2. Upto(c)' = Head(todo'[c]) - 1
      BY <3>1 DEF Upto
    <3> QED BY <1>5, <2>1, <2>3, <3>1, <3>2
  <2> QED BY <2>2, <2>3
<1>9. \A d \in Docs :
        /\ Tried(d) => Tried(d)'
        /\ Tried(d)' /\ ~Tried(d) =>
             d.conn = c /\ d.msg = msgs[c] /\ Tail(s) = <<>> /\ s[1] < d.rec
  <2>1. Upto(c)' \in Nat /\ Upto(c) <= Upto(c)'
    BY <1>5, <1>8, ServerAssumption
  <2>2. \A e \in Conns \ {c} : pc'[e] = pc[e] /\ todo'[e] = todo[e]
    BY <1>2
  <2>3. \A d \in Docs :
          /\ Tried(d) => Tried(d)'
          /\ Tried(d)' /\ ~Tried(d) =>
               d.conn = c /\ d.msg = msgs[c] /\ Upto(c) < d.rec /\ d.rec <= Upto(c)'
    BY <1>1, <2>1, <2>2, TriedGrows
  <2>4. \A d \in Docs : d.rec \in Nat
    BY DocsTyped
  <2> QED BY <1>5, <1>8, <2>3, <2>4
<1>10. \A d : Stored(d)' <=> Stored(d)
  BY <1>1 DEF Stored
<1>11. TodoOK'
  <2>1. \A k \in 1..Len(Tail(s)) : Tail(s)[k] = Tail(s)[1] + k - 1
    BY <1>3, <1>4, InARow, ServerAssumption
  <2>2. pc'[c] # "lookup"
    BY <1>2
  <2> QED BY <1>2, <2>1, <2>2 DEF DataInv, TodoOK
<1>12. \A b \in decoded :
         b.conn = c /\ b.msg = msgs[c] => b.imei = imei[c] /\ b.size = s[1] + Len(s) - 1
  BY <1>0, <1>1 DEF DataInv, BatchOK, BatchFits, Saving
<1>13. BatchOK'
  <2>1. ASSUME NEW b \in decoded, b.conn # c PROVE BatchFits(b)'
    <3>1. UNCHANGED <<msgs[b.conn], pc[b.conn], imei[b.conn], todo[b.conn]>>
      BY <2>1, <1>1, <1>2, BatchesTyped
    <3> QED BY <3>1, FitsElsewhere DEF DataInv, BatchOK
  <2>2. ASSUME NEW b \in decoded, b.conn = c PROVE BatchFits(b)'
    <3>1. b.msg <= msgs[c]
      BY <2>2 DEF DataInv, BatchOK, BatchFits
    <3>2. CASE Tail(s) = <<>>
      BY <1>1, <1>2, <2>2, <3>1, <3>2 DEF BatchFits, Saving
    <3>3. CASE Tail(s) # <<>>
      <4>1. b.msg = msgs[c] => b.size = Tail(s)[1] + Len(Tail(s)) - 1
        BY <1>5, <1>6, <1>12, <2>2, <3>3
      <4> QED BY <1>1, <1>2, <1>12, <2>2, <3>1, <3>3, <4>1 DEF BatchFits
    <3> QED BY <3>2, <3>3
  <2> QED BY <1>1, <2>1, <2>2 DEF BatchOK
<1>14. TriedOK' /\ OneWay' /\ InOrder'
  <2>1. TriedOK'
    BY <1>1, <1>9, <1>10 DEF DataInv, TriedOK
  <2>2. OneWay'
    BY <1>1, <1>10 DEF DataInv, OneWay, IsOf
  <2>3. InOrder'
    BY <1>1 DEF DataInv, InOrder, Earlier
  <2> QED BY <2>1, <2>2, <2>3
<1>15. SettledOK'
  <2>1. ASSUME NEW b \in decoded, NEW d \in Docs, Of(d, b), Tried(d)' PROVE Tried(d)
    <3>1. SUFFICES ASSUME ~Tried(d) PROVE FALSE
      OBVIOUS
    <3>2. d.conn = c /\ d.msg = msgs[c] /\ Tail(s) = <<>> /\ s[1] < d.rec
      BY <1>9, <2>1, <3>1
    <3>3. b.size = s[1] + Len(s) - 1 /\ Len(s) = 1
      BY <1>7, <1>12, <2>1, <3>2 DEF Of
    <3>4. d.rec <= b.size /\ d.rec \in Nat
      BY <2>1, DocsTyped DEF Of
    <3> QED BY <1>5, <3>2, <3>3, <3>4
  <2> QED BY <1>1, <1>10, <2>1 DEF DataInv, SettledOK, Of
<1>16. OneCollection'
  <2>1. \A e \in Conns : pc'[e] \in {"insert", "publish"} => pc[e] \in {"insert", "publish"}
    BY <1>1, <1>2
  <2>2. UNCHANGED <<msgs, id, coll>>
    BY <1>1
  <2> QED BY <2>1, <2>2, CollTyped DEF DataInv, OneCollection
<1>17. DropEndsSession'
  BY <1>1, <1>2, BatchesTyped DEF DataInv, DropEndsSession, IInv, TypeOK
<1> QED BY <1>11, <1>13, <1>14, <1>15, <1>16, <1>17 DEF DataInv

-----------------------------------------------------------------------------
(* A decoder that does not return has decoded nothing.                     *)
LEMMA DataSpins ==
  ASSUME IInv, DataInv, NEW c \in Conns, HandleSpins(c) PROVE DataInv'
<1>1. pc[c] = "handle" /\ Goto(c, "spin") /\ UNCHANGED <<msgs, imei, id, todo, storeVars>>
  BY DEF HandleSpins, session
<1>2. \A e \in Conns : pc'[e] = IF e = c THEN "spin" ELSE pc[e]
  BY <1>1 DEF Goto, IInv, TypeOK
<1>3. \A e \in Conns : Upto(e)' = Upto(e)
  BY <1>1, <1>2 DEF Upto
<1>4. \A d \in Docs : Tried(d)' <=> Tried(d)
  BY <1>1, <1>3, DocsTyped DEF Tried
<1>5. TodoOK' /\ BatchOK'
  BY <1>1, <1>2, BatchesTyped DEF DataInv, TodoOK, BatchOK, BatchFits, Saving, storeVars
<1>6. OneCollection'
  BY <1>1, <1>2, CollTyped DEF DataInv, OneCollection, storeVars
<1>7. DropEndsSession'
  BY <1>1, <1>2, BatchesTyped DEF DataInv, DropEndsSession, storeVars, IInv, TypeOK
<1> QED BY <1>1, <1>4, <1>5, <1>6, <1>7, SameTried DEF DataInv

(* DataInv holds initially, and every step preserves it.                   *)
LEMMA DataInit == Init => DataInv
<1> SUFFICES ASSUME Init PROVE DataInv
  OBVIOUS
<1>1. \A x \in Ids : Len(coll[x]) = 0
  BY DEF Init
<1>2. \A d : ~Stored(d)
  BY <1>1 DEF Stored
<1>3. TodoOK /\ BatchOK
  BY DEF Init, TodoOK, BatchOK, Saving
<1>4. TriedOK /\ SettledOK /\ OneWay
  BY <1>2 DEF Init, TriedOK, SettledOK, OneWay
<1>5. InOrder /\ OneCollection
  BY <1>1 DEF InOrder, OneCollection
<1>6. DropEndsSession
  BY DEF Init, DropEndsSession
<1> QED BY <1>3, <1>4, <1>5, <1>6 DEF DataInv

LEMMA DataHandler ==
  ASSUME IInv, DataInv, NEW c \in Conns, HandleRequest(c) PROVE DataInv'
<1>1. CASE (Select(c) \/ ReadTimeout(c) \/ ReadError(c) \/ ReadData(c)) /\ UNCHANGED storeVars
  BY <1>1, ReadDataInv
<1>2. CASE \/ Handle(c) \/ HandleSpins(c)
           \/ LookupFinds(c) \/ LookupFails(c) \/ Insert(c) \/ Publish(c)
  BY <1>2, DataHandle, DataSpins, DataFinds, DataFails, DataInsert, DataPublish
<1>3. CASE (Done(c) \/ Close(c)) /\ UNCHANGED <<session, storeVars>>
  <2>1. PICK l \in {"done", "closed"} : Goto(c, l)
    BY <1>3 DEF Done, Close
  <2>2. l \in Idle /\ pc[c] \in Idle /\ l \in {"return", "done", "closed"}
    BY <1>3, <2>1 DEF Done, Close, Idle
  <2> QED BY <1>3, <2>1, <2>2, DataIdle DEF session
<1>4. CASE Panic(c)
  BY <1>4, DataStutter DEF Panic, dataVars, session
<1> QED BY <1>1, <1>2, <1>3, <1>4 DEF HandleRequest

LEMMA DataNext == IInv /\ DataInv /\ [Next]_vars => DataInv'
<1> SUFFICES ASSUME IInv, DataInv, [Next]_vars PROVE DataInv'
  OBVIOUS
<1>1. CASE Serve
  <2>1. UNCHANGED <<msgs, imei, id, todo, storeVars>>
    BY <1>1 DEF Serve, session
  <2>2. ASSUME NEW c \in Conns, Accept(c) \/ AcceptError(c) PROVE DataInv'
    <3>1. PICK l \in {"select", "nil"} : Goto(c, l)
      BY <2>2 DEF Accept, AcceptError, Spawn
    <3>2. l \in Idle /\ pc[c] \in Idle /\ pc[c] \notin {"return", "done", "closed"}
      BY <2>2 DEF Accept, AcceptError, Idle
    <3> QED BY <2>1, <3>1, <3>2, DataIdle
  <2>3. CASE ServeSelect \/ AcceptTimeout \/ ServeReturn
    BY <2>1, <2>3, DataStutter DEF ServeSelect, AcceptTimeout, ServeReturn, dataVars
  <2> QED BY <1>1, <2>2, <2>3 DEF Serve
<1>2. CASE Stop \/ Environment \/ UNCHANGED vars
  <2>1. UNCHANGED <<pc, session, storeVars>>
    BY <1>2 DEF Stop, Environment, EditUnits, vars
  <2> QED BY <2>1, DataStutter DEF dataVars, session
<1> QED BY <1>1, <1>2, DataHandler DEF Next

(* DataInv holds in every state, whatever fails and whenever Stop comes.   *)
THEOREM DataInductive == Spec => []DataInv
BY DataInit, DataNext, Inductive, PTL DEF Spec

-----------------------------------------------------------------------------
(* What follows from DataInv.                                              *)
LEMMA PlacesStored ==
  ASSUME NEW d
  PROVE  Places(d) # {} <=> Stored(d)
<1>1. ASSUME NEW p \in Places(d) PROVE Stored(d)
  <2>1. PICK x \in Ids : p \in {x} \X {k \in 1..Len(coll[x]) : coll[x][k] = d}
    BY DEF Places
  <2>2. p[2] \in 1..Len(coll[x]) /\ coll[x][p[2]] = d
    BY <2>1
  <2> QED BY <2>2 DEF Stored
<1>2. ASSUME NEW x \in Ids, NEW k \in 1..Len(coll[x]), coll[x][k] = d
      PROVE  <<x, k>> \in Places(d)
  BY <1>2 DEF Places
<1> QED BY <1>1, <1>2 DEF Stored

LEMMA OnePlace ==
  ASSUME IInv, DataInv, NEW d \in Docs
  PROVE  \A p, q \in Places(d) : p = q
<1> SUFFICES ASSUME NEW p \in Places(d), NEW q \in Places(d) PROVE p = q
  OBVIOUS
<1>1. PICK x \in Ids : \E k \in 1..Len(coll[x]) : p = <<x, k>> /\ coll[x][k] = d
  BY DEF Places
<1>2. PICK k \in 1..Len(coll[x]) : p = <<x, k>> /\ coll[x][k] = d
  BY <1>1
<1>3. PICK y \in Ids : \E l \in 1..Len(coll[y]) : q = <<y, l>> /\ coll[y][l] = d
  BY DEF Places
<1>4. PICK l \in 1..Len(coll[y]) : q = <<y, l>> /\ coll[y][l] = d
  BY <1>3
<1>5. x = y
  BY <1>2, <1>4 DEF DataInv, OneCollection
<1>6. ~Earlier(d, d)
  BY DocsTyped DEF Earlier
<1>7. ~(k < l) /\ ~(l < k)
  BY <1>2, <1>4, <1>5, <1>6 DEF DataInv, InOrder
<1>8. k \in Int /\ l \in Int
  OBVIOUS
<1>9. k = l
  BY <1>7, <1>8
<1> QED BY <1>2, <1>4, <1>5, <1>9

LEMMA AtMostOne ==
  ASSUME NEW S, \A p, q \in S : p = q
  PROVE  Cardinality(S) \in {0, 1} /\ (Cardinality(S) = 1 => S # {})
<1>1. CASE S = {}
  BY <1>1, FS_EmptySet
<1>2. CASE S # {}
  <2>1. PICK p : S = {p}
    BY <1>2
  <2> QED BY <2>1, FS_Singleton
<1> QED BY <1>1, <1>2

LEMMA DocOfTyped ==
  ASSUME IInv, NEW b \in decoded, NEW r \in 1..b.size
  PROVE  DocOf(b, r) \in Docs /\ Of(DocOf(b, r), b) /\ IsOf(DocOf(b, r), b)
<1>1. /\ b.conn \in Conns /\ b.msg \in 1..MaxMsgs
      /\ b.size \in 1..MaxRecords /\ b.imei \in Uids \cup {NoImei}
  BY DEF IInv, TypeOK, Batches
<1>2. r \in 1..MaxRecords /\ r <= b.size
  BY <1>1, ServerAssumption
<1>3. DocOf(b, r) \in Docs
  BY <1>1, <1>2 DEF Docs, DocOf
<1> QED BY <1>2, <1>3 DEF DocOf, Of, IsOf

LEMMA DataLossWindow == IInv /\ DataInv => LossWindow
<1> SUFFICES ASSUME IInv, DataInv, NEW c \in Conns, NEW b \in Unsettled(c)
             PROVE  b.msg = msgs[c] /\ pc[c] \in Saving
  BY DEF LossWindow
<1>1. b \in decoded /\ b.conn = c /\ \E r \in 1..b.size : ~Settled(b, r)
  BY DEF Unsettled
<1>2. PICK r \in 1..b.size : ~Settled(b, r)
  BY <1>1
<1>3. PICK d \in Docs : d = DocOf(b, r) /\ Of(d, b)
  BY <1>1, DocOfTyped
<1>4. ~Tried(d)
  <2>1. b \notin dropped /\ d \notin missed /\ ~Stored(d)
    BY <1>2, <1>3, PlacesStored DEF Settled
  <2> QED BY <1>1, <1>3, <2>1 DEF DataInv, SettledOK
<1>5. b.msg = msgs[c]
  <2>1. b.msg <= msgs[c] /\ b.msg \in Nat /\ msgs[c] \in Nat
    BY <1>1, BatchesTyped, SessionTyped DEF DataInv, BatchOK, BatchFits
  <2>2. ~(b.msg < msgs[c])
    BY <1>1, <1>3, <1>4 DEF Tried, Of
  <2> QED BY <2>1, <2>2
<1>6. Upto(c) # MaxRecords
  BY <1>1, <1>3, <1>4, <1>5, DocsTyped DEF Tried, Of
<1>7. pc[c] \notin {"handle", "spin"}
  BY <1>1, <1>5 DEF DataInv, BatchOK, BatchFits
<1> QED BY <1>5, <1>6, <1>7 DEF Upto, Saving

LEMMA DataOnceInOrder == IInv /\ DataInv => StoredOnceInOrder
<1> SUFFICES ASSUME IInv, DataInv PROVE StoredOnceInOrder
  OBVIOUS
<1>1. ASSUME NEW b \in decoded, NEW r \in 1..b.size
      PROVE  Cardinality(Places(DocOf(b, r)))
               + (IF DocOf(b, r) \in missed THEN 1 ELSE 0)
               + (IF b \in dropped THEN 1 ELSE 0) <= 1
  <2>1. PICK d \in Docs : d = DocOf(b, r) /\ IsOf(d, b)
    BY DocOfTyped
  <2>2. Cardinality(Places(d)) \in {0, 1} /\ (Cardinality(Places(d)) = 1 => Stored(d))
    BY OnePlace, AtMostOne, PlacesStored
  <2>3. ~(d \in missed /\ Stored(d)) /\ (b \in dropped => d \notin missed /\ ~Stored(d))
    BY <2>1 DEF DataInv, OneWay
  <2> QED BY <2>1, <2>2, <2>3
<1> QED BY <1>1 DEF StoredOnceInOrder, DataInv, InOrder, Earlier

LEMMA DataOneCollection == IInv /\ DataInv => BatchInOneCollection
<1> SUFFICES ASSUME IInv, DataInv, NEW b \in decoded
             PROVE  Cardinality({x \in Ids : \E k \in 1..Len(coll[x]) : IsOf(coll[x][k], b)}) <= 1
  BY DEF BatchInOneCollection
<1> DEFINE S == {x \in Ids : \E k \in 1..Len(coll[x]) : IsOf(coll[x][k], b)}
<1>1. \A p, q \in S : p = q
  BY DEF DataInv, OneCollection, IsOf
<1> QED BY <1>1, AtMostOne

(* A crash at any moment loses of each connection at most its last         *)
(* message, and only while that is being saved.                            *)
THEOREM LossBounded == Spec => []LossWindow
BY DataLossWindow, Inductive, DataInductive, PTL

(* Every record is stored at most once, missed, or dropped, and documents  *)
(* of a connection stand in the order they were sent, whatever fails.      *)
THEOREM OnceInOrder == Spec => []StoredOnceInOrder
BY DataOnceInOrder, Inductive, DataInductive, PTL

(* A batch lies in one collection, however main_unit is edited meanwhile.  *)
THEOREM NeverSplit == Spec => []BatchInOneCollection
BY DataOneCollection, Inductive, DataInductive, PTL

(* No batch follows one that was acknowledged and dropped.                 *)
THEOREM DropEnds == Spec => []DropEndsSession
<1>1. DataInv => DropEndsSession
  BY DEF DataInv
<1> QED BY <1>1, DataInductive, PTL

-----------------------------------------------------------------------------
(* While main_unit is not edited, what a handler saves belongs to the unit *)
(* whose id it has looked up.                                              *)
FiledInv ==
  /\ FiledUnderOwner
  /\ \A c \in Conns : pc[c] \in {"insert", "publish"} =>
       imei[c] \in Uids /\ mainUnit[imei[c]] = id[c]

LEMMA FiledNext ==
  ASSUME "units" \notin Env, IInv, FiledInv, [Next]_vars
  PROVE  FiledInv'
<1>1. CASE UNCHANGED <<mainUnit, pc, imei, id, coll>>
  BY <1>1 DEF FiledInv, FiledUnderOwner
<1>2. ASSUME NEW c \in Conns, NEW l, Goto(c, l), l \notin {"insert", "publish"},
             UNCHANGED <<mainUnit, coll>>,
             \A e \in Conns \ {c} : imei'[e] = imei[e] /\ id'[e] = id[e]
      PROVE  FiledInv'
  BY <1>2 DEF FiledInv, FiledUnderOwner, Goto, IInv, TypeOK
<1>3. CASE Serve
  <2>1. UNCHANGED <<mainUnit, imei, id, coll>>
    BY <1>3 DEF Serve, session, storeVars
  <2>2. ASSUME NEW c \in Conns, Accept(c) \/ AcceptError(c) PROVE FiledInv'
    <3>1. PICK l \in {"select", "nil"} : Goto(c, l)
      BY <2>2 DEF Accept, AcceptError, Spawn
    <3> QED BY <1>2, <2>1, <3>1
  <2>3. CASE ServeSelect \/ AcceptTimeout \/ ServeReturn
    BY <1>1, <2>1, <2>3 DEF ServeSelect, AcceptTimeout, ServeReturn
  <2> QED BY <1>3, <2>2, <2>3 DEF Serve
<1>4. ASSUME NEW c \in Conns, HandleRequest(c) PROVE FiledInv'
  <2>1. UNCHANGED mainUnit
    BY <1>4 DEF HandleRequest, Panic
  <2>2. CASE Insert(c)
    <3>1. /\ pc[c] = "insert" /\ Goto(c, "publish") /\ UNCHANGED <<imei, id>>
          /\ \/ coll' = [coll EXCEPT ![id[c]] = Append(@, Doc(c))]
             \/ UNCHANGED coll
      BY <2>2 DEF Insert, InsertTarget, session
    <3>2. \A e \in Conns : pc'[e] = IF e = c THEN "publish" ELSE pc[e]
      BY <3>1 DEF Goto, IInv, TypeOK
    <3>3. id[c] \in Ids /\ Doc(c).imei = imei[c] /\ Doc(c) \in Docs
      BY <3>1, DocTyped DEF IInv, SavingOK, Doc
    <3>4. imei[c] \in Uids /\ mainUnit[imei[c]] = id[c]
      BY <3>1 DEF FiledInv
    <3>5. ASSUME NEW x \in Ids, NEW k \in 1..Len(coll'[x])
          PROVE  (k \in 1..Len(coll[x]) /\ coll'[x][k] = coll[x][k])
                 \/ (x = id[c] /\ coll'[x][k] = Doc(c))
      <4>1. CASE x = id[c] /\ coll' = [coll EXCEPT ![id[c]] = Append(@, Doc(c))]
        <5>1. coll[x] \in Seq(Docs) /\ coll'[x] = Append(coll[x], Doc(c))
          BY <4>1 DEF IInv, TypeOK
        <5> QED BY <3>3, <4>1, <5>1, AppendProperties
      <4>2. CASE x # id[c] \/ UNCHANGED coll
        BY <3>1, <4>2 DEF IInv, TypeOK
      <4> QED BY <3>1, <4>1, <4>2
    <3>6. FiledUnderOwner'
      BY <2>1, <3>3, <3>4, <3>5 DEF FiledInv, FiledUnderOwner
    <3> QED BY <2>1, <3>1, <3>2, <3>6 DEF FiledInv
  <2>3. CASE LookupFinds(c)
    <3>1. /\ \E l : Goto(c, l)
          /\ id' = [id EXCEPT ![c] = Row(c)] /\ Row(c) # NoId /\ UNCHANGED <<imei, coll>>
      BY <2>3 DEF LookupFinds, storeVars
    <3>2. imei[c] \in Uids /\ mainUnit[imei[c]] = Row(c)
      BY <3>1 DEF Row
    <3> QED BY <2>1, <3>1, <3>2 DEF FiledInv, FiledUnderOwner, Goto, IInv, TypeOK
  <2>4. CASE Publish(c)
    <3>1. /\ pc[c] = "publish" /\ UNCHANGED <<imei, id, coll>> /\ \E l : Goto(c, l)
      BY <2>4 DEF Publish
    <3> QED BY <2>1, <3>1 DEF FiledInv, FiledUnderOwner, Goto, IInv, TypeOK
  <2>5. CASE Handle(c) \/ HandleSpins(c) \/ LookupFails(c)
    <3>1. \E l \in {"lookup", "spin", "return"} : Goto(c, l)
      BY <2>5 DEF Handle, HandleSpins, LookupFails
    <3>2. UNCHANGED <<id, coll>> /\ \A e \in Conns \ {c} : imei'[e] = imei[e]
      BY <2>5 DEF Handle, HandleSpins, LookupFails, session, storeVars, IInv, TypeOK
    <3> QED BY <1>2, <2>1, <3>1, <3>2
  <2>6. CASE \/ Select(c) \/ ReadTimeout(c) \/ ReadError(c) \/ ReadData(c)
             \/ Done(c) \/ Close(c)
    <3>1. \E l \in {"select", "read", "handle", "return", "done", "closed"} : Goto(c, l)
      BY <2>6 DEF Select, ReadTimeout, ReadError, ReadData, Done, Close
    <3>2. UNCHANGED <<imei, id>>
      BY <1>4, <2>6 DEF Select, ReadTimeout, ReadError, ReadData, Done, Close, HandleRequest,
                        Handle, HandleSpins, LookupFinds, LookupFails, Insert, Publish,
                        Panic, session
    <3>3. UNCHANGED coll
      BY <1>4, <2>6 DEF Select, ReadTimeout, ReadError, ReadData, Done, Close, HandleRequest,
                        Handle, HandleSpins, LookupFinds, LookupFails, Insert, Publish,
                        Panic, storeVars
    <3> QED BY <1>2, <2>1, <3>1, <3>2, <3>3
  <2>7. CASE Panic(c)
    BY <1>1, <2>7 DEF Panic, session, storeVars
  <2> QED BY <1>4, <2>2, <2>3, <2>4, <2>5, <2>6, <2>7 DEF HandleRequest
<1>5. CASE Stop \/ Environment \/ UNCHANGED vars
  BY <1>1, <1>5 DEF Stop, Environment, EditUnits, vars, session, storeVars
<1> QED BY <1>3, <1>4, <1>5 DEF Next

(* A document lies in the collection of the unit its imei belongs to, also *)
(* after a session has changed its imei, while main_unit is not edited.    *)
THEOREM Filed == ASSUME "units" \notin Env PROVE Spec => []FiledUnderOwner
<1>1. Init => FiledInv
  BY DEF Init, FiledInv, FiledUnderOwner
<1>2. IInv /\ FiledInv /\ [Next]_vars => FiledInv'
  BY FiledNext
<1>3. FiledInv => FiledUnderOwner
  BY DEF FiledInv
<1> QED BY <1>1, <1>2, <1>3, Inductive, PTL DEF Spec
=============================================================================
