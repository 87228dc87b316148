----------------------------- MODULE EgtsProofs -----------------------------
(***************************************************************************)
(* The numbers of EGTS responses, for any number of handlers and whatever  *)
(* the decoder makes of a buffer: as long as no two handlers were in       *)
(* sendResponse at once, none is sent twice before the counter has gone    *)
(* round. The inductive invariant is IInv.                                 *)
(*                                                                         *)
(* And what becomes of the packets, for any decoder that keeps the         *)
(* contract of EgtsContract: whole ones are decoded and confirmed as they  *)
(* were sent, pieces give whole records, and only these, or an identity    *)
(* that is not the last, hang a handler. The inductive invariant is DInv,  *)
(* beside IInv.                                                            *)
(***************************************************************************)
EXTENDS EgtsServer, WellFoundedInduction, NaturalsInduction, SequenceTheorems, TLAPS

Places == {"read", "load", "store", "number", "done", "endless", "gone"}
InSend == {"store", "number"}

(* What a response says is the decoder's; only its number has a type.      *)
Numbered(s) ==
  /\ \E S : s \in Seq(S)
  /\ \A k \in 1..Len(s) : s[k].number \in Nat

TypeOK ==
  /\ packetId \in Nat
  /\ at \in [Conns -> Places]
  /\ register \in [Conns -> Nat]
  /\ DOMAIN responses = Conns
  /\ responses = [c \in Conns |-> responses[c]]
  /\ \A c \in Conns : Numbered(responses[c])
  /\ overlap \in BOOLEAN

(* Without an overlap one handler at a time is between the two accesses of *)
(* packetId++ and the number: its copy is fresh, and once it has written   *)
(* the counter, that is a number nobody has sent, unless it no longer fits *)
(* the two bytes of a number.                                              *)
OneSends == \A c, e \in Conns : c # e /\ at[c] \in InSend => at[e] \notin InSend
CopyFresh == \A c \in Conns : at[c] = "store" => register[c] = packetId
Below ==
  \A c \in Conns : \A k \in 1..Len(responses[c]) :
    /\ responses[c][k].number <= packetId
    /\ (\E e \in Conns : at[e] = "number") => responses[c][k].number < packetId
Serial == OneSends /\ CopyFresh

Apart ==
  \A c, e \in Conns : \A j \in 1..Len(responses[c]), k \in 1..Len(responses[e]) :
    c # e => responses[c][j].number # responses[e][k].number
Growing ==
  \A c \in Conns : \A j, k \in 1..Len(responses[c]) :
    j < k => responses[c][j].number < responses[c][k].number

Distinguished == packetId < Width => Below /\ Apart /\ Growing

IInv == TypeOK /\ (overlap = FALSE => Serial /\ Distinguished)

-----------------------------------------------------------------------------
(* A response at the end leaves those before it where they are.            *)
LEMMA AppendResponse ==
  ASSUME NEW s, NEW S, s \in Seq(S), NEW x
  PROVE  /\ \E T : Append(s, x) \in Seq(T)
         /\ Len(Append(s, x)) = Len(s) + 1 /\ Len(s) \in Nat
         /\ \A k \in 1..Len(s) : Append(s, x)[k] = s[k]
         /\ Append(s, x)[Len(s) + 1] = x
<1> DEFINE T == S \cup {x}
<1>1. s \in Seq(T) /\ x \in T
  OBVIOUS
<1>2. Append(s, x) \in Seq(T)
  BY <1>1
<1> HIDE DEF T
<1> QED BY <1>1, <1>2

LEMMA InitIInv == Init => IInv
<1> SUFFICES ASSUME Init PROVE IInv
  OBVIOUS
<1>1. ASSUME NEW c \in Conns PROVE Numbered(responses[c]) /\ Len(responses[c]) = 0
  <2>1. responses[c] = <<>> /\ <<>> \in Seq(Nat) /\ Len(<<>>) = 0
    BY DEF Init
  <2> QED BY <2>1 DEF Numbered
<1>2. overlap \in BOOLEAN
  BY Zenon DEF Init
<1>3. TypeOK
  BY <1>1, <1>2 DEF Init, TypeOK, Places
<1>4. Serial /\ Distinguished
  BY <1>1 DEF Init, Serial, OneSends, CopyFresh, Distinguished, Below, Apart, Growing, InSend
<1> QED BY <1>3, <1>4 DEF IInv

(* A step that sends nothing, leaves the counter alone and takes no        *)
(* handler into sendResponse.                                              *)
LEMMA Elsewhere ==
  ASSUME IInv, UNCHANGED <<packetId, register, responses, overlap>>,
         at' \in [Conns -> Places],
         \A c \in Conns : at'[c] \in InSend => at'[c] = at[c]
  PROVE  IInv'
<1>1. TypeOK'
  BY DEF IInv, TypeOK, Numbered
<1>2. overlap' = FALSE => Serial' /\ Distinguished'
  BY DEF IInv, TypeOK, Serial, OneSends, CopyFresh, Distinguished, Below, Apart, Growing, InSend
<1> QED BY <1>1, <1>2 DEF IInv

LEMMA LoadStep == ASSUME IInv, NEW c \in Conns, Load(c) PROVE IInv'
<1>1. at' = [at EXCEPT ![c] = "store"] /\ register' = [register EXCEPT ![c] = packetId]
      /\ UNCHANGED <<packetId, responses>> /\ at[c] = "load"
  BY DEF Load
<1>2. overlap' \in BOOLEAN
  BY Zenon DEF Load
<1>3. TypeOK'
  BY <1>1, <1>2 DEF IInv, TypeOK, Places, Numbered
<1>4. overlap' = FALSE => overlap = FALSE /\ \A e \in Conns \ {c} : at[e] \notin InSend
  <2>1. overlap' = (overlap \/ \E e \in Conns \ {c} : at[e] \in {"store", "number"})
    BY DEF Load
  <2>2. overlap \in BOOLEAN
    BY DEF IInv, TypeOK
  <2> QED BY <2>1, <2>2, Zenon DEF InSend
<1>5. ASSUME overlap' = FALSE PROVE Serial' /\ Distinguished'
  BY <1>1, <1>4, <1>5
  DEF IInv, TypeOK, Serial, OneSends, CopyFresh, Distinguished, Below, Apart, Growing, InSend
<1> QED BY <1>3, <1>5 DEF IInv

LEMMA StoreStep == ASSUME IInv, NEW c \in Conns, Store(c) PROVE IInv'
<1>1. at' = [at EXCEPT ![c] = "number"] /\ packetId' = register[c] + 1
      /\ UNCHANGED <<register, responses, overlap>> /\ at[c] = "store"
  BY DEF Store
<1>2. TypeOK'
  BY <1>1 DEF IInv, TypeOK, Places, Numbered
<1>3. ASSUME overlap' = FALSE PROVE Serial' /\ Distinguished'
  <2>1. packetId' = packetId + 1 /\ packetId \in Nat
    BY <1>1, <1>3 DEF IInv, TypeOK, Serial, CopyFresh
  <2>2. OneSends' /\ CopyFresh'
    BY <1>1, <1>3 DEF IInv, TypeOK, Serial, OneSends, CopyFresh, InSend
  <2>3. ASSUME packetId' < Width PROVE Below /\ Apart /\ Growing
    BY <1>1, <1>3, <2>1, <2>3 DEF IInv, Distinguished, Width
  <2>4. ASSUME packetId' < Width PROVE Below'
    BY <1>1, <1>3, <2>1, <2>3, <2>4 DEF IInv, TypeOK, Numbered, Below
  <2>5. ASSUME packetId' < Width PROVE Apart' /\ Growing'
    BY <1>1, <2>3, <2>5 DEF Apart, Growing
  <2> QED BY <2>2, <2>4, <2>5 DEF Serial, Distinguished
<1> QED BY <1>2, <1>3 DEF IInv

LEMMA NumberStep == ASSUME IInv, NEW c \in Conns, Number(c) PROVE IInv'
<1> DEFINE r == [number |-> packetId % Width, response |-> Head(result[c].responses)]
           s == responses[c]
<1>1. at[c] = "number" /\ responses' = [responses EXCEPT ![c] = Append(s, r)]
      /\ UNCHANGED <<packetId, register, overlap>>
  BY DEF Number
<1>2. at' \in [Conns -> Places] /\ at'[c] \notin InSend
      /\ \A e \in Conns \ {c} : at'[e] = at[e]
  BY DEF Number, Pending, IInv, TypeOK, Places, InSend
<1>3. r.number \in Nat /\ (packetId < Width => r.number = packetId)
  BY DEF IInv, TypeOK, Width
<1> HIDE DEF r
<1>4. PICK S : s \in Seq(S)
  BY DEF IInv, TypeOK, Numbered
<1>5. /\ \E T : Append(s, r) \in Seq(T)
      /\ Len(Append(s, r)) = Len(s) + 1 /\ Len(s) \in Nat
      /\ \A k \in 1..Len(s) : Append(s, r)[k] = s[k]
      /\ Append(s, r)[Len(s) + 1] = r
  BY <1>4, AppendResponse
<1>6. responses'[c] = Append(s, r) /\ \A e \in Conns \ {c} : responses'[e] = responses[e]
  BY <1>1 DEF IInv, TypeOK
<1>7. \A k \in 1..Len(responses'[c]) : k \in 1..Len(s) \/ k = Len(s) + 1
  BY <1>5, <1>6
<1>8. TypeOK'
  <2>1. \A e \in Conns : Numbered(responses'[e])
    <3>1. ASSUME NEW e \in Conns \ {c} PROVE Numbered(responses'[e])
      BY <1>6 DEF IInv, TypeOK
    <3>2. Numbered(responses'[c])
      BY <1>3, <1>5, <1>6, <1>7 DEF IInv, TypeOK, Numbered
    <3> QED BY <3>1, <3>2
  <2>2. DOMAIN responses' = Conns /\ responses' = [e \in Conns |-> responses'[e]]
    BY <1>1 DEF IInv, TypeOK
  <2> QED BY <1>1, <1>2, <2>1, <2>2 DEF IInv, TypeOK
<1>9. ASSUME overlap' = FALSE PROVE Serial' /\ Distinguished'
  <2>1. OneSends /\ CopyFresh
    BY <1>1, <1>9 DEF IInv, Serial
  <2>2. OneSends' /\ CopyFresh'
    BY <1>1, <1>2, <2>1 DEF OneSends, CopyFresh, InSend
  <2>3. \A e \in Conns : at'[e] # "number"
    BY <1>1, <1>2, <2>1 DEF OneSends, InSend
  <2>4. ASSUME packetId < Width PROVE Below' /\ Apart' /\ Growing'
    <3>1. r.number = packetId /\ packetId \in Nat /\ Below /\ Apart /\ Growing
      BY <1>1, <1>3, <1>9, <2>4 DEF IInv, TypeOK, Distinguished
    <3>2. \A e \in Conns : \A k \in 1..Len(responses[e]) :
            responses[e][k].number < packetId /\ responses[e][k].number \in Nat
      BY <1>1, <3>1 DEF Below, IInv, TypeOK, Numbered
    <3>3. Below'
      <4>1. ASSUME NEW e \in Conns, NEW k \in 1..Len(responses'[e])
            PROVE  responses'[e][k].number <= packetId
        <5>1. CASE e # c
          BY <1>6, <3>1, <3>2, <5>1
        <5>2. CASE e = c /\ k \in 1..Len(s)
          <6>1. responses'[e][k] = responses[c][k]
            BY <1>5, <1>6, <5>2
          <6>2. responses[c][k].number < packetId /\ responses[c][k].number \in Nat
            BY <3>2, <5>2
          <6> QED BY <3>1, <6>1, <6>2
        <5>3. CASE e = c /\ k = Len(s) + 1
          <6>1. responses'[e][k].number = packetId
            BY <3>1, <1>5, <1>6, <5>3
          <6> QED BY <3>1, <6>1
        <5> QED BY <1>7, <4>1, <5>1, <5>2, <5>3
      <4> QED BY <4>1, <2>3, <1>1 DEF Below
    <3>4. Growing'
      <4>1. ASSUME NEW e \in Conns, NEW j \in 1..Len(responses'[e]), NEW k \in 1..Len(responses'[e]),
                   j < k
            PROVE  responses'[e][j].number < responses'[e][k].number
        <5>1. CASE e # c
          BY <1>6, <3>1, <4>1, <5>1 DEF Growing
        <5>2. CASE e = c
          <6>1. j \in 1..Len(s)
            BY <1>5, <1>6, <4>1, <5>2
          <6>2. CASE k \in 1..Len(s)
            BY <1>5, <1>6, <3>1, <4>1, <5>2, <6>1, <6>2 DEF Growing
          <6>3. CASE k = Len(s) + 1
            BY <3>1, <1>5, <1>6, <3>2, <5>2, <6>1, <6>3
          <6> QED BY <1>7, <5>2, <6>2, <6>3
        <5> QED BY <5>1, <5>2
      <4> QED BY <4>1 DEF Growing
    <3>5. Apart'
      <4>1. ASSUME NEW e \in Conns \ {c}, NEW j \in 1..Len(responses'[c]), NEW k \in 1..Len(responses'[e])
            PROVE  responses'[c][j].number # responses'[e][k].number
        <5>1. k \in 1..Len(responses[e]) /\ responses'[e][k].number = responses[e][k].number
          BY <1>6, <4>1
        <5>2. CASE j \in 1..Len(s)
          BY <1>5, <1>6, <3>1, <4>1, <5>1, <5>2 DEF Apart
        <5>3. CASE j = Len(s) + 1
          BY <3>1, <1>5, <1>6, <3>2, <4>1, <5>1, <5>3
        <5> QED BY <1>7, <5>2, <5>3
      <4>2. ASSUME NEW d \in Conns \ {c}, NEW e \in Conns \ {c}, d # e,
                   NEW j \in 1..Len(responses'[d]), NEW k \in 1..Len(responses'[e])
            PROVE  responses'[d][j].number # responses'[e][k].number
        BY <1>6, <3>1, <4>2 DEF Apart
      <4> QED BY <4>1, <4>2 DEF Apart
    <3> QED BY <3>3, <3>4, <3>5
  <2> QED BY <1>1, <2>2, <2>4 DEF Serial, Distinguished
<1> QED BY <1>8, <1>9 DEF IInv

(* The invariant is inductive: only Load, Store and Number concern the     *)
(* counter.                                                                *)
LEMMA NextIInv == ASSUME IInv, [Next]_vars PROVE IInv'
<1>1. CASE UNCHANGED vars
  BY <1>1, Elsewhere DEF vars, IInv, TypeOK
<1>2. ASSUME NEW c \in Conns, Send(c) PROVE IInv'
  BY <1>2, Elsewhere DEF Send, IInv, TypeOK
<1>3. ASSUME NEW c \in Conns, HandleRequest(c) PROVE IInv'
  <2>1. ASSUME NEW n, Read(c, n) PROVE IInv'
    <3>1. at' \in [Conns -> Places] /\ \A e \in Conns : at'[e] \in InSend => at'[e] = at[e]
      <4>1. at' = [at EXCEPT ![c] = "load"] \/ at' = [at EXCEPT ![c] = "done"]
        BY <2>1 DEF Read, Pending
      <4> QED BY <4>1 DEF IInv, TypeOK, Places, InSend
    <3> QED BY <2>1, <3>1, Elsewhere DEF Read
  <2>2. CASE Finish(c)
    <3>1. at' \in [Conns -> Places] /\ \A e \in Conns : at'[e] \in InSend => at'[e] = at[e]
      BY <2>2 DEF Finish, IInv, TypeOK, Places, InSend
    <3> QED BY <2>2, <3>1, Elsewhere DEF Finish
  <2>3. CASE Panic(c)
    <3>1. at' \in [Conns -> Places] /\ \A e \in Conns : at'[e] \in InSend => at'[e] = at[e]
      BY <2>3 DEF Panic, Places, InSend
    <3> QED BY <2>3, <3>1, Elsewhere DEF Panic
  <2> QED BY <1>3, <2>1, <2>2, <2>3, LoadStep, StoreStep, NumberStep DEF HandleRequest
<1> QED BY <1>1, <1>2, <1>3 DEF Next

(* The invariant behind the theorem below.                                 *)
THEOREM Inductive == Spec => []IInv
BY InitIInv, NextIInv, PTL DEF Spec

(* Response numbers are distinct, and grow along each connection, as long  *)
(* as no two handlers were in sendResponse at once and the counter fits    *)
(* their two bytes: it takes nothing less than the race on packetId to     *)
(* repeat one before.                                                      *)
THEOREM Distinct == Spec => []NumbersDistinct
<1>1. IInv => NumbersDistinct
  <2> SUFFICES ASSUME IInv, overlap = FALSE, packetId < Width PROVE NumbersDistinct
    BY Zenon DEF IInv, TypeOK, NumbersDistinct
  <2>1. Apart /\ Growing
    BY DEF IInv, Distinguished
  <2>2. \A c, e \in Conns : c # e => Numbers(c) \cap Numbers(e) = {}
    BY <2>1 DEF Apart, Numbers
  <2> QED BY <2>1, <2>2 DEF Growing, NumbersDistinct
<1> QED BY <1>1, Inductive, PTL

-----------------------------------------------------------------------------
(* Sequences. What FlattenSeq makes of one sequence more is proved by      *)
(* induction over a set of numbers.                                        *)

(* A set of numbers has a least one; and what holds of 0, and of n + 1 if  *)
(* of n, holds of all.                                                     *)
LEMMA Least == ASSUME NEW T \in SUBSET Nat, T # {} PROVE \E n \in T : \A m \in T : n <= m
<1> DEFINE R == OpToRel(<, Nat)
<1>1. IsWellFoundedOn(R, Nat)
  BY NatLessThanWellFounded
<1>2. \A m, n \in Nat : <<m, n>> \in R <=> m < n
  BY DEF OpToRel
<1> HIDE DEF R
<1>3. PICK n \in T : \A m \in T : ~(<<m, n>> \in R)
  BY <1>1, WFMin
<1>4. \A m \in T : ~(m < n)
  BY <1>2, <1>3, Zenon
<1> QED BY <1>4

LEMMA SetInduction == ASSUME NEW S, 0 \in S, \A n \in Nat : n \in S => n + 1 \in S PROVE Nat \subseteq S
<1>1. SUFFICES ASSUME Nat \ S # {} PROVE FALSE
  OBVIOUS
<1>2. PICK n \in Nat \ S : \A m \in Nat \ S : n <= m
  BY <1>1, Least
<1>3. n - 1 \in Nat /\ n - 1 \notin Nat \ S /\ n = (n - 1) + 1
  BY <1>2
<1> QED BY <1>2, <1>3

(* What the contract calls a sequence is one of some set.                  *)
LEMMA SequenceFacts ==
  ASSUME NEW s, Sequence(s)
  PROVE  /\ \E S : s \in Seq(S)
         /\ Len(s) \in Nat /\ DOMAIN s = 1..Len(s)
         /\ <<>> \o s = s /\ s \o <<>> = s
<1> DEFINE S == {s[k] : k \in 1..Len(s)}
<1>1. s \in Seq(S)
  BY DEF Sequence
<1> HIDE DEF S
<1> QED BY <1>1

(* What FlattenSeq makes of one sequence more.                             *)
FlatUpTo(s, n, f) == f = [i \in 1..n |-> IF i = 1 THEN s[i] ELSE f[i - 1] \o s[i]]

(* FlattenSeq is the last value of a recursive function, which there is.   *)
LEMMA FlatFcn ==
  ASSUME NEW s, Len(s) \in Nat \ {0}
  PROVE  \E f : FlatUpTo(s, Len(s), f) /\ FlattenSeq(s) = f[Len(s)]
<1> DEFINE S == {n \in Nat : \E f : FlatUpTo(s, n, f)}
<1>2. 0 \in S
  <2>1. FlatUpTo(s, 0, [k \in 1..0 |-> 0])
    BY DEF FlatUpTo
  <2> QED BY <2>1
<1>3. ASSUME NEW n \in Nat, n \in S PROVE n + 1 \in S
  <2>1. PICK f : FlatUpTo(s, n, f)
    BY <1>3
  <2> DEFINE e == IF n = 0 THEN s[1] ELSE f[n] \o s[n + 1]
             g == [k \in 1..(n + 1) |-> IF k = n + 1 THEN e ELSE f[k]]
  <2>2. \A k \in 1..(n + 1) : g[k] = IF k = 1 THEN s[k] ELSE g[k - 1] \o s[k]
    <3> TAKE k \in 1..(n + 1)
    <3>1. CASE k = n + 1
      BY <3>1
    <3>2. CASE k # n + 1
      <4>1. k \in 1..n /\ (k # 1 => k - 1 \in 1..n /\ k - 1 # n + 1)
        BY <3>2
      <4>2. f[k] = IF k = 1 THEN s[k] ELSE f[k - 1] \o s[k]
        BY <2>1, <4>1 DEF FlatUpTo
      <4>3. g[k] = f[k] /\ (k # 1 => g[k - 1] = f[k - 1])
        BY <3>2, <4>1
      <4> QED BY <4>2, <4>3, Zenon
    <3> QED BY <3>1, <3>2
  <2>3. g = [k \in 1..(n + 1) |-> g[k]]
    OBVIOUS
  <2> HIDE DEF g, e
  <2>4. FlatUpTo(s, n + 1, g)
    BY <2>2, <2>3 DEF FlatUpTo
  <2> QED BY <2>4
<1>4. \E f : FlatUpTo(s, Len(s), f)
  <2> HIDE DEF S
  <2>1. Nat \subseteq S
    BY <1>2, <1>3, SetInduction
  <2> QED BY <2>1 DEF S
<1>5. FlatUpTo(s, Len(s), CHOOSE f : FlatUpTo(s, Len(s), f))
  BY <1>4, Zenon
<1>6. FlattenSeq(s) = (CHOOSE f : FlatUpTo(s, Len(s), f))[Len(s)]
  BY Zenon DEF FlattenSeq, FlatUpTo
<1> QED BY <1>5, <1>6

(* The last of the sequences comes after what the others flatten to.       *)
LEMMA FlattenMore ==
  ASSUME NEW s, NEW n \in Nat, Len(s) = n + 1, s = [k \in 1..(n + 1) |-> s[k]], Sequence(s[n + 1])
  PROVE  FlattenSeq(s) = FlattenSeq([k \in 1..n |-> s[k]]) \o s[n + 1]
<1> DEFINE t == [k \in 1..n |-> s[k]]
<1>1. Len(t) = n /\ \A k \in 1..n : t[k] = s[k]
  OBVIOUS
<1>2. PICK f : FlatUpTo(s, n + 1, f) /\ FlattenSeq(s) = f[n + 1]
  <2>1. Len(s) \in Nat \ {0}
    OBVIOUS
  <2>2. \E f : FlatUpTo(s, Len(s), f) /\ FlattenSeq(s) = f[Len(s)]
    BY <2>1, FlatFcn
  <2> QED BY <2>2
<1>3. \A k \in 1..(n + 1) : f[k] = IF k = 1 THEN s[k] ELSE f[k - 1] \o s[k]
  BY <1>2 DEF FlatUpTo
<1>4. CASE n = 0
  <2>1. f[n + 1] = s[n + 1]
    BY <1>3, <1>4
  <2>2. FlattenSeq(t) = <<>>
    BY <1>1, <1>4 DEF FlattenSeq
  <2>3. <<>> \o s[n + 1] = s[n + 1]
    BY SequenceFacts
  <2> QED BY <1>2, <2>1, <2>2, <2>3
<1>5. CASE n # 0
  <2> HIDE DEF t
  <2>1. PICK g : FlatUpTo(t, n, g) /\ FlattenSeq(t) = g[n]
    BY <1>1, <1>5, FlatFcn
  <2>2. \A k \in 1..n : g[k] = IF k = 1 THEN s[k] ELSE g[k - 1] \o s[k]
    BY <1>1, <2>1 DEF FlatUpTo
  <2> DEFINE S == {k \in Nat : k + 1 <= n => g[k + 1] = f[k + 1]}
  <2>3. 0 \in S
    BY <1>3, <1>5, <2>2
  <2>4. ASSUME NEW k \in Nat, k \in S PROVE k + 1 \in S
    <3> SUFFICES ASSUME (k + 1) + 1 <= n PROVE g[(k + 1) + 1] = f[(k + 1) + 1]
      OBVIOUS
    <3>1. (k + 1) + 1 \in 1..n /\ (k + 1) + 1 \in 1..(n + 1) /\ (k + 1) + 1 # 1 /\ ((k + 1) + 1) - 1 = k + 1
          /\ g[k + 1] = f[k + 1]
      BY <2>4
    <3>2. g[(k + 1) + 1] = g[k + 1] \o s[(k + 1) + 1]
      BY <2>2, <3>1
    <3>3. f[(k + 1) + 1] = f[k + 1] \o s[(k + 1) + 1]
      BY <1>3, <3>1
    <3> QED BY <3>1, <3>2, <3>3
  <2> HIDE DEF S
  <2>5. Nat \subseteq S
    BY <2>3, <2>4, SetInduction
  <2>6. n - 1 \in S /\ (n - 1) + 1 = n
    BY <1>5, <2>5
  <2>7. g[n] = f[n]
    BY <2>6 DEF S
  <2>8. f[n + 1] = f[n] \o s[n + 1]
    <3>1. n + 1 \in 1..(n + 1) /\ n + 1 # 1 /\ (n + 1) - 1 = n
      BY <1>5
    <3> QED BY <1>3, <3>1
  <2> QED BY <1>2, <2>1, <2>7, <2>8 DEF t
<1> QED BY <1>4, <1>5

(* One response goes from those to be sent to those that are.              *)
LEMMA MoveHead ==
  ASSUME NEW s, Sequence(s), NEW r, Sequence(r), r # <<>>
  PROVE  Append(s, Head(r)) \o Tail(r) = s \o r /\ Sequence(Tail(r))
<1>1. PICK S : s \in Seq(S)
  BY SequenceFacts
<1>2. PICK T : r \in Seq(T)
  BY SequenceFacts
<1> DEFINE U == S \cup T
<1>3. s \in Seq(U) /\ r \in Seq(U)
  BY <1>1, <1>2
<1> HIDE DEF U
<1>4. r = <<Head(r)>> \o Tail(r) /\ Tail(r) \in Seq(U) /\ <<Head(r)>> \in Seq(U)
  BY <1>3, HeadTailProperties
<1>5. Append(s, Head(r)) = s \o <<Head(r)>>
  BY <1>3, <1>4, AppendIsConcat
<1>6. (s \o <<Head(r)>>) \o Tail(r) = s \o (<<Head(r)>> \o Tail(r))
  BY <1>3, <1>4, ConcatAssociative
<1>7. Append(s, Head(r)) \o Tail(r) = s \o r
  BY <1>4, <1>5, <1>6, Zenon
<1>8. Sequence(Tail(r))
  <2> DEFINE t == Tail(r)
  <2>1. t \in Seq(U)
    BY <1>4
  <2> HIDE DEF t
  <2>2. Len(t) \in Nat /\ t \in [1..Len(t) -> U]
    BY <2>1, LenProperties
  <2>3. t = [k \in 1..Len(t) |-> t[k]]
    BY <2>2
  <2>4. Sequence(t)
    BY <2>2, <2>3 DEF Sequence
  <2> QED BY <2>4 DEF t
<1> QED BY <1>7, <1>8

-----------------------------------------------------------------------------
(* The data: what EgtsContract wants of the decoder, for some set of       *)
(* buffers; and the invariant, of each connection c (Good). Its packets so *)
(* far are owed their responses (Owed), of which some are said and some    *)
(* are to be sent; what TCP has not cut is on the wire as a whole; what    *)
(* the handler has decoded is what the last packet, or the piece of it,    *)
(* gives.                                                                  *)
Contract == \E B : Decodes(B)
B == CHOOSE S : Decodes(S)
Chosen == Decodes(B)

(* B is one of the sets of buffers the contract speaks of.                 *)
LEMMA ContractChosen == ASSUME Contract PROVE Chosen
BY Zenon DEF Contract, B, Chosen

(* The last packet sent; how many have been read; what was said to the     *)
(* device, and what all up to the nth are owed.                            *)
Packet(c) == Script[c][sent[c]]
Decoded(c) == IF wire[c] = <<>> THEN sent[c] ELSE sent[c] - 1
Said(c) == [k \in 1..Len(responses[c]) |-> responses[c][k].response]
Owed(c, n) == FlattenSeq([k \in 1..n |-> ResponsesTo(Script[c][k])])
AllLast(c, n) == \A k \in 1..n : IdentityIsLast(Script[c][k])

(* Every variable is a function of the connections.                        *)
Functions ==
  /\ wire = [c \in Conns |-> wire[c]] /\ sent = [c \in Conns |-> sent[c]]
  /\ cut = [c \in Conns |-> cut[c]] /\ result = [c \in Conns |-> result[c]]

(* The bytes are the last packet, or fewer than it has; without a cut they *)
(* wait for the handler as a whole.                                        *)
WireOK(c) ==
  /\ sent[c] \in 0..Len(Script[c]) /\ wire[c] \in B /\ cut[c] \in BOOLEAN
  /\ sent[c] = 0 => wire[c] = <<>>
  /\ wire[c] # <<>> =>
       wire[c] = EncodePacket(Packet(c)) \/ ByteLen(wire[c]) < ByteLen(EncodePacket(Packet(c)))
  /\ wire[c] # <<>> /\ cut[c] = FALSE =>
       wire[c] = EncodePacket(Packet(c)) /\ at[c] \in {"read", "gone"}

(* Responses are pending while the handler is in sendResponse, and only    *)
(* then; no handler goes on reading after a loop that never ends.          *)
ResultOK(c) ==
  /\ Shaped(result[c]) /\ result[c].length \in Nat
  /\ result[c].length = 0 => result[c].records = <<>>
  /\ at[c] \in {"read", "done"} => result[c].responses = <<>>
  /\ at[c] \in {"load", "store", "number"} => result[c].responses # <<>>
  /\ at[c] = "read" => ~result[c].endless

(* Said and pending are what is owed, for whole packets.                   *)
RespondedOK(c) ==
  cut[c] = FALSE /\ AllLast(c, Decoded(c)) =>
    Said(c) \o result[c].responses = Owed(c, Decoded(c))

(* The last packet, read whole, is decoded as it was sent.                 *)
RecordsOK(c) ==
  cut[c] = FALSE /\ wire[c] = <<>> /\ sent[c] > 0 /\ IdentityIsLast(Packet(c)) =>
    result[c].records = PacketRecords(Packet(c)) /\ result[c].params = PacketParams(Packet(c))

(* As in PieceIsPrefix and HangsOnlyOnPieces.                              *)
PieceOK(c) ==
  /\ sent[c] > 0 /\ ~result[c].endless /\ ~result[c].panic
  /\ result[c].length + ByteLen(wire[c]) = ByteLen(EncodePacket(Packet(c)))
  => IsPrefix(result[c].records, PacketRecords(Packet(c)))
HangOK(c) == result[c].endless => cut[c] \/ ~IdentityIsLast(Packet(c))

Good(c) == WireOK(c) /\ ResultOK(c) /\ RespondedOK(c) /\ RecordsOK(c) /\ PieceOK(c) /\ HangOK(c)
DInv == Functions /\ \A c \in Conns : Good(c)

(* What the contract says of a packet of the script.                       *)
LEMMA PacketFacts ==
  ASSUME Chosen, NEW c \in Conns, NEW k \in 1..Len(Script[c])
  PROVE  LET p == Script[c][k]
             b == EncodePacket(p)
         IN  /\ b \in B /\ b # <<>> /\ ByteLen(b) \in Nat \ {0}
             /\ Sequence(PacketRecords(p))
             /\ IdentityIsLast(p) => Reads(p) /\ Sequence(ResponsesTo(p))
             /\ ReadsPieces(p)
<1> DEFINE p == Script[c][k]
           b == EncodePacket(p)
<1>1. /\ b \in B /\ b # <<>> /\ Sequence(PacketRecords(p)) /\ (IdentityIsLast(p) => Reads(p))
      /\ ReadsPieces(p) /\ Buffers(B)
  BY DEF Chosen, Decodes
<1> HIDE DEF p, b
<1>2. ByteLen(b) \in Nat /\ ByteLen(b) # 0 /\ FirstBytes(b, ByteLen(b)) = b
  BY <1>1 DEF Buffers
<1>3. PICK d \in DecodeBuffer(b) : Shaped(d)
  <2>1. ByteLen(b) \in 1..ByteLen(b)
    BY <1>2
  <2>2. \A n \in 1..ByteLen(b) :
          DecodeBuffer(FirstBytes(b, n)) # {} /\ \A d \in DecodeBuffer(FirstBytes(b, n)) : Shaped(d)
    BY <1>1 DEF Buffers
  <2> QED BY <1>2, <2>1, <2>2
<1>4. ASSUME Reads(p) PROVE Sequence(ResponsesTo(p))
  BY <1>3, <1>4 DEF Reads, Shaped, b
<1> QED BY <1>1, <1>2, <1>4 DEF p, b

(* A script is finite.                                                     *)
LEMMA ScriptFacts == ASSUME Chosen, NEW c \in Conns PROVE Len(Script[c]) \in Nat
BY DEF Chosen, Decodes, Sequence

(* What it says of a buffer on the wire.                                   *)
LEMMA BufferFacts ==
  ASSUME Chosen, NEW b \in B
  PROVE  /\ ByteLen(b) \in Nat /\ (ByteLen(b) = 0 <=> b = <<>>) /\ FirstBytes(b, ByteLen(b)) = b
         /\ \A n \in 1..ByteLen(b) :
              /\ BytesAfter(b, n) \in B /\ ByteLen(BytesAfter(b, n)) = ByteLen(b) - n
              /\ \A d \in DecodeBuffer(FirstBytes(b, n)) : Shaped(d) /\ d.length = n
BY DEF Chosen, Decodes, Buffers

(* What is owed after a whole packet more.                                 *)
LEMMA OwedMore ==
  ASSUME Chosen, NEW c \in Conns, NEW n \in Nat, n + 1 <= Len(Script[c]), IdentityIsLast(Script[c][n + 1])
  PROVE  Owed(c, n + 1) = Owed(c, n) \o ResponsesTo(Script[c][n + 1])
<1> DEFINE s == [k \in 1..(n + 1) |-> ResponsesTo(Script[c][k])]
<1>1. Len(s) = n + 1 /\ s = [k \in 1..(n + 1) |-> s[k]] /\ s[n + 1] = ResponsesTo(Script[c][n + 1])
  OBVIOUS
<1>2. [k \in 1..n |-> s[k]] = [k \in 1..n |-> ResponsesTo(Script[c][k])]
  OBVIOUS
<1>3. Sequence(s[n + 1])
  <2>1. n + 1 \in 1..Len(Script[c])
    BY ScriptFacts
  <2>2. Sequence(ResponsesTo(Script[c][n + 1]))
    BY <2>1, PacketFacts
  <2> QED BY <1>1, <2>2
<1> HIDE DEF s
<1>4. FlattenSeq(s) = FlattenSeq([k \in 1..n |-> s[k]]) \o s[n + 1]
  BY <1>1, <1>3, FlattenMore
<1> QED BY <1>1, <1>2, <1>4 DEF Owed, s

(* What was said is a sequence.                                            *)
LEMMA SaidIsSequence == ASSUME NEW c \in Conns, Numbered(responses[c]) PROVE Sequence(Said(c))
<1> DEFINE s == Said(c)
           n == Len(responses[c])
<1>1. n \in Nat
  BY DEF Numbered
<1>2. Len(s) = n /\ s = [k \in 1..n |-> s[k]]
  BY <1>1 DEF Said
<1> QED BY <1>1, <1>2 DEF Sequence

(* At first nothing was sent, and nothing is owed.                         *)
LEMMA InitDInv == ASSUME Chosen, Init PROVE DInv
<1>1. Functions
  BY DEF Init, Functions
<1>2. ASSUME NEW c \in Conns PROVE Good(c)
  <2>1. PICK d \in DecodeBuffer(<<>>) :
          /\ wire[c] = <<>> /\ sent[c] = 0 /\ cut[c] = FALSE /\ at[c] = "read" /\ result[c] = d
          /\ responses[c] = <<>>
    BY DEF Init
  <2>2. /\ Shaped(d) /\ d.length = 0 /\ d.endless = FALSE /\ d.records = <<>> /\ d.responses = <<>>
        /\ <<>> \in B
    BY DEF Chosen, Decodes, Buffers
  <2>3. WireOK(c)
    <3>1. sent[c] \in 0..Len(Script[c])
      BY <2>1, ScriptFacts
    <3>2. cut[c] \in BOOLEAN
      BY <2>1, Zenon
    <3> QED BY <2>1, <2>2, <3>1, <3>2, Zenon DEF WireOK
  <2>4. ResultOK(c) /\ HangOK(c)
    BY <2>1, <2>2 DEF ResultOK, HangOK
  <2>5. RespondedOK(c)
    <3>1. Said(c) = <<>> /\ Decoded(c) = 0
      BY <2>1 DEF Said, Decoded
    <3>2. Owed(c, 0) = <<>>
      <4> DEFINE s == [k \in 1..0 |-> ResponsesTo(Script[c][k])]
      <4>1. Len(s) = 0 /\ s = <<>>
        OBVIOUS
      <4> HIDE DEF s
      <4>2. FlattenSeq(s) = <<>>
        BY <4>1 DEF FlattenSeq
      <4> QED BY <4>2 DEF Owed, s
    <3>3. <<>> \o <<>> = <<>>
      OBVIOUS
    <3> QED BY <2>1, <2>2, <3>1, <3>2, <3>3 DEF RespondedOK
  <2>6. RecordsOK(c) /\ PieceOK(c)
    BY <2>1 DEF RecordsOK, PieceOK
  <2> QED BY <2>3, <2>4, <2>5, <2>6 DEF Good
<1> QED BY <1>1, <1>2 DEF DInv

(* A handler that nothing happens to, unless another panics.               *)
LEMMA Others ==
  ASSUME NEW c \in Conns, Good(c), wire'[c] = wire[c], sent'[c] = sent[c], cut'[c] = cut[c],
         result'[c] = result[c], responses'[c] = responses[c], at'[c] \in {at[c], "gone"}
  PROVE  Good(c)'
<1>1. WireOK(c)'
  BY DEF Good, WireOK, Packet
<1>2. ResultOK(c)'
  BY DEF Good, ResultOK
<1>3. Decoded(c)' = Decoded(c) /\ Said(c)' = Said(c)
  BY DEF Decoded, Said
<1>4. RespondedOK(c)'
  BY <1>3 DEF Good, RespondedOK, Owed, AllLast
<1>5. RecordsOK(c)'
  BY DEF Good, RecordsOK, Packet
<1>6. PieceOK(c)'
  BY DEF Good, PieceOK, Packet
<1>7. HangOK(c)'
  BY DEF Good, HangOK, Packet
<1> QED BY <1>1, <1>2, <1>4, <1>5, <1>6, <1>7 DEF Good

(* A device sends: only what is on the wire is new.                        *)
LEMMA SendStep == ASSUME Chosen, DInv, TypeOK, NEW c \in Conns, Send(c) PROVE DInv'
<1> DEFINE p == Script[c][sent[c] + 1]
<1>1. /\ at[c] = "read" /\ wire[c] = <<>> /\ sent[c] < Len(Script[c])
      /\ sent' = [sent EXCEPT ![c] = @ + 1] /\ wire' = [wire EXCEPT ![c] = EncodePacket(p)]
      /\ UNCHANGED <<packetId, cut, at, result, register, responses, overlap>>
  BY DEF Send
<1>2. Functions'
  BY <1>1 DEF DInv, Functions
<1>3. ASSUME NEW e \in Conns \ {c} PROVE Good(e)'
  BY <1>1, <1>3, Others DEF DInv, Functions
<1>4. sent'[c] = sent[c] + 1 /\ wire'[c] = EncodePacket(p)
  BY <1>1 DEF DInv, Functions
<1>5. Good(c) /\ sent[c] \in 0..Len(Script[c]) /\ Len(Script[c]) \in Nat /\ cut[c] \in BOOLEAN
  BY ScriptFacts DEF DInv, Good, WireOK
<1>6. sent[c] + 1 \in 1..Len(Script[c]) /\ sent[c] \in Nat
  BY <1>1, <1>5
<1>7. /\ EncodePacket(p) \in B /\ EncodePacket(p) # <<>> /\ ByteLen(EncodePacket(p)) \in Nat \ {0}
      /\ Sequence(PacketRecords(p))
  BY <1>6, PacketFacts
<1>8. Packet(c)' = p
  BY <1>4 DEF Packet
<1> HIDE DEF p
<1>9. WireOK(c)'
  <2>1. sent'[c] \in 0..Len(Script[c]) /\ sent'[c] # 0
    BY <1>4, <1>5, <1>6
  <2> QED BY <1>1, <1>4, <1>5, <1>7, <1>8, <2>1 DEF WireOK
<1>10. ResultOK(c)'
  BY <1>1, <1>5 DEF Good, ResultOK
<1>11. RespondedOK(c)'
  <2>1. Decoded(c) = sent[c] /\ Decoded(c)' = sent[c]
    BY <1>1, <1>4, <1>6, <1>7 DEF Decoded
  <2>2. Said(c)' = Said(c)
    BY <1>1 DEF Said
  <2> QED BY <1>1, <1>5, <2>1, <2>2 DEF Good, RespondedOK, Owed, AllLast
<1>12. RecordsOK(c)'
  BY <1>4, <1>7 DEF RecordsOK
<1>13. PieceOK(c)'
  <2> SUFFICES ASSUME result[c].length + ByteLen(EncodePacket(p)) = ByteLen(EncodePacket(p))
               PROVE  IsPrefix(result[c].records, PacketRecords(p))
    BY <1>1, <1>4, <1>8 DEF PieceOK
  <2>1. result[c].length = 0
    BY <1>5, <1>7 DEF Good, ResultOK
  <2>2. result[c].records = <<>>
    BY <1>5, <2>1 DEF Good, ResultOK
  <2> DEFINE r == PacketRecords(p)
  <2>3. Len(r) \in Nat /\ Len(<<>>) = 0
    BY <1>7 DEF Sequence
  <2> HIDE DEF r
  <2>4. SubSeq(r, 1, 0) = <<>> /\ SubSeq(<<>>, 1, 0) = <<>>
    OBVIOUS
  <2>5. IsPrefix(<<>>, r)
    BY <2>3, <2>4 DEF IsPrefix
  <2> QED BY <2>2, <2>5 DEF r
<1>14. HangOK(c)'
  <2>1. ~result[c].endless
    BY <1>1, <1>5 DEF Good, ResultOK
  <2> QED BY <1>1, <2>1 DEF HangOK
<1>15. Good(c)'
  BY <1>9, <1>10, <1>11, <1>12, <1>13, <1>14 DEF Good
<1> QED BY <1>2, <1>3, <1>15 DEF DInv

(* The steps that only go on in sendResponse.                              *)
LEMMA SendingStep ==
  ASSUME DInv, TypeOK, NEW c \in Conns, Load(c) \/ Store(c) PROVE DInv'
<1>1. /\ UNCHANGED <<wire, sent, cut, result, responses>>
      /\ at[c] \in {"load", "store"} /\ at'[c] \in {"store", "number"}
      /\ \A e \in Conns \ {c} : at'[e] = at[e]
  BY DEF Load, Store, TypeOK
<1>2. Functions'
  BY <1>1 DEF DInv, Functions
<1>3. ASSUME NEW e \in Conns \ {c} PROVE Good(e)'
  BY <1>1, <1>3, Others DEF DInv
<1>4. Good(c)'
  <2>1. Good(c)
    BY DEF DInv
  <2>2. WireOK(c)' /\ ResultOK(c)'
    BY <1>1, <2>1 DEF Good, WireOK, ResultOK, Packet
  <2>3. RespondedOK(c)' /\ RecordsOK(c)'
    <3>1. Decoded(c)' = Decoded(c) /\ Said(c)' = Said(c)
      BY <1>1 DEF Decoded, Said
    <3> QED BY <1>1, <2>1, <3>1 DEF Good, RespondedOK, RecordsOK, Packet, Owed, AllLast
  <2>4. PieceOK(c)' /\ HangOK(c)'
    BY <1>1, <2>1 DEF Good, PieceOK, HangOK, Packet
  <2> QED BY <2>2, <2>3, <2>4 DEF Good
<1> QED BY <1>2, <1>3, <1>4 DEF DInv

(* handle returns, or never does.                                          *)
LEMMA FinishData == ASSUME DInv, TypeOK, NEW c \in Conns, Finish(c) PROVE DInv'
<1>1. /\ UNCHANGED <<wire, sent, cut, result, responses>>
      /\ at[c] = "done" /\ at'[c] \in {"endless", "read", "gone"}
      /\ at'[c] = "read" => ~result[c].endless
      /\ \A e \in Conns \ {c} : at'[e] = at[e]
  BY DEF Finish, TypeOK
<1>2. Functions'
  BY <1>1 DEF DInv, Functions
<1>3. ASSUME NEW e \in Conns \ {c} PROVE Good(e)'
  BY <1>1, <1>3, Others DEF DInv
<1>4. Good(c)'
  <2>1. Good(c)
    BY DEF DInv
  <2>2. WireOK(c)'
    BY <1>1, <2>1 DEF Good, WireOK, Packet
  <2>3. ResultOK(c)'
    BY <1>1, <2>1 DEF Good, ResultOK
  <2>4. RespondedOK(c)' /\ RecordsOK(c)'
    <3>1. Decoded(c)' = Decoded(c) /\ Said(c)' = Said(c)
      BY <1>1 DEF Decoded, Said
    <3> QED BY <1>1, <2>1, <3>1 DEF Good, RespondedOK, RecordsOK, Packet, Owed, AllLast
  <2>5. PieceOK(c)' /\ HangOK(c)'
    BY <1>1, <2>1 DEF Good, PieceOK, HangOK, Packet
  <2> QED BY <2>2, <2>3, <2>4, <2>5 DEF Good
<1> QED BY <1>2, <1>3, <1>4 DEF DInv

(* A read, whatever comes of it.                                           *)
LEMMA GoodRead ==
  ASSUME Chosen, DInv, TypeOK, NEW c \in Conns, NEW n \in 1..ByteLen(wire[c]), NEW d,
         d \in DecodeBuffer(FirstBytes(wire[c], n)), at[c] = "read",
         wire'[c] = BytesAfter(wire[c], n), cut'[c] = (cut[c] \/ n < ByteLen(wire[c])),
         sent'[c] = sent[c], responses'[c] = responses[c], result'[c] = d, at'[c] = Pending(d)
  PROVE  Good(c)'
<1> DEFINE w == wire[c]
           p == Packet(c)
<1>1. Good(c)
  BY DEF DInv
<1>2. w \in B /\ cut[c] \in BOOLEAN /\ sent[c] \in 0..Len(Script[c]) /\ Len(Script[c]) \in Nat
  BY <1>1, ScriptFacts DEF Good, WireOK
<1>3. /\ ByteLen(w) \in Nat /\ (ByteLen(w) = 0 <=> w = <<>>) /\ FirstBytes(w, ByteLen(w)) = w
      /\ BytesAfter(w, n) \in B /\ ByteLen(BytesAfter(w, n)) = ByteLen(w) - n
      /\ Shaped(d) /\ d.length = n
  BY <1>2, BufferFacts
<1>4. n \in Nat /\ n # 0 /\ n <= ByteLen(w) /\ w # <<>>
  BY <1>3
<1>5. sent[c] \in 1..Len(Script[c]) /\ p = Script[c][sent[c]]
  BY <1>1, <1>2, <1>4 DEF Good, WireOK, Packet
<1>6. /\ EncodePacket(p) \in B /\ ByteLen(EncodePacket(p)) \in Nat
      /\ (IdentityIsLast(p) => Reads(p) /\ Sequence(ResponsesTo(p))) /\ ReadsPieces(p)
  BY <1>5, PacketFacts
<1>7. w = EncodePacket(p) \/ ByteLen(w) < ByteLen(EncodePacket(p))
  BY <1>1, <1>4 DEF Good, WireOK
<1>8. cut'[c] = FALSE =>
        /\ cut[c] = FALSE /\ n = ByteLen(w) /\ w = EncodePacket(p) /\ BytesAfter(w, n) = <<>>
        /\ d \in DecodeBuffer(EncodePacket(p))
  <2> SUFFICES ASSUME cut'[c] = FALSE
               PROVE  /\ cut[c] = FALSE /\ n = ByteLen(w) /\ w = EncodePacket(p) /\ BytesAfter(w, n) = <<>>
                      /\ d \in DecodeBuffer(EncodePacket(p))
    OBVIOUS
  <2>1. ~(cut[c] \/ n < ByteLen(w))
    BY Zenon
  <2>2. cut[c] = FALSE /\ n = ByteLen(w)
    <3>1. ~cut[c] /\ ~(n < ByteLen(w))
      BY <2>1, Zenon
    <3>2. cut[c] = FALSE
      BY <1>2, <3>1, Zenon
    <3> QED BY <1>3, <1>4, <3>1, <3>2
  <2>3. w = EncodePacket(p)
    BY <1>1, <1>4, <2>2 DEF Good, WireOK
  <2>4. ByteLen(BytesAfter(w, n)) = 0
    BY <1>3, <2>2
  <2>5. BytesAfter(w, n) = <<>>
    BY <1>3, <2>4, BufferFacts
  <2> QED BY <1>3, <2>2, <2>3, <2>5
<1>9. Packet(c)' = p /\ Said(c)' = Said(c)
  BY DEF Packet, Said
<1>10. cut'[c] \in BOOLEAN
  BY <1>2, Zenon
<1> HIDE DEF w, p
<1>11. WireOK(c)'
  <2>1. wire'[c] = BytesAfter(w, n) /\ sent'[c] # 0
    BY <1>5 DEF w
  <2>2. ByteLen(BytesAfter(w, n)) < ByteLen(EncodePacket(p))
    BY <1>3, <1>4, <1>6, <1>7
  <2> QED BY <1>2, <1>3, <1>8, <1>9, <1>10, <2>1, <2>2 DEF WireOK
<1>12. ResultOK(c)'
  BY <1>3, <1>4 DEF ResultOK, Pending
<1>13. RespondedOK(c)'
  <2> SUFFICES ASSUME cut'[c] = FALSE, AllLast(c, Decoded(c))'
               PROVE  Said(c)' \o d.responses = Owed(c, Decoded(c))'
    BY DEF RespondedOK
  <2>1. Decoded(c)' = sent[c] /\ Decoded(c) = sent[c] - 1
    BY <1>4, <1>8 DEF Decoded, w
  <2>2. AllLast(c, sent[c])
    BY <2>1 DEF AllLast
  <2> DEFINE m == sent[c] - 1
  <2>3. m \in Nat /\ m + 1 = sent[c] /\ m + 1 <= Len(Script[c])
    BY <1>2, <1>5
  <2>4. AllLast(c, m) /\ IdentityIsLast(p)
    BY <1>5, <2>2, <2>3 DEF AllLast
  <2>5. Said(c) \o result[c].responses = Owed(c, m) /\ result[c].responses = <<>>
    BY <1>1, <1>8, <2>1, <2>4 DEF Good, RespondedOK, ResultOK
  <2>6. Sequence(Said(c))
    BY SaidIsSequence DEF TypeOK
  <2>7. Said(c) = Owed(c, m)
    BY <2>5, <2>6, SequenceFacts
  <2>8. d.responses = ResponsesTo(p)
    BY <1>6, <1>8, <2>4 DEF Reads
  <2> HIDE DEF m
  <2>9. Owed(c, m + 1) = Owed(c, m) \o ResponsesTo(Script[c][m + 1])
    BY <1>5, <2>3, <2>4, OwedMore
  <2>10. Owed(c, Decoded(c))' = Owed(c, m + 1)
    BY <2>1, <2>3 DEF Owed
  <2> QED BY <1>5, <1>9, <2>3, <2>7, <2>8, <2>9, <2>10
<1>14. RecordsOK(c)'
  BY <1>6, <1>8, <1>9 DEF RecordsOK, Reads
<1>15. PieceOK(c)'
  <2> SUFFICES ASSUME ~d.endless, ~d.panic, d.length + ByteLen(BytesAfter(w, n)) = ByteLen(EncodePacket(p))
               PROVE  IsPrefix(d.records, PacketRecords(p))
    BY <1>9 DEF PieceOK, w
  <2>1. w = EncodePacket(p)
    BY <1>3, <1>4, <1>6, <1>7
  <2>2. n \in 1..ByteLen(EncodePacket(p)) /\ d \in DecodeBuffer(FirstBytes(EncodePacket(p), n))
    BY <1>3, <1>4, <2>1 DEF w
  <2> QED BY <1>6, <2>2 DEF ReadsPieces
<1>16. HangOK(c)'
  <2> SUFFICES ASSUME d.endless, ~(cut'[c]), IdentityIsLast(p) PROVE FALSE
    BY <1>9 DEF HangOK
  <2>1. cut'[c] = FALSE
    BY <1>10, Zenon
  <2>2. d.endless = FALSE
    BY <1>6, <1>8, <2>1 DEF Reads
  <2> QED BY <2>2
<1> QED BY <1>11, <1>12, <1>13, <1>14, <1>15, <1>16 DEF Good

(* A read, which leaves the other handlers alone.                          *)
LEMMA ReadStep == ASSUME Chosen, DInv, TypeOK, NEW c \in Conns, NEW n, Read(c, n) PROVE DInv'
<1>1. /\ at[c] = "read" /\ n \in 1..ByteLen(wire[c])
      /\ wire' = [wire EXCEPT ![c] = BytesAfter(@, n)]
      /\ cut' = [cut EXCEPT ![c] = @ \/ n < ByteLen(wire[c])]
      /\ UNCHANGED <<sent, responses>>
  BY Zenon DEF Read
<1>2. PICK d \in DecodeBuffer(FirstBytes(wire[c], n)) :
        result' = [result EXCEPT ![c] = d] /\ at' = [at EXCEPT ![c] = Pending(d)]
  BY Zenon DEF Read
<1>3. \A e \in Conns \ {c} :
        /\ wire'[e] = wire[e] /\ sent'[e] = sent[e] /\ cut'[e] = cut[e] /\ result'[e] = result[e]
        /\ responses'[e] = responses[e] /\ at'[e] = at[e]
  <2>1. \A e \in Conns \ {c} : wire'[e] = wire[e] /\ sent'[e] = sent[e] /\ responses'[e] = responses[e]
    BY <1>1 DEF DInv, Functions
  <2>2. \A e \in Conns \ {c} : cut'[e] = cut[e]
    BY <1>1, Zenon DEF DInv, Functions
  <2>3. \A e \in Conns \ {c} : result'[e] = result[e] /\ at'[e] = at[e]
    BY <1>2 DEF DInv, Functions, TypeOK
  <2> QED BY <2>1, <2>2, <2>3
<1>4. wire'[c] = BytesAfter(wire[c], n) /\ sent'[c] = sent[c] /\ responses'[c] = responses[c]
  BY <1>1 DEF DInv, Functions
<1>5. cut'[c] = (cut[c] \/ n < ByteLen(wire[c]))
  <2>1. c \in DOMAIN cut
    BY DEF DInv, Functions
  <2> QED BY <1>1, <2>1, Zenon
<1>6. Functions'
  <2>1. wire' = [e \in Conns |-> wire'[e]] /\ sent' = [e \in Conns |-> sent'[e]]
    BY <1>1 DEF DInv, Functions
  <2>2. cut' = [e \in Conns |-> cut'[e]]
    <3> DEFINE v == cut[c] \/ n < ByteLen(wire[c])
    <3>1. cut' = [cut EXCEPT ![c] = v] /\ cut = [e \in Conns |-> cut[e]]
      BY <1>1 DEF DInv, Functions
    <3> HIDE DEF v
    <3> QED BY <3>1
  <2>3. result' = [e \in Conns |-> result'[e]]
    BY <1>2 DEF DInv, Functions
  <2> QED BY <2>1, <2>2, <2>3 DEF Functions
<1>7. \A e \in Conns \ {c} : Good(e)'
  BY <1>3, Others DEF DInv
<1>8. result'[c] = d /\ at'[c] = Pending(d)
  BY <1>2 DEF DInv, Functions, TypeOK
<1>9. Good(c)'
  BY <1>1, <1>2, <1>4, <1>5, <1>8, GoodRead
<1> QED BY <1>6, <1>7, <1>9 DEF DInv

(* A sequence with one value more, value by value.                         *)
LEMMA AppendIs ==
  ASSUME NEW v, NEW n \in Nat, Len(v) = n, Sequence(v), NEW h
  PROVE  Append(v, h) = [k \in 1..(n + 1) |-> IF k = n + 1 THEN h ELSE v[k]]
<1>1. PICK S : v \in Seq(S)
  BY SequenceFacts
<1>2. /\ \A k \in 1..n : Append(v, h)[k] = v[k]
      /\ Append(v, h)[n + 1] = h /\ Len(Append(v, h)) = n + 1
  BY <1>1, AppendResponse
<1>3. PICK T : Append(v, h) \in Seq(T)
  BY <1>1, AppendResponse
<1> DEFINE a == Append(v, h)
<1> HIDE DEF a
<1>4. a = [k \in 1..(n + 1) |-> a[k]]
  <2>1. a \in Seq(T)
    BY <1>3 DEF a
  <2>2. Len(a) = n + 1
    BY <1>2 DEF a
  <2>3. a \in [1..Len(a) -> T]
    BY <2>1
  <2> QED BY <2>2, <2>3
<1>5. \A k \in 1..(n + 1) : a[k] = IF k = n + 1 THEN h ELSE v[k]
  BY <1>2 DEF a
<1>6. a = [k \in 1..(n + 1) |-> IF k = n + 1 THEN h ELSE v[k]]
  BY <1>4, <1>5
<1> QED BY <1>6 DEF a

(* A response is sent: it is said now, and no longer among those to be     *)
(* sent.                                                                   *)
LEMMA NumberData == ASSUME DInv, TypeOK, NEW c \in Conns, Number(c) PROVE DInv'
<1> DEFINE r == result[c].responses
           rest == [result[c] EXCEPT !.responses = Tail(@)]
           x == [number |-> packetId % Width, response |-> Head(r)]
<1>1. /\ at[c] = "number" /\ responses' = [responses EXCEPT ![c] = Append(@, x)]
      /\ result' = [result EXCEPT ![c] = rest] /\ at' = [at EXCEPT ![c] = Pending(rest)]
      /\ UNCHANGED <<wire, sent, cut>>
  BY DEF Number
<1>2. Good(c) /\ Shaped(result[c]) /\ r # <<>> /\ Sequence(r)
  BY <1>1 DEF DInv, Good, ResultOK, Shaped
<1>3. /\ rest.responses = Tail(r) /\ rest.records = result[c].records /\ rest.params = result[c].params
      /\ rest.length = result[c].length /\ rest.endless = result[c].endless /\ rest.panic = result[c].panic
      /\ rest = [f \in DOMAIN rest |-> rest[f]] /\ DOMAIN rest = DOMAIN result[c]
  BY <1>2 DEF Shaped, Fields
<1>4. Sequence(Said(c)) /\ Numbered(responses[c])
  BY SaidIsSequence DEF TypeOK
<1>5. Append(Said(c), Head(r)) \o Tail(r) = Said(c) \o r /\ Sequence(Tail(r))
  BY <1>2, <1>4, MoveHead
<1>6. x.response = Head(r)
  OBVIOUS
<1> HIDE DEF rest, x, r
<1>7. Functions'
  BY <1>1 DEF DInv, Functions
<1>8. ASSUME NEW e \in Conns \ {c} PROVE Good(e)'
  BY <1>1, <1>8, Others DEF DInv, Functions, TypeOK
<1>9. result'[c] = rest /\ at'[c] = Pending(rest) /\ responses'[c] = Append(responses[c], x)
  BY <1>1 DEF DInv, Functions, TypeOK
<1>10. Said(c)' = Append(Said(c), Head(r))
  <2> DEFINE s == responses[c]
             n == Len(s)
  <2>1. PICK S : s \in Seq(S)
    BY <1>4 DEF Numbered
  <2>2. /\ Len(Append(s, x)) = n + 1 /\ n \in Nat
        /\ \A k \in 1..n : Append(s, x)[k] = s[k]
        /\ Append(s, x)[n + 1] = x
    BY <2>1, AppendResponse
  <2>3. Said(c) = [k \in 1..n |-> s[k].response]
    BY DEF Said
  <2>4. Said(c)' = [k \in 1..(n + 1) |-> Append(s, x)[k].response]
    BY <1>9, <2>2 DEF Said
  <2> HIDE DEF s, n
  <2>5. Said(c)' = [k \in 1..(n + 1) |-> IF k = n + 1 THEN Head(r) ELSE s[k].response]
    BY <1>6, <2>2, <2>4
  <2> DEFINE v == [k \in 1..n |-> s[k].response]
             h == Head(r)
  <2>6. Len(v) = n /\ \A k \in 1..n : v[k] = s[k].response
    BY <2>2
  <2>7. Append(v, h) = [k \in 1..(n + 1) |-> IF k = n + 1 THEN h ELSE v[k]]
    <3>1. Sequence(v)
      BY <1>4, <2>3
    <3> HIDE DEF v, h
    <3> QED BY <2>2, <2>6, <3>1, AppendIs
  <2>8. Append(v, h) = [k \in 1..(n + 1) |-> IF k = n + 1 THEN h ELSE s[k].response]
    <3>1. \A k \in 1..(n + 1) : k # n + 1 => v[k] = s[k].response
      BY <2>2, <2>6
    <3> HIDE DEF v, h
    <3> QED BY <2>7, <3>1
  <2> QED BY <2>3, <2>5, <2>8
<1>11. WireOK(c)' /\ ResultOK(c)'
  <2>1. at'[c] \in {"load", "done"} /\ (at'[c] = "done" => Tail(r) = <<>>) /\ (at'[c] = "load" => Tail(r) # <<>>)
    BY <1>3, <1>9 DEF Pending
  <2>2. Shaped(rest)
    BY <1>2, <1>3, <1>5 DEF Shaped
  <2>3. WireOK(c)'
    BY <1>1, <1>2, <2>1 DEF Good, WireOK, Packet
  <2>4. ResultOK(c)'
    BY <1>2, <1>3, <1>9, <2>1, <2>2 DEF Good, ResultOK
  <2> QED BY <2>3, <2>4
<1>12. RespondedOK(c)'
  <2>1. Decoded(c)' = Decoded(c)
    BY <1>1 DEF Decoded
  <2> QED BY <1>1, <1>2, <1>3, <1>5, <1>9, <1>10, <2>1 DEF Good, RespondedOK, Owed, AllLast, r
<1>13. RecordsOK(c)'
  BY <1>1, <1>2, <1>3, <1>9 DEF Good, RecordsOK, Packet
<1>14. PieceOK(c)' /\ HangOK(c)'
  BY <1>1, <1>2, <1>3, <1>9 DEF Good, PieceOK, HangOK, Packet
<1>15. Good(c)'
  BY <1>11, <1>12, <1>13, <1>14 DEF Good
<1> QED BY <1>7, <1>8, <1>15 DEF DInv

(* A panic takes all handlers with it, and what they have had stays.       *)
LEMMA PanicData == ASSUME DInv, NEW c \in Conns, Panic(c) PROVE DInv'
<1>1. Functions'
  BY DEF Panic, DInv, Functions
<1>2. \A e \in Conns : Good(e)'
  BY Others DEF Panic, DInv
<1> QED BY <1>1, <1>2 DEF DInv

(* The invariant is inductive, beside that of the numbers.                 *)
LEMMA NextDInv == ASSUME Chosen, DInv, TypeOK, [Next]_vars PROVE DInv'
<1>1. CASE UNCHANGED vars
  <2>1. Functions'
    BY <1>1 DEF vars, DInv, Functions
  <2>2. \A e \in Conns : Good(e)'
    BY <1>1, Others DEF vars, DInv
  <2> QED BY <2>1, <2>2 DEF DInv
<1>2. ASSUME NEW c \in Conns, HandleRequest(c) PROVE DInv'
  BY <1>2, ReadStep, SendingStep, NumberData, FinishData, PanicData DEF HandleRequest
<1> QED BY <1>1, <1>2, SendStep DEF Next

(* The invariant behind the theorems below.                                *)
THEOREM DataInductive == ASSUME Contract PROVE Spec => [](IInv /\ DInv)
<1>1. Chosen
  BY ContractChosen
<1>2. Init => IInv /\ DInv
  BY <1>1, InitIInv, InitDInv
<1>3. IInv => TypeOK
  BY DEF IInv
<1>4. IInv /\ DInv /\ [Next]_vars => IInv' /\ DInv'
  BY <1>1, <1>3, NextIInv, NextDInv
<1> QED BY <1>2, <1>4, PTL DEF Spec

(* For any number of devices, whatever they send and however their         *)
(* handlers interleave: of packets that came whole every record is         *)
(* confirmed and decoded as it was sent.                                   *)
THEOREM Whole == ASSUME Contract PROVE Spec => []DecodedAsSent
<1>1. IInv /\ DInv => DecodedAsSent
  <2> SUFFICES ASSUME DInv, NEW c \in Conns, SentWhole(c)
               PROVE  /\ [k \in 1..Len(responses[c]) |-> responses[c][k].response] \o result[c].responses
                           = FlattenSeq([k \in 1..sent[c] |-> ResponsesTo(Script[c][k])])
                      /\ sent[c] > 0 => /\ result[c].records = PacketRecords(Script[c][sent[c]])
                                        /\ result[c].params = PacketParams(Script[c][sent[c]])
    BY DEF DecodedAsSent
  <2>1. Good(c) /\ cut[c] \in BOOLEAN
    BY DEF DInv, Good, WireOK
  <2>2. wire[c] = <<>> /\ AllLast(c, sent[c]) /\ ~cut[c]
    BY DEF SentWhole, AllLast
  <2>3. cut[c] = FALSE
    BY <2>1, <2>2, Zenon
  <2>4. Decoded(c) = sent[c]
    BY <2>2 DEF Decoded
  <2>5. Said(c) \o result[c].responses = Owed(c, sent[c])
    BY <2>1, <2>2, <2>3, <2>4 DEF Good, RespondedOK
  <2>6. ASSUME sent[c] > 0 PROVE IdentityIsLast(Packet(c))
    <3>1. sent[c] \in Nat
      BY <2>1 DEF Good, WireOK
    <3>2. sent[c] \in 1..sent[c]
      BY <2>6, <3>1
    <3> QED BY <2>2, <3>2 DEF AllLast, Packet
  <2>7. sent[c] > 0 => result[c].records = PacketRecords(Packet(c)) /\ result[c].params = PacketParams(Packet(c))
    BY <2>1, <2>2, <2>3, <2>6 DEF Good, RecordsOK
  <2> QED BY <2>5, <2>7 DEF Said, Owed, Packet
<1>2. Spec => [](IInv /\ DInv)
  BY DataInductive
<1> QED BY <1>1, <1>2, PTL

(* However TCP cuts the packets: the first piece of one yields records of  *)
(* it, from the first on, unless the decoder hangs on it or panics.        *)
THEOREM Pieces == ASSUME Contract PROVE Spec => []PieceIsPrefix
<1>1. IInv /\ DInv => PieceIsPrefix
  BY DEF DInv, Good, PieceOK, PieceIsPrefix, Packet
<1>2. Spec => [](IInv /\ DInv)
  BY DataInductive
<1> QED BY <1>1, <1>2, PTL

(* The loop of egts.go:215 hangs a handler only on a piece, or on a packet *)
(* that goes on after an identity.                                         *)
THEOREM Hangs == ASSUME Contract PROVE Spec => []HangsOnlyOnPieces
<1>1. IInv /\ DInv => HangsOnlyOnPieces
  BY DEF DInv, Good, HangOK, HangsOnlyOnPieces, Packet
<1>2. Spec => [](IInv /\ DInv)
  BY DataInductive
<1> QED BY <1>1, <1>2, PTL
=============================================================================
