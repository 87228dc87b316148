--------------------------- MODULE RuptelaProofs ---------------------------
(***************************************************************************)
(* The decoder of Ruptela, for every packet: getRecords understands what a *)
(* device encodes, any number of records with any groups of values, and    *)
(* refuses every proper piece of it.  So this decoder keeps the contract   *)
(* of Link, and a Link that speaks Ruptela delivers, whatever its script,  *)
(* its connections and the way TCP cuts the streams.                       *)
(*                                                                         *)
(* Induction over data is by SetInduction and SeqInduction, over a set:    *)
(* the recursive functions of Wire and Ruptela are unfolded one value at a *)
(* time, by lemmas that give the function the name f.                      *)
(***************************************************************************)
EXTENDS LinkProofs, Ruptela, WellFoundedInduction, NaturalsInduction, SequenceTheorems

-----------------------------------------------------------------------------
(* Induction. The induction theorems of the library take an operator; here *)
(* the induction is over a set of numbers.                                 *)

(* Every set of numbers has a least one.                                   *)
LEMMA Least == ASSUME NEW T \in SUBSET Nat, T # {} PROVE \E n \in T : \A m \in T : n <= m
<1> DEFINE R == OpToRel(<, Nat)
<1>1. IsWellFoundedOn(R, Nat)
  BY NatLessThanWellFounded
<1>2. \A m, n \in Nat : <<m, n>> \in R <=> m < n
  BY DEF OpToRel
<1> HIDE DEF R
<1>3. PICK n \in T : \A m \in T : ~(<<m, n>> \in R)
  BY <1>1, WFMin
<1>4. \A m \in T : ~(m < n)
  BY <1>2, <1>3, Zenon
<1> QED BY <1>4

(* A set with zero and with the successor of each of its numbers has them  *)
(* all.                                                                    *)
LEMMA SetInduction == ASSUME NEW S, 0 \in S, \A n \in Nat : n \in S => n + 1 \in S PROVE Nat \subseteq S
<1>1. SUFFICES ASSUME Nat \ S # {} PROVE FALSE
  OBVIOUS
<1>2. PICK n \in Nat \ S : \A m \in Nat \ S : n <= m
  BY <1>1, Least
<1>3. n - 1 \in Nat /\ n - 1 \notin Nat \ S /\ n = (n - 1) + 1
  BY <1>2
<1> QED BY <1>2, <1>3

(* Recursion on the number of a field.                                     *)
LEMMA BytesFcn ==
  ASSUME NEW b, Len(b) \in Nat
  PROVE  \E f : /\ f = [k \in 0..Len(b) |-> IF k = 0 THEN 0 ELSE f[k - 1] + b[k].w]
                /\ Bytes(b) = f[Len(b)]
<1> DEFINE E(n, f) == f = [k \in 0..n |-> IF k = 0 THEN 0 ELSE f[k - 1] + b[k].w]
           S == {n \in Nat : \E f : E(n, f)}
<1>1. 0 \in S
  <2>1. E(0, [k \in 0..0 |-> 0])
    OBVIOUS
  <2> QED BY <2>1
<1>2. ASSUME NEW n \in Nat, n \in S PROVE n + 1 \in S
  <2>1. PICK f : E(n, f)
    BY <1>2
  <2> DEFINE g == [k \in 0..(n + 1) |-> IF k = n + 1 THEN f[n] + b[n + 1].w ELSE f[k]]
  <2>2. \A k \in 0..(n + 1) : g[k] = IF k = 0 THEN 0 ELSE g[k - 1] + b[k].w
    BY <2>1
  <2>3. g = [k \in 0..(n + 1) |-> g[k]]
    OBVIOUS
  <2> HIDE DEF g
  <2>4. E(n + 1, g)
    BY <2>2, <2>3
  <2> QED BY <2>4
<1>3. \E f : E(Len(b), f)
  <2> HIDE DEF S
  <2>1. Nat \subseteq S
    BY <1>1, <1>2, SetInduction
  <2> QED BY <2>1 DEF S
<1>4. E(Len(b), CHOOSE f : E(Len(b), f))
  BY <1>3, Zenon
<1>5. Bytes(b) = (CHOOSE f : E(Len(b), f))[Len(b)]
  BY Zenon DEF Bytes
<1> QED BY <1>4, <1>5

-----------------------------------------------------------------------------
(* Buffers, and the rows by which Skip and Cut are defined: the part of    *)
(* the first field, of the second and so on, each from the next one.       *)

(* What buffers consist of: fields of some width, with a value.            *)
Field == [w : Nat \ {0}, v : Int]
Buffer == Seq(Field)

(* A buffer with a field put before it.                                    *)
LEMMA ConsFacts ==
  ASSUME NEW f \in Field, NEW b \in Buffer
  PROVE  LET c == <<f>> \o b
         IN  /\ c \in Buffer /\ Len(c) = Len(b) + 1 /\ Len(b) \in Nat /\ c[1] = f /\ c # <<>> /\ Head(c) = f
             /\ \A k \in 1..Len(b) : c[k + 1] = b[k] /\ b[k] \in Field
             /\ \A k \in 1..(Len(b) + 1) : SubSeq(c, k + 1, Len(c)) = SubSeq(b, k, Len(b))
<1> DEFINE c == <<f>> \o b
<1>1. c \in Buffer /\ Len(c) = Len(b) + 1 /\ Len(b) \in Nat /\ c[1] = f /\ c # <<>> /\ Head(c) = f
  BY DEF Buffer
<1>2. \A k \in 1..Len(b) : c[k + 1] = b[k] /\ b[k] \in Field
  BY DEF Buffer
<1>3. ASSUME NEW k \in 1..(Len(b) + 1) PROVE SubSeq(c, k + 1, Len(c)) = SubSeq(b, k, Len(b))
  <2> HIDE DEF c
  <2>1. SubSeq(c, k + 1, Len(c)) \in Seq(Field) /\ SubSeq(b, k, Len(b)) \in Seq(Field)
    BY <1>1 DEF Buffer
  <2>2. Len(SubSeq(c, k + 1, Len(c))) = Len(SubSeq(b, k, Len(b)))
    BY <1>1 DEF Buffer
  <2>3. \A i \in 1..Len(SubSeq(b, k, Len(b))) : SubSeq(c, k + 1, Len(c))[i] = SubSeq(b, k, Len(b))[i]
    BY <1>1, <1>2 DEF Buffer
  <2> QED BY <2>1, <2>2, <2>3, SeqEqual
<1> QED BY <1>1, <1>2, <1>3

(* The equations of skip and cut, row by row.                              *)
RowOf(part, none, field, here, after, g) ==
  IF part = "skip"
  THEN [m \in Int |-> IF none \/ m = 0 THEN here
                      ELSE IF field.w <= m THEN g[m - field.w]
                      ELSE <<F(field.w - m, 0)>> \o after]
  ELSE [m \in Int |-> IF none \/ m = 0 THEN <<>>
                      ELSE IF field.w <= m THEN <<field>> \o g[m - field.w]
                      ELSE <<F(m, 0)>>]
Row(part, b, k, g) == RowOf(part, k > Len(b), b[k], SubSeq(b, k, Len(b)), SubSeq(b, k + 1, Len(b)), g)
Rows(part, b, f) == f = [k \in 1..(Len(b) + 1) |-> Row(part, b, k, f[k + 1])]
Only(part, b, f) == Rows(part, b, f) /\ \A h : Rows(part, b, h) => h = f
OneRows(part, b) == \E f : Only(part, b, f)

(* The rows of a buffer are those of its tail, one further.                *)
LEMMA RowShift ==
  ASSUME NEW part, NEW x \in Field, NEW b \in Buffer, NEW k \in 1..(Len(b) + 1), NEW g, NEW h,
         k <= Len(b) => g = h
  PROVE  Row(part, <<x>> \o b, k + 1, g) = Row(part, b, k, h)
<1> DEFINE c == <<x>> \o b
<1>1. Len(c) = Len(b) + 1 /\ Len(b) \in Nat
  BY ConsFacts
<1>2. SubSeq(c, k + 1, Len(c)) = SubSeq(b, k, Len(b))
  BY ConsFacts
<1>3. CASE k > Len(b)
  <2>1. (k > Len(b)) = TRUE /\ (k + 1 > Len(c)) = TRUE
    BY <1>1, <1>3
  <2>2. RowOf(part, TRUE, c[k + 1], SubSeq(b, k, Len(b)), SubSeq(c, (k + 1) + 1, Len(c)), g)
        = RowOf(part, TRUE, b[k], SubSeq(b, k, Len(b)), SubSeq(b, k + 1, Len(b)), h)
    BY DEF RowOf
  <2> QED BY <1>2, <2>1, <2>2, Zenon DEF Row
<1>4. CASE ~(k > Len(b))
  <2>1. c[k + 1] = b[k] /\ ~(k + 1 > Len(c))
    BY <1>1, <1>4, ConsFacts
  <2>2. SubSeq(c, (k + 1) + 1, Len(c)) = SubSeq(b, k + 1, Len(b))
    BY <1>1, <1>4, ConsFacts
  <2>3. g = h
    BY <1>1, <1>4
  <2>4. (k > Len(b)) = FALSE /\ (k + 1 > Len(c)) = FALSE
    BY <1>4, <2>1
  <2> QED BY <1>2, <2>1, <2>2, <2>3, <2>4, Zenon DEF Row
<1> QED BY <1>3, <1>4

(* Skip and Cut are what the rows say of the first field, since there is   *)
(* one function that satisfies them.                                       *)
LEMMA SkipRows == ASSUME NEW b, OneRows("skip", b)
  PROVE  \E f : Only("skip", b, f) /\ \A n : Skip(b, n) = f[1][n]
<1>1. Rows("skip", b, CHOOSE f : Rows("skip", b, f))
  BY Zenon DEF OneRows, Only
<1>2. \A n : Skip(b, n) = (CHOOSE f : Rows("skip", b, f))[1][n]
  BY Zenon DEF Skip, Rows, Row, RowOf
<1> QED BY <1>1, <1>2, Zenon DEF OneRows, Only

LEMMA CutRows == ASSUME NEW b, OneRows("cut", b)
  PROVE  \E f : Only("cut", b, f) /\ \A n : Cut(b, n) = f[1][n]
<1>1. Rows("cut", b, CHOOSE f : Rows("cut", b, f))
  BY Zenon DEF OneRows, Only
<1>2. ("cut" = "skip") = FALSE
  OBVIOUS
<1>3. \A n : Cut(b, n) = (CHOOSE f : Rows("cut", b, f))[1][n]
  BY <1>2, Zenon DEF Cut, Rows, Row, RowOf
<1> QED BY <1>1, <1>3, Zenon DEF OneRows, Only

(* Induction over sequences.                                               *)
LEMMA SeqInduction ==
  ASSUME NEW T, NEW P, <<>> \in P, \A x \in T, b \in Seq(T) : b \in P => <<x>> \o b \in P
  PROVE  Seq(T) \subseteq P
<1> DEFINE S == {n \in Nat : \A b \in Seq(T) : Len(b) = n => b \in P}
<1>1. 0 \in S
  BY EmptySeq, LenProperties, Zenon
<1>2. ASSUME NEW n \in Nat, n \in S PROVE n + 1 \in S
  <2> SUFFICES ASSUME NEW b \in Seq(T), Len(b) = n + 1 PROVE b \in P
    OBVIOUS
  <2>1. b # <<>>
    OBVIOUS
  <2>2. Head(b) \in T /\ Tail(b) \in Seq(T) /\ Len(Tail(b)) = n
    BY <2>1, HeadTailProperties
  <2>3. b = <<Head(b)>> \o Tail(b)
    BY <2>1, <2>2
  <2> QED BY <1>2, <2>2, <2>3
<1> HIDE DEF S
<1>3. Nat \subseteq S
  BY <1>1, <1>2, SetInduction
<1> QED BY <1>3, LenProperties DEF S

(* There is one such function for no fields, for one field more, and thus  *)
(* for every buffer.                                                       *)
LEMMA RowsNone == ASSUME NEW part PROVE OneRows(part, <<>>)
<1> DEFINE f == [k \in 1..1 |-> Row(part, <<>>, k, 0)]
<1>1. \A h : Row(part, <<>>, 1, h) = Row(part, <<>>, 1, 0)
  BY DEF Row, RowOf
<1>2. Rows(part, <<>>, f)
  BY <1>1 DEF Rows
<1>3. \A h : Rows(part, <<>>, h) => h = f
  BY <1>1 DEF Rows
<1> QED BY <1>2, <1>3 DEF OneRows, Only

LEMMA RowsMore ==
  ASSUME NEW part, NEW x \in Field, NEW b \in Buffer, NEW f, Only(part, b, f)
  PROVE  LET c == <<x>> \o b
             g == [k \in 1..(Len(c) + 1) |-> IF k = 1 THEN Row(part, c, 1, f[1]) ELSE f[k - 1]]
         IN  Only(part, c, g)
<1> DEFINE c == <<x>> \o b
           g == [k \in 1..(Len(c) + 1) |-> IF k = 1 THEN Row(part, c, 1, f[1]) ELSE f[k - 1]]
<1>0. Len(c) = Len(b) + 1 /\ Len(b) \in Nat
  BY ConsFacts
<1>a. \A k \in 1..(Len(b) + 1) : \A p, q : (k <= Len(b) => p = q) => Row(part, c, k + 1, p) = Row(part, b, k, q)
  BY RowShift
<1>b. Rows(part, b, f) /\ \A h : Rows(part, b, h) => h = f
  BY DEF Only
<1> SUFFICES Rows(part, c, g) /\ \A h : Rows(part, c, h) => h = g
  BY DEF Only
<1> HIDE DEF c
<1>1. ASSUME NEW k \in 1..(Len(c) + 1) PROVE g[k] = Row(part, c, k, g[k + 1])
  <2>1. CASE k = 1
    <3>1. g[k + 1] = f[1]
      BY <1>0, <2>1
    <3> QED BY <2>1, <3>1, <1>0
  <2>2. CASE k # 1
    <3>1. k - 1 \in 1..(Len(b) + 1) /\ (k - 1) + 1 = k
      BY <1>0, <2>2
    <3>2. f[k - 1] = Row(part, b, k - 1, f[k])
      BY <1>b, <3>1 DEF Rows
    <3>3. k - 1 <= Len(b) => g[k + 1] = f[k]
      BY <1>0, <2>2
    <3>4. Row(part, c, k, g[k + 1]) = Row(part, b, k - 1, f[k])
      BY <1>a, <3>1, <3>3
    <3> QED BY <2>2, <3>2, <3>4
  <2> QED BY <2>1, <2>2
<1>2. Rows(part, c, g)
  BY <1>1 DEF Rows
<1>3. ASSUME NEW h, Rows(part, c, h) PROVE h = g
  <2>0. \A k \in 1..(Len(c) + 1) : h[k] = Row(part, c, k, h[k + 1])
    BY <1>3 DEF Rows
  <2> DEFINE e == [k \in 1..(Len(b) + 1) |-> h[k + 1]]
  <2>1. ASSUME NEW k \in 1..(Len(b) + 1) PROVE e[k] = Row(part, b, k, e[k + 1])
    <3>1. h[k + 1] = Row(part, c, k + 1, h[(k + 1) + 1])
      BY <1>0, <2>0
    <3>2. k <= Len(b) => h[(k + 1) + 1] = e[k + 1]
      BY <1>0
    <3>3. Row(part, c, k + 1, h[(k + 1) + 1]) = Row(part, b, k, e[k + 1])
      BY <1>a, <3>2
    <3> QED BY <3>1, <3>3
  <2>2. Rows(part, b, e)
    BY <2>1 DEF Rows
  <2>3. e = f
    BY <1>b, <2>2
  <2>4. \A k \in 2..(Len(c) + 1) : h[k] = f[k - 1]
    BY <1>0, <2>3
  <2>5. h[1] = Row(part, c, 1, f[1])
    BY <1>0, <2>0, <2>4
  <2>6. h = [k \in 1..(Len(c) + 1) |-> h[k]]
    BY <1>3 DEF Rows
  <2>7. \A k \in 1..(Len(c) + 1) : h[k] = g[k]
    BY <1>0, <2>4, <2>5
  <2> QED BY <2>6, <2>7
<1> QED BY <1>2, <1>3

LEMMA RowsUnique == ASSUME NEW part PROVE \A b \in Buffer : OneRows(part, b)
<1> DEFINE P == {b \in Buffer : OneRows(part, b)}
<1>1. <<>> \in P
  BY RowsNone, EmptySeq DEF Buffer
<1>2. ASSUME NEW x \in Field, NEW b \in Buffer, b \in P PROVE <<x>> \o b \in P
  BY <1>2, RowsMore, ConsFacts, ZenonT(30) DEF OneRows, Only
<1> HIDE DEF P
<1>3. Buffer \subseteq P
  BY <1>1, <1>2, SeqInduction DEF Buffer
<1> QED BY <1>3 DEF P

(* What the first row says.                                                *)
LEMMA FirstRow ==
  ASSUME NEW part, NEW x \in Field, NEW b \in Buffer, NEW f, NEW g,
         Only(part, b, f), Only(part, <<x>> \o b, g)
  PROVE  g[1] = RowOf(part, FALSE, x, <<x>> \o b, b, f[1])
<1> DEFINE c == <<x>> \o b
<1>1. c \in Buffer /\ Len(c) = Len(b) + 1 /\ Len(b) \in Nat /\ c[1] = x
  BY ConsFacts
<1>2. g[1] = Row(part, c, 1, f[1])
  <2> DEFINE e == [k \in 1..(Len(c) + 1) |-> IF k = 1 THEN Row(part, c, 1, f[1]) ELSE f[k - 1]]
  <2>1. Rows(part, c, e)
    BY RowsMore DEF Only
  <2>2. e = g
    BY <2>1 DEF Only
  <2> QED BY <1>1, <2>2
<1>3. SubSeq(c, 1, Len(c)) = c /\ SubSeq(c, 1 + 1, Len(c)) = b
  <2>1. SubSeq(c, 1, Len(c)) = c /\ SubSeq(b, 1, Len(b)) = b
    BY <1>1, SubSeqFull DEF Buffer
  <2>2. SubSeq(c, 1 + 1, Len(c)) = SubSeq(b, 1, Len(b))
    BY <1>1, ConsFacts
  <2> QED BY <2>1, <2>2
<1>4. (1 > Len(c)) = FALSE
  BY <1>1
<1> QED BY <1>1, <1>2, <1>3, <1>4, Zenon DEF Row

(* Skip and Cut of no fields, and by the width of the first field.         *)
LEMMA EmptyParts == ASSUME NEW n \in Int PROVE Skip(<<>>, n) = <<>> /\ Cut(<<>>, n) = <<>>
<1>1. PICK f : Rows("skip", <<>>, f) /\ Skip(<<>>, n) = f[1][n]
  <2>1. OneRows("skip", <<>>)
    BY RowsNone
  <2> QED BY <2>1, SkipRows DEF Only
<1>2. PICK g : Rows("cut", <<>>, g) /\ Cut(<<>>, n) = g[1][n]
  <2>1. OneRows("cut", <<>>)
    BY RowsNone
  <2> QED BY <2>1, CutRows DEF Only
<1>3. SubSeq(<<>>, 1, 0) = <<>>
  BY SubSeqEmpty
<1> QED BY <1>1, <1>2, <1>3 DEF Rows, Row, RowOf, Only

LEMMA SkipCons ==
  ASSUME NEW x \in Field, NEW b \in Buffer, NEW n \in Int
  PROVE  /\ n = 0 => Skip(<<x>> \o b, n) = <<x>> \o b
         /\ n # 0 /\ x.w <= n => Skip(<<x>> \o b, n) = Skip(b, n - x.w)
         /\ n # 0 /\ ~(x.w <= n) => Skip(<<x>> \o b, n) = <<F(x.w - n, 0)>> \o b
<1>1. PICK f : Only("skip", b, f) /\ \A m : Skip(b, m) = f[1][m]
  <2>1. OneRows("skip", b)
    BY RowsUnique
  <2> QED BY <2>1, SkipRows
<1>2. PICK g : Only("skip", <<x>> \o b, g) /\ \A m : Skip(<<x>> \o b, m) = g[1][m]
  <2>1. <<x>> \o b \in Buffer
    BY ConsFacts
  <2>2. OneRows("skip", <<x>> \o b)
    BY <2>1, RowsUnique
  <2> QED BY <2>2, SkipRows
<1>3. g[1] = RowOf("skip", FALSE, x, <<x>> \o b, b, f[1])
  <2>1. Only("skip", b, f) /\ Only("skip", <<x>> \o b, g)
    BY <1>1, <1>2
  <2> HIDE <1>1, <1>2
  <2> QED BY <2>1, FirstRow
<1>4. Skip(b, n - x.w) = f[1][n - x.w]
  BY <1>1
<1> QED BY <1>2, <1>3, <1>4 DEF RowOf

LEMMA CutCons ==
  ASSUME NEW x \in Field, NEW b \in Buffer, NEW n \in Int
  PROVE  /\ n = 0 => Cut(<<x>> \o b, n) = <<>>
         /\ n # 0 /\ x.w <= n => Cut(<<x>> \o b, n) = <<x>> \o Cut(b, n - x.w)
         /\ n # 0 /\ ~(x.w <= n) => Cut(<<x>> \o b, n) = <<F(n, 0)>>
<1>1. PICK f : Only("cut", b, f) /\ \A m : Cut(b, m) = f[1][m]
  <2>1. OneRows("cut", b)
    BY RowsUnique
  <2> QED BY <2>1, CutRows
<1>2. PICK g : Only("cut", <<x>> \o b, g) /\ \A m : Cut(<<x>> \o b, m) = g[1][m]
  <2>1. <<x>> \o b \in Buffer
    BY ConsFacts
  <2>2. OneRows("cut", <<x>> \o b)
    BY <2>1, RowsUnique
  <2> QED BY <2>2, CutRows
<1>3. g[1] = RowOf("cut", FALSE, x, <<x>> \o b, b, f[1])
  <2>1. Only("cut", b, f) /\ Only("cut", <<x>> \o b, g)
    BY <1>1, <1>2
  <2> HIDE <1>1, <1>2
  <2> QED BY <2>1, FirstRow
<1>4. Cut(b, n - x.w) = f[1][n - x.w]
  BY <1>1
<1> QED BY <1>2, <1>3, <1>4 DEF RowOf

(* What a field and a buffer have.                                         *)
LEMMA FieldFacts == \A x \in Field : x.w \in Nat \ {0} /\ x.v \in Int
BY DEF Field
LEMMA BufferFacts ==
  ASSUME NEW b \in Buffer
  PROVE  Len(b) \in Nat /\ \A k \in 1..Len(b) : b[k] \in Field /\ b[k].w \in Nat \ {0} /\ b[k].v \in Int
<1>1. Len(b) \in Nat /\ \A k \in 1..Len(b) : b[k] \in Field
  BY DEF Buffer
<1> QED BY <1>1, FieldFacts

-----------------------------------------------------------------------------
(* The length of a buffer, and the parts of two buffers that are put       *)
(* together.                                                               *)

(* Bytes of the first fields, one by one.                                  *)
LEMMA BytesPart ==
  ASSUME NEW b \in Buffer
  PROVE  \E f : /\ f[0] = 0 /\ \A k \in 1..Len(b) : f[k] = f[k - 1] + b[k].w
                /\ \A k \in 0..Len(b) : f[k] \in Nat
                /\ Bytes(b) = f[Len(b)]
<1>1. Len(b) \in Nat /\ \A k \in 1..Len(b) : b[k].w \in Nat
  BY BufferFacts
<1>2. PICK f : /\ f = [k \in 0..Len(b) |-> IF k = 0 THEN 0 ELSE f[k - 1] + b[k].w]
               /\ Bytes(b) = f[Len(b)]
  BY <1>1, BytesFcn
<1>3. f[0] = 0 /\ \A k \in 1..Len(b) : f[k] = f[k - 1] + b[k].w
  BY <1>1, <1>2, SMTT(30)
<1> DEFINE S == {k \in Nat : k <= Len(b) => f[k] \in Nat}
<1>4. 0 \in S
  BY <1>3
<1>5. ASSUME NEW k \in Nat, k \in S PROVE k + 1 \in S
  <2> SUFFICES ASSUME k + 1 <= Len(b) PROVE f[k + 1] \in Nat
    OBVIOUS
  <2>1. f[k] \in Nat /\ k + 1 \in 1..Len(b) /\ (k + 1) - 1 = k
    BY <1>1, <1>5
  <2>2. f[k + 1] = f[k] + b[k + 1].w
    BY <1>3, <2>1
  <2> QED BY <1>1, <2>1, <2>2
<1> HIDE DEF S
<1>6. Nat \subseteq S
  BY <1>4, <1>5, SetInduction
<1> QED BY <1>1, <1>2, <1>3, <1>6 DEF S

(* The length of a buffer, of none, and with one field more.               *)
LEMMA BytesIsNat == ASSUME NEW b \in Buffer PROVE Bytes(b) \in Nat
BY BytesPart DEF Buffer

LEMMA BytesEmpty == Bytes(<<>>) = 0
<1>1. <<>> \in Buffer /\ Len(<<>>) = 0
  BY EmptySeq DEF Buffer
<1> QED BY <1>1, BytesPart

LEMMA BytesCons ==
  ASSUME NEW x \in Field, NEW b \in Buffer PROVE Bytes(<<x>> \o b) = x.w + Bytes(b)
<1> DEFINE c == <<x>> \o b
<1>1. c \in Buffer /\ Len(c) = Len(b) + 1 /\ Len(b) \in Nat /\ c[1] = x /\ \A k \in 1..Len(b) : c[k + 1] = b[k]
  BY ConsFacts
<1> SUFFICES Bytes(c) = x.w + Bytes(b)
  OBVIOUS
<1> HIDE DEF c
<1>2. PICK f : /\ f[0] = 0 /\ \A k \in 1..Len(b) : f[k] = f[k - 1] + b[k].w
               /\ \A k \in 0..Len(b) : f[k] \in Nat
               /\ Bytes(b) = f[Len(b)]
  BY BytesPart
<1>3. PICK g : /\ g[0] = 0 /\ \A k \in 1..Len(c) : g[k] = g[k - 1] + c[k].w
               /\ \A k \in 0..Len(c) : g[k] \in Nat
               /\ Bytes(c) = g[Len(c)]
  BY <1>1, BytesPart
<1>4. x.w \in Nat /\ \A k \in 1..Len(b) : b[k].w \in Nat
  BY BufferFacts, FieldFacts
<1> DEFINE S == {k \in Nat : k <= Len(b) => g[k + 1] = x.w + f[k]}
<1>5. 0 \in S
  <2>1. g[1] = g[1 - 1] + c[1].w
    BY <1>1, <1>3
  <2> QED BY <1>1, <1>2, <1>3, <1>4, <2>1
<1>6. ASSUME NEW k \in Nat, k \in S PROVE k + 1 \in S
  <2> SUFFICES ASSUME k + 1 <= Len(b) PROVE g[(k + 1) + 1] = x.w + f[k + 1]
    OBVIOUS
  <2>1. k + 1 \in 1..Len(b) /\ (k + 1) + 1 \in 1..Len(c) /\ ((k + 1) + 1) - 1 = k + 1 /\ (k + 1) - 1 = k
    BY <1>1
  <2>2. g[(k + 1) + 1] = g[k + 1] + c[(k + 1) + 1].w
    BY <1>3, <2>1
  <2>3. f[k + 1] = f[k] + b[k + 1].w
    BY <1>2, <2>1
  <2>4. c[(k + 1) + 1] = b[k + 1] /\ b[k + 1].w \in Nat /\ f[k] \in Nat
    BY <1>1, <1>2, <1>4, <2>1
  <2>5. g[k + 1] = x.w + f[k]
    BY <1>6, <2>1
  <2> QED BY <1>4, <2>2, <2>3, <2>4, <2>5
<1> HIDE DEF S
<1>7. Nat \subseteq S
  BY <1>5, <1>6, SetInduction
<1> QED BY <1>1, <1>2, <1>3, <1>7 DEF S

-----------------------------------------------------------------------------
(* Reading what was put at the front of a buffer.                          *)
LEMMA ConsConcat ==
  ASSUME NEW x \in Field, NEW a \in Buffer, NEW b \in Buffer
  PROVE  /\ (<<x>> \o a) \o b = <<x>> \o (a \o b)
         /\ a \o b \in Buffer /\ <<x>> \in Buffer /\ <<x>> \o a \in Buffer
<1>1. <<x>> \in Seq(Field)
  OBVIOUS
<1> QED BY <1>1, ConcatAssociative, ConcatProperties DEF Buffer

LEMMA Concat ==
  ASSUME NEW a \in Buffer, NEW b \in Buffer, NEW c \in Buffer
  PROVE  a \o b \in Buffer /\ (a \o b) \o c = a \o (b \o c)
BY ConcatProperties, ConcatAssociative DEF Buffer

LEMMA EmptyConcat ==
  ASSUME NEW b \in Buffer
  PROVE  <<>> \o b = b /\ b \o <<>> = b /\ <<>> \in Buffer
BY ConcatEmptySeq, EmptySeq DEF Buffer

(* No bytes are a part like others.                                        *)
LEMMA SkipZero == ASSUME NEW b \in Buffer PROVE Skip(b, 0) = b /\ Cut(b, 0) = <<>>
<1> DEFINE P == {a \in Buffer : Skip(a, 0) = a /\ Cut(a, 0) = <<>>}
<1>1. <<>> \in P
  BY EmptyParts, EmptyConcat, EmptySeq DEF Buffer
<1>2. ASSUME NEW x \in Field, NEW a \in Buffer PROVE <<x>> \o a \in P
  <2>0. 0 \in Int
    OBVIOUS
  <2>1. Skip(<<x>> \o a, 0) = <<x>> \o a
    BY <2>0, SkipCons, Zenon
  <2>2. Cut(<<x>> \o a, 0) = <<>>
    BY <2>0, CutCons, Zenon
  <2> QED BY <2>1, <2>2, ConsConcat
<1> HIDE DEF P
<1>3. Buffer \subseteq P
  BY <1>1, <1>2, SeqInduction DEF Buffer
<1> QED BY <1>3 DEF P

(* Lengths add up.                                                         *)
LEMMA BytesConcat ==
  ASSUME NEW a \in Buffer, NEW b \in Buffer PROVE Bytes(a \o b) = Bytes(a) + Bytes(b)
<1> DEFINE P == {c \in Buffer : Bytes(c \o b) = Bytes(c) + Bytes(b)}
<1>1. <<>> \in P
  BY BytesEmpty, BytesIsNat, EmptyConcat
<1>2. ASSUME NEW x \in Field, NEW c \in Buffer, c \in P PROVE <<x>> \o c \in P
  <2>1. Bytes(c \o b) = Bytes(c) + Bytes(b) /\ Bytes(c) \in Nat /\ Bytes(b) \in Nat /\ x.w \in Nat
    BY <1>2, BytesIsNat, FieldFacts
  <2>2. Bytes(<<x>> \o (c \o b)) = x.w + Bytes(c \o b) /\ Bytes(<<x>> \o c) = x.w + Bytes(c)
    BY BytesCons, ConsConcat
  <2>3. Bytes((<<x>> \o c) \o b) = Bytes(<<x>> \o (c \o b)) /\ <<x>> \o c \in Buffer
    BY ConsConcat
  <2>4. Bytes((<<x>> \o c) \o b) = Bytes(<<x>> \o c) + Bytes(b)
    BY <2>1, <2>2, <2>3
  <2> QED BY <2>3, <2>4
<1> HIDE DEF P
<1>3. Buffer \subseteq P
  BY <1>1, <1>2, SeqInduction DEF Buffer
<1> QED BY <1>3 DEF P

(* Parts are buffers, and as long as they should be.                       *)
LEMMA PartFacts ==
  ASSUME NEW b \in Buffer
  PROVE  \A n \in Nat : /\ Skip(b, n) \in Buffer
                        /\ Cut(b, n) \in Buffer
                        /\ n <= Bytes(b) => Bytes(Cut(b, n)) = n
<1> DEFINE P == {c \in Buffer : \A n \in Nat : /\ Skip(c, n) \in Buffer
                                               /\ Cut(c, n) \in Buffer
                                               /\ n <= Bytes(c) => Bytes(Cut(c, n)) = n}
<1>1. <<>> \in P
  <2>1. <<>> \in Buffer /\ Bytes(<<>>) = 0
    BY BytesEmpty, EmptySeq DEF Buffer
  <2> SUFFICES ASSUME NEW n \in Nat
               PROVE  Skip(<<>>, n) \in Buffer /\ Cut(<<>>, n) \in Buffer /\ (n <= Bytes(<<>>) => Bytes(Cut(<<>>, n)) = n)
    BY <2>1
  <2>2. Skip(<<>>, n) = <<>> /\ Cut(<<>>, n) = <<>>
    BY EmptyParts
  <2> HIDE DEF P
  <2> QED BY <2>1, <2>2
<1>2. ASSUME NEW x \in Field, NEW c \in Buffer, c \in P PROVE <<x>> \o c \in P
  <2> SUFFICES ASSUME NEW n \in Nat
               PROVE  /\ Skip(<<x>> \o c, n) \in Buffer /\ Cut(<<x>> \o c, n) \in Buffer
                      /\ n <= Bytes(<<x>> \o c) => Bytes(Cut(<<x>> \o c, n)) = n
    BY ConsConcat
  <2>0. n \in Int /\ x.w \in Nat \ {0} /\ Bytes(c) \in Nat /\ Bytes(<<x>> \o c) = x.w + Bytes(c) /\ <<x>> \o c \in Buffer
    BY FieldFacts, BytesIsNat, BytesCons, ConsConcat
  <2>1. CASE n = 0
    <3>1. Skip(<<x>> \o c, n) = <<x>> \o c /\ Cut(<<x>> \o c, n) = <<>>
      BY <2>0, <2>1, SkipZero
    <3> QED BY <2>0, <2>1, <3>1, BytesEmpty, EmptyConcat
  <2>2. CASE n # 0 /\ x.w <= n
    <3>1. Skip(<<x>> \o c, n) = Skip(c, n - x.w)
      BY <2>0, <2>2, SkipCons, Zenon
    <3>2. Cut(<<x>> \o c, n) = <<x>> \o Cut(c, n - x.w)
      BY <2>0, <2>2, CutCons, Zenon
    <3>3. n - x.w \in Nat
      BY <2>0, <2>2
    <3>4. /\ Skip(c, n - x.w) \in Buffer /\ Cut(c, n - x.w) \in Buffer
          /\ n - x.w <= Bytes(c) => Bytes(Cut(c, n - x.w)) = n - x.w
      BY <1>2, <3>3, Zenon
    <3>5. Bytes(<<x>> \o Cut(c, n - x.w)) = x.w + Bytes(Cut(c, n - x.w)) /\ <<x>> \o Cut(c, n - x.w) \in Buffer
      BY <3>4, BytesCons, ConsConcat
    <3>6. n <= Bytes(<<x>> \o c) => n - x.w <= Bytes(c)
      BY <2>0
    <3>7. n <= Bytes(<<x>> \o c) => Bytes(<<x>> \o Cut(c, n - x.w)) = n
      BY <2>0, <3>4, <3>5, <3>6
    <3> HIDE DEF P
    <3> QED BY <3>1, <3>2, <3>4, <3>5, <3>7
  <2>3. CASE n # 0 /\ ~(x.w <= n)
    <3>1. Skip(<<x>> \o c, n) = <<F(x.w - n, 0)>> \o c
      BY <2>0, <2>3, SkipCons, Zenon
    <3>2. Cut(<<x>> \o c, n) = <<F(n, 0)>>
      BY <2>0, <2>3, CutCons, Zenon
    <3>3. F(x.w - n, 0) \in Field /\ F(n, 0) \in Field /\ F(n, 0).w = n
      BY <2>0, <2>3 DEF F, Field
    <3>a. <<>> \in Buffer /\ <<F(n, 0)>> \in Buffer
      BY <3>3, EmptyConcat, ConsConcat
    <3>b. <<F(n, 0)>> \o <<>> = <<F(n, 0)>>
      BY <3>a, EmptyConcat
    <3>c. Bytes(<<F(n, 0)>> \o <<>>) = F(n, 0).w + Bytes(<<>>)
      BY <3>3, <3>a, BytesCons
    <3>4. Bytes(<<F(n, 0)>>) = n /\ <<F(n, 0)>> \in Buffer
      BY <3>3, <3>a, <3>b, <3>c, BytesEmpty
    <3>5. <<F(x.w - n, 0)>> \o c \in Buffer
      BY <3>3, ConsConcat
    <3> HIDE DEF P
    <3> QED BY <3>1, <3>2, <3>4, <3>5
  <2> QED BY <2>1, <2>2, <2>3
<1> HIDE DEF P
<1>3. Buffer \subseteq P
  BY <1>1, <1>2, SeqInduction DEF Buffer
<1> QED BY <1>3 DEF P

(* A part that ends in the second of two buffers.                          *)
LEMMA PartsConcat ==
  ASSUME NEW a \in Buffer, NEW b \in Buffer, NEW n \in Nat
  PROVE  Skip(a \o b, Bytes(a) + n) = Skip(b, n) /\ Cut(a \o b, Bytes(a) + n) = a \o Cut(b, n)
<1> DEFINE P == {c \in Buffer : /\ Skip(c \o b, Bytes(c) + n) = Skip(b, n)
                                /\ Cut(c \o b, Bytes(c) + n) = c \o Cut(b, n)}
<1>0. Cut(b, n) \in Buffer
  BY PartFacts, Zenon
<1>1. <<>> \in P
  <2>1. Bytes(<<>>) + n = n
    BY BytesEmpty
  <2> QED BY <1>0, <2>1, EmptyConcat
<1>2. ASSUME NEW x \in Field, NEW c \in Buffer, c \in P PROVE <<x>> \o c \in P
  <2>1. Bytes(c) \in Nat /\ x.w \in Nat \ {0} /\ Bytes(<<x>> \o c) = x.w + Bytes(c)
    BY BytesIsNat, BytesCons, FieldFacts
  <2> DEFINE m == Bytes(<<x>> \o c) + n
  <2>2. m \in Int /\ m # 0 /\ x.w <= m /\ m - x.w = Bytes(c) + n
    BY <2>1
  <2>3. (<<x>> \o c) \o b = <<x>> \o (c \o b) /\ c \o b \in Buffer /\ <<x>> \o c \in Buffer
    BY ConsConcat
  <2> HIDE DEF m
  <2>4. Skip(<<x>> \o (c \o b), m) = Skip(c \o b, Bytes(c) + n)
    BY <2>2, <2>3, SkipCons, ZenonT(30)
  <2>5. Cut(<<x>> \o (c \o b), m) = <<x>> \o Cut(c \o b, Bytes(c) + n)
    BY <2>2, <2>3, CutCons, Zenon
  <2>6. <<x>> \o (c \o Cut(b, n)) = (<<x>> \o c) \o Cut(b, n)
    BY <1>0, ConsConcat
  <2>7. Skip(c \o b, Bytes(c) + n) = Skip(b, n) /\ Cut(c \o b, Bytes(c) + n) = c \o Cut(b, n)
    BY <1>2
  <2>8. Skip((<<x>> \o c) \o b, m) = Skip(b, n) /\ Cut((<<x>> \o c) \o b, m) = (<<x>> \o c) \o Cut(b, n)
    BY <2>3, <2>4, <2>5, <2>6, <2>7
  <2> QED BY <2>3, <2>8 DEF m
<1> HIDE DEF P
<1>3. Buffer \subseteq P
  BY <1>1, <1>2, SeqInduction DEF Buffer
<1> QED BY <1>3 DEF P

-----------------------------------------------------------------------------
(* Reading one field, the CRC, and many buffers put together.              *)

(* A whole buffer is skipped, and taken, before what follows.              *)
LEMMA FrontPart ==
  ASSUME NEW a \in Buffer, NEW b \in Buffer
  PROVE  Skip(a \o b, Bytes(a)) = b /\ Cut(a \o b, Bytes(a)) = a
<1>1. Bytes(a) + 0 = Bytes(a)
  BY BytesIsNat
<1>2. 0 \in Nat
  OBVIOUS
<1>3. Skip(a \o b, Bytes(a) + 0) = Skip(b, 0) /\ Cut(a \o b, Bytes(a) + 0) = a \o Cut(b, 0)
  BY <1>2, PartsConcat
<1>4. Skip(b, 0) = b /\ Cut(b, 0) = <<>> /\ a \o <<>> = a
  BY SkipZero, EmptyConcat
<1> QED BY <1>1, <1>3, <1>4, Zenon

(* Get reads what F has written.                                           *)
LEMMA FieldRead ==
  ASSUME NEW x \in Field, NEW b \in Buffer
  PROVE  Skip(<<x>> \o b, x.w) = b /\ Get(<<x>> \o b, x.w) = x.v
<1>1. x.w \in Int /\ x.w # 0 /\ x.w <= x.w /\ x.w - x.w = 0
  BY FieldFacts
<1>2. Skip(<<x>> \o b, x.w) = Skip(b, x.w - x.w)
  BY <1>1, SkipCons, Zenon
<1>3. Head(<<x>> \o b) = x /\ <<x>> \o b # <<>>
  BY ConsFacts
<1> QED BY <1>1, <1>2, <1>3, SkipZero DEF Get

Width == Nat \ {0}
LEMMA FieldOf ==
  ASSUME NEW w \in Width, NEW v \in Int
  PROVE  F(w, v) \in Field /\ F(w, v).w = w /\ F(w, v).v = v
BY DEF F, Field, Width

(* The CRC of a buffer is a number.                                        *)
LEMMA CrcStepIsInt ==
  ASSUME NEW c \in Int, NEW x, x.w \in Int, x.v \in Int PROVE CrcStep(c, x) \in Int
<1>1. 31 * c + 7 * x.w + x.v + 1 \in Int
  OBVIOUS
<1>2. \A n \in Int : n % 65521 \in Int
  OBVIOUS
<1> QED BY <1>1, <1>2 DEF CrcStep

CrcUpTo(b, n, f) ==
  f = [k \in 0..n |-> IF k = 0 THEN 0 ELSE CrcStep(f[k - 1], b[k])]

LEMMA CrcIsInt == ASSUME NEW b \in Buffer PROVE Crc(b) \in Int
<1>1. Len(b) \in Nat /\ \A k \in 1..Len(b) : b[k].w \in Int /\ b[k].v \in Int
  BY BufferFacts
<1> DEFINE S == {n \in Nat : \E f : CrcUpTo(b, n, f)}
<1>2. 0 \in S
  <2>1. CrcUpTo(b, 0, [k \in 0..0 |-> 0])
    BY DEF CrcUpTo
  <2> QED BY <2>1
<1>3. ASSUME NEW n \in Nat, n \in S PROVE n + 1 \in S
  <2>1. PICK f : CrcUpTo(b, n, f)
    BY <1>3
  <2> DEFINE g == [k \in 0..(n + 1) |-> IF k = n + 1 THEN CrcStep(f[n], b[n + 1]) ELSE f[k]]
  <2>2. \A k \in 0..(n + 1) : g[k] = IF k = 0 THEN 0 ELSE CrcStep(g[k - 1], b[k])
    BY <2>1 DEF CrcUpTo
  <2>3. g = [k \in 0..(n + 1) |-> g[k]]
    OBVIOUS
  <2> HIDE DEF g
  <2>4. CrcUpTo(b, n + 1, g)
    BY <2>2, <2>3 DEF CrcUpTo
  <2> QED BY <2>4
<1>4. \E f : CrcUpTo(b, Len(b), f)
  <2> HIDE DEF S
  <2>1. Nat \subseteq S
    BY <1>2, <1>3, SetInduction
  <2> QED BY <1>1, <2>1 DEF S
<1>5. PICK f : CrcUpTo(b, Len(b), f) /\ Crc(b) = f[Len(b)]
  <2>1. CrcUpTo(b, Len(b), CHOOSE f : CrcUpTo(b, Len(b), f))
    BY <1>4, Zenon
  <2>2. Crc(b) = (CHOOSE f : CrcUpTo(b, Len(b), f))[Len(b)]
    BY Zenon DEF Crc, CrcUpTo
  <2> QED BY <2>1, <2>2
<1> DEFINE R == {k \in Nat : k <= Len(b) => f[k] \in Int}
<1>6. 0 \in R
  BY <1>1, <1>5 DEF CrcUpTo
<1>7. ASSUME NEW k \in Nat, k \in R PROVE k + 1 \in R
  <2> SUFFICES ASSUME k + 1 <= Len(b) PROVE f[k + 1] \in Int
    OBVIOUS
  <2>1. f[k] \in Int /\ k + 1 \in 0..Len(b) /\ k + 1 \in 1..Len(b) /\ k + 1 # 0 /\ (k + 1) - 1 = k
    BY <1>1, <1>7
  <2>2. f[k + 1] = CrcStep(f[k], b[k + 1])
    BY <1>5, <2>1 DEF CrcUpTo
  <2>3. b[k + 1].w \in Int /\ b[k + 1].v \in Int
    BY <1>1, <2>1
  <2> HIDE DEF R
  <2> QED BY <2>1, <2>2, <2>3, CrcStepIsInt
<1> HIDE DEF R
<1>8. Nat \subseteq R
  BY <1>6, <1>7, SetInduction
<1> QED BY <1>1, <1>5, <1>8 DEF R

(* A sequence of buffers, made one.                                        *)
FlatUpTo(s, n, f) == f = [i \in 1..n |-> IF i = 1 THEN s[i] ELSE f[i - 1] \o s[i]]

LEMMA FlattenParts ==
  ASSUME NEW s \in Seq(Buffer), Len(s) # 0
  PROVE  \E f : /\ f[1] = s[1] /\ \A k \in 2..Len(s) : f[k] = f[k - 1] \o s[k]
                /\ \A k \in 1..Len(s) : f[k] \in Buffer
                /\ FlattenSeq(s) = f[Len(s)]
<1>1. Len(s) \in Nat /\ \A k \in 1..Len(s) : s[k] \in Buffer
  OBVIOUS
<1> DEFINE S == {n \in Nat : \E f : FlatUpTo(s, n, f)}
<1>2. 0 \in S
  <2>1. FlatUpTo(s, 0, [k \in 1..0 |-> 0])
    BY DEF FlatUpTo
  <2> QED BY <2>1
<1>3. ASSUME NEW n \in Nat, n \in S PROVE n + 1 \in S
  <2>1. PICK f : FlatUpTo(s, n, f)
    BY <1>3
  <2> DEFINE e == IF n = 0 THEN s[1] ELSE f[n] \o s[n + 1]
             g == [k \in 1..(n + 1) |-> IF k = n + 1 THEN e ELSE f[k]]
  <2>2. \A k \in 1..(n + 1) : g[k] = IF k = 1 THEN s[k] ELSE g[k - 1] \o s[k]
    <3> TAKE k \in 1..(n + 1)
    <3>1. CASE k = n + 1
      BY <3>1
    <3>2. CASE k # n + 1
      <4>1. k \in 1..n /\ (k # 1 => k - 1 \in 1..n /\ k - 1 # n + 1)
        BY <3>2
      <4>2. f[k] = IF k = 1 THEN s[k] ELSE f[k - 1] \o s[k]
        BY <2>1, <4>1 DEF FlatUpTo
      <4>3. g[k] = f[k] /\ (k # 1 => g[k - 1] = f[k - 1])
        BY <3>2, <4>1
      <4> QED BY <4>2, <4>3, Zenon
    <3> QED BY <3>1, <3>2
  <2>3. g = [k \in 1..(n + 1) |-> g[k]]
    OBVIOUS
  <2> HIDE DEF g, e
  <2>4. FlatUpTo(s, n + 1, g)
    BY <2>2, <2>3 DEF FlatUpTo
  <2> QED BY <2>4
<1>4. \E f : FlatUpTo(s, Len(s), f)
  <2> HIDE DEF S
  <2>1. Nat \subseteq S
    BY <1>2, <1>3, SetInduction
  <2> QED BY <1>1, <2>1 DEF S
<1>5. PICK f : FlatUpTo(s, Len(s), f) /\ FlattenSeq(s) = f[Len(s)]
  <2>1. FlatUpTo(s, Len(s), CHOOSE f : FlatUpTo(s, Len(s), f))
    BY <1>4, Zenon
  <2>2. FlattenSeq(s) = (CHOOSE f : FlatUpTo(s, Len(s), f))[Len(s)]
    BY Zenon DEF FlattenSeq, FlatUpTo
  <2> QED BY <2>1, <2>2
<1>8. f[1] = s[1] /\ \A k \in 2..Len(s) : f[k] = f[k - 1] \o s[k]
  <2>1. \A k \in 1..Len(s) : f[k] = IF k = 1 THEN s[k] ELSE f[k - 1] \o s[k]
    BY <1>5 DEF FlatUpTo
  <2>2. 1 \in 1..Len(s) /\ \A k \in 2..Len(s) : k \in 1..Len(s) /\ k # 1
    BY <1>1
  <2> QED BY <2>1, <2>2, Zenon
<1> DEFINE R == {k \in Nat : k + 1 <= Len(s) => f[k + 1] \in Buffer}
<1>9. 0 \in R
  BY <1>1, <1>8
<1>10. ASSUME NEW k \in Nat, k \in R PROVE k + 1 \in R
  <2> SUFFICES ASSUME (k + 1) + 1 <= Len(s) PROVE f[(k + 1) + 1] \in Buffer
    OBVIOUS
  <2>1. f[k + 1] \in Buffer /\ (k + 1) + 1 \in 2..Len(s) /\ ((k + 1) + 1) - 1 = k + 1
    BY <1>1, <1>10
  <2>2. f[(k + 1) + 1] = f[k + 1] \o s[(k + 1) + 1]
    BY <1>8, <2>1
  <2>3. s[(k + 1) + 1] \in Buffer
    BY <1>1, <2>1
  <2> HIDE DEF R
  <2> QED BY <2>1, <2>2, <2>3, ConcatProperties DEF Buffer
<1> HIDE DEF R
<1>11. Nat \subseteq R
  BY <1>9, <1>10, SetInduction
<1>12. \A k \in 1..Len(s) : f[k] \in Buffer
  <2> TAKE k \in 1..Len(s)
  <2>1. k - 1 \in R /\ (k - 1) + 1 = k
    BY <1>1, <1>11
  <2> QED BY <1>1, <2>1 DEF R
<1> QED BY <1>5, <1>8, <1>12

LEMMA UpTo ==
  ASSUME NEW n \in Nat, NEW S, 0 \in S, \A k \in 1..n : k - 1 \in S => k \in S
  PROVE  \A k \in 0..n : k \in S
<1> DEFINE R == {k \in Nat : k <= n => k \in S}
<1>1. 0 \in R
  OBVIOUS
<1>2. ASSUME NEW k \in Nat, k \in R PROVE k + 1 \in R
  <2> SUFFICES ASSUME k + 1 <= n PROVE k + 1 \in S
    OBVIOUS
  <2>1. k + 1 \in 1..n /\ (k + 1) - 1 = k /\ k \in S
    BY <1>2
  <2> QED BY <2>1
<1> HIDE DEF R
<1>3. Nat \subseteq R
  BY <1>1, <1>2, SetInduction
<1> QED BY <1>3 DEF R

LEMMA FlattenSums ==
  ASSUME NEW s \in Seq(Buffer)
  PROVE  \E f : /\ f[0] = <<>> /\ \A k \in 1..Len(s) : f[k] = f[k - 1] \o s[k]
                /\ \A k \in 0..Len(s) : f[k] \in Buffer
                /\ FlattenSeq(s) = f[Len(s)]
<1>0. Len(s) \in Nat /\ \A k \in 1..Len(s) : s[k] \in Buffer
  OBVIOUS
<1>1. CASE Len(s) = 0
  <2> DEFINE f == [k \in {0} |-> <<>>]
  <2>1. FlattenSeq(s) = <<>>
    BY <1>1 DEF FlattenSeq
  <2>2. f[0] = <<>> /\ <<>> \in Buffer
    BY EmptyConcat, EmptySeq DEF Buffer
  <2> HIDE DEF f
  <2> QED BY <1>1, <2>1, <2>2
<1>2. CASE Len(s) # 0
  <2>1. PICK g : /\ g[1] = s[1] /\ \A k \in 2..Len(s) : g[k] = g[k - 1] \o s[k]
                 /\ \A k \in 1..Len(s) : g[k] \in Buffer
                 /\ FlattenSeq(s) = g[Len(s)]
    BY <1>2, FlattenParts
  <2> DEFINE f == [k \in 0..Len(s) |-> IF k = 0 THEN <<>> ELSE g[k]]
  <2>2. f[0] = <<>> /\ <<>> \in Buffer /\ \A k \in 1..Len(s) : f[k] = g[k]
    BY <1>0, EmptySeq DEF Buffer
  <2> HIDE DEF f
  <2>3. ASSUME NEW k \in 1..Len(s) PROVE f[k] = f[k - 1] \o s[k]
    <3>1. CASE k = 1
      <4>1. s[1] = <<>> \o s[1]
        BY <1>0, <1>2, EmptyConcat
      <4>2. f[1] = g[1] /\ f[1 - 1] = <<>> /\ g[1] = s[1]
        BY <1>0, <1>2, <2>1, <2>2
      <4> QED BY <3>1, <4>1, <4>2, Zenon
    <3>2. CASE k # 1
      <4>1. k \in 2..Len(s) /\ k - 1 \in 1..Len(s)
        BY <1>0, <3>2
      <4>2. f[k] = g[k] /\ f[k - 1] = g[k - 1] /\ g[k] = g[k - 1] \o s[k]
        BY <2>1, <2>2, <4>1
      <4> QED BY <4>2, Zenon
    <3> QED BY <3>1, <3>2
  <2>4. \A k \in 0..Len(s) : f[k] \in Buffer
    <3> TAKE k \in 0..Len(s)
    <3>1. CASE k = 0
      BY <2>2, <3>1
    <3>2. CASE k # 0
      BY <1>0, <2>1, <2>2, <3>2
    <3> QED BY <3>1, <3>2
  <2>5. FlattenSeq(s) = f[Len(s)]
    BY <1>0, <1>2, <2>1, <2>2
  <2> QED BY <2>2, <2>3, <2>4, <2>5
<1> QED BY <1>1, <1>2

LEMMA FlattenBuffer ==
  ASSUME NEW s \in Seq(Buffer) PROVE FlattenSeq(s) \in Buffer
<1>1. Len(s) \in 0..Len(s)
  OBVIOUS
<1> QED BY <1>1, FlattenSums

-----------------------------------------------------------------------------
(* decodeParameter and the groups of values. A decoder faces a before b if *)
(* this is what it has still to read.                                      *)

(* What elements say of the parameters: those that are neither skipped nor *)
(* always stored as zero.                                                  *)
Holds(E, params) ==
  \A e \in E : Matters(e) => KeyOf(e) \in DOMAIN params /\ params[KeyOf(e)] = e[3]

(* Storing a value keeps those it is consistent with.                      *)
LEMMA PutKeeps ==
  ASSUME NEW E, NEW params, NEW id, NEW w, NEW v,
         Holds(E, params), Consistent(E \cup {<<id, w, v>>})
  PROVE  Holds(E \cup {<<id, w, v>>}, Put(params, id, w, v))
<1> DEFINE e == <<id, w, v>>
<1>1. e[1] = id /\ KeyOf(e) = Key(id, w) /\ e[3] = v
  BY DEF KeyOf
<1> HIDE DEF e
<1> SUFFICES ASSUME NEW g \in E \cup {e}, Matters(g)
             PROVE  /\ KeyOf(g) \in DOMAIN Put(params, id, w, v)
                    /\ Put(params, id, w, v)[KeyOf(g)] = g[3]
  BY DEF Holds, e
<1>2. Consistent(E \cup {e})
  BY DEF e
<1>3. CASE id \in NeverSet
  <2>1. g \in E /\ Put(params, id, w, v) = params
    BY <1>1, <1>3 DEF Matters, Put
  <2> QED BY <2>1 DEF Holds
<1>4. CASE id \notin NeverSet
  <2> DEFINE z == IF id \in AlwaysZero THEN 0 ELSE v
             new == With(params, Key(id, w), z)
  <2>1. Put(params, id, w, v) = new
    BY <1>4 DEF Put
  <2>2. /\ \A k : k \in DOMAIN new <=> k = Key(id, w) \/ k \in DOMAIN params
        /\ new[Key(id, w)] = z
        /\ \A k \in DOMAIN params : k # Key(id, w) => new[k] = params[k]
    BY DEF With
  <2> HIDE DEF new
  <2>3. CASE KeyOf(g) = Key(id, w)
    <3>1. CASE id \in AlwaysZero
      <4>1. g[1] = id
        BY <1>1, <2>3, <3>1 DEF KeyOf, Key, Named, AlwaysZero
      <4> QED BY <3>1, <4>1 DEF Matters
    <3>2. CASE id \notin AlwaysZero
      <4>1. Matters(e)
        BY <1>1, <1>4, <3>2 DEF Matters
      <4>2. g[3] = v
        BY <1>1, <1>2, <2>3, <4>1 DEF Consistent
      <4> QED BY <2>1, <2>2, <2>3, <3>2, <4>2
    <3> QED BY <3>1, <3>2
  <2>4. CASE KeyOf(g) # Key(id, w)
    <3>1. g \in E
      BY <1>1, <2>4
    <3>2. KeyOf(g) \in DOMAIN params /\ params[KeyOf(g)] = g[3]
      BY <3>1 DEF Holds
    <3> QED BY <2>1, <2>2, <2>4, <3>2
  <2> QED BY <2>3, <2>4
<1> QED BY <1>3, <1>4

(* A state of the decoder.                                                 *)
At(b, params, records) == [b |-> b, params |-> params, records |-> records]
State(d) == d = At(d.b, d.params, d.records)

(* Numbers and fields of a value.                                          *)
LEMMA ParamFacts == \A e \in Param : e[1] \in Nat /\ e[1] \in Int /\ e[2] \in Int
BY DEF Param

Item(e, w, x) == <<F(x, e[1]), F(w, e[2])>>

LEMMA Pair == ASSUME NEW T, NEW f \in T, NEW g \in T PROVE <<f, g>> = <<f>> \o <<g>>
<1>1. /\ <<f, g>> \in Seq(T) /\ <<f>> \in Seq(T) /\ <<g>> \in Seq(T)
      /\ Len(<<f, g>>) = 2 /\ Len(<<f>>) = 1 /\ Len(<<g>>) = 1
  OBVIOUS
<1>2. <<f>> \o <<g>> \in Seq(T) /\ Len(<<f>> \o <<g>>) = 2
  BY <1>1, ConcatProperties
<1>3. \A i \in 1..2 : <<f, g>>[i] = (<<f>> \o <<g>>)[i]
  BY <1>1
<1> QED BY <1>1, <1>2, <1>3, SeqEqual

LEMMA TwoFields ==
  ASSUME NEW f \in Field, NEW g \in Field, NEW b \in Buffer
  PROVE  LET c == <<f, g>> \o b
         IN  /\ <<f, g>> \in Buffer
             /\ Get(c, f.w) = f.v /\ Get(Skip(c, f.w), g.w) = g.v /\ Skip(c, f.w + g.w) = b
<1>1. <<g>> \in Buffer /\ <<f, g>> = <<f>> \o <<g>> /\ <<f, g>> \in Buffer
  <2>1. <<g>> \in Buffer /\ <<f, g>> \in Buffer
    BY DEF Buffer
  <2>2. <<f, g>> = <<f>> \o <<g>>
    BY Pair
  <2> QED BY <2>1, <2>2
<1>2. <<f, g>> \o b = <<f>> \o (<<g>> \o b) /\ <<g>> \o b \in Buffer
  BY <1>1, ConsConcat
<1>3. Get(<<f>> \o (<<g>> \o b), f.w) = f.v /\ Skip(<<f>> \o (<<g>> \o b), f.w) = <<g>> \o b
  BY <1>2, FieldRead, Zenon
<1>4. Get(<<g>> \o b, g.w) = g.v /\ Skip(<<g>> \o b, g.w) = b
  BY FieldRead, Zenon
<1>5. f.w + g.w \in Int /\ f.w + g.w # 0 /\ f.w <= f.w + g.w /\ (f.w + g.w) - f.w = g.w
  BY FieldFacts
<1>6. Skip(<<f>> \o (<<g>> \o b), f.w + g.w) = Skip(<<g>> \o b, (f.w + g.w) - f.w)
  BY <1>2, <1>5, SkipCons, Zenon
<1> QED BY <1>1, <1>2, <1>3, <1>4, <1>5, <1>6, Zenon

(* A decoder before the bytes a, which b follows; an element read there.   *)
Faces(d, a, b) == State(d) /\ d.b = a \o b
Gives(d, e, w, x, b) == Element(d, w, x) = At(b, Put(d.params, e[1], w, e[2]), d.records)

(* A value that has been written is the one that is stored.                *)
LEMMA ElementRead ==
  ASSUME NEW w \in Width, NEW x \in Width, NEW e \in Param, NEW b \in Buffer,
         NEW d, Faces(d, Item(e, w, x), b)
  PROVE  Gives(d, e, w, x, b)
<1>1. e[1] \in Int /\ e[2] \in Int
  BY ParamFacts
<1> DEFINE f == F(x, e[1])
           g == F(w, e[2])
<1>2. f \in Field /\ g \in Field /\ f.w = x /\ f.v = e[1] /\ g.w = w /\ g.v = e[2]
  BY <1>1, FieldOf
<1>3. d.b = <<f, g>> \o b /\ Item(e, w, x) = <<f, g>>
  BY DEF Item, Faces
<1> HIDE DEF f, g
<1>4. <<f, g>> \in Buffer /\ Get(d.b, x) = e[1] /\ Get(Skip(d.b, x), w) = e[2] /\ Skip(d.b, x + w) = b
  BY <1>2, <1>3, TwoFields
<1>5. Element(d, w, x) = [d EXCEPT !.b = b, !.params = Put(d.params, e[1], w, e[2])]
  BY <1>4 DEF Element
<1>6. Element(d, w, x) = At(b, Put(d.params, e[1], w, e[2]), d.records)
  BY <1>5 DEF State, At, Faces
<1> QED BY <1>6 DEF Gives

(* The id and the value of a parameter.                                   *)
ReadUpTo(d, n, w, x, f) == f = [k \in 0..n |-> IF k = 0 THEN d ELSE Element(f[k - 1], w, x)]

ElementsBy(d, n, w, x, f) ==
  /\ f[0] = d
  /\ \A k \in 1..n : f[k] = Element(f[k - 1], w, x)
  /\ Elements(d, n, w, x) = f[n]

LEMMA ElementsFcn ==
  ASSUME NEW d, NEW n \in Nat, NEW w, NEW x
  PROVE  \E f : ElementsBy(d, n, w, x, f)
<1> DEFINE S == {j \in Nat : \E f : ReadUpTo(d, j, w, x, f)}
<1>1. 0 \in S
  <2>1. ReadUpTo(d, 0, w, x, [k \in 0..0 |-> d])
    BY DEF ReadUpTo
  <2> QED BY <2>1
<1>2. ASSUME NEW j \in Nat, j \in S PROVE j + 1 \in S
  <2>1. PICK f : ReadUpTo(d, j, w, x, f)
    BY <1>2
  <2> DEFINE g == [k \in 0..(j + 1) |-> IF k = j + 1 THEN Element(f[j], w, x) ELSE f[k]]
  <2>2. \A k \in 0..(j + 1) : g[k] = IF k = 0 THEN d ELSE Element(g[k - 1], w, x)
    BY <2>1 DEF ReadUpTo
  <2>3. g = [k \in 0..(j + 1) |-> g[k]]
    OBVIOUS
  <2> HIDE DEF g
  <2>4. ReadUpTo(d, j + 1, w, x, g)
    BY <2>2, <2>3 DEF ReadUpTo
  <2> QED BY <2>4
<1>3. \E f : ReadUpTo(d, n, w, x, f)
  <2> HIDE DEF S
  <2>1. Nat \subseteq S
    BY <1>1, <1>2, SetInduction
  <2> QED BY <2>1 DEF S
<1>4. ReadUpTo(d, n, w, x, CHOOSE f : ReadUpTo(d, n, w, x, f))
  BY <1>3, Zenon
<1>5. Elements(d, n, w, x) = (CHOOSE f : ReadUpTo(d, n, w, x, f))[n]
  BY Zenon DEF Elements, ReadUpTo
<1>6. PICK f : ReadUpTo(d, n, w, x, f) /\ Elements(d, n, w, x) = f[n]
  BY <1>4, <1>5
<1>7. f[0] = d /\ \A k \in 1..n : f[k] = Element(f[k - 1], w, x)
  BY <1>6 DEF ReadUpTo
<1> QED BY <1>6, <1>7 DEF ElementsBy

(* The fields of a group, and what its first k values mean.                *)
Coded(io, w, x) == [k \in DOMAIN io |-> Item(io[k], w, x)]
ItemAt(io, w, k) == <<io[k][1], w, io[k][2]>>
ItemsTo(io, w, k) == {ItemAt(io, w, j) : j \in 1..k}

(* What becomes of d when a is left to read and E has been read.           *)
Then(d, c, E, a) == c = At(a, c.params, d.records) /\ Holds(E, c.params)

(* One value more.                                                         *)
LEMMA ItemsNext ==
  ASSUME NEW io \in Seq(Param), NEW w, NEW k \in 1..Len(io)
  PROVE  /\ ItemsTo(io, w, k) = ItemsTo(io, w, k - 1) \cup {ItemAt(io, w, k)}
         /\ ItemsTo(io, w, k) \subseteq ItemsTo(io, w, Len(io))
<1>1. k \in Nat /\ Len(io) \in Nat /\ k <= Len(io)
  OBVIOUS
<1>2. 1..k = 1..(k - 1) \cup {k} /\ 1..k \subseteq 1..Len(io)
  BY <1>1
<1> QED BY <1>2 DEF ItemsTo

LEMMA ConsistentPart ==
  ASSUME NEW E, NEW D, D \subseteq E, Consistent(E) PROVE Consistent(D)
BY DEF Consistent

(* One turn of the loop.                                                   *)
LEMMA ElementsStep ==
  ASSUME NEW w \in Width, NEW x \in Width, NEW io \in Seq(Param),
         NEW k \in 1..Len(io), NEW a \in Buffer, NEW E, NEW d, NEW c,
         Then(d, c, E \cup ItemsTo(io, w, k - 1), Item(io[k], w, x) \o a),
         Consistent(E \cup ItemsTo(io, w, Len(io)))
  PROVE  Then(d, Element(c, w, x), E \cup ItemsTo(io, w, k), a)
<1>1. io[k] \in Param
  OBVIOUS
<1>2. Faces(c, Item(io[k], w, x), a) /\ c.records = d.records
  BY DEF Then, Faces, State, At
<1>3. Element(c, w, x) = At(a, Put(c.params, io[k][1], w, io[k][2]), d.records)
  BY <1>1, <1>2, ElementRead DEF Gives
<1> DEFINE D == E \cup ItemsTo(io, w, k - 1)
<1>4. E \cup ItemsTo(io, w, k) = D \cup {ItemAt(io, w, k)}
  BY ItemsNext
<1>5. D \cup {ItemAt(io, w, k)} \subseteq E \cup ItemsTo(io, w, Len(io))
  BY <1>4, ItemsNext
<1>6. Consistent(D \cup {ItemAt(io, w, k)})
  BY <1>5, ConsistentPart
<1>7. Holds(D, c.params)
  BY DEF Then
<1>8. Holds(D \cup {ItemAt(io, w, k)}, Put(c.params, io[k][1], w, io[k][2]))
  BY <1>6, <1>7, PutKeeps DEF ItemAt
<1>9. Element(c, w, x).params = Put(c.params, io[k][1], w, io[k][2])
  BY <1>3 DEF At
<1>10. Holds(E \cup ItemsTo(io, w, k), Element(c, w, x).params)
  BY <1>4, <1>8, <1>9, Zenon
<1>11. Element(c, w, x) = At(a, Element(c, w, x).params, d.records)
  BY <1>3, <1>9, Zenon
<1> QED BY <1>10, <1>11, Zenon DEF Then

LEMMA CodedBuffers ==
  ASSUME NEW w \in Width, NEW x \in Width, NEW io \in Seq(Param)
  PROVE  /\ Coded(io, w, x) \in Seq(Buffer) /\ Len(Coded(io, w, x)) = Len(io)
         /\ \A k \in 1..Len(io) : Coded(io, w, x)[k] = Item(io[k], w, x)
<1>0. Len(io) \in Nat /\ DOMAIN io = 1..Len(io) /\ \A k \in 1..Len(io) : io[k] \in Param
  OBVIOUS
<1>1. \A k \in 1..Len(io) : Item(io[k], w, x) \in Buffer
  <2> TAKE k \in 1..Len(io)
  <2>1. io[k][1] \in Int /\ io[k][2] \in Int
    BY <1>0, ParamFacts
  <2>2. F(x, io[k][1]) \in Field /\ F(w, io[k][2]) \in Field
    BY <2>1, FieldOf
  <2> QED BY <2>2 DEF Item, Buffer
<1>2. Coded(io, w, x) \in [1..Len(io) -> Buffer]
  BY <1>0, <1>1 DEF Coded
<1> QED BY <1>0, <1>2, SeqDef DEF Coded

(* All values of a group are stored.                                       *)
LEMMA ElementsRead ==
  ASSUME NEW w \in Width, NEW x \in Width, NEW io \in Seq(Param), NEW b \in Buffer,
         NEW E, NEW d, State(d), d.b = FlattenSeq(Coded(io, w, x)) \o b,
         Holds(E, d.params), Consistent(E \cup ItemsTo(io, w, Len(io)))
  PROVE  Then(d, Elements(d, Len(io), w, x), E \cup ItemsTo(io, w, Len(io)), b)
<1>0. Len(io) \in Nat /\ Len(io) \in 0..Len(io)
  OBVIOUS
<1>1. PICK f : /\ f[0] = d
               /\ \A k \in 1..Len(io) : f[k] = Element(f[k - 1], w, x)
               /\ Elements(d, Len(io), w, x) = f[Len(io)]
  <2>1. PICK f : ElementsBy(d, Len(io), w, x, f)
    BY <1>0, ElementsFcn, Zenon
  <2> QED BY <2>1 DEF ElementsBy
<1>2. PICK h : /\ h[0] = <<>> /\ \A k \in 1..Len(io) : h[k] = h[k - 1] \o Item(io[k], w, x)
               /\ \A k \in 0..Len(io) : h[k] \in Buffer
               /\ FlattenSeq(Coded(io, w, x)) = h[Len(io)]
  <2> DEFINE s == Coded(io, w, x)
  <2>1. s \in Seq(Buffer) /\ Len(s) = Len(io) /\ \A k \in 1..Len(io) : s[k] = Item(io[k], w, x)
    BY CodedBuffers
  <2> HIDE DEF s
  <2>2. PICK h : /\ h[0] = <<>> /\ \A k \in 1..Len(s) : h[k] = h[k - 1] \o s[k]
                 /\ \A k \in 0..Len(s) : h[k] \in Buffer
                 /\ FlattenSeq(s) = h[Len(s)]
    BY <2>1, FlattenSums
  <2>3. \A k \in 1..Len(io) : h[k] = h[k - 1] \o Item(io[k], w, x)
    BY <2>1, <2>2, Zenon
  <2> QED BY <2>1, <2>2, <2>3, Zenon DEF s
<1> DEFINE Reads(k) == \A a \in Buffer : d.b = h[k] \o a => Then(d, f[k], E \cup ItemsTo(io, w, k), a)
           S == {k \in 0..Len(io) : Reads(k)}
<1>3. 0 \in S
  <2>0. 0 \in 0..Len(io)
    BY <1>0
  <2> SUFFICES ASSUME NEW a \in Buffer, d.b = h[0] \o a PROVE Then(d, f[0], E \cup ItemsTo(io, w, 0), a)
    BY <2>0, Zenon
  <2>1. d.b = a
    BY <1>2, EmptyConcat
  <2>2. ItemsTo(io, w, 0) = {}
    BY DEF ItemsTo
  <2>3. E \cup {} = E
    OBVIOUS
  <2> QED BY <1>1, <2>1, <2>2, <2>3 DEF Then, State
<1>4. ASSUME NEW k \in 1..Len(io), k - 1 \in S PROVE k \in S
  <2>1. k - 1 \in 0..Len(io) /\ k \in 0..Len(io)
    BY <1>0
  <2> SUFFICES ASSUME NEW a \in Buffer, d.b = h[k] \o a PROVE Then(d, f[k], E \cup ItemsTo(io, w, k), a)
    BY <2>1, Zenon
  <2>2. h[k - 1] \in Buffer /\ Item(io[k], w, x) \in Buffer /\ h[k] = h[k - 1] \o Item(io[k], w, x)
    <3>1. Item(io[k], w, x) \in Buffer
      BY CodedBuffers, ElementOfSeq
    <3> QED BY <1>2, <2>1, <3>1
  <2>3. Item(io[k], w, x) \o a \in Buffer /\ d.b = h[k - 1] \o (Item(io[k], w, x) \o a)
    <3>1. Item(io[k], w, x) \o a \in Buffer
      BY <2>2, Concat, Zenon
    <3>2. (h[k - 1] \o Item(io[k], w, x)) \o a = h[k - 1] \o (Item(io[k], w, x) \o a)
      <4>1. ASSUME NEW p \in Buffer, NEW q \in Buffer PROVE (p \o q) \o a = p \o (q \o a)
        BY Concat, ZenonT(30)
      <4> QED BY <2>2, <4>1
    <3> QED BY <2>2, <3>1, <3>2, Zenon
  <2>4. Then(d, f[k - 1], E \cup ItemsTo(io, w, k - 1), Item(io[k], w, x) \o a)
    BY <1>4, <2>3, Zenon
  <2>5. f[k] = Element(f[k - 1], w, x)
    BY <1>1
  <2> QED BY <2>4, <2>5, ElementsStep
<1> HIDE DEF S
<1>5. Len(io) \in S
  BY <1>0, <1>3, <1>4, UpTo
<1> QED BY <1>1, <1>2, <1>5 DEF S

(* With its count before it.                                               *)
LEMMA MoveOn ==
  ASSUME NEW d, State(d), NEW b, NEW params
  PROVE  /\ [d EXCEPT !.b = b] = At(b, d.params, d.records)
         /\ [d EXCEPT !.b = b, !.params = params] = At(b, params, d.records)
<1>1. ASSUME NEW p, NEW q, NEW r
      PROVE  [At(p, q, r) EXCEPT !.b = b] = At(b, q, r)
  BY DEF At
<1>2. ASSUME NEW p, NEW q, NEW r
      PROVE  [At(p, q, r) EXCEPT !.params = params] = At(p, params, r)
  BY DEF At
<1>3. PICK p, q, r : p = d.b /\ q = d.params /\ r = d.records
  OBVIOUS
<1>4. d = At(p, q, r)
  BY <1>3 DEF State
<1>5. [d EXCEPT !.b = b] = At(b, q, r)
  BY <1>1, <1>4
<1> DEFINE c == [d EXCEPT !.b = b]
<1>6. [d EXCEPT !.b = b, !.params = params] = [c EXCEPT !.params = params]
  BY Zenon
<1>7. c = At(b, q, r)
  BY <1>5
<1> HIDE DEF c
<1>8. [c EXCEPT !.params = params] = At(b, params, r)
  BY <1>2, <1>7
<1> QED BY <1>3, <1>5, <1>6, <1>8

Meaning(io, w) == ItemsTo(io, w, Len(io))
Body(io, w, x) == FlattenSeq(Coded(io, w, x))

LEMMA ElementsGive ==
  ASSUME NEW w \in Width, NEW x \in Width, NEW io \in Seq(Param), NEW b \in Buffer,
         NEW E, NEW d, Faces(d, Body(io, w, x), b),
         Holds(E, d.params), Consistent(E \cup Meaning(io, w))
  PROVE  Then(d, Elements(d, Len(io), w, x), E \cup Meaning(io, w), b)
BY ElementsRead DEF Faces, Body, Meaning

LEMMA BodyBuffer ==
  ASSUME NEW w \in Width, NEW x \in Width, NEW io \in Seq(Param) PROVE Body(io, w, x) \in Buffer
<1> DEFINE s == Coded(io, w, x)
<1>1. s \in Seq(Buffer)
  BY CodedBuffers
<1> HIDE DEF s
<1>2. FlattenSeq(s) \in Buffer
  BY <1>1, FlattenBuffer
<1> QED BY <1>2 DEF Body, s

LEMMA GroupForm ==
  ASSUME NEW w \in Width, NEW x \in Width, NEW io \in Seq(Param)
  PROVE  /\ EncodeIO(io, w, x) = <<F(1, Len(io))>> \o Body(io, w, x)
         /\ EncodeIO(io, w, x) \in Buffer /\ F(1, Len(io)) \in Field
<1>1. EncodeIO(io, w, x) = <<F(1, Len(io))>> \o Body(io, w, x)
  BY DEF EncodeIO, Body, Coded, Item
<1>2. Len(io) \in Int
  OBVIOUS
<1>3. 1 \in Width
  BY DEF Width
<1>4. F(1, Len(io)) \in Field
  BY <1>2, <1>3, FieldOf
<1>5. <<F(1, Len(io))>> \o Body(io, w, x) \in Buffer
  BY <1>4, BodyBuffer, ConsConcat
<1> QED BY <1>1, <1>4, <1>5, Zenon

(* A group that has been written is read.                                  *)
LEMMA GroupRead ==
  ASSUME NEW w \in Width, NEW x \in Width, NEW io \in Seq(Param), NEW b \in Buffer,
         NEW E, NEW d, Faces(d, EncodeIO(io, w, x), b),
         Holds(E, d.params), Consistent(E \cup Meaning(io, w))
  PROVE  Then(d, Group(d, w, x), E \cup Meaning(io, w), b)
<1> DEFINE f == F(1, Len(io))
           a == Body(io, w, x)
<1>1. f \in Field /\ f.w = 1 /\ f.v = Len(io)
  <2>1. 1 \in Width /\ Len(io) \in Int
    BY DEF Width
  <2> QED BY <2>1, FieldOf
<1>2. a \in Buffer /\ EncodeIO(io, w, x) = <<f>> \o a
  BY BodyBuffer, GroupForm
<1> HIDE DEF f, a
<1>3. d.b = (<<f>> \o a) \o b
  BY <1>2 DEF Faces
<1>4. (<<f>> \o a) \o b = <<f>> \o (a \o b) /\ a \o b \in Buffer
  BY <1>1, <1>2, ConsConcat
<1>5. Skip(<<f>> \o (a \o b), f.w) = a \o b /\ Get(<<f>> \o (a \o b), f.w) = f.v
  BY <1>1, <1>4, FieldRead
<1>6. Skip(d.b, 1) = a \o b /\ Get(d.b, 1) = Len(io)
  BY <1>1, <1>3, <1>4, <1>5, Zenon
<1> DEFINE c == At(a \o b, d.params, d.records)
<1>7. [d EXCEPT !.b = Skip(d.b, 1)] = c
  BY <1>6, MoveOn DEF Faces
<1>8. Group(d, w, x) = Elements(c, Len(io), w, x)
  BY <1>6, <1>7 DEF Group
<1>9. Faces(c, Body(io, w, x), b) /\ c.params = d.params /\ c.records = d.records
  BY DEF Faces, State, At, a
<1> HIDE DEF c
<1>10. Then(c, Elements(c, Len(io), w, x), E \cup Meaning(io, w), b)
  BY <1>9, ElementsGive
<1> QED BY <1>8, <1>9, <1>10 DEF Then

-----------------------------------------------------------------------------
(* Parse, a row of fields.                                                 *)

(* Parse, field by field.                                                  *)
ParseStep(c, n) == [rest |-> Skip(c.rest, n), values |-> Append(c.values, Get(c.rest, n))]
ParseStart(b) == [rest |-> b, values |-> <<>>]
ParseUpTo(b, ws, n, f) == f = [k \in 0..n |-> IF k = 0 THEN ParseStart(b) ELSE ParseStep(f[k - 1], ws[k])]
ParseBy(b, ws, f) ==
  /\ f[0] = ParseStart(b)
  /\ \A k \in 1..Len(ws) : f[k] = ParseStep(f[k - 1], ws[k])
  /\ Parse(b, ws) = f[Len(ws)].values

LEMMA ParseFcn ==
  ASSUME NEW b, NEW ws, Len(ws) \in Nat
  PROVE  \E f : ParseBy(b, ws, f)
<1> DEFINE S == {j \in Nat : \E f : ParseUpTo(b, ws, j, f)}
<1>1. 0 \in S
  <2>1. ParseUpTo(b, ws, 0, [k \in 0..0 |-> ParseStart(b)])
    BY DEF ParseUpTo
  <2> QED BY <2>1
<1>2. ASSUME NEW j \in Nat, j \in S PROVE j + 1 \in S
  <2>1. PICK f : ParseUpTo(b, ws, j, f)
    BY <1>2
  <2> DEFINE g == [k \in 0..(j + 1) |-> IF k = j + 1 THEN ParseStep(f[j], ws[j + 1]) ELSE f[k]]
  <2>2. \A k \in 0..(j + 1) : g[k] = IF k = 0 THEN ParseStart(b) ELSE ParseStep(g[k - 1], ws[k])
    BY <2>1 DEF ParseUpTo
  <2>3. g = [k \in 0..(j + 1) |-> g[k]]
    OBVIOUS
  <2> HIDE DEF g
  <2>4. ParseUpTo(b, ws, j + 1, g)
    BY <2>2, <2>3 DEF ParseUpTo
  <2> QED BY <2>4
<1>3. \E f : ParseUpTo(b, ws, Len(ws), f)
  <2> HIDE DEF S
  <2>1. Nat \subseteq S
    BY <1>1, <1>2, SetInduction
  <2> QED BY <2>1 DEF S
<1>4. ParseUpTo(b, ws, Len(ws), CHOOSE f : ParseUpTo(b, ws, Len(ws), f))
  BY <1>3, Zenon
<1>5. Parse(b, ws) = (CHOOSE f : ParseUpTo(b, ws, Len(ws), f))[Len(ws)].values
  BY Zenon DEF Parse, ParseUpTo, ParseStart, ParseStep
<1>6. PICK f : ParseUpTo(b, ws, Len(ws), f) /\ Parse(b, ws) = f[Len(ws)].values
  BY <1>4, <1>5
<1>7. f[0] = ParseStart(b) /\ \A k \in 1..Len(ws) : f[k] = ParseStep(f[k - 1], ws[k])
  BY <1>6 DEF ParseUpTo
<1> QED BY <1>6, <1>7 DEF ParseBy

Ahead(c, f, b) == c.rest = <<f>> \o b
Taken(c, f, b) == ParseStep(c, f.w).rest = b /\ ParseStep(c, f.w).values = Append(c.values, f.v)

(* The next field gives the next value.                                    *)
LEMMA FieldNext ==
  ASSUME NEW f \in Field, NEW b \in Buffer, NEW c, Ahead(c, f, b)
  PROVE  Taken(c, f, b)
<1>1. Skip(c.rest, f.w) = b /\ Get(c.rest, f.w) = f.v
  BY FieldRead, Zenon DEF Ahead
<1> QED BY <1>1 DEF ParseStep, Taken

(* The widths are those of the fields of a.                                *)
Fits(a, ws) == Len(ws) = Len(a) /\ \A k \in 1..Len(a) : ws[k] = a[k].w
Parsed(a, b, ws) == \A i \in 1..Len(a) : Parse(a \o b, ws)[i] = a[i].v

(* Parse gives the values of the fields that have been written.            *)
LEMMA ParseRead ==
  ASSUME NEW a \in Buffer, NEW b \in Buffer, NEW ws, Fits(a, ws)
  PROVE  Parsed(a, b, ws)
<1>0. Len(a) \in Nat /\ \A k \in 1..Len(a) : a[k] \in Field /\ a[k].v \in Int
  BY BufferFacts
<1>a. Len(ws) = Len(a) /\ \A k \in 1..Len(a) : ws[k] = a[k].w
  BY DEF Fits
<1>1. PICK f : ParseBy(a \o b, ws, f)
  BY <1>0, <1>a, ParseFcn
<1> DEFINE Rest(k) == SubSeq(a, k + 1, Len(a))
           Done(k, q) == q \in Seq(Int) /\ Len(q) = k /\ \A i \in 1..k : q[i] = a[i].v
           S == {k \in 0..Len(a) : f[k].rest = Rest(k) \o b /\ Done(k, f[k].values)}
<1>2. 0 \in S
  <2>1. Rest(0) = a
    BY SubSeqFull DEF Buffer
  <2>2. f[0].rest = a \o b /\ f[0].values = <<>>
    BY <1>1 DEF ParseBy, ParseStart
  <2>3. Done(0, <<>>)
    OBVIOUS
  <2>4. 0 \in 0..Len(a)
    BY <1>0
  <2> HIDE DEF Done, Rest
  <2> QED BY <2>1, <2>2, <2>3, <2>4
<1>3. ASSUME NEW k \in 1..Len(a), k - 1 \in S PROVE k \in S
  <2>1. k \in Nat /\ (k - 1) + 1 = k /\ k \in 0..Len(a) /\ Len(a) \in k..Len(a) /\ k + 1 \in Int
    BY <1>0
  <2>2. Rest(k) \in Buffer
    BY <1>0, <2>1, SubSeqProperties DEF Buffer
  <2>3. Rest(k - 1) = <<a[k]>> \o Rest(k)
    BY <2>1, SubSeqRecursiveFirst DEF Buffer
  <2>4. f[k - 1].rest = Rest(k - 1) \o b /\ Done(k - 1, f[k - 1].values)
    BY <1>3
  <2>5. Rest(k) \o b \in Buffer /\ Rest(k - 1) \o b = <<a[k]>> \o (Rest(k) \o b)
    <3> HIDE DEF Rest
    <3>1. a[k] \in Field
      BY <1>0
    <3>2. (<<a[k]>> \o Rest(k)) \o b = <<a[k]>> \o (Rest(k) \o b) /\ Rest(k) \o b \in Buffer
      BY <2>2, <3>1, ConsConcat, Zenon
    <3> QED BY <2>3, <3>2, Zenon
  <2>6. f[k] = ParseStep(f[k - 1], a[k].w)
    BY <1>1, <1>a DEF ParseBy
  <2>7. f[k].rest = Rest(k) \o b /\ f[k].values = Append(f[k - 1].values, a[k].v)
    <3> HIDE DEF Rest
    <3>1. a[k] \in Field /\ f[k - 1].rest = <<a[k]>> \o (Rest(k) \o b)
      BY <1>0, <2>4, <2>5, Zenon
    <3>2. /\ ParseStep(f[k - 1], a[k].w).rest = Rest(k) \o b
          /\ ParseStep(f[k - 1], a[k].w).values = Append(f[k - 1].values, a[k].v)
      <4>1. Ahead(f[k - 1], a[k], Rest(k) \o b)
        BY <3>1 DEF Ahead
      <4>2. Taken(f[k - 1], a[k], Rest(k) \o b)
        BY <2>5, <3>1, <4>1, FieldNext, Zenon
      <4> QED BY <4>2 DEF Taken
    <3> QED BY <2>6, <3>2, Zenon
  <2>8. Done(k, Append(f[k - 1].values, a[k].v))
    <3> DEFINE q == f[k - 1].values
    <3>1. q \in Seq(Int) /\ Len(q) = k - 1 /\ \A i \in 1..(k - 1) : q[i] = a[i].v
      BY <2>4
    <3>2. a[k].v \in Int /\ k \in 1..Len(a)
      BY <1>0
    <3> HIDE DEF q
    <3>3. /\ Append(q, a[k].v) \in Seq(Int) /\ Len(Append(q, a[k].v)) = k
          /\ \A i \in 1..(k - 1) : Append(q, a[k].v)[i] = q[i]
          /\ Append(q, a[k].v)[k] = a[k].v
      BY <2>1, <3>1, <3>2, AppendProperties
    <3> QED BY <2>1, <3>1, <3>3 DEF q
  <2> HIDE DEF Done, Rest
  <2> QED BY <2>1, <2>7, <2>8
<1> HIDE DEF S
<1>4. Len(a) \in S
  <2>1. Len(a) \in 0..Len(a)
    BY <1>0
  <2> QED BY <1>0, <1>2, <1>3, <2>1, UpTo
<1> QED BY <1>1, <1>4, <1>a DEF S, ParseBy, Parsed

-----------------------------------------------------------------------------
(* A record: time, position, event and four groups of values.              *)

(* The ids of MSG_RECORDS_EXT are wider.                                   *)
IdWidth(tip) == IF tip = RecordsExt THEN 2 ELSE 1

LEMMA IdWidthIsWidth == ASSUME NEW tip PROVE IdWidth(tip) \in Width /\ IdWidth(tip) \in Nat
BY DEF IdWidth, Width

(* The parts of a record.                                                  *)
TimeOf(r, x) == <<F(4, r.t), F(x, 0), F(1, 0)>>
GpsOf(r) == <<F(4, r.lon), F(4, r.lat), F(2, 10 * r.alt), F(2, 100 * r.course), F(1, r.sat),
              F(2, r.speed), F(1, r.hdop)>>
EventOf(r, x) == <<F(x, r.event)>>
GroupsOf(r, x) == [k \in 1..4 |-> EncodeIO(r.io[k], <<1, 2, 4, 8>>[k], x)]
IOOf(r, x) ==
  ((EncodeIO(r.io[1], 1, x) \o EncodeIO(r.io[2], 2, x)) \o EncodeIO(r.io[3], 4, x)) \o EncodeIO(r.io[4], 8, x)

(* They consist of fields.                                                 *)
LEMMA RecordFields ==
  ASSUME NEW x \in Width, NEW r, IsRecord(r)
  PROVE  /\ F(4, r.t) \in Field /\ F(x, 0) \in Field /\ F(1, 0) \in Field
         /\ F(4, r.lon) \in Field /\ F(4, r.lat) \in Field /\ F(2, 10 * r.alt) \in Field
         /\ F(2, 100 * r.course) \in Field /\ F(1, r.sat) \in Field /\ F(2, r.speed) \in Field
         /\ F(1, r.hdop) \in Field /\ F(x, r.event) \in Field
<1>1. 1 \in Width /\ 2 \in Width /\ 4 \in Width
  BY DEF Width
<1>2. \A n \in Int : 10 * n \in Int /\ 100 * n \in Int
  OBVIOUS
<1>3. r.alt \in Int /\ r.course \in Int
  BY DEF IsRecord
<1>4. 0 \in Int /\ 10 * r.alt \in Int /\ 100 * r.course \in Int
  BY <1>2, <1>3
<1>5. F(4, r.t) \in Field /\ F(x, 0) \in Field /\ F(1, 0) \in Field /\ F(4, r.lon) \in Field
  BY <1>1, <1>4, FieldOf DEF IsRecord
<1>6. F(4, r.lat) \in Field /\ F(2, 10 * r.alt) \in Field /\ F(2, 100 * r.course) \in Field
  <2>1. F(4, r.lat) \in Field
    BY <1>1, FieldOf DEF IsRecord
  <2>2. F(2, 10 * r.alt) \in Field /\ F(2, 100 * r.course) \in Field
    BY <1>1, <1>4, FieldOf
  <2> QED BY <2>1, <2>2
<1>7. F(1, r.sat) \in Field /\ F(2, r.speed) \in Field /\ F(1, r.hdop) \in Field /\ F(x, r.event) \in Field
  BY <1>1, FieldOf DEF IsRecord
<1> QED BY <1>5, <1>6, <1>7

LEMMA RecordBuffers ==
  ASSUME NEW x \in Width, NEW r, IsRecord(r)
  PROVE  TimeOf(r, x) \in Buffer /\ GpsOf(r) \in Buffer /\ EventOf(r, x) \in Buffer
<1>1. TimeOf(r, x) \in Seq(Field)
  BY RecordFields DEF TimeOf
<1>2. GpsOf(r) \in Seq(Field)
  BY RecordFields DEF GpsOf
<1>3. EventOf(r, x) \in Seq(Field)
  BY RecordFields DEF EventOf
<1> QED BY <1>1, <1>2, <1>3 DEF Buffer

(* The record is these parts.                                              *)
LEMMA IOForm ==
  ASSUME NEW x \in Width, NEW r, IsRecord(r)
  PROVE  /\ FlattenSeq(GroupsOf(r, x)) = IOOf(r, x) /\ IOOf(r, x) \in Buffer
         /\ EncodeIO(r.io[1], 1, x) \in Buffer /\ EncodeIO(r.io[2], 2, x) \in Buffer
         /\ EncodeIO(r.io[3], 4, x) \in Buffer /\ EncodeIO(r.io[4], 8, x) \in Buffer
<1>1. 1 \in Width /\ 2 \in Width /\ 4 \in Width /\ 8 \in Width
  BY DEF Width
<1>2. r.io[1] \in Seq(Param) /\ r.io[2] \in Seq(Param) /\ r.io[3] \in Seq(Param) /\ r.io[4] \in Seq(Param)
  BY DEF IsRecord
<1> DEFINE g1 == EncodeIO(r.io[1], 1, x)
           g2 == EncodeIO(r.io[2], 2, x)
           g3 == EncodeIO(r.io[3], 4, x)
           g4 == EncodeIO(r.io[4], 8, x)
           s == GroupsOf(r, x)
<1>3. g1 \in Buffer /\ g2 \in Buffer /\ g3 \in Buffer /\ g4 \in Buffer
  BY <1>1, <1>2, GroupForm
<1>4. s = [k \in 1..4 |-> s[k]] /\ s[1] = g1 /\ s[2] = g2 /\ s[3] = g3 /\ s[4] = g4
  BY DEF GroupsOf
<1> SUFFICES FlattenSeq(s) = ((g1 \o g2) \o g3) \o g4 /\ FlattenSeq(s) \in Buffer
  BY <1>3, Zenon DEF IOOf
<1> HIDE DEF s, g1, g2, g3, g4
<1>5. s \in Seq(Buffer) /\ Len(s) = 4
  <2>1. s \in [1..4 -> Buffer]
    <3>1. \A k \in 1..4 : s[k] \in Buffer
      BY <1>3, <1>4
    <3> QED BY <1>4, <3>1, Zenon
  <2>2. 4 \in Nat
    OBVIOUS
  <2>3. s \in Seq(Buffer)
    BY <2>1, <2>2, SeqDef
  <2>4. DOMAIN s = 1..4 /\ DOMAIN s = 1..Len(s) /\ Len(s) \in Nat
    <3>1. DOMAIN s = 1..4
      BY <2>1
    <3>2. DOMAIN s = 1..Len(s) /\ Len(s) \in Nat
      BY <2>3, LenProperties
    <3> QED BY <3>1, <3>2
  <2> QED BY <2>3, <2>4
<1>6. PICK f : /\ f[0] = <<>> /\ \A k \in 1..Len(s) : f[k] = f[k - 1] \o s[k]
               /\ \A k \in 0..Len(s) : f[k] \in Buffer
               /\ FlattenSeq(s) = f[Len(s)]
  BY <1>5, FlattenSums
<1>7. /\ f[1] = <<>> \o g1 /\ f[2] = f[1] \o g2 /\ f[3] = f[2] \o g3 /\ f[4] = f[3] \o g4
      /\ FlattenSeq(s) = f[4] /\ f[4] \in Buffer
  <2>1. f[1] = f[0] \o s[1] /\ f[2] = f[1] \o s[2] /\ f[3] = f[2] \o s[3] /\ f[4] = f[3] \o s[4]
    <3>1. \A k \in 1..4 : f[k] = f[k - 1] \o s[k]
      BY <1>5, <1>6, Zenon
    <3>2. 1 - 1 = 0 /\ 2 - 1 = 1 /\ 3 - 1 = 2 /\ 4 - 1 = 3 /\ 1 \in 1..4 /\ 2 \in 1..4 /\ 3 \in 1..4 /\ 4 \in 1..4
      OBVIOUS
    <3>3. f[1] = f[1 - 1] \o s[1] /\ f[2] = f[2 - 1] \o s[2]
      BY <3>1, <3>2, Zenon
    <3>4. f[3] = f[3 - 1] \o s[3] /\ f[4] = f[4 - 1] \o s[4]
      BY <3>1, <3>2, Zenon
    <3> QED BY <3>2, <3>3, <3>4, Zenon
  <2>2. FlattenSeq(s) = f[4] /\ f[4] \in Buffer
    BY <1>5, <1>6
  <2> QED BY <1>4, <1>6, <2>1, <2>2, Zenon
<1>8. <<>> \o g1 = g1
  BY <1>3, EmptyConcat
<1> QED BY <1>7, <1>8, Zenon

LEMMA RecordForm ==
  ASSUME NEW tip, NEW r, IsRecord(r)
  PROVE  LET x == IdWidth(tip)
         IN  /\ EncodeRecord(r, tip) = (TimeOf(r, x) \o (GpsOf(r) \o EventOf(r, x))) \o IOOf(r, x)
             /\ EncodeRecord(r, tip) \in Buffer
<1> DEFINE x == IdWidth(tip)
<1>0. x \in Width
  BY IdWidthIsWidth
<1>1. EncodeRecord(r, tip) =
        <<F(4, r.t), F(x, 0), F(1, 0), F(4, r.lon), F(4, r.lat), F(2, 10 * r.alt),
          F(2, 100 * r.course), F(1, r.sat), F(2, r.speed), F(1, r.hdop), F(x, r.event)>>
        \o FlattenSeq(GroupsOf(r, x))
  BY DEF EncodeRecord, IdWidth, GroupsOf
<1> HIDE DEF x
<1> DEFINE f1 == F(4, r.t)
           f2 == F(x, 0)
           f3 == F(1, 0)
           f4 == F(4, r.lon)
           f5 == F(4, r.lat)
           f6 == F(2, 10 * r.alt)
           f7 == F(2, 100 * r.course)
           f8 == F(1, r.sat)
           f9 == F(2, r.speed)
           f10 == F(1, r.hdop)
           f11 == F(x, r.event)
<1>3. <<f1, f2, f3, f4, f5, f6, f7, f8, f9, f10, f11>> = TimeOf(r, x) \o (GpsOf(r) \o EventOf(r, x))
  <2>1. TimeOf(r, x) = <<f1, f2, f3>> /\ GpsOf(r) = <<f4, f5, f6, f7, f8, f9, f10>> /\ EventOf(r, x) = <<f11>>
    BY DEF TimeOf, GpsOf, EventOf
  <2> HIDE DEF f1, f2, f3, f4, f5, f6, f7, f8, f9, f10, f11
  <2>2. <<f1, f2, f3, f4, f5, f6, f7, f8, f9, f10, f11>>
        = <<f1, f2, f3>> \o (<<f4, f5, f6, f7, f8, f9, f10>> \o <<f11>>)
    OBVIOUS
  <2> QED BY <2>1, <2>2, Zenon
<1>4. EncodeRecord(r, tip) = (TimeOf(r, x) \o (GpsOf(r) \o EventOf(r, x))) \o IOOf(r, x)
  BY <1>0, <1>1, <1>3, IOForm, Zenon
<1>5. TimeOf(r, x) \in Buffer /\ GpsOf(r) \in Buffer /\ EventOf(r, x) \in Buffer /\ IOOf(r, x) \in Buffer
  BY <1>0, RecordBuffers, IOForm, Zenon
<1>6. GpsOf(r) \o EventOf(r, x) \in Buffer
  BY <1>5, Concat, Zenon
<1>7. TimeOf(r, x) \o (GpsOf(r) \o EventOf(r, x)) \in Buffer
  BY <1>5, <1>6, Concat, Zenon
<1>8. (TimeOf(r, x) \o (GpsOf(r) \o EventOf(r, x))) \o IOOf(r, x) \in Buffer
  BY <1>5, <1>7, Concat, Zenon
<1> QED BY <1>4, <1>8, Zenon DEF x

(* Lengths.                                                                *)
LEMMA BytesOfThree ==
  ASSUME NEW b \in Buffer, Len(b) = 3 PROVE Bytes(b) = b[1].w + b[2].w + b[3].w
<1>1. \A k \in 1..3 : b[k].w \in Nat
  BY BufferFacts
<1>2. PICK f : f = [k \in 0..3 |-> IF k = 0 THEN 0 ELSE f[k - 1] + b[k].w] /\ Bytes(b) = f[3]
  BY BytesFcn
<1>3. f[0] = 0 /\ f[1] = f[0] + b[1].w /\ f[2] = f[1] + b[2].w /\ f[3] = f[2] + b[3].w
  BY <1>2
<1> QED BY <1>1, <1>2, <1>3

LEMMA BytesOfFour ==
  ASSUME NEW b \in Buffer, Len(b) = 4 PROVE Bytes(b) = b[1].w + b[2].w + b[3].w + b[4].w
<1>1. \A k \in 1..4 : b[k].w \in Nat
  BY BufferFacts
<1>2. PICK f : f = [k \in 0..4 |-> IF k = 0 THEN 0 ELSE f[k - 1] + b[k].w] /\ Bytes(b) = f[4]
  BY BytesFcn
<1>3. f[0] = 0 /\ f[1] = f[0] + b[1].w /\ f[2] = f[1] + b[2].w /\ f[3] = f[2] + b[3].w /\ f[4] = f[3] + b[4].w
  BY <1>2
<1> QED BY <1>1, <1>2, <1>3

LEMMA BytesOfSeven ==
  ASSUME NEW b \in Buffer, Len(b) = 7
  PROVE  Bytes(b) = b[1].w + b[2].w + b[3].w + b[4].w + b[5].w + b[6].w + b[7].w
<1>1. \A k \in 1..7 : b[k].w \in Nat
  BY BufferFacts
<1>2. PICK f : f = [k \in 0..7 |-> IF k = 0 THEN 0 ELSE f[k - 1] + b[k].w] /\ Bytes(b) = f[7]
  BY BytesFcn
<1>3. /\ f[0] = 0 /\ f[1] = f[0] + b[1].w /\ f[2] = f[1] + b[2].w /\ f[3] = f[2] + b[3].w
      /\ f[4] = f[3] + b[4].w /\ f[5] = f[4] + b[5].w /\ f[6] = f[5] + b[6].w /\ f[7] = f[6] + b[7].w
  BY <1>2
<1> QED BY <1>1, <1>2, <1>3

(* Brackets.                                                               *)
Associates(a, b, c) == (a \o b) \o c = a \o (b \o c)
LEMMA Associate ==
  ASSUME NEW a \in Buffer, NEW b \in Buffer, NEW c \in Buffer
  PROVE  Associates(a, b, c)
BY Concat, ZenonT(30) DEF Associates

Regroups(a, b, c, d, e) ==
  /\ ((a \o (b \o c)) \o d) \o e = a \o (b \o (c \o (d \o e)))
  /\ (((a \o b) \o c) \o d) \o e = a \o (b \o (c \o (d \o e)))
  /\ d \o e \in Buffer /\ c \o (d \o e) \in Buffer /\ b \o (c \o (d \o e)) \in Buffer

LEMMA Regroup ==
  ASSUME NEW a \in Buffer, NEW b \in Buffer, NEW c \in Buffer, NEW d \in Buffer, NEW e \in Buffer
  PROVE  Regroups(a, b, c, d, e)
<1>1. d \o e \in Buffer /\ b \o c \in Buffer /\ a \o b \in Buffer
  BY Concat, Zenon
<1>2. PICK de \in Buffer, bc \in Buffer, ab \in Buffer : de = d \o e /\ bc = b \o c /\ ab = a \o b
  BY <1>1, Zenon
<1>3. c \o de \in Buffer /\ a \o bc \in Buffer /\ ab \o c \in Buffer
  BY Concat, Zenon
<1>4. PICK cde \in Buffer, abc \in Buffer, bcde \in Buffer : cde = c \o de /\ abc = a \o bc /\ bcde = b \o cde
  <2>1. \A p, q \in Buffer : p \o q \in Buffer
    BY Concat, Zenon
  <2> QED BY <1>3, <2>1, Zenon
<1>5. Associates(a, b, c) /\ Associates(abc, d, e) /\ Associates(a, bc, de) /\ Associates(b, c, de)
  BY Associate, Zenon
<1> QED BY <1>2, <1>4, <1>5, Zenon DEF Associates, Regroups

(* What two groups give is the union.                                      *)
LEMMA ThenBefore ==
  ASSUME NEW d, NEW c, NEW E, NEW a, NEW b, Then(d, c, E, a \o b)
  PROVE  Faces(c, a, b) /\ Holds(E, c.params) /\ c.records = d.records
BY DEF Then, Faces, State, At

MeaningsOf(r) == ((Meaning(r.io[1], 1) \cup Meaning(r.io[2], 2)) \cup Meaning(r.io[3], 4)) \cup Meaning(r.io[4], 8)

LEMMA StoredForm ==
  ASSUME NEW r, IsRecord(r) PROVE Stored(r) = MeaningsOf(r)
<1>1. DOMAIN r.io[1] = 1..Len(r.io[1]) /\ DOMAIN r.io[2] = 1..Len(r.io[2])
  BY SMTT(30) DEF IsRecord
<1>2. DOMAIN r.io[3] = 1..Len(r.io[3]) /\ DOMAIN r.io[4] = 1..Len(r.io[4])
  BY SMTT(30) DEF IsRecord
<1> DEFINE M(k) == {<<r.io[k][j][1], <<1, 2, 4, 8>>[k], r.io[k][j][2]>> : j \in DOMAIN r.io[k]}
<1>3. M(1) = Meaning(r.io[1], 1) /\ M(2) = Meaning(r.io[2], 2)
  BY <1>1 DEF Meaning, ItemsTo, ItemAt
<1>4. M(3) = Meaning(r.io[3], 4) /\ M(4) = Meaning(r.io[4], 8)
  BY <1>2 DEF Meaning, ItemsTo, ItemAt
<1>5. Stored(r) = UNION {M(k) : k \in 1..4}
  BY DEF Stored
<1> HIDE DEF M
<1>6. UNION {M(k) : k \in 1..4} = ((M(1) \cup M(2)) \cup M(3)) \cup M(4)
  <2>1. 1..4 = {1, 2, 3, 4}
    OBVIOUS
  <2> QED BY <2>1
<1> QED BY <1>3, <1>4, <1>5, <1>6 DEF MeaningsOf

(* Lemmas of the sections before, with an operator for the conclusion,     *)
(* which lets Zenon instantiate them.                                      *)
Splits(a, b) == Skip(a \o b, Bytes(a)) = b /\ Cut(a \o b, Bytes(a)) = a
LEMMA SplitAt == ASSUME NEW a \in Buffer, NEW b \in Buffer PROVE Splits(a, b)
BY FrontPart DEF Splits

Reads(x, b) == Skip(<<x>> \o b, x.w) = b /\ Get(<<x>> \o b, x.w) = x.v
LEMMA ReadAt == ASSUME NEW x \in Field, NEW b \in Buffer PROVE Reads(x, b)
BY FieldRead DEF Reads

(* Time and position are read.                                             *)
TimeReads(r, x, b) == Get(TimeOf(r, x) \o b, 4) = r.t /\ Skip(TimeOf(r, x) \o b, 5 + x) = b
LEMMA TimeRead ==
  ASSUME NEW x \in Width, NEW r, IsRecord(r), NEW b \in Buffer
  PROVE  TimeReads(r, x, b)
<1> DEFINE f1 == F(4, r.t)
           f2 == F(x, 0)
           f3 == F(1, 0)
<1>1. f1 \in Field /\ f2 \in Field /\ f3 \in Field
  BY RecordFields
<1>2. f1.w = 4 /\ f1.v = r.t /\ f2.w = x /\ f3.w = 1
  BY DEF F
<1>3. TimeOf(r, x) = <<f1, f2, f3>>
  BY DEF TimeOf
<1>4. x \in Nat
  BY DEF Width
<1> HIDE DEF f1, f2, f3
<1>5. <<f1, f2, f3>> \in Buffer /\ <<f2, f3>> \in Buffer
  BY <1>1 DEF Buffer
<1>6. Bytes(<<f1, f2, f3>>) = 5 + x
  <2> DEFINE c == <<f1, f2, f3>>
  <2>1. Len(c) = 3 /\ c[1] = f1 /\ c[2] = f2 /\ c[3] = f3
    OBVIOUS
  <2>2. c \in Buffer
    BY <1>5
  <2> HIDE DEF c
  <2>3. Bytes(c) = c[1].w + c[2].w + c[3].w
    BY <2>1, <2>2, BytesOfThree
  <2>4. Bytes(c) = 4 + x + 1
    BY <1>2, <2>1, <2>3
  <2>5. 4 + x + 1 = 5 + x
    BY <1>4
  <2> QED BY <2>4, <2>5 DEF c
<1>7. <<f1, f2, f3>> = <<f1>> \o <<f2, f3>>
  OBVIOUS
<1>8. (<<f1>> \o <<f2, f3>>) \o b = <<f1>> \o (<<f2, f3>> \o b)
  BY <1>1, <1>5, ConsConcat, SMTT(30)
<1>9. <<f2, f3>> \o b \in Buffer
  BY <1>5, Concat, Zenon
<1>10. Reads(f1, <<f2, f3>> \o b) /\ Splits(<<f1, f2, f3>>, b)
  BY <1>1, <1>5, <1>9, ReadAt, SplitAt, Zenon
<1> QED BY <1>2, <1>3, <1>6, <1>7, <1>8, <1>10, Zenon DEF Reads, Splits, TimeReads

LEMMA GpsRead ==
  ASSUME NEW r, IsRecord(r), NEW b \in Buffer
  PROVE  LET c == GpsOf(r) \o b
             g == Parse(c, Gps)
         IN  /\ Skip(c, 16) = b
             /\ g[1] = r.lon /\ g[2] = r.lat /\ g[3] = 10 * r.alt /\ g[4] = 100 * r.course
             /\ g[5] = r.sat /\ g[6] = r.speed /\ g[7] = r.hdop
<1> DEFINE a == GpsOf(r)
<1>1. a \in Buffer
  <2>1. 1 \in Width
    BY DEF Width
  <2> QED BY <2>1, RecordBuffers
<1>2. Len(a) = 7 /\ Len(Gps) = 7
  BY DEF GpsOf, Gps
<1>3. a[1].w = 4 /\ a[2].w = 4 /\ a[3].w = 2 /\ a[4].w = 2 /\ a[5].w = 1 /\ a[6].w = 2 /\ a[7].w = 1
  BY DEF GpsOf, F
<1>4. /\ a[1].v = r.lon /\ a[2].v = r.lat /\ a[3].v = 10 * r.alt /\ a[4].v = 100 * r.course
      /\ a[5].v = r.sat /\ a[6].v = r.speed /\ a[7].v = r.hdop
  BY DEF GpsOf, F
<1>5. Gps[1] = 4 /\ Gps[2] = 4 /\ Gps[3] = 2 /\ Gps[4] = 2 /\ Gps[5] = 1 /\ Gps[6] = 2 /\ Gps[7] = 1
  BY DEF Gps
<1> HIDE DEF a
<1>6. Fits(a, Gps)
  BY <1>2, <1>3, <1>5 DEF Fits
<1>7. Parsed(a, b, Gps)
  BY <1>1, <1>6, ParseRead, Zenon
<1>8. Bytes(a) = 16
  <2>1. Bytes(a) = a[1].w + a[2].w + a[3].w + a[4].w + a[5].w + a[6].w + a[7].w
    BY <1>1, <1>2, BytesOfSeven
  <2> QED BY <1>3, <2>1
<1>9. Skip(a \o b, 16) = b
  <2>1. Splits(a, b)
    BY <1>1, SplitAt, Zenon
  <2> QED BY <1>8, <2>1, Zenon DEF Splits
<1>10. \A i \in 1..7 : Parse(a \o b, Gps)[i] = a[i].v
  BY <1>2, <1>7, Zenon DEF Parsed
<1>11. 1 \in 1..7 /\ 2 \in 1..7 /\ 3 \in 1..7 /\ 4 \in 1..7 /\ 5 \in 1..7 /\ 6 \in 1..7 /\ 7 \in 1..7
  OBVIOUS
<1>12. /\ Parse(a \o b, Gps)[1] = a[1].v /\ Parse(a \o b, Gps)[2] = a[2].v /\ Parse(a \o b, Gps)[3] = a[3].v
       /\ Parse(a \o b, Gps)[4] = a[4].v /\ Parse(a \o b, Gps)[5] = a[5].v /\ Parse(a \o b, Gps)[6] = a[6].v
       /\ Parse(a \o b, Gps)[7] = a[7].v
  BY <1>10, <1>11, Zenon
<1> QED BY <1>4, <1>9, <1>12, Zenon DEF a

(* The event is read.                                                      *)
EventRead(r, x, b) == Skip(EventOf(r, x) \o b, x) = b /\ Get(EventOf(r, x) \o b, x) = r.event
LEMMA EventReadAt ==
  ASSUME NEW x \in Width, NEW r, IsRecord(r), NEW b \in Buffer PROVE EventRead(r, x, b)
<1> DEFINE f == F(x, r.event)
<1>1. f \in Field /\ f.w = x /\ f.v = r.event /\ EventOf(r, x) = <<f>>
  BY RecordFields DEF EventOf, F
<1> HIDE DEF f
<1>2. Reads(f, b)
  BY <1>1, ReadAt, Zenon
<1> QED BY <1>1, <1>2, Zenon DEF Reads, EventRead

(* A group, and after it the others.                                       *)
LEMMA GroupStep ==
  ASSUME NEW w \in Width, NEW x \in Width, NEW io \in Seq(Param), NEW b \in Buffer, NEW E, NEW d,
         Faces(d, EncodeIO(io, w, x), b), Holds(E, d.params), Consistent(E \cup Meaning(io, w))
  PROVE  Then(d, Group(d, w, x), E \cup Meaning(io, w), b)
BY GroupRead

(* The decoder has appended the record r and stored its values.            *)
Recorded(d, c, r, b) == c = At(b, c.params, Append(d.records, Position(r))) /\ Holds(Stored(r), c.params)

(* The four groups of elements, one after the other.                      *)
LEMMA GroupsRead ==
  ASSUME NEW x \in Width, NEW r, IsRecord(r), Consistent(Stored(r)), NEW b \in Buffer,
         NEW d, Faces(d, IOOf(r, x), b)
  PROVE  Then(d, Group(Group(Group(Group(d, 1, x), 2, x), 4, x), 8, x), Stored(r), b)
<1> DEFINE g1 == EncodeIO(r.io[1], 1, x)
           g2 == EncodeIO(r.io[2], 2, x)
           g3 == EncodeIO(r.io[3], 4, x)
           g4 == EncodeIO(r.io[4], 8, x)
           m1 == Meaning(r.io[1], 1)
           m2 == Meaning(r.io[2], 2)
           m3 == Meaning(r.io[3], 4)
           m4 == Meaning(r.io[4], 8)
           c1 == Group(d, 1, x)
           c2 == Group(c1, 2, x)
           c3 == Group(c2, 4, x)
           c4 == Group(c3, 8, x)
<1>1. 1 \in Width /\ 2 \in Width /\ 4 \in Width /\ 8 \in Width
  BY DEF Width
<1>2. r.io[1] \in Seq(Param) /\ r.io[2] \in Seq(Param) /\ r.io[3] \in Seq(Param) /\ r.io[4] \in Seq(Param)
  BY DEF IsRecord
<1>3. g1 \in Buffer /\ g2 \in Buffer /\ g3 \in Buffer /\ g4 \in Buffer
  BY <1>1, <1>2, GroupForm
<1>4. Stored(r) = ((m1 \cup m2) \cup m3) \cup m4
  BY StoredForm DEF MeaningsOf
<1>5. IOOf(r, x) = ((g1 \o g2) \o g3) \o g4
  BY DEF IOOf
<1>6. /\ Consistent({} \cup m1) /\ Consistent(({} \cup m1) \cup m2)
      /\ Consistent((({} \cup m1) \cup m2) \cup m3) /\ Consistent(((({} \cup m1) \cup m2) \cup m3) \cup m4)
  <2> HIDE DEF m1, m2, m3, m4
  <2>1. {} \cup m1 \subseteq Stored(r) /\ ({} \cup m1) \cup m2 \subseteq Stored(r)
    BY <1>4
  <2>2. (({} \cup m1) \cup m2) \cup m3 \subseteq Stored(r) /\ ((({} \cup m1) \cup m2) \cup m3) \cup m4 \subseteq Stored(r)
    BY <1>4
  <2> QED BY <2>1, <2>2, ConsistentPart, Zenon
<1> SUFFICES Then(d, c4, Stored(r), b)
  OBVIOUS
<1>7. /\ (((g1 \o g2) \o g3) \o g4) \o b = g1 \o (g2 \o (g3 \o (g4 \o b)))
      /\ g4 \o b \in Buffer /\ g3 \o (g4 \o b) \in Buffer /\ g2 \o (g3 \o (g4 \o b)) \in Buffer
  <2> HIDE DEF g1, g2, g3, g4
  <2>1. Regroups(g1, g2, g3, g4, b)
    BY <1>3, Regroup, Zenon
  <2> QED BY <2>1, Zenon DEF Regroups
<1>8. Faces(d, g1, g2 \o (g3 \o (g4 \o b))) /\ Holds({}, d.params)
  BY <1>5, <1>7 DEF Faces, Holds
<1>9. Then(d, c1, {} \cup m1, g2 \o (g3 \o (g4 \o b)))
  BY <1>1, <1>2, <1>6, <1>7, <1>8, GroupStep, Zenon
<1>10. Faces(c1, g2, g3 \o (g4 \o b)) /\ Holds({} \cup m1, c1.params) /\ c1.records = d.records
  BY <1>9, ThenBefore, Zenon
<1>11. Then(c1, c2, ({} \cup m1) \cup m2, g3 \o (g4 \o b))
  BY <1>1, <1>2, <1>6, <1>7, <1>10, GroupStep, Zenon
<1>12. Faces(c2, g3, g4 \o b) /\ Holds(({} \cup m1) \cup m2, c2.params) /\ c2.records = c1.records
  BY <1>11, ThenBefore, Zenon
<1>13. Then(c2, c3, (({} \cup m1) \cup m2) \cup m3, g4 \o b)
  BY <1>1, <1>2, <1>6, <1>7, <1>12, GroupStep, Zenon
<1>14. Faces(c3, g4, b) /\ Holds((({} \cup m1) \cup m2) \cup m3, c3.params) /\ c3.records = c2.records
  BY <1>13, ThenBefore, Zenon
<1>15. Then(c3, c4, ((({} \cup m1) \cup m2) \cup m3) \cup m4, b)
  BY <1>1, <1>2, <1>6, <1>14, GroupStep, Zenon
<1>16. ((({} \cup m1) \cup m2) \cup m3) \cup m4 = Stored(r)
  <2> HIDE DEF m1, m2, m3, m4
  <2> QED BY <1>4
<1> HIDE DEF c1, c2, c3, c4, m1, m2, m3, m4
<1>17. Then(c3, c4, Stored(r), b) /\ c3.records = d.records
  BY <1>10, <1>12, <1>14, <1>15, <1>16, Zenon
<1> QED BY <1>17 DEF Then

(* Altitude and course lose nothing by their scale.                        *)
LEMMA Scaled == ASSUME NEW n \in Int PROVE (10 * n) \div 10 = n /\ (100 * n) \div 100 = n
OBVIOUS

(* A record that has been written is read: getRecords appends its          *)
(* position, and stores its values.                                        *)
LEMMA RecordRead ==
  ASSUME NEW tip, NEW r, IsRecord(r), Consistent(Stored(r)), NEW b \in Buffer,
         NEW d, Faces(d, EncodeRecord(r, tip), b)
  PROVE  Recorded(d, DecodeRecord(d, tip), r, b)
<1> DEFINE x == IdWidth(tip)
           T == TimeOf(r, x)
           G == GpsOf(r)
           V == EventOf(r, x)
           I == IOOf(r, x)
           g == Parse(Skip(d.b, 5 + x), Gps)
           rest == Skip(Skip(d.b, 5 + x), 16)
           p == With(With(d.params, Hdop, g[7]), EventIo, Get(rest, x))
           start == [d EXCEPT !.b = Skip(rest, x), !.params = p]
           c == Group(Group(Group(Group(start, 1, x), 2, x), 4, x), 8, x)
<1>1. x \in Width
  BY IdWidthIsWidth
<1>2. T \in Buffer /\ G \in Buffer /\ V \in Buffer /\ I \in Buffer
  BY <1>1, RecordBuffers, IOForm, Zenon
<1>3. EncodeRecord(r, tip) = (T \o (G \o V)) \o I
  BY RecordForm
<1>4. DecodeRecord(d, tip) = [c EXCEPT !.records = Append(c.records, Record(Get(d.b, 4), g))]
  BY DEF DecodeRecord, IdWidth
<1>5. Regroups(T, G, V, I, b)
  BY <1>2, Regroup, Zenon
<1>6. d.b = T \o (G \o (V \o (I \o b)))
  BY <1>3, <1>5, Zenon DEF Faces, Regroups
<1>7. I \o b \in Buffer /\ V \o (I \o b) \in Buffer /\ G \o (V \o (I \o b)) \in Buffer
  BY <1>5, Zenon DEF Regroups
<1>8. Get(d.b, 4) = r.t /\ Skip(d.b, 5 + x) = G \o (V \o (I \o b))
  <2>1. TimeReads(r, x, G \o (V \o (I \o b)))
    BY <1>1, <1>7, TimeRead, Zenon
  <2> QED BY <1>6, <2>1, Zenon DEF TimeReads
<1>9. /\ rest = V \o (I \o b)
      /\ g[1] = r.lon /\ g[2] = r.lat /\ g[3] = 10 * r.alt /\ g[4] = 100 * r.course
      /\ g[5] = r.sat /\ g[6] = r.speed /\ g[7] = r.hdop
  <2> DEFINE a == V \o (I \o b)
  <2>1. a \in Buffer
    BY <1>7
  <2> HIDE DEF a
  <2>2. LET y == GpsOf(r) \o a
            q == Parse(y, Gps)
        IN  /\ Skip(y, 16) = a
            /\ q[1] = r.lon /\ q[2] = r.lat /\ q[3] = 10 * r.alt /\ q[4] = 100 * r.course
            /\ q[5] = r.sat /\ q[6] = r.speed /\ q[7] = r.hdop
    BY <2>1, GpsRead, Zenon
  <2>3. Skip(d.b, 5 + x) = GpsOf(r) \o a
    BY <1>8 DEF a
  <2> QED BY <2>2, <2>3, Zenon DEF a
<1>10. Skip(rest, x) = I \o b
  <2>1. EventRead(r, x, I \o b)
    BY <1>1, <1>7, EventReadAt, Zenon
  <2> QED BY <1>9, <2>1, Zenon DEF EventRead
<1>11. Record(Get(d.b, 4), g) = Position(r)
  <2>1. r.alt \in Int /\ r.course \in Int
    BY DEF IsRecord
  <2>2. (10 * r.alt) \div 10 = r.alt /\ (100 * r.course) \div 100 = r.course
    BY <2>1, Scaled
  <2> HIDE DEF g
  <2> QED BY <1>8, <1>9, <2>2 DEF Record, Position
<1>12. start = At(I \o b, p, d.records)
  <2>1. State(d)
    BY DEF Faces
  <2> HIDE DEF p, rest
  <2> QED BY <1>10, <2>1, MoveOn
<1> HIDE DEF start, p, g, rest
<1>13. Faces(start, IOOf(r, x), b) /\ start.records = d.records
  BY <1>12 DEF Faces, State, At
<1>14. Then(start, c, Stored(r), b)
  BY <1>1, <1>2, <1>13, GroupsRead, Zenon
<1> HIDE DEF c
<1>15. c = At(b, c.params, d.records) /\ Holds(Stored(r), c.params)
  BY <1>13, <1>14 DEF Then
<1>16. DecodeRecord(d, tip) = [c EXCEPT !.records = Append(d.records, Position(r))]
  <2>1. c.records = d.records
    BY <1>15 DEF At
  <2> QED BY <1>4, <1>11, <2>1
<1>17. DecodeRecord(d, tip) = At(b, c.params, Append(d.records, Position(r)))
  <2>1. ASSUME NEW q, NEW s, NEW t PROVE [At(b, q, s) EXCEPT !.records = t] = At(b, q, t)
    BY DEF At
  <2>2. PICK q : q = c.params
    OBVIOUS
  <2>3. c = At(b, q, d.records)
    BY <1>15, <2>2
  <2>4. [c EXCEPT !.records = Append(d.records, Position(r))] = At(b, q, Append(d.records, Position(r)))
    BY <2>1, <2>3
  <2> QED BY <1>16, <2>2, <2>4
<1>18. DecodeRecord(d, tip).params = c.params
  BY <1>17 DEF At
<1> QED BY <1>15, <1>17, <1>18, Zenon DEF Recorded

-----------------------------------------------------------------------------
(* The records of a packet, one after the other.                           *)

(* The loop over the records, turn by turn.                                *)
DecodeUpTo(d, tip, n, f) == f = [k \in 0..n |-> IF k = 0 THEN d ELSE DecodeRecord(f[k - 1], tip)]
DecodeBy(d, tip, n, f) ==
  /\ f[0] = d
  /\ \A k \in 1..n : f[k] = DecodeRecord(f[k - 1], tip)
  /\ Decode(d, tip, n) = f[n]

LEMMA DecodeFcn ==
  ASSUME NEW d, NEW tip, NEW n \in Nat
  PROVE  \E f : DecodeBy(d, tip, n, f)
<1> DEFINE S == {j \in Nat : \E f : DecodeUpTo(d, tip, j, f)}
<1>1. 0 \in S
  <2>1. DecodeUpTo(d, tip, 0, [k \in 0..0 |-> d])
    BY DEF DecodeUpTo
  <2> QED BY <2>1
<1>2. ASSUME NEW j \in Nat, j \in S PROVE j + 1 \in S
  <2>1. PICK f : DecodeUpTo(d, tip, j, f)
    BY <1>2
  <2> DEFINE g == [k \in 0..(j + 1) |-> IF k = j + 1 THEN DecodeRecord(f[j], tip) ELSE f[k]]
  <2>2. \A k \in 0..(j + 1) : g[k] = IF k = 0 THEN d ELSE DecodeRecord(g[k - 1], tip)
    BY <2>1 DEF DecodeUpTo
  <2>3. g = [k \in 0..(j + 1) |-> g[k]]
    OBVIOUS
  <2> HIDE DEF g
  <2>4. DecodeUpTo(d, tip, j + 1, g)
    BY <2>2, <2>3 DEF DecodeUpTo
  <2> QED BY <2>4
<1>3. \E f : DecodeUpTo(d, tip, n, f)
  <2> HIDE DEF S
  <2>1. Nat \subseteq S
    BY <1>1, <1>2, SetInduction
  <2> QED BY <2>1 DEF S
<1>4. DecodeUpTo(d, tip, n, CHOOSE f : DecodeUpTo(d, tip, n, f))
  BY <1>3, Zenon
<1>5. Decode(d, tip, n) = (CHOOSE f : DecodeUpTo(d, tip, n, f))[n]
  BY Zenon DEF Decode, DecodeUpTo
<1>6. PICK f : DecodeUpTo(d, tip, n, f) /\ Decode(d, tip, n) = f[n]
  BY <1>4, <1>5
<1>7. f[0] = d /\ \A k \in 1..n : f[k] = DecodeRecord(f[k - 1], tip)
  BY <1>6 DEF DecodeUpTo
<1> QED BY <1>6, <1>7 DEF DecodeBy

(* The records as they are sent, and their sums.                           *)
Codes(rs, tip) == [k \in 1..Len(rs) |-> EncodeRecord(rs[k], tip)]

SumsTo(s, h) ==
  /\ h[0] = <<>>
  /\ \A k \in 1..Len(s) : h[k] = h[k - 1] \o s[k]
  /\ \A k \in 0..Len(s) : h[k] \in Buffer
  /\ FlattenSeq(s) = h[Len(s)]
LEMMA Sums == ASSUME NEW s \in Seq(Buffer) PROVE \E h : SumsTo(s, h)
BY FlattenSums DEF SumsTo

LEMMA CodesBuffers ==
  ASSUME NEW tip, NEW rs, ValidRecords(rs)
  PROVE  /\ Codes(rs, tip) \in Seq(Buffer) /\ Len(Codes(rs, tip)) = Len(rs)
         /\ \A k \in 1..Len(rs) : Codes(rs, tip)[k] = EncodeRecord(rs[k], tip)
<1>0. Len(rs) \in Nat /\ \A k \in 1..Len(rs) : IsRecord(rs[k])
  BY DEF ValidRecords
<1>1. \A k \in 1..Len(rs) : EncodeRecord(rs[k], tip) \in Buffer
  BY <1>0, RecordForm
<1>2. Codes(rs, tip) \in [1..Len(rs) -> Buffer]
  BY <1>1 DEF Codes
<1>3. Codes(rs, tip) \in Seq(Buffer)
  BY <1>0, <1>2, SeqDef
<1>4. Len(Codes(rs, tip)) = Len(rs)
  <2>1. DOMAIN Codes(rs, tip) = 1..Len(rs)
    BY DEF Codes
  <2>2. DOMAIN Codes(rs, tip) = 1..Len(Codes(rs, tip)) /\ Len(Codes(rs, tip)) \in Nat
    BY <1>3, LenProperties
  <2> QED BY <1>0, <2>1, <2>2
<1> QED BY <1>3, <1>4 DEF Codes

(* What the first k records have become.                                   *)
PositionsUpTo(q, rs, k) ==
  /\ q \in Seq({Position(rs[j]) : j \in 1..Len(rs)}) /\ Len(q) = k
  /\ \A j \in 1..k : q[j] = Position(rs[j])
DecodedTo(c, rs, k, a) ==
  /\ State(c) /\ c.b = a /\ PositionsUpTo(c.records, rs, k)
  /\ k # 0 => Holds(Stored(rs[k]), c.params)

(* One record more.                                                        *)
LEMMA PositionsNext ==
  ASSUME NEW rs, Len(rs) \in Nat, NEW k \in 1..Len(rs), NEW q, PositionsUpTo(q, rs, k - 1)
  PROVE  PositionsUpTo(Append(q, Position(rs[k])), rs, k)
<1> DEFINE T == {Position(rs[j]) : j \in 1..Len(rs)}
<1>1. q \in Seq(T) /\ Len(q) = k - 1 /\ \A j \in 1..(k - 1) : q[j] = Position(rs[j])
  BY DEF PositionsUpTo
<1>2. Position(rs[k]) \in T
  OBVIOUS
<1> HIDE DEF T
<1> DEFINE e == Position(rs[k])
           p == Append(q, e)
<1>3. e \in T
  BY <1>2
<1> HIDE DEF e
<1>4. /\ p \in Seq(T) /\ Len(p) = Len(q) + 1
      /\ \A i \in 1..Len(q) : p[i] = q[i]
      /\ p[Len(q) + 1] = e
  BY <1>1, <1>3, AppendProperties
<1>5. k \in Nat /\ Len(q) + 1 = k
  BY <1>1
<1> HIDE DEF p
<1>6. \A j \in 1..k : p[j] = Position(rs[j])
  BY <1>1, <1>4, <1>5 DEF e
<1>7. p \in Seq(T) /\ Len(p) = k
  BY <1>4, <1>5
<1> QED BY <1>6, <1>7 DEF PositionsUpTo, T, p, e

(* One turn of the loop.                                                   *)
LEMMA RecordNext ==
  ASSUME NEW tip, NEW rs, ValidRecords(rs), NEW k \in 1..Len(rs), NEW a \in Buffer,
         NEW c, DecodedTo(c, rs, k - 1, EncodeRecord(rs[k], tip) \o a)
  PROVE  DecodedTo(DecodeRecord(c, tip), rs, k, a)
<1>1. IsRecord(rs[k]) /\ Consistent(Stored(rs[k])) /\ Len(rs) \in Nat
  BY DEF ValidRecords
<1>2. Faces(c, EncodeRecord(rs[k], tip), a)
  BY DEF DecodedTo, Faces
<1>3. Recorded(c, DecodeRecord(c, tip), rs[k], a)
  BY <1>1, <1>2, RecordRead, Zenon
<1>4. PositionsUpTo(c.records, rs, k - 1)
  BY DEF DecodedTo
<1>5. PositionsUpTo(Append(c.records, Position(rs[k])), rs, k)
  BY <1>1, <1>4, PositionsNext, Zenon
<1> DEFINE r == DecodeRecord(c, tip)
<1>6. r = At(a, r.params, Append(c.records, Position(rs[k]))) /\ Holds(Stored(rs[k]), r.params)
  BY <1>3 DEF Recorded
<1> HIDE DEF r
<1>7. State(r) /\ r.b = a /\ r.records = Append(c.records, Position(rs[k]))
  BY <1>6 DEF State, At
<1> QED BY <1>5, <1>6, <1>7 DEF DecodedTo, r

(* All records of a packet are read, and the values of the last of them    *)
(* are stored.                                                             *)
LEMMA DecodeRead ==
  ASSUME NEW tip, NEW rs, ValidRecords(rs), NEW b \in Buffer,
         NEW d, Faces(d, FlattenSeq(Codes(rs, tip)), b), d.records = <<>>
  PROVE  DecodedTo(Decode(d, tip, Len(rs)), rs, Len(rs), b)
<1>0. Len(rs) \in Nat /\ Len(rs) \in 0..Len(rs)
  BY DEF ValidRecords
<1>1. PICK f : DecodeBy(d, tip, Len(rs), f)
  BY <1>0, DecodeFcn, Zenon
<1> DEFINE s == Codes(rs, tip)
<1>2. s \in Seq(Buffer) /\ Len(s) = Len(rs) /\ \A k \in 1..Len(rs) : s[k] = EncodeRecord(rs[k], tip)
  BY CodesBuffers
<1>3. d.b = FlattenSeq(s) \o b /\ State(d)
  BY DEF Faces
<1> HIDE DEF s
<1>4. PICK h : SumsTo(s, h)
  BY <1>2, Sums
<1> DEFINE To(k) == \A a \in Buffer : d.b = h[k] \o a => DecodedTo(f[k], rs, k, a)
           S == {k \in 0..Len(rs) : To(k)}
<1>5. 0 \in S
  <2>1. 0 \in 0..Len(rs) /\ h[0] = <<>> /\ f[0] = d
    BY <1>0, <1>1, <1>4 DEF DecodeBy, SumsTo
  <2> SUFFICES ASSUME NEW a \in Buffer, d.b = h[0] \o a PROVE DecodedTo(f[0], rs, 0, a)
    BY <2>1, Zenon
  <2>2. d.b = a
    BY <2>1, EmptyConcat
  <2>3. PositionsUpTo(d.records, rs, 0)
    BY DEF PositionsUpTo
  <2> QED BY <1>3, <2>1, <2>2, <2>3 DEF DecodedTo
<1>6. ASSUME NEW k \in 1..Len(rs), k - 1 \in S PROVE k \in S
  <2>1. k - 1 \in 0..Len(rs) /\ k \in 0..Len(rs)
    BY <1>0
  <2> SUFFICES ASSUME NEW a \in Buffer, d.b = h[k] \o a PROVE DecodedTo(f[k], rs, k, a)
    BY <2>1, Zenon
  <2> DEFINE e == EncodeRecord(rs[k], tip)
  <2>2. e \in Buffer
    BY <1>2, ElementOfSeq
  <2>3. h[k] = h[k - 1] \o e /\ h[k - 1] \in Buffer
    BY <1>2, <1>4, <2>1 DEF SumsTo
  <2>4. f[k] = DecodeRecord(f[k - 1], tip)
    BY <1>1 DEF DecodeBy
  <2> HIDE DEF e
  <2>5. e \o a \in Buffer /\ Associates(h[k - 1], e, a)
    BY <2>2, <2>3, Concat, Associate, Zenon
  <2>6. d.b = h[k - 1] \o (e \o a)
    BY <2>3, <2>5, Zenon DEF Associates
  <2>7. DecodedTo(f[k - 1], rs, k - 1, e \o a)
    BY <1>6, <2>5, <2>6, Zenon
  <2> QED BY <2>4, <2>7, RecordNext, Zenon DEF e
<1> HIDE DEF S
<1>7. Len(rs) \in S
  BY <1>0, <1>5, <1>6, UpTo
<1>8. h[Len(rs)] = FlattenSeq(s)
  BY <1>2, <1>4 DEF SumsTo
<1>9. DecodedTo(f[Len(rs)], rs, Len(rs), b)
  BY <1>3, <1>7, <1>8, Zenon DEF S
<1> QED BY <1>1, <1>9, Zenon DEF DecodeBy

-----------------------------------------------------------------------------
(* A packet: head, records, CRC.                                           *)

(* The parts of a packet.                                                  *)
BodyOf(p) == FlattenSeq(Codes(p.records, p.tip))
HeadWidths == <<8, 1, 1, 1>>

(* Its head has four fields.                                               *)
LEMMA HeadFacts ==
  ASSUME NEW p, Valid(p)
  PROVE  /\ HeadOf(p) \in Buffer /\ Fits(HeadOf(p), HeadWidths) /\ Bytes(HeadOf(p)) = 11
         /\ HeadOf(p)[1].v = p.imei /\ HeadOf(p)[2].v = p.tip /\ HeadOf(p)[4].v = Len(p.records)
         /\ Len(HeadOf(p)) = 4
<1> DEFINE a == HeadOf(p)
<1>1. 8 \in Width /\ 1 \in Width
  BY DEF Width
<1>2. p.imei \in Int /\ p.tip \in Int /\ p.left \in Int /\ Len(p.records) \in Int
  BY DEF Valid, ValidRecords, Records, RecordsExt
<1>3. F(8, p.imei) \in Field /\ F(1, p.tip) \in Field /\ F(1, p.left) \in Field /\ F(1, Len(p.records)) \in Field
  BY <1>1, <1>2, FieldOf
<1>4. a \in Buffer
  BY <1>3 DEF HeadOf, Buffer
<1>5. Len(a) = 4 /\ Len(HeadWidths) = 4
  BY DEF HeadOf, HeadWidths
<1>6. a[1].w = 8 /\ a[2].w = 1 /\ a[3].w = 1 /\ a[4].w = 1
  BY DEF HeadOf, F
<1>7. a[1].v = p.imei /\ a[2].v = p.tip /\ a[4].v = Len(p.records)
  BY DEF HeadOf, F
<1>8. HeadWidths[1] = 8 /\ HeadWidths[2] = 1 /\ HeadWidths[3] = 1 /\ HeadWidths[4] = 1
  BY DEF HeadWidths
<1> HIDE DEF a
<1>9. Fits(a, HeadWidths)
  BY <1>5, <1>6, <1>8 DEF Fits
<1>10. Bytes(a) = 11
  <2>1. Bytes(a) = a[1].w + a[2].w + a[3].w + a[4].w
    BY <1>4, <1>5, BytesOfFour
  <2> QED BY <1>6, <2>1
<1> QED BY <1>4, <1>5, <1>7, <1>9, <1>10 DEF a

(* What the CRC is of.                                                     *)
LEMMA DataForm == ASSUME NEW p PROVE DataOf(p) = HeadOf(p) \o BodyOf(p)
BY Zenon DEF DataOf, BodyOf, Codes

LEMMA PacketForm ==
  ASSUME NEW p, Valid(p)
  PROVE  /\ Encode(p) = (<<F(2, Bytes(DataOf(p)))>> \o DataOf(p)) \o <<F(2, Crc(DataOf(p)))>>
         /\ BodyOf(p) \in Buffer /\ DataOf(p) \in Buffer
         /\ Bytes(DataOf(p)) \in Nat /\ Bytes(DataOf(p)) >= 11
         /\ F(2, Bytes(DataOf(p))) \in Field /\ F(2, Crc(DataOf(p))) \in Field
<1>1. Encode(p) = (<<F(2, Bytes(DataOf(p)))>> \o DataOf(p)) \o <<F(2, Crc(DataOf(p)))>>
  BY Zenon DEF Encode
<1>2. BodyOf(p) \in Buffer
  <2> DEFINE s == Codes(p.records, p.tip)
  <2>1. s \in Seq(Buffer)
    BY CodesBuffers DEF Valid
  <2> HIDE DEF s
  <2>2. FlattenSeq(s) \in Buffer
    BY <2>1, FlattenBuffer
  <2> QED BY <2>2 DEF BodyOf, s
<1>3. HeadOf(p) \in Buffer /\ Bytes(HeadOf(p)) = 11
  BY HeadFacts
<1>4. DataOf(p) \in Buffer
  BY <1>2, <1>3, Concat, DataForm, Zenon
<1>5. Bytes(HeadOf(p) \o BodyOf(p)) = Bytes(HeadOf(p)) + Bytes(BodyOf(p))
  BY <1>2, <1>3, BytesConcat
<1>6. Bytes(BodyOf(p)) \in Nat
  BY <1>2, BytesIsNat
<1>7. Bytes(DataOf(p)) \in Nat /\ Bytes(DataOf(p)) >= 11
  <2>1. Bytes(DataOf(p)) = Bytes(HeadOf(p)) + Bytes(BodyOf(p))
    BY <1>5, DataForm, Zenon
  <2> QED BY <1>3, <1>6, <2>1
<1>8. 2 \in Width /\ Crc(DataOf(p)) \in Int /\ Bytes(DataOf(p)) \in Int
  BY <1>4, <1>7, CrcIsInt DEF Width
<1>9. F(2, Bytes(DataOf(p))) \in Field /\ F(2, Crc(DataOf(p))) \in Field
  BY <1>8, FieldOf
<1> QED BY <1>1, <1>2, <1>4, <1>7, <1>9, Zenon

(* What the decoder makes of a packet whose CRC is replaced by t.          *)
Started(b) == [b |-> b, params |-> <<>>, records |-> <<>>]
(* From there all records are read, up to the CRC.                         *)
LEMMA BodyRead ==
  ASSUME NEW p, Valid(p), NEW t \in Buffer
  PROVE  /\ Parse(DataOf(p) \o t, HeadWidths)[1] = p.imei
         /\ Parse(DataOf(p) \o t, HeadWidths)[2] = p.tip
         /\ Parse(DataOf(p) \o t, HeadWidths)[4] = Len(p.records)
         /\ DecodedTo(Decode(Started(Skip(DataOf(p) \o t, 11)), p.tip, Len(p.records)),
                      p.records, Len(p.records), t)
<1> DEFINE a == HeadOf(p)
           c == BodyOf(p)
<1>1. a \in Buffer /\ c \in Buffer
  BY HeadFacts, PacketForm
<1>2. Fits(a, HeadWidths) /\ Bytes(a) = 11 /\ Len(a) = 4
  BY HeadFacts
<1>3. a[1].v = p.imei /\ a[2].v = p.tip /\ a[4].v = Len(p.records)
  BY HeadFacts
<1>4. DataOf(p) = a \o c
  BY DataForm
<1> HIDE DEF a
<1>5. Associates(a, c, t) /\ c \o t \in Buffer
  BY <1>1, Associate, Concat, Zenon
<1>6. DataOf(p) \o t = a \o (c \o t)
  BY <1>4, <1>5, Zenon DEF Associates
<1>7. Parsed(a, c \o t, HeadWidths) /\ Splits(a, c \o t)
  BY <1>1, <1>2, <1>5, ParseRead, SplitAt, Zenon
<1>8. 1 \in 1..Len(a) /\ 2 \in 1..Len(a) /\ 4 \in 1..Len(a)
  BY <1>2
<1>9. /\ Parse(DataOf(p) \o t, HeadWidths)[1] = p.imei
      /\ Parse(DataOf(p) \o t, HeadWidths)[2] = p.tip
      /\ Parse(DataOf(p) \o t, HeadWidths)[4] = Len(p.records)
  BY <1>3, <1>6, <1>7, <1>8, Zenon DEF Parsed
<1>10. Skip(DataOf(p) \o t, 11) = c \o t
  BY <1>2, <1>6, <1>7, Zenon DEF Splits
<1> DEFINE d == Started(c \o t)
<1>11. Faces(d, FlattenSeq(Codes(p.records, p.tip)), t) /\ d.records = <<>>
  BY DEF Faces, State, At, Started, BodyOf
<1>12. ValidRecords(p.records)
  BY DEF Valid
<1> HIDE DEF d
<1>13. DecodedTo(Decode(d, p.tip, Len(p.records)), p.records, Len(p.records), t)
  BY <1>11, <1>12, DecodeRead, Zenon
<1> QED BY <1>9, <1>10, <1>13 DEF d

(* The message of p with t for its CRC.                                    *)
Sent(p, t) == <<F(2, Bytes(DataOf(p)))>> \o (DataOf(p) \o t)

(* A length below 2^16 is itself as a uint16.                              *)
LEMMA Remainder == ASSUME NEW n \in Nat, n < 2^16 PROVE n % 2^16 = n
OBVIOUS

(* Of a message long enough for its length getRecords checks the CRC of    *)
(* all that the length counts.                                             *)
LEMMA BufferRead ==
  ASSUME NEW p, Valid(p), NEW t \in Buffer, Bytes(t) <= 2
  PROVE  \E c : /\ DecodedTo(c, p.records, Len(p.records), t)
                /\ GetRecords(Sent(p, t)) = Checked(p.imei, c, Get(t, 2), DataOf(p))
<1> DEFINE a == DataOf(p)
           n == Bytes(a)
           f == F(2, n)
           y == a \o t
           head == Parse(y, HeadWidths)
           d == Decode(Started(Skip(y, 11)), p.tip, Len(p.records))
<1>1. a \in Buffer /\ n \in Nat /\ f \in Field /\ Bytes(t) \in Nat
  BY PacketForm, BytesIsNat
<1>2. f.w = 2 /\ f.v = n
  BY DEF F
<1>3. y \in Buffer /\ Bytes(y) = n + Bytes(t)
  BY <1>1, Concat, BytesConcat
<1>4. head[1] = p.imei /\ head[2] = p.tip /\ head[4] = Len(p.records)
  BY BodyRead
<1>5. DecodedTo(d, p.records, Len(p.records), t)
  BY BodyRead
<1>6. n + 2 < 2^16 /\ p.tip \in {Records, RecordsExt}
  BY DEF Valid
<1>7. Splits(a, t)
  BY <1>1, SplitAt, Zenon
<1>8. Cut(y, n) = a
  BY <1>7, Zenon DEF Splits
<1>9. d.b = t
  BY <1>5 DEF DecodedTo
<1> DEFINE b == Sent(p, t)
<1>10. b = <<f>> \o y
  BY DEF Sent
<1> HIDE DEF f
<1>11. Reads(f, y)
  BY <1>1, <1>3, ReadAt, Zenon
<1>12. Get(b, 2) = n /\ Skip(b, 2) = y
  BY <1>2, <1>10, <1>11, Zenon DEF Reads
<1>13. ~TooLong(n, y) /\ ~(n > Bytes(y))
  <2> HIDE DEF n, y
  <2>1. Bytes(y) \in Nat /\ Bytes(y) < 2^16
    BY <1>1, <1>3, <1>6
  <2>2. Bytes(y) % 2^16 = Bytes(y)
    BY <2>1, Remainder
  <2>3. ~(n > Bytes(y))
    BY <1>1, <1>3
  <2> QED BY <2>2, <2>3 DEF TooLong
<1> HIDE DEF b, d, head, n, y, a
<1>14. GetRecords(b) =
         IF TooLong(n, y) THEN Refuse(Fresh)
         ELSE IF n > Bytes(y) THEN Panic
         ELSE IF head[2] \notin {Records, RecordsExt} THEN Refuse(Fresh)
         ELSE Checked(head[1], d, Get(d.b, 2), Cut(y, n))
  <2>1. Parse(Skip(b, 2), <<8, 1, 1, 1>>) = head
    BY <1>12 DEF head, HeadWidths
  <2>2. Decode([b |-> Skip(Skip(b, 2), 11), params |-> <<>>, records |-> <<>>], head[2], head[4]) = d
    BY <1>4, <1>12 DEF d, Started
  <2> QED BY <1>12, <2>1, <2>2, Zenon DEF GetRecords
<1>15. GetRecords(b) = Checked(p.imei, d, Get(t, 2), a)
  BY <1>4, <1>6, <1>8, <1>9, <1>13, <1>14, Zenon
<1> QED BY <1>5, <1>15 DEF a, b

(* A reader of the batch finds the positions as they were sent.           *)
Bare(s) == [f \in DOMAIN s \ {"p"} |-> s[f]]
IsPosition(s, r) == Bare(s) = Position(r)
(* Putting the params in keeps the position.                               *)
LEMMA WithoutParams ==
  ASSUME NEW r, NEW q
  PROVE  IsPosition(With(Position(r), "p", q), r)
<1> DEFINE o == Position(r)
           s == With(o, "p", q)
<1>1. "p" \notin DOMAIN o
  BY DEF Position
<1>2. o = [f \in DOMAIN o |-> o[f]]
  BY DEF Position
<1> HIDE DEF o
<1>3. DOMAIN s \ {"p"} = DOMAIN o /\ \A f \in DOMAIN o : s[f] = o[f]
  BY <1>1 DEF With
<1> HIDE DEF s
<1>4. [f \in DOMAIN s \ {"p"} |-> s[f]] = [f \in DOMAIN o |-> o[f]]
  BY <1>3
<1> QED BY <1>2, <1>4 DEF s, o, Bare, IsPosition

PositionsOf(records) == [k \in DOMAIN records |-> Bare(records[k])]
(* r is what the server should make of the packet p: the device's session, *)
(* one acknowledgement, the positions of all records, and the values of    *)
(* the last.                                                               *)
Understood(p, r) ==
  /\ r.session = [imei |-> p.imei] /\ r.reply = <<Ack>> /\ r.panic = FALSE
  /\ r.records = <<>> <=> Len(p.records) = 0
  /\ r.records # <<>> => /\ PositionsOf(r.records) = Content(p)
                         /\ Carries(p, r.records[Len(r.records)].p)

(* Whatever packet a device encodes, getRecords understands it.            *)
THEOREM WholeRead ==
  ASSUME NEW p, Valid(p)
  PROVE  Understood(p, GetRecords(Encode(p)))
<1> DEFINE a == DataOf(p)
           z == <<F(2, Crc(a))>>
           n == Len(p.records)
<1>1. a \in Buffer /\ F(2, Bytes(a)) \in Field /\ F(2, Crc(a)) \in Field /\ n \in Nat
  BY PacketForm DEF Valid, ValidRecords
<1>2. z \in Buffer /\ Bytes(z) = 2 /\ Get(z, 2) = Crc(a)
  <2> DEFINE f == F(2, Crc(a))
  <2>1. f \in Field /\ f.w = 2 /\ f.v = Crc(a)
    BY <1>1 DEF F
  <2> HIDE DEF f
  <2>2. <<f>> = <<f>> \o <<>> /\ <<f>> \in Buffer /\ <<>> \in Buffer
    BY <2>1, EmptyConcat DEF Buffer
  <2>3. Bytes(<<f>> \o <<>>) = f.w + Bytes(<<>>)
    BY <2>1, <2>2, BytesCons
  <2>4. Reads(f, <<>>)
    BY <2>1, <2>2, ReadAt, Zenon
  <2>5. Get(<<f>>, 2) = Crc(a)
    BY <2>1, <2>2, <2>4, Zenon DEF Reads
  <2>6. Bytes(<<f>>) = 2
    BY <2>1, <2>2, <2>3, BytesEmpty
  <2> QED BY <2>2, <2>5, <2>6 DEF f
<1>3. Encode(p) = Sent(p, z)
  <2> DEFINE f == F(2, Bytes(a))
  <2>1. Encode(p) = (<<f>> \o a) \o z
    BY PacketForm
  <2>2. f \in Field /\ a \in Buffer /\ z \in Buffer
    BY <1>1, <1>2
  <2>3. Sent(p, z) = <<f>> \o (a \o z)
    BY DEF Sent
  <2> HIDE DEF f, a, z
  <2>4. (<<f>> \o a) \o z = <<f>> \o (a \o z)
    BY <2>2, ConsConcat
  <2> QED BY <2>1, <2>3, <2>4, Zenon
<1>4. PICK c : DecodedTo(c, p.records, n, z) /\ GetRecords(Sent(p, z)) = Checked(p.imei, c, Crc(a), a)
  <2>1. \E c : /\ DecodedTo(c, p.records, n, z)
               /\ GetRecords(Sent(p, z)) = Checked(p.imei, c, Get(z, 2), DataOf(p))
    BY <1>2, BufferRead
  <2> QED BY <1>2, <2>1
<1> DEFINE R == [k \in DOMAIN c.records |-> With(c.records[k], "p", c.params)]
<1>5. GetRecords(Encode(p)) = Response([imei |-> p.imei], R, <<Ack>>)
  BY <1>3, <1>4 DEF Checked
<1>6. DOMAIN c.records = 1..n /\ \A k \in 1..n : c.records[k] = Position(p.records[k])
  <2>1. PositionsUpTo(c.records, p.records, n)
    BY <1>4 DEF DecodedTo
  <2>2. DOMAIN c.records = 1..Len(c.records)
    BY <2>1, LenProperties DEF PositionsUpTo
  <2> QED BY <2>1, <2>2 DEF PositionsUpTo
<1>7. DOMAIN R = 1..n /\ \A k \in 1..n : R[k] = With(Position(p.records[k]), "p", c.params)
  BY <1>6
<1> HIDE DEF R
<1>8. R = <<>> => n = 0
  <2> SUFFICES ASSUME R = <<>> PROVE n = 0
    OBVIOUS
  <2>1. DOMAIN R = {}
    OBVIOUS
  <2>2. 1 \notin 1..n
    BY <1>7, <2>1
  <2> QED BY <1>1, <2>2
<1>13. n = 0 => R = <<>>
  <2>1. R = [k \in DOMAIN R |-> R[k]]
    BY <1>6 DEF R
  <2>2. n = 0 => DOMAIN R = {}
    BY <1>7
  <2> QED BY <2>1, <2>2
<1>9. PositionsOf(R) = Content(p)
  <2>1. \A k \in 1..n : IsPosition(R[k], p.records[k])
    <3> TAKE k \in 1..n
    <3>1. R[k] = With(Position(p.records[k]), "p", c.params)
      BY <1>7
    <3>2. IsPosition(With(Position(p.records[k]), "p", c.params), p.records[k])
      BY WithoutParams, Zenon
    <3> QED BY <3>1, <3>2, Zenon
  <2>2. PositionsOf(R) = [k \in 1..n |-> Bare(R[k])]
    BY <1>7, Zenon DEF PositionsOf
  <2>3. Content(p) = [k \in 1..n |-> Position(p.records[k])]
    <3>1. DOMAIN p.records = 1..n
      BY DEF Valid, ValidRecords
    <3> QED BY <3>1, Zenon DEF Content
  <2> QED BY <2>1, <2>2, <2>3 DEF IsPosition
<1>10. R # <<>> => Carries(p, R[Len(R)].p)
  <2> SUFFICES ASSUME R # <<>> PROVE Carries(p, R[Len(R)].p)
    OBVIOUS
  <2>1. n # 0
    BY <1>13
  <2>2. R \in Seq({R[k] : k \in 1..n})
    <3>1. R = [k \in 1..n |-> R[k]]
      BY <1>6, <1>7 DEF R
    <3>2. R \in [1..n -> {R[k] : k \in 1..n}]
      BY <3>1
    <3> QED BY <1>1, <3>2, SeqDef
  <2>3. Len(R) = n
    <3>1. DOMAIN R = 1..Len(R) /\ Len(R) \in Nat
      BY <2>2, LenProperties
    <3> QED BY <1>1, <1>7, <3>1
  <2>4. R[n].p = c.params
    <3>1. n \in 1..n
      BY <1>1, <2>1
    <3>2. R[n] = With(Position(p.records[n]), "p", c.params)
      BY <1>7, <3>1
    <3> QED BY <3>2 DEF With
  <2>5. Holds(Stored(p.records[n]), c.params)
    BY <1>4, <2>1 DEF DecodedTo
  <2>6. Last(p.records) = p.records[n]
    BY DEF Last
  <2> QED BY <2>3, <2>4, <2>5, <2>6 DEF Carries, Holds, Matters, KeyOf
<1>11. GetRecords(Encode(p)).records = R /\ GetRecords(Encode(p)).session = [imei |-> p.imei]
  BY <1>5 DEF Response
<1>12. GetRecords(Encode(p)).reply = <<Ack>> /\ GetRecords(Encode(p)).panic = FALSE
  BY <1>5 DEF Response
<1> QED BY <1>8, <1>9, <1>10, <1>11, <1>12, <1>13, Zenon DEF Understood

-----------------------------------------------------------------------------
(* What has been cut off: nothing is read as zero.                         *)

(* What is left behind a part is not empty.                                *)
LEMMA BytesLeft ==
  ASSUME NEW b \in Buffer PROVE \A n \in Nat : n < Bytes(b) => Skip(b, n) # <<>>
<1> DEFINE P == {c \in Buffer : \A n \in Nat : n < Bytes(c) => Skip(c, n) # <<>>}
<1>1. <<>> \in P
  <2>1. <<>> \in Buffer /\ Bytes(<<>>) = 0
    BY BytesEmpty, EmptySeq DEF Buffer
  <2> QED BY <2>1
<1>2. ASSUME NEW x \in Field, NEW c \in Buffer, c \in P PROVE <<x>> \o c \in P
  <2>1. <<x>> \o c \in Buffer /\ x.w \in Nat \ {0} /\ Bytes(c) \in Nat /\ Bytes(<<x>> \o c) = x.w + Bytes(c)
    BY ConsFacts, FieldFacts, BytesIsNat, BytesCons
  <2>2. \A n \in Nat : n < Bytes(c) => Skip(c, n) # <<>>
    BY <1>2
  <2>3. \A e : <<e>> \o c # <<>>
    <3> TAKE e
    <3>1. c \in Seq(Field \cup {e}) /\ <<e>> \in Seq(Field \cup {e})
      BY DEF Buffer
    <3>2. Len(<<e>> \o c) = 1 + Len(c) /\ Len(c) \in Nat
      BY <3>1, ConcatProperties
    <3> QED BY <3>2
  <2> SUFFICES ASSUME NEW n \in Nat, n < x.w + Bytes(c) PROVE Skip(<<x>> \o c, n) # <<>>
    BY <2>1
  <2>4. n \in Int
    OBVIOUS
  <2>5. CASE n = 0
    <3>1. Skip(<<x>> \o c, n) = <<x>> \o c
      BY <2>4, <2>5, SkipCons
    <3> QED BY <2>3, <3>1, Zenon
  <2>6. CASE n # 0 /\ x.w <= n
    <3>1. Skip(<<x>> \o c, n) = Skip(c, n - x.w)
      BY <2>4, <2>6, SkipCons
    <3>2. n - x.w \in Nat /\ n - x.w < Bytes(c)
      BY <2>1, <2>6
    <3>3. Skip(c, n - x.w) # <<>>
      BY <2>2, <3>2, Zenon
    <3> QED BY <3>1, <3>3, Zenon
  <2>7. CASE n # 0 /\ ~(x.w <= n)
    <3>1. Skip(<<x>> \o c, n) = <<F(x.w - n, 0)>> \o c
      BY <2>4, <2>7, SkipCons
    <3> QED BY <2>3, <3>1, Zenon
  <2> QED BY <2>5, <2>6, <2>7
<1> HIDE DEF P
<1>3. Buffer \subseteq P
  BY <1>1, <1>2, SeqInduction DEF Buffer
<1> QED BY <1>3 DEF P

Whole(b) == Cut(b, Bytes(b)) = b /\ Skip(b, Bytes(b)) = <<>>
(* All bytes of a buffer are the buffer.                                   *)
LEMMA WholeAt == ASSUME NEW b \in Buffer PROVE Whole(b)
<1>1. b \o <<>> = b /\ <<>> \in Buffer
  BY EmptyConcat
<1>2. Splits(b, <<>>)
  BY <1>1, SplitAt, Zenon
<1> QED BY <1>1, <1>2, Zenon DEF Splits, Whole

(* Parse of no bytes gives zeros.                                          *)
Zero(v) == Append(v, 0)
Grows(v) ==
  /\ Zero(v) \in Seq(Int) /\ Len(Zero(v)) = Len(v) + 1
  /\ \A i \in 1..Len(v) : Zero(v)[i] = v[i]
  /\ Zero(v)[Len(v) + 1] = 0
LEMMA ZeroGrows == ASSUME NEW v \in Seq(Int) PROVE Grows(v)
BY AppendProperties DEF Grows, Zero

(* c has read no bytes, and the values v.                                  *)
ReadsZero(c, v) == c.rest = <<>> /\ c.values = v
(* One zero more.                                                          *)
LEMMA ParseZero ==
  ASSUME NEW c, NEW n \in Int, NEW v, ReadsZero(c, v) PROVE ReadsZero(ParseStep(c, n), Zero(v))
<1>1. Skip(<<>>, n) = <<>> /\ Get(<<>>, n) = 0
  BY EmptyParts DEF Get
<1> QED BY <1>1 DEF ParseStep, ReadsZero, Zero

LEMMA ParseNothing == Parse(<<>>, HeadWidths)[2] = 0
<1>1. Len(HeadWidths) = 4 /\ Len(HeadWidths) \in Nat
  BY DEF HeadWidths
<1>2. PICK g : ParseBy(<<>>, HeadWidths, g)
  BY <1>1, ParseFcn, Zenon
<1>3. HeadWidths[1] \in Int /\ HeadWidths[2] \in Int /\ HeadWidths[3] \in Int /\ HeadWidths[4] \in Int
  BY DEF HeadWidths
<1>4. ReadsZero(g[0], <<>>)
  BY <1>2 DEF ParseBy, ParseStart, ReadsZero
<1>5. /\ g[1] = ParseStep(g[0], HeadWidths[1]) /\ g[2] = ParseStep(g[1], HeadWidths[2])
      /\ g[3] = ParseStep(g[2], HeadWidths[3]) /\ g[4] = ParseStep(g[3], HeadWidths[4])
  BY <1>1, <1>2 DEF ParseBy
<1>6. ReadsZero(g[1], Zero(<<>>))
  BY <1>3, <1>4, <1>5, ParseZero, Zenon
<1>7. ReadsZero(g[2], Zero(Zero(<<>>)))
  BY <1>3, <1>5, <1>6, ParseZero, Zenon
<1>8. ReadsZero(g[3], Zero(Zero(Zero(<<>>))))
  BY <1>3, <1>5, <1>7, ParseZero, Zenon
<1>9. ReadsZero(g[4], Zero(Zero(Zero(Zero(<<>>)))))
  BY <1>3, <1>5, <1>8, ParseZero, Zenon
<1>10. PICK v1 : v1 = Zero(<<>>) /\ v1 \in Seq(Int) /\ Len(v1) = 1
  <2>1. <<>> \in Seq(Int) /\ Len(<<>>) = 0
    BY EmptySeq
  <2>2. Grows(<<>>)
    BY <2>1, ZeroGrows, Zenon
  <2> QED BY <2>1, <2>2 DEF Grows
<1>11. PICK v2 : v2 = Zero(v1) /\ v2 \in Seq(Int) /\ Len(v2) = 2 /\ v2[2] = 0
  <2>1. Grows(v1)
    BY <1>10, ZeroGrows, Zenon
  <2>2. /\ Zero(v1) \in Seq(Int) /\ Len(Zero(v1)) = Len(v1) + 1
        /\ Zero(v1)[Len(v1) + 1] = 0
    BY <2>1, Zenon DEF Grows
  <2>3. Len(v1) + 1 = 2
    <3>1. Len(v1) = 1
      BY <1>10, Zenon
    <3> QED BY <3>1
  <2>4. Zero(v1)[2] = 0 /\ Len(Zero(v1)) = 2
    BY <2>2, <2>3, Zenon
  <2> QED BY <2>2, <2>4, Zenon
<1>12. PICK v3 : v3 = Zero(v2) /\ v3 \in Seq(Int) /\ Len(v3) = 3 /\ v3[2] = 0
  <2>1. Grows(v2)
    BY <1>11, ZeroGrows, Zenon
  <2> QED BY <1>11, <2>1 DEF Grows
<1>13. Zero(v3)[2] = 0
  <2>1. Grows(v3)
    BY <1>12, ZeroGrows, Zenon
  <2> QED BY <1>12, <2>1 DEF Grows
<1>14. Parse(<<>>, HeadWidths) = g[4].values
  BY <1>1, <1>2 DEF ParseBy
<1>15. g[4].values = Zero(v3)
  BY <1>9, <1>10, <1>11, <1>12 DEF ReadsZero
<1> QED BY <1>13, <1>14, <1>15, Zenon

(* A piece of one byte is refused: it is no message of records.            *)
LEMMA NothingRead == GetRecords(<<F(1, 0)>>) = Refuse(Fresh)
<1> DEFINE f == F(1, 0)
<1>1. f \in Field /\ f.w = 1 /\ f.v = 0
  BY DEF F, Field
<1> HIDE DEF f
<1>2. <<f>> = <<f>> \o <<>> /\ <<>> \in Buffer /\ Bytes(<<>>) = 0
  BY EmptySeq, BytesEmpty DEF Buffer
<1>3. Skip(<<f>> \o <<>>, 2) = Skip(<<>>, 2 - f.w)
  <2>1. 2 \in Int /\ 2 # 0 /\ f.w <= 2
    BY <1>1
  <2> QED BY <1>1, <1>2, <2>1, SkipCons
<1>4. Skip(<<f>>, 2) = <<>>
  <2>1. 2 - f.w \in Int
    BY <1>1
  <2>2. Skip(<<>>, 2 - f.w) = <<>>
    BY <2>1, EmptyParts, Zenon
  <2> QED BY <1>2, <1>3, <2>2, Zenon
<1>5. Get(<<f>>, 2) = 0
  <2>1. Head(<<f>>) = f
    OBVIOUS
  <2> QED BY <1>1, <2>1 DEF Get
<1>6. Parse(<<>>, HeadWidths)[2] = 0
  BY ParseNothing
<1>7. ~TooLong(0, <<>>) /\ ~(0 > Bytes(<<>>))
  BY <1>2, Remainder DEF TooLong
<1>8. 0 \notin {Records, RecordsExt}
  BY DEF Records, RecordsExt
<1>9. Parse(Skip(<<f>>, 2), <<8, 1, 1, 1>>)[2] = 0
  BY <1>4, <1>6 DEF HeadWidths
<1>10. GetRecords(<<f>>) = Refuse(Fresh)
  BY <1>4, <1>5, <1>7, <1>8, <1>9, Zenon DEF GetRecords
<1> QED BY <1>10 DEF f

-----------------------------------------------------------------------------
(* A piece of a packet is refused.                                         *)

(* Parts of a field before a buffer, and of two buffers.                   *)
Parts(a, b, n) == Skip(a \o b, Bytes(a) + n) = Skip(b, n) /\ Cut(a \o b, Bytes(a) + n) = a \o Cut(b, n)
LEMMA PartsAt == ASSUME NEW a \in Buffer, NEW b \in Buffer, NEW n \in Nat PROVE Parts(a, b, n)
BY PartsConcat DEF Parts

CutsField(x, b, n) ==
  /\ n # 0 /\ x.w <= n => Cut(<<x>> \o b, n) = <<x>> \o Cut(b, n - x.w)
  /\ n # 0 /\ ~(x.w <= n) => Cut(<<x>> \o b, n) = <<F(n, 0)>>
LEMMA CutField == ASSUME NEW x \in Field, NEW b \in Buffer, NEW n \in Int PROVE CutsField(x, b, n)
BY CutCons DEF CutsField

PartIs(b, n) == Cut(b, n) \in Buffer /\ (n <= Bytes(b) => Bytes(Cut(b, n)) = n)
LEMMA PartAt == ASSUME NEW b \in Buffer, NEW n \in Nat PROVE PartIs(b, n)
<1>1. \A m \in Nat : /\ Skip(b, m) \in Buffer
                     /\ Cut(b, m) \in Buffer
                     /\ m <= Bytes(b) => Bytes(Cut(b, m)) = m
  BY PartFacts, Zenon
<1> QED BY <1>1, Zenon DEF PartIs

(* The CRC, and its first byte.                                            *)
LEMMA TailFacts ==
  ASSUME NEW v \in Int
  PROVE  LET z == <<F(2, v)>>
         IN  /\ z \in Buffer /\ Bytes(z) = 2
             /\ Cut(z, 0) = <<>> /\ Cut(z, 1) = <<F(1, 0)>>
<1> DEFINE f == F(2, v)
<1>1. f \in Field /\ f.w = 2
  BY DEF F, Field
<1> HIDE DEF f
<1>2. <<f>> = <<f>> \o <<>> /\ <<f>> \in Buffer /\ <<>> \in Buffer /\ Bytes(<<>>) = 0
  BY <1>1, EmptyConcat, BytesEmpty DEF Buffer
<1>3. Bytes(<<f>> \o <<>>) = f.w + Bytes(<<>>)
  BY <1>1, <1>2, BytesCons
<1>4. Cut(<<f>>, 0) = <<>>
  BY <1>2, SkipZero
<1>5. CutsField(f, <<>>, 1)
  BY <1>1, <1>2, CutField
<1>6. 1 # 0 /\ ~(f.w <= 1)
  BY <1>1
<1>7. Cut(<<f>> \o <<>>, 1) = <<F(1, 0)>>
  BY <1>5, <1>6, Zenon DEF CutsField
<1>8. Bytes(<<f>>) = 2
  BY <1>1, <1>2, <1>3
<1>9. Cut(<<f>>, 1) = <<F(1, 0)>>
  BY <1>2, <1>7, Zenon
<1> QED BY <1>2, <1>4, <1>8, <1>9, Zenon DEF f

(* A shorter message than its first field says is refused.                 *)
LEMMA ShortRefused ==
  ASSUME NEW f \in Field, f.w = 2, NEW y \in Buffer, Bytes(y) < f.v, Bytes(y) < 2^16
  PROVE  GetRecords(<<f>> \o y) = Refuse(Fresh)
<1> DEFINE b == <<f>> \o y
<1>1. Reads(f, y)
  BY ReadAt, Zenon
<1>2. Get(b, 2) = f.v /\ Skip(b, 2) = y
  BY <1>1, Zenon DEF Reads
<1>3. Bytes(y) \in Nat /\ f.v \in Int
  BY BytesIsNat, FieldFacts
<1>4. Bytes(y) % 2^16 = Bytes(y)
  BY <1>3, Remainder
<1>5. TooLong(f.v, y)
  BY <1>3, <1>4 DEF TooLong
<1> HIDE DEF b
<1>6. GetRecords(b) = Refuse(Fresh)
  BY <1>2, <1>5, Zenon DEF GetRecords
<1> QED BY <1>6 DEF b

(* A message without the end of its CRC is refused, as zero is read.       *)
LEMMA UncheckedRefused ==
  ASSUME NEW p, Valid(p), NEW t, t \in {<<>>, <<F(1, 0)>>}
  PROVE  GetRecords(Sent(p, t)) = Refuse(Fresh)
<1>1. t \in Buffer /\ Bytes(t) <= 2 /\ Get(t, 2) = 0
  <2>1. CASE t = <<>>
    BY <2>1, BytesEmpty, EmptySeq DEF Buffer, Get
  <2>2. CASE t = <<F(1, 0)>>
    <3> DEFINE f == F(1, 0)
    <3>1. f \in Field /\ f.w = 1
      BY DEF F, Field
    <3> HIDE DEF f
    <3>2. <<f>> = <<f>> \o <<>> /\ <<f>> \in Buffer /\ <<>> \in Buffer /\ Bytes(<<>>) = 0
      BY <3>1, EmptyConcat, BytesEmpty DEF Buffer
    <3>3. Bytes(<<f>> \o <<>>) = f.w + Bytes(<<>>)
      BY <3>1, <3>2, BytesCons
    <3>4. Bytes(<<f>>) <= 2
      BY <3>1, <3>2, <3>3
    <3>5. Get(<<f>>, 2) = 0
      <4>1. Head(<<f>>) = f
        OBVIOUS
      <4> QED BY <3>1, <4>1 DEF Get
    <3> QED BY <2>2, <3>2, <3>4, <3>5 DEF f
  <2> QED BY <2>1, <2>2
<1>2. \E c : /\ DecodedTo(c, p.records, Len(p.records), t)
             /\ GetRecords(Sent(p, t)) = Checked(p.imei, c, Get(t, 2), DataOf(p))
  BY <1>1, BufferRead
<1>3. 0 # Crc(DataOf(p))
  BY DEF Valid
<1> QED BY <1>1, <1>2, <1>3 DEF Checked

(* A message is a buffer, four bytes longer than what its CRC is of.       *)
LEMMA MessageForm ==
  ASSUME NEW p, Valid(p)
  PROVE  LET a == DataOf(p)
             z == <<F(2, Crc(a))>>
         IN  /\ Encode(p) = Sent(p, z) /\ Encode(p) \in Buffer
             /\ Bytes(Encode(p)) = Bytes(a) + 4 /\ z \in Buffer /\ a \o z \in Buffer
             /\ Bytes(a \o z) = Bytes(a) + 2
<1> DEFINE a == DataOf(p)
           z == <<F(2, Crc(a))>>
           f == F(2, Bytes(a))
<1>1. a \in Buffer /\ f \in Field /\ Bytes(a) \in Nat
  BY PacketForm
<1>2. Crc(a) \in Int
  BY <1>1, CrcIsInt
<1>3. z \in Buffer /\ Bytes(z) = 2
  BY <1>2, TailFacts
<1>4. Encode(p) = (<<f>> \o a) \o z
  BY PacketForm
<1>5. Sent(p, z) = <<f>> \o (a \o z)
  BY DEF Sent
<1>6. f.w = 2
  BY DEF F
<1> HIDE DEF f, a, z
<1>7. (<<f>> \o a) \o z = <<f>> \o (a \o z) /\ a \o z \in Buffer
  BY <1>1, <1>3, ConsConcat
<1>8. <<f>> \o (a \o z) \in Buffer
  BY <1>1, <1>7, ConsConcat
<1>9. Bytes(a \o z) = Bytes(a) + Bytes(z)
  BY <1>1, <1>3, BytesConcat
<1>10. Bytes(<<f>> \o (a \o z)) = f.w + Bytes(a \o z)
  BY <1>1, <1>7, BytesCons
<1>11. Bytes(Encode(p)) = Bytes(a) + 4 /\ Bytes(a \o z) = Bytes(a) + 2
  <2>1. Bytes(a \o z) = Bytes(a) + 2
    BY <1>3, <1>9, Zenon
  <2>2. Bytes(Encode(p)) = 2 + Bytes(a \o z)
    BY <1>4, <1>6, <1>7, <1>10, Zenon
  <2>3. 2 + (Bytes(a) + 2) = Bytes(a) + 4
    BY <1>1
  <2> QED BY <2>1, <2>2, <2>3, Zenon
<1> QED BY <1>3, <1>4, <1>5, <1>7, <1>8, <1>11 DEF a, z

(* Whatever packet a device encodes, and wherever TCP cuts it: getRecords  *)
(* refuses the piece.                                                      *)
THEOREM PieceRefused ==
  ASSUME NEW p, Valid(p), NEW n \in Nat, n # 0, n < Bytes(Encode(p))
  PROVE  GetRecords(Cut(Encode(p), n)) = Refuse(Fresh)
<1> DEFINE a == DataOf(p)
           z == <<F(2, Crc(a))>>
           f == F(2, Bytes(a))
           y == a \o z
<1>1. a \in Buffer /\ f \in Field /\ Bytes(a) \in Nat /\ Bytes(a) >= 11 /\ Crc(a) \in Int
  BY PacketForm, CrcIsInt
<1>2. f.w = 2 /\ f.v = Bytes(a)
  BY DEF F
<1>3. z \in Buffer /\ y \in Buffer /\ Bytes(y) = Bytes(a) + 2 /\ n < Bytes(a) + 4
  BY MessageForm
<1>4. Encode(p) = <<f>> \o y
  BY MessageForm DEF Sent
<1>5. Cut(z, 0) = <<>> /\ Cut(z, 1) = <<F(1, 0)>>
  BY <1>1, TailFacts
<1>6. Bytes(a) + 2 < 2^16
  BY DEF Valid
<1>7. ASSUME NEW t PROVE Sent(p, t) = <<f>> \o (a \o t)
  BY DEF Sent
<1> HIDE DEF f, z, y
<1>8. CutsField(f, y, n)
  BY <1>1, <1>3, CutField
<1>9. CASE n = 1
  <2>1. n # 0 /\ ~(f.w <= n)
    BY <1>2, <1>9
  <2>2. Cut(Encode(p), n) = <<F(1, 0)>>
    BY <1>4, <1>8, <1>9, <2>1, Zenon DEF CutsField
  <2> QED BY <2>2, NothingRead, Zenon
<1>10. CASE n # 1
  <2>1. n # 0 /\ f.w <= n /\ n - f.w \in Nat /\ n - f.w < Bytes(a) + 2
    BY <1>1, <1>2, <1>3, <1>10
  <2>2. Cut(Encode(p), n) = <<f>> \o Cut(y, n - f.w)
    BY <1>4, <1>8, <2>1, Zenon DEF CutsField
  <2> PICK m \in Nat : m = n - f.w
    BY <2>1
  <2>3. CASE m < Bytes(a)
    <3>1. PartIs(y, m)
      BY <1>3, PartAt, Zenon
    <3>2. Cut(y, m) \in Buffer /\ Bytes(Cut(y, m)) = m
      BY <1>1, <1>3, <2>3, <3>1 DEF PartIs
    <3>3. Bytes(Cut(y, m)) < f.v /\ Bytes(Cut(y, m)) < 2^16
      BY <1>1, <1>2, <1>6, <2>3, <3>2
    <3>4. GetRecords(<<f>> \o Cut(y, m)) = Refuse(Fresh)
      BY <1>1, <1>2, <3>2, <3>3, ShortRefused, Zenon
    <3> QED BY <2>2, <3>4
  <2>4. CASE m >= Bytes(a)
    <3>1. PICK k \in {0, 1} : m = Bytes(a) + k
      BY <1>1, <2>1, <2>4
    <3>2. k \in Nat
      OBVIOUS
    <3>3. Parts(a, z, k)
      BY <1>1, <1>3, <3>2, PartsAt, Zenon
    <3>4. Cut(y, m) = a \o Cut(z, k)
      BY <3>1, <3>3, Zenon DEF Parts, y
    <3>5. Cut(z, k) \in {<<>>, <<F(1, 0)>>}
      BY <1>5
    <3>6. GetRecords(Sent(p, Cut(z, k))) = Refuse(Fresh)
      BY <3>5, UncheckedRefused, Zenon
    <3>7. Sent(p, Cut(z, k)) = <<f>> \o (a \o Cut(z, k))
      BY <1>7
    <3> QED BY <2>2, <3>4, <3>6, <3>7
  <2> QED BY <1>1, <2>3, <2>4
<1> QED BY <1>9, <1>10

-----------------------------------------------------------------------------
(* The Link of a server that speaks Ruptela alone.                         *)

(* Ruptela.                                                                *)
Rup == "Ruptela"
ScriptOf == Scripts[Rup]
(* A Link that speaks Ruptela alone: its operators are those of Ruptela    *)
(* and Wire, its script has packets of the device, and nothing is logged   *)
(* in. How many packets, connections and records there are, what they hold *)
(* and where TCP cuts is left open.                                        *)
RuptelaLink ==
  /\ Protocols = {Rup}
  /\ MaxConns[Rup] \in Nat /\ Cuts[Rup] \subseteq Nat
  /\ Logins[Rup] = <<>> /\ FreshSession[Rup] = Fresh
  /\ AgreedSessions[Rup] = {Fresh, [imei |-> DeviceImei]}
  /\ DeviceImei \in Nat \ {Unknown}
  /\ \E S : ScriptOf \in Seq(S)
  /\ \A k \in 1..Len(ScriptOf) : Valid(ScriptOf[k]) /\ ScriptOf[k].imei = DeviceImei
  /\ \A p : EncodePacket(Rup, p) = Encode(p) /\ PacketRecords(Rup, p) = Content(p)
  /\ \A p, x : CarriesParams(Rup, p, x) = Carries(p, x) /\ AcceptsReply(Rup, p, x) = Accepted(p, x)
  /\ \A b : ByteLen(b) = Bytes(b)
  /\ \A b, n : FirstBytes(b, n) = Cut(b, n) /\ BytesAfter(b, n) = Skip(b, n)
  /\ \A b, s : HandleBuffer(Rup, b, s) = Handle(b, s)

(* The states of a connection. With the packet unread on the wire; read    *)
(* whole; or ended after a piece of it, with the rest on the wire. The     *)
(* device at rest has nothing on the wire.                                 *)
MessageAt(m) == Encode(ScriptOf[m])
Connected == [imei |-> DeviceImei]
Sessions == {Fresh, Connected}
StateAs(w, b, o, s, f) == [wire |-> w, back |-> b, open |-> o, session |-> s, safe |-> f]
Resting(s) == StateAs(<<>>, <<>>, TRUE, s, FALSE)
Unread(m, s) == StateAs(MessageAt(m), <<>>, TRUE, s, FALSE)
ReadWhole(m) == StateAs(<<>>, <<Ack>>, TRUE, Connected, Len(ScriptOf[m].records) # 0)
Ended(w) == StateAs(w, <<>>, FALSE, Fresh, FALSE)
RestsOf(m) == {Skip(MessageAt(m), n) : n \in {k \in Nat : k # 0 /\ k < Bytes(MessageAt(m))}}
IdleSet == {Resting(s) : s \in Sessions}
AfterSet(m) == {Unread(m, s) : s \in Sessions} \cup {ReadWhole(m)} \cup {Ended(w) : w \in RestsOf(m)}

(* What these constants make of a Link.                                    *)
LEMMA LinkFacts ==
  ASSUME RuptelaLink
  PROVE  /\ Len(Logins[Rup]) = 0 /\ Len(ScriptOf) \in Nat /\ DOMAIN ScriptOf = 1..Len(ScriptOf)
         /\ Stages(Rup) = 1..Len(ScriptOf)
         /\ Messages[Rup] = [k \in 1..Len(ScriptOf) |-> MessageAt(k)]
         /\ Contents[Rup] = [k \in 1..Len(ScriptOf) |-> Content(ScriptOf[k])]
<1>1. Len(Logins[Rup]) = 0
  BY DEF RuptelaLink
<1>2. PICK S : ScriptOf \in Seq(S)
  BY DEF RuptelaLink
<1>3. Len(ScriptOf) \in Nat /\ DOMAIN ScriptOf = 1..Len(ScriptOf)
  BY <1>2, LenProperties
<1>4. Stages(Rup) = 1..Len(ScriptOf)
  BY <1>1, <1>3 DEF Stages, ScriptOf
<1>5. Rup \in Protocols
  BY DEF RuptelaLink
<1>6. Messages[Rup] = [k \in DOMAIN ScriptOf |-> EncodePacket(Rup, ScriptOf[k])]
  BY <1>5 DEF Messages, ScriptOf
<1>7. Contents[Rup] = [k \in DOMAIN ScriptOf |-> PacketRecords(Rup, ScriptOf[k])]
  BY <1>5 DEF Contents, ScriptOf
<1>8. \A k \in DOMAIN ScriptOf : EncodePacket(Rup, ScriptOf[k]) = MessageAt(k) /\ PacketRecords(Rup, ScriptOf[k]) = Content(ScriptOf[k])
  BY DEF RuptelaLink, MessageAt
<1>9. Messages[Rup] = [k \in 1..Len(ScriptOf) |-> MessageAt(k)]
  BY <1>3, <1>6, <1>8
<1>10. Contents[Rup] = [k \in 1..Len(ScriptOf) |-> Content(ScriptOf[k])]
  BY <1>3, <1>7, <1>8
<1> QED BY <1>1, <1>3, <1>4, <1>9, <1>10

(* The message m is that of the packet m.                                  *)
LEMMA StageFacts ==
  ASSUME RuptelaLink, NEW m \in Stages(Rup)
  PROVE  /\ m \in 1..Len(ScriptOf) /\ ~IsLogin(Rup, m) /\ PacketOf(Rup, m) = m /\ Awaited(Rup, m)
         /\ Before(Rup, m) = 0 /\ Behind(Rup, m) = 0 /\ TheMessage(Rup, m) = MessageAt(m)
         /\ Contents[Rup][m] = Content(ScriptOf[m]) /\ Messages[Rup][m] = MessageAt(m)
         /\ Valid(ScriptOf[m]) /\ ScriptOf[m].imei = DeviceImei
<1>1. m \in 1..Len(ScriptOf) /\ m \in Nat /\ m # 0 /\ Len(Logins[Rup]) = 0
  BY LinkFacts
<1>2. ~IsLogin(Rup, m) /\ PacketOf(Rup, m) = m
  BY <1>1 DEF IsLogin, PacketOf
<1>3. Awaited(Rup, m) /\ Before(Rup, m) = 0 /\ Behind(Rup, m) = 0
  BY <1>1, <1>2 DEF Awaited, Before, Behind
<1>4. Messages[Rup][m] = MessageAt(m) /\ Contents[Rup][m] = Content(ScriptOf[m])
  BY <1>1, LinkFacts
<1>5. TheMessage(Rup, m) = MessageAt(m)
  BY <1>2, <1>4 DEF TheMessage
<1>6. Valid(ScriptOf[m]) /\ ScriptOf[m].imei = DeviceImei
  BY <1>1 DEF RuptelaLink
<1> QED BY <1>1, <1>2, <1>3, <1>4, <1>5, <1>6

(* And is not empty.                                                       *)
LEMMA MessageFacts ==
  ASSUME RuptelaLink, NEW m \in Stages(Rup)
  PROVE  /\ MessageAt(m) \in Buffer /\ MessageAt(m) # <<>>
         /\ Bytes(MessageAt(m)) \in Nat /\ Bytes(MessageAt(m)) # 0
<1>1. Valid(ScriptOf[m])
  BY StageFacts
<1>2. MessageAt(m) \in Buffer /\ Bytes(MessageAt(m)) = Bytes(DataOf(ScriptOf[m])) + 4
  BY <1>1, MessageForm DEF MessageAt
<1>3. Bytes(DataOf(ScriptOf[m])) \in Nat
  BY <1>1, PacketForm
<1>4. Bytes(MessageAt(m)) \in Nat /\ Bytes(MessageAt(m)) # 0
  BY <1>2, <1>3
<1> QED BY <1>2, <1>4, BytesEmpty

(* A server that has nothing to read stays as it is.                       *)
LEMMA IdleKept == ASSUME RuptelaLink PROVE KeptIdle(Rup, IdleSet)
<1> SUFFICES ASSUME NEW s \in Sessions
             PROVE  /\ ByteLen(Resting(s).wire) \in Nat
                    /\ \A n \in Portions(Rup, Resting(s)) :
                         ReadsIdle(Rup, IdleSet, Resting(s), n, Result(Rup, Resting(s), n))
  BY Zenon DEF KeptIdle, IdleSet
<1>1. Resting(s).wire = <<>>
  BY DEF Resting, StateAs
<1>2. ByteLen(<<>>) = 0
  BY BytesEmpty DEF RuptelaLink
<1>3. Cuts[Rup] \subseteq Nat
  BY DEF RuptelaLink
<1>4. Portions(Rup, Resting(s)) = {}
  BY <1>1, <1>2, <1>3 DEF Portions
<1> QED BY <1>1, <1>2, <1>4

(* The device sends the next packet.                                       *)
LEMMA SendingKept ==
  ASSUME RuptelaLink, NEW m \in Stages(Rup) PROVE KeptSending(Rup, m, IdleSet, AfterSet(m))
<1> SUFFICES ASSUME NEW s \in Sessions
             PROVE  /\ Sending(Rup, m, Resting(s)) \in AfterSet(m)
                    /\ ByteLen(Resting(s).wire) <= ByteLen(Sending(Rup, m, Resting(s)).wire)
  BY Zenon DEF KeptSending, IdleSet
<1>1. <<>> \o MessageAt(m) = MessageAt(m)
  BY MessageFacts, EmptyConcat
<1>2. TheMessage(Rup, m) = MessageAt(m)
  BY StageFacts
<1>3. Sending(Rup, m, Resting(s)) = Unread(m, s)
  BY <1>1, <1>2 DEF Sending, Resting, Unread, StateAs
<1>4. Unread(m, s).wire = MessageAt(m) /\ Resting(s).wire = <<>>
  BY DEF Unread, Resting, StateAs
<1>5. ByteLen(<<>>) = 0 /\ ByteLen(MessageAt(m)) \in Nat
  BY MessageFacts, BytesEmpty DEF RuptelaLink
<1> QED BY <1>3, <1>4, <1>5 DEF AfterSet

(* A session that goes on is that of the device, or has not begun.         *)
LEMMA SessionsKept ==
  ASSUME RuptelaLink
  PROVE  KeptSession(Rup, IdleSet) /\ \A m \in Stages(Rup) : KeptSession(Rup, AfterSet(m))
<1>1. AgreedSessions[Rup] = Sessions /\ Connected \in Sessions
  BY DEF RuptelaLink, Sessions, Connected
<1>2. \A s : Resting(s).session = s
  BY DEF Resting, StateAs
<1>3. \A m, s : Unread(m, s).session = s
  BY DEF Unread, StateAs
<1>4. \A m : ReadWhole(m).session = Connected
  BY DEF ReadWhole, StateAs
<1>5. \A w : Ended(w).open = FALSE
  BY DEF Ended, StateAs
<1>6. KeptSession(Rup, IdleSet)
  BY <1>1, <1>2 DEF KeptSession, IdleSet
<1>7. ASSUME NEW m \in Stages(Rup) PROVE KeptSession(Rup, AfterSet(m))
  <2> SUFFICES ASSUME NEW x \in AfterSet(m), x.open PROVE x.session \in Sessions
    BY <1>1 DEF KeptSession
  <2>1. CASE \E s \in Sessions : x = Unread(m, s)
    BY <1>3, <2>1
  <2>2. CASE x = ReadWhole(m)
    BY <1>1, <1>4, <2>2
  <2>3. CASE \E w \in RestsOf(m) : x = Ended(w)
    BY <1>5, <2>3
  <2> QED BY <2>1, <2>2, <2>3 DEF AfterSet
<1> QED BY <1>6, <1>7

-----------------------------------------------------------------------------
(* What becomes of the packet that is on the wire.                         *)

(* What these states have.                                                 *)
LEMMA Fields ==
  /\ \A m, s : /\ Unread(m, s).wire = MessageAt(m) /\ Unread(m, s).back = <<>> /\ Unread(m, s).open = TRUE
               /\ Unread(m, s).session = s /\ Unread(m, s).safe = FALSE
  /\ \A m : /\ ReadWhole(m).wire = <<>> /\ ReadWhole(m).back = <<Ack>> /\ ReadWhole(m).open = TRUE
            /\ ReadWhole(m).session = Connected /\ ReadWhole(m).safe = (Len(ScriptOf[m].records) # 0)
  /\ \A w : /\ Ended(w).wire = w /\ Ended(w).back = <<>> /\ Ended(w).open = FALSE
            /\ Ended(w).session = Fresh /\ Ended(w).safe = FALSE
BY DEF Unread, ReadWhole, Ended, StateAs

(* And what Refuse gives.                                                  *)
LEMMA Refused ==
  ASSUME RuptelaLink
  PROVE  LET r == Refuse(Fresh)
         IN  /\ r.session = Fresh /\ r.records = <<>> /\ r.reply = <<>> /\ r.panic = FALSE
             /\ r.session.imei # DeviceImei /\ ~Saves(r)
<1>1. DeviceImei # Fresh.imei
  BY DEF RuptelaLink, Fresh
<1>2. /\ Refuse(Fresh).session = Fresh /\ Refuse(Fresh).records = <<>>
      /\ Refuse(Fresh).reply = <<>> /\ Refuse(Fresh).panic = FALSE
  BY DEF Refuse, Response
<1> QED BY <1>1, <1>2 DEF Saves

(* A piece is read: the session ends.                                      *)
LEMMA ReadsPiece ==
  ASSUME RuptelaLink, NEW m \in Stages(Rup), NEW s \in Sessions, NEW n \in Nat, n # 0,
         n < Bytes(MessageAt(m))
  PROVE  ReadsWaiting(Rup, m, AfterSet(m), Unread(m, s), n, Refuse(Fresh))
<1> DEFINE r == Refuse(Fresh)
           x == Unread(m, s)
           w == Skip(MessageAt(m), n)
<1>1. BytesAfter(x.wire, n) = w
  BY Fields DEF RuptelaLink
<1>2. w # <<>> /\ w \in RestsOf(m)
  <2>1. \A k \in Nat : k < Bytes(MessageAt(m)) => Skip(MessageAt(m), k) # <<>>
    BY MessageFacts, BytesLeft, Zenon
  <2> QED BY <2>1 DEF RestsOf
<1>3. /\ r.session = Fresh /\ r.records = <<>> /\ r.reply = <<>> /\ r.panic = FALSE
      /\ r.session.imei # DeviceImei /\ ~Saves(r)
  BY Refused
<1>4. x.back = <<>> /\ x.safe = FALSE
  BY Fields
<1>5. <<>> \o <<>> = <<>>
  OBVIOUS
<1> HIDE DEF r, x, w
<1>6. Reading(x, n, r) = Ended(w)
  BY <1>1, <1>3, <1>4, <1>5 DEF Reading, Ended, StateAs
<1>7. Reading(x, n, r) \in AfterSet(m)
  BY <1>2, <1>6 DEF AfterSet
<1>8. Answers(Rup, x, n, r)
  BY <1>1, <1>2 DEF Answers, WholePacket
<1>9. EndsPiece(Rup, x, n, r)
  BY <1>3 DEF EndsPiece
<1> QED BY <1>3, <1>7, <1>8, <1>9 DEF ReadsWaiting, r, x

(* The whole packet is read: it is saved and acknowledged.                 *)
LEMMA ReadsPacket ==
  ASSUME RuptelaLink, NEW m \in Stages(Rup), NEW s \in Sessions, NEW r, Understood(ScriptOf[m], r)
  PROVE  ReadsWaiting(Rup, m, AfterSet(m), Unread(m, s), Bytes(MessageAt(m)), r)
<1> DEFINE x == Unread(m, s)
           n == Bytes(MessageAt(m))
           p == ScriptOf[m]
<1>0. ~IsLogin(Rup, m) /\ PacketOf(Rup, m) = m /\ p.imei = DeviceImei /\ Contents[Rup][m] = Content(p)
  BY StageFacts
<1>1. r.session = Connected /\ r.session.imei = DeviceImei /\ r.reply = <<Ack>> /\ r.panic = FALSE
  BY <1>0 DEF Understood, Connected
<1>2. BytesAfter(x.wire, n) = <<>>
  <2>1. Whole(MessageAt(m))
    BY MessageFacts, WholeAt, Zenon
  <2>2. BytesAfter(x.wire, n) = Skip(MessageAt(m), n)
    BY Fields DEF RuptelaLink
  <2> QED BY <2>1, <2>2 DEF Whole
<1>3. Saves(r) <=> Len(p.records) # 0
  BY <1>1 DEF Saves, Understood
<1>4. x.back = <<>> /\ x.safe = FALSE
  BY Fields
<1>5. <<>> \o <<Ack>> = <<Ack>>
  <2>1. <<Ack>> \in Seq({Ack})
    OBVIOUS
  <2> QED BY <2>1, ConcatEmptySeq
<1> HIDE DEF x, n
<1>6. Reading(x, n, r) = ReadWhole(m)
  <2>1. (IF Saves(r) THEN TRUE ELSE x.safe) = (Len(ScriptOf[m].records) # 0)
    BY <1>3, <1>4
  <2>2. (r.session.imei = DeviceImei) = TRUE
    BY <1>1
  <2> QED BY <1>1, <1>2, <1>4, <1>5, <2>1, <2>2 DEF Reading, ReadWhole, StateAs
<1>7. Reading(x, n, r) \in AfterSet(m)
  BY <1>6 DEF AfterSet
<1>8. Answers(Rup, x, n, r)
  <2>1. \A q : AcceptsReply(Rup, q, Ack)
    BY DEF RuptelaLink, Accepted
  <2>2. r.reply # <<>> /\ Head(r.reply) = Ack /\ r.reply = <<Head(r.reply)>>
    BY <1>1
  <2> QED BY <2>1, <2>2 DEF Answers
<1>9. EndsPiece(Rup, x, n, r)
  BY <1>1, <1>2 DEF EndsPiece
<1>10. Saves(r) => IsPacketOf(Rup, [imei |-> DeviceImei, records |-> r.records], m)
  <2> SUFFICES ASSUME Saves(r) PROVE IsPacketOf(Rup, [imei |-> DeviceImei, records |-> r.records], m)
    OBVIOUS
  <2>1. PositionsOf(r.records) = Content(p) /\ Carries(p, r.records[Len(r.records)].p)
    BY DEF Saves, Understood
  <2>2. Positions(r.records) = PositionsOf(r.records)
    BY Zenon DEF Positions, PositionsOf, Bare
  <2>3. CarriesParams(Rup, p, r.records[Len(r.records)].p)
    BY <2>1 DEF RuptelaLink
  <2> DEFINE b == [imei |-> DeviceImei, records |-> r.records]
  <2>4. b.imei = DeviceImei /\ b.records = r.records
    OBVIOUS
  <2> HIDE DEF b
  <2>5. IsPacketOf(Rup, b, m)
    BY <1>0, <2>1, <2>2, <2>3, <2>4, Zenon DEF IsPacketOf, ScriptOf
  <2> QED BY <2>5 DEF b
<1> QED BY <1>0, <1>7, <1>8, <1>9, <1>10, Zenon DEF ReadsWaiting, x, n

(* There is no third possibility.                                          *)
LEMMA ReadsUnread ==
  ASSUME RuptelaLink, NEW m \in Stages(Rup), NEW s \in Sessions, NEW n \in Portions(Rup, Unread(m, s))
  PROVE  ReadsWaiting(Rup, m, AfterSet(m), Unread(m, s), n, Result(Rup, Unread(m, s), n))
<1> DEFINE b == MessageAt(m)
<1>1. Unread(m, s).wire = b /\ Unread(m, s).session = s
  BY Fields
<1>2. b \in Buffer /\ Bytes(b) \in Nat
  BY MessageFacts
<1>3. ByteLen(b) = Bytes(b) /\ Cuts[Rup] \subseteq Nat
  BY DEF RuptelaLink
<1>4. n \in Nat /\ n # 0 /\ n <= Bytes(b)
  BY <1>1, <1>2, <1>3 DEF Portions
<1>5. Result(Rup, Unread(m, s), n) = GetRecords(Cut(b, n))
  BY <1>1 DEF Result, RuptelaLink, Handle
<1>6. Valid(ScriptOf[m]) /\ b = Encode(ScriptOf[m])
  BY StageFacts DEF MessageAt
<1>7. CASE n < Bytes(b)
  <2>1. GetRecords(Cut(Encode(ScriptOf[m]), n)) = Refuse(Fresh)
    BY <1>4, <1>6, <1>7, PieceRefused
  <2>2. Result(Rup, Unread(m, s), n) = Refuse(Fresh)
    BY <1>5, <1>6, <2>1, Zenon
  <2> QED BY <1>4, <1>7, <2>2, ReadsPiece
<1>8. CASE n = Bytes(b)
  <2>1. Whole(b)
    BY <1>2, WholeAt, Zenon
  <2>2. Result(Rup, Unread(m, s), n) = GetRecords(Encode(ScriptOf[m]))
    BY <1>5, <1>6, <1>8, <2>1, Zenon DEF Whole
  <2>3. Understood(ScriptOf[m], Result(Rup, Unread(m, s), n))
    BY <1>6, <2>2, WholeRead, Zenon
  <2> QED BY <1>8, <2>3, ReadsPacket, Zenon
<1> QED BY <1>2, <1>4, <1>7, <1>8

-----------------------------------------------------------------------------
(* The contract, and what follows from it.                                 *)

(* What the contract wants of a state while the device waits.              *)
Waits(m, x) ==
  /\ ByteLen(x.wire) \in Nat
  /\ \A n \in Portions(Rup, x) : ReadsWaiting(Rup, m, AfterSet(m), x, n, Result(Rup, x, n))
  /\ x.back # <<>> /\ ~Takes(Rup, m, x) => Receiving(x, x.safe) \in AfterSet(m)
  /\ Takes(Rup, m, x) =>
       /\ Receiving(x, FALSE) \in IdleSet
       /\ IsLogin(Rup, m) \/ Contents[Rup][PacketOf(Rup, m)] = <<>> \/ x.safe

(* It holds of all three.                                                  *)
LEMMA UnreadWaits ==
  ASSUME RuptelaLink, NEW m \in Stages(Rup), NEW s \in Sessions PROVE Waits(m, Unread(m, s))
<1> DEFINE x == Unread(m, s)
<1>1. x.wire = MessageAt(m) /\ x.back = <<>>
  BY Fields
<1>2. ByteLen(x.wire) \in Nat
  BY <1>1, MessageFacts DEF RuptelaLink
<1>3. \A n \in Portions(Rup, x) : ReadsWaiting(Rup, m, AfterSet(m), x, n, Result(Rup, x, n))
  BY ReadsUnread
<1>4. ~Takes(Rup, m, x)
  BY <1>1 DEF Takes
<1> HIDE DEF x
<1>5. Waits(m, x)
  BY <1>1, <1>2, <1>3, <1>4 DEF Waits
<1> QED BY <1>5 DEF x

LEMMA WholeWaits ==
  ASSUME RuptelaLink, NEW m \in Stages(Rup) PROVE Waits(m, ReadWhole(m))
<1> DEFINE x == ReadWhole(m)
           p == ScriptOf[m]
<1>1. /\ x.wire = <<>> /\ x.back = <<Ack>> /\ x.open = TRUE /\ x.session = Connected
      /\ x.safe = (Len(p.records) # 0)
  BY Fields
<1>2. ByteLen(<<>>) = 0 /\ Cuts[Rup] \subseteq Nat
  BY BytesEmpty DEF RuptelaLink
<1>3. Valid(p) /\ Contents[Rup][PacketOf(Rup, m)] = Content(p) /\ ~IsLogin(Rup, m)
      /\ PacketOf(Rup, m) = m
  BY StageFacts
<1>4. <<Ack>> # <<>> /\ Head(<<Ack>>) = Ack /\ Tail(<<Ack>>) = <<>>
  OBVIOUS
<1>5. AcceptsReply(Rup, Scripts[Rup][m], Ack)
  BY DEF RuptelaLink, Accepted
<1>6. Len(p.records) # 0 \/ Content(p) = <<>>
  <2> SUFFICES ASSUME Len(p.records) = 0 PROVE Content(p) = <<>>
    OBVIOUS
  <2>1. DOMAIN p.records = 1..Len(p.records)
    BY <1>3 DEF Valid, ValidRecords
  <2>2. DOMAIN p.records = {}
    BY <2>1
  <2> QED BY <2>2 DEF Content
<1> HIDE DEF x, p
<1>7. Portions(Rup, x) = {}
  BY <1>1, <1>2 DEF Portions
<1>8. Takes(Rup, m, x)
  BY <1>1, <1>3, <1>4, <1>5, Zenon DEF Takes
<1>9. Receiving(x, FALSE) = Resting(Connected)
  BY <1>1, <1>4 DEF Receiving, Resting, StateAs
<1>10. Receiving(x, FALSE) \in IdleSet
  BY <1>9 DEF IdleSet, Sessions
<1>11. Contents[Rup][PacketOf(Rup, m)] = <<>> \/ x.safe
  BY <1>1, <1>3, <1>6
<1>12. ByteLen(x.wire) \in Nat
  BY <1>1, <1>2
<1>13. \A n \in Portions(Rup, x) : ReadsWaiting(Rup, m, AfterSet(m), x, n, Result(Rup, x, n))
  BY <1>7
<1>14. Waits(m, x)
  BY <1>8, <1>10, <1>11, <1>12, <1>13, Zenon DEF Waits
<1> QED BY <1>14 DEF x

LEMMA EndedWaits ==
  ASSUME RuptelaLink, NEW m \in Stages(Rup), NEW w \in RestsOf(m) PROVE Waits(m, Ended(w))
<1> DEFINE x == Ended(w)
<1>1. x.wire = w /\ x.back = <<>> /\ x.open = FALSE
  BY Fields
<1>2. ByteLen(w) \in Nat
  <2>1. PICK n \in Nat : w = Skip(MessageAt(m), n)
    BY DEF RestsOf
  <2>2. MessageAt(m) \in Buffer
    BY MessageFacts
  <2>3. w \in Buffer
    BY <2>1, <2>2, PartFacts
  <2> QED BY <2>3, BytesIsNat DEF RuptelaLink
<1> HIDE DEF x
<1>3. Portions(Rup, x) = {}
  BY <1>1 DEF Portions
<1>4. ~Takes(Rup, m, x)
  BY <1>1 DEF Takes
<1>5. Waits(m, x)
  BY <1>1, <1>2, <1>3, <1>4 DEF Waits
<1> QED BY <1>5 DEF x

LEMMA WaitingKept ==
  ASSUME RuptelaLink, NEW m \in Stages(Rup) PROVE KeptWaiting(Rup, m, AfterSet(m), IdleSet)
<1> SUFFICES ASSUME NEW x \in AfterSet(m) PROVE Waits(m, x)
  BY Zenon DEF KeptWaiting, Waits
<1>1. CASE \E s \in Sessions : x = Unread(m, s)
  BY <1>1, UnreadWaits
<1>2. CASE x = ReadWhole(m)
  BY <1>2, WholeWaits
<1>3. CASE \E w \in RestsOf(m) : x = Ended(w)
  BY <1>3, EndedWaits
<1> QED BY <1>1, <1>2, <1>3 DEF AfterSet

(* The sets of states for the contract.                                    *)
AfterSets == [p \in Protocols |-> [m \in Stages(p) |-> AfterSet(m)]]
IdleSets == [p \in Protocols |-> [t \in 0..Len(Logins[p]) |-> IdleSet]]

LEMMA SetsAt ==
  ASSUME RuptelaLink
  PROVE  /\ 0..Len(Logins[Rup]) = {0}
         /\ IdleSets[Rup][0] = IdleSet
         /\ \A m \in Stages(Rup) : AfterSets[Rup][m] = AfterSet(m)
<1>1. Rup \in Protocols
  BY DEF RuptelaLink
<1>2. 0..Len(Logins[Rup]) = {0}
  BY LinkFacts
<1>3. IdleSets[Rup] = [t \in 0..Len(Logins[Rup]) |-> IdleSet]
  BY <1>1 DEF IdleSets
<1>4. AfterSets[Rup] = [m \in Stages(Rup) |-> AfterSet(m)]
  BY <1>1 DEF AfterSets
<1> QED BY <1>2, <1>3, <1>4

(* With them Ruptela keeps it.                                             *)
LEMMA RuptelaKept == ASSUME RuptelaLink PROVE Kept(Rup, AfterSets[Rup], IdleSets[Rup])
<1>1. /\ 0..Len(Logins[Rup]) = {0} /\ Len(Logins[Rup]) = 0
      /\ IdleSets[Rup][0] = IdleSet
      /\ \A m \in Stages(Rup) : AfterSets[Rup][m] = AfterSet(m)
  BY SetsAt, LinkFacts
<1>2. Start(Rup) \in IdleSet
  <2>1. FreshSession[Rup] = Fresh
    BY DEF RuptelaLink
  <2>2. Start(Rup) = Resting(Fresh)
    BY <2>1 DEF Start, Resting, StateAs
  <2> QED BY <2>2 DEF IdleSet, Sessions
<1>3. ASSUME NEW m \in Stages(Rup)
      PROVE  /\ Awaited(Rup, m) /\ Before(Rup, m) = 0 /\ Behind(Rup, m) = 0
             /\ KeptSending(Rup, m, IdleSet, AfterSet(m)) /\ KeptWaiting(Rup, m, AfterSet(m), IdleSet)
             /\ KeptSession(Rup, AfterSet(m))
  BY StageFacts, SendingKept, WaitingKept, SessionsKept
<1>4. KeptIdle(Rup, IdleSet) /\ KeptSession(Rup, IdleSet)
  BY IdleKept, SessionsKept
<1> QED BY <1>1, <1>2, <1>3, <1>4 DEF Kept

(* Replies are acknowledgements.                                           *)
LEMMA BacksAre ==
  ASSUME RuptelaLink
  PROVE  /\ \A x \in IdleSet : x.back \in Seq({Ack})
         /\ \A m \in Stages(Rup) : \A x \in AfterSet(m) : x.back \in Seq({Ack})
<1>1. <<>> \in Seq({Ack}) /\ <<Ack>> \in Seq({Ack})
  OBVIOUS
<1>2. \A s : Resting(s).back = <<>>
  BY DEF Resting, StateAs
<1>3. \A x \in IdleSet : x.back \in Seq({Ack})
  BY <1>1, <1>2 DEF IdleSet
<1>4. ASSUME NEW m \in Stages(Rup), NEW x \in AfterSet(m) PROVE x.back = <<>> \/ x.back = <<Ack>>
  <2>1. CASE \E s \in Sessions : x = Unread(m, s)
    BY <2>1, Fields
  <2>2. CASE x = ReadWhole(m)
    BY <2>2, Fields
  <2>3. CASE \E w \in RestsOf(m) : x = Ended(w)
    BY <2>3, Fields
  <2> QED BY <2>1, <2>2, <2>3 DEF AfterSet
<1> QED BY <1>1, <1>3, <1>4

(* The contract, for every script, number of connections and way to cut    *)
(* the streams.                                                            *)
THEOREM RuptelaKeeps == ASSUME RuptelaLink PROVE Contract
<1>1. ByteLen(<<>>) = 0
  BY BytesEmpty DEF RuptelaLink
<1>2. MaxConns[Rup] \in Nat /\ Cuts[Rup] \subseteq Nat
  BY DEF RuptelaLink
<1>3. Len(Logins[Rup]) \in Nat
  BY LinkFacts
<1>4. \E S : Scripts[Rup] \in Seq(S)
  BY DEF RuptelaLink, ScriptOf
<1>5. Kept(Rup, AfterSets[Rup], IdleSets[Rup])
  BY RuptelaKept
<1>6. ASSUME NEW m \in Stages(Rup) PROVE \E S : TheMessage(Rup, m) \in Seq(S) \ {<<>>}
  <2>1. TheMessage(Rup, m) = MessageAt(m) /\ MessageAt(m) \in Buffer /\ MessageAt(m) # <<>>
    BY StageFacts, MessageFacts
  <2>2. TheMessage(Rup, m) \in Seq(Field) \ {<<>>}
    BY <2>1 DEF Buffer
  <2> QED BY <2>2
<1>7. \A m \in Stages(Rup) : \A x \in AfterSets[Rup][m] : \E S : x.back \in Seq(S)
  BY SetsAt, BacksAre
<1>8. \A t \in 0..Len(Logins[Rup]) : \A x \in IdleSets[Rup][t] : \E S : x.back \in Seq(S)
  BY SetsAt, BacksAre
<1>9. Terms(AfterSets, IdleSets)
  <2> SUFFICES ASSUME NEW p \in Protocols
               PROVE  /\ MaxConns[p] \in Nat /\ Cuts[p] \subseteq Nat
                      /\ Len(Logins[p]) \in Nat /\ \E S : Scripts[p] \in Seq(S)
                      /\ Kept(p, AfterSets[p], IdleSets[p])
                      /\ \A m \in Stages(p) : \E S : TheMessage(p, m) \in Seq(S) \ {<<>>}
                      /\ \A m \in Stages(p) : \A x \in AfterSets[p][m] : \E S : x.back \in Seq(S)
                      /\ \A t \in 0..Len(Logins[p]) : \A x \in IdleSets[p][t] : \E S : x.back \in Seq(S)
    BY <1>1, Zenon DEF Terms
  <2>1. p = Rup
    BY DEF RuptelaLink
  <2> QED BY <1>2, <1>3, <1>4, <1>5, <1>6, <1>7, <1>8, <2>1, Zenon
<1> QED BY <1>9, Zenon DEF Contract

(* A packet whose acknowledgement a Ruptela device has taken is saved,     *)
(* with all its records and the values of the last.                        *)
THEOREM RuptelaAckedSaved == ASSUME RuptelaLink PROVE Spec => []AckedIsSaved
BY RuptelaKeeps, AckedSaved
(* What a Ruptela server saves, a device has sent, whole.                  *)
THEOREM RuptelaSavedSent == ASSUME RuptelaLink PROVE Spec => []SavedIsSent
BY RuptelaKeeps, SavedSent
(* A Ruptela packet that arrives whole and alone is acknowledged.          *)
THEOREM RuptelaAnswered == ASSUME RuptelaLink PROVE Spec => Answered
BY RuptelaKeeps, WholeAnswered
(* A Ruptela server that still reads has no session yet, or that of the    *)
(* device.                                                                 *)
THEOREM RuptelaSessionAgreed == ASSUME RuptelaLink PROVE Spec => []SessionAgreed
BY RuptelaKeeps, SessionsAgreed
(* A session that has read a part of a Ruptela packet ends, and nothing    *)
(* ends the process.                                                       *)
THEOREM RuptelaPiecesEnd == ASSUME RuptelaLink PROVE Spec => CutEnds
BY RuptelaKeeps, PiecesEnd
=============================================================================
