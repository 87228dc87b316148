-------------------------------- MODULE Wire --------------------------------
(***************************************************************************)
(* Go's bytes.Buffer as the decoders use it.  A buffer is the sequence of  *)
(* the fields the device wrote, each with its width in bytes and its       *)
(* value; only widths and values matter, not how a value is laid out.      *)
(* Of a field that was cut in two, either part is taken for zero bytes.    *)
(***************************************************************************)
EXTENDS Integers, SequencesExt

F(width, value) == [w |-> width, v |-> value]

(* The number of bytes in a buffer: Len.                                   *)
Bytes(b) ==
  LET upto[k \in 0..Len(b)] == IF k = 0 THEN 0 ELSE upto[k - 1] + b[k].w
  IN  upto[Len(b)]

(* The first n bytes of a buffer (Truncate, a slice): the first m of those *)
(* from the k-th field on ...                                              *)
Cut(b, n) ==
  LET cut[k \in 1..(Len(b) + 1)] ==
        [m \in Int |-> IF k > Len(b) \/ m = 0 THEN <<>>
                      ELSE IF b[k].w <= m THEN <<b[k]>> \o cut[k + 1][m - b[k].w]
                      ELSE <<F(m, 0)>>]
  IN  cut[1][n]

(* ... and what follows them (Next, Read).                                 *)
Skip(b, n) ==
  LET skip[k \in 1..(Len(b) + 1)] ==
        [m \in Int |-> IF k > Len(b) \/ m = 0 THEN SubSeq(b, k, Len(b))
                      ELSE IF b[k].w <= m THEN skip[k + 1][m - b[k].w]
                      ELSE <<F(b[k].w - m, 0)>> \o SubSeq(b, k + 1, Len(b))]
  IN  skip[1][n]

(* binary.Read of n bytes into a variable that is zero.  Of fewer than n   *)
(* bytes it consumes what there is and leaves the variable as it was.      *)
Get(b, n) == IF b # <<>> /\ Head(b).w = n THEN Head(b).v ELSE 0

(* A run of such reads.                                                    *)
Parse(b, widths) ==
  LET read[k \in 0..Len(widths)] ==
        IF k = 0 THEN [rest |-> b, values |-> <<>>]
        ELSE LET d == read[k - 1]
             IN  [rest |-> Skip(d.rest, widths[k]), values |-> Append(d.values, Get(d.rest, widths[k]))]
  IN  read[Len(widths)].values

(* A stand-in for the CRC16 of a buffer: zero for the empty one, and       *)
(* changed by a change of any field.                                       *)
CrcStep(c, field) == (31 * c + 7 * field.w + field.v + 1) % 65521
Crc(b) ==
  LET crc[k \in 0..Len(b)] == IF k = 0 THEN 0 ELSE CrcStep(crc[k - 1], b[k])
  IN  crc[Len(b)]

-----------------------------------------------------------------------------
(* What a protocol's handle gives back to HandleRequest: the session (here *)
(* just the imei, which is empty again if it returns an error before it    *)
(* has set res.imei), the records, the replies it has written to the       *)
(* device, and whether it has panicked instead.                            *)
Unknown == 0        \* the empty imei
Fresh == [imei |-> Unknown]
Response(session, records, reply) ==
  [session |-> session, records |-> records, reply |-> reply, panic |-> FALSE]
Refuse(session) == Response(session, <<>>, <<>>)
Panic == [Refuse(Fresh) EXCEPT !.panic = TRUE]
=============================================================================
