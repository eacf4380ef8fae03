--------------------------- MODULE Base64StreamProofs ---------------------------
(***************************************************************************)
(* Proofs about Base64Stream for blobs, texts, reads, chunks and buffers   *)
(* of any length: the encoder writes the encoding of the whole blob, and   *)
(* what is hashed and what is delivered is the decoding of the whole text, *)
(* in the length declared.                                                 *)
(***************************************************************************)
EXTENDS Base64Stream, FiniteSetTheorems, SequenceTheorems, TLAPS

Whole == [k \in 1..blob |-> k]

(* The encoder between two reads: quads written, each of its three bytes,    *)
(* and up to two bytes of the next.                                          *)
EncodedSoFar ==
    /\ taken = 3 * Len(out) + Len(carry)
    /\ Len(carry) <= 2
    /\ \A i \in 1..Len(carry) : carry[i] = 3 * Len(out) + i
    /\ \A q \in 1..Len(out) : out[q] = SubSeq(Whole, 3 * q - 2, 3 * q)
    /\ content_length = 4 * Len(out)

EncoderInv ==
    job = "encode" =>
        /\ blob \in Nat
        /\ taken \in 0..blob
        /\ carry \in Seq(Nat)
        /\ out \in Seq(Seq(Nat))
        /\ state = "run" => EncodedSoFar
        /\ EncodedAsWhole

--------------------------------------------------------------------------------
(* Encoding *)

\* n bytes after place i of s and after place j of t are the same.
Agree(s, i, t, j, n) ==
    i + n <= Len(s) /\ j + n <= Len(t) /\ \A k \in 1..n : s[i + k] = t[j + k]

\* Then they are equal slices.
LEMMA SlicesEqual ==
    \A s, t \in Seq(Nat), i, j, n \in Nat :
        Agree(s, i, t, j, n) => SubSeq(s, i + 1, i + n) = SubSeq(t, j + 1, j + n)
  <1> TAKE s, t \in Seq(Nat), i, j, n \in Nat
  <1> HAVE Agree(s, i, t, j, n)
  <1> USE DEF Agree
  <1>1. /\ SubSeq(s, i + 1, i + n) \in Seq(Nat)
        /\ Len(SubSeq(s, i + 1, i + n)) = n
        /\ \A k \in 1..n : SubSeq(s, i + 1, i + n)[k] = s[i + k]
    <2>1. \A k \in (i + 1)..(i + n) : s[k] \in Nat
      OBVIOUS
    <2>2. i + 1 \in Int /\ i + n \in Int
      OBVIOUS
    <2> QED
      BY <2>1, <2>2, SubSeqProperties
  <1>2. /\ SubSeq(t, j + 1, j + n) \in Seq(Nat)
        /\ Len(SubSeq(t, j + 1, j + n)) = n
        /\ \A k \in 1..n : SubSeq(t, j + 1, j + n)[k] = t[j + k]
    <2>1. \A k \in (j + 1)..(j + n) : t[k] \in Nat
      OBVIOUS
    <2>2. j + 1 \in Int /\ j + n \in Int
      OBVIOUS
    <2> QED
      BY <2>1, <2>2, SubSeqProperties
  <1> DEFINE a == SubSeq(s, i + 1, i + n)
             b == SubSeq(t, j + 1, j + n)
  <1>3. a \in Seq(Nat) /\ b \in Seq(Nat) /\ Len(a) = Len(b) /\ \A k \in 1..Len(a) : a[k] = b[k]
    BY <1>1, <1>2
  <1> HIDE DEF a, b
  <1>4. a = b
    BY <1>3, SeqEqual
  <1> QED
    BY <1>4 DEF a, b

\* The quads of an encoding, and how many there are.
LEMMA EncodeQuads ==
    ASSUME NEW s \in Seq(Nat)
    PROVE  /\ Encode(s) \in Seq(Seq(Nat))
           /\ Len(Encode(s)) = (Len(s) + 2) \div 3
           /\ \A q \in 1..(Len(s) + 2) \div 3 :
                Encode(s)[q] = SubSeq(s, 3 * q - 2, IF 3 * q <= Len(s) THEN 3 * q ELSE Len(s))
  <1> DEFINE end(q) == IF 3 * q <= Len(s) THEN 3 * q ELSE Len(s)
             n == (Len(s) + 2) \div 3
  <1>1. n \in Nat
    OBVIOUS
  <1>2. ASSUME NEW q \in 1..n PROVE SubSeq(s, 3 * q - 2, end(q)) \in Seq(Nat)
    <2>1. \A i \in (3 * q - 2)..end(q) : s[i] \in Nat
      BY <1>1
    <2>2. 3 * q - 2 \in Int /\ end(q) \in Int
      BY <1>1
    <2> HIDE DEF end
    <2> QED
      BY <2>1, <2>2, SubSeqProperties
  <1>3. Encode(s) = [q \in 1..n |-> SubSeq(s, 3 * q - 2, end(q))]
    BY DEF Encode
  <1> HIDE DEF end, n
  <1>4. Encode(s) \in Seq(Seq(Nat)) /\ Len(Encode(s)) = n
    BY <1>1, <1>2, <1>3
  <1>5. \A q \in 1..n : Encode(s)[q] = SubSeq(s, 3 * q - 2, end(q))
    BY <1>3
  <1> QED
    BY <1>4, <1>5 DEF end, n

LEMMA WholeBytes ==
    ASSUME blob \in Nat
    PROVE  Whole \in Seq(Nat) /\ Len(Whole) = blob /\ \A k \in 1..blob : Whole[k] = k
  BY DEF Whole

\* What a read brings continues what is carried.
LEMMA InputContinues ==
    ASSUME EncoderInv, job = "encode", state = "run", NEW n \in Nat
    PROVE  LET input == carry \o [k \in 1..n |-> taken + k] IN
           /\ input \in Seq(Nat)
           /\ Len(input) = Len(carry) + n
           /\ \A i \in 1..Len(carry) + n : input[i] = 3 * Len(out) + i
  <1> DEFINE more == [k \in 1..n |-> taken + k]
             input == carry \o more
  <1>1. /\ carry \in Seq(Nat) /\ taken = 3 * Len(out) + Len(carry) /\ taken \in Nat
        /\ Len(carry) \in Nat /\ Len(out) \in Nat
        /\ \A i \in 1..Len(carry) : carry[i] = 3 * Len(out) + i
    BY DEF EncoderInv, EncodedSoFar
  <1>2. more \in Seq(Nat) /\ Len(more) = n /\ \A k \in 1..n : more[k] = taken + k
    BY <1>1
  <1> HIDE DEF more
  <1>3. /\ input \in Seq(Nat) /\ Len(input) = Len(carry) + n
        /\ \A i \in 1..Len(carry) + n :
             input[i] = IF i <= Len(carry) THEN carry[i] ELSE more[i - Len(carry)]
    BY <1>1, <1>2, ConcatProperties
  <1> HIDE DEF input
  <1>4. ASSUME NEW i \in 1..Len(carry) + n PROVE input[i] = 3 * Len(out) + i
    <2>1. CASE i <= Len(carry)
      <3>1. i \in 1..Len(carry) /\ input[i] = carry[i]
        BY <1>1, <1>3, <2>1
      <3> QED
        BY <1>1, <3>1
    <2>2. CASE i > Len(carry)
      <3>1. i - Len(carry) \in 1..n
        BY <1>1, <2>2
      <3> QED
        BY <1>1, <1>2, <1>3, <2>2, <3>1
    <2> QED
      BY <1>1, <2>1, <2>2
  <1> QED
    BY <1>3, <1>4 DEF more, input

\* A read keeps the encoder's books: the whole groups become quads, the rest
\* is carried.
LEMMA EncodeReadStep ==
    ASSUME EncoderInv, job = "encode", state = "run",
           NEW n \in Nat, n <= blob - taken, EncodeRead(n), UNCHANGED blob
    PROVE  /\ taken' \in 0..blob /\ carry' \in Seq(Nat) /\ out' \in Seq(Seq(Nat))
           /\ EncodedSoFar'
  <1> DEFINE input == carry \o [k \in 1..n |-> taken + k]
             o == Len(out)
             c == Len(carry)
  <1>1. /\ taken \in 0..blob /\ blob \in Nat /\ carry \in Seq(Nat) /\ out \in Seq(Seq(Nat))
        /\ taken = 3 * o + c /\ c <= 2 /\ c \in Nat /\ o \in Nat
        /\ \A q \in 1..o : out[q] = SubSeq(Whole, 3 * q - 2, 3 * q)
        /\ content_length = 4 * o
    BY DEF EncoderInv, EncodedSoFar
  <1>0. o = Len(out) /\ c = Len(carry)
    OBVIOUS
  <1>2. input \in Seq(Nat) /\ Len(input) = c + n /\ \A i \in 1..(c + n) : input[i] = 3 * o + i
    BY InputContinues
  <1> HIDE DEF o, c
  <1>3. PICK m \in Nat : \E r \in 0..2 : c + n = 3 * m + r
    <2> DEFINE a == c + n
    <2>1. a \in Nat
      BY <1>1
    <2> HIDE DEF a
    <2>2. a = (3 * (a \div 3)) + (a % 3) /\ a % 3 \in 0..2 /\ a \div 3 \in Nat
      BY <2>1
    <2> QED
      BY <2>2 DEF a
  <1>4. PICK r \in 0..2 : c + n = 3 * m + r
    BY <1>3
  <1>5. ((c + n) \div 3) * 3 = 3 * m
    BY <1>1, <1>4
  <1> DEFINE groups == SubSeq(input, 1, 3 * m)
             rest == SubSeq(input, 3 * m + 1, c + n)
  <1> HIDE DEF input
  <1>6. groups \in Seq(Nat) /\ Len(groups) = 3 * m /\ \A i \in 1..(3 * m) : groups[i] = 3 * o + i
    <2>1. \A i \in 1..(3 * m) : input[i] \in Nat /\ input[i] = 3 * o + i
      BY <1>1, <1>2, <1>4
    <2>2. 1 \in Int /\ 3 * m \in Int
      OBVIOUS
    <2>3. /\ groups \in Seq(Nat) /\ Len(groups) = IF 1 <= 3 * m THEN 3 * m - 1 + 1 ELSE 0
          /\ \A i \in 1..(3 * m - 1 + 1) : groups[i] = input[1 + i - 1]
      BY <2>1, <2>2, SubSeqProperties
    <2> HIDE DEF groups
    <2> QED
      BY <2>1, <2>3
  <1>7. rest \in Seq(Nat) /\ Len(rest) = r /\ \A i \in 1..r : rest[i] = 3 * (o + m) + i
    <2>1. \A i \in (3 * m + 1)..(c + n) : input[i] \in Nat /\ input[i] = 3 * o + i
      BY <1>1, <1>2, <1>4
    <2> DEFINE x == 3 * m + 1
               y == c + n
    <2>2. x \in Int /\ y \in Int /\ \A i \in x..y : input[i] \in Nat
      BY <1>1, <2>1
    <2> HIDE DEF x, y
    <2>3. /\ SubSeq(input, x, y) \in Seq(Nat)
          /\ Len(SubSeq(input, x, y)) = IF x <= y THEN y - x + 1 ELSE 0
          /\ \A i \in 1..(y - x + 1) : SubSeq(input, x, y)[i] = input[x + i - 1]
      BY <2>2, SubSeqProperties
    <2>6. rest = SubSeq(input, x, y) /\ x = 3 * m + 1 /\ y = c + n
      BY DEF x, y
    <2> HIDE DEF rest
    <2>4. Len(rest) = r
      BY <1>1, <1>4, <2>3, <2>6
    <2>5. ASSUME NEW i \in 1..r PROVE rest[i] = 3 * (o + m) + i
      <3>1. i \in 1..(y - x + 1) /\ 3 * m + i \in (3 * m + 1)..(c + n)
        BY <1>1, <1>4, <2>6
      <3>2. rest[i] = input[3 * m + i]
        BY <1>1, <2>3, <2>6, <3>1
      <3> QED
        BY <1>1, <2>1, <3>1, <3>2
    <2> QED
      BY <2>3, <2>4, <2>5, <2>6
  <1> DEFINE quads == Encode(groups)
  <1>8. /\ out' = out \o quads /\ content_length' = content_length + 4 * Len(quads)
        /\ carry' = rest /\ taken' = taken + n
    BY <1>2, <1>5 DEF EncodeRead, WriteCounted, input
  <1> HIDE DEF groups, rest
  <1>9. /\ quads \in Seq(Seq(Nat)) /\ Len(quads) = m
        /\ \A p \in 1..m : quads[p] = SubSeq(groups, 3 * p - 2, 3 * p)
    <2>1. (Len(groups) + 2) \div 3 = m
      BY <1>6
    <2>2. \A p \in 1..m : 3 * p <= Len(groups)
      BY <1>6
    <2> QED
      BY <1>6, <2>1, <2>2, EncodeQuads
  <1> HIDE DEF quads
  <1>10. /\ out' \in Seq(Seq(Nat)) /\ Len(out') = o + m
         /\ \A q \in 1..(o + m) : out'[q] = IF q <= o THEN out[q] ELSE quads[q - o]
    <2>1. /\ out \in Seq(Seq(Nat)) /\ quads \in Seq(Seq(Nat)) /\ out' = out \o quads
          /\ Len(out) = o /\ Len(quads) = m
      BY <1>0, <1>1, <1>8, <1>9
    <2> QED
      BY <2>1, ConcatProperties
  <1>11. Whole' = Whole /\ Whole \in Seq(Nat) /\ Len(Whole) = blob /\ \A k \in 1..blob : Whole[k] = k
    BY <1>1, WholeBytes DEF Whole
  <1>12. 3 * (o + m) <= blob
    BY <1>1, <1>4
  <1>13. ASSUME NEW q \in 1..(o + m) PROVE out'[q] = SubSeq(Whole, 3 * q - 2, 3 * q)
    <2>1. CASE q <= o
      <3>1. q \in 1..o
        BY <1>1, <2>1
      <3>2. out'[q] = out[q]
        BY <1>10, <2>1
      <3> QED
        BY <1>1, <3>1, <3>2
    <2>2. CASE q > o
      <3>0. q - o \in 1..m /\ 3 * (q - o) - 3 \in Nat /\ 3 * q - 3 \in Nat /\ ~(q <= o)
        BY <1>1, <2>2
      <3>1. PICK p \in 1..m, i \in Nat, j \in Nat, w \in Nat :
              p = q - o /\ i = 3 * p - 3 /\ j = 3 * q - 3 /\ w = 3
        BY <3>0
      <3>2. i + w <= 3 * m /\ j + w <= blob /\ j = 3 * o + i
        BY <1>1, <1>12, <3>1
      <3>3. \A k \in 1..w : groups[i + k] = Whole[j + k]
        <4> SUFFICES ASSUME NEW k \in 1..w PROVE groups[i + k] = Whole[j + k]
          OBVIOUS
        <4>1. i + k \in 1..(3 * m) /\ j + k \in 1..blob
          BY <1>1, <3>2
        <4>2. groups[i + k] = 3 * o + (i + k) /\ Whole[j + k] = j + k
          BY <1>6, <1>11, <4>1
        <4> QED
          BY <1>1, <3>2, <4>2
      <3>4. SubSeq(groups, i + 1, i + w) = SubSeq(Whole, j + 1, j + w)
        <4>1. i + w <= Len(groups) /\ j + w <= Len(Whole) /\ groups \in Seq(Nat) /\ Whole \in Seq(Nat)
          BY <1>6, <1>11, <3>2
        <4>2. Agree(groups, i, Whole, j, w)
          BY <3>3, <4>1 DEF Agree
        <4> QED
          BY <4>1, <4>2, SlicesEqual
      <3>5. i + 1 = 3 * p - 2 /\ i + w = 3 * p /\ j + 1 = 3 * q - 2 /\ j + w = 3 * q
        BY <1>1, <3>1
      <3>6. out'[q] = quads[p]
        BY <1>10, <3>0, <3>1
      <3> QED
        BY <1>9, <3>4, <3>5, <3>6
    <2> QED
      BY <1>1, <2>1, <2>2
  <1>14. taken' = 3 * (o + m) + r /\ taken' \in 0..blob /\ content_length' = 4 * (o + m)
    BY <1>1, <1>4, <1>8, <1>9
  <1>15. Len(carry') = r /\ carry' \in Seq(Nat) /\ \A i \in 1..r : carry'[i] = 3 * (o + m) + i
    BY <1>7, <1>8
  <1>16. EncodedSoFar'
    <2>1. taken' = 3 * Len(out') + Len(carry') /\ Len(carry') <= 2 /\ content_length' = 4 * Len(out')
      BY <1>10, <1>14, <1>15
    <2>2. \A i \in 1..Len(carry') : carry'[i] = 3 * Len(out') + i
      BY <1>10, <1>15
    <2>3. \A q \in 1..Len(out') : out'[q] = SubSeq(Whole', 3 * q - 2, 3 * q)
      BY <1>10, <1>11, <1>13
    <2> QED
      BY <2>1, <2>2, <2>3 DEF EncodedSoFar
  <1> QED
    BY <1>10, <1>14, <1>15, <1>16

\* The last quad completes the encoding of the whole blob.
LEMMA ReadEndsStep ==
    ASSUME EncoderInv, ReadEnds
    PROVE  out' \in Seq(Seq(Nat)) /\ out' = Encode(Whole) /\ content_length' = 4 * Len(out')
  <1> DEFINE o == Len(out)
             c == Len(carry)
             last == Encode(carry)
             all == Encode(Whole)
  <1>1. /\ blob \in Nat /\ carry \in Seq(Nat) /\ out \in Seq(Seq(Nat))
        /\ blob = 3 * o + c /\ c <= 2 /\ c \in Nat /\ o \in Nat
        /\ \A i \in 1..c : carry[i] = 3 * o + i
        /\ \A q \in 1..o : out[q] = SubSeq(Whole, 3 * q - 2, 3 * q)
        /\ content_length = 4 * o
    BY DEF EncoderInv, EncodedSoFar, ReadEnds
  <1>0. o = Len(out) /\ c = Len(carry)
    OBVIOUS
  <1>2. out' = out \o last /\ content_length' = content_length + 4 * Len(last)
    BY DEF ReadEnds, WriteCounted
  <1> HIDE DEF o, c
  <1>3. Whole \in Seq(Nat) /\ Len(Whole) = blob /\ \A k \in 1..blob : Whole[k] = k
    BY <1>1, WholeBytes
  <1> DEFINE l == (c + 2) \div 3
  <1>4. l \in Nat /\ l <= 1 /\ (l = 1 <=> c > 0) /\ (blob + 2) \div 3 = o + l
    <2>1. CASE c = 0
      BY <1>1, <2>1
    <2>2. CASE c = 1
      BY <1>1, <2>2
    <2>3. CASE c = 2
      BY <1>1, <2>3
    <2> QED
      BY <1>1, <2>1, <2>2, <2>3
  <1>5. /\ last \in Seq(Seq(Nat)) /\ Len(last) = l
        /\ \A q \in 1..l : last[q] = SubSeq(carry, 3 * q - 2, IF 3 * q <= c THEN 3 * q ELSE c)
    BY <1>0, <1>1, EncodeQuads
  <1>6. /\ all \in Seq(Seq(Nat)) /\ Len(all) = o + l
        /\ \A q \in 1..(o + l) : all[q] = SubSeq(Whole, 3 * q - 2, IF 3 * q <= blob THEN 3 * q ELSE blob)
    BY <1>3, <1>4, EncodeQuads
  <1> HIDE DEF last, all, l
  <1>7. /\ out' \in Seq(Seq(Nat)) /\ Len(out') = o + l
        /\ \A q \in 1..(o + l) : out'[q] = IF q <= o THEN out[q] ELSE last[q - o]
    <2>1. out \in Seq(Seq(Nat)) /\ last \in Seq(Seq(Nat)) /\ out' = out \o last /\ Len(out) = o /\ Len(last) = l
      BY <1>0, <1>1, <1>2, <1>5
    <2> QED
      BY <2>1, ConcatProperties
  <1>8. ASSUME NEW q \in 1..(o + l) PROVE out'[q] = all[q]
    <2>1. CASE q <= o
      <3>1. q \in 1..o /\ 3 * q <= blob
        BY <1>1, <2>1
      <3>2. out'[q] = out[q]
        BY <1>7, <2>1
      <3>3. all[q] = SubSeq(Whole, 3 * q - 2, 3 * q)
        BY <1>6, <3>1
      <3> QED
        BY <1>1, <3>1, <3>2, <3>3
    <2>2. CASE q > o
      <3>1. q = o + 1 /\ l = 1 /\ c > 0 /\ 3 * q - 2 = 3 * o + 1 /\ ~(3 * q <= blob) /\ q - o = 1
        BY <1>1, <1>4, <2>2
      <3>2. out'[q] = last[1] /\ last[1] = SubSeq(carry, 1, c)
        BY <1>1, <1>5, <1>7, <2>2, <3>1
      <3>3. all[q] = SubSeq(Whole, 3 * o + 1, 3 * o + c)
        BY <1>1, <1>6, <3>1
      <3>4. \A k \in 1..c : carry[0 + k] = Whole[3 * o + k]
        BY <1>1, <1>3
      <3>5. 0 + c <= Len(carry) /\ 3 * o + c <= Len(Whole) /\ 0 \in Nat /\ 3 * o \in Nat
        BY <1>0, <1>1, <1>3
      <3>7. Agree(carry, 0, Whole, 3 * o, c)
        BY <3>4, <3>5 DEF Agree
      <3>6. SubSeq(carry, 0 + 1, 0 + c) = SubSeq(Whole, 3 * o + 1, 3 * o + c)
        BY <1>1, <1>3, <3>5, <3>7, SlicesEqual
      <3> QED
        BY <1>1, <3>2, <3>3, <3>6
    <2> QED
      BY <1>1, <1>4, <2>1, <2>2
  <1>9. out' = all
    BY <1>6, <1>7, <1>8, SeqEqual
  <1>10. content_length' = 4 * Len(out')
    BY <1>1, <1>2, <1>4, <1>5, <1>7
  <1> QED
    BY <1>7, <1>9, <1>10 DEF all

--------------------------------------------------------------------------------
(* Decoding *)

Chars == {Data, Pad}
Bytes == Nat \X Nat

\* Where byte k of a text is: its quad, and its place there.
Place(k) == <<(k + 2) \div 3, ((k - 1) % 3) + 1>>

Pads(n) == {k \in 1..n : text[k] = Pad}

Ends == {"run", "ok", "error"}

DecoderTypes ==
    /\ text \in Seq(Chars)
    /\ offset \in 0..Len(text)
    /\ out \in Seq(Bytes)
    /\ pending \in Seq(Bytes)
    /\ pending_offset \in Nat
    /\ pending_offset = 0 \/ pending_offset < Len(pending)
    /\ room \in Nat
    /\ state \in Ends
    /\ job = "hash" => pending = <<>>

(* What has been put out and what is pending are the bytes of the text up to *)
(* offset: three for each quad, less its padding.                            *)
DecodedSoFar ==
    /\ offset % 4 = 0
    /\ Len(out) + Len(pending) + Cardinality(Pads(offset)) = pending_offset + 3 * (offset \div 4)

(* Of a text that is base64 as a whole, each is the byte of its place.       *)
InPlace ==
    WellFormed(text) =>
        /\ state # "error"
        /\ \A k \in 1..Len(out) : out[k] = Place(k)
        /\ \A i \in 1..Len(pending) : i > pending_offset => pending[i] = Place(Len(out) + i - pending_offset)

(* The end is reported when nothing is left. *)
AllTaken == state = "ok" => offset = Len(text) /\ pending = <<>>

DecoderInv ==
    job \in {"hash", "decode"} => DecoderTypes /\ DecodedSoFar /\ InPlace /\ AllTaken

\* The padding of a text is a finite set, within it.
LEMMA PadsFinite ==
    ASSUME NEW chars \in Seq(Chars)
    PROVE  /\ IsFiniteSet({k \in DOMAIN chars : chars[k] = Pad})
           /\ Padding(chars) \in Nat
  <1>1. Len(chars) \in Nat /\ DOMAIN chars = 1..Len(chars)
    OBVIOUS
  <1>2. IsFiniteSet(1..Len(chars))
    <2>1. 1 \in Int /\ Len(chars) \in Int
      BY <1>1
    <2> QED
      BY <2>1, FS_Interval
  <1>3. {k \in DOMAIN chars : chars[k] = Pad} \in SUBSET (1..Len(chars))
    BY <1>1
  <1>4. IsFiniteSet({k \in DOMAIN chars : chars[k] = Pad})
    BY <1>2, <1>3, FS_Subset
  <1> QED
    BY <1>4, FS_CardinalityType DEF Padding

\* What the last two places of n say of a set of places.
Ending(P, n) == IF n \notin P THEN 0 ELSE IF n - 1 \in P THEN 2 ELSE 1

\* That counts it if it is there only, and from the last on; or else too few.
AtTheEnd(P, n) == \A k \in P : k > n - 2 /\ n \in P

LEMMA EndingCounts ==
    ASSUME NEW n \in Nat, n > 1, NEW P \in SUBSET (1..n), IsFiniteSet(P), Cardinality(P) \in Nat
    PROVE  /\ AtTheEnd(P, n) => Cardinality(P) = Ending(P, n)
           /\ ~AtTheEnd(P, n) => Cardinality(P) > Ending(P, n)
  <1>1. PICK m \in Nat : n = m + 1 /\ m > 0
    <2>1. n - 1 \in Nat /\ n = (n - 1) + 1 /\ n - 1 > 0
      OBVIOUS
    <2> QED
      BY <2>1
  <1>2. n - 1 = m /\ n # m /\ m # n
    BY <1>1
  <1>3. Cardinality({}) = 0 /\ IsFiniteSet({})
    BY FS_EmptySet
  <1>4. IsFiniteSet({n}) /\ Cardinality({n}) = 1
    BY FS_Singleton
  <1>5. ASSUME NEW k, k # n PROVE IsFiniteSet({n} \cup {k}) /\ Cardinality({n} \cup {k}) = 2
    <2>1. k \notin {n}
      BY <1>5
    <2>2. /\ IsFiniteSet({n} \cup {k})
          /\ Cardinality({n} \cup {k}) = IF k \in {n} THEN Cardinality({n}) ELSE Cardinality({n}) + 1
      BY <1>4, FS_AddElement
    <2> QED
      BY <1>4, <2>1, <2>2
  <1>6. ASSUME AtTheEnd(P, n) PROVE Cardinality(P) = Ending(P, n)
    <2>1. \A k \in P : k = n \/ k = m
      BY <1>1, <1>6 DEF AtTheEnd
    <2>2. CASE n \notin P
      <3>1. P = {}
        BY <1>6, <2>2 DEF AtTheEnd
      <3> QED
        BY <1>3, <2>2, <3>1 DEF Ending
    <2>3. CASE n \in P /\ m \notin P
      <3>1. P = {n}
        BY <2>1, <2>3
      <3> QED
        BY <1>2, <1>4, <2>3, <3>1 DEF Ending
    <2>4. CASE n \in P /\ m \in P
      <3>1. P = {n} \cup {m}
        BY <2>1, <2>4
      <3>2. Cardinality(P) = 2
        BY <1>2, <1>5, <3>1
      <3> QED
        BY <1>2, <2>4, <3>2 DEF Ending
    <2> QED
      BY <2>2, <2>3, <2>4
  <1>7. ASSUME ~AtTheEnd(P, n) PROVE Cardinality(P) > Ending(P, n)
    <2>1. PICK k \in P : ~(k > n - 2 /\ n \in P)
      BY <1>7 DEF AtTheEnd
    <2>2. CASE n \notin P
      <3>1. Cardinality(P) # 0
        BY <2>1, FS_EmptySet
      <3> QED
        BY <2>2, <3>1 DEF Ending
    <2>3. CASE n \in P
      <3>1. k # n /\ k # m
        BY <1>1, <2>1, <2>3
      <3>2. IsFiniteSet({n} \cup {k}) /\ Cardinality({n} \cup {k}) = 2 /\ {n} \cup {k} \in SUBSET P
        BY <1>5, <2>3, <3>1
      <3>3. 2 <= Cardinality(P)
        BY <3>2, FS_Subset
      <3>4. CASE m \notin P
        BY <1>2, <2>3, <3>3, <3>4 DEF Ending
      <3>5. CASE m \in P
        <4> DEFINE two == {n} \cup {k}
        <4>1. m \notin two /\ two \cup {m} \in SUBSET P /\ IsFiniteSet(two) /\ Cardinality(two) = 2
          BY <1>2, <3>1, <3>2, <3>5
        <4> HIDE DEF two
        <4>2. Cardinality(two \cup {m}) = IF m \in two THEN Cardinality(two) ELSE Cardinality(two) + 1
          BY <4>1, FS_AddElement
        <4>3. Cardinality(two \cup {m}) <= Cardinality(P)
          BY <4>1, FS_Subset
        <4> QED
          BY <1>2, <2>3, <3>5, <4>1, <4>2, <4>3 DEF Ending
      <3> QED
        BY <3>4, <3>5
    <2> QED
      BY <2>2, <2>3
  <1> QED
    BY <1>6, <1>7

\* What decoded_base64_len makes of the last two characters is all padding of
\* a text that is base64, and less than the padding of one that is not.
Tail2(chars) ==
    IF chars[Len(chars)] # Pad THEN 0 ELSE IF chars[Len(chars) - 1] = Pad THEN 2 ELSE 1

LEMMA PaddingAtTheEnd ==
    ASSUME NEW chars \in Seq(Chars), NEW n \in Nat, n = Len(chars), n > 1
    PROVE  /\ WellFormed(chars) => Padding(chars) = Tail2(chars) /\ n % 4 = 0
           /\ ~WellFormed(chars) /\ n % 4 = 0 => Padding(chars) > Tail2(chars)
  <1> DEFINE P == {k \in DOMAIN chars : chars[k] = Pad}
  <1>1. DOMAIN chars = 1..n /\ n - 1 \in 1..n /\ n \in 1..n
    OBVIOUS
  <1>2. IsFiniteSet(P) /\ Padding(chars) = Cardinality(P) /\ Cardinality(P) \in Nat
    BY PadsFinite DEF Padding
  <1>3. P \in SUBSET (1..n) /\ (n \in P <=> chars[n] = Pad) /\ (n - 1 \in P <=> chars[n - 1] = Pad)
    BY <1>1
  <1>4. WellFormed(chars) <=> n % 4 = 0 /\ AtTheEnd(P, n)
    <2>1. \A k \in P : k \in DOMAIN chars /\ chars[k] = Pad
      OBVIOUS
    <2>2. \A k \in DOMAIN chars : chars[k] = Pad => k \in P
      OBVIOUS
    <2> HIDE DEF P
    <2> QED
      BY <1>3, <2>1, <2>2 DEF WellFormed, AtTheEnd
  <1> HIDE DEF P
  <1>5. /\ AtTheEnd(P, n) => Cardinality(P) = Ending(P, n)
        /\ ~AtTheEnd(P, n) => Cardinality(P) > Ending(P, n)
    BY <1>2, <1>3, EndingCounts
  <1>6. Ending(P, n) = Tail2(chars)
    BY <1>3 DEF Ending, Tail2
  <1> QED
    BY <1>2, <1>4, <1>5, <1>6

\* The chunk that comes next: where it is and what it holds.
LEMMA ChunkPlace ==
    ASSUME text \in Seq(Chars), NEW from \in Nat, from = offset, from < Len(text)
    PROVE  /\ next_base64_chunk_end(offset) \in (from + 1)..Len(text)
           /\ NextChunk \in Seq(Chars)
           /\ Len(NextChunk) = next_base64_chunk_end(offset) - from
           /\ \A k \in 1..Len(NextChunk) : NextChunk[k] = text[from + k]
           /\ next_base64_chunk_end(offset) # Len(text) =>
                Len(NextChunk) = ChunkChars /\ ChunkChars < Len(text) - from
  <1> DEFINE end == next_base64_chunk_end(offset)
  <1>1. Len(text) \in Nat /\ \A k \in 1..Len(text) : text[k] \in Chars
    OBVIOUS
  <1>2. ChunkChars \in Nat \ {0}
    BY StreamConstants
  <1>3. end \in (from + 1)..Len(text)
        /\ (end # Len(text) => end - from = ChunkChars /\ ChunkChars < Len(text) - from)
    <2> HIDE StreamConstants
    <2> QED
      BY <1>1, <1>2 DEF next_base64_chunk_end
  <1>4. PICK x \in Nat : x = from + 1
    OBVIOUS
  <1>5. NextChunk = SubSeq(text, x, end)
    BY <1>4 DEF NextChunk
  <1> HIDE DEF end
  <1>6. /\ SubSeq(text, x, end) \in Seq(Chars)
        /\ Len(SubSeq(text, x, end)) = IF x <= end THEN end - x + 1 ELSE 0
        /\ \A k \in 1..(end - x + 1) : SubSeq(text, x, end)[k] = text[x + k - 1]
    <2>1. x \in Int /\ end \in Int /\ \A k \in x..end : text[k] \in Chars
      BY <1>1, <1>3, <1>4
    <2> QED
      BY <2>1, SubSeqProperties
  <1>7. Len(NextChunk) = end - from /\ NextChunk \in Seq(Chars)
    BY <1>3, <1>4, <1>5, <1>6
  <1>8. ASSUME NEW k \in 1..Len(NextChunk) PROVE NextChunk[k] = text[from + k]
    <2>1. k \in 1..(end - x + 1) /\ x + k - 1 = from + k
      BY <1>3, <1>4, <1>7
    <2> QED
      BY <1>5, <1>6, <2>1
  <1> QED
    BY <1>3, <1>7, <1>8 DEF end

\* The padding up to the end of the chunk is that before it and that in it.
LEMMA PaddingAdds ==
    ASSUME text \in Seq(Chars), NEW from \in Nat, from = offset, from < Len(text),
           NEW end \in Nat, end = next_base64_chunk_end(offset)
    PROVE  /\ IsFiniteSet(Pads(from)) /\ Cardinality(Pads(from)) \in Nat
           /\ Cardinality(Pads(end)) = Cardinality(Pads(from)) + Padding(NextChunk)
           /\ Padding(NextChunk) \in Nat
  <1> DEFINE chunk == NextChunk
             P == {k \in DOMAIN chunk : chunk[k] = Pad}
             Q == {k \in (from + 1)..end : text[k] = Pad}
             f == [k \in P |-> from + k]
  <1>1. /\ end \in (from + 1)..Len(text) /\ chunk \in Seq(Chars) /\ Len(chunk) = end - from
        /\ DOMAIN chunk = 1..(end - from)
        /\ \A k \in 1..(end - from) : chunk[k] = text[from + k]
    BY ChunkPlace
  <1>2. IsFiniteSet(P) /\ Padding(chunk) = Cardinality(P) /\ Padding(chunk) \in Nat
    BY <1>1, PadsFinite DEF Padding
  <1> HIDE DEF chunk
  <1>3. \A k \in P : k \in 1..(end - from) /\ from + k \in Q
    BY <1>1
  <1>4. \A k \in Q : k - from \in P /\ from + (k - from) = k
    BY <1>1
  <1> HIDE DEF P, Q
  <1>5. f \in Bijection(P, Q)
    <2>1. f \in [P -> Q]
      BY <1>3
    <2>2. \A a, b \in P : f[a] = f[b] => a = b
      BY <1>3
    <2>3. \A k \in Q : \E a \in P : f[a] = k
      BY <1>4
    <2> QED
      BY <2>1, <2>2, <2>3 DEF Bijection, Injection, Surjection, IsInjective
  <1>6. IsFiniteSet(Q) /\ Cardinality(Q) = Cardinality(P)
    BY <1>2, <1>5, FS_Bijection DEF ExistsBijection
  <1>7. IsFiniteSet(Pads(from))
    <2>1. 1 \in Int /\ from \in Int
      OBVIOUS
    <2>2. IsFiniteSet(1..from)
      BY <2>1, FS_Interval
    <2>3. Pads(from) \in SUBSET (1..from)
      BY DEF Pads
    <2> QED
      BY <2>2, <2>3, FS_Subset
  <1>8. Pads(end) = Pads(from) \cup Q /\ Pads(from) \cap Q = {}
    BY <1>1 DEF Pads, Q
  <1>9. /\ Cardinality(Pads(from)) \in Nat /\ Cardinality(Q) \in Nat
        /\ Cardinality(Pads(from) \cup Q) = Cardinality(Pads(from)) + Cardinality(Q) - Cardinality(Pads(from) \cap Q)
    BY <1>6, <1>7, FS_CardinalityType, FS_Union
  <1>10. Cardinality({}) = 0
    BY FS_EmptySet
  <1>11. Cardinality(Pads(end)) = Cardinality(Pads(from)) + Cardinality(P)
    <2>1. Cardinality(Pads(end)) = Cardinality(Pads(from) \cup Q) /\ Cardinality(Pads(from) \cap Q) = 0
      BY <1>8, <1>10, Zenon
    <2> QED
      BY <1>6, <1>9, <2>1
  <1> QED
    BY <1>2, <1>7, <1>9, <1>11 DEF chunk

\* A decoded chunk that starts with quad g: three bytes for each of its quads,
\* less its padding, each named by its place in the text.
DecodedRight(chunk, n, from, g) ==
    /\ n % 4 = 0 /\ Padding(chunk) \in Nat
    /\ Decode(chunk, from) \in Seq(Bytes)
    /\ Len(Decode(chunk, from)) + Padding(chunk) = 3 * (n \div 4)
    /\ \A k \in 1..Len(Decode(chunk, from)) : Decode(chunk, from)[k] = Place(3 * g + k)

LEMMA DecodedChunk ==
    ASSUME NEW chunk \in Seq(Chars), WellFormed(chunk), NEW n \in Nat, n = Len(chunk), n > 0,
           NEW from \in Nat, NEW g \in Nat, from = 4 * g
    PROVE  DecodedRight(chunk, n, from, g)
  <1>1. n % 4 = 0
    BY DEF WellFormed
  <1>2. PICK q \in Nat : n = 4 * q /\ q > 0
    <2>1. n \div 4 \in Nat /\ n = 4 * (n \div 4) /\ n \div 4 > 0
      BY <1>1
    <2> QED
      BY <2>1
  <1>3. n \div 4 = q /\ from \div 4 = g
    BY <1>2
  <1>4. Padding(chunk) \in Nat /\ Padding(chunk) <= 2
    <2>0. n > 1
      BY <1>2
    <2>1. Padding(chunk) = Tail2(chunk)
      BY <2>0, PaddingAtTheEnd
    <2> QED
      BY <2>1, PadsFinite DEF Tail2
  <1>5. PICK l \in Nat : l + Padding(chunk) = 3 * q /\ l = q * 3 - Padding(chunk)
    <2>1. 3 * q - Padding(chunk) \in Nat
      BY <1>2, <1>4
    <2> QED
      BY <1>4, <2>1
  <1>6. Decode(chunk, from) = [k \in 1..l |-> <<g + ((k + 2) \div 3), ((k - 1) % 3) + 1>>]
    BY <1>3, <1>5 DEF Decode
  <1>7. ASSUME NEW k \in 1..l
        PROVE  /\ <<g + ((k + 2) \div 3), ((k - 1) % 3) + 1>> = Place(3 * g + k)
               /\ <<g + ((k + 2) \div 3), ((k - 1) % 3) + 1>> \in Bytes
    <2>1. PICK j \in Nat : j = k - 1
      OBVIOUS
    <2>2. (k + 2) \div 3 \in Nat /\ (k - 1) % 3 \in Nat
      BY <2>1
    <2>3. (3 * g + k + 2) \div 3 = g + ((k + 2) \div 3)
      OBVIOUS
    <2>4. (3 * g + k - 1) % 3 = (k - 1) % 3
      <3>1. 3 * g + k - 1 = 3 * g + j /\ (3 * g + j) % 3 = j % 3
        BY <2>1
      <3> QED
        BY <2>1, <3>1
    <2> QED
      BY <2>2, <2>3, <2>4 DEF Place, Bytes
  <1>8. Decode(chunk, from) \in Seq(Bytes) /\ Len(Decode(chunk, from)) = l
    <2> DEFINE byte(k) == <<g + ((k + 2) \div 3), ((k - 1) % 3) + 1>>
    <2>1. \A k \in 1..l : byte(k) \in Bytes
      BY <1>7
    <2>2. Decode(chunk, from) = [k \in 1..l |-> byte(k)]
      BY <1>6
    <2> HIDE DEF byte
    <2> QED
      BY <2>1, <2>2
  <1>9. \A k \in 1..l : Decode(chunk, from)[k] = Place(3 * g + k)
    BY <1>6, <1>7
  <1> QED
    BY <1>1, <1>3, <1>4, <1>5, <1>8, <1>9 DEF DecodedRight

\* Every chunk of a text that is base64 is base64, and no padding precedes one.
LEMMA ChunksWellFormed ==
    ASSUME text \in Seq(Chars), NEW from \in Nat, from = offset, from < Len(text), from % 4 = 0,
           WellFormed(text)
    PROVE  WellFormed(NextChunk) /\ Pads(from) = {}
  <1>1. PICK n \in Nat, end \in Nat, l \in Nat, c \in Nat :
           n = Len(text) /\ end = next_base64_chunk_end(offset) /\ l = Len(NextChunk) /\ c = ChunkChars
    BY ChunkPlace, StreamConstants
  <1>2. /\ end \in (from + 1)..n /\ NextChunk \in Seq(Chars) /\ l = end - from
        /\ \A k \in 1..l : NextChunk[k] = text[from + k]
        /\ end # n => l = c /\ c < n - from
    BY <1>1, ChunkPlace
  <1>3. c % 4 = 0 /\ n % 4 = 0 /\ from % 4 = 0
    BY <1>1, StreamConstants DEF WellFormed
  <1>4. PICK a \in Nat, b \in Nat, d \in Nat : c = 4 * a /\ n = 4 * b /\ from = 4 * d
    <2>1. c = 4 * (c \div 4) /\ n = 4 * (n \div 4) /\ from = 4 * (from \div 4)
      BY <1>3
    <2>2. c \div 4 \in Nat /\ n \div 4 \in Nat /\ from \div 4 \in Nat
      OBVIOUS
    <2> QED
      BY <2>1, <2>2
  <1>5. from < n
    BY <1>1
  <1>6. \A k \in 1..n : text[k] = Pad => k > n - 2 /\ text[n] = Pad
    BY <1>1 DEF WellFormed
  <1>7. l % 4 = 0
    <2>1. CASE end = n
      <3>1. l = 4 * (b - d)
        BY <1>2, <1>4, <2>1
      <3> QED
        BY <1>4, <3>1
    <2>2. CASE end # n
      BY <1>2, <1>3, <2>2
    <2> QED
      BY <2>1, <2>2
  <1>8. ASSUME NEW k \in 1..l, NextChunk[k] = Pad PROVE k > l - 2 /\ NextChunk[l] = Pad
    <2>1. from + k \in 1..n /\ text[from + k] = Pad
      BY <1>2, <1>8
    <2>2. from + k > n - 2 /\ text[n] = Pad
      BY <1>6, <2>1
    <2>3. end = n
      <3> SUFFICES ASSUME end # n PROVE FALSE
        OBVIOUS
      <3>1. l = 4 * a /\ 4 * a < 4 * b - 4 * d /\ k <= 4 * a
        BY <1>2, <1>4
      <3>2. 4 * d + 4 * a <= 4 * b - 4
        BY <1>4, <3>1
      <3> QED
        BY <1>4, <2>2, <3>1, <3>2
    <2>4. l \in 1..l /\ from + l = n
      BY <1>2, <2>3
    <2>5. k > l - 2
      BY <1>2, <2>2, <2>4
    <2>6. NextChunk[l] = text[n]
      BY <1>2, <2>4
    <2> QED
      BY <2>2, <2>5, <2>6
  <1>9. WellFormed(NextChunk)
    <2>1. DOMAIN NextChunk = 1..l
      BY <1>1, <1>2, LenProperties
    <2> QED
      BY <1>1, <1>7, <1>8, <2>1 DEF WellFormed
  <1>10. Pads(from) = {}
    <2> SUFFICES ASSUME NEW k \in 1..from, text[k] = Pad PROVE FALSE
      BY DEF Pads
    <2>1. k \in 1..n
      BY <1>5
    <2>2. k > n - 2 /\ from <= n - 4
      BY <1>4, <1>5, <1>6, <2>1
    <2> QED
      BY <2>2
  <1> QED
    BY <1>9, <1>10

\* The next chunk, decoded, is the next bytes.
LEMMA ChunkContinues ==
    ASSUME DecoderInv, job \in {"hash", "decode"}, offset < Len(text),
           pending = <<>>, pending_offset = 0, WellFormed(NextChunk),
           NEW end, end = next_base64_chunk_end(offset)
    PROVE  LET bytes == Decode(NextChunk, offset) IN
           /\ end \in 0..Len(text) /\ end % 4 = 0
           /\ bytes \in Seq(Bytes)
           /\ Len(out) + Len(bytes) + Cardinality(Pads(end)) = 3 * (end \div 4)
           /\ WellFormed(text) => \A k \in 1..Len(bytes) : bytes[k] = Place(Len(out) + k)
  <1> DEFINE bytes == Decode(NextChunk, offset)
  <1>1. /\ text \in Seq(Chars) /\ offset \in Nat /\ offset % 4 = 0 /\ Len(text) \in Nat
        /\ out \in Seq(Bytes) /\ Len(out) \in Nat
    BY DEF DecoderInv, DecoderTypes, DecodedSoFar
  <1>2. PICK from \in Nat, g \in Nat : from = offset /\ from = 4 * g
    <2>1. offset = 4 * (offset \div 4) /\ offset \div 4 \in Nat
      BY <1>1
    <2> QED
      BY <1>1, <2>1
  <1>3. /\ end \in (from + 1)..Len(text) /\ NextChunk \in Seq(Chars) /\ Len(NextChunk) = end - from
    BY <1>1, <1>2, ChunkPlace
  <1>4. PICK n \in Nat : n = Len(NextChunk) /\ n > 0 /\ n = end - from /\ end \in Nat
    BY <1>3
  <1>5. /\ n % 4 = 0 /\ Padding(NextChunk) \in Nat
        /\ bytes \in Seq(Bytes)
        /\ Len(bytes) + Padding(NextChunk) = 3 * (n \div 4)
        /\ \A k \in 1..Len(bytes) : bytes[k] = Place(3 * g + k)
    <2>1. NextChunk \in Seq(Chars) /\ n = Len(NextChunk) /\ n > 0 /\ from = 4 * g /\ WellFormed(NextChunk)
      BY <1>2, <1>3, <1>4
    <2>2. DecodedRight(NextChunk, n, from, g)
      BY <2>1, DecodedChunk
    <2> QED
      BY <1>2, <2>2 DEF DecodedRight
  <1> HIDE DEF bytes
  <1>6. /\ Cardinality(Pads(from)) \in Nat
        /\ Cardinality(Pads(end)) = Cardinality(Pads(from)) + Padding(NextChunk)
    BY <1>1, <1>2, <1>3, <1>4, PaddingAdds
  <1>7. Len(out) + Cardinality(Pads(from)) = 3 * g
    <2>1. Len(out) + Len(pending) + Cardinality(Pads(from)) = pending_offset + 3 * (from \div 4)
      BY <1>2 DEF DecoderInv, DecodedSoFar
    <2>2. Len(pending) = 0 /\ from \div 4 = g
      BY <1>2
    <2> QED
      BY <1>1, <1>2, <1>6, <2>1, <2>2
  <1>8. PICK q \in Nat : n = 4 * q
    <2>1. n = 4 * (n \div 4) /\ n \div 4 \in Nat
      BY <1>5
    <2> QED
      BY <2>1
  <1>9. end = 4 * (g + q) /\ end % 4 = 0 /\ end \div 4 = g + q /\ n \div 4 = q
    <2>1. end = 4 * (g + q)
      BY <1>2, <1>4, <1>8
    <2> QED
      BY <1>8, <2>1
  <1>10. Len(bytes) \in Nat
    BY <1>5
  <1>11. Len(out) + Len(bytes) + Cardinality(Pads(end)) = 3 * (end \div 4)
    <2>1. PICK o \in Nat, y \in Nat, x \in Nat, z \in Nat, w \in Nat :
            /\ o = Len(out) /\ y = Len(bytes) /\ x = Cardinality(Pads(from))
            /\ z = Padding(NextChunk) /\ w = Cardinality(Pads(end))
      BY <1>1, <1>5, <1>6, <1>10
    <2>2. w = x + z /\ y + z = 3 * q /\ o + x = 3 * g
      BY <1>5, <1>6, <1>7, <1>9, <2>1
    <2>3. o + y + w = 3 * (g + q)
      BY <2>2
    <2> QED
      BY <1>9, <2>1, <2>3
  <1>12. ASSUME WellFormed(text) PROVE \A k \in 1..Len(bytes) : bytes[k] = Place(Len(out) + k)
    <2>1. Pads(from) = {}
      BY <1>1, <1>2, <1>12, ChunksWellFormed
    <2>2. Cardinality({}) = 0
      BY FS_EmptySet
    <2>3. Cardinality(Pads(from)) = 0
      BY <2>1, <2>2, Zenon
    <2>4. Len(out) = 3 * g
      BY <1>1, <1>7, <2>3
    <2> QED
      BY <1>5, <2>4
  <1> QED
    BY <1>1, <1>3, <1>4, <1>5, <1>9, <1>11, <1>12 DEF bytes

--------------------------------------------------------------------------------
(* The invariant *)

StreamInv == job \in {"encode", "hash", "decode"} /\ EncoderInv /\ DecoderInv

LEMMA StreamInit == Init => StreamInv
<1> SUFFICES ASSUME Init PROVE StreamInv
  OBVIOUS
<1>1. /\ out = <<>> /\ Len(out) = 0 /\ taken = 0 /\ carry = <<>> /\ Len(carry) = 0 /\ content_length = 0
      /\ offset = 0 /\ pending = <<>> /\ Len(pending) = 0 /\ pending_offset = 0 /\ room = 0
  BY EmptySeq DEF Init
<1>2. CASE job = "encode"
  <2>1. state = "run" /\ blob \in Nat
    BY <1>2, StreamConstants DEF Init
  <2>2. carry \in Seq(Nat) /\ out \in Seq(Seq(Nat)) /\ EncodedSoFar
    BY <1>1 DEF EncodedSoFar
  <2> QED
    BY <1>1, <1>2, <2>1, <2>2 DEF StreamInv, EncoderInv, DecoderInv, EncodedAsWhole
<1>3. CASE job # "encode"
  <2>1. /\ job \in {"hash", "decode"}
        /\ text \in UNION {[1..n -> Chars] : n \in TextLengths}
        /\ state = IF job = "decode" /\ Len(text) % 4 # 0 THEN "error" ELSE "run"
    BY <1>3 DEF Init, Chars
  <2>2. text \in Seq(Chars)
    BY <2>1, StreamConstants
  <2>3. DecoderTypes
    BY <1>1, <2>1, <2>2 DEF DecoderTypes, Ends
  <2>4. Pads(offset) = {}
    BY <1>1 DEF Pads
  <2>5. Cardinality(Pads(offset)) = 0
    BY <2>4, FS_EmptySet, Zenon
  <2>6. DecodedSoFar
    BY <1>1, <2>5 DEF DecodedSoFar
  <2>7. InPlace
    BY <1>1, <2>1 DEF InPlace, WellFormed
  <2>8. AllTaken
    BY <2>1 DEF AllTaken
  <2> QED
    BY <1>3, <2>1, <2>3, <2>6, <2>7, <2>8 DEF StreamInv, EncoderInv, DecoderInv
<1> QED
  BY <1>2, <1>3

LEMMA EncoderStep == StreamInv /\ [Next]_vars => EncoderInv' /\ job' = job
<1> SUFFICES ASSUME StreamInv, [Next]_vars PROVE EncoderInv' /\ job' = job
  OBVIOUS
<1>0. EncoderInv
  BY DEF StreamInv
<1>1. CASE Read
  <2>1. PICK n \in 1..ReadBytes : n <= blob - taken /\ EncodeRead(n)
    BY <1>1 DEF Read
  <2>2. job = "encode" /\ state = "run" /\ UNCHANGED <<job, state, blob>> /\ n \in Nat
    BY <1>1, StreamConstants DEF Read
  <2>3. taken' \in 0..blob /\ carry' \in Seq(Nat) /\ out' \in Seq(Seq(Nat)) /\ EncodedSoFar'
    BY <1>0, <2>1, <2>2, EncodeReadStep
  <2> QED
    BY <1>0, <2>2, <2>3 DEF EncoderInv, EncodedAsWhole
<1>2. CASE ReadEnds
  <2>1. out' \in Seq(Seq(Nat)) /\ out' = Encode(Whole) /\ content_length' = 4 * Len(out')
    BY <1>0, <1>2, ReadEndsStep
  <2>2. job = "encode" /\ state' = "ok" /\ UNCHANGED <<job, blob, taken, carry>>
    BY <1>2 DEF ReadEnds
  <2>3. EncodedAsWhole'
    BY <2>1, <2>2 DEF EncodedAsWhole, Whole
  <2> QED
    BY <1>0, <2>1, <2>2, <2>3 DEF EncoderInv
<1>3. CASE ReadFails
  BY <1>0, <1>3 DEF ReadFails, EncoderInv, EncodedAsWhole, encoder
<1>4. CASE HashChunk \/ HashEnds \/ Poll \/ Copy \/ Refill \/ TextEnds
  BY <1>4 DEF HashChunk, HashEnds, Poll, Copy, Refill, TextEnds, EncoderInv
<1>5. CASE UNCHANGED vars
  BY <1>0, <1>5 DEF vars, encoder, EncoderInv, EncodedSoFar, EncodedAsWhole, Whole
<1> QED
  BY <1>1, <1>2, <1>3, <1>4, <1>5 DEF Next

\* A step that takes no character and moves no byte.
LEMMA DecoderIdle ==
    ASSUME DecoderInv, job \in {"hash", "decode"}, room' \in Nat, state' \in {"run", "ok"},
           state \in {"run"}, state' = "ok" => offset = Len(text) /\ pending = <<>>,
           UNCHANGED <<job, out, text, offset, pending, pending_offset>>
    PROVE  DecoderInv'
<1>1. DecoderTypes /\ DecodedSoFar /\ InPlace
  BY DEF DecoderInv
<1>2. DecoderTypes'
  BY <1>1 DEF DecoderTypes, Ends
<1>3. DecodedSoFar'
  <2>1. Pads(offset)' = Pads(offset)
    BY DEF Pads
  <2> QED
    BY <1>1, <2>1 DEF DecodedSoFar
<1>4. InPlace'
  BY <1>1 DEF InPlace
<1>5. AllTaken'
  BY DEF AllTaken
<1> QED
  BY <1>2, <1>3, <1>4, <1>5 DEF DecoderInv

\* A chunk that is no base64 ends the stream, and the text is none either.
LEMMA BadChunk ==
    ASSUME DecoderInv, job \in {"hash", "decode"}, offset < Len(text), ~WellFormed(NextChunk),
           state' = "error",
           UNCHANGED <<job, out, text, offset, pending, pending_offset, room>>
    PROVE  DecoderInv'
<1>1. DecoderTypes /\ DecodedSoFar
  BY DEF DecoderInv
<1>2. DecoderTypes' /\ AllTaken'
  BY <1>1 DEF DecoderTypes, AllTaken, Ends
<1>3. DecodedSoFar'
  <2>1. Pads(offset)' = Pads(offset)
    BY DEF Pads
  <2> QED
    BY <1>1, <2>1 DEF DecodedSoFar
<1>4. ~WellFormed(text)
  BY <1>1, ChunksWellFormed DEF DecoderTypes, DecodedSoFar
<1>5. InPlace'
  BY <1>4 DEF InPlace
<1> QED
  BY <1>2, <1>3, <1>5 DEF DecoderInv

LEMMA HashChunkStep == StreamInv /\ HashChunk => DecoderInv'
<1> SUFFICES ASSUME StreamInv, HashChunk PROVE DecoderInv'
  OBVIOUS
<1>1. /\ job = "hash" /\ state = "run" /\ offset < Len(text)
      /\ UNCHANGED <<job, text, pending, pending_offset, room>>
  BY DEF HashChunk
<1>2. DecoderInv /\ DecoderTypes /\ DecodedSoFar /\ InPlace
  BY <1>1 DEF StreamInv, DecoderInv
<1>3. pending = <<>> /\ Len(pending) = 0 /\ pending_offset = 0
  BY <1>1, <1>2 DEF DecoderTypes
<1>4. CASE ~WellFormed(NextChunk)
  BY <1>1, <1>2, <1>4, BadChunk DEF HashChunk
<1>5. CASE WellFormed(NextChunk)
  <2> DEFINE end == next_base64_chunk_end(offset)
             bytes == Decode(NextChunk, offset)
  <2>1. out' = out \o bytes /\ offset' = end /\ UNCHANGED state
    BY <1>5 DEF HashChunk
  <2>2. /\ end \in 0..Len(text) /\ end % 4 = 0 /\ bytes \in Seq(Bytes)
        /\ Len(out) + Len(bytes) + Cardinality(Pads(end)) = 3 * (end \div 4)
        /\ WellFormed(text) => \A k \in 1..Len(bytes) : bytes[k] = Place(Len(out) + k)
    BY <1>1, <1>2, <1>3, <1>5, ChunkContinues
  <2> HIDE DEF end, bytes
  <2>3. out \in Seq(Bytes) /\ Len(out) \in Nat /\ Len(bytes) \in Nat
    BY <1>2, <2>2 DEF DecoderTypes
  <2>4. /\ out' \in Seq(Bytes) /\ Len(out') = Len(out) + Len(bytes)
        /\ \A k \in 1..(Len(out) + Len(bytes)) : out'[k] = IF k <= Len(out) THEN out[k] ELSE bytes[k - Len(out)]
    BY <2>1, <2>2, <2>3, ConcatProperties
  <2>5. DecoderTypes'
    BY <1>1, <1>2, <2>1, <2>2, <2>4 DEF DecoderTypes
  <2>6. DecodedSoFar'
    <3>1. Pads(offset)' = Pads(end)
      BY <1>1, <2>1 DEF Pads
    <3>2. Len(pending') = 0 /\ pending_offset' = 0
      BY <1>1, <1>3
    <3>3. 3 * (end \div 4) \in Nat
      BY <2>2
    <3> QED
      BY <2>1, <2>2, <2>4, <3>1, <3>2, <3>3 DEF DecodedSoFar
  <2>7. ASSUME WellFormed(text), NEW k \in 1..Len(out') PROVE out'[k] = Place(k)
    <3>1. CASE k <= Len(out)
      BY <1>2, <2>3, <2>4, <2>7, <3>1 DEF InPlace
    <3>2. CASE k > Len(out)
      <4>1. PICK j \in 1..Len(bytes) : k = Len(out) + j
        <5>1. k - Len(out) \in 1..Len(bytes) /\ k = Len(out) + (k - Len(out))
          BY <2>3, <2>4, <3>2
        <5> QED
          BY <5>1
      <4>2. ~(k <= Len(out)) /\ k - Len(out) = j
        BY <2>3, <4>1
      <4>3. out'[k] = bytes[j]
        BY <2>4, <4>2
      <4> QED
        BY <2>2, <2>7, <4>1, <4>3
    <3> QED
      BY <2>3, <2>4, <3>1, <3>2
  <2>8. InPlace'
    BY <1>1, <1>3, <2>1, <2>7 DEF InPlace
  <2>9. AllTaken'
    BY <1>1, <2>1 DEF AllTaken
  <2> QED
    BY <2>5, <2>6, <2>8, <2>9 DEF DecoderInv
<1> QED
  BY <1>4, <1>5

LEMMA RefillStep == StreamInv /\ Refill => DecoderInv'
<1> SUFFICES ASSUME StreamInv, Refill PROVE DecoderInv'
  OBVIOUS
<1>1. /\ job = "decode" /\ state = "run" /\ offset < Len(text) /\ pending_offset >= Len(pending)
      /\ UNCHANGED <<job, out, text, pending_offset, room>>
  BY DEF Refill
<1>2. DecoderInv /\ DecoderTypes /\ DecodedSoFar /\ InPlace
  BY <1>1 DEF StreamInv, DecoderInv
<1>3. pending_offset = 0 /\ pending = <<>>
  <2>1. Len(pending) \in Nat /\ pending_offset = 0 /\ Len(pending) = 0
    BY <1>1, <1>2 DEF DecoderTypes
  <2> QED
    BY <1>2, <2>1, EmptySeq DEF DecoderTypes
<1>4. CASE ~WellFormed(NextChunk)
  BY <1>1, <1>2, <1>4, BadChunk DEF Refill
<1>5. CASE WellFormed(NextChunk)
  <2> DEFINE end == next_base64_chunk_end(offset)
             bytes == Decode(NextChunk, offset)
  <2>1. pending' = bytes /\ offset' = end /\ UNCHANGED state
    BY <1>5 DEF Refill
  <2>2. /\ end \in 0..Len(text) /\ end % 4 = 0 /\ bytes \in Seq(Bytes)
        /\ Len(out) + Len(bytes) + Cardinality(Pads(end)) = 3 * (end \div 4)
        /\ WellFormed(text) => \A k \in 1..Len(bytes) : bytes[k] = Place(Len(out) + k)
    BY <1>1, <1>2, <1>3, <1>5, ChunkContinues
  <2> HIDE DEF end, bytes
  <2>3. DecoderTypes'
    BY <1>1, <1>2, <1>3, <2>1, <2>2 DEF DecoderTypes
  <2>4. DecodedSoFar'
    <3>1. Pads(offset)' = Pads(end)
      BY <1>1, <2>1 DEF Pads
    <3>2. 3 * (end \div 4) \in Nat
      BY <2>2
    <3> QED
      BY <1>1, <1>3, <2>1, <2>2, <3>1, <3>2 DEF DecodedSoFar
  <2>5. InPlace'
    <3>1. out \in Seq(Bytes) /\ Len(out) \in Nat
      BY <1>2 DEF DecoderTypes
    <3> QED
      BY <1>1, <1>2, <1>3, <2>1, <2>2, <3>1 DEF InPlace
  <2>6. AllTaken'
    BY <1>1, <2>1 DEF AllTaken
  <2> QED
    BY <2>3, <2>4, <2>5, <2>6 DEF DecoderInv
<1> QED
  BY <1>4, <1>5

LEMMA CopyStep == StreamInv /\ Copy => DecoderInv'
<1> SUFFICES ASSUME StreamInv, Copy PROVE DecoderInv'
  OBVIOUS
<1>1. /\ job = "decode" /\ state = "run" /\ room > 0 /\ pending_offset < Len(pending)
      /\ UNCHANGED <<job, state, text, offset>>
  BY DEF Copy
<1>2. DecoderInv /\ DecoderTypes /\ DecodedSoFar /\ InPlace
  BY <1>1 DEF StreamInv, DecoderInv
<1>3. /\ out \in Seq(Bytes) /\ pending \in Seq(Bytes) /\ Len(out) \in Nat /\ Len(pending) \in Nat
      /\ pending_offset \in Nat /\ room \in Nat
  BY <1>2 DEF DecoderTypes
<1> DEFINE available == Len(pending) - pending_offset
           to_copy == IF available < room THEN available ELSE room
<1>4. PICK n \in Nat : n = to_copy /\ n <= available /\ n > 0 /\ n <= room
  <2>1. to_copy \in Nat /\ to_copy <= available /\ to_copy > 0 /\ to_copy <= room
    BY <1>1, <1>3
  <2> QED
    BY <2>1
<1>5. PICK x \in Nat, y \in Nat : x = pending_offset + 1 /\ y = pending_offset + n
  BY <1>3
<1> DEFINE part == SubSeq(pending, x, y)
<1>6. /\ out' = out \o part /\ room' = room - n
      /\ pending' = IF n = available THEN <<>> ELSE pending
      /\ pending_offset' = IF n = available THEN 0 ELSE pending_offset + n
  BY <1>4, <1>5 DEF Copy, CopyPending
<1>7. part \in Seq(Bytes) /\ Len(part) = n /\ \A k \in 1..n : part[k] = pending[pending_offset + k]
  <2>1. \A k \in x..y : pending[k] \in Bytes
    BY <1>1, <1>3, <1>4, <1>5
  <2>2. /\ part \in Seq(Bytes) /\ Len(part) = IF x <= y THEN y - x + 1 ELSE 0
        /\ \A k \in 1..(y - x + 1) : part[k] = pending[x + k - 1]
    BY <2>1, SubSeqProperties
  <2> HIDE DEF part
  <2>3. x <= y /\ y - x + 1 = n
    BY <1>3, <1>4, <1>5
  <2>4. ASSUME NEW k \in 1..n PROVE part[k] = pending[pending_offset + k]
    <3>1. x + k - 1 = pending_offset + k
      BY <1>3, <1>5
    <3> QED
      BY <2>2, <2>3, <3>1
  <2> QED
    BY <2>2, <2>3, <2>4
<1> HIDE DEF part, to_copy
<1>8. /\ out' \in Seq(Bytes) /\ Len(out') = Len(out) + n
      /\ \A k \in 1..(Len(out) + n) : out'[k] = IF k <= Len(out) THEN out[k] ELSE part[k - Len(out)]
  BY <1>3, <1>6, <1>7, ConcatProperties
<1>9. \/ pending' = <<>> /\ Len(pending') = 0 /\ pending_offset' = 0 /\ n = available
      \/ pending' = pending /\ pending_offset' = pending_offset + n /\ pending_offset + n < Len(pending)
  <2>1. CASE n = available
    BY <1>6, <2>1, EmptySeq
  <2>2. CASE n # available
    BY <1>3, <1>4, <1>6, <2>2
  <2> QED
    BY <2>1, <2>2
<1>10. DecoderTypes'
  <2>1. /\ pending' \in Seq(Bytes) /\ pending_offset' \in Nat
        /\ pending_offset' = 0 \/ pending_offset' < Len(pending')
    <3>1. CASE pending' = <<>> /\ pending_offset' = 0
      BY <3>1, EmptySeq
    <3>2. CASE pending' = pending /\ pending_offset' = pending_offset + n /\ pending_offset + n < Len(pending)
      BY <1>3, <3>2
    <3> QED
      BY <1>9, <3>1, <3>2
  <2>2. room' \in Nat
    BY <1>3, <1>4, <1>6
  <2> QED
    BY <1>1, <1>2, <1>8, <2>1, <2>2 DEF DecoderTypes
<1>11. DecodedSoFar'
  <2>1. Pads(offset)' = Pads(offset)
    BY <1>1 DEF Pads
  <2>2. Len(out') + Len(pending') + pending_offset = Len(out) + Len(pending) + pending_offset'
    <3>1. CASE pending' = <<>> /\ Len(pending') = 0 /\ pending_offset' = 0 /\ n = available
      BY <1>3, <1>8, <3>1
    <3>2. CASE pending' = pending /\ pending_offset' = pending_offset + n
      BY <1>3, <1>8, <3>2
    <3> QED
      BY <1>9, <3>1, <3>2
  <2>3. /\ offset % 4 = 0 /\ offset \in Nat
        /\ Len(out) + Len(pending) + Cardinality(Pads(offset)) = pending_offset + 3 * (offset \div 4)
    BY <1>2 DEF DecodedSoFar, DecoderTypes
  <2>4. Cardinality(Pads(offset)) \in Nat
    <3>1. 1 \in Int /\ offset \in Int
      BY <2>3
    <3>2. IsFiniteSet(1..offset) /\ Pads(offset) \in SUBSET (1..offset)
      BY <3>1, FS_Interval DEF Pads
    <3> QED
      BY <3>2, FS_Subset, FS_CardinalityType
  <2>5. PICK total \in Nat : total = 3 * (offset \div 4)
    <3>1. 3 * (offset \div 4) \in Nat
      BY <2>3
    <3> QED
      BY <3>1
  <2>6. Len(pending') \in Nat /\ pending_offset' \in Nat
    BY <1>3, <1>9
  <2>7. Len(out') + Len(pending') + Cardinality(Pads(offset)) = pending_offset' + total
    <3>0. Len(out') \in Nat
      BY <1>8
    <3>1. PICK a \in Nat, b \in Nat, c \in Nat, d \in Nat, p \in Nat,
               e \in Nat, f \in Nat :
            e = pending_offset /\ f = pending_offset' /\ a = Len(out) /\ b = Len(pending)
            /\ c = Len(out') /\ d = Len(pending') /\ p = Cardinality(Pads(offset))
      BY <1>3, <2>4, <2>6, <3>0
    <3>2. c + d + e = a + b + f /\ a + b + p = e + total
      BY <2>2, <2>3, <2>5, <3>1
    <3>3. c + d + p = f + total
      BY <3>2
    <3> QED
      BY <3>1, <3>3
  <2> QED
    BY <1>1, <2>1, <2>3, <2>5, <2>7 DEF DecodedSoFar
<1>12. ASSUME WellFormed(text), NEW k \in 1..Len(out') PROVE out'[k] = Place(k)
  <2>1. CASE k <= Len(out)
    BY <1>2, <1>3, <1>8, <1>12, <2>1 DEF InPlace
  <2>2. CASE k > Len(out)
    <3>1. PICK j \in 1..n : k = Len(out) + j
      <4>1. k - Len(out) \in 1..n /\ k = Len(out) + (k - Len(out))
        BY <1>3, <1>8, <2>2
      <4> QED
        BY <4>1
    <3>2. ~(k <= Len(out)) /\ k - Len(out) = j
      BY <1>3, <3>1
    <3>3. out'[k] = pending[pending_offset + j]
      BY <1>7, <1>8, <3>1, <3>2
    <3>4. PICK i \in 1..Len(pending) : i = pending_offset + j /\ i > pending_offset
      <4>1. pending_offset + j \in 1..Len(pending) /\ pending_offset + j > pending_offset
        BY <1>3, <1>4
      <4> QED
        BY <4>1
    <3>5. Len(out) + i - pending_offset = k
      BY <1>3, <3>1, <3>4
    <3>6. pending[i] = Place(Len(out) + i - pending_offset)
      BY <1>2, <1>12, <3>4 DEF InPlace
    <3> QED
      BY <3>3, <3>4, <3>5, <3>6
  <2> QED
    BY <1>3, <1>8, <2>1, <2>2
<1>13. ASSUME WellFormed(text), NEW i \in 1..Len(pending'), i > pending_offset'
       PROVE  pending'[i] = Place(Len(out') + i - pending_offset')
  <2>1. pending' = pending /\ pending_offset' = pending_offset + n
    BY <1>9, <1>13
  <2>2. i \in 1..Len(pending) /\ i > pending_offset
    BY <1>3, <1>13, <2>1
  <2>3. Len(out') + i - pending_offset' = Len(out) + i - pending_offset
    BY <1>3, <1>8, <2>1
  <2>4. pending[i] = Place(Len(out) + i - pending_offset)
    BY <1>2, <1>13, <2>2 DEF InPlace
  <2> QED
    BY <2>1, <2>3, <2>4
<1>14. InPlace'
  BY <1>1, <1>12, <1>13 DEF InPlace
<1>15. AllTaken'
  BY <1>1 DEF AllTaken
<1> QED
  BY <1>10, <1>11, <1>14, <1>15 DEF DecoderInv

LEMMA DecoderStep == StreamInv /\ [Next]_vars => DecoderInv'
<1> SUFFICES ASSUME StreamInv, [Next]_vars PROVE DecoderInv'
  OBVIOUS
<1>1. CASE Read \/ ReadEnds \/ ReadFails
  BY <1>1 DEF Read, ReadEnds, ReadFails, DecoderInv
<1>2. CASE HashChunk
  BY <1>2, HashChunkStep
<1>3. CASE HashEnds
  <2>1. /\ job = "hash" /\ state = "run" /\ state' = "ok" /\ offset >= Len(text)
        /\ UNCHANGED <<job, out, text, offset, pending, pending_offset, room>>
    BY <1>3 DEF HashEnds, decoder
  <2>2. DecoderInv /\ DecoderTypes
    BY <2>1 DEF StreamInv, DecoderInv
  <2>3. offset = Len(text) /\ pending = <<>> /\ room \in Nat
    BY <2>1, <2>2 DEF DecoderTypes
  <2> QED
    BY <2>1, <2>2, <2>3, DecoderIdle
<1>4. CASE Poll
  <2>1. /\ job = "decode" /\ state = "run" /\ state' = "run" /\ room' \in Nat
        /\ UNCHANGED <<job, out, text, offset, pending, pending_offset>>
    BY <1>4, StreamConstants DEF Poll
  <2>2. DecoderInv
    BY DEF StreamInv
  <2> QED
    BY <2>1, <2>2, DecoderIdle
<1>5. CASE Copy
  BY <1>5, CopyStep
<1>6. CASE Refill
  BY <1>6, RefillStep
<1>7. CASE TextEnds
  <2>1. /\ job = "decode" /\ state = "run" /\ state' \in {"run", "ok"} /\ room' = 0
        /\ offset >= Len(text) /\ pending_offset >= Len(pending)
        /\ UNCHANGED <<job, out, text, offset, pending, pending_offset>>
    BY <1>7 DEF TextEnds
  <2>2. DecoderInv /\ DecoderTypes
    BY <2>1 DEF StreamInv, DecoderInv
  <2>3. offset = Len(text)
    BY <2>1, <2>2 DEF DecoderTypes
  <2>4. pending = <<>>
    <3>1. Len(pending) = 0
      BY <2>1, <2>2 DEF DecoderTypes
    <3> QED
      BY <2>2, <3>1, EmptySeq DEF DecoderTypes
  <2> QED
    BY <2>1, <2>2, <2>3, <2>4, DecoderIdle
<1>8. CASE UNCHANGED vars
  <2>1. Pads(offset)' = Pads(offset)
    BY <1>8 DEF vars, decoder, Pads
  <2> QED
    BY <1>8, <2>1 DEF vars, decoder, StreamInv, DecoderInv, DecoderTypes, DecodedSoFar, InPlace, AllTaken
<1> QED
  BY <1>1, <1>2, <1>3, <1>4, <1>5, <1>6, <1>7, <1>8 DEF Next

--------------------------------------------------------------------------------
(* Theorems *)

\* The invariant of both streams: what has been written, hashed or delivered is
\* the conversion of what has been taken, whatever the cuts (write_blob_as_base64,
\* sha256_hex_base64, Base64DecodedReader).
THEOREM StreamInvariant == Spec => []StreamInv
<1>1. StreamInv /\ [Next]_vars => StreamInv'
  BY EncoderStep, DecoderStep DEF StreamInv
<1> QED
  BY <1>1, StreamInit, PTL DEF Spec

\* For any blob and any cut by the reads of write_blob_as_base64, the body has
\* the encoding of the whole blob, and content-length is its length.
THEOREM BlobsEncodedWhole == Spec => []EncodedAsWhole
<1>1. StreamInv => EncodedAsWhole
  BY DEF StreamInv, EncoderInv, EncodedAsWhole
<1> QED
  BY <1>1, StreamInvariant, PTL

\* The whole of a text that has been taken, with the length that
\* decoded_base64_len declares, or less than that if the text is no base64.
LEMMA TakenAsDeclared ==
    ASSUME DecoderTypes, DecodedSoFar, InPlace, offset = Len(text), pending = <<>>
    PROVE  /\ WellFormed(text) => out = Decode(text, 0) /\ Len(out) = decoded_base64_len
           /\ ~WellFormed(text) => Len(out) < decoded_base64_len
<1>1. /\ text \in Seq(Chars) /\ out \in Seq(Bytes) /\ Len(out) \in Nat /\ pending_offset = 0 /\ Len(pending) = 0
  BY DEF DecoderTypes
<1>2. PICK n \in Nat, q \in Nat : n = Len(text) /\ n = 4 * q /\ n \div 4 = q
  <2>1. Len(text) \in Nat /\ Len(text) % 4 = 0
    BY <1>1 DEF DecodedSoFar
  <2>2. Len(text) = 4 * (Len(text) \div 4) /\ Len(text) \div 4 \in Nat
    BY <2>1
  <2> QED
    BY <2>1, <2>2
<1>3. Pads(offset) = {k \in DOMAIN text : text[k] = Pad}
  BY <1>1 DEF Pads
<1>4. Padding(text) \in Nat /\ Cardinality(Pads(offset)) = Padding(text)
  <2>1. Padding(text) \in Nat
    BY <1>1, PadsFinite
  <2> QED
    BY <1>3, <2>1 DEF Padding
<1>5. Len(out) + Padding(text) = 3 * q
  BY <1>1, <1>2, <1>4 DEF DecodedSoFar
<1>6. CASE n = 0
  <2>1. text = <<>>
    BY <1>1, <1>2, <1>6, EmptySeq
  <2>2. Padding(text) = 0 /\ Len(out) = 0
    BY <1>1, <1>2, <1>4, <1>5, <1>6
  <2>3. WellFormed(text)
    <3>1. DOMAIN text = 1..0
      BY <1>1, <1>2, <1>6, LenProperties
    <3>2. Len(text) % 4 = 0
      BY <1>2
    <3> QED
      BY <3>1, <3>2 DEF WellFormed
  <2>4. decoded_base64_len = 0
    BY <2>1 DEF decoded_base64_len
  <2>5. out = Decode(text, 0)
    <3>1. (Len(text) \div 4) * 3 - Padding(text) = 0
      BY <1>2, <1>6, <2>2
    <3>2. Decode(text, 0) = [k \in 1..0 |-> <<(0 \div 4) + ((k + 2) \div 3), ((k - 1) % 3) + 1>>]
      BY <3>1 DEF Decode
    <3>3. out = <<>>
      BY <1>1, <2>2, EmptySeq
    <3> QED
      BY <3>2, <3>3
  <2> QED
    BY <2>2, <2>3, <2>4, <2>5
<1>7. CASE n > 0
  <2>1. n > 1 /\ n % 4 = 0 /\ q > 0
    BY <1>2, <1>7
  <2>2. /\ WellFormed(text) => Padding(text) = Tail2(text)
        /\ ~WellFormed(text) => Padding(text) > Tail2(text)
    BY <1>1, <1>2, <2>1, PaddingAtTheEnd
  <2>3. text # <<>>
    <3>1. text = <<>> => Len(text) = 0
      BY EmptySeq, Zenon
    <3> QED
      BY <1>2, <1>7, <3>1
  <2>4. decoded_base64_len = q * 3 - Tail2(text) /\ Tail2(text) \in Nat
    BY <1>2, <2>3 DEF decoded_base64_len, Tail2
  <2>5. ASSUME WellFormed(text) PROVE out = Decode(text, 0)
    <3> DEFINE all == Decode(text, 0)
    <3>1. DecodedRight(text, n, 0, 0)
      <4>1. 0 = 4 * 0
        OBVIOUS
      <4> QED
        BY <1>1, <1>2, <1>7, <2>5, <4>1, DecodedChunk
    <3>2. all \in Seq(Bytes) /\ Len(all) + Padding(text) = 3 * q
          /\ \A k \in 1..Len(all) : all[k] = Place(3 * 0 + k)
      BY <1>2, <3>1 DEF DecodedRight
    <3> HIDE DEF all
    <3>3. Len(all) = Len(out)
      BY <1>1, <1>4, <1>5, <3>2
    <3>4. \A k \in 1..Len(out) : out[k] = Place(k)
      BY <2>5 DEF InPlace
    <3>5. ASSUME NEW k \in 1..Len(out) PROVE out[k] = all[k]
      <4>1. 3 * 0 + k = k
        BY <1>1
      <4> QED
        BY <3>2, <3>3, <3>4, <4>1
    <3>6. out = all
      BY <1>1, <3>2, <3>3, <3>5, SeqEqual
    <3> QED
      BY <3>6 DEF all
  <2> QED
    BY <1>1, <1>4, <1>5, <2>2, <2>4, <2>5
<1> QED
  BY <1>2, <1>6, <1>7

\* For any text and any cut by the chunks of sha256_hex_base64 and the buffers
\* of poll_read, what is hashed and what is delivered is the whole decoding in
\* the length declared; what is no base64 fails or falls short of that length.
THEOREM TextsDecodedAsDeclared == Spec => []DecodedAsDeclared
<1>1. StreamInv => DecodedAsDeclared
  <2> SUFFICES ASSUME StreamInv, job \in {"hash", "decode"}
               PROVE  /\ WellFormed(text) =>
                           /\ state # "error"
                           /\ state = "ok" => out = Decode(text, 0) /\ Len(out) = decoded_base64_len
                      /\ ~WellFormed(text) /\ state = "ok" => Len(out) < decoded_base64_len
    BY DEF DecodedAsDeclared
  <2>1. DecoderTypes /\ DecodedSoFar /\ InPlace /\ AllTaken
    BY DEF StreamInv, DecoderInv
  <2>2. CASE state = "ok"
    <3>1. offset = Len(text) /\ pending = <<>>
      BY <2>1, <2>2 DEF AllTaken
    <3> QED
      BY <2>1, <2>2, <3>1, TakenAsDeclared
  <2>3. CASE state # "ok"
    BY <2>1, <2>3 DEF InPlace
  <2> QED
    BY <2>2, <2>3
<1> QED
  BY <1>1, StreamInvariant, PTL
================================================================================
