---------------------------- MODULE MessageProofs ----------------------------
(***************************************************************************)
(* Proofs about Messages, for every offer, every message a server sends    *)
(* and every damage to it.                                                 *)
(*                                                                         *)
(* The writers and the readers of the codecs are inverse: what is written  *)
(* is read back, and what is read spells out the bytes.  This is proved of *)
(* numbers in up to three bytes and of vectors behind a length; then of    *)
(* loops over elements, for any Reader that takes what its encoder has     *)
(* written and nothing else; and so of the lists of extensions, of key     *)
(* shares and of certificates, of each message of a server, and of the     *)
(* hello of the client.                                                    *)
(*                                                                         *)
(* ReadAll, Value and the like are recursive functions.  The provers do    *)
(* not know that such a definition has a solution, so each is shown to     *)
(* have one before it is expanded: the lemmas that end in Exists.          *)
(***************************************************************************)
EXTENDS Messages, SequenceLemmas

-----------------------------------------------------------------------------
(* Numbers in bytes.                                                       *)

\* f is what Value computes of some of the first n bytes.
Folds(f, bytes, n) ==
  f = [S \in SUBSET (1 .. n) |->
         IF S = {} THEN 0 ELSE 256 * f[S \ {Max(S)}] + bytes[Max(S)]]

\* Max of a set of places is one of them, and none is larger.
LEMMA MaxIsLargest ==
  ASSUME NEW n \in Nat, NEW S \in SUBSET (1 .. n), S # {}
  PROVE  /\ Max(S) \in S /\ Max(S) \in 1 .. n
         /\ \A k \in S : k <= Max(S)
<1>1. PICK m \in S : \A k \in S : k <= m
  BY LargestNumber
<1>2. m \in S /\ \A k \in S : m >= k
  BY <1>1
<1>3. Max(S) \in S /\ \A k \in S : Max(S) >= k
  BY <1>2, Zenon DEF Max
<1> QED
  BY <1>3

\* Functions with the same domain and the same values are equal.
LEMMA SameFunction ==
  ASSUME NEW D, NEW f, NEW g, f = [x \in D |-> f[x]], g = [x \in D |-> g[x]],
         \A x \in D : f[x] = g[x]
  PROVE  f = g
OBVIOUS

\* The recursion in Value has a solution, for bytes of any length.
LEMMA FoldExists ==
  ASSUME NEW bytes, NEW n \in Nat
  PROVE  \E f : Folds(f, bytes, n)
<1> DEFINE T == {m \in Nat : \E f : Folds(f, bytes, m)}
<1>1. 0 \in T
  <2> DEFINE g == [S \in SUBSET (1 .. 0) |-> 0]
             h == [S \in SUBSET (1 .. 0) |->
                    IF S = {} THEN 0 ELSE 256 * g[S \ {Max(S)}] + bytes[Max(S)]]
  <2>1. \A S \in SUBSET (1 .. 0) : S = {}
    OBVIOUS
  <2>2. g = h
    BY <2>1
  <2>3. Folds(g, bytes, 0)
    BY <2>2, Zenon DEF Folds
  <2> QED
    BY <2>3
<1>2. ASSUME NEW m \in T PROVE m + 1 \in T
  <2>1. PICK f : Folds(f, bytes, m)
    OBVIOUS
  <2> DEFINE g == [S \in SUBSET (1 .. m + 1) |->
                     IF m + 1 \in S THEN 256 * f[S \ {m + 1}] + bytes[m + 1] ELSE f[S]]
             h == [S \in SUBSET (1 .. m + 1) |->
                    IF S = {} THEN 0 ELSE 256 * g[S \ {Max(S)}] + bytes[Max(S)]]
  <2>2. ASSUME NEW S \in SUBSET (1 .. m + 1) PROVE g[S] = h[S]
    <3>1. CASE S = {}
      <4>1. S \in SUBSET (1 .. m) /\ m + 1 \notin S
        BY <3>1
      <4>2. f[S] = 0
        BY <2>1, <3>1, <4>1, Zenon DEF Folds
      <4> QED
        BY <3>1, <4>1, <4>2
    <3>2. CASE S # {} /\ m + 1 \in S
      <4>1. Max(S) \in S /\ Max(S) \in 1 .. m + 1 /\ \A k \in S : k <= Max(S)
        BY <3>2, MaxIsLargest
      <4>2. Max(S) = m + 1
        BY <3>2, <4>1
      <4>3. S \ {m + 1} \in SUBSET (1 .. m + 1) /\ m + 1 \notin S \ {m + 1}
        OBVIOUS
      <4>4. g[S \ {m + 1}] = f[S \ {m + 1}]
        BY <4>3, Zenon
      <4> QED
        BY <3>2, <4>2, <4>4, Zenon
    <3>3. CASE S # {} /\ m + 1 \notin S
      <4>1. S \in SUBSET (1 .. m)
        BY <3>3
      <4>2. S \ {Max(S)} \in SUBSET (1 .. m + 1) /\ m + 1 \notin S \ {Max(S)}
        BY <3>3
      <4>3. g[S] = f[S] /\ g[S \ {Max(S)}] = f[S \ {Max(S)}]
        BY <3>3, <4>2, Zenon
      <4>4. f[S] = 256 * f[S \ {Max(S)}] + bytes[Max(S)]
        BY <2>1, <3>3, <4>1, Zenon DEF Folds
      <4> QED
        BY <3>3, <4>3, <4>4, Zenon
    <3> QED
      BY <3>1, <3>2, <3>3
  <2>3. g = h
    <3> DEFINE D == SUBSET (1 .. m + 1)
    <3>1. g = [S \in D |-> g[S]]
      OBVIOUS
    <3>2. h = [S \in D |-> h[S]]
      OBVIOUS
    <3> HIDE DEF g, h
    <3> QED
      BY <2>2, <3>1, <3>2, SameFunction, Zenon
  <2>4. Folds(g, bytes, m + 1)
    BY <2>3, Zenon DEF Folds
  <2> HIDE DEF g, h
  <2>5. m + 1 \in Nat
    OBVIOUS
  <2> QED
    BY <2>4, <2>5
<1> HIDE DEF T
<1>3. T = Nat
  <2>1. T \in SUBSET Nat
    BY DEF T
  <2> QED
    BY <1>1, <1>2, <2>1, SetInduction
<1> QED
  BY <1>3 DEF T

\* Value is the solution at the set of all places.
LEMMA ValueIsFold ==
  ASSUME NEW bytes \in Seq(Byte)
  PROVE  \E f : Folds(f, bytes, Len(bytes)) /\ Value(bytes) = f[1 .. Len(bytes)]
<1> DEFINE F == CHOOSE f : Folds(f, bytes, Len(bytes))
<1>1. Len(bytes) \in Nat /\ DOMAIN bytes = 1 .. Len(bytes)
  BY LenProperties
<1>2. Folds(F, bytes, Len(bytes))
  BY <1>1, FoldExists
<1>3. Value(bytes) = F[1 .. Len(bytes)]
  BY <1>1 DEF Value, FoldLeft, MapThenFoldSet, Folds
<1> HIDE DEF F
<1> QED
  BY <1>2, <1>3

\* One byte more.
LEMMA FoldSteps ==
  ASSUME NEW bytes, NEW n \in Nat, NEW f, Folds(f, bytes, n), NEW m \in 0 .. n - 1
  PROVE  f[1 .. m + 1] = 256 * f[1 .. m] + bytes[m + 1]
<1>1. 1 .. m + 1 \in SUBSET (1 .. n) /\ 1 .. m + 1 # {} /\ m + 1 \in 1 .. m + 1
  OBVIOUS
<1>2. Max(1 .. m + 1) = m + 1
  <2>1. Max(1 .. m + 1) \in 1 .. m + 1 /\ \A k \in 1 .. m + 1 : k <= Max(1 .. m + 1)
    BY <1>1, MaxIsLargest
  <2> QED
    BY <1>1, <2>1
<1>3. (1 .. m + 1) \ {m + 1} = 1 .. m
  OBVIOUS
<1>4. f[1 .. m + 1] = 256 * f[(1 .. m + 1) \ {Max(1 .. m + 1)}] + bytes[Max(1 .. m + 1)]
  BY <1>1, Zenon DEF Folds
<1> QED
  BY <1>2, <1>3, <1>4

\* Of no bytes it is zero.
LEMMA FoldOfNothing ==
  ASSUME NEW bytes, NEW n \in Nat, NEW f, Folds(f, bytes, n)
  PROVE  f[1 .. 0] = 0
<1>1. 1 .. 0 = {} /\ {} \in SUBSET (1 .. n)
  OBVIOUS
<1>2. f[{}] = 0
  BY <1>1, Zenon DEF Folds
<1> QED
  BY <1>1, <1>2

\* v[m] is what the first m bytes come to.
Adds(v, bytes, n) ==
  v[0] = 0 /\ \A m \in 1 .. n : v[m] = 256 * v[m - 1] + bytes[m]

\* Value as the loop in the code computes it: 256 times what it has, and
\* the next byte.
LEMMA ValueAdds ==
  ASSUME NEW bytes \in Seq(Byte), NEW n \in Nat, n = Len(bytes)
  PROVE  \E v : Adds(v, bytes, n) /\ Value(bytes) = v[n]
<1>1. PICK f : Folds(f, bytes, n) /\ Value(bytes) = f[1 .. n]
  BY ValueIsFold
<1> DEFINE v == [m \in 0 .. n |-> f[1 .. m]]
<1>2. v[0] = 0 /\ v[n] = f[1 .. n]
  <2>1. f[1 .. 0] = 0
    BY <1>1, FoldOfNothing, Zenon
  <2>2. 0 \in 0 .. n /\ n \in 0 .. n
    OBVIOUS
  <2> QED
    BY <2>1, <2>2, Zenon
<1>3. ASSUME NEW m \in 1 .. n PROVE v[m] = 256 * v[m - 1] + bytes[m]
  <2>1. m - 1 \in 0 .. n - 1 /\ (m - 1) + 1 = m /\ m \in 0 .. n /\ m - 1 \in 0 .. n
    OBVIOUS
  <2>2. f[1 .. (m - 1) + 1] = 256 * f[1 .. m - 1] + bytes[(m - 1) + 1]
    BY <1>1, <2>1, FoldSteps
  <2> QED
    BY <2>1, <2>2, Zenon
<1> HIDE DEF v
<1>4. Adds(v, bytes, n)
  BY <1>2, <1>3, Zenon DEF Adds
<1> QED
  BY <1>1, <1>2, <1>4

\* No bytes are zero.
LEMMA ValueOfNone == Value(<<>>) = 0
<1>1. PICK bytes \in Seq(Byte) : bytes = <<>> /\ 0 = Len(bytes)
  BY EmptySeq
<1>2. PICK v : Adds(v, bytes, 0) /\ Value(bytes) = v[0]
  BY <1>1, ValueAdds
<1> QED
  BY <1>1, <1>2 DEF Adds

\* A byte is a number below 256.
LEMMA ByteAt ==
  ASSUME NEW bytes \in Seq(Byte), NEW i \in 1 .. Len(bytes)
  PROVE  bytes[i] \in 0 .. 255
<1>1. bytes[i] \in Byte
  BY ElementOfSeq
<1> QED
  BY <1>1 DEF Byte

\* What up to three bytes come to.
OfOne(bytes, n, a)         == bytes[1] = a /\ n = a
OfTwo(bytes, n, a, b)      == bytes[1] = a /\ bytes[2] = b /\ n = 256 * a + b
OfThree(bytes, n, a, b, c) ==
  bytes[1] = a /\ bytes[2] = b /\ bytes[3] = c /\ n = 65536 * a + 256 * b + c

\* Value of one byte, of two and of three: the widths the codecs use.
LEMMA ValueOfOne ==
  ASSUME NEW bytes \in Seq(Byte), Len(bytes) = 1
  PROVE  \E a \in 0 .. 255 : OfOne(bytes, Value(bytes), a)
<1>1. 1 \in 1 .. Len(bytes)
  OBVIOUS
<1>2. PICK a \in 0 .. 255 : a = bytes[1]
  BY <1>1, ByteAt
<1>3. PICK v : Adds(v, bytes, 1) /\ Value(bytes) = v[1]
  BY ValueAdds
<1>4. v[0] = 0 /\ v[1] = 256 * v[0] + bytes[1]
  BY <1>3 DEF Adds
<1>5. OfOne(bytes, Value(bytes), a)
  BY <1>2, <1>3, <1>4 DEF OfOne
<1> QED
  BY <1>5

\* The same of two bytes.
LEMMA ValueOfTwo ==
  ASSUME NEW bytes \in Seq(Byte), Len(bytes) = 2
  PROVE  \E a, b \in 0 .. 255 : OfTwo(bytes, Value(bytes), a, b)
<1>1. 1 \in 1 .. Len(bytes) /\ 2 \in 1 .. Len(bytes)
  OBVIOUS
<1>2. bytes[1] \in 0 .. 255 /\ bytes[2] \in 0 .. 255
  <2>1. \A i \in 1 .. Len(bytes) : bytes[i] \in 0 .. 255
    BY ByteAt
  <2> QED
    BY <1>1, <2>1
<1>3. PICK a \in 0 .. 255, b \in 0 .. 255 : a = bytes[1] /\ b = bytes[2]
  BY <1>2
<1>4. PICK v : Adds(v, bytes, 2) /\ Value(bytes) = v[2]
  BY ValueAdds
<1>5. v[0] = 0 /\ v[1] = 256 * v[0] + bytes[1] /\ v[2] = 256 * v[1] + bytes[2]
  BY <1>4 DEF Adds
<1>6. OfTwo(bytes, Value(bytes), a, b)
  BY <1>3, <1>4, <1>5 DEF OfTwo
<1> QED
  BY <1>6

\* The same of three bytes.
LEMMA ValueOfThree ==
  ASSUME NEW bytes \in Seq(Byte), Len(bytes) = 3
  PROVE  \E a, b, c \in 0 .. 255 : OfThree(bytes, Value(bytes), a, b, c)
<1>1. 1 \in 1 .. Len(bytes) /\ 2 \in 1 .. Len(bytes) /\ 3 \in 1 .. Len(bytes)
  OBVIOUS
<1>2. bytes[1] \in 0 .. 255 /\ bytes[2] \in 0 .. 255 /\ bytes[3] \in 0 .. 255
  <2>1. \A i \in 1 .. Len(bytes) : bytes[i] \in 0 .. 255
    BY ByteAt
  <2> QED
    BY <1>1, <2>1
<1>3. PICK a \in 0 .. 255, b \in 0 .. 255, c \in 0 .. 255 :
        a = bytes[1] /\ b = bytes[2] /\ c = bytes[3]
  BY <1>2
<1>4. PICK v : Adds(v, bytes, 3) /\ Value(bytes) = v[3]
  BY ValueAdds
<1>5. /\ v[0] = 0 /\ v[1] = 256 * v[0] + bytes[1]
      /\ v[2] = 256 * v[1] + bytes[2] /\ v[3] = 256 * v[2] + bytes[3]
  BY <1>4 DEF Adds
<1>6. OfThree(bytes, Value(bytes), a, b, c)
  BY <1>3, <1>4, <1>5 DEF OfThree
<1> QED
  BY <1>6

\* AddUint8, AddUint16 and AddUint24 write as many bytes as their name says.
LEMMA NumberTyped ==
  ASSUME NEW width \in 1 .. 3, NEW n \in Nat
  PROVE  Number(width, n) \in Seq(Byte) /\ Len(Number(width, n)) = width
<1>1. ASSUME NEW i \in 1 .. width PROVE (n \div 256 ^ (width - i)) % 256 \in Byte
  <2>1. PICK q \in Nat : q = n \div 256 ^ (width - i)
    <3>1. width - i \in {0, 1, 2}
      OBVIOUS
    <3>2. n \div 1 \in Nat /\ n \div 256 \in Nat /\ n \div 65536 \in Nat
      OBVIOUS
    <3>3. 256 ^ 0 = 1 /\ 256 ^ 1 = 256 /\ 256 ^ 2 = 65536
      OBVIOUS
    <3>4. PICK e \in {0, 1, 2} : e = width - i
      BY <3>1
    <3>5. e = 0 => n \div 256 ^ e \in Nat
      BY <3>2, <3>3
    <3>6. e = 1 => n \div 256 ^ e \in Nat
      BY <3>2, <3>3
    <3>7. e = 2 => n \div 256 ^ e \in Nat
      BY <3>2, <3>3
    <3> QED
      BY <3>4, <3>5, <3>6, <3>7
  <2> QED
    BY <2>1 DEF Byte
<1> QED
  BY <1>1 DEF Number

\* A number that fits in its bytes is read from them.
Denotes(bytes, n) == Value(bytes) = n

\* What they write is read back, if it fits.
LEMMA NumberRead ==
  ASSUME NEW width \in 1 .. 3, NEW n \in Nat, n < 256 ^ width
  PROVE  Denotes(Number(width, n), n)
<1> DEFINE b == Number(width, n)
<1>1. b \in Seq(Byte) /\ Len(b) = width
  BY NumberTyped
<1>2. \A i \in 1 .. width : b[i] = (n \div 256 ^ (width - i)) % 256
  BY DEF Number
<1> HIDE DEF b
<1>3. CASE width = 1
  <2>1. PICK a \in 0 .. 255 : OfOne(b, Value(b), a)
    BY <1>1, <1>3, ValueOfOne
  <2>2. b[1] = n % 256 /\ n < 256
    BY <1>2, <1>3
  <2> QED
    BY <2>1, <2>2 DEF Denotes, OfOne, b
<1>4. CASE width = 2
  <2>1. PICK a1, a2 \in 0 .. 255 : OfTwo(b, Value(b), a1, a2)
    BY <1>1, <1>4, ValueOfTwo
  <2>2. b[1] = (n \div 256) % 256 /\ b[2] = n % 256 /\ n < 65536
    BY <1>2, <1>4
  <2> QED
    BY <2>1, <2>2 DEF Denotes, OfTwo, b
<1>5. CASE width = 3
  <2>1. PICK a1, a2, a3 \in 0 .. 255 : OfThree(b, Value(b), a1, a2, a3)
    BY <1>1, <1>5, ValueOfThree
  <2>2. b[1] = (n \div 65536) % 256 /\ b[2] = (n \div 256) % 256 /\ b[3] = n % 256
        /\ n < 16777216
    BY <1>2, <1>5, SMT
  <2> QED
    BY <2>1, <2>2, SMT DEF Denotes, OfThree, b
<1> QED
  BY <1>3, <1>4, <1>5

\* And the bytes are those of the number they come to.
Spells(bytes, n) == Number(Len(bytes), n) = bytes

\* What is read is written back as the same bytes.
LEMMA ValueSpelled ==
  ASSUME NEW bytes \in Seq(Byte), Len(bytes) \in 1 .. 3
  PROVE  /\ Value(bytes) \in Nat /\ Value(bytes) < 256 ^ Len(bytes)
         /\ Spells(bytes, Value(bytes))
<1>1. PICK v : v = Value(bytes)
  OBVIOUS
<1>2. ASSUME NEW w \in 1 .. 3, Len(bytes) = w, v \in Nat,
             \A i \in 1 .. w : (v \div 256 ^ (w - i)) % 256 = bytes[i]
      PROVE  Spells(bytes, v)
  <2>1. Number(w, v) \in Seq(Byte) /\ Len(Number(w, v)) = w
    BY <1>2, NumberTyped
  <2>2. \A i \in 1 .. w : Number(w, v)[i] = bytes[i]
    BY <1>2 DEF Number
  <2>3. Number(w, v) = bytes
    BY <1>2, <2>1, <2>2, SeqEqual
  <2> QED
    BY <1>2, <2>3 DEF Spells
<1>3. CASE Len(bytes) = 1
  <2>1. PICK a \in 0 .. 255 : OfOne(bytes, v, a)
    BY <1>1, <1>3, ValueOfOne
  <2>2. v \in Nat /\ v < 256 /\ v % 256 = bytes[1]
    BY <2>1 DEF OfOne
  <2>3. \A i \in 1 .. 1 : (v \div 256 ^ (1 - i)) % 256 = bytes[i]
    BY <2>2
  <2>4. Spells(bytes, v)
    BY <1>2, <1>3, <2>2, <2>3
  <2> QED
    BY <1>1, <1>3, <2>2, <2>4
<1>4. CASE Len(bytes) = 2
  <2>1. PICK a, b \in 0 .. 255 : OfTwo(bytes, v, a, b)
    BY <1>1, <1>4, ValueOfTwo
  <2>2. v \in Nat /\ v < 65536 /\ (v \div 256) % 256 = bytes[1] /\ v % 256 = bytes[2]
    BY <2>1 DEF OfTwo
  <2>3. ASSUME NEW i \in 1 .. 2 PROVE (v \div 256 ^ (2 - i)) % 256 = bytes[i]
    <3>1. CASE i = 1
      BY <2>2, <3>1
    <3>2. CASE i = 2
      BY <2>2, <3>2
    <3> QED
      BY <3>1, <3>2
  <2>4. Spells(bytes, v)
    BY <1>2, <1>4, <2>2, <2>3
  <2> QED
    BY <1>1, <1>4, <2>2, <2>4
<1>5. CASE Len(bytes) = 3
  <2>1. PICK a, b, c \in 0 .. 255 : OfThree(bytes, v, a, b, c)
    BY <1>1, <1>5, ValueOfThree
  <2>2. v \in Nat /\ v < 16777216 /\ (v \div 65536) % 256 = bytes[1]
        /\ (v \div 256) % 256 = bytes[2] /\ v % 256 = bytes[3]
    <3>1. bytes[1] = a /\ bytes[2] = b /\ bytes[3] = c
      BY <2>1 DEF OfThree
    <3>2. PICK u \in Nat : u = 256 * a + b
      OBVIOUS
    <3>3. v = 256 * u + c
      BY <2>1, <3>2 DEF OfThree
    <3>4. v \in Nat /\ v < 16777216
      BY <3>2, <3>3
    <3>5. v \div 256 = u /\ v % 256 = c
      BY <3>2, <3>3
    <3>6. u % 256 = b
      BY <3>2
    <3>7. v \div 65536 = a
      BY <3>2, <3>3
    <3>8. a % 256 = a
      OBVIOUS
    <3>9. (v \div 65536) % 256 = bytes[1]
      BY <3>1, <3>7, <3>8
    <3>10. (v \div 256) % 256 = bytes[2]
      BY <3>1, <3>5, <3>6
    <3>11. v % 256 = bytes[3]
      BY <3>1, <3>5
    <3> QED
      BY <3>4, <3>9, <3>10, <3>11
  <2>3. ASSUME NEW i \in 1 .. 3 PROVE (v \div 256 ^ (3 - i)) % 256 = bytes[i]
    <3>1. CASE i = 1
      BY <2>2, <3>1, SMT
    <3>2. CASE i = 2
      BY <2>2, <3>2, SMT
    <3>3. CASE i = 3
      BY <2>2, <3>3, SMT
    <3> QED
      BY <3>1, <3>2, <3>3
  <2>4. Spells(bytes, v)
    BY <1>2, <1>5, <2>2, <2>3, SMT
  <2> QED
    BY <1>1, <1>5, <2>2, <2>4, SMT
<1> QED
  BY <1>3, <1>4, <1>5

-----------------------------------------------------------------------------
(* The readers and the writers of vectors.                                 *)

ByteString == Seq(Byte)

\* A sequence in two parts.
Joins(whole, front, back) == whole = front \o back

\* A sequence is its front and what is behind it.
LEMMA FrontAndBack ==
  ASSUME NEW S, NEW whole \in Seq(S), NEW n \in 0 .. Len(whole)
  PROVE  /\ SubSeq(whole, 1, n) \in Seq(S) /\ Len(SubSeq(whole, 1, n)) = n
         /\ SubSeq(whole, n + 1, Len(whole)) \in Seq(S)
         /\ Len(SubSeq(whole, n + 1, Len(whole))) = Len(whole) - n
         /\ Joins(whole, SubSeq(whole, 1, n), SubSeq(whole, n + 1, Len(whole)))
<1> DEFINE a == SubSeq(whole, 1, n)
           b == SubSeq(whole, n + 1, Len(whole))
<1>1. PICK l \in Nat : l = Len(whole) /\ n \in 0 .. l
  BY LenProperties
<1>2. /\ a \in Seq(S) /\ Len(a) = n /\ \A i \in 1 .. n : a[i] = whole[i]
  BY <1>1
<1>3. /\ b \in Seq(S) /\ Len(b) = l - n /\ \A i \in 1 .. l - n : b[i] = whole[n + i]
  BY <1>1
<1> HIDE DEF a, b
<1>4. /\ a \o b \in Seq(S) /\ Len(a \o b) = l
      /\ \A i \in 1 .. l : (a \o b)[i] = IF i <= n THEN a[i] ELSE b[i - n]
  BY <1>1, <1>2, <1>3, ConcatProperties
<1>5. ASSUME NEW i \in 1 .. l PROVE (a \o b)[i] = whole[i]
  <2>1. CASE i <= n
    BY <1>2, <1>4, <2>1
  <2>2. CASE ~(i <= n)
    <3>1. i - n \in 1 .. l - n /\ n + (i - n) = i
      BY <1>1, <2>2
    <3> QED
      BY <1>3, <1>4, <2>2, <3>1
  <2> QED
    BY <2>1, <2>2
<1>6. a \o b = whole
  BY <1>1, <1>4, <1>5, SeqEqual
<1> QED
  BY <1>1, <1>2, <1>3, <1>6 DEF Joins, a, b

\* Two sequences joined are found again in front and behind.
LEMMA PartsOfJoin ==
  ASSUME NEW S, NEW front \in Seq(S), NEW back \in Seq(S)
  PROVE  /\ front \o back \in Seq(S)
         /\ Len(front \o back) = Len(front) + Len(back)
         /\ SubSeq(front \o back, 1, Len(front)) = front
         /\ SubSeq(front \o back, Len(front) + 1, Len(front \o back)) = back
<1>1. PICK m \in Nat, n \in Nat : m = Len(front) /\ n = Len(back)
  BY LenProperties
<1>2. PICK w : w = front \o back
  OBVIOUS
<1>3. /\ w \in Seq(S) /\ Len(w) = m + n
      /\ \A i \in 1 .. m + n : w[i] = IF i <= m THEN front[i] ELSE back[i - m]
  BY <1>1, <1>2, ConcatProperties
<1>4. PICK a : a = SubSeq(w, 1, m)
  OBVIOUS
<1>5. PICK b : b = SubSeq(w, m + 1, m + n)
  OBVIOUS
<1>6. a \in Seq(S) /\ Len(a) = m /\ \A i \in 1 .. m : a[i] = w[i]
  BY <1>3, <1>4
<1>7. b \in Seq(S) /\ Len(b) = n /\ \A i \in 1 .. n : b[i] = w[m + i]
  BY <1>3, <1>5
<1>8. \A i \in 1 .. m : a[i] = front[i]
  BY <1>3, <1>6
<1>9. ASSUME NEW i \in 1 .. n PROVE b[i] = back[i]
  <2>1. m + i \in 1 .. m + n /\ ~(m + i <= m) /\ (m + i) - m = i
    OBVIOUS
  <2> QED
    BY <1>3, <1>7, <2>1
<1>10. a = front /\ b = back
  BY <1>1, <1>6, <1>7, <1>8, <1>9, SeqEqual
<1> QED
  BY <1>1, <1>2, <1>3, <1>4, <1>5, <1>10

\* What a reader returns: something read, with bytes behind it, or nothing.
IsRead(r) == r.ok \in BOOLEAN /\ r.value \in ByteString /\ r.rest \in ByteString

HasRead(r, value, rest) == r.ok /\ r.value = value /\ r.rest = rest

\* What Read has read is the front of the bytes.
LEMMA ReadSplits ==
  ASSUME NEW width \in Nat, NEW bytes \in ByteString
  PROVE  /\ IsRead(Read(width, bytes))
         /\ Read(width, bytes).ok <=> width <= Len(bytes)
         /\ ~Read(width, bytes).ok => Read(width, bytes).value = <<>>
         /\ Read(width, bytes).ok =>
              /\ Len(Read(width, bytes).value) = width
              /\ Joins(bytes, Read(width, bytes).value, Read(width, bytes).rest)
<1>1. Len(bytes) \in Nat
  BY LenProperties DEF ByteString
<1>2. CASE Len(bytes) < width
  <2>1. <<>> \in ByteString
    BY EmptySeq DEF ByteString
  <2>2. Read(width, bytes) = [ok |-> FALSE, value |-> <<>>, rest |-> bytes]
    BY <1>2 DEF Read
  <2> QED
    BY <1>1, <1>2, <2>1, <2>2 DEF IsRead
<1>3. CASE ~(Len(bytes) < width)
  <2>1. width \in 0 .. Len(bytes)
    BY <1>1, <1>3
  <2>2. PICK a, b : a = SubSeq(bytes, 1, width) /\ b = SubSeq(bytes, width + 1, Len(bytes))
    OBVIOUS
  <2>3. a \in ByteString /\ Len(a) = width /\ b \in ByteString /\ Joins(bytes, a, b)
    BY <2>1, <2>2, FrontAndBack DEF ByteString
  <2>4. Read(width, bytes) = [ok |-> TRUE, value |-> a, rest |-> b]
    BY <1>3, <2>2 DEF Read
  <2> QED
    BY <2>1, <2>3, <2>4 DEF IsRead
<1> QED
  BY <1>2, <1>3

\* The front of the bytes is read, whatever is behind it.
LEMMA ReadsFront ==
  ASSUME NEW front \in ByteString, NEW back \in ByteString, NEW width, width = Len(front)
  PROVE  HasRead(Read(width, front \o back), front, back)
<1>1. PICK w : w = front \o back
  OBVIOUS
<1>2. /\ Len(w) = Len(front) + Len(back)
      /\ SubSeq(w, 1, Len(front)) = front
      /\ SubSeq(w, Len(front) + 1, Len(w)) = back
  BY <1>1, PartsOfJoin DEF ByteString
<1>3. Len(front) \in Nat /\ Len(back) \in Nat
  BY LenProperties DEF ByteString
<1>4. ~(Len(w) < width)
  BY <1>2, <1>3
<1>5. Read(width, w) = [ok |-> TRUE, value |-> front, rest |-> back]
  BY <1>2, <1>4 DEF Read
<1> QED
  BY <1>1, <1>5 DEF HasRead

\* A vector that is as short as its length can say.
LEMMA SizedLength ==
  ASSUME NEW width \in 1 .. 3, NEW bytes
  PROVE  bytes \in Sized(width) <=> bytes \in ByteString /\ Len(bytes) < 256 ^ width
BY DEF Sized, ByteString

\* A vector is its length and its bytes.
LEMMA VectorTyped ==
  ASSUME NEW width \in 1 .. 3, NEW bytes \in ByteString
  PROVE  /\ Vector(width, bytes) \in ByteString
         /\ Len(Vector(width, bytes)) = width + Len(bytes)
<1>1. Len(bytes) \in Nat
  BY LenProperties DEF ByteString
<1>2. Number(width, Len(bytes)) \in ByteString /\ Len(Number(width, Len(bytes))) = width
  BY <1>1, NumberTyped DEF ByteString
<1> QED
  BY <1>2, ConcatProperties DEF Vector, ByteString

\* What ReadVector has read is a vector at the front of the bytes.
SpelledVector(bytes, width, r) == bytes = Vector(width, r.value) \o r.rest

\* ReadUint8LengthPrefixed and its like split the bytes: those of the vector,
\* and what is behind it.
LEMMA ReadVectorSplits ==
  ASSUME NEW width \in 1 .. 3, NEW bytes \in ByteString
  PROVE  /\ IsRead(ReadVector(width, bytes))
         /\ ~ReadVector(width, bytes).ok => ReadVector(width, bytes).value = <<>>
         /\ ReadVector(width, bytes).ok =>
              /\ ReadVector(width, bytes).value \in Sized(width)
              /\ SpelledVector(bytes, width, ReadVector(width, bytes))
<1>1. PICK length : length = Read(width, bytes)
  OBVIOUS
<1>2. /\ IsRead(length)
      /\ ~length.ok => length.value = <<>>
      /\ length.ok => Len(length.value) = width /\ Joins(bytes, length.value, length.rest)
  BY <1>1, ReadSplits
<1>3. PICK r : r = ReadVector(width, bytes)
  OBVIOUS
<1>4. CASE ~length.ok
  <2>1. r = length
    BY <1>1, <1>3, <1>4 DEF ReadVector
  <2> QED
    BY <1>2, <1>3, <1>4, <2>1
<1>5. CASE length.ok
  <2>1. length.value \in Seq(Byte) /\ Len(length.value) \in 1 .. 3
    BY <1>2, <1>5 DEF IsRead, ByteString
  <2>2. PICK n : n = Value(length.value)
    OBVIOUS
  <2>3. n \in Nat /\ n < 256 ^ width /\ Spells(length.value, n)
    BY <1>2, <1>5, <2>1, <2>2, ValueSpelled
  <2>4. r = Read(n, length.rest)
    BY <1>1, <1>3, <1>5, <2>2 DEF ReadVector
  <2>5. /\ IsRead(r)
        /\ ~r.ok => r.value = <<>>
        /\ r.ok => Len(r.value) = n /\ Joins(length.rest, r.value, r.rest)
    BY <1>2, <2>3, <2>4, ReadSplits DEF IsRead
  <2>6. ASSUME r.ok PROVE r.value \in Sized(width) /\ SpelledVector(bytes, width, r)
    <3>1. r.value \in Sized(width)
      <4>1. r.value \in ByteString
        BY <2>5, Zenon DEF IsRead
      <4>2. Len(r.value) < 256 ^ width
        BY <2>3, <2>5, <2>6, Zenon
      <4> QED
        BY <4>1, <4>2, SizedLength, Zenon
    <3>2. PICK a \in ByteString, v \in ByteString, t \in ByteString :
            a = length.value /\ v = r.value /\ t = r.rest
      BY <1>2, <2>5 DEF IsRead
    <3>3. a = Number(width, Len(v))
      BY <1>2, <1>5, <2>3, <2>5, <2>6, <3>2 DEF Spells
    <3>4. bytes = a \o (v \o t)
      BY <1>2, <1>5, <2>5, <2>6, <3>2 DEF Joins
    <3>5. Associates(a, v, t)
      BY JoinsInAnyOrder DEF ByteString
    <3>6. bytes = (a \o v) \o t
      BY <3>4, <3>5 DEF Associates
    <3> QED
      BY <3>1, <3>2, <3>3, <3>6 DEF SpelledVector, Vector
  <2> QED
    BY <1>3, <2>5, <2>6
<1> QED
  BY <1>4, <1>5

\* A vector is read from the front of the bytes.
LEMMA ReadsVector ==
  ASSUME NEW width \in 1 .. 3, NEW front \in Sized(width), NEW back \in ByteString
  PROVE  HasRead(ReadVector(width, Vector(width, front) \o back), front, back)
<1>1. front \in ByteString /\ Len(front) \in Nat /\ Len(front) < 256 ^ width
  BY SizedLength, LenProperties DEF ByteString
<1>2. PICK a : a = Number(width, Len(front))
  OBVIOUS
<1>3. a \in ByteString /\ Len(a) = width /\ Denotes(a, Len(front))
  BY <1>1, <1>2, NumberTyped, NumberRead DEF ByteString
<1>4. Associates(a, front, back)
  BY <1>1, <1>3, JoinsInAnyOrder DEF ByteString
<1>5. front \o back \in ByteString
  BY <1>1, ConcatProperties DEF ByteString
<1>6. PICK w : w = Vector(width, front) \o back
  OBVIOUS
<1>7. w = a \o (front \o back)
  BY <1>2, <1>4, <1>6 DEF Vector, Associates
<1>8. HasRead(Read(width, a \o (front \o back)), a, front \o back)
  BY <1>3, <1>5, ReadsFront
<1>9. HasRead(Read(Len(front), front \o back), front, back)
  BY <1>1, ReadsFront
<1>10. ReadVector(width, w) = Read(Len(front), front \o back)
  BY <1>3, <1>7, <1>8 DEF ReadVector, HasRead, Denotes
<1> QED
  BY <1>6, <1>9, <1>10

-----------------------------------------------------------------------------
(* The elements that bytes consist of.                                     *)

\* A reader and the encoder of what it reads, as functions: the reader takes
\* what the encoder has written from the front of the bytes, and nothing else.
Reader(R, E, V) ==
  /\ E \in [V -> ByteString]
  /\ \A v \in V : Len(E[v]) > 0
  /\ \A v \in V, t \in ByteString : HasRead(R[E[v] \o t], v, t)
  /\ \A b \in ByteString : R[b].ok => /\ R[b].value \in V /\ R[b].rest \in ByteString
                                 /\ Joins(b, E[R[b].value], R[b].rest)

\* A reader that always goes forward.
Consumes(R) ==
  \A b \in ByteString : R[b].ok => R[b].rest \in ByteString /\ Len(R[b].rest) < Len(b)

\* What ReadAll makes of the bytes from i on, F being what it makes of those
\* from a later place on.
AllAt(R, F, bytes, i) ==
  LET one    == R[SubSeq(bytes, i, Len(bytes))]
      others == F[Len(bytes) + 1 - Len(one.rest)]
  IN  IF i > Len(bytes) THEN [ok |-> TRUE, value |-> <<>>]
      ELSE IF ~one.ok THEN [ok |-> FALSE, value |-> <<>>]
      ELSE [ok |-> others.ok, value |-> <<one.value>> \o others.value]

\* F is what it makes of them from every place on, or from a first one.
AllFrom(F, R, bytes, first) ==
  F = [i \in first .. Len(bytes) + 1 |-> AllAt(R, F, bytes, i)]

AllRead(F, R, bytes) == AllFrom(F, R, bytes, 1)

\* The suffixes of bytes.
LEMMA SuffixTyped ==
  ASSUME NEW bytes \in ByteString, NEW n, n = Len(bytes), NEW i \in 1 .. n + 1
  PROVE  SubSeq(bytes, i, n) \in ByteString /\ Len(SubSeq(bytes, i, n)) = n + 1 - i
<1>1. n \in Nat
  BY LenProperties DEF ByteString
<1>2. PICK k \in 0 .. n : i = k + 1
  <2>1. i - 1 \in 0 .. n /\ i = (i - 1) + 1
    BY <1>1
  <2> QED
    BY <2>1
<1>3. /\ SubSeq(bytes, k + 1, Len(bytes)) \in Seq(Byte)
      /\ Len(SubSeq(bytes, k + 1, Len(bytes))) = Len(bytes) - k
  BY <1>2, FrontAndBack DEF ByteString
<1> QED
  BY <1>1, <1>2, <1>3 DEF ByteString

\* An element of the bytes from a place on.
LEMMA SuffixElement ==
  ASSUME NEW bytes \in ByteString, NEW n, n = Len(bytes), NEW i \in 1 .. n + 1,
         NEW k \in 1 .. n + 1 - i
  PROVE  SubSeq(bytes, i, n)[k] = bytes[i + k - 1]
<1>1. n \in Nat
  BY LenProperties DEF ByteString
<1> QED
  BY <1>1

\* Where the bytes behind an element begin.
NextIs(bytes, n, i, back, next) ==
  /\ next \in i + 1 .. n + 1 /\ next = n + 1 - Len(back)
  /\ SubSeq(bytes, next, n) = back

\* What is behind the first element are the bytes from a later place on.
LEMMA NextPlace ==
  ASSUME NEW bytes \in ByteString, NEW n, n = Len(bytes), NEW i \in 1 .. n,
         NEW front \in ByteString, NEW back \in ByteString, Len(front) > 0,
         Joins(SubSeq(bytes, i, n), front, back)
  PROVE  \E next : NextIs(bytes, n, i, back, next)
<1>1. PICK l \in Nat, m \in Nat : l = Len(front) /\ m = Len(back) /\ n \in Nat
  BY LenProperties DEF ByteString
<1>2. PICK w : w = SubSeq(bytes, i, n)
  OBVIOUS
<1>3. w \in ByteString /\ Len(w) = n + 1 - i
  <2>1. i \in 1 .. n + 1
    BY <1>1
  <2> QED
    BY <1>2, <2>1, SuffixTyped
<1>4. w = front \o back
  BY <1>2 DEF Joins
<1>5. /\ Len(w) = l + m
      /\ \A k \in 1 .. l + m : w[k] = IF k <= l THEN front[k] ELSE back[k - l]
  BY <1>1, <1>4, ConcatProperties DEF ByteString
<1>6. PICK next \in i + 1 .. n + 1 : next = n + 1 - m /\ next = i + l
  <2>1. n + 1 - m \in i + 1 .. n + 1 /\ n + 1 - m = i + l
    BY <1>1, <1>3, <1>5
  <2> QED
    BY <2>1
<1>7. PICK t : t = SubSeq(bytes, next, n)
  OBVIOUS
<1>8. t \in ByteString /\ Len(t) = m
  <2>1. next \in 1 .. n + 1
    BY <1>1
  <2>2. t \in ByteString /\ Len(t) = n + 1 - next
    BY <1>7, <2>1, SuffixTyped
  <2> QED
    BY <1>1, <1>6, <2>2
<1>9. ASSUME NEW k \in 1 .. m PROVE t[k] = back[k]
  <2>1. t[k] = bytes[next + k - 1]
    <3>1. next \in 1 .. n + 1 /\ k \in 1 .. n + 1 - next
      BY <1>1, <1>6
    <3> QED
      BY <1>7, <3>1, SuffixElement
  <2>2. l + k \in 1 .. l + m /\ ~(l + k <= l) /\ (l + k) - l = k
    BY <1>1
  <2>3. w[l + k] = back[k]
    BY <1>5, <2>2
  <2>4. w[l + k] = bytes[i + (l + k) - 1]
    <3>1. l + k \in 1 .. n + 1 - i
      BY <1>1, <1>3, <1>5, <2>2
    <3> QED
      BY <1>1, <1>2, <3>1
  <2>5. next + k - 1 = i + (l + k) - 1
    BY <1>1, <1>6
  <2> QED
    BY <2>1, <2>3, <2>4, <2>5
<1>10. t = back
  BY <1>1, <1>8, <1>9, SeqEqual DEF ByteString
<1>11. NextIs(bytes, n, i, back, next)
  BY <1>1, <1>6, <1>7, <1>10 DEF NextIs
<1> QED
  BY <1>11

\* A reader of elements that are not empty takes at least one byte.
LEMMA ReaderConsumes ==
  ASSUME NEW R, NEW E, NEW V, Reader(R, E, V)
  PROVE  Consumes(R)
<1>1. SUFFICES ASSUME NEW b \in ByteString, R[b].ok
               PROVE R[b].rest \in ByteString /\ Len(R[b].rest) < Len(b)
  BY DEF Consumes
<1>2. PICK v \in V, t \in ByteString : v = R[b].value /\ t = R[b].rest
  BY <1>1 DEF Reader
<1>3. E[v] \in ByteString /\ Len(E[v]) > 0 /\ b = E[v] \o t
  BY <1>1, <1>2 DEF Reader, Joins
<1>4. PICK l \in Nat, m \in Nat : l = Len(E[v]) /\ m = Len(t)
  BY <1>3, LenProperties DEF ByteString
<1>5. Len(b) = l + m
  BY <1>3, <1>4, ConcatProperties DEF ByteString
<1>6. m < l + m
  BY <1>3, <1>4
<1> QED
  BY <1>2, <1>4, <1>5, <1>6

\* F and G say the same of every place behind i.
SameBehind(F, G, i, n) == \A j \in i + 1 .. n + 1 : F[j] = G[j]

\* What ReadAll does at a place depends on the later places only.
LEMMA AllLooksAhead ==
  ASSUME NEW R, Consumes(R), NEW bytes \in ByteString, NEW n, n = Len(bytes),
         NEW i \in 1 .. n + 1, NEW F, NEW G, SameBehind(F, G, i, n)
  PROVE  AllAt(R, F, bytes, i) = AllAt(R, G, bytes, i)
<1>1. n \in Nat
  BY LenProperties DEF ByteString
<1>2. PICK b \in ByteString : b = SubSeq(bytes, i, n) /\ Len(b) = n + 1 - i
  BY SuffixTyped
<1>3. CASE i > n \/ ~R[b].ok
  BY <1>2, <1>3 DEF AllAt
<1>4. CASE ~(i > n) /\ R[b].ok
  <2>1. PICK t \in ByteString : t = R[b].rest /\ Len(t) < Len(b)
    BY <1>4 DEF Consumes
  <2>2. PICK m \in Nat : m = Len(t)
    BY LenProperties DEF ByteString
  <2>3. n + 1 - Len(t) \in i + 1 .. n + 1
    <3>1. m < n + 1 - i
      BY <1>2, <2>1, <2>2
    <3> QED
      BY <1>1, <2>2, <3>1
  <2>4. F[n + 1 - Len(t)] = G[n + 1 - Len(t)]
    BY <2>3 DEF SameBehind
  <2> QED
    BY <1>2, <1>4, <2>1, <2>4 DEF AllAt
<1> QED
  BY <1>3, <1>4

\* The recursion in ReadAll has a solution, for every reader that consumes.
LEMMA AllReadExists ==
  ASSUME NEW R, Consumes(R), NEW bytes \in ByteString
  PROVE  \E F : AllRead(F, R, bytes)
<1> DEFINE N == Len(bytes)
           T == {k \in Nat : \E F : AllFrom(F, R, bytes, N + 1 - k)}
<1>1. N \in Nat
  BY LenProperties DEF ByteString
<1>2. 0 \in T
  <2> DEFINE F == [i \in N + 1 .. N + 1 |-> [ok |-> TRUE, value |-> <<>>]]
  <2>1. N + 1 > N
    BY <1>1
  <2>2. ASSUME NEW G PROVE AllAt(R, G, bytes, N + 1) = [ok |-> TRUE, value |-> <<>>]
    BY <2>1 DEF AllAt
  <2>3. \A i \in N + 1 .. N + 1 : i = N + 1
    BY <1>1
  <2>4. F = [i \in N + 1 .. N + 1 |-> AllAt(R, F, bytes, i)]
    BY <2>2, <2>3, Zenon
  <2>5. AllFrom(F, R, bytes, N + 1 - 0)
    <3>1. N + 1 - 0 = N + 1
      BY <1>1
    <3> QED
      BY <2>4, <3>1, Zenon DEF AllFrom
  <2> QED
    BY <2>5
<1>3. ASSUME NEW k \in 0 .. N - 1, k \in T PROVE k + 1 \in T
  <2>1. PICK F : AllFrom(F, R, bytes, N + 1 - k)
    BY <1>3
  <2>2. PICK from \in 1 .. N : from = N + 1 - (k + 1) /\ from + 1 = N + 1 - k
    <3>1. N + 1 - (k + 1) \in 1 .. N /\ (N + 1 - (k + 1)) + 1 = N + 1 - k
      BY <1>1
    <3> QED
      BY <3>1
  <2> DEFINE G == [i \in from .. N + 1 |->
                     IF i = from THEN AllAt(R, F, bytes, i) ELSE F[i]]
  <2>3. ASSUME NEW i \in from .. N + 1 PROVE G[i] = AllAt(R, G, bytes, i)
    <3>1. i \in 1 .. N + 1
      BY <1>1
    <3>2. ASSUME NEW j \in i + 1 .. N + 1 PROVE F[j] = G[j]
      <4>1. j \in from .. N + 1 /\ j # from
        BY <1>1
      <4> QED
        BY <4>1
    <3> HIDE DEF G
    <3>3. AllAt(R, F, bytes, i) = AllAt(R, G, bytes, i)
      <4>1. SameBehind(F, G, i, N)
        BY <3>2, Zenon DEF SameBehind
      <4> QED
        BY <3>1, <4>1, AllLooksAhead
    <3>4. CASE i = from
      BY <3>3, <3>4 DEF G
    <3>5. CASE i # from
      <4>1. i \in from + 1 .. N + 1
        BY <1>1, <3>5
      <4>2. F[i] = AllAt(R, F, bytes, i)
        BY <2>1, <2>2, <4>1 DEF AllFrom
      <4>3. G[i] = F[i]
        BY <3>5 DEF G
      <4> QED
        BY <3>3, <4>2, <4>3
    <3> QED
      BY <3>4, <3>5
  <2>4. PICK H : H = G
    OBVIOUS
  <2>5. H = [i \in from .. N + 1 |-> AllAt(R, H, bytes, i)]
    <3>1. H = [i \in from .. N + 1 |-> H[i]]
      BY <2>4
    <3>2. \A i \in from .. N + 1 : H[i] = AllAt(R, H, bytes, i)
      BY <2>3, <2>4, Zenon
    <3> QED
      BY <3>1, <3>2
  <2>6. AllFrom(H, R, bytes, N + 1 - (k + 1))
    BY <2>2, <2>5, Zenon DEF AllFrom
  <2> QED
    BY <2>6
<1> HIDE DEF T
<1>4. \A k \in 0 .. N : k \in T
  BY <1>1, <1>2, <1>3, BoundedInduction
<1>5. PICK F : AllFrom(F, R, bytes, N + 1 - N)
  BY <1>1, <1>4 DEF T
<1>6. N + 1 - N = 1
  BY <1>1
<1> QED
  BY <1>5, <1>6, Zenon DEF AllRead

\* An element and what is behind it.
LEMMA CollectedFirst ==
  ASSUME NEW V, NEW E \in [V -> ByteString], NEW v \in V, NEW vs \in Seq(V)
  PROVE  /\ <<v>> \o vs \in Seq(V)
         /\ Joins(Collected(E, <<v>> \o vs), E[v], Collected(E, vs))
         /\ E[v] \in ByteString /\ Collected(E, vs) \in ByteString
<1>1. <<v>> \in Seq(V)
  OBVIOUS
<1>2. E \in [V -> Seq(Byte)]
  BY DEF ByteString
<1>3. CollectedJoins(E, <<v>>, vs)
  BY <1>1, <1>2, CollectedConcat
<1>4. Collected(E, <<v>>) = E[v]
  BY <1>2, CollectedOne
<1>5. Collected(E, vs) \in ByteString
  BY <1>2, CollectedType DEF ByteString
<1> QED
  BY <1>1, <1>3, <1>4, <1>5, ConcatProperties DEF CollectedJoins, Joins

\* What ReadAll makes of the bytes from a place on.
Goes(all, one, others) ==
  all.ok = others.ok /\ all.value = <<one.value>> \o others.value

Stepped(R, F, bytes, n, i, b, all) ==
  /\ ~R[b].ok => ~all.ok
  /\ R[b].ok => \E next \in i + 1 .. n + 1 :
                  /\ SubSeq(bytes, next, n) = R[b].rest
                  /\ Goes(all, R[b], F[next])

\* One step of the loop: an element and the rest, or an error.
LEMMA AllSteps ==
  ASSUME NEW R, NEW E, NEW V, Reader(R, E, V), NEW bytes \in ByteString,
         NEW n, n = Len(bytes), NEW i \in 1 .. n, NEW F,
         NEW b \in ByteString, b = SubSeq(bytes, i, n)
  PROVE  Stepped(R, F, bytes, n, i, b, AllAt(R, F, bytes, i))
<1>1. n \in Nat /\ ~(i > n)
  BY LenProperties DEF ByteString
<1>2. CASE ~R[b].ok
  BY <1>1, <1>2 DEF AllAt, Stepped
<1>3. CASE R[b].ok
  <2>1. PICK v \in V, t \in ByteString : v = R[b].value /\ t = R[b].rest /\ Joins(b, E[v], t)
    BY <1>3 DEF Reader
  <2>2. E[v] \in ByteString /\ Len(E[v]) > 0
    BY DEF Reader
  <2>3. PICK front \in ByteString : front = E[v]
    BY <2>2
  <2>4. PICK next : NextIs(bytes, n, i, t, next)
    <3>1. Joins(SubSeq(bytes, i, n), front, t) /\ Len(front) > 0
      BY <2>1, <2>2, <2>3
    <3> QED
      BY <3>1, NextPlace, Zenon
  <2>5. next \in i + 1 .. n + 1 /\ next = n + 1 - Len(t) /\ SubSeq(bytes, next, n) = t
    BY <2>4 DEF NextIs
  <2>6. AllAt(R, F, bytes, i) = [ok |-> F[next].ok, value |-> <<v>> \o F[next].value]
    BY <1>1, <1>3, <2>1, <2>5 DEF AllAt
  <2>7. Goes(AllAt(R, F, bytes, i), R[b], F[next])
    BY <2>1, <2>6 DEF Goes
  <2> QED
    BY <1>3, <2>1, <2>5, <2>7 DEF Stepped
<1> QED
  BY <1>2, <1>3

\* At the end there is nothing left.
LEMMA AllEnds ==
  ASSUME NEW R, NEW F, NEW bytes \in ByteString, NEW n, n = Len(bytes)
  PROVE  /\ AllAt(R, F, bytes, n + 1).ok /\ AllAt(R, F, bytes, n + 1).value = <<>>
         /\ SubSeq(bytes, n + 1, n) = <<>>
<1>1. n \in Nat /\ n + 1 > n /\ n + 1 \in 1 .. n + 1 /\ n + 1 - (n + 1) = 0
  BY LenProperties DEF ByteString
<1>2. AllAt(R, F, bytes, n + 1) = [ok |-> TRUE, value |-> <<>>]
  BY <1>1 DEF AllAt
<1>3. SubSeq(bytes, n + 1, n) \in ByteString /\ Len(SubSeq(bytes, n + 1, n)) = 0
  BY <1>1, SuffixTyped
<1> QED
  BY <1>2, <1>3, EmptySeq DEF ByteString

\* Induction from the end of the bytes to a place.
LEMMA BackwardInduction ==
  ASSUME NEW n \in Nat, NEW T, n + 1 \in T,
         \A i \in 1 .. n : (\A j \in i + 1 .. n + 1 : j \in T) => i \in T
  PROVE  1 \in T
<1> DEFINE U == {k \in 0 .. n : \A i \in n + 1 - k .. n + 1 : i \in T}
<1>1. 0 \in U
  OBVIOUS
<1>2. ASSUME NEW k \in 0 .. n - 1, k \in U PROVE k + 1 \in U
  <2>1. PICK from \in 1 .. n : from = n + 1 - (k + 1) /\ from + 1 = n + 1 - k
    <3>1. n + 1 - (k + 1) \in 1 .. n /\ (n + 1 - (k + 1)) + 1 = n + 1 - k
      OBVIOUS
    <3> QED
      BY <3>1
  <2>2. \A j \in from + 1 .. n + 1 : j \in T
    BY <1>2, <2>1
  <2>3. from \in T
    BY <2>2
  <2>4. \A j \in from .. n + 1 : j \in T
    BY <2>2, <2>3
  <2>5. k + 1 \in 0 .. n
    OBVIOUS
  <2> QED
    BY <2>1, <2>4, <2>5
<1> HIDE DEF U
<1>3. \A k \in 0 .. n : k \in U
  BY <1>1, <1>2, BoundedInduction
<1>4. n \in U /\ 1 \in n + 1 - n .. n + 1
  BY <1>3
<1> QED
  BY <1>4 DEF U

\* The bytes from the first place on are all of them.
LEMMA WholeSuffix ==
  ASSUME NEW bytes \in ByteString, NEW n, n = Len(bytes)
  PROVE  SubSeq(bytes, 1, n) = bytes
<1>1. n \in Nat
  BY LenProperties DEF ByteString
<1>2. \A i \in 1 .. n : SubSeq(bytes, 1, n)[i] = bytes[i]
  BY <1>1
<1>3. SubSeq(bytes, 1, n) \in ByteString /\ Len(SubSeq(bytes, 1, n)) = n
  BY <1>1 DEF ByteString
<1> QED
  BY <1>1, <1>2, <1>3, SeqEqual DEF ByteString

\* The bytes are those of the elements.
SpelledAll(bytes, E, V, r) ==
  r.ok => r.value \in Seq(V) /\ Joins(bytes, Collected(E, r.value), <<>>)

\* Nothing joined to a sequence leaves it as it is.
LEMMA NothingJoins ==
  ASSUME NEW S, NEW s \in Seq(S), NEW t
  PROVE  Joins(t, s, <<>>) <=> t = s
BY ConcatEmptySeq DEF Joins

\* When ReadAll reads all of the bytes, they are those of what it has read.
LEMMA AllSpelled ==
  ASSUME NEW R, NEW E, NEW V, Reader(R, E, V), NEW bytes \in ByteString,
         NEW F, AllRead(F, R, bytes)
  PROVE  SpelledAll(bytes, E, V, F[1])
<1>1. PICK n \in Nat : n = Len(bytes)
  BY LenProperties DEF ByteString
<1>2. E \in [V -> ByteString]
  BY DEF Reader
<1> DEFINE T == {i \in 1 .. n + 1 : SpelledAll(SubSeq(bytes, i, n), E, V, F[i])}
<1>3. \A i \in 1 .. n + 1 : F[i] = AllAt(R, F, bytes, i)
  BY <1>1 DEF AllRead, AllFrom
<1>4. n + 1 \in T
  <2>1. F[n + 1].value = <<>> /\ SubSeq(bytes, n + 1, n) = <<>>
    <3>1. PICK last \in 1 .. n + 1 : last = n + 1
      OBVIOUS
    <3>2. F[last] = AllAt(R, F, bytes, last)
      BY <1>3
    <3>3. AllAt(R, F, bytes, n + 1).value = <<>> /\ SubSeq(bytes, n + 1, n) = <<>>
      BY <1>1, AllEnds, Zenon
    <3> QED
      BY <3>1, <3>2, <3>3, Zenon
  <2>2. Collected(E, <<>>) = <<>>
    BY CollectedEmpty
  <2>3. <<>> \in Seq(V) /\ <<>> \in Seq(Byte)
    BY EmptySeq
  <2>4. Joins(<<>>, <<>>, <<>>)
    BY <2>3, NothingJoins
  <2>5. SpelledAll(SubSeq(bytes, n + 1, n), E, V, F[n + 1])
    BY <2>1, <2>2, <2>3, <2>4, Zenon DEF SpelledAll
  <2> QED
    BY <2>5
<1>5. ASSUME NEW i \in 1 .. n, \A j \in i + 1 .. n + 1 : j \in T PROVE i \in T
  <2>1. i \in 1 .. n + 1
    OBVIOUS
  <2>2. PICK b \in ByteString : b = SubSeq(bytes, i, n)
    BY <1>1, <2>1, SuffixTyped
  <2>3. ASSUME F[i].ok
        PROVE  F[i].value \in Seq(V) /\ Joins(b, Collected(E, F[i].value), <<>>)
    <3>0. Stepped(R, F, bytes, n, i, b, F[i])
      <4>1. Stepped(R, F, bytes, n, i, b, AllAt(R, F, bytes, i))
        BY <1>1, <2>2, AllSteps, Zenon
      <4> QED
        BY <1>3, <2>1, <4>1, Zenon
    <3>1. R[b].ok
      BY <2>3, <3>0 DEF Stepped
    <3>2. PICK next \in i + 1 .. n + 1 :
            SubSeq(bytes, next, n) = R[b].rest /\ Goes(F[i], R[b], F[next])
      BY <3>0, <3>1 DEF Stepped
    <3>3. PICK v \in V, t \in ByteString : v = R[b].value /\ t = R[b].rest /\ Joins(b, E[v], t)
      BY <3>1 DEF Reader
    <3>4. SpelledAll(t, E, V, F[next]) /\ F[next].ok
      BY <1>5, <2>3, <3>2, <3>3 DEF Goes
    <3>5. PICK vs \in Seq(V) : vs = F[next].value /\ Joins(t, Collected(E, vs), <<>>)
      BY <3>4 DEF SpelledAll
    <3>6. /\ <<v>> \o vs \in Seq(V)
          /\ Joins(Collected(E, <<v>> \o vs), E[v], Collected(E, vs))
          /\ E[v] \in ByteString /\ Collected(E, vs) \in ByteString
      BY <1>2, CollectedFirst
    <3>7. t = Collected(E, vs)
      BY <3>5, <3>6, NothingJoins DEF ByteString
    <3>8. F[i].value = <<v>> \o vs
      BY <3>2, <3>3, <3>5 DEF Goes
    <3>9. b = Collected(E, <<v>> \o vs)
      BY <3>3, <3>6, <3>7 DEF Joins
    <3>10. Joins(b, Collected(E, <<v>> \o vs), <<>>)
      BY <3>9, NothingJoins DEF ByteString
    <3> QED
      BY <3>6, <3>8, <3>10
  <2>4. SpelledAll(SubSeq(bytes, i, n), E, V, F[i])
    BY <2>2, <2>3 DEF SpelledAll
  <2> QED
    BY <2>1, <2>4
<1>6. 1 \in T
  <2> HIDE DEF T
  <2> QED
    BY <1>4, <1>5, BackwardInduction
<1>7. SubSeq(bytes, 1, n) = bytes
  BY <1>1, WholeSuffix
<1> QED
  BY <1>6, <1>7

\* The elements that the bytes are made of are what ReadAll reads.
LEMMA AllReads ==
  ASSUME NEW R, NEW E, NEW V, Reader(R, E, V), NEW bytes \in ByteString,
         NEW F, AllRead(F, R, bytes),
         NEW all \in Seq(V), bytes = Collected(E, all)
  PROVE  F[1].ok /\ F[1].value = all
<1>1. PICK n \in Nat : n = Len(bytes)
  BY LenProperties DEF ByteString
<1>2. E \in [V -> ByteString]
  BY DEF Reader
<1> DEFINE Reads(i) == \A vs \in Seq(V) : SubSeq(bytes, i, n) = Collected(E, vs)
                                             => F[i].ok /\ F[i].value = vs
           T == {i \in 1 .. n + 1 : Reads(i)}
<1>3. \A i \in 1 .. n + 1 : F[i] = AllAt(R, F, bytes, i)
  BY <1>1 DEF AllRead, AllFrom
<1>4. ASSUME NEW vs \in Seq(V), vs # <<>>
      PROVE  \E v \in V, more \in Seq(V), t \in ByteString :
               /\ vs = <<v>> \o more /\ t = Collected(E, more)
               /\ Joins(Collected(E, vs), E[v], t)
  <2>1. Len(vs) \in Nat /\ Len(vs) # 0
    BY <1>4, EmptySeq, LenProperties
  <2>2. 1 \in 0 .. Len(vs) /\ 1 \in 1 .. Len(vs)
    BY <2>1
  <2>3. PICK one \in Seq(V), more \in Seq(V) : Len(one) = 1 /\ Joins(vs, one, more)
    BY <2>2, FrontAndBack
  <2>4. PICK v \in V : v = one[1]
    <3>1. 1 \in 1 .. Len(one)
      BY <2>3
    <3> QED
      BY <3>1, ElementOfSeq
  <2>5. one = <<v>>
    BY <2>3, <2>4
  <2>6. vs = <<v>> \o more
    BY <2>3, <2>5 DEF Joins
  <2>7. Joins(Collected(E, <<v>> \o more), E[v], Collected(E, more)) /\ Collected(E, more) \in ByteString
    BY <1>2, CollectedFirst
  <2> QED
    BY <2>6, <2>7
<1>5. n + 1 \in T
  <2>1. F[n + 1].ok /\ F[n + 1].value = <<>> /\ SubSeq(bytes, n + 1, n) = <<>>
    BY <1>1, <1>3, AllEnds
  <2>2. ASSUME NEW vs \in Seq(V), vs # <<>>, Collected(E, vs) = <<>> PROVE FALSE
    <3>1. PICK v \in V, t \in ByteString : Joins(Collected(E, vs), E[v], t)
      BY <1>4, <2>2
    <3>2. E[v] \in ByteString /\ Len(E[v]) > 0
      BY DEF Reader
    <3>3. PICK l \in Nat, m \in Nat : l = Len(E[v]) /\ m = Len(t)
      BY <3>2, LenProperties DEF ByteString
    <3>4. Len(Collected(E, vs)) = l + m
      BY <3>1, <3>2, <3>3, ConcatProperties DEF Joins, ByteString
    <3>5. l > 0
      BY <3>2, <3>3
    <3>6. l + m = 0
      <4>1. Len(Collected(E, vs)) = 0
        BY <2>2
      <4> QED
        BY <3>4, <4>1
    <3> QED
      BY <3>5, <3>6
  <2>3. Reads(n + 1)
    BY <2>1, <2>2
  <2> HIDE DEF Reads
  <2> QED
    BY <2>3
<1>6. ASSUME NEW i \in 1 .. n, \A j \in i + 1 .. n + 1 : j \in T PROVE i \in T
  <2>1. i \in 1 .. n + 1
    OBVIOUS
  <2>2. PICK b \in ByteString : b = SubSeq(bytes, i, n) /\ Len(b) = n + 1 - i
    BY <1>1, <2>1, SuffixTyped
  <2>3. ASSUME NEW vs \in Seq(V), b = Collected(E, vs) PROVE F[i].ok /\ F[i].value = vs
    <3>1. vs # <<>>
      <4>1. SUFFICES ASSUME vs = <<>> PROVE FALSE
        OBVIOUS
      <4>2. b = <<>>
        BY <2>3, <4>1, CollectedEmpty
      <4>3. Len(b) = 0
        BY <4>2
      <4>4. n + 1 - i # 0
        OBVIOUS
      <4> QED
        BY <2>2, <4>3, <4>4
    <3>2. PICK v \in V, more \in Seq(V), t \in ByteString :
            /\ vs = <<v>> \o more /\ t = Collected(E, more)
            /\ Joins(Collected(E, vs), E[v], t)
      BY <1>4, <3>1
    <3>3. b = E[v] \o t
      BY <2>3, <3>2 DEF Joins
    <3>4. HasRead(R[b], v, t)
      BY <3>3 DEF Reader
    <3>5. R[b].ok /\ R[b].value = v /\ R[b].rest = t
      BY <3>4 DEF HasRead
    <3>6. PICK next \in i + 1 .. n + 1 :
            SubSeq(bytes, next, n) = R[b].rest /\ Goes(F[i], R[b], F[next])
      <4>1. Stepped(R, F, bytes, n, i, b, AllAt(R, F, bytes, i))
        BY <1>1, <2>2, AllSteps, Zenon
      <4>2. Stepped(R, F, bytes, n, i, b, F[i])
        BY <1>3, <2>1, <4>1, Zenon
      <4> QED
        BY <3>5, <4>2 DEF Stepped
    <3>7. F[next].ok /\ F[next].value = more
      BY <1>6, <3>2, <3>5, <3>6
    <3> QED
      BY <3>2, <3>5, <3>6, <3>7 DEF Goes
  <2>4. Reads(i)
    BY <2>2, <2>3
  <2> HIDE DEF Reads
  <2> QED
    BY <2>1, <2>4
<1>7. 1 \in T
  <2> HIDE DEF T
  <2> QED
    BY <1>5, <1>6, BackwardInduction
<1>8. SubSeq(bytes, 1, n) = bytes
  BY <1>1, WholeSuffix
<1> QED
  BY <1>7, <1>8

-----------------------------------------------------------------------------
(* A number and a vector, as in an extension and in a key share.           *)

Pair(n, bytes) == Number(2, n) \o Vector(2, bytes)

\* A number of two bytes.
LEMMA Uint16Is ==
  ASSUME NEW n \in Nat
  PROVE  n < 256 ^ 2 <=> n \in Uint16
<1>1. PICK k \in Nat : k = 65536
  OBVIOUS
<1>2. k = 256 ^ 2
  BY <1>1
<1>3. n < k <=> n \in Uint16
  <2>1. Uint16 = 0 .. k - 1
    BY <1>1 DEF Uint16
  <2>2. n \in 0 .. k - 1 <=> n < k
    OBVIOUS
  <2> QED
    BY <2>1, <2>2, Zenon
<1> QED
  BY <1>2, <1>3, Zenon

NumberOf(bytes, n) == bytes = Number(2, n) /\ Value(bytes) = n

\* A number of 16 bits is written in two bytes and read back.
LEMMA NumberInBytes ==
  ASSUME NEW n \in Uint16
  PROVE  /\ Number(2, n) \in ByteString /\ Len(Number(2, n)) = 2
         /\ NumberOf(Number(2, n), n)
<1>1. n \in Nat /\ n < 256 ^ 2
  <2>1. n \in Nat
    <3>1. PICK k \in Nat : k = 65536
      OBVIOUS
    <3>2. Uint16 = 0 .. k - 1
      BY <3>1 DEF Uint16
    <3>3. \A i \in 0 .. k - 1 : i \in Nat
      OBVIOUS
    <3> QED
      BY <3>2, <3>3, Zenon
  <2> QED
    BY <2>1, Uint16Is, Zenon
<1>2. Denotes(Number(2, n), n)
  BY <1>1, NumberRead
<1> QED
  BY <1>1, <1>2, NumberTyped DEF ByteString, Denotes, NumberOf

\* Two bytes are a number of 16 bits, which is written as these bytes.
LEMMA NumberFromBytes ==
  ASSUME NEW bytes \in ByteString, Len(bytes) = 2
  PROVE  Value(bytes) \in Uint16 /\ NumberOf(bytes, Value(bytes))
<1>1. bytes \in Seq(Byte) /\ Len(bytes) \in 1 .. 3
  BY DEF ByteString
<1>2. PICK n : n = Value(bytes)
  OBVIOUS
<1>3. n \in Nat /\ n < 256 ^ 2 /\ Spells(bytes, n)
  BY <1>1, <1>2, ValueSpelled
<1>4. n \in Uint16
  BY <1>3, Uint16Is
<1> QED
  BY <1>2, <1>3, <1>4 DEF Spells, NumberOf

\* What the two readers make of a pair, and what is behind it.
PairRead(bytes, n, value, rest) ==
  LET number == Read(2, bytes)
      vector == ReadVector(2, number.rest)
  IN  /\ number.ok /\ NumberOf(number.value, n)
      /\ HasRead(vector, value, rest)

\* A pair has four bytes more than its vector.
LEMMA PairTyped ==
  ASSUME NEW n \in Uint16, NEW bytes \in ByteString
  PROVE  Pair(n, bytes) \in ByteString /\ Len(Pair(n, bytes)) = 4 + Len(bytes)
<1>1. PICK a : a = Number(2, n) /\ a \in ByteString /\ Len(a) = 2
  BY NumberInBytes
<1>2. PICK v : v = Vector(2, bytes) /\ v \in ByteString /\ Len(v) = 2 + Len(bytes)
  BY VectorTyped
<1>3. a \o v \in ByteString /\ Len(a \o v) = Len(a) + Len(v)
  BY <1>1, <1>2, ConcatProperties DEF ByteString
<1>4. PICK l \in Nat : l = Len(bytes)
  BY LenProperties DEF ByteString
<1>5. Pair(n, bytes) = a \o v
  BY <1>1, <1>2 DEF Pair
<1>6. Len(a \o v) = 4 + l
  <2>1. PICK m \in Nat, k \in Nat : m = Len(a) /\ k = Len(v)
    BY <1>1, <1>2, LenProperties DEF ByteString
  <2>2. m = 2 /\ k = 2 + l
    BY <1>1, <1>2, <1>4, <2>1
  <2>3. m + k = 4 + l
    BY <2>2
  <2> QED
    BY <1>3, <2>1, <2>3
<1> QED
  BY <1>3, <1>4, <1>5, <1>6

\* A pair is read back, with what is behind it.
LEMMA PairReads ==
  ASSUME NEW n \in Uint16, NEW value \in Sized(2), NEW rest \in ByteString
  PROVE  PairRead(Pair(n, value) \o rest, n, value, rest)
<1>1. value \in ByteString
  BY SizedLength
<1>2. PICK a : a = Number(2, n) /\ a \in ByteString /\ Len(a) = 2 /\ NumberOf(a, n)
  BY NumberInBytes
<1>3. PICK v : v = Vector(2, value) /\ v \in ByteString
  BY <1>1, VectorTyped
<1>4. Associates(a, v, rest) /\ v \o rest \in ByteString
  BY <1>2, <1>3, JoinsInAnyOrder, ConcatProperties DEF ByteString
<1>5. PICK w : w = Pair(n, value) \o rest
  OBVIOUS
<1>6. w = a \o (v \o rest)
  BY <1>2, <1>3, <1>4, <1>5 DEF Pair, Associates
<1>7. HasRead(Read(2, w), a, v \o rest)
  BY <1>2, <1>4, <1>6, ReadsFront
<1>8. HasRead(ReadVector(2, v \o rest), value, rest)
  BY <1>3, ReadsVector
<1> QED
  BY <1>2, <1>5, <1>7, <1>8 DEF PairRead, HasRead

PairSpelled(bytes, n, value, rest) ==
  /\ n \in Uint16 /\ value \in Sized(2) /\ rest \in ByteString
  /\ Joins(bytes, Pair(n, value), rest)

\* When the number and the vector have been read, the bytes are that pair and
\* the rest.
LEMMA PairSplits ==
  ASSUME NEW bytes \in ByteString, NEW number, number = Read(2, bytes),
         NEW vector, vector = ReadVector(2, number.rest), number.ok, vector.ok
  PROVE  PairSpelled(bytes, Value(number.value), vector.value, vector.rest)
<1>1. /\ number.value \in ByteString /\ number.rest \in ByteString /\ Len(number.value) = 2
      /\ Joins(bytes, number.value, number.rest)
  BY ReadSplits DEF IsRead
<1>2. PICK a \in ByteString : a = number.value
  BY <1>1
<1>3. PICK n \in Uint16 : n = Value(a) /\ a = Number(2, n)
  BY <1>1, <1>2, NumberFromBytes DEF NumberOf
<1>4. vector.value \in Sized(2) /\ vector.rest \in ByteString
      /\ SpelledVector(number.rest, 2, vector)
  BY <1>1, ReadVectorSplits DEF IsRead
<1>5. PICK value \in Sized(2), rest \in ByteString : value = vector.value /\ rest = vector.rest
  BY <1>4
<1>6. PICK v : v = Vector(2, value) /\ v \in ByteString
  BY VectorTyped, SizedLength
<1>7. bytes = a \o (v \o rest)
  BY <1>1, <1>2, <1>4, <1>5, <1>6 DEF Joins, SpelledVector
<1>8. Associates(a, v, rest)
  BY <1>6, JoinsInAnyOrder DEF ByteString
<1>9. bytes = Pair(n, value) \o rest
  BY <1>3, <1>6, <1>7, <1>8 DEF Associates, Pair
<1> QED
  BY <1>2, <1>3, <1>5, <1>9 DEF PairSpelled, Joins

-----------------------------------------------------------------------------
(* The readers of extensions, of key shares and of certificates.           *)

Extension == [type : Uint16, payload : Sized(2)]

ExtensionReader  == [bytes \in ByteString |-> ReadExtension(bytes)]
ExtensionEncoder == [ext \in Extension |-> MarshalExtension(ext)]

\* An extension is the pair of its type and its payload.
LEMMA ExtensionPair ==
  ASSUME NEW ext \in Extension
  PROVE  /\ ext.type \in Uint16 /\ ext.payload \in Sized(2)
         /\ ExtensionEncoder[ext] = Pair(ext.type, ext.payload)
BY DEF Extension, ExtensionEncoder, MarshalExtension, Pair

\* readExtension reads an extension that is marshalled, and nothing else.
LEMMA ExtensionsAreRead == Reader(ExtensionReader, ExtensionEncoder, Extension)
<1>1. ASSUME NEW ext \in Extension
      PROVE  ExtensionEncoder[ext] \in ByteString /\ Len(ExtensionEncoder[ext]) > 0
  <2>1. PICK n \in Uint16, p \in ByteString : ExtensionEncoder[ext] = Pair(n, p)
    BY ExtensionPair, SizedLength
  <2>2. PICK l \in Nat : l = Len(p)
    BY LenProperties DEF ByteString
  <2>3. Pair(n, p) \in ByteString /\ Len(Pair(n, p)) = 4 + l
    BY <2>2, PairTyped
  <2> QED
    BY <2>1, <2>3
<1>2. ASSUME NEW ext \in Extension, NEW rest \in ByteString
      PROVE  HasRead(ExtensionReader[ExtensionEncoder[ext] \o rest], ext, rest)
  <2>1. PICK n \in Uint16, p \in Sized(2) :
          n = ext.type /\ p = ext.payload /\ ExtensionEncoder[ext] = Pair(n, p)
    BY ExtensionPair
  <2>2. PICK w : w = ExtensionEncoder[ext] \o rest
    OBVIOUS
  <2>3. w \in ByteString
    BY <1>1, <2>2, ConcatProperties DEF ByteString
  <2>4. PairRead(w, n, p, rest)
    BY <2>1, <2>2, PairReads
  <2>5. ReadExtension(w) = [ok |-> TRUE, value |-> [type |-> n, payload |-> p],
                            rest |-> rest]
    BY <2>4 DEF ReadExtension, PairRead, HasRead, NumberOf
  <2>6. ext = [type |-> n, payload |-> p]
    BY <2>1 DEF Extension
  <2> QED
    BY <2>2, <2>3, <2>5, <2>6 DEF ExtensionReader, HasRead
<1>3. ASSUME NEW b \in ByteString, ExtensionReader[b].ok
      PROVE  /\ ExtensionReader[b].value \in Extension /\ ExtensionReader[b].rest \in ByteString
             /\ Joins(b, ExtensionEncoder[ExtensionReader[b].value], ExtensionReader[b].rest)
  <2>1. PICK number : number = Read(2, b)
    OBVIOUS
  <2>2. PICK vector : vector = ReadVector(2, number.rest)
    OBVIOUS
  <2>3. ExtensionReader[b] = [ok    |-> number.ok /\ vector.ok,
                              value |-> [type    |-> Value(number.value),
                                         payload |-> vector.value],
                              rest  |-> vector.rest]
    BY <2>1, <2>2 DEF ExtensionReader, ReadExtension
  <2>4. PairSpelled(b, Value(number.value), vector.value, vector.rest)
    <3>1. IsRead(number) /\ IsRead(vector)
      BY <2>1, <2>2, ReadSplits, ReadVectorSplits DEF IsRead
    <3>2. number.ok /\ vector.ok
      BY <1>3, <2>3, <3>1 DEF IsRead
    <3> QED
      BY <2>1, <2>2, <3>2, PairSplits, Zenon
  <2>5. PICK ext : ext = ExtensionReader[b].value
    OBVIOUS
  <2>6. ext \in Extension /\ ext.type = Value(number.value) /\ ext.payload = vector.value
    BY <2>3, <2>4, <2>5 DEF PairSpelled, Extension
  <2>7. ExtensionEncoder[ext] = Pair(Value(number.value), vector.value)
    BY <2>6, ExtensionPair
  <2> QED
    BY <2>3, <2>4, <2>5, <2>6, <2>7 DEF PairSpelled
<1>4. ExtensionEncoder \in [Extension -> ByteString]
  BY <1>1 DEF ExtensionEncoder
<1> QED
  BY <1>1, <1>2, <1>3, <1>4, Zenon DEF Reader

\* ReadAll of extensions is what AllRead says of them.
ExtensionsFrom(F, bytes) ==
  F = [i \in 1 .. Len(bytes) + 1 |->
         IF i > Len(bytes) THEN [ok |-> TRUE, value |-> <<>>]
         ELSE LET one    == ReadExtension(SubSeq(bytes, i, Len(bytes)))
                  others == F[Len(bytes) + 1 - Len(one.rest)]
              IN  IF ~one.ok THEN [ok |-> FALSE, value |-> <<>>]
                  ELSE [ok |-> others.ok, value |-> <<one.value>> \o others.value]]

\* UnmarshalExtensions is the loop over it.
LEMMA ExtensionsAllRead ==
  ASSUME NEW bytes \in ByteString
  PROVE  \E F : AllRead(F, ExtensionReader, bytes) /\ UnmarshalExtensions(bytes) = F[1]
<1>1. Consumes(ExtensionReader)
  BY ExtensionsAreRead, ReaderConsumes
<1>2. ASSUME NEW i \in 1 .. Len(bytes) + 1
      PROVE  ExtensionReader[SubSeq(bytes, i, Len(bytes))]
               = ReadExtension(SubSeq(bytes, i, Len(bytes)))
  BY SuffixTyped DEF ExtensionReader
<1>3. ASSUME NEW F PROVE AllRead(F, ExtensionReader, bytes) <=> ExtensionsFrom(F, bytes)
  <2>1. ASSUME NEW i \in 1 .. Len(bytes) + 1
        PROVE  AllAt(ExtensionReader, F, bytes, i)
                 = IF i > Len(bytes) THEN [ok |-> TRUE, value |-> <<>>]
                   ELSE LET one    == ReadExtension(SubSeq(bytes, i, Len(bytes)))
                            others == F[Len(bytes) + 1 - Len(one.rest)]
                        IN  IF ~one.ok THEN [ok |-> FALSE, value |-> <<>>]
                            ELSE [ok |-> others.ok, value |-> <<one.value>> \o others.value]
    BY <1>2, Zenon DEF AllAt
  <2> QED
    BY <2>1, Zenon DEF AllRead, AllFrom, ExtensionsFrom
<1>4. PICK F : F = CHOOSE G : ExtensionsFrom(G, bytes)
  OBVIOUS
<1>5. ExtensionsFrom(F, bytes)
  <2>1. \E G : ExtensionsFrom(G, bytes)
    BY <1>1, <1>3, AllReadExists
  <2> QED
    BY <1>4, <2>1, Zenon
<1>6. UnmarshalExtensions(bytes) = F[1]
  BY <1>4, Zenon DEF UnmarshalExtensions, ReadAll, ExtensionsFrom
<1> QED
  BY <1>3, <1>5, <1>6

SizedShare == [group : Uint16, data : Sized(2)]

ShareReader  == [bytes \in ByteString |-> ReadKeyShare(bytes)]
ShareEncoder == [share \in SizedShare |-> MarshalKeyShare(share)]

\* A key share is the pair of its group and its key.
LEMMA SharePair ==
  ASSUME NEW share \in SizedShare
  PROVE  /\ share.group \in Uint16 /\ share.data \in Sized(2)
         /\ ShareEncoder[share] = Pair(share.group, share.data)
BY DEF SizedShare, ShareEncoder, MarshalKeyShare, Pair

\* ReadKeyShare reads a share that is marshalled, and nothing else.
LEMMA SharesAreRead == Reader(ShareReader, ShareEncoder, SizedShare)
<1>1. ASSUME NEW share \in SizedShare
      PROVE  ShareEncoder[share] \in ByteString /\ Len(ShareEncoder[share]) > 0
  <2>1. PICK n \in Uint16, p \in ByteString : ShareEncoder[share] = Pair(n, p)
    BY SharePair, SizedLength
  <2>2. PICK l \in Nat : l = Len(p)
    BY LenProperties DEF ByteString
  <2>3. Pair(n, p) \in ByteString /\ Len(Pair(n, p)) = 4 + l
    BY <2>2, PairTyped
  <2> QED
    BY <2>1, <2>3
<1>2. ASSUME NEW share \in SizedShare, NEW rest \in ByteString
      PROVE  HasRead(ShareReader[ShareEncoder[share] \o rest], share, rest)
  <2>1. PICK n \in Uint16, p \in Sized(2) :
          n = share.group /\ p = share.data /\ ShareEncoder[share] = Pair(n, p)
    BY SharePair
  <2>2. PICK w : w = ShareEncoder[share] \o rest
    OBVIOUS
  <2>3. w \in ByteString
    BY <1>1, <2>2, ConcatProperties DEF ByteString
  <2>4. PairRead(w, n, p, rest)
    BY <2>1, <2>2, PairReads
  <2>5. ReadKeyShare(w) = [ok |-> TRUE, value |-> [group |-> n, data |-> p],
                            rest |-> rest]
    BY <2>4 DEF ReadKeyShare, PairRead, HasRead, NumberOf
  <2>6. share = [group |-> n, data |-> p]
    BY <2>1 DEF SizedShare
  <2> QED
    BY <2>2, <2>3, <2>5, <2>6 DEF ShareReader, HasRead
<1>3. ASSUME NEW b \in ByteString, ShareReader[b].ok
      PROVE  /\ ShareReader[b].value \in SizedShare /\ ShareReader[b].rest \in ByteString
             /\ Joins(b, ShareEncoder[ShareReader[b].value], ShareReader[b].rest)
  <2>1. PICK number : number = Read(2, b)
    OBVIOUS
  <2>2. PICK vector : vector = ReadVector(2, number.rest)
    OBVIOUS
  <2>3. ShareReader[b] = [ok    |-> number.ok /\ vector.ok,
                              value |-> [group    |-> Value(number.value),
                                         data |-> vector.value],
                              rest  |-> vector.rest]
    BY <2>1, <2>2 DEF ShareReader, ReadKeyShare
  <2>4. PairSpelled(b, Value(number.value), vector.value, vector.rest)
    <3>1. IsRead(number) /\ IsRead(vector)
      BY <2>1, <2>2, ReadSplits, ReadVectorSplits DEF IsRead
    <3>2. number.ok /\ vector.ok
      BY <1>3, <2>3, <3>1 DEF IsRead
    <3> QED
      BY <2>1, <2>2, <3>2, PairSplits, Zenon
  <2>5. PICK share : share = ShareReader[b].value
    OBVIOUS
  <2>6. share \in SizedShare /\ share.group = Value(number.value) /\ share.data = vector.value
    BY <2>3, <2>4, <2>5 DEF PairSpelled, SizedShare
  <2>7. ShareEncoder[share] = Pair(Value(number.value), vector.value)
    BY <2>6, SharePair
  <2> QED
    BY <2>3, <2>4, <2>5, <2>6, <2>7 DEF PairSpelled
<1>4. ShareEncoder \in [SizedShare -> ByteString]
  BY <1>1 DEF ShareEncoder
<1> QED
  BY <1>1, <1>2, <1>3, <1>4, Zenon DEF Reader

\* ReadAll of key shares is what AllRead says of them.
SharesFrom(F, bytes) ==
  F = [i \in 1 .. Len(bytes) + 1 |->
         IF i > Len(bytes) THEN [ok |-> TRUE, value |-> <<>>]
         ELSE LET one    == ReadKeyShare(SubSeq(bytes, i, Len(bytes)))
                  others == F[Len(bytes) + 1 - Len(one.rest)]
              IN  IF ~one.ok THEN [ok |-> FALSE, value |-> <<>>]
                  ELSE [ok |-> others.ok, value |-> <<one.value>> \o others.value]]

\* The parser of the client's key shares is the loop over it.
LEMMA SharesAllRead ==
  ASSUME NEW bytes \in ByteString
  PROVE  \E F : AllRead(F, ShareReader, bytes) /\ ReadAll(ReadKeyShare, bytes) = F[1]
<1>1. Consumes(ShareReader)
  BY SharesAreRead, ReaderConsumes
<1>2. ASSUME NEW i \in 1 .. Len(bytes) + 1
      PROVE  ShareReader[SubSeq(bytes, i, Len(bytes))]
               = ReadKeyShare(SubSeq(bytes, i, Len(bytes)))
  BY SuffixTyped DEF ShareReader
<1>3. ASSUME NEW F PROVE AllRead(F, ShareReader, bytes) <=> SharesFrom(F, bytes)
  <2>1. ASSUME NEW i \in 1 .. Len(bytes) + 1
        PROVE  AllAt(ShareReader, F, bytes, i)
                 = IF i > Len(bytes) THEN [ok |-> TRUE, value |-> <<>>]
                   ELSE LET one    == ReadKeyShare(SubSeq(bytes, i, Len(bytes)))
                            others == F[Len(bytes) + 1 - Len(one.rest)]
                        IN  IF ~one.ok THEN [ok |-> FALSE, value |-> <<>>]
                            ELSE [ok |-> others.ok, value |-> <<one.value>> \o others.value]
    BY <1>2, Zenon DEF AllAt
  <2> QED
    BY <2>1, Zenon DEF AllRead, AllFrom, SharesFrom
<1>4. PICK F : F = CHOOSE G : SharesFrom(G, bytes)
  OBVIOUS
<1>5. SharesFrom(F, bytes)
  <2>1. \E G : SharesFrom(G, bytes)
    BY <1>1, <1>3, AllReadExists
  <2> QED
    BY <1>4, <2>1, Zenon
<1>6. ReadAll(ReadKeyShare, bytes) = F[1]
  BY <1>4, Zenon DEF ReadAll, SharesFrom
<1> QED
  BY <1>3, <1>5, <1>6

\* Two vectors, as in a certificate of the list.
TwoRead(bytes, cert, exts, rest) ==
  LET first  == ReadVector(3, bytes)
      second == ReadVector(2, first.rest)
  IN  /\ first.ok /\ first.value = cert
      /\ HasRead(second, exts, rest)

TwoSpelled(bytes, cert, exts, rest) ==
  /\ cert \in Sized(3) /\ exts \in Sized(2) /\ rest \in ByteString
  /\ Joins(bytes, Vector(3, cert) \o Vector(2, exts), rest)

\* The two vectors of a certificate entry are read back.
LEMMA TwoReads ==
  ASSUME NEW cert \in Sized(3), NEW exts \in Sized(2), NEW rest \in ByteString
  PROVE  TwoRead((Vector(3, cert) \o Vector(2, exts)) \o rest, cert, exts, rest)
<1>1. cert \in ByteString /\ exts \in ByteString
  BY SizedLength
<1>2. PICK u : u = Vector(3, cert) /\ u \in ByteString
  BY <1>1, VectorTyped
<1>3. PICK v : v = Vector(2, exts) /\ v \in ByteString
  BY <1>1, VectorTyped
<1>4. Associates(u, v, rest) /\ v \o rest \in ByteString
  BY <1>2, <1>3, JoinsInAnyOrder, ConcatProperties DEF ByteString
<1>5. PICK w : w = (u \o v) \o rest
  OBVIOUS
<1>6. w = u \o (v \o rest)
  BY <1>4, <1>5 DEF Associates
<1>7. HasRead(ReadVector(3, w), cert, v \o rest)
  BY <1>2, <1>4, <1>6, ReadsVector
<1>8. HasRead(ReadVector(2, v \o rest), exts, rest)
  BY <1>3, ReadsVector
<1> QED
  BY <1>2, <1>3, <1>5, <1>7, <1>8 DEF TwoRead, HasRead

\* When both have been read, the bytes are these two and the rest.
LEMMA TwoSplit ==
  ASSUME NEW bytes \in ByteString, NEW first, first = ReadVector(3, bytes),
         NEW second, second = ReadVector(2, first.rest), first.ok, second.ok
  PROVE  TwoSpelled(bytes, first.value, second.value, second.rest)
<1>1. /\ first.value \in Sized(3) /\ first.rest \in ByteString
      /\ SpelledVector(bytes, 3, first)
  BY ReadVectorSplits DEF IsRead
<1>2. /\ second.value \in Sized(2) /\ second.rest \in ByteString
      /\ SpelledVector(first.rest, 2, second)
  BY <1>1, ReadVectorSplits DEF IsRead
<1>3. PICK cert \in Sized(3), exts \in Sized(2), rest \in ByteString :
        cert = first.value /\ exts = second.value /\ rest = second.rest
  BY <1>1, <1>2
<1>4. PICK u : u = Vector(3, cert) /\ u \in ByteString
  BY VectorTyped, SizedLength
<1>5. PICK v : v = Vector(2, exts) /\ v \in ByteString
  BY VectorTyped, SizedLength
<1>6. bytes = u \o (v \o rest)
  BY <1>1, <1>2, <1>3, <1>4, <1>5 DEF SpelledVector
<1>7. Associates(u, v, rest)
  BY <1>4, <1>5, JoinsInAnyOrder DEF ByteString
<1>8. bytes = (u \o v) \o rest
  BY <1>6, <1>7 DEF Associates
<1> QED
  BY <1>3, <1>4, <1>5, <1>8 DEF TwoSpelled, Joins

CertificateEntry == [cert : Sized(3), exts : Sized(2)]

EntryReader  == [bytes \in ByteString |-> ReadCertificateEntry(bytes)]
EntryEncoder == [entry \in CertificateEntry |-> EncodeEntry(entry)]

\* An entry is the certificate and its extensions.
LEMMA EntryVectors ==
  ASSUME NEW entry \in CertificateEntry
  PROVE  /\ entry.cert \in Sized(3) /\ entry.exts \in Sized(2)
         /\ EntryEncoder[entry] = Vector(3, entry.cert) \o Vector(2, entry.exts)
BY DEF CertificateEntry, EntryEncoder, EncodeEntry

\* ReadCertificateEntry reads an entry that is encoded, and nothing else.
LEMMA EntriesAreRead == Reader(EntryReader, EntryEncoder, CertificateEntry)
<1>1. ASSUME NEW entry \in CertificateEntry
      PROVE  EntryEncoder[entry] \in ByteString /\ Len(EntryEncoder[entry]) > 0
  <2>1. PICK a \in ByteString, b \in ByteString : EntryEncoder[entry] = Vector(3, a) \o Vector(2, b)
    <3>1. entry.cert \in ByteString /\ entry.exts \in ByteString
      BY EntryVectors, SizedLength
    <3> QED
      BY <3>1, EntryVectors
  <2>2. PICK l \in Nat, m \in Nat : l = Len(a) /\ m = Len(b)
    BY LenProperties DEF ByteString
  <2>3. PICK u \in ByteString : u = Vector(3, a) /\ Len(u) = 3 + l
    BY <2>2, VectorTyped
  <2>4. PICK v \in ByteString : v = Vector(2, b) /\ Len(v) = 2 + m
    BY <2>2, VectorTyped
  <2>5. PICK p \in Nat, q \in Nat : p = Len(u) /\ q = Len(v) /\ p > 0
    BY <2>3, <2>4
  <2>6. u \o v \in ByteString /\ Len(u \o v) = p + q
    BY <2>5, ConcatProperties DEF ByteString
  <2>7. EntryEncoder[entry] = u \o v
    BY <2>1, <2>3, <2>4, Zenon
  <2>8. p + q > 0
    BY <2>5
  <2> QED
    BY <2>6, <2>7, <2>8, Zenon
<1>2. ASSUME NEW entry \in CertificateEntry, NEW rest \in ByteString
      PROVE  HasRead(EntryReader[EntryEncoder[entry] \o rest], entry, rest)
  <2>1. PICK a \in Sized(3), b \in Sized(2) :
          /\ a = entry.cert /\ b = entry.exts
          /\ EntryEncoder[entry] = Vector(3, a) \o Vector(2, b)
    BY EntryVectors
  <2>2. PICK w : w = EntryEncoder[entry] \o rest
    OBVIOUS
  <2>3. w \in ByteString
    BY <1>1, <2>2, ConcatProperties DEF ByteString
  <2>4. TwoRead(w, a, b, rest)
    BY <2>1, <2>2, TwoReads
  <2>5. ReadCertificateEntry(w) = [ok |-> TRUE, value |-> [cert |-> a, exts |-> b],
                                   rest |-> rest]
    BY <2>4 DEF ReadCertificateEntry, TwoRead, HasRead
  <2>6. entry = [cert |-> a, exts |-> b]
    BY <2>1 DEF CertificateEntry
  <2> QED
    BY <2>2, <2>3, <2>5, <2>6 DEF EntryReader, HasRead
<1>3. ASSUME NEW b \in ByteString, EntryReader[b].ok
      PROVE  /\ EntryReader[b].value \in CertificateEntry /\ EntryReader[b].rest \in ByteString
             /\ Joins(b, EntryEncoder[EntryReader[b].value], EntryReader[b].rest)
  <2>1. PICK first : first = ReadVector(3, b)
    OBVIOUS
  <2>2. PICK second : second = ReadVector(2, first.rest)
    OBVIOUS
  <2>3. EntryReader[b] = [ok    |-> first.ok /\ second.ok,
                          value |-> [cert |-> first.value, exts |-> second.value],
                          rest  |-> second.rest]
    BY <2>1, <2>2 DEF EntryReader, ReadCertificateEntry
  <2>4. TwoSpelled(b, first.value, second.value, second.rest)
    <3>1. IsRead(first) /\ IsRead(second)
      BY <2>1, <2>2, ReadVectorSplits DEF IsRead
    <3>2. first.ok /\ second.ok
      BY <1>3, <2>3, <3>1 DEF IsRead
    <3> QED
      BY <2>1, <2>2, <3>2, TwoSplit, Zenon
  <2>5. PICK entry : entry = EntryReader[b].value
    OBVIOUS
  <2>6. entry \in CertificateEntry /\ entry.cert = first.value /\ entry.exts = second.value
    BY <2>3, <2>4, <2>5 DEF TwoSpelled, CertificateEntry
  <2>7. EntryEncoder[entry] = Vector(3, first.value) \o Vector(2, second.value)
    BY <2>6, EntryVectors
  <2> QED
    BY <2>3, <2>4, <2>5, <2>6, <2>7 DEF TwoSpelled
<1>4. EntryEncoder \in [CertificateEntry -> ByteString]
  BY <1>1 DEF EntryEncoder
<1> QED
  BY <1>1, <1>2, <1>3, <1>4, Zenon DEF Reader

\* ReadAll of certificates is what AllRead says of them.
EntriesFrom(F, bytes) ==
  F = [i \in 1 .. Len(bytes) + 1 |->
         IF i > Len(bytes) THEN [ok |-> TRUE, value |-> <<>>]
         ELSE LET one    == ReadCertificateEntry(SubSeq(bytes, i, Len(bytes)))
                  others == F[Len(bytes) + 1 - Len(one.rest)]
              IN  IF ~one.ok THEN [ok |-> FALSE, value |-> <<>>]
                  ELSE [ok |-> others.ok, value |-> <<one.value>> \o others.value]]

\* The parser of a certificate list is the loop over it.
LEMMA EntriesAllRead ==
  ASSUME NEW bytes \in ByteString
  PROVE  \E F : AllRead(F, EntryReader, bytes) /\ ReadAll(ReadCertificateEntry, bytes) = F[1]
<1>1. Consumes(EntryReader)
  BY EntriesAreRead, ReaderConsumes
<1>2. ASSUME NEW i \in 1 .. Len(bytes) + 1
      PROVE  EntryReader[SubSeq(bytes, i, Len(bytes))]
               = ReadCertificateEntry(SubSeq(bytes, i, Len(bytes)))
  BY SuffixTyped DEF EntryReader
<1>3. ASSUME NEW F PROVE AllRead(F, EntryReader, bytes) <=> EntriesFrom(F, bytes)
  <2>1. ASSUME NEW i \in 1 .. Len(bytes) + 1
        PROVE  AllAt(EntryReader, F, bytes, i)
                 = IF i > Len(bytes) THEN [ok |-> TRUE, value |-> <<>>]
                   ELSE LET one    == ReadCertificateEntry(SubSeq(bytes, i, Len(bytes)))
                            others == F[Len(bytes) + 1 - Len(one.rest)]
                        IN  IF ~one.ok THEN [ok |-> FALSE, value |-> <<>>]
                            ELSE [ok |-> others.ok, value |-> <<one.value>> \o others.value]
    BY <1>2, Zenon DEF AllAt
  <2> QED
    BY <2>1, Zenon DEF AllRead, AllFrom, EntriesFrom
<1>4. PICK F : F = CHOOSE G : EntriesFrom(G, bytes)
  OBVIOUS
<1>5. EntriesFrom(F, bytes)
  <2>1. \E G : EntriesFrom(G, bytes)
    BY <1>1, <1>3, AllReadExists
  <2> QED
    BY <1>4, <2>1, Zenon
<1>6. ReadAll(ReadCertificateEntry, bytes) = F[1]
  BY <1>4, Zenon DEF ReadAll, EntriesFrom
<1> QED
  BY <1>3, <1>5, <1>6

\* A reader has read a list.
ListRead(r, list) == r.ok /\ r.value = list

\* MarshalExtensions collects what it writes of each.
LEMMA MarshalledExtensions ==
  ASSUME NEW exts \in Seq(Extension)
  PROVE  /\ MarshalExtensions(exts) \in ByteString
         /\ MarshalExtensions(exts) = Collected(ExtensionEncoder, exts)
<1>1. ASSUME NEW i \in 1 .. Len(exts)
      PROVE  MarshalExtension(exts[i]) = ExtensionEncoder[exts[i]]
  <2>1. exts[i] \in Extension
    BY ElementOfSeq
  <2> QED
    BY <2>1 DEF ExtensionEncoder
<1>2. MarshalExtensions(exts) = Collected(ExtensionEncoder, exts)
  BY <1>1, Zenon DEF MarshalExtensions, Collected
<1>3. ExtensionEncoder \in [Extension -> Seq(Byte)]
  BY ExtensionsAreRead DEF Reader, ByteString
<1>4. Collected(ExtensionEncoder, exts) \in Seq(Byte)
  BY <1>3, CollectedType
<1> QED
  BY <1>2, <1>4 DEF ByteString

\* A list of extensions that is read spells the bytes out.
LEMMA ExtensionsSpelled ==
  ASSUME NEW bytes \in ByteString, NEW r, r = UnmarshalExtensions(bytes), r.ok
  PROVE  r.value \in Seq(Extension) /\ bytes = MarshalExtensions(r.value)
<1>1. PICK F : AllRead(F, ExtensionReader, bytes) /\ r = F[1]
  BY ExtensionsAllRead
<1>2. SpelledAll(bytes, ExtensionEncoder, Extension, F[1])
  BY <1>1, AllSpelled, ExtensionsAreRead
<1>3. PICK exts \in Seq(Extension) :
        exts = r.value /\ Joins(bytes, Collected(ExtensionEncoder, exts), <<>>)
  BY <1>1, <1>2 DEF SpelledAll
<1>4. /\ MarshalExtensions(exts) \in Seq(Byte)
      /\ MarshalExtensions(exts) = Collected(ExtensionEncoder, exts)
  BY MarshalledExtensions DEF ByteString
<1>5. bytes = MarshalExtensions(exts)
  BY <1>3, <1>4, NothingJoins
<1> QED
  BY <1>3, <1>5

\* A list of extensions that is marshalled is read back.
LEMMA ExtensionsRead ==
  ASSUME NEW exts \in Seq(Extension)
  PROVE  ListRead(UnmarshalExtensions(MarshalExtensions(exts)), exts)
<1>1. PICK bytes \in ByteString :
        bytes = MarshalExtensions(exts) /\ bytes = Collected(ExtensionEncoder, exts)
  BY MarshalledExtensions
<1>2. PICK F : AllRead(F, ExtensionReader, bytes) /\ UnmarshalExtensions(bytes) = F[1]
  BY ExtensionsAllRead
<1>3. F[1].ok /\ F[1].value = exts
  BY <1>1, <1>2, AllReads, ExtensionsAreRead
<1> QED
  BY <1>1, <1>2, <1>3 DEF ListRead

MarshalShares(shares) ==
  FlattenSeq([i \in 1 .. Len(shares) |-> MarshalKeyShare(shares[i])])

\* The list of key shares collects what is written of each.
LEMMA MarshalledShares ==
  ASSUME NEW shares \in Seq(SizedShare)
  PROVE  /\ MarshalShares(shares) \in ByteString
         /\ MarshalShares(shares) = Collected(ShareEncoder, shares)
<1>1. ASSUME NEW i \in 1 .. Len(shares)
      PROVE  MarshalKeyShare(shares[i]) = ShareEncoder[shares[i]]
  <2>1. shares[i] \in SizedShare
    BY ElementOfSeq
  <2> QED
    BY <2>1 DEF ShareEncoder
<1>2. MarshalShares(shares) = Collected(ShareEncoder, shares)
  BY <1>1, Zenon DEF MarshalShares, Collected
<1>3. ShareEncoder \in [SizedShare -> Seq(Byte)]
  BY SharesAreRead DEF Reader, ByteString
<1>4. Collected(ShareEncoder, shares) \in Seq(Byte)
  BY <1>3, CollectedType
<1> QED
  BY <1>2, <1>4 DEF ByteString

\* A list of shares that is read spells the bytes out.
LEMMA SharesSpelled ==
  ASSUME NEW bytes \in ByteString, NEW r, r = ReadAll(ReadKeyShare, bytes), r.ok
  PROVE  r.value \in Seq(SizedShare) /\ bytes = MarshalShares(r.value)
<1>1. PICK F : AllRead(F, ShareReader, bytes) /\ r = F[1]
  BY SharesAllRead
<1>2. SpelledAll(bytes, ShareEncoder, SizedShare, F[1])
  BY <1>1, AllSpelled, SharesAreRead
<1>3. PICK shares \in Seq(SizedShare) :
        shares = r.value /\ Joins(bytes, Collected(ShareEncoder, shares), <<>>)
  BY <1>1, <1>2 DEF SpelledAll
<1>4. /\ MarshalShares(shares) \in Seq(Byte)
      /\ MarshalShares(shares) = Collected(ShareEncoder, shares)
  BY MarshalledShares DEF ByteString
<1>5. bytes = MarshalShares(shares)
  BY <1>3, <1>4, NothingJoins
<1> QED
  BY <1>3, <1>5

\* A list of shares that is marshalled is read back.
LEMMA SharesRead ==
  ASSUME NEW shares \in Seq(SizedShare)
  PROVE  ListRead(ReadAll(ReadKeyShare, MarshalShares(shares)), shares)
<1>1. PICK bytes \in ByteString :
        bytes = MarshalShares(shares) /\ bytes = Collected(ShareEncoder, shares)
  BY MarshalledShares
<1>2. PICK F : AllRead(F, ShareReader, bytes) /\ ReadAll(ReadKeyShare, bytes) = F[1]
  BY SharesAllRead
<1>3. F[1].ok /\ F[1].value = shares
  BY <1>1, <1>2, AllReads, SharesAreRead
<1> QED
  BY <1>1, <1>2, <1>3 DEF ListRead

\* A certificate list collects what is written of each entry.
LEMMA EncodedEntries ==
  ASSUME NEW entries \in Seq(CertificateEntry)
  PROVE  /\ EncodeEntries(entries) \in ByteString
         /\ EncodeEntries(entries) = Collected(EntryEncoder, entries)
<1>1. ASSUME NEW i \in 1 .. Len(entries)
      PROVE  EncodeEntry(entries[i]) = EntryEncoder[entries[i]]
  <2>1. entries[i] \in CertificateEntry
    BY ElementOfSeq
  <2> QED
    BY <2>1 DEF EntryEncoder
<1>2. EncodeEntries(entries) = Collected(EntryEncoder, entries)
  BY <1>1, Zenon DEF EncodeEntries, Collected
<1>3. EntryEncoder \in [CertificateEntry -> Seq(Byte)]
  BY EntriesAreRead DEF Reader, ByteString
<1>4. Collected(EntryEncoder, entries) \in Seq(Byte)
  BY <1>3, CollectedType
<1> QED
  BY <1>2, <1>4 DEF ByteString

\* A certificate list that is read spells the bytes out.
LEMMA EntriesSpelled ==
  ASSUME NEW bytes \in ByteString, NEW r, r = ReadAll(ReadCertificateEntry, bytes), r.ok
  PROVE  r.value \in Seq(CertificateEntry) /\ bytes = EncodeEntries(r.value)
<1>1. PICK F : AllRead(F, EntryReader, bytes) /\ r = F[1]
  BY EntriesAllRead
<1>2. SpelledAll(bytes, EntryEncoder, CertificateEntry, F[1])
  BY <1>1, AllSpelled, EntriesAreRead
<1>3. PICK entries \in Seq(CertificateEntry) :
        entries = r.value /\ Joins(bytes, Collected(EntryEncoder, entries), <<>>)
  BY <1>1, <1>2 DEF SpelledAll
<1>4. /\ EncodeEntries(entries) \in Seq(Byte)
      /\ EncodeEntries(entries) = Collected(EntryEncoder, entries)
  BY EncodedEntries DEF ByteString
<1>5. bytes = EncodeEntries(entries)
  BY <1>3, <1>4, NothingJoins
<1> QED
  BY <1>3, <1>5

\* A certificate list that is encoded is read back.
LEMMA EntriesRead ==
  ASSUME NEW entries \in Seq(CertificateEntry)
  PROVE  ListRead(ReadAll(ReadCertificateEntry, EncodeEntries(entries)), entries)
<1>1. PICK bytes \in ByteString :
        bytes = EncodeEntries(entries) /\ bytes = Collected(EntryEncoder, entries)
  BY EncodedEntries
<1>2. PICK F : AllRead(F, EntryReader, bytes) /\ ReadAll(ReadCertificateEntry, bytes) = F[1]
  BY EntriesAllRead
<1>3. F[1].ok /\ F[1].value = entries
  BY <1>1, <1>2, AllReads, EntriesAreRead
<1> QED
  BY <1>1, <1>2, <1>3 DEF ListRead

-----------------------------------------------------------------------------
(* A message and its header.                                               *)

\* The bodies that the collector of messages passes on.
Arrived == {bytes \in ByteString : Len(bytes) \in 1 .. MaxBodyLen}

\* The longest body is what three bytes can say.
LEMMA BodyLenFits == ASSUME NEW l \in Nat PROVE l <= MaxBodyLen <=> l < 256 ^ 3
<1>1. 256 ^ 3 = 16777216
  OBVIOUS
<1> QED
  BY <1>1, SMT DEF MaxBodyLen

\* A body that arrives fits the length in its header.
LEMMA ArrivedSized ==
  ASSUME NEW x \in Arrived
  PROVE  x \in Sized(3) /\ x \in ByteString
<1>1. x \in ByteString /\ Len(x) \in Nat /\ Len(x) <= MaxBodyLen
  BY LenProperties DEF Arrived, ByteString
<1>2. Len(x) < 256 ^ 3
  BY <1>1, BodyLenFits
<1> QED
  BY <1>1, <1>2, SizedLength

\* The elements of two sequences joined.
Joined(w, S, a, b, m, n) ==
  /\ m \in Nat /\ n \in Nat
  /\ w \in Seq(S) /\ Len(w) = m + n
  /\ \A i \in 1 .. m : w[i] = a[i]
  /\ \A i \in 1 .. n : w[m + i] = b[i]

\* The elements of two sequences joined.
LEMMA JoinedElements ==
  ASSUME NEW S, NEW a \in Seq(S), NEW b \in Seq(S), NEW m, NEW n, m = Len(a), n = Len(b)
  PROVE  Joined(a \o b, S, a, b, m, n)
<1>1. m \in Nat /\ n \in Nat
  BY LenProperties
<1>2. PICK w : w = a \o b
  OBVIOUS
<1>3. /\ w \in Seq(S) /\ Len(w) = m + n
      /\ \A i \in 1 .. m + n : w[i] = IF i <= m THEN a[i] ELSE b[i - m]
  BY <1>2, ConcatProperties
<1>4. \A i \in 1 .. m : w[i] = a[i]
  BY <1>1, <1>3
<1>5. ASSUME NEW i \in 1 .. n PROVE w[m + i] = b[i]
  <2>1. m + i \in 1 .. m + n /\ ~(m + i <= m) /\ (m + i) - m = i
    BY <1>1
  <2> QED
    BY <1>3, <2>1
<1> QED
  BY <1>1, <1>2, <1>3, <1>4, <1>5 DEF Joined

\* One byte in front.
LEMMA ByteInFront ==
  ASSUME NEW byte \in Byte, NEW x \in ByteString, NEW n, n = Len(x)
  PROVE  /\ <<byte>> \o x \in ByteString /\ Len(<<byte>> \o x) = n + 1
         /\ (<<byte>> \o x)[1] = byte
         /\ \A i \in 1 .. n : (<<byte>> \o x)[i + 1] = x[i]
<1>1. PICK t \in Seq(Byte) : t = <<byte>>
  <2>1. <<byte>> \in Seq(Byte)
    OBVIOUS
  <2> QED
    BY <2>1
<1>2. PICK one \in Nat : one = 1 /\ one = Len(t) /\ t[one] = byte
  BY <1>1
<1>3. PICK w : w = t \o x
  OBVIOUS
<1>4. /\ n \in Nat
      /\ w \in Seq(Byte) /\ Len(w) = one + n
      /\ \A i \in 1 .. one : w[i] = t[i]
      /\ \A i \in 1 .. n : w[one + i] = x[i]
  <2>1. x \in Seq(Byte)
    BY DEF ByteString
  <2>2. Joined(w, Byte, t, x, one, n)
    BY <1>2, <1>3, <2>1, JoinedElements, Zenon
  <2> QED
    BY <2>2 DEF Joined
<1>5. w[1] = byte
  BY <1>2, <1>4
<1>6. \A i \in 1 .. n : w[i + 1] = x[i]
  BY <1>2, <1>4
<1> QED
  BY <1>1, <1>2, <1>3, <1>4, <1>5, <1>6 DEF ByteString

\* The length in a header is that of the body.
LengthIs(data, n) == MessageLength(data) = n /\ Len(data) = 4 + n

\* A framed message has its header, its body behind it, and the body's length
\* in it (handshake.go 12-17).
LEMMA FramedParts ==
  ASSUME NEW type \in Byte, NEW x \in Sized(3)
  PROVE  /\ Framed(type, x) \in ByteString
         /\ HasHeader(type, Framed(type, x))
         /\ Body(type, Framed(type, x)) = x
         /\ LengthIs(Framed(type, x), Len(x))
<1>1. PICK l \in Nat : l = Len(x) /\ x \in ByteString /\ l < 256 ^ 3
  BY SizedLength, LenProperties DEF ByteString
<1>2. PICK n : n = Number(3, l) /\ n \in ByteString /\ Len(n) = 3 /\ Denotes(n, l)
  BY <1>1, NumberTyped, NumberRead DEF ByteString
<1>3. PICK h : h = <<type>> \o n
  OBVIOUS
<1>4. <<type>> \in ByteString
  BY DEF ByteString
<1>5. /\ h \in ByteString /\ Len(h) = 4 /\ h[1] = type
      /\ \A i \in 1 .. 3 : h[i + 1] = n[i]
  <2>1. PICK k \in Nat : k = 3
    OBVIOUS
  <2>2. n \in ByteString /\ k = Len(n)
    BY <1>2, <2>1, Zenon
  <2>3. /\ h \in ByteString /\ Len(h) = k + 1 /\ h[1] = type
        /\ \A i \in 1 .. k : h[i + 1] = n[i]
    BY <1>3, <2>2, ByteInFront
  <2> QED
    BY <2>1, <2>3
<1>6. PICK w : w = Framed(type, x)
  OBVIOUS
<1>7. w = h \o x
  <2>1. Associates(<<type>>, n, x)
    BY <1>1, <1>2, <1>4, JoinsInAnyOrder DEF ByteString
  <2>2. w = <<type>> \o (n \o x)
    BY <1>1, <1>2, <1>6 DEF Framed, Vector
  <2> QED
    BY <1>3, <2>1, <2>2 DEF Associates
<1>8. /\ w \in ByteString /\ Len(w) = 4 + l
      /\ \A i \in 1 .. 4 : w[i] = h[i]
      /\ SubSeq(w, 5, Len(w)) = x
  <2>1. Joined(w, Byte, h, x, Len(h), Len(x))
    BY <1>1, <1>5, <1>7, JoinedElements DEF ByteString
  <2>2. w \in ByteString /\ Len(w) = 4 + l /\ \A i \in 1 .. 4 : w[i] = h[i]
    BY <1>1, <1>5, <2>1 DEF Joined, ByteString
  <2>3. SubSeq(h \o x, Len(h) + 1, Len(h \o x)) = x
    <3>1. h \in Seq(Byte) /\ x \in Seq(Byte)
      BY <1>1, <1>5 DEF ByteString
    <3> QED
      BY <3>1, PartsOfJoin
  <2>4. Len(h) + 1 = 5
    BY <1>5
  <2> QED
    BY <1>7, <2>1, <2>2, <2>3, <2>4
<1>9. HasHeader(type, w)
  <2>1. Len(w) >= 4 /\ w[1] = h[1]
    BY <1>8
  <2> QED
    BY <1>5, <2>1 DEF HasHeader, HandshakeHeaderLen
<1>10. Body(type, w) = x
  BY <1>8, <1>9 DEF Body, HandshakeHeaderLen
<1>11. SubSeq(w, 2, 4) = n
  <2>1. PICK s : s = SubSeq(w, 2, 4)
    OBVIOUS
  <2>2. s \in ByteString /\ Len(s) = 3 /\ \A i \in 1 .. 3 : s[i] = w[i + 1]
    BY <1>8, <2>1 DEF ByteString
  <2>3. ASSUME NEW i \in 1 .. 3 PROVE s[i] = n[i]
    <3>1. i + 1 \in 1 .. 4
      OBVIOUS
    <3> QED
      BY <1>5, <1>8, <2>2, <3>1
  <2> QED
    BY <1>2, <2>1, <2>2, <2>3, SeqEqual DEF ByteString
<1>12. LengthIs(w, l)
  BY <1>2, <1>8, <1>11 DEF LengthIs, MessageLength, HandshakeHeaderLen, Denotes
<1> QED
  BY <1>1, <1>6, <1>8, <1>9, <1>10, <1>12

\* What a parser returns of a body is an error or spells the body out.
ReadsAs(type, x, r) ==
  /\ r.outcome \in {"ok", "error"}
  /\ r.outcome = "ok" =>
       /\ r.value \in MessageOf(type) /\ r.rest \in ByteString
       /\ \E body \in Encodings(type, r.value) : Joins(x, body, r.rest)
       /\ r.rest # <<>> => type = HandshakeType.EncryptedExtensions

\* A whole message is read as it was sent, if it should be read.
ReadsBack(type, m, r) ==
  /\ r.outcome = "ok" <=> Legal(type, m)
  /\ r.outcome = "ok" => r.value = m

\* A body with nothing behind it.
LEMMA NothingBehind ==
  ASSUME NEW x \in ByteString
  PROVE  <<>> \in ByteString /\ Joins(x, x, <<>>)
BY EmptySeq, ConcatEmptySeq DEF ByteString, Joins

\* What a parser's result must satisfy, from its outcome.
LEMMA ReadsAsResult ==
  ASSUME NEW type, NEW x, NEW ok \in BOOLEAN, NEW value, NEW rest \in ByteString,
         NEW r, r = Result(ok, value, rest),
         ok => /\ value \in MessageOf(type)
               /\ \E body \in Encodings(type, value) : Joins(x, body, rest)
               /\ rest # <<>> => type = HandshakeType.EncryptedExtensions
  PROVE  ReadsAs(type, x, r)
<1>1. /\ r.outcome = IF ok THEN "ok" ELSE "error"
      /\ r.value = value /\ r.rest = rest
  BY DEF Result
<1> QED
  BY <1>1 DEF ReadsAs

\* The same for a whole message.
LEMMA ReadsBackResult ==
  ASSUME NEW type, NEW m, NEW ok \in BOOLEAN, NEW value, NEW rest,
         NEW r, r = Result(ok, value, rest),
         Legal(type, m) <=> ok, ok => value = m
  PROVE  ReadsBack(type, m, r)
<1>1. /\ r.outcome = IF ok THEN "ok" ELSE "error"
      /\ r.value = value
  BY DEF Result
<1>2. r.outcome = "ok" <=> ok
  BY <1>1
<1> QED
  BY <1>1, <1>2 DEF ReadsBack

-----------------------------------------------------------------------------
(* KeyUpdate and Finished.                                                 *)

\* Unmarshal of a KeyUpdate is exact.
LEMMA KeyUpdateExact ==
  ASSUME NEW x \in Arrived, NEW type, type = HandshakeType.KeyUpdate,
         NEW r, r = Unmarshal(type, Framed(type, x))
  PROVE  /\ ReadsAs(type, x, r)
         /\ \A m \in MessageOf(type) : x = Encode(type, m) => ReadsBack(type, m, r)
<1>1. x \in Sized(3) /\ x \in ByteString /\ type \in Byte
  BY ArrivedSized DEF HandshakeType, Byte
<1>2. Body(type, Framed(type, x)) = x
  BY <1>1, FramedParts
<1>3. r = Result(x \in {<<0>>, <<1>>}, x = <<1>>, <<>>)
  BY <1>2 DEF Unmarshal, UnmarshalKeyUpdate, HandshakeType
<1>4. MessageOf(type) = BOOLEAN /\ Encodings(type, TRUE) = {<<1>>}
      /\ Encodings(type, FALSE) = {<<0>>}
  BY DEF MessageOf, Encodings, Encode, HandshakeType
<1>5. ReadsAs(type, x, r)
  <2>1. <<>> \in ByteString /\ Joins(x, x, <<>>)
    BY <1>1, NothingBehind
  <2> DEFINE bodies == {<<0>>, <<1>>}
  <2>2. ASSUME x \in bodies
        PROVE  \E body \in Encodings(type, x = <<1>>) : Joins(x, body, <<>>)
    <3>1. CASE x = <<1>>
      BY <1>4, <2>1, <3>1
    <3>2. CASE x = <<0>>
      <4>1. (x = <<1>>) = FALSE
        BY <3>2
      <4>2. x \in Encodings(type, x = <<1>>)
        BY <1>4, <3>2, <4>1
      <4> QED
        BY <2>1, <4>2
    <3> QED
      BY <2>2, <3>1, <3>2
  <2>3. (x = <<1>>) \in MessageOf(type)
    BY <1>4
  <2> QED
    <3>1. PICK ok \in BOOLEAN : ok = (x \in {<<0>>, <<1>>})
      <4>1. (x \in {<<0>>, <<1>>}) \in BOOLEAN
        OBVIOUS
      <4> QED
        BY <4>1, Zenon
    <3>2. PICK v : v = (x = <<1>>)
      OBVIOUS
    <3>3. r = Result(ok, v, <<>>)
      BY <1>3, <3>1, <3>2
    <3>4. v \in MessageOf(type)
      BY <2>3, <3>2
    <3>5. ok => \E body \in Encodings(type, v) : Joins(x, body, <<>>)
      BY <2>2, <3>1, <3>2
    <3> QED
      BY <2>1, <3>3, <3>4, <3>5, ReadsAsResult
<1>6. ASSUME NEW m \in MessageOf(type), x = Encode(type, m) PROVE ReadsBack(type, m, r)
  <2>1. m \in BOOLEAN
    BY <1>4
  <2>2. x = <<IF m THEN 1 ELSE 0>>
    BY <1>6 DEF Encode, HandshakeType
  <2>3. Legal(type, m)
    BY DEF Legal, HandshakeType
  <2>4. (x = <<1>>) = m
    BY <2>1, <2>2
  <2> QED
    <3>1. x \in {<<0>>, <<1>>} /\ (x \in {<<0>>, <<1>>}) \in BOOLEAN
      BY <2>1, <2>2
    <3> QED
      BY <1>3, <2>3, <2>4, <3>1, ReadsBackResult, Zenon
<1> QED
  BY <1>5, <1>6

\* Unmarshal of a Finished is exact.
LEMMA FinishedExact ==
  ASSUME NEW x \in Arrived, NEW type, type = HandshakeType.Finished,
         NEW r, r = Unmarshal(type, Framed(type, x))
  PROVE  /\ ReadsAs(type, x, r)
         /\ \A m \in MessageOf(type) : x = Encode(type, m) => ReadsBack(type, m, r)
<1>1. x \in Sized(3) /\ x \in ByteString /\ type \in Byte
  BY ArrivedSized DEF HandshakeType, Byte
<1>2. PICK t \in ByteString : t = <<type>> /\ Len(t) = 1
  <2>1. <<type>> \in ByteString /\ Len(<<type>>) = 1
    BY <1>1 DEF ByteString
  <2> QED
    BY <2>1
<1>3. PICK v \in ByteString : v = Vector(3, x)
  BY <1>1, VectorTyped
<1>4. HasRead(Read(1, Framed(type, x)), t, v)
  BY <1>2, <1>3, ReadsFront DEF Framed
<1>5. HasRead(ReadVector(3, v), x, <<>>)
  <2>1. v \o <<>> = v /\ <<>> \in ByteString
    BY <1>3, ConcatEmptySeq, EmptySeq DEF ByteString
  <2>2. HasRead(ReadVector(3, Vector(3, x) \o <<>>), x, <<>>)
    <3>1. 3 \in 1 .. 3
      OBVIOUS
    <3> QED
      BY <1>1, <2>1, <3>1, ReadsVector, Zenon
  <2> QED
    BY <1>3, <2>1, <2>2
<1>6. r = Result(TRUE, x, <<>>)
  <2>1. Unmarshal(type, Framed(type, x)) = UnmarshalFinished(Framed(type, x))
    BY DEF Unmarshal, HandshakeType
  <2> QED
    BY <1>4, <1>5, <2>1 DEF UnmarshalFinished, HasRead
<1>7. MessageOf(type) = ByteString /\ Encodings(type, x) = {x}
  BY DEF MessageOf, Encodings, Encode, HandshakeType, ByteString
<1>8. ReadsAs(type, x, r)
  <2>1. x \in Encodings(type, x) /\ x \in MessageOf(type)
    BY <1>1, <1>7
  <2> QED
    BY <1>1, <1>6, <2>1, NothingBehind, ReadsAsResult
<1>9. ASSUME NEW m, x = Encode(type, m) PROVE ReadsBack(type, m, r)
  <2>1. m = x /\ Legal(type, m)
    BY <1>9 DEF Encode, Legal, HandshakeType
  <2> QED
    BY <1>6, <2>1, ReadsBackResult
<1> QED
  BY <1>8, <1>9

-----------------------------------------------------------------------------
(* CertificateVerify.                                                      *)

\* A byte without a body is an empty vector.
LEMMA EmptyVector == Vector(1, <<>>) = <<0>> /\ <<>> \in Sized(1) /\ <<0>> \in ByteString
<1>1. Len(<<>>) = 0 /\ <<>> \in ByteString
  BY EmptySeq DEF ByteString
<1>2. PICK n : n = Number(1, 0)
  OBVIOUS
<1>3. n \in Seq(Byte) /\ Len(n) = 1 /\ n[1] = 0
  <2>1. n \in Seq(Byte) /\ Len(n) = 1
    BY <1>2, NumberTyped
  <2>2. (0 \div 256 ^ (1 - 1)) % 256 = 0
    OBVIOUS
  <2> QED
    BY <1>2, <2>1, <2>2 DEF Number
<1>4. n = <<0>>
  BY <1>3
<1>5. n \o <<>> = n
  BY <1>3, ConcatEmptySeq
<1>6. <<>> \in Sized(1)
  BY <1>1, SizedLength
<1> QED
  BY <1>1, <1>2, <1>3, <1>4, <1>5, <1>6 DEF Vector, ByteString

\* Unmarshal of a CertificateVerify is exact (certificate.go): nothing may be
\* behind the signature.
LEMMA CertificateVerifyExact ==
  ASSUME NEW x \in Arrived, NEW type, type = HandshakeType.CertificateVerify,
         NEW r, r = Unmarshal(type, Framed(type, x))
  PROVE  /\ ReadsAs(type, x, r)
         /\ \A m \in MessageOf(type) : x = Encode(type, m) => ReadsBack(type, m, r)
<1>1. x \in Sized(3) /\ x \in ByteString /\ type \in Byte
  BY ArrivedSized DEF HandshakeType, Byte
<1>2. Body(type, Framed(type, x)) = x
  BY <1>1, FramedParts
<1>3. PICK number : number = Read(2, x)
  OBVIOUS
<1>4. PICK vector : vector = ReadVector(2, number.rest)
  OBVIOUS
<1>5. PICK ok \in BOOLEAN : ok = (number.ok /\ vector.ok /\ vector.rest = <<>>)
  <2>1. (number.ok /\ vector.ok /\ vector.rest = <<>>) \in BOOLEAN
    OBVIOUS
  <2> QED
    BY <2>1, Zenon
<1>6. PICK v : v = [scheme |-> Value(number.value), signature |-> vector.value]
  OBVIOUS
<1>7. r = Result(ok, v, <<>>)
  <2>1. Unmarshal(type, Framed(type, x)) = UnmarshalCertificateVerify(Framed(type, x))
    BY DEF Unmarshal, HandshakeType
  <2> QED
    BY <1>2, <1>3, <1>4, <1>5, <1>6, <2>1, Zenon DEF UnmarshalCertificateVerify
<1>8. MessageOf(type) = CertificateVerifyFields
  BY DEF MessageOf, HandshakeType
<1>9. ASSUME NEW m \in MessageOf(type)
      PROVE  Encode(type, m) = Pair(m.scheme, m.signature) /\ Encodings(type, m) = {Encode(type, m)}
  BY DEF Encode, Encodings, Pair, HandshakeType
<1>10. ASSUME ok
       PROVE  /\ v \in MessageOf(type)
              /\ \E body \in Encodings(type, v) : Joins(x, body, <<>>)
  <2>1. PairSpelled(x, Value(number.value), vector.value, vector.rest)
    BY <1>1, <1>3, <1>4, <1>5, <1>10, PairSplits
  <2>2. v \in MessageOf(type) /\ v.scheme = Value(number.value) /\ v.signature = vector.value
    BY <1>6, <1>8, <2>1 DEF PairSpelled, CertificateVerifyFields
  <2>3. Joins(x, Pair(v.scheme, v.signature), <<>>)
    BY <1>5, <1>10, <2>1, <2>2 DEF PairSpelled
  <2> QED
    BY <1>9, <2>2, <2>3
<1>11. ReadsAs(type, x, r)
  <2>1. <<>> \in ByteString
    BY EmptySeq DEF ByteString
  <2> QED
    BY <1>7, <1>10, <2>1, ReadsAsResult
<1>12. ASSUME NEW m \in MessageOf(type), x = Encode(type, m) PROVE ReadsBack(type, m, r)
  <2>1. PICK n \in Uint16, s \in Sized(2) :
          n = m.scheme /\ s = m.signature /\ m = [scheme |-> n, signature |-> s]
    BY <1>8 DEF CertificateVerifyFields
  <2>2. Legal(type, m)
    BY DEF Legal, HandshakeType
  <2>3. x = Pair(n, s) /\ Pair(n, s) \in ByteString
    BY <1>9, <1>12, <2>1, PairTyped, SizedLength
  <2>4. x = Pair(n, s) \o <<>> /\ <<>> \in ByteString
    BY <2>3, ConcatEmptySeq, EmptySeq DEF ByteString
  <2>5. PairRead(x, n, s, <<>>)
    BY <2>4, PairReads
  <2>6. number.ok /\ vector.ok /\ vector.rest = <<>> /\ v = m
    BY <1>3, <1>4, <1>6, <2>1, <2>5 DEF PairRead, HasRead, NumberOf
  <2> QED
    BY <1>5, <1>7, <2>2, <2>6, ReadsBackResult
<1> QED
  BY <1>11, <1>12

-----------------------------------------------------------------------------
(* CertificateRequest.                                                     *)

\* A list of schemes that is not empty is what the parser takes.
LEMMA SchemesParse ==
  ASSUME NEW p \in Sized(2)
  PROVE  ParseSignatureAlgorithms(p).ok <=> SpellsSchemes(p)
<1>1. PICK l \in Nat : l = Len(p) /\ l < 256 ^ 2 /\ p \in ByteString
  BY SizedLength, LenProperties DEF ByteString
<1>2. PICK list : list = ReadVector(2, p)
  OBVIOUS
<1>3. ParseSignatureAlgorithms(p).ok
        <=> list.ok /\ list.value # <<>> /\ Len(list.value) % 2 = 0
  BY <1>2, Zenon DEF ParseSignatureAlgorithms, ReadNumbers
<1>4. IsRead(list) /\ (list.ok => SpelledVector(p, 2, list))
  BY <1>1, <1>2, ReadVectorSplits
<1>5. ASSUME list.ok, list.value # <<>>, Len(list.value) % 2 = 0 PROVE SpellsSchemes(p)
  <2>1. PICK v \in ByteString, t \in ByteString : v = list.value /\ t = list.rest
    BY <1>4 DEF IsRead
  <2>2. PICK n \in Nat, k \in Nat : n = Len(v) /\ n # 0 /\ n % 2 = 0 /\ k = Len(t)
    BY <1>5, <2>1, LenProperties, EmptySeq DEF ByteString
  <2>3. PICK a \in ByteString : a = Number(2, n) /\ Len(a) = 2
    BY <2>2, NumberTyped DEF ByteString
  <2>4. v \o t \in ByteString /\ Len(v \o t) = n + k
    BY <2>1, <2>2, ConcatProperties DEF ByteString
  <2>5. p = a \o (v \o t)
    <3>1. p = (a \o v) \o t
      BY <1>4, <1>5, <2>1, <2>2, <2>3 DEF SpelledVector, Vector
    <3>2. Associates(a, v, t)
      BY JoinsInAnyOrder DEF ByteString
    <3> QED
      BY <3>1, <3>2 DEF Associates
  <2>6. SubSeq(p, 1, 2) = a /\ Len(p) = 2 + (n + k)
    <3>1. /\ Len(a \o (v \o t)) = Len(a) + Len(v \o t)
          /\ SubSeq(a \o (v \o t), 1, Len(a)) = a
      <4>1. PICK w : w = v \o t
        OBVIOUS
      <4>2. a \in Seq(Byte) /\ w \in Seq(Byte)
        BY <2>4, <4>1 DEF ByteString
      <4> QED
        BY <4>1, <4>2, PartsOfJoin
    <3> QED
      BY <2>3, <2>4, <2>5, <3>1
  <2>7. n \in 1 .. Len(p) - 2
    BY <2>2, <2>6
  <2> QED
    BY <2>2, <2>3, <2>6, <2>7 DEF SpellsSchemes
<1>6. ASSUME SpellsSchemes(p) PROVE list.ok /\ list.value # <<>> /\ Len(list.value) % 2 = 0
  <2>1. PICK n \in 1 .. l - 2 : n % 2 = 0 /\ SubSeq(p, 1, 2) = Number(2, n)
    BY <1>1, <1>6 DEF SpellsSchemes
  <2>2. n \in Nat /\ n # 0 /\ n < 256 ^ 2 /\ 2 \in 0 .. l
    BY <1>1, <2>1
  <2>3. PICK a \in ByteString, b \in ByteString :
          a = SubSeq(p, 1, 2) /\ Len(b) = l - 2 /\ Joins(p, a, b)
    BY <1>1, <2>2, FrontAndBack DEF ByteString
  <2>4. n \in 0 .. Len(b)
    BY <1>1, <2>1, <2>3
  <2>5. PICK v \in ByteString, t \in ByteString : Len(v) = n /\ Joins(b, v, t)
    BY <2>4, FrontAndBack DEF ByteString
  <2>6. v \in Sized(2)
    BY <2>2, <2>5, SizedLength
  <2>7. p = Vector(2, v) \o t
    <3>1. p = a \o (v \o t)
      BY <2>3, <2>5 DEF Joins
    <3>2. Associates(a, v, t)
      BY JoinsInAnyOrder DEF ByteString
    <3>3. a = Number(2, Len(v))
      BY <2>1, <2>3, <2>5
    <3> QED
      BY <3>1, <3>2, <3>3 DEF Associates, Vector
  <2>8. HasRead(list, v, t)
    BY <1>2, <2>6, <2>7, ReadsVector
  <2>9. v # <<>>
    BY <2>2, <2>5
  <2> QED
    BY <2>1, <2>5, <2>8, <2>9 DEF HasRead
<1> QED
  BY <1>3, <1>5, <1>6

\* The extensions of a CertificateRequest that parse are the legal ones.
LEMMA RequestExtensionLegal ==
  ASSUME NEW ext \in Extension
  PROVE  RequestExtensionParses(ext) <=> LegalInRequest(ext)
<1>1. ext.payload \in Sized(2)
  BY DEF Extension
<1>2. ParseSignatureAlgorithms(ext.payload).ok <=> SpellsSchemes(ext.payload)
  BY <1>1, SchemesParse
<1> QED
  BY <1>2 DEF RequestExtensionParses, LegalInRequest, ExtensionType

\* A vector behind an empty context, and nothing behind that.
InContext(width, v) == <<0>> \o Vector(width, v)

\* A vector behind an empty context is read back.
LEMMA ContextReads ==
  ASSUME NEW width \in 1 .. 3, NEW v \in Sized(width)
  PROVE  /\ HasRead(ReadVector(1, InContext(width, v)), <<>>, Vector(width, v))
         /\ HasRead(ReadVector(width, Vector(width, v)), v, <<>>)
<1>1. v \in ByteString
  BY SizedLength
<1>2. PICK w \in ByteString : w = Vector(width, v)
  BY <1>1, VectorTyped
<1>3. HasRead(ReadVector(1, Vector(1, <<>>) \o w), <<>>, w)
  <2>1. 1 \in 1 .. 3
    OBVIOUS
  <2> QED
    BY <2>1, EmptyVector, ReadsVector, Zenon
<1>4. w \o <<>> = w /\ <<>> \in ByteString
  BY ConcatEmptySeq, EmptySeq DEF ByteString
<1>5. HasRead(ReadVector(width, Vector(width, v) \o <<>>), v, <<>>)
  BY <1>4, ReadsVector, Zenon
<1> QED
  BY <1>2, <1>3, <1>4, <1>5, EmptyVector DEF InContext

\* When the context read is empty and nothing is behind the vector, the bytes
\* are these.
LEMMA ContextSplits ==
  ASSUME NEW width \in 1 .. 3, NEW x \in ByteString, NEW context, context = ReadVector(1, x),
         NEW list, list = ReadVector(width, context.rest),
         context.ok, context.value = <<>>, list.ok, list.rest = <<>>
  PROVE  list.value \in Sized(width) /\ Joins(x, InContext(width, list.value), <<>>)
<1>1. IsRead(context) /\ SpelledVector(x, 1, context)
  <2>1. 1 \in 1 .. 3
    OBVIOUS
  <2> QED
    BY <2>1, ReadVectorSplits, Zenon
<1>2. list.value \in Sized(width) /\ SpelledVector(context.rest, width, list)
  BY <1>1, ReadVectorSplits DEF IsRead
<1>3. PICK w \in ByteString : w = Vector(width, list.value)
  BY <1>2, VectorTyped, SizedLength
<1>4. w \o <<>> = w
  BY ConcatEmptySeq DEF ByteString
<1>5. x = <<0>> \o w
  BY <1>1, <1>2, <1>3, <1>4, EmptyVector DEF SpelledVector
<1>6. x \o <<>> = x
  BY ConcatEmptySeq DEF ByteString
<1> QED
  BY <1>2, <1>3, <1>5, <1>6 DEF InContext, Joins

\* A list of extensions that fits its length.
LEMMA ExtensionListIs ==
  ASSUME NEW exts
  PROVE  exts \in ExtensionList <=> exts \in Seq(Extension) /\ MarshalExtensions(exts) \in Sized(2)
BY DEF ExtensionList, Extension

\* Unmarshal of a CertificateRequest is exact.
LEMMA CertificateRequestExact ==
  ASSUME NEW x \in Arrived, NEW type, type = HandshakeType.CertificateRequest,
         NEW r, r = Unmarshal(type, Framed(type, x))
  PROVE  /\ ReadsAs(type, x, r)
         /\ \A m \in MessageOf(type) : x = Encode(type, m) => ReadsBack(type, m, r)
<1>1. x \in Sized(3) /\ x \in ByteString /\ type \in Byte
  BY ArrivedSized DEF HandshakeType, Byte
<1>2. Body(type, Framed(type, x)) = x
  BY <1>1, FramedParts
<1>3. PICK context : context = ReadVector(1, x)
  OBVIOUS
<1>4. PICK list : list = ReadVector(2, context.rest)
  OBVIOUS
<1>5. PICK exts : exts = UnmarshalExtensions(list.value)
  OBVIOUS
<1>6. PICK ok \in BOOLEAN :
        ok = (/\ context.ok /\ context.value = <<>>
              /\ list.ok /\ list.rest = <<>> /\ exts.ok
              /\ \A i \in 1 .. Len(exts.value) : RequestExtensionParses(exts.value[i]))
  <2>1. (/\ context.ok /\ context.value = <<>>
         /\ list.ok /\ list.rest = <<>> /\ exts.ok
         /\ \A i \in 1 .. Len(exts.value) :
              RequestExtensionParses(exts.value[i])) \in BOOLEAN
    OBVIOUS
  <2> QED
    BY <2>1, Zenon
<1>7. r = Result(ok, exts.value, <<>>)
  <2>1. Unmarshal(type, Framed(type, x)) = UnmarshalCertificateRequest(Framed(type, x))
    BY DEF Unmarshal, HandshakeType
  <2> QED
    BY <1>2, <1>3, <1>4, <1>5, <1>6, <2>1, Zenon DEF UnmarshalCertificateRequest
<1>8. MessageOf(type) = ExtensionList
  BY DEF MessageOf, HandshakeType
<1>9. ASSUME NEW m
      PROVE  /\ Encode(type, m) = InContext(2, MarshalExtensions(m))
             /\ Encodings(type, m) = {Encode(type, m)}
  BY DEF Encode, Encodings, InContext, HandshakeType
<1>10. ASSUME ok
       PROVE  /\ exts.value \in MessageOf(type)
              /\ \E body \in Encodings(type, exts.value) : Joins(x, body, <<>>)
  <2>1. list.value \in Sized(2) /\ Joins(x, InContext(2, list.value), <<>>)
    <3>1. 2 \in 1 .. 3
      OBVIOUS
    <3>2. context.ok /\ context.value = <<>> /\ list.ok /\ list.rest = <<>>
      BY <1>6, <1>10
    <3> QED
      BY <1>1, <1>3, <1>4, <3>1, <3>2, ContextSplits, Zenon
  <2>2. exts.value \in Seq(Extension) /\ list.value = MarshalExtensions(exts.value)
    <3>1. list.value \in ByteString
      BY <2>1, SizedLength
    <3> QED
      BY <1>5, <1>6, <1>10, <3>1, ExtensionsSpelled
  <2> QED
    BY <1>8, <1>9, <2>1, <2>2, ExtensionListIs
<1>11. ReadsAs(type, x, r)
  <2>1. <<>> \in ByteString
    BY EmptySeq DEF ByteString
  <2> QED
    BY <1>7, <1>10, <2>1, ReadsAsResult
<1>12. ASSUME NEW m \in MessageOf(type), x = Encode(type, m) PROVE ReadsBack(type, m, r)
  <2>1. m \in Seq(Extension) /\ MarshalExtensions(m) \in Sized(2)
    BY <1>8, ExtensionListIs
  <2>2. PICK b \in Sized(2) : b = MarshalExtensions(m) /\ x = InContext(2, b)
    BY <1>9, <1>12, <2>1
  <2>3. HasRead(context, <<>>, Vector(2, b)) /\ HasRead(ReadVector(2, Vector(2, b)), b, <<>>)
    BY <1>3, <2>2, ContextReads
  <2>4. HasRead(context, <<>>, Vector(2, b)) /\ HasRead(list, b, <<>>)
    BY <1>4, <2>3 DEF HasRead
  <2>5. exts.ok /\ exts.value = m
    BY <1>5, <2>1, <2>2, <2>4, ExtensionsRead DEF HasRead, ListRead
  <2>6. Legal(type, m) <=> \A i \in 1 .. Len(m) : LegalInRequest(m[i])
    BY DEF Legal, HandshakeType
  <2>7. ASSUME NEW i \in 1 .. Len(m) PROVE RequestExtensionParses(m[i]) <=> LegalInRequest(m[i])
    BY <2>1, ElementOfSeq, RequestExtensionLegal
  <2>8. Legal(type, m) <=> ok
    BY <1>6, <2>4, <2>5, <2>6, <2>7 DEF HasRead
  <2> QED
    BY <1>7, <2>5, <2>8, ReadsBackResult
<1> QED
  BY <1>11, <1>12

\* Unmarshal of a Certificate is exact (certificate.go 17-53).
LEMMA CertificateExact ==
  ASSUME NEW x \in Arrived, NEW type, type = HandshakeType.Certificate,
         NEW r, r = Unmarshal(type, Framed(type, x))
  PROVE  /\ ReadsAs(type, x, r)
         /\ \A m \in MessageOf(type) : x = Encode(type, m) => ReadsBack(type, m, r)
<1>1. x \in Sized(3) /\ x \in ByteString /\ type \in Byte
  BY ArrivedSized DEF HandshakeType, Byte
<1>2. Body(type, Framed(type, x)) = x
  BY <1>1, FramedParts
<1>3. PICK context : context = ReadVector(1, x)
  OBVIOUS
<1>4. PICK list : list = ReadVector(3, context.rest)
  OBVIOUS
<1>5. PICK entries : entries = ReadAll(ReadCertificateEntry, list.value)
  OBVIOUS
<1>6. PICK ok \in BOOLEAN :
        ok = (/\ context.ok /\ context.value = <<>>
              /\ list.ok /\ list.rest = <<>>
              /\ entries.ok)
  <2>1. (/\ context.ok /\ context.value = <<>>
         /\ list.ok /\ list.rest = <<>>
         /\ entries.ok) \in BOOLEAN
    OBVIOUS
  <2> QED
    BY <2>1, Zenon
<1>7. r = Result(ok, entries.value, <<>>)
  <2>1. Unmarshal(type, Framed(type, x)) = UnmarshalCertificate(Framed(type, x))
    BY DEF Unmarshal, HandshakeType
  <2> QED
    BY <1>2, <1>3, <1>4, <1>5, <1>6, <2>1, Zenon DEF UnmarshalCertificate
<1>8. MessageOf(type) = CertificateList
  BY DEF MessageOf, HandshakeType
<1>9. ASSUME NEW m
      PROVE  /\ Encode(type, m) = InContext(3, EncodeEntries(m))
             /\ Encodings(type, m) = {Encode(type, m)}
  BY DEF Encode, Encodings, InContext, HandshakeType
<1>10. ASSUME NEW m
       PROVE  m \in CertificateList
                <=> m \in Seq(CertificateEntry) /\ EncodeEntries(m) \in Sized(3)
  BY DEF CertificateList, CertificateEntry
<1>11. ASSUME ok
       PROVE  /\ entries.value \in MessageOf(type)
              /\ \E body \in Encodings(type, entries.value) : Joins(x, body, <<>>)
  <2>1. list.value \in Sized(3) /\ Joins(x, InContext(3, list.value), <<>>)
    <3>1. 3 \in 1 .. 3
      OBVIOUS
    <3>2. context.ok /\ context.value = <<>> /\ list.ok /\ list.rest = <<>>
      BY <1>6, <1>11
    <3> QED
      BY <1>1, <1>3, <1>4, <3>1, <3>2, ContextSplits, Zenon
  <2>2. entries.value \in Seq(CertificateEntry) /\ list.value = EncodeEntries(entries.value)
    <3>1. list.value \in ByteString
      BY <2>1, SizedLength
    <3> QED
      BY <1>5, <1>6, <1>11, <3>1, EntriesSpelled
  <2> QED
    BY <1>8, <1>9, <1>10, <2>1, <2>2
<1>12. ReadsAs(type, x, r)
  <2>1. <<>> \in ByteString
    BY EmptySeq DEF ByteString
  <2> QED
    BY <1>7, <1>11, <2>1, ReadsAsResult
<1>13. ASSUME NEW m \in MessageOf(type), x = Encode(type, m) PROVE ReadsBack(type, m, r)
  <2>1. m \in Seq(CertificateEntry) /\ EncodeEntries(m) \in Sized(3)
    BY <1>8, <1>10
  <2>2. PICK b \in Sized(3) : b = EncodeEntries(m) /\ x = InContext(3, b)
    BY <1>9, <1>13, <2>1
  <2>3. HasRead(context, <<>>, Vector(3, b)) /\ HasRead(ReadVector(3, Vector(3, b)), b, <<>>)
    BY <1>3, <2>2, ContextReads
  <2>4. HasRead(context, <<>>, Vector(3, b)) /\ HasRead(list, b, <<>>)
    BY <1>4, <2>3 DEF HasRead
  <2>5. entries.ok /\ entries.value = m
    BY <1>5, <2>1, <2>2, <2>4, EntriesRead DEF HasRead, ListRead
  <2>6. Legal(type, m)
    BY DEF Legal, HandshakeType
  <2>7. Legal(type, m) <=> ok
    BY <1>6, <2>4, <2>5, <2>6 DEF HasRead
  <2> QED
    BY <1>7, <2>5, <2>7, ReadsBackResult
<1> QED
  BY <1>12, <1>13

-----------------------------------------------------------------------------
(* EncryptedExtensions.                                                    *)

\* A server name is acknowledged without one.
NamesEmpty(exts) ==
  \A i \in 1 .. Len(exts) :
    exts[i].type = ExtensionType.ServerName => exts[i].payload = <<>>

\* Unmarshal of EncryptedExtensions is exact, but for bytes behind the list,
\* and slices in range: the length in the header is that of the body
\* (encrypted_extensions.go 23-45).
LEMMA EncryptedExtensionsExact ==
  ASSUME NEW x \in Arrived, NEW type, type = HandshakeType.EncryptedExtensions,
         NEW r, r = Unmarshal(type, Framed(type, x))
  PROVE  /\ ReadsAs(type, x, r)
         /\ \A m \in MessageOf(type) : x = Encode(type, m) => ReadsBack(type, m, r)
<1>1. x \in Sized(3) /\ x \in ByteString /\ type \in Byte
  BY ArrivedSized DEF HandshakeType, Byte
<1>2. PICK w : w = Framed(type, x)
  OBVIOUS
<1>3. /\ HasHeader(type, w) /\ Body(type, w) = x
      /\ MessageLength(w) = Len(x) /\ Len(w) = 4 + Len(x)
  BY <1>1, <1>2, FramedParts DEF LengthIs
<1>4. /\ ~(HandshakeHeaderLen + MessageLength(w) > Len(w))
      /\ SubSeq(w, HandshakeHeaderLen + 1, HandshakeHeaderLen + MessageLength(w)) = x
  <2>1. Len(x) \in Nat
    BY <1>1, LenProperties DEF ByteString
  <2>2. HandshakeHeaderLen + MessageLength(w) = Len(w)
    BY <1>3 DEF HandshakeHeaderLen
  <2>3. SubSeq(w, HandshakeHeaderLen + 1, Len(w)) = x
    BY <1>3 DEF Body
  <2>4. ~(Len(w) > Len(w))
    BY <1>3, <2>1
  <2> QED
    BY <2>2, <2>3, <2>4
<1>5. PICK list : list = ReadVector(2, x)
  OBVIOUS
<1>6. PICK exts : exts = UnmarshalExtensions(list.value)
  OBVIOUS
<1>7. PICK ok \in BOOLEAN :
        ok = (/\ list.ok /\ exts.ok /\ ~Duplicate(exts.value)
              /\ NamesEmpty(exts.value))
  <2>1. (/\ list.ok /\ exts.ok /\ ~Duplicate(exts.value)
         /\ NamesEmpty(exts.value)) \in BOOLEAN
    OBVIOUS
  <2> QED
    BY <2>1, Zenon
<1>8. r = Result(ok, exts.value, list.rest)
  <2>1. Unmarshal(type, w) = UnmarshalEncryptedExtensions(w)
    BY DEF Unmarshal, HandshakeType
  <2>2. HasHeader(HandshakeType.EncryptedExtensions, w)
    BY <1>3
  <2>3. UnmarshalEncryptedExtensions(w)
          = Result(/\ list.ok /\ exts.ok /\ ~Duplicate(exts.value)
                   /\ NamesEmpty(exts.value), exts.value, list.rest)
    BY <1>4, <1>5, <1>6, <2>2 DEF UnmarshalEncryptedExtensions, NamesEmpty
  <2> QED
    BY <1>2, <1>7, <2>1, <2>3
<1>9. MessageOf(type) = ExtensionList
  BY DEF MessageOf, HandshakeType
<1>10. ASSUME NEW m
       PROVE  /\ Encode(type, m) = Vector(2, MarshalExtensions(m))
              /\ Encodings(type, m) = {Encode(type, m)}
  BY DEF Encode, Encodings, HandshakeType
<1>11. IsRead(list) /\ (list.ok => list.value \in Sized(2) /\ SpelledVector(x, 2, list))
  BY <1>1, <1>5, ReadVectorSplits
<1>12. ASSUME ok
       PROVE  /\ exts.value \in MessageOf(type)
              /\ \E body \in Encodings(type, exts.value) : Joins(x, body, list.rest)
  <2>1. list.value \in Sized(2) /\ list.value \in ByteString /\ SpelledVector(x, 2, list)
    <3>1. list.value \in Sized(2) /\ SpelledVector(x, 2, list)
      BY <1>7, <1>11, <1>12
    <3> QED
      BY <3>1, SizedLength
  <2>2. exts.value \in Seq(Extension) /\ list.value = MarshalExtensions(exts.value)
    BY <1>6, <1>7, <1>12, <2>1, ExtensionsSpelled
  <2> QED
    BY <1>9, <1>10, <2>1, <2>2, ExtensionListIs DEF SpelledVector, Joins
<1>13. ReadsAs(type, x, r)
  <2>1. list.rest \in ByteString
    BY <1>11 DEF IsRead
  <2> QED
    BY <1>8, <1>12, <2>1, ReadsAsResult
<1>14. ASSUME NEW m \in MessageOf(type), x = Encode(type, m) PROVE ReadsBack(type, m, r)
  <2>1. m \in Seq(Extension) /\ MarshalExtensions(m) \in Sized(2)
    BY <1>9, ExtensionListIs
  <2>2. PICK b \in Sized(2) : b = MarshalExtensions(m) /\ x = Vector(2, b)
    BY <1>10, <1>14, <2>1
  <2>3. x = Vector(2, b) \o <<>> /\ <<>> \in ByteString
    BY <1>1, <2>2, ConcatEmptySeq, EmptySeq DEF ByteString
  <2>4. HasRead(list, b, <<>>)
    <3>1. 2 \in 1 .. 3
      OBVIOUS
    <3> QED
      BY <1>5, <2>3, <3>1, ReadsVector, Zenon
  <2>5. exts.ok /\ exts.value = m
    BY <1>6, <2>1, <2>2, <2>4, ExtensionsRead DEF HasRead, ListRead
  <2>6. Legal(type, m) <=> ~Duplicate(m) /\ NamesEmpty(m)
    BY DEF Legal, HandshakeType, NamesEmpty
  <2>7. Legal(type, m) <=> ok
    BY <1>7, <2>4, <2>5, <2>6 DEF HasRead
  <2> QED
    BY <1>8, <2>5, <2>7, ReadsBackResult
<1> QED
  BY <1>13, <1>14

-----------------------------------------------------------------------------
(* The extensions of a ServerHello.                                        *)

\* A length is a number.
LEMMA LenIsNat == ASSUME NEW b \in ByteString PROVE Len(b) \in Nat
BY LenProperties DEF ByteString

\* The parts of two sequences joined.
Splits(front, back) ==
  /\ Len(front \o back) = Len(front) + Len(back)
  /\ SubSeq(front \o back, 1, Len(front)) = front
  /\ SubSeq(front \o back, Len(front) + 1, Len(front \o back)) = back

\* The parts of a join, by name.
LEMMA JoinSplits == ASSUME NEW a \in ByteString, NEW b \in ByteString PROVE Splits(a, b)
BY PartsOfJoin DEF ByteString, Splits

\* The front of some bytes.
LEMMA FrontOfBytes ==
  ASSUME NEW b \in ByteString, NEW n \in 0 .. Len(b)
  PROVE  SubSeq(b, 1, n) \in ByteString /\ Len(SubSeq(b, 1, n)) = n
BY FrontAndBack DEF ByteString

\* The length of the bytes behind the first n.
LEMMA LenBehind ==
  ASSUME NEW l \in Nat, l < 256 ^ 2, NEW n \in 1 .. 5, l >= n - 1
  PROVE  n \in 1 .. l + 1 /\ l + 1 - n \in Nat /\ l + 1 - n < 256 ^ 2
<1>1. PICK bound \in Nat : bound = 256 ^ 2
  OBVIOUS
<1>2. l < bound
  BY <1>1
<1>3. n \in 1 .. l + 1 /\ l + 1 - n \in Nat /\ l + 1 - n < bound
  BY <1>2
<1> QED
  BY <1>1, <1>3

\* The cookies that parse are those spelled out.
LEMMA CookieParses ==
  ASSUME NEW p \in Sized(2)
  PROVE  ParseCookie(p).ok <=> SpellsCookie(p)
<1>1. PICK l \in Nat : l = Len(p) /\ l < 256 ^ 2 /\ p \in ByteString
  BY SizedLength, LenProperties DEF ByteString
<1>2. PICK cookie : cookie = ReadVector(2, p)
  OBVIOUS
<1>3. ParseCookie(p).ok <=> cookie.ok /\ cookie.value # <<>> /\ cookie.rest = <<>>
  BY <1>2 DEF ParseCookie
<1>4. ASSUME cookie.ok, cookie.value # <<>>, cookie.rest = <<>> PROVE SpellsCookie(p)
  <2>1. SpelledVector(p, 2, cookie) /\ cookie.value \in ByteString
    BY <1>1, <1>2, <1>4, ReadVectorSplits DEF IsRead
  <2>2. PICK v \in ByteString : v = cookie.value
    BY <2>1
  <2>3. PICK n \in Nat : n = Len(v) /\ n # 0
    BY <1>4, <2>2, LenProperties, EmptySeq DEF ByteString
  <2>4. PICK a \in ByteString : a = Number(2, n) /\ Len(a) = 2
    BY NumberTyped DEF ByteString
  <2>5. p = a \o v
    <3>1. a \o v \in ByteString
      BY ConcatProperties DEF ByteString
    <3>2. p = (a \o v) \o <<>>
      BY <1>4, <2>1, <2>2, <2>3, <2>4 DEF SpelledVector, Vector
    <3> QED
      BY <3>1, <3>2, ConcatEmptySeq DEF ByteString
  <2>6. Len(p) = 2 + n /\ SubSeq(p, 3, Len(p)) = v
    <3>1. Splits(a, v)
      BY JoinSplits
    <3>2. /\ Len(a \o v) = Len(a) + Len(v)
          /\ SubSeq(a \o v, Len(a) + 1, Len(a \o v)) = v
      BY <3>1 DEF Splits
    <3>3. Len(a) + 1 = 3
      <4>1. PICK k \in Nat : k = Len(a)
        BY LenIsNat
      <4>2. Len(a) = 2
        BY <2>4, Zenon
      <4> QED
        BY <4>1, <4>2
    <3> QED
      BY <2>3, <2>4, <2>5, <3>2, <3>3
  <2>7. Vector(2, v) = p
    BY <2>3, <2>4, <2>5 DEF Vector
  <2>8. Len(p) > 2
    BY <1>1, <2>3, <2>6
  <2> QED
    BY <2>6, <2>7, <2>8 DEF SpellsCookie
<1>5. ASSUME SpellsCookie(p) PROVE cookie.ok /\ cookie.value # <<>> /\ cookie.rest = <<>>
  <2>1. l > 2 /\ p = Vector(2, SubSeq(p, 3, l))
    BY <1>1, <1>5 DEF SpellsCookie
  <2>2. 3 \in 1 .. l + 1 /\ l + 1 - 3 \in Nat /\ l + 1 - 3 < 256 ^ 2 /\ l + 1 - 3 # 0
    <3>1. 3 \in 1 .. 5 /\ l >= 3 - 1
      BY <2>1
    <3>2. 3 \in 1 .. l + 1 /\ l + 1 - 3 \in Nat /\ l + 1 - 3 < 256 ^ 2
      BY <1>1, <3>1, LenBehind
    <3> QED
      BY <2>1, <3>2
  <2>3. PICK v \in ByteString : v = SubSeq(p, 3, l) /\ Len(v) = l + 1 - 3
    BY <1>1, <2>2, SuffixTyped
  <2>4. v \in Sized(2) /\ v # <<>>
    <3>1. v \in Sized(2)
      BY <2>2, <2>3 DEF Sized, ByteString
    <3> QED
      BY <2>2, <2>3, <3>1
  <2>5. p = Vector(2, v) \o <<>> /\ <<>> \in ByteString
    BY <1>1, <2>1, <2>3, ConcatEmptySeq, EmptySeq DEF ByteString
  <2>6. HasRead(cookie, v, <<>>)
    <3>1. 2 \in 1 .. 3
      OBVIOUS
    <3> QED
      BY <1>2, <2>4, <2>5, <3>1, ReadsVector, Zenon
  <2> QED
    BY <2>4, <2>6 DEF HasRead
<1> QED
  BY <1>3, <1>4, <1>5

\* A number and a vector, taken apart.
LEMMA PairParts ==
  ASSUME NEW n \in Uint16, NEW v \in ByteString, NEW p, p = Pair(n, v)
  PROVE  /\ p \in ByteString /\ Len(p) >= 4
         /\ SubSeq(p, 1, 2) = Number(2, n)
         /\ SubSeq(p, 5, Len(p)) = v
<1>1. PICK a \in ByteString : a = Number(2, n) /\ Len(a) = 2
  BY NumberInBytes
<1>2. PICK k \in Nat : k = Len(v)
  BY LenIsNat
<1>3. PICK b \in ByteString : b = Number(2, k) /\ Len(b) = 2
  BY NumberTyped DEF ByteString
<1>4. PICK t \in ByteString : t = b \o v
  BY ConcatProperties DEF ByteString
<1>5. p = a \o t
  BY <1>1, <1>2, <1>3, <1>4 DEF Pair, Vector
<1>6. p \in ByteString /\ Len(p) = 4 + k
  BY <1>2, PairTyped
<1>7. SubSeq(p, 1, 2) = a
  <2>1. Splits(a, t)
    BY JoinSplits
  <2> QED
    BY <1>1, <1>5, <2>1 DEF Splits
<1>8. SubSeq(p, 5, Len(p)) = v
  <2>1. PICK h \in ByteString : h = a \o b /\ Len(h) = Len(a) + Len(b)
    BY ConcatProperties DEF ByteString
  <2>2. p = h \o v
    <3>1. Associates(a, b, v)
      BY JoinsInAnyOrder DEF ByteString
    <3> QED
      BY <1>4, <1>5, <2>1, <3>1 DEF Associates
  <2>3. Splits(h, v)
    BY JoinSplits
  <2>4. Len(h) + 1 = 5
    <3>1. PICK i \in Nat, j \in Nat : i = Len(a) /\ j = Len(b)
      BY LenIsNat
    <3>2. Len(a) = 2 /\ Len(b) = 2
      BY <1>1, <1>3, Zenon
    <3>3. i + j + 1 = 5
      BY <3>1, <3>2
    <3>4. Len(h) = i + j
      BY <2>1, <3>1, Zenon
    <3> QED
      BY <3>3, <3>4
  <2> QED
    BY <2>2, <2>3, <2>4 DEF Splits
<1>9. Len(p) >= 4
  BY <1>6
<1> QED
  BY <1>1, <1>6, <1>7, <1>8, <1>9

\* A key share read to its end is a number and a vector.
LEMMA WholeShare ==
  ASSUME NEW p \in ByteString, NEW share, share = ReadKeyShare(p), share.ok, share.rest = <<>>
  PROVE  /\ share.value.group \in Uint16 /\ share.value.data \in Sized(2)
         /\ p = Pair(share.value.group, share.value.data)
<1>1. share = ShareReader[p]
  BY DEF ShareReader
<1>2. share.value \in SizedShare /\ Joins(p, ShareEncoder[share.value], share.rest)
  BY <1>1, SharesAreRead DEF Reader
<1>3. PICK e \in ByteString : e = ShareEncoder[share.value]
  BY <1>2, SharesAreRead DEF Reader
<1>4. e \o <<>> = e
  BY ConcatEmptySeq DEF ByteString
<1>5. p = e
  BY <1>2, <1>3, <1>4 DEF Joins
<1> QED
  BY <1>2, <1>3, <1>5, SharePair

\* A key share alone is read back.
LEMMA ReadsShare ==
  ASSUME NEW n \in Uint16, NEW v \in Sized(2)
  PROVE  HasRead(ReadKeyShare(Pair(n, v)), [group |-> n, data |-> v], <<>>)
<1>1. PICK w \in ByteString : w = Pair(n, v)
  BY PairTyped, SizedLength
<1>2. w \o <<>> = w /\ <<>> \in ByteString
  BY ConcatEmptySeq, EmptySeq DEF ByteString
<1>3. PairRead(w, n, v, <<>>)
  <2>1. PairRead(Pair(n, v) \o <<>>, n, v, <<>>)
    BY <1>2, PairReads
  <2> QED
    BY <1>1, <1>2, <2>1
<1> QED
  BY <1>1, <1>3 DEF ReadKeyShare, PairRead, HasRead, NumberOf

\* The key shares of a server that parse: a group alone, or one share.
LEMMA ShareParses ==
  ASSUME NEW p \in Sized(2)
  PROVE  ParseKeyShareServer(p).ok <=> Len(p) = 2 \/ SpellsShare(p)
<1>1. PICK l \in Nat : l = Len(p) /\ l < 256 ^ 2 /\ p \in ByteString
  BY SizedLength, LenProperties DEF ByteString
<1>2. PICK share : share = ReadKeyShare(p)
  OBVIOUS
<1>3. CASE l = 2
  BY <1>1, <1>3 DEF ParseKeyShareServer
<1>4. CASE l # 2
  <2>1. ParseKeyShareServer(p).ok <=> share.ok /\ share.rest = <<>>
    BY <1>1, <1>2, <1>4 DEF ParseKeyShareServer
  <2>2. ASSUME share.ok, share.rest = <<>> PROVE SpellsShare(p)
    <3>1. PICK n \in Uint16, v \in Sized(2) : p = Pair(n, v)
      BY <1>1, <1>2, <2>2, WholeShare
    <3>2. Len(p) >= 4 /\ SubSeq(p, 1, 2) = Number(2, n) /\ SubSeq(p, 5, Len(p)) = v
      BY <3>1, PairParts, SizedLength
    <3> QED
      BY <3>1, <3>2 DEF SpellsShare, Pair
  <2>3. ASSUME SpellsShare(p) PROVE share.ok /\ share.rest = <<>>
    <3>1. l >= 4 /\ p = SubSeq(p, 1, 2) \o Vector(2, SubSeq(p, 5, l))
      BY <1>1, <2>3 DEF SpellsShare
    <3>2. 2 \in 0 .. l /\ 5 \in 1 .. l + 1 /\ l + 1 - 5 \in Nat /\ l + 1 - 5 < 256 ^ 2
      <4>1. 5 \in 1 .. 5 /\ l >= 5 - 1 /\ 2 \in 0 .. l
        BY <3>1
      <4>2. 5 \in 1 .. l + 1 /\ l + 1 - 5 \in Nat /\ l + 1 - 5 < 256 ^ 2
        BY <1>1, <4>1, LenBehind
      <4> QED
        BY <4>1, <4>2
    <3>3. PICK a \in ByteString : a = SubSeq(p, 1, 2) /\ Len(a) = 2
      BY <1>1, <3>2, FrontOfBytes
    <3>4. PICK n \in Uint16 : a = Number(2, n)
      BY <3>3, NumberFromBytes DEF NumberOf
    <3>5. PICK v \in ByteString : v = SubSeq(p, 5, l) /\ Len(v) = l + 1 - 5
      <4>1. SubSeq(p, 5, l) \in ByteString /\ Len(SubSeq(p, 5, l)) = l + 1 - 5
        BY <1>1, <3>2, SuffixTyped
      <4> QED
        BY <4>1, Zenon
    <3>6. v \in Sized(2)
      BY <3>2, <3>5 DEF Sized, ByteString
    <3>7. p = Pair(n, v)
      BY <3>1, <3>3, <3>4, <3>5 DEF Pair
    <3>8. HasRead(share, [group |-> n, data |-> v], <<>>)
      BY <1>2, <3>6, <3>7, ReadsShare
    <3> QED
      BY <3>8 DEF HasRead
  <2> QED
    BY <1>1, <1>4, <2>1, <2>2, <2>3
<1> QED
  BY <1>3, <1>4

\* The extensions of a ServerHello that parse are the legal ones.
LEMMA ServerExtensionLegal ==
  ASSUME NEW ext \in Extension
  PROVE  ServerExtensionParses(ext) <=> LegalInServerHello(ext)
<1>1. ext.payload \in Sized(2)
  BY DEF Extension
<1>2. ParseCookie(ext.payload).ok <=> SpellsCookie(ext.payload)
  BY <1>1, CookieParses
<1>3. ParseKeyShareServer(ext.payload).ok <=> Len(ext.payload) = 2 \/ SpellsShare(ext.payload)
  BY <1>1, ShareParses
<1>4. ParseSupportedVersionsServer(ext.payload).ok <=> Len(ext.payload) = 2
  BY DEF ParseSupportedVersionsServer
<1> QED
  BY <1>2, <1>3, <1>4 DEF ServerExtensionParses, LegalInServerHello, ExtensionType

-----------------------------------------------------------------------------
(* ServerHello.                                                            *)

\* The fields in front of the extensions.
Fields(version, random, sessionID, suite, method) ==
  version \o random \o sessionID \o suite \o method

\* They may be joined from either side.
FieldsJoin(a, b, c, d, e, t) ==
  Fields(a, b, c, d, e) \o t = a \o (b \o (c \o (d \o (e \o t))))

\* The five fields of a ServerHello, joined from the left or from the right.
LEMMA FieldsInAnyOrder ==
  ASSUME NEW a \in ByteString, NEW b \in ByteString, NEW c \in ByteString, NEW d \in ByteString,
         NEW e \in ByteString, NEW t \in ByteString
  PROVE  FieldsJoin(a, b, c, d, e, t) /\ Fields(a, b, c, d, e) \in ByteString
<1>1. PICK ab \in ByteString : ab = a \o b
  BY ConcatProperties DEF ByteString
<1>2. PICK abc \in ByteString : abc = ab \o c
  BY ConcatProperties DEF ByteString
<1>3. PICK abcd \in ByteString : abcd = abc \o d
  BY ConcatProperties DEF ByteString
<1>4. PICK all \in ByteString : all = abcd \o e
  BY ConcatProperties DEF ByteString
<1>5. PICK et \in ByteString : et = e \o t
  BY ConcatProperties DEF ByteString
<1>6. PICK dt \in ByteString : dt = d \o et
  BY ConcatProperties DEF ByteString
<1>7. PICK ct \in ByteString : ct = c \o dt
  BY ConcatProperties DEF ByteString
<1>8. all \o t = abcd \o et
  <2>1. Associates(abcd, e, t)
    BY JoinsInAnyOrder DEF ByteString
  <2> QED
    BY <1>4, <1>5, <2>1, Zenon DEF Associates
<1>9. abcd \o et = abc \o dt
  <2>1. Associates(abc, d, et)
    BY JoinsInAnyOrder DEF ByteString
  <2> QED
    BY <1>3, <1>6, <2>1, Zenon DEF Associates
<1>10. abc \o dt = ab \o ct
  <2>1. Associates(ab, c, dt)
    BY JoinsInAnyOrder DEF ByteString
  <2> QED
    BY <1>2, <1>7, <2>1, Zenon DEF Associates
<1>11. ab \o ct = a \o (b \o ct)
  <2>1. Associates(a, b, ct)
    BY JoinsInAnyOrder DEF ByteString
  <2> QED
    BY <1>1, <2>1, Zenon DEF Associates
<1>12. all = Fields(a, b, c, d, e)
  BY <1>1, <1>2, <1>3, <1>4 DEF Fields
<1>13. all \o t = a \o (b \o (c \o (d \o (e \o t))))
  BY <1>5, <1>6, <1>7, <1>8, <1>9, <1>10, <1>11, Zenon
<1> QED
  BY <1>12, <1>13 DEF FieldsJoin

\* A byte and the number it is.
LEMMA ByteRead ==
  ASSUME NEW byte \in Byte
  PROVE  /\ <<byte>> \in ByteString /\ Len(<<byte>>) = 1
         /\ Value(<<byte>>) = byte
<1>1. PICK b \in Seq(Byte) : b = <<byte>>
  <2>1. <<byte>> \in Seq(Byte)
    OBVIOUS
  <2> QED
    BY <2>1
<1>2. Len(b) = 1 /\ b[1] = byte
  BY <1>1
<1>3. PICK a \in 0 .. 255 : OfOne(b, Value(b), a)
  BY <1>2, ValueOfOne
<1>4. Value(b) = byte
  BY <1>2, <1>3 DEF OfOne
<1> QED
  BY <1>1, <1>2, <1>4 DEF ByteString

\* A byte read alone.
LEMMA ByteSpelled ==
  ASSUME NEW b \in ByteString, Len(b) = 1
  PROVE  Value(b) \in Byte /\ b = <<Value(b)>>
<1>1. b \in Seq(Byte)
  BY DEF ByteString
<1>2. PICK a \in 0 .. 255 : OfOne(b, Value(b), a)
  BY <1>1, ValueOfOne
<1>3. b[1] = a /\ Value(b) = a
  BY <1>2 DEF OfOne
<1>4. b = <<a>>
  BY <1>1, <1>3
<1> QED
  BY <1>3, <1>4 DEF Byte

\* What a reader of some bytes has read.
WasRead(r, width, bytes) ==
  /\ r.value \in ByteString /\ r.rest \in ByteString /\ Len(r.value) = width
  /\ Joins(bytes, r.value, r.rest)

\* What a Read that succeeds has read.
LEMMA ReadWas ==
  ASSUME NEW width \in Nat, NEW bytes \in ByteString, NEW r, r = Read(width, bytes), r.ok
  PROVE  WasRead(r, width, bytes)
BY ReadSplits DEF IsRead, WasRead

\* The readers of the five fields, in turn.
InTurn(x, version, random, sessionID, suite, method) ==
  /\ version = Read(2, x) /\ random = Read(32, version.rest)
  /\ sessionID = ReadVector(1, random.rest) /\ suite = Read(2, sessionID.rest)
  /\ method = Read(1, suite.rest)

FiveRead(version, random, sessionID, suite, method) ==
  version.ok /\ random.ok /\ sessionID.ok /\ suite.ok /\ method.ok

FieldsOf(version, random, sessionID, suite, method) ==
  Fields(version.value, random.value, Vector(1, sessionID.value),
         suite.value, method.value)

FiveSpelled(x, version, random, sessionID, suite, method) ==
  /\ Value(version.value) \in Uint16 /\ NumberOf(version.value, Value(version.value))
  /\ random.value \in ByteString /\ Len(random.value) = 32
  /\ sessionID.value \in Sized(1)
  /\ Value(suite.value) \in Uint16 /\ NumberOf(suite.value, Value(suite.value))
  /\ Value(method.value) \in Byte /\ method.value = <<Value(method.value)>>
  /\ method.rest \in ByteString
  /\ Joins(x, FieldsOf(version, random, sessionID, suite, method), method.rest)

\* When all five fields have been read, the bytes are these fields and the
\* rest.
LEMMA FiveSplit ==
  ASSUME NEW x \in ByteString, NEW version, NEW random, NEW sessionID, NEW suite, NEW method,
         InTurn(x, version, random, sessionID, suite, method),
         FiveRead(version, random, sessionID, suite, method)
  PROVE  FiveSpelled(x, version, random, sessionID, suite, method)
<1>0. /\ version = Read(2, x) /\ random = Read(32, version.rest)
      /\ sessionID = ReadVector(1, random.rest) /\ suite = Read(2, sessionID.rest)
      /\ method = Read(1, suite.rest)
      /\ version.ok /\ random.ok /\ sessionID.ok /\ suite.ok /\ method.ok
  BY Zenon DEF InTurn, FiveRead
<1>1. PICK a \in ByteString, t1 \in ByteString :
        a = version.value /\ t1 = version.rest /\ Len(a) = 2 /\ Joins(x, a, t1)
  <2>1. WasRead(version, 2, x)
    <3>1. 2 \in Nat
      OBVIOUS
    <3> QED
      BY <1>0, <3>1, ReadWas, Zenon
  <2> QED
    BY <2>1, Zenon DEF WasRead
<1>2. PICK b \in ByteString, t2 \in ByteString :
        b = random.value /\ t2 = random.rest /\ Len(b) = 32 /\ Joins(t1, b, t2)
  <2>1. WasRead(random, 32, t1)
    <3>1. 32 \in Nat
      OBVIOUS
    <3> QED
      BY <1>0, <1>1, <3>1, ReadWas, Zenon
  <2> QED
    BY <2>1, Zenon DEF WasRead
<1>3. PICK s \in Sized(1), t3 \in ByteString :
        /\ s = sessionID.value /\ t3 = sessionID.rest
        /\ SpelledVector(t2, 1, sessionID)
  <2>1. 1 \in 1 .. 3
    OBVIOUS
  <2>2. /\ IsRead(sessionID) /\ sessionID.value \in Sized(1)
        /\ SpelledVector(t2, 1, sessionID)
    BY <1>0, <1>2, <2>1, ReadVectorSplits, Zenon
  <2> QED
    BY <2>2, Zenon DEF IsRead
<1>4. PICK c \in ByteString : c = Vector(1, s) /\ Joins(t2, c, t3)
  <2>1. s \in ByteString
    BY SizedLength
  <2>2. Vector(1, s) \in ByteString
    BY <2>1, VectorTyped
  <2> QED
    BY <1>3, <2>2, Zenon DEF SpelledVector, Joins
<1>5. PICK d \in ByteString, t4 \in ByteString :
        d = suite.value /\ t4 = suite.rest /\ Len(d) = 2 /\ Joins(t3, d, t4)
  <2>1. WasRead(suite, 2, t3)
    <3>1. 2 \in Nat
      OBVIOUS
    <3> QED
      BY <1>0, <1>3, <3>1, ReadWas, Zenon
  <2> QED
    BY <2>1, Zenon DEF WasRead
<1>6. PICK e \in ByteString, t5 \in ByteString :
        e = method.value /\ t5 = method.rest /\ Len(e) = 1 /\ Joins(t4, e, t5)
  <2>1. WasRead(method, 1, t4)
    <3>1. 1 \in Nat
      OBVIOUS
    <3> QED
      BY <1>0, <1>5, <3>1, ReadWas, Zenon
  <2> QED
    BY <2>1, Zenon DEF WasRead
<1>7. Joins(x, Fields(a, b, c, d, e), t5)
  <2>1. x = a \o (b \o (c \o (d \o (e \o t5))))
    <3>1. t4 = e \o t5 /\ t3 = d \o t4 /\ t2 = c \o t3 /\ t1 = b \o t2 /\ x = a \o t1
      BY <1>1, <1>2, <1>4, <1>5, <1>6, Zenon DEF Joins
    <3>2. t3 = d \o (e \o t5)
      BY <3>1, Zenon
    <3>3. t2 = c \o (d \o (e \o t5))
      BY <3>1, <3>2, Zenon
    <3>4. t1 = b \o (c \o (d \o (e \o t5)))
      BY <3>1, <3>3, Zenon
    <3> QED
      BY <3>1, <3>4, Zenon
  <2>2. FieldsJoin(a, b, c, d, e, t5)
    BY FieldsInAnyOrder
  <2> QED
    BY <2>1, <2>2, Zenon DEF Joins, FieldsJoin
<1>8. Value(a) \in Uint16 /\ NumberOf(a, Value(a)) /\ Value(d) \in Uint16 /\ NumberOf(d, Value(d))
  BY <1>1, <1>5, NumberFromBytes, Zenon
<1>9. Value(e) \in Byte /\ e = <<Value(e)>>
  BY <1>6, ByteSpelled, Zenon
<1> QED
  BY <1>1, <1>2, <1>3, <1>4, <1>5, <1>6, <1>7, <1>8, <1>9, Zenon DEF FiveSpelled, FieldsOf

\* The five readers read what is in front of the bytes.
FieldsAre(version, random, sessionID, suite, method, a, b, s, d, e, t) ==
  /\ version.ok /\ version.value = a
  /\ random.ok /\ random.value = b
  /\ sessionID.ok /\ sessionID.value = s
  /\ suite.ok /\ suite.value = d
  /\ HasRead(method, e, t)

\* Five fields that are written are read back one after the other.
LEMMA FieldsRead ==
  ASSUME NEW a \in ByteString, Len(a) = 2, NEW b \in ByteString, Len(b) = 32, NEW s \in Sized(1),
         NEW d \in ByteString, Len(d) = 2, NEW e \in ByteString, Len(e) = 1, NEW t \in ByteString,
         NEW x, x = Fields(a, b, Vector(1, s), d, e) \o t,
         NEW version, NEW random, NEW sessionID, NEW suite, NEW method,
         InTurn(x, version, random, sessionID, suite, method)
  PROVE  FieldsAre(version, random, sessionID, suite, method, a, b, s, d, e, t)
<1>0. /\ version = Read(2, x) /\ random = Read(32, version.rest)
      /\ sessionID = ReadVector(1, random.rest) /\ suite = Read(2, sessionID.rest)
      /\ method = Read(1, suite.rest)
  BY Zenon DEF InTurn
<1>1. PICK c \in ByteString : c = Vector(1, s)
  <2>1. s \in ByteString
    BY SizedLength
  <2> QED
    BY <2>1, VectorTyped
<1>2. PICK t4 \in ByteString : t4 = e \o t
  BY ConcatProperties DEF ByteString
<1>3. PICK t3 \in ByteString : t3 = d \o t4
  BY ConcatProperties DEF ByteString
<1>4. PICK t2 \in ByteString : t2 = c \o t3
  BY ConcatProperties DEF ByteString
<1>5. PICK t1 \in ByteString : t1 = b \o t2
  BY ConcatProperties DEF ByteString
<1>6. x = a \o t1
  <2>1. FieldsJoin(a, b, c, d, e, t)
    BY FieldsInAnyOrder
  <2> QED
    BY <1>1, <1>2, <1>3, <1>4, <1>5, <2>1, Zenon DEF FieldsJoin
<1>7. HasRead(version, a, t1)
  BY <1>0, <1>6, ReadsFront, Zenon
<1>8. HasRead(random, b, t2)
  <2>1. random = Read(32, b \o t2)
    BY <1>0, <1>5, <1>7, Zenon DEF HasRead
  <2> QED
    BY <2>1, ReadsFront, Zenon
<1>9. HasRead(sessionID, s, t3)
  <2>1. sessionID = ReadVector(1, Vector(1, s) \o t3)
    BY <1>0, <1>1, <1>4, <1>8, Zenon DEF HasRead
  <2>2. 1 \in 1 .. 3
    OBVIOUS
  <2> QED
    BY <2>1, <2>2, ReadsVector, Zenon
<1>10. HasRead(suite, d, t4)
  <2>1. suite = Read(2, d \o t4)
    BY <1>0, <1>3, <1>9, Zenon DEF HasRead
  <2> QED
    BY <2>1, ReadsFront, Zenon
<1>11. HasRead(method, e, t)
  <2>1. method = Read(1, e \o t)
    BY <1>0, <1>2, <1>10, Zenon DEF HasRead
  <2> QED
    BY <2>1, ReadsFront, Zenon
<1> QED
  BY <1>7, <1>8, <1>9, <1>10, <1>11, Zenon DEF HasRead, FieldsAre

\* An empty list of extensions has no bytes.
LEMMA NoExtensions == MarshalExtensions(<<>>) = <<>> /\ <<>> \in Seq(Extension)
<1>1. <<>> \in Seq(Extension)
  BY EmptySeq
<1>2. MarshalExtensions(<<>>) = Collected(ExtensionEncoder, <<>>)
  BY <1>1, MarshalledExtensions
<1> QED
  BY <1>1, <1>2, CollectedEmpty

\* A ServerHello before its extensions.
HelloFields(m) ==
  Fields(Number(2, m.version), m.random, Vector(1, m.sessionID),
         Number(2, m.cipherSuite), <<m.compression>>)

\* The fields of a ServerHello, and its encodings.
LEMMA HelloTyped ==
  ASSUME NEW m \in ServerHelloFields
  PROVE  /\ Number(2, m.version) \in ByteString /\ Len(Number(2, m.version)) = 2
         /\ NumberOf(Number(2, m.version), m.version)
         /\ m.random \in ByteString /\ Len(m.random) = 32
         /\ m.sessionID \in Sized(1) /\ Vector(1, m.sessionID) \in ByteString
         /\ Number(2, m.cipherSuite) \in ByteString /\ Len(Number(2, m.cipherSuite)) = 2
         /\ NumberOf(Number(2, m.cipherSuite), m.cipherSuite)
         /\ <<m.compression>> \in ByteString /\ Len(<<m.compression>>) = 1
         /\ Value(<<m.compression>>) = m.compression
         /\ m.extensions \in Seq(Extension) /\ MarshalExtensions(m.extensions) \in Sized(2)
<1>1. /\ m.version \in Uint16 /\ m.random \in ByteString /\ Len(m.random) = 32
      /\ m.sessionID \in Sized(1) /\ m.cipherSuite \in Uint16
      /\ m.compression \in Byte /\ m.extensions \in ExtensionList
  BY DEF ServerHelloFields, ByteString
<1>2. PICK v \in Uint16, c \in Uint16, b \in Byte, s \in Sized(1), e \in ExtensionList :
        /\ v = m.version /\ c = m.cipherSuite /\ b = m.compression
        /\ s = m.sessionID /\ e = m.extensions
  BY <1>1, Zenon
<1>3. /\ Number(2, v) \in ByteString /\ Len(Number(2, v)) = 2 /\ NumberOf(Number(2, v), v)
      /\ Number(2, c) \in ByteString /\ Len(Number(2, c)) = 2 /\ NumberOf(Number(2, c), c)
  BY NumberInBytes, Zenon
<1>4. <<b>> \in ByteString /\ Len(<<b>>) = 1 /\ Value(<<b>>) = b
  BY ByteRead, Zenon
<1>5. Vector(1, s) \in ByteString
  <2>1. s \in ByteString
    BY SizedLength
  <2> QED
    BY <2>1, VectorTyped
<1>6. e \in Seq(Extension) /\ MarshalExtensions(e) \in Sized(2)
  BY ExtensionListIs, Zenon
<1> QED
  BY <1>1, <1>2, <1>3, <1>4, <1>5, <1>6, Zenon

\* The two bytes of an empty list may be left out.
LEMMA FrontWithout ==
  ASSUME NEW a \in ByteString, NEW b \in ByteString, NEW two, two = 2, Len(b) = two
  PROVE  SubSeq(a \o b, 1, Len(a \o b) - two) = a
<1>1. Splits(a, b)
  BY JoinSplits
<1>2. PICK k \in Nat : k = Len(a)
  BY LenIsNat
<1>3. Len(a \o b) = k + two /\ SubSeq(a \o b, 1, k) = a
  BY <1>1, <1>2, Zenon DEF Splits
<1>4. (k + two) - two = k
  OBVIOUS
<1> QED
  BY <1>3, <1>4

\* A ServerHello is its fields and its list, which it may leave out when it
\* is empty.
LEMMA HelloEncodings ==
  ASSUME NEW m \in ServerHelloFields, NEW type, type = HandshakeType.ServerHello
  PROVE  /\ Encode(type, m) = HelloFields(m) \o Vector(2, MarshalExtensions(m.extensions))
         /\ Encode(type, m) \in Encodings(type, m)
         /\ m.extensions = <<>> => HelloFields(m) \in Encodings(type, m)
         /\ HelloFields(m) \in ByteString
<1>1. Encode(type, m) = HelloFields(m) \o Vector(2, MarshalExtensions(m.extensions))
  <2>1. Encode(type, m) = EncodeServerHello(m)
    BY DEF Encode, HandshakeType
  <2> QED
    BY <2>1, Zenon DEF EncodeServerHello, HelloFields, Fields
<1>2. Encode(type, m) \in Encodings(type, m)
  BY DEF Encodings
<1>3. HelloFields(m) \in ByteString
  <2>1. <<>> \in ByteString
    BY EmptySeq DEF ByteString
  <2> QED
    BY <2>1, HelloTyped, FieldsInAnyOrder, Zenon DEF HelloFields
<1>4. ASSUME m.extensions = <<>> PROVE HelloFields(m) \in Encodings(type, m)
  <2>1. PICK v \in ByteString : v = Vector(2, <<>>) /\ Len(v) = 2 + Len(<<>>)
    <3>1. <<>> \in ByteString /\ 2 \in 1 .. 3
      BY EmptySeq DEF ByteString
    <3> QED
      BY <3>1, VectorTyped, Zenon
  <2>2. Len(v) = 2
    BY <2>1
  <2>3. Encode(type, m) = HelloFields(m) \o v
    BY <1>1, <1>4, <2>1, NoExtensions, Zenon
  <2>4. SubSeq(HelloFields(m) \o v, 1, Len(HelloFields(m) \o v) - 2) = HelloFields(m)
    BY <1>3, <2>2, FrontWithout, Zenon
  <2>5. Encodings(type, m)
          = {Encode(type, m), SubSeq(Encode(type, m), 1, Len(Encode(type, m)) - 2)}
    BY <1>4 DEF Encodings
  <2> QED
    BY <2>3, <2>4, <2>5, Zenon
<1> QED
  BY <1>1, <1>2, <1>3, <1>4

\* The list of a ServerHello is taken exactly when it is legal.
LEMMA ServerExtensionsLegal ==
  ASSUME NEW exts \in Seq(Extension), NEW type, type = HandshakeType.ServerHello,
         NEW m, m.extensions = exts
  PROVE  ServerExtensionsOK(exts) <=> Legal(type, m)
<1>1. ASSUME NEW i \in 1 .. Len(exts)
      PROVE  ServerExtensionParses(exts[i]) <=> LegalInServerHello(exts[i])
  <2>1. exts[i] \in Extension
    BY ElementOfSeq
  <2> QED
    BY <2>1, ServerExtensionLegal
<1>2. Legal(type, m) <=> /\ ~Duplicate(exts)
                         /\ \A i \in 1 .. Len(exts) : LegalInServerHello(exts[i])
  BY DEF Legal, HandshakeType
<1> QED
  BY <1>1, <1>2, Zenon DEF ServerExtensionsOK

\* What a ServerHello is read into.
HelloRead(version, random, sessionID, suite, method, exts) ==
  [version     |-> Value(version.value), random |-> random.value,
   sessionID   |-> sessionID.value, cipherSuite |-> Value(suite.value),
   compression |-> Value(method.value),
   extensions  |-> IF method.rest = <<>> THEN <<>> ELSE exts.value]

\* The list of extensions is left out, or it is all there is behind the fields.
ListSpelled(method, extData, exts) ==
  method.rest # <<>> =>
    /\ extData = ReadVector(2, method.rest) /\ exts = UnmarshalExtensions(extData.value)
    /\ extData.ok /\ extData.rest = <<>> /\ exts.ok

ExtensionsOf(method, exts) == IF method.rest = <<>> THEN <<>> ELSE exts.value

\* The list behind the fields, or none.
LEMMA ListBehindFields ==
  ASSUME NEW method, method.rest \in ByteString, NEW extData, NEW exts,
         ListSpelled(method, extData, exts)
  PROVE  /\ ExtensionsOf(method, exts) \in ExtensionList
         /\ method.rest # <<>> =>
              method.rest = Vector(2, MarshalExtensions(ExtensionsOf(method, exts)))
<1>1. PICK list : list = ExtensionsOf(method, exts)
  OBVIOUS
<1>2. ASSUME method.rest # <<>>
      PROVE  /\ list \in ExtensionList
             /\ method.rest = Vector(2, MarshalExtensions(list))
  <2>1. PICK t \in ByteString : t = method.rest
    OBVIOUS
  <2>2. /\ extData = ReadVector(2, t) /\ exts = UnmarshalExtensions(extData.value)
        /\ extData.ok /\ extData.rest = <<>> /\ exts.ok /\ list = exts.value
    BY <1>1, <1>2, <2>1, Zenon DEF ListSpelled, ExtensionsOf
  <2>3. extData.value \in Sized(2) /\ SpelledVector(t, 2, extData)
    <3>1. 2 \in 1 .. 3
      OBVIOUS
    <3> QED
      BY <2>2, <3>1, ReadVectorSplits, Zenon
  <2>4. PICK bytes \in Sized(2) : bytes = extData.value
    BY <2>3, Zenon
  <2>5. bytes \in ByteString
    BY SizedLength
  <2>6. list \in Seq(Extension) /\ bytes = MarshalExtensions(list)
    BY <2>2, <2>4, <2>5, ExtensionsSpelled, Zenon
  <2>7. PICK w \in ByteString : w = Vector(2, bytes)
    BY <2>5, VectorTyped
  <2>8. w \o <<>> = w
    BY ConcatEmptySeq DEF ByteString
  <2>9. t = w
    BY <2>2, <2>3, <2>4, <2>7, <2>8, Zenon DEF SpelledVector
  <2> QED
    BY <2>1, <2>4, <2>6, <2>7, <2>9, ExtensionListIs, Zenon
<1>3. CASE method.rest = <<>>
  <2>1. <<>> \in Sized(2)
    <3>1. Len(<<>>) = 0 /\ <<>> \in Seq(Byte) /\ 0 < 256 ^ 2
      BY EmptySeq
    <3> QED
      BY <3>1, Zenon DEF Sized
  <2>2. list = <<>>
    BY <1>1, <1>3 DEF ExtensionsOf
  <2> QED
    BY <1>1, <1>3, <2>1, <2>2, NoExtensions, ExtensionListIs, Zenon
<1> QED
  BY <1>1, <1>2, <1>3

HelloHas(m, v, r, s, c, b, e) ==
  /\ m.version = v /\ m.random = r /\ m.sessionID = s /\ m.cipherSuite = c
  /\ m.compression = b /\ m.extensions = e

\* The fields of a hello made of these parts.
LEMMA HelloRecord ==
  ASSUME NEW v, NEW r, NEW s, NEW c, NEW b, NEW e,
         NEW m, m = [version |-> v, random |-> r, sessionID |-> s, cipherSuite |-> c,
                     compression |-> b, extensions |-> e]
  PROVE  HelloHas(m, v, r, s, c, b, e)
BY DEF HelloHas

\* A hello made of parts of their types.
LEMMA HelloInFields ==
  ASSUME NEW v \in Uint16, NEW r \in {b \in Seq(Byte) : Len(b) = 32}, NEW s \in Sized(1),
         NEW c \in Uint16, NEW b \in Byte, NEW e \in ExtensionList
  PROVE  [version |-> v, random |-> r, sessionID |-> s, cipherSuite |-> c,
          compression |-> b, extensions |-> e] \in ServerHelloFields
<1> DEFINE R == {x \in Seq(Byte) : Len(x) = 32}
<1> HIDE DEF R
<1>1. r \in R
  BY DEF R
<1>2. [version |-> v, random |-> r, sessionID |-> s, cipherSuite |-> c,
       compression |-> b, extensions |-> e]
        \in [version : Uint16, random : R, sessionID : Sized(1), cipherSuite : Uint16,
             compression : Byte, extensions : ExtensionList]
  BY <1>1
<1> QED
  BY <1>2, Zenon DEF ServerHelloFields, R

\* What has been read is a ServerHello with these fields.
LEMMA HelloReadFields ==
  ASSUME NEW x, NEW version, NEW random, NEW sessionID, NEW suite, NEW method, NEW exts,
         FiveSpelled(x, version, random, sessionID, suite, method),
         ExtensionsOf(method, exts) \in ExtensionList,
         NEW m, m = HelloRead(version, random, sessionID, suite, method, exts)
  PROVE  /\ m \in ServerHelloFields /\ m.extensions = ExtensionsOf(method, exts)
         /\ HelloFields(m) = FieldsOf(version, random, sessionID, suite, method)
<1>1. m = [version     |-> Value(version.value), random |-> random.value,
           sessionID   |-> sessionID.value, cipherSuite |-> Value(suite.value),
           compression |-> Value(method.value),
           extensions  |-> ExtensionsOf(method, exts)]
  BY Zenon DEF HelloRead, ExtensionsOf
<1>2. /\ m.version = Value(version.value) /\ m.random = random.value
      /\ m.sessionID = sessionID.value /\ m.cipherSuite = Value(suite.value)
      /\ m.compression = Value(method.value)
      /\ m.extensions = ExtensionsOf(method, exts)
  <2>1. HelloHas(m, Value(version.value), random.value, sessionID.value,
                 Value(suite.value), Value(method.value), ExtensionsOf(method, exts))
    BY <1>1, HelloRecord, Zenon
  <2> QED
    BY <2>1, Zenon DEF HelloHas
<1>3. HelloFields(m) = FieldsOf(version, random, sessionID, suite, method)
  BY <1>2, Zenon DEF HelloFields, FieldsOf, FiveSpelled, NumberOf
<1>4. m \in ServerHelloFields
  <2>1. random.value \in {b \in Seq(Byte) : Len(b) = 32}
    BY DEF FiveSpelled, ByteString
  <2>2. /\ Value(version.value) \in Uint16 /\ sessionID.value \in Sized(1)
        /\ Value(suite.value) \in Uint16 /\ Value(method.value) \in Byte
    BY Zenon DEF FiveSpelled
  <2> QED
    BY <1>1, <2>1, <2>2, HelloInFields, Zenon
<1> QED
  BY <1>2, <1>3, <1>4

\* A ServerHello that is read spells the bytes out.
LEMMA ServerHelloSpelled ==
  ASSUME NEW x \in ByteString, NEW type, type = HandshakeType.ServerHello,
         NEW version, NEW random, NEW sessionID, NEW suite, NEW method,
         NEW extData, NEW exts,
         InTurn(x, version, random, sessionID, suite, method),
         FiveRead(version, random, sessionID, suite, method),
         ListSpelled(method, extData, exts),
         NEW m, m = HelloRead(version, random, sessionID, suite, method, exts)
  PROVE  m \in ServerHelloFields /\ \E body \in Encodings(type, m) : Joins(x, body, <<>>)
<1>1. FiveSpelled(x, version, random, sessionID, suite, method)
  BY FiveSplit
<1>2. PICK list : list = ExtensionsOf(method, exts)
  OBVIOUS
<1>3. method.rest \in ByteString
  BY <1>1 DEF FiveSpelled
<1>4. /\ list \in ExtensionList
      /\ method.rest # <<>> => method.rest = Vector(2, MarshalExtensions(list))
  BY <1>2, <1>3, ListBehindFields
<1>5. /\ m \in ServerHelloFields /\ m.extensions = list
      /\ HelloFields(m) = FieldsOf(version, random, sessionID, suite, method)
  BY <1>1, <1>2, <1>4, HelloReadFields
<1>6. Joins(x, HelloFields(m), method.rest)
  BY <1>1, <1>5 DEF FiveSpelled
<1>7. CASE method.rest = <<>>
  <2>1. HelloFields(m) \in Encodings(type, m)
    <3>1. list = <<>>
      BY <1>2, <1>7 DEF ExtensionsOf
    <3> QED
      BY <1>5, <3>1, HelloEncodings
  <2> QED
    BY <1>5, <1>6, <1>7, <2>1
<1>8. CASE method.rest # <<>>
  <2>1. x = Encode(type, m)
    BY <1>4, <1>5, <1>6, <1>8, HelloEncodings, Zenon DEF Joins
  <2>2. x \in Encodings(type, m)
    BY <1>5, <2>1, HelloEncodings
  <2> QED
    BY <1>5, <2>2, NothingBehind
<1> QED
  BY <1>7, <1>8

\* A record is its fields.
LEMMA HelloIs ==
  ASSUME NEW m \in ServerHelloFields
  PROVE  m = [version |-> m.version, random |-> m.random, sessionID |-> m.sessionID,
              cipherSuite |-> m.cipherSuite, compression |-> m.compression,
              extensions |-> m.extensions]
<1> DEFINE R == {x \in Seq(Byte) : Len(x) = 32}
<1> HIDE DEF R
<1>1. m \in [version : Uint16, random : R, sessionID : Sized(1), cipherSuite : Uint16,
             compression : Byte, extensions : ExtensionList]
  BY Zenon DEF ServerHelloFields, R
<1> QED
  BY <1>1

\* The fields of a hello, read in turn.
ComesBack(m, t, version, random, sessionID, suite, method, exts) ==
  /\ FiveRead(version, random, sessionID, suite, method) /\ method.rest = t
  /\ ExtensionsOf(method, exts) = m.extensions
       => m = HelloRead(version, random, sessionID, suite, method, exts)

\* A ServerHello that is encoded comes back field by field.
LEMMA HelloIsRead ==
  ASSUME NEW m \in ServerHelloFields, NEW t \in ByteString, NEW x, x = HelloFields(m) \o t,
         NEW version, NEW random, NEW sessionID, NEW suite, NEW method, NEW exts,
         InTurn(x, version, random, sessionID, suite, method)
  PROVE  ComesBack(m, t, version, random, sessionID, suite, method, exts)
<1>1. PICK a \in ByteString, b \in ByteString, s \in Sized(1), d \in ByteString, e \in ByteString :
        /\ a = Number(2, m.version) /\ Len(a) = 2 /\ Value(a) = m.version
        /\ b = m.random /\ Len(b) = 32 /\ s = m.sessionID
        /\ d = Number(2, m.cipherSuite) /\ Len(d) = 2 /\ Value(d) = m.cipherSuite
        /\ e = <<m.compression>> /\ Len(e) = 1 /\ Value(e) = m.compression
  <2>1. /\ Number(2, m.version) \in ByteString /\ Len(Number(2, m.version)) = 2
        /\ NumberOf(Number(2, m.version), m.version)
        /\ m.random \in ByteString /\ Len(m.random) = 32
        /\ m.sessionID \in Sized(1)
        /\ Number(2, m.cipherSuite) \in ByteString /\ Len(Number(2, m.cipherSuite)) = 2
        /\ NumberOf(Number(2, m.cipherSuite), m.cipherSuite)
        /\ <<m.compression>> \in ByteString /\ Len(<<m.compression>>) = 1
        /\ Value(<<m.compression>>) = m.compression
    BY HelloTyped, Zenon
  <2> QED
    BY <2>1, Zenon DEF NumberOf
<1>2. x = Fields(a, b, Vector(1, s), d, e) \o t
  BY <1>1, Zenon DEF HelloFields
<1>3. /\ version.ok /\ version.value = a
      /\ random.ok /\ random.value = b
      /\ sessionID.ok /\ sessionID.value = s
      /\ suite.ok /\ suite.value = d
      /\ HasRead(method, e, t)
  <2>1. FieldsAre(version, random, sessionID, suite, method, a, b, s, d, e, t)
    BY <1>1, <1>2, FieldsRead, Zenon
  <2> QED
    BY <2>1, Zenon DEF FieldsAre
<1>4. FiveRead(version, random, sessionID, suite, method) /\ method.rest = t
  BY <1>3, Zenon DEF FiveRead, HasRead
<1>5. ASSUME ExtensionsOf(method, exts) = m.extensions
      PROVE  m = HelloRead(version, random, sessionID, suite, method, exts)
  <2>1. method.value = e
    BY <1>3, Zenon DEF HasRead
  <2> QED
    BY <1>1, <1>3, <1>5, <2>1, HelloIs, Zenon DEF HelloRead, ExtensionsOf
<1> QED
  BY <1>4, <1>5, Zenon DEF ComesBack

\* Whether the readers, the list and the extensions are as they should be.
HelloOK(version, random, sessionID, suite, method, extData, exts) ==
  /\ FiveRead(version, random, sessionID, suite, method)
  /\ method.rest # <<>> =>
       /\ extData.ok /\ extData.rest = <<>>
       /\ exts.ok /\ ServerExtensionsOK(exts.value)

\* What Unmarshal of a ServerHello returns, by its conditions.
LEMMA ServerHelloResult ==
  ASSUME NEW w, NEW x, x = Body(HandshakeType.ServerHello, w),
         NEW version, NEW random, NEW sessionID, NEW suite, NEW method,
         InTurn(x, version, random, sessionID, suite, method),
         NEW extData, extData = ReadVector(2, method.rest),
         NEW exts, exts = UnmarshalExtensions(extData.value),
         NEW ok, ok = HelloOK(version, random, sessionID, suite, method, extData, exts),
         NEW m, m = HelloRead(version, random, sessionID, suite, method, exts)
  PROVE  UnmarshalServerHello(w)
           = Result(ok, IF FiveRead(version, random, sessionID, suite, method)
                        THEN m ELSE <<>>, <<>>)
<1>0. /\ version = Read(2, x) /\ random = Read(32, version.rest)
      /\ sessionID = ReadVector(1, random.rest) /\ suite = Read(2, sessionID.rest)
      /\ method = Read(1, suite.rest)
  BY Zenon DEF InTurn
<1>1. UnmarshalServerHello(w)
        = IF ~FiveRead(version, random, sessionID, suite, method)
          THEN Result(FALSE, <<>>, <<>>)
          ELSE IF method.rest = <<>> THEN Result(TRUE, m, <<>>)
          ELSE Result(/\ extData.ok /\ extData.rest = <<>>
                      /\ exts.ok /\ ServerExtensionsOK(exts.value), m, <<>>)
  BY <1>0, ZenonT(60) DEF UnmarshalServerHello, FiveRead, HelloRead
<1>2. CASE ~FiveRead(version, random, sessionID, suite, method)
  <2>1. ~ok
    BY <1>2 DEF HelloOK
  <2> QED
    BY <1>1, <1>2, <2>1 DEF Result
<1>3. CASE FiveRead(version, random, sessionID, suite, method) /\ method.rest = <<>>
  <2>1. ok
    BY <1>3 DEF HelloOK
  <2> QED
    BY <1>1, <1>3, <2>1 DEF Result
<1>4. CASE FiveRead(version, random, sessionID, suite, method) /\ method.rest # <<>>
  <2>1. ok <=> (/\ extData.ok /\ extData.rest = <<>>
                /\ exts.ok /\ ServerExtensionsOK(exts.value))
    BY <1>4 DEF HelloOK
  <2> QED
    BY <1>1, <1>4, <2>1 DEF Result
<1> QED
  BY <1>2, <1>3, <1>4

\* Unmarshal of a ServerHello is exact (server_hello.go 25-105).
LEMMA ServerHelloExact ==
  ASSUME NEW x \in Arrived, NEW type, type = HandshakeType.ServerHello,
         NEW r, r = Unmarshal(type, Framed(type, x))
  PROVE  /\ ReadsAs(type, x, r)
         /\ \A m \in MessageOf(type) : x = Encode(type, m) => ReadsBack(type, m, r)
<1>1. x \in Sized(3) /\ x \in ByteString /\ type \in Byte
  BY ArrivedSized DEF HandshakeType, Byte
<1>2. Body(type, Framed(type, x)) = x
  BY <1>1, FramedParts
<1>3. PICK version, random, sessionID, suite, method :
        InTurn(x, version, random, sessionID, suite, method)
  <2>1. PICK version : version = Read(2, x)
    OBVIOUS
  <2>2. PICK random : random = Read(32, version.rest)
    OBVIOUS
  <2>3. PICK sessionID : sessionID = ReadVector(1, random.rest)
    OBVIOUS
  <2>4. PICK suite : suite = Read(2, sessionID.rest)
    OBVIOUS
  <2>5. PICK method : method = Read(1, suite.rest)
    OBVIOUS
  <2>6. InTurn(x, version, random, sessionID, suite, method)
    BY <2>1, <2>2, <2>3, <2>4, <2>5, Zenon DEF InTurn
  <2> QED
    BY <2>6, Zenon
<1>4. PICK extData : extData = ReadVector(2, method.rest)
  OBVIOUS
<1>5. PICK exts : exts = UnmarshalExtensions(extData.value)
  OBVIOUS
<1>6. PICK five \in BOOLEAN : five = FiveRead(version, random, sessionID, suite, method)
  <2>1. FiveRead(version, random, sessionID, suite, method) \in BOOLEAN
    BY DEF FiveRead
  <2> QED
    BY <2>1, Zenon
<1>7. PICK ok \in BOOLEAN :
        ok = HelloOK(version, random, sessionID, suite, method, extData, exts)
  <2>1. HelloOK(version, random, sessionID, suite, method, extData, exts) \in BOOLEAN
    BY DEF HelloOK
  <2> QED
    BY <2>1, Zenon
<1>8. PICK m : m = HelloRead(version, random, sessionID, suite, method, exts)
  OBVIOUS
<1>9. PICK v : v = IF five THEN m ELSE <<>>
  OBVIOUS
<1>10. r = Result(ok, v, <<>>)
  <2>1. r = UnmarshalServerHello(Framed(type, x))
    BY DEF Unmarshal, HandshakeType
  <2>2. UnmarshalServerHello(Framed(type, x)) = Result(ok, v, <<>>)
    BY <1>2, <1>3, <1>4, <1>5, <1>6, <1>7, <1>8, <1>9, ServerHelloResult
  <2> QED
    BY <2>1, <2>2
<1>11. MessageOf(type) = ServerHelloFields
  BY DEF MessageOf, HandshakeType
<1>12. ok => five
  BY <1>6, <1>7 DEF HelloOK
<1>13. ReadsAs(type, x, r)
  <2>1. ASSUME ok
        PROVE  /\ v \in MessageOf(type)
               /\ \E body \in Encodings(type, v) : Joins(x, body, <<>>)
    <3>1. v = m /\ FiveRead(version, random, sessionID, suite, method)
      BY <1>6, <1>9, <1>12, <2>1
    <3>2. ListSpelled(method, extData, exts)
      BY <1>4, <1>5, <1>7, <2>1 DEF HelloOK, ListSpelled
    <3>3. m \in ServerHelloFields /\ \E body \in Encodings(type, m) : Joins(x, body, <<>>)
      BY <1>1, <1>3, <1>8, <3>1, <3>2, ServerHelloSpelled, Zenon
    <3> QED
      BY <1>11, <3>1, <3>3
  <2>2. <<>> \in ByteString
    BY EmptySeq DEF ByteString
  <2> QED
    BY <1>10, <2>1, <2>2, ReadsAsResult
<1>14. ASSUME NEW m0 \in MessageOf(type), x = Encode(type, m0)
       PROVE  ReadsBack(type, m0, r)
  <2>1. m0 \in ServerHelloFields
    BY <1>11
  <2>2. PICK bytes \in Sized(2) : bytes = MarshalExtensions(m0.extensions)
    BY <2>1, HelloTyped, Zenon
  <2>3. PICK t \in ByteString : t = Vector(2, bytes) /\ t # <<>>
    <3>1. bytes \in ByteString
      BY SizedLength
    <3>2. PICK n \in Nat : n = Len(bytes)
      BY <3>1, LenIsNat
    <3>3. Vector(2, bytes) \in ByteString /\ Len(Vector(2, bytes)) = 2 + n
      BY <3>1, <3>2, VectorTyped
    <3>4. Len(<<>>) = 0 /\ 2 + n # 0
      BY EmptySeq
    <3>5. Vector(2, bytes) # <<>>
      BY <3>3, <3>4
    <3> QED
      BY <3>3, <3>5
  <2>4. x = HelloFields(m0) \o t
    BY <1>14, <2>1, <2>2, <2>3, HelloEncodings, Zenon
  <2>5. FiveRead(version, random, sessionID, suite, method) /\ method.rest = t
    <3>1. ComesBack(m0, t, version, random, sessionID, suite, method, exts)
      BY <1>3, <2>1, <2>4, HelloIsRead, Zenon
    <3> QED
      BY <3>1, Zenon DEF ComesBack
  <2>6. HasRead(ReadVector(2, Vector(2, bytes)), bytes, <<>>)
    <3>1. 2 \in 1 .. 3
      OBVIOUS
    <3> QED
      BY <3>1, ContextReads, Zenon
  <2>7. HasRead(extData, bytes, <<>>)
    BY <1>4, <2>3, <2>5, <2>6, Zenon
  <2>8. m0.extensions \in Seq(Extension)
    BY <2>1, HelloTyped, Zenon
  <2>9. exts.ok /\ exts.value = m0.extensions
    <3>1. exts = UnmarshalExtensions(MarshalExtensions(m0.extensions))
      BY <1>5, <2>2, <2>7, Zenon DEF HasRead
    <3> QED
      BY <2>8, <3>1, ExtensionsRead, Zenon DEF ListRead
  <2>10. ok <=> Legal(type, m0)
    <3>1. ok <=> ServerExtensionsOK(m0.extensions)
      BY <1>7, <2>3, <2>5, <2>7, <2>9, Zenon DEF HelloOK, HasRead
    <3> QED
      BY <2>8, <3>1, ServerExtensionsLegal, Zenon
  <2>11. v = m0
    <3>1. ExtensionsOf(method, exts) = m0.extensions
      BY <2>3, <2>5, <2>9, Zenon DEF ExtensionsOf
    <3>2. ComesBack(m0, t, version, random, sessionID, suite, method, exts)
      BY <1>3, <2>1, <2>4, HelloIsRead, Zenon
    <3>3. m0 = m
      BY <1>8, <3>1, <3>2, Zenon DEF ComesBack
    <3> QED
      BY <1>6, <1>9, <2>5, <3>3
  <2> QED
    BY <1>10, <2>10, <2>11, ReadsBackResult, Zenon
<1> QED
  BY <1>13, <1>14

-----------------------------------------------------------------------------
(* Every answer.                                                           *)

\* The types of what a server sends.
LEMMA AnswerTypes ==
  AnswerType = {HandshakeType.ServerHello, HandshakeType.EncryptedExtensions,
                HandshakeType.Certificate, HandshakeType.CertificateRequest,
                HandshakeType.CertificateVerify, HandshakeType.Finished,
                HandshakeType.KeyUpdate}
<1>1. DOMAIN HandshakeType =
        {"ClientHello", "ServerHello", "EncryptedExtensions", "Certificate",
         "CertificateRequest", "CertificateVerify", "Finished", "KeyUpdate"}
  BY DEF HandshakeType
<1>2. Range(HandshakeType) =
        {HandshakeType["ClientHello"], HandshakeType["ServerHello"],
         HandshakeType["EncryptedExtensions"], HandshakeType["Certificate"],
         HandshakeType["CertificateRequest"], HandshakeType["CertificateVerify"],
         HandshakeType["Finished"], HandshakeType["KeyUpdate"]}
  BY <1>1, Zenon DEF Range
<1>3. Range(HandshakeType) = {1, 2, 8, 11, 13, 15, 20, 24}
  BY <1>2 DEF HandshakeType
<1> QED
  BY <1>3 DEF AnswerType, HandshakeType

\* Unmarshal is exact for each of them.
LEMMA AnswersExact ==
  ASSUME NEW type \in AnswerType, NEW x \in Arrived,
         NEW r, r = Unmarshal(type, Framed(type, x))
  PROVE  /\ ReadsAs(type, x, r)
         /\ \A m \in MessageOf(type) : x = Encode(type, m) => ReadsBack(type, m, r)
<1>1. CASE type = HandshakeType.ServerHello
  BY <1>1, ServerHelloExact, Zenon
<1>2. CASE type = HandshakeType.EncryptedExtensions
  BY <1>2, EncryptedExtensionsExact, Zenon
<1>3. CASE type = HandshakeType.Certificate
  BY <1>3, CertificateExact, Zenon
<1>4. CASE type = HandshakeType.CertificateRequest
  BY <1>4, CertificateRequestExact, Zenon
<1>5. CASE type = HandshakeType.CertificateVerify
  BY <1>5, CertificateVerifyExact, Zenon
<1>6. CASE type = HandshakeType.Finished
  BY <1>6, FinishedExact, Zenon
<1>7. CASE type = HandshakeType.KeyUpdate
  BY <1>7, KeyUpdateExact, Zenon
<1> QED
  BY <1>1, <1>2, <1>3, <1>4, <1>5, <1>6, <1>7, AnswerTypes, Zenon

\* What a server sends is bytes.
LEMMA EncodeTyped ==
  ASSUME NEW type \in AnswerType, NEW m \in MessageOf(type)
  PROVE  Encode(type, m) \in ByteString
<1>1. CASE type = HandshakeType.ServerHello
  <2>1. m \in ServerHelloFields
    BY <1>1 DEF MessageOf, HandshakeType
  <2>2. /\ HelloFields(m) \in ByteString
        /\ Encode(type, m) = HelloFields(m) \o Vector(2, MarshalExtensions(m.extensions))
    BY <1>1, <2>1, HelloEncodings, Zenon
  <2>3. PICK bytes \in ByteString : bytes = MarshalExtensions(m.extensions)
    <3>1. MarshalExtensions(m.extensions) \in Sized(2)
      BY <2>1, HelloTyped, Zenon
    <3> QED
      BY <3>1, SizedLength
  <2>4. PICK v \in ByteString : v = Vector(2, bytes)
    BY VectorTyped
  <2> QED
    BY <2>2, <2>3, <2>4, ConcatProperties DEF ByteString
<1>2. CASE type = HandshakeType.EncryptedExtensions
  <2>1. m \in ExtensionList /\ Encode(type, m) = Vector(2, MarshalExtensions(m))
    BY <1>2 DEF MessageOf, Encode, HandshakeType
  <2>2. PICK bytes \in ByteString : bytes = MarshalExtensions(m)
    BY <2>1, ExtensionListIs, SizedLength
  <2> QED
    BY <2>1, <2>2, VectorTyped
<1>3. CASE type = HandshakeType.Certificate
  <2>1. m \in CertificateList /\ Encode(type, m) = <<0>> \o Vector(3, EncodeEntries(m))
    BY <1>3 DEF MessageOf, Encode, HandshakeType
  <2>2. PICK bytes \in ByteString : bytes = EncodeEntries(m)
    <3>1. EncodeEntries(m) \in Sized(3)
      BY <2>1 DEF CertificateList
    <3> QED
      BY <3>1, SizedLength
  <2>3. PICK v \in ByteString : v = Vector(3, bytes)
    BY VectorTyped
  <2>4. <<0>> \in ByteString
    BY EmptyVector
  <2> QED
    BY <2>1, <2>2, <2>3, <2>4, ConcatProperties DEF ByteString
<1>4. CASE type = HandshakeType.CertificateRequest
  <2>1. m \in ExtensionList /\ Encode(type, m) = <<0>> \o Vector(2, MarshalExtensions(m))
    BY <1>4 DEF MessageOf, Encode, HandshakeType
  <2>2. PICK bytes \in ByteString : bytes = MarshalExtensions(m)
    BY <2>1, ExtensionListIs, SizedLength
  <2>3. PICK v \in ByteString : v = Vector(2, bytes)
    BY VectorTyped
  <2>4. <<0>> \in ByteString
    BY EmptyVector
  <2> QED
    BY <2>1, <2>2, <2>3, <2>4, ConcatProperties DEF ByteString
<1>5. CASE type = HandshakeType.CertificateVerify
  <2>1. m \in CertificateVerifyFields /\ Encode(type, m) = Pair(m.scheme, m.signature)
    BY <1>5 DEF MessageOf, Encode, Pair, HandshakeType
  <2>2. PICK n \in Uint16, s \in Sized(2) : n = m.scheme /\ s = m.signature
    BY <2>1 DEF CertificateVerifyFields
  <2>3. s \in ByteString
    BY SizedLength
  <2> QED
    BY <2>1, <2>2, <2>3, PairTyped
<1>6. CASE type = HandshakeType.Finished
  BY <1>6 DEF MessageOf, Encode, ByteString, HandshakeType
<1>7. CASE type = HandshakeType.KeyUpdate
  <2>1. m \in BOOLEAN /\ Encode(type, m) = <<IF m THEN 1 ELSE 0>>
    BY <1>7 DEF MessageOf, Encode, HandshakeType
  <2> QED
    BY <2>1 DEF ByteString, Byte
<1> QED
  BY <1>1, <1>2, <1>3, <1>4, <1>5, <1>6, <1>7, AnswerTypes, Zenon

\* Damage leaves bytes.
LEMMA DamagedTyped ==
  ASSUME NEW body \in ByteString, NEW damage \in [kind : {"none", "cut", "extended", "changed", "dropped"}, at : Nat],
         damage.kind \in {"changed", "dropped"} => damage.at \in 1 .. Len(body)
  PROVE  Damaged(body, damage) \in ByteString
<1>1. PICK n \in Nat : n = Len(body)
  BY LenIsNat
<1>2. CASE damage.kind = "none"
  BY <1>2 DEF Damaged
<1>3. CASE damage.kind = "cut"
  <2>1. Damaged(body, damage) = SubSeq(body, 1, n - 1)
    BY <1>1, <1>3 DEF Damaged
  <2>2. CASE n = 0
    <3>1. SubSeq(body, 1, n - 1) = <<>>
      BY <1>1, <2>2, SubSeqProperties DEF ByteString
    <3> QED
      BY <2>1, <3>1, EmptySeq DEF ByteString
  <2>3. CASE n # 0
    <3>1. n - 1 \in 0 .. n
      BY <1>1, <2>3
    <3> QED
      BY <1>1, <2>1, <3>1, FrontOfBytes
  <2> QED
    BY <2>2, <2>3
<1>4. CASE damage.kind = "extended"
  BY <1>4 DEF Damaged, ByteString, Byte
<1>5. CASE damage.kind = "changed"
  <2>1. PICK i \in 1 .. n : i = damage.at
    BY <1>1, <1>5
  <2>2. Damaged(body, damage) = [body EXCEPT ![i] = (@ + 1) % 256]
    BY <1>5, <2>1 DEF Damaged
  <2>3. (body[i] + 1) % 256 \in Byte
    <3>1. PICK k \in 0 .. 255 : k = body[i]
      <4>1. body[i] \in 0 .. 255
        BY <1>1, ByteAt DEF ByteString
      <4> QED
        BY <4>1, Zenon
    <3>2. (k + 1) % 256 \in Byte
      BY DEF Byte
    <3> QED
      BY <3>1, <3>2
  <2> QED
    BY <1>1, <2>2, <2>3, ExceptSeq DEF ByteString
<1>6. CASE damage.kind = "dropped"
  <2>1. PICK i \in 1 .. n : i = damage.at
    BY <1>1, <1>6
  <2>2. Damaged(body, damage) = SubSeq(body, 1, i - 1) \o SubSeq(body, i + 1, n)
    BY <1>1, <1>6, <2>1 DEF Damaged, RemoveAt
  <2>3. PICK a \in ByteString : a = SubSeq(body, 1, i - 1)
    <3>1. i - 1 \in 0 .. n
      BY <1>1
    <3> QED
      BY <1>1, <3>1, FrontOfBytes
  <2>4. PICK b \in ByteString : b = SubSeq(body, i + 1, n)
    <3>1. i + 1 \in 1 .. n + 1
      BY <1>1
    <3> QED
      BY <1>1, <3>1, SuffixTyped
  <2> QED
    BY <2>2, <2>3, <2>4, ConcatProperties DEF ByteString
<1> QED
  BY <1>2, <1>3, <1>4, <1>5, <1>6

-----------------------------------------------------------------------------
(* What is read, step by step.                                             *)

\* A message of the server, as it arrives.
AnswerArrives ==
  /\ sent.type \in AnswerType /\ sent.message \in MessageOf(sent.type)
  /\ \E x \in Arrived :
       /\ wire = Framed(sent.type, x)
       /\ sent.whole => x = Encode(sent.type, sent.message)

\* Each variable is what the steps before have made of those before it.
ReadInv ==
  /\ pc \in {"hello", "answer", "unmarshal", "use", "done"}
  /\ sender \in {"none", "client", "server"}
  /\ pc \in {"hello", "answer"} => sender = "none"
  /\ pc \in {"unmarshal", "use"} => sender # "none"
  /\ pc \in {"hello", "answer", "unmarshal"} \/ sender = "none" => read = Nothing
  /\ sender = "server" => AnswerArrives
  /\ sender = "client" => sent.type \in {HandshakeType.Finished, HandshakeType.KeyUpdate}
  /\ sender # "none" /\ pc \in {"use", "done"} => read = Unmarshal(sent.type, wire)

\* An answer arrives as a framed body of its type.
LEMMA AnswerIsTyped ==
  ASSUME NEW answer \in Answers, NEW damage \in Damages,
         NEW body, body = Encode(answer.type, answer.message),
         damage.kind \in {"changed", "dropped"} => damage.at \in 1 .. Len(body),
         Len(Damaged(body, damage)) \in 1 .. MaxBodyLen
  PROVE  /\ answer.type \in AnswerType /\ answer.message \in MessageOf(answer.type)
         /\ Damaged(body, damage) \in Arrived
<1>1. answer.type \in AnswerType /\ answer.message \in MessageOf(answer.type)
  BY MessagesAssumption, Zenon
<1>2. body \in ByteString
  BY <1>1, EncodeTyped, Zenon
<1>3. damage \in [kind : {"none", "cut", "extended", "changed", "dropped"}, at : Nat]
  BY MessagesAssumption, Zenon
<1>4. Damaged(body, damage) \in ByteString
  BY <1>2, <1>3, DamagedTyped, Zenon
<1> QED
  BY <1>1, <1>4, Zenon DEF Arrived

\* The step that sends it.
LEMMA ServerAnswersTyped ==
  ASSUME ServerAnswers
  PROVE  AnswerArrives'
<1>1. PICK answer \in Answers, damage \in Damages :
        LET body == Encode(answer.type, answer.message)
            arrived == Damaged(body, damage)
        IN  /\ damage.kind \in {"changed", "dropped"} => damage.at \in 1 .. Len(body)
            /\ Len(arrived) \in 1 .. MaxBodyLen
            /\ wire' = Framed(answer.type, arrived)
            /\ sent' = [type    |-> answer.type, message |-> answer.message,
                        whole   |-> arrived = body]
  BY Zenon DEF ServerAnswers
<1> DEFINE body    == Encode(answer.type, answer.message)
           arrived == Damaged(body, damage)
<1>2. /\ answer.type \in AnswerType /\ answer.message \in MessageOf(answer.type)
      /\ arrived \in Arrived
  BY <1>1, AnswerIsTyped, Zenon
<1> HIDE DEF body, arrived
<1>3. PICK type, m, whole : type = answer.type /\ m = answer.message /\ whole = (arrived = body)
  OBVIOUS
<1>4. sent'.type = type /\ sent'.message = m /\ sent'.whole = whole
  BY <1>1, <1>3 DEF body, arrived
<1> QED
  BY <1>1, <1>2, <1>3, <1>4, Zenon DEF AnswerArrives, body, arrived

\* Nothing has been read yet.
LEMMA ReadInvInit == Init => ReadInv
BY DEF Init, ReadInv

\* Each step keeps what has been read as Unmarshal makes it of the wire.
LEMMA ReadInvNext == ReadInv /\ [Next]_vars => ReadInv'
<1> SUFFICES ASSUME ReadInv, [Next]_vars PROVE ReadInv'
  OBVIOUS
<1>1. CASE SendClientHello
  BY <1>1 DEF ReadInv, SendClientHello, AnswerArrives
<1>2. CASE ServerAnswers
  <2>1. AnswerArrives'
    BY <1>2, ServerAnswersTyped
  <2>2. pc = "answer" /\ sender' = "server" /\ pc' = "unmarshal" /\ read' = read
    BY <1>2, Zenon DEF ServerAnswers
  <2> QED
    BY <2>1, <2>2 DEF ReadInv
<1>3. CASE FrameFinished
  <2>1. /\ pc = "answer" /\ sender' = "client" /\ pc' = "unmarshal" /\ read' = read
        /\ sent'.type = HandshakeType.Finished
    BY <1>3 DEF FrameFinished, ClientFrames
  <2> QED
    BY <2>1 DEF ReadInv
<1>4. CASE FrameKeyUpdate
  <2>1. /\ pc = "answer" /\ sender' = "client" /\ pc' = "unmarshal" /\ read' = read
        /\ sent'.type = HandshakeType.KeyUpdate
    BY <1>4 DEF FrameKeyUpdate, ClientFrames
  <2> QED
    BY <2>1 DEF ReadInv
<1>5. CASE UnmarshalMessage
  BY <1>5 DEF ReadInv, UnmarshalMessage, AnswerArrives
<1>6. CASE DeriveSharedSecret \/ VerifyChain \/ VerifyCertificateVerify
  <2>1. /\ pc = "use" /\ pc' = "done"
        /\ UNCHANGED <<sender, sent, wire, read>>
    BY <1>6 DEF DeriveSharedSecret, VerifyChain, VerifyCertificateVerify, GoOn
  <2> QED
    BY <2>1 DEF ReadInv, AnswerArrives
<1>7. CASE UNCHANGED vars
  BY <1>7 DEF ReadInv, vars, AnswerArrives
<1> QED
  BY <1>1, <1>2, <1>3, <1>4, <1>5, <1>6, <1>7 DEF Next

\* What has been read is always what Unmarshal makes of the message on the
\* wire, which is framed as the collector leaves it.
THEOREM ReadInvariant == Spec => []ReadInv
BY ReadInvInit, ReadInvNext, PTL DEF Spec

\* The parsers of the messages a client frames do not slice by a length.
LEMMA ClientMessagesDoNotPanic ==
  ASSUME NEW type \in {HandshakeType.Finished, HandshakeType.KeyUpdate}, NEW data
  PROVE  Unmarshal(type, data).outcome # "panic"
<1>1. ASSUME NEW ok, NEW value, NEW rest PROVE Result(ok, value, rest).outcome # "panic"
  BY DEF Result
<1>2. CASE type = HandshakeType.Finished
  <2>1. Unmarshal(type, data) = UnmarshalFinished(data)
    BY <1>2 DEF Unmarshal, HandshakeType
  <2>2. PICK t, v : t = Read(1, data) /\ v = ReadVector(3, t.rest)
    OBVIOUS
  <2>3. UnmarshalFinished(data) = Result(t.ok /\ v.ok /\ v.rest = <<>>, v.value, <<>>)
    BY <2>2, Zenon DEF UnmarshalFinished
  <2> QED
    BY <1>1, <2>1, <2>3, Zenon
<1>3. CASE type = HandshakeType.KeyUpdate
  <2>1. Unmarshal(type, data) = UnmarshalKeyUpdate(data)
    BY <1>3 DEF Unmarshal, HandshakeType
  <2>2. PICK b : b = Body(HandshakeType.KeyUpdate, data)
    OBVIOUS
  <2>3. UnmarshalKeyUpdate(data) = Result(b \in {<<0>>, <<1>>}, b = <<1>>, <<>>)
    BY <2>2, Zenon DEF UnmarshalKeyUpdate
  <2>4. PICK ok, value : ok = (b \in {<<0>>, <<1>>}) /\ value = (b = <<1>>)
    OBVIOUS
  <2>5. UnmarshalKeyUpdate(data) = Result(ok, value, <<>>)
    BY <2>3, <2>4
  <2> QED
    BY <1>1, <2>1, <2>5, Zenon
<1> QED
  BY <1>2, <1>3

\* No message the collector passes on makes a parser slice out of range.
LEMMA ReadInvInRange == ReadInv => SlicesInRange
<1> SUFFICES ASSUME ReadInv, read # Nothing PROVE read.outcome # "panic"
  BY DEF SlicesInRange
<1>1. sender # "none" /\ read = Unmarshal(sent.type, wire)
  BY DEF ReadInv
<1>2. CASE sender = "server"
  <2>1. PICK x \in Arrived : wire = Framed(sent.type, x)
    BY <1>2 DEF ReadInv, AnswerArrives
  <2>2. sent.type \in AnswerType
    BY <1>2 DEF ReadInv, AnswerArrives
  <2>3. ReadsAs(sent.type, x, read)
    BY <1>1, <2>1, <2>2, AnswersExact, Zenon
  <2> QED
    BY <2>3 DEF ReadsAs
<1>3. CASE sender = "client"
  <2>1. sent.type \in {HandshakeType.Finished, HandshakeType.KeyUpdate}
    BY <1>3 DEF ReadInv
  <2> QED
    BY <1>1, <2>1, ClientMessagesDoNotPanic, Zenon
<1> QED
  BY <1>1, <1>2, <1>3 DEF ReadInv

\* No parser slices out of range, whatever the server sends and however it is
\* damaged on the way, so long as the collector passes it on.
THEOREM ParsersSliceInRange == Spec => []SlicesInRange
BY ReadInvariant, ReadInvInRange, PTL

\* What Unmarshal makes of a framed body is exact.
LEMMA ReadInvExact == ReadInv => ReadingIsExact
<1> SUFFICES ASSUME ReadInv, FromServer
             PROVE  /\ sent.whole => (read.outcome = "ok" <=> Legal(sent.type, sent.message))
                    /\ read.outcome = "ok" =>
                         /\ sent.whole => read.value = sent.message
                         /\ \E body \in Encodings(sent.type, read.value) :
                              wire = Framed(sent.type, body \o read.rest)
                         /\ read.rest # <<>> => sent.type = HandshakeType.EncryptedExtensions
  BY Zenon DEF ReadingIsExact
<1>1. AnswerArrives /\ read = Unmarshal(sent.type, wire)
  BY DEF ReadInv, FromServer
<1>2. PICK x \in Arrived :
        wire = Framed(sent.type, x) /\ (sent.whole => x = Encode(sent.type, sent.message))
  BY <1>1, Zenon DEF AnswerArrives
<1>3. sent.type \in AnswerType /\ sent.message \in MessageOf(sent.type)
  BY <1>1, Zenon DEF AnswerArrives
<1>4. /\ ReadsAs(sent.type, x, read)
      /\ \A m \in MessageOf(sent.type) :
           x = Encode(sent.type, m) => ReadsBack(sent.type, m, read)
  BY <1>1, <1>2, <1>3, AnswersExact, Zenon
<1>5. sent.whole => ReadsBack(sent.type, sent.message, read)
  BY <1>2, <1>3, <1>4, Zenon
<1>6. ASSUME read.outcome = "ok"
      PROVE  /\ \E body \in Encodings(sent.type, read.value) :
                  wire = Framed(sent.type, body \o read.rest)
             /\ read.rest # <<>> => sent.type = HandshakeType.EncryptedExtensions
  BY <1>2, <1>4, <1>6, Zenon DEF ReadsAs, Joins
<1> QED
  BY <1>5, <1>6, Zenon DEF ReadsBack

\* Every parser takes a whole message of the server exactly when it is legal,
\* as it was sent, and takes no damaged one for something it does not spell
\* out: of all messages, of any size.
THEOREM ReadingAlwaysExact == Spec => []ReadingIsExact
BY ReadInvariant, ReadInvExact, PTL

-----------------------------------------------------------------------------
(* What the client goes on with.                                           *)

\* What the client makes of the message it has read.
GoesOnWith(value) ==
  CASE sent.type = HandshakeType.ServerHello ->
         value = IF DerivesSharedSecret(read.value)
                 THEN ServerShare(read.value).data ELSE Nothing
    [] sent.type = HandshakeType.Certificate ->
         value = LeafCertificate(read.value, Parseable)
    [] sent.type = HandshakeType.CertificateVerify ->
         value = IF VerifiesSignature(kind, read.value,
                                      Genuine(read.value.scheme, read.value.signature))
                 THEN read.value.signature ELSE Nothing
    [] OTHER -> FALSE

UseInv ==
  /\ ReadInv
  /\ offer \in Offers
  /\ pc # "hello" => hello = NewClientHelloRecord(Random, offer)
  /\ pc = "answer" \/ sender # "none" => hello.ok
  /\ pc = "use" => read.outcome = "ok"
  /\ pc = "done" /\ sender # "none" /\ read.outcome = "ok" => GoesOnWith(accepted)

\* Nothing has been used yet.
LEMMA UseInvInit == Init => UseInv
<1> SUFFICES ASSUME Init PROVE UseInv
  OBVIOUS
<1>1. ReadInv
  BY ReadInvInit
<1> QED
  BY <1>1 DEF Init, UseInv

\* The steps that go on with a value.
LEMMA GoesOn ==
  ASSUME UseInv, DeriveSharedSecret \/ VerifyChain \/ VerifyCertificateVerify
  PROVE  /\ pc = "use" /\ pc' = "done" /\ UNCHANGED <<offer, kind, hello, sender, sent, wire, read>>
         /\ GoesOnWith(accepted)'
<1>1. CASE DeriveSharedSecret
  <2>1. /\ pc = "use" /\ pc' = "done" /\ UNCHANGED <<offer, kind, hello, sender, sent, wire, read>>
        /\ sent.type = HandshakeType.ServerHello
        /\ accepted' = IF DerivesSharedSecret(read.value)
                       THEN ServerShare(read.value).data ELSE Nothing
    BY <1>1 DEF DeriveSharedSecret, GoOn
  <2> QED
    BY <2>1 DEF GoesOnWith, HandshakeType
<1>2. CASE VerifyChain
  <2>1. /\ pc = "use" /\ pc' = "done" /\ UNCHANGED <<offer, kind, hello, sender, sent, wire, read>>
        /\ sent.type = HandshakeType.Certificate
        /\ accepted' = LeafCertificate(read.value, Parseable)
    BY <1>2 DEF VerifyChain, GoOn
  <2> QED
    BY <2>1 DEF GoesOnWith, HandshakeType
<1>3. CASE VerifyCertificateVerify
  <2>1. /\ pc = "use" /\ pc' = "done" /\ UNCHANGED <<offer, kind, hello, sender, sent, wire, read>>
        /\ sent.type = HandshakeType.CertificateVerify
        /\ accepted' = IF VerifiesSignature(kind, read.value,
                                            Genuine(read.value.scheme, read.value.signature))
                       THEN read.value.signature ELSE Nothing
    BY <1>3 DEF VerifyCertificateVerify, GoOn
  <2> QED
    BY <2>1 DEF GoesOnWith, HandshakeType, Genuine
<1> QED
  BY <1>1, <1>2, <1>3

\* Each step keeps the hello as it was made and the value the client goes on
\* with as its checks make it.
LEMMA UseInvNext == UseInv /\ [Next]_vars => UseInv'
<1> SUFFICES ASSUME UseInv, [Next]_vars PROVE UseInv'
  OBVIOUS
<1>1. ReadInv'
  BY ReadInvNext DEF UseInv
<1>2. CASE SendClientHello
  <2>1. /\ pc = "hello" /\ sender' = sender /\ sender = "none" /\ offer' = offer
        /\ hello' = NewClientHelloRecord(Random, offer)
        /\ pc' = IF hello'.ok THEN "answer" ELSE "done"
    BY <1>2 DEF SendClientHello, UseInv, ReadInv
  <2> QED
    BY <1>1, <2>1 DEF UseInv
<1>3. CASE ServerAnswers \/ FrameFinished \/ FrameKeyUpdate
  <2>1. pc = "answer" /\ pc' = "unmarshal" /\ hello' = hello /\ offer' = offer
    BY <1>3 DEF ServerAnswers, FrameFinished, FrameKeyUpdate, ClientFrames
  <2> QED
    BY <1>1, <2>1 DEF UseInv
<1>4. CASE UnmarshalMessage
  <2>1. /\ pc = "unmarshal" /\ hello' = hello /\ offer' = offer /\ sender' = sender
        /\ pc' = IF read'.outcome = "ok" THEN "use" ELSE "done"
    BY <1>4 DEF UnmarshalMessage
  <2>2. sender # "none"
    BY <2>1 DEF UseInv, ReadInv
  <2> QED
    BY <1>1, <2>1, <2>2 DEF UseInv
<1>5. CASE DeriveSharedSecret \/ VerifyChain \/ VerifyCertificateVerify
  <2>1. /\ pc = "use" /\ pc' = "done" /\ UNCHANGED <<offer, kind, hello, sender, sent, wire, read>>
        /\ GoesOnWith(accepted)'
    BY <1>5, GoesOn
  <2> QED
    BY <1>1, <2>1 DEF UseInv
<1>6. CASE UNCHANGED vars
  BY <1>1, <1>6 DEF UseInv, vars, GoesOnWith, Genuine
<1> QED
  BY <1>2, <1>3, <1>4, <1>5, <1>6 DEF Next

\* The hello is always what NewClientHelloRecord makes of the offer, and what
\* the client has gone on with is what its checks make of the message read.
THEOREM UseInvariant == Spec => []UseInv
BY UseInvInit, UseInvNext, PTL DEF Spec

\* The data of the one share of a list, which is a key.
OneShare(exts, i, data) ==
  /\ Shares(exts) = {i}
  /\ Len(data) = X25519KeyLen
  /\ \E group \in Uint16 :
       exts[i].payload = Number(2, group) \o Vector(2, data)

\* The secret is made from it.
LEMMA ShareIsTheServers ==
  ASSUME NEW m \in ServerHelloFields, ~Duplicate(m.extensions), DerivesSharedSecret(m),
         NEW a, a = ServerShare(m).data
  PROVE  \E i \in Shares(m.extensions) : OneShare(m.extensions, i, a)
<1>1. PICK exts \in Seq(Extension) : exts = m.extensions
  BY HelloTyped, Zenon
<1>2. PICK first : first = ParseKeyShareServer(exts[Min(Shares(exts))].payload)
  OBVIOUS
<1>3. /\ Shares(exts) # {} /\ first.ok /\ first.selectedGroup = 0 /\ a = first.share.data
      /\ Len(a) = X25519KeyLen
  <2>1. PICK ok \in BOOLEAN : ok = (first.ok /\ first.selectedGroup = 0)
    <3>1. (first.ok /\ first.selectedGroup = 0) \in BOOLEAN
      OBVIOUS
    <3> QED
      BY <3>1, Zenon
  <2>2. PICK d : d = first.share.data
    OBVIOUS
  <2>3. ServerShare(m) = IF Shares(exts) = {} THEN [ok |-> FALSE, data |-> <<>>]
                         ELSE [ok |-> ok, data |-> d]
    BY <1>1, <1>2, <2>1, <2>2, Zenon DEF ServerShare
  <2>4. ServerShare(m).ok /\ Len(a) = X25519KeyLen
    BY Zenon DEF DerivesSharedSecret
  <2>5. Shares(exts) # {}
    BY <2>3, <2>4
  <2>6. ServerShare(m) = [ok |-> ok, data |-> d]
    BY <2>3, <2>5, Zenon
  <2>7. ok /\ a = d
    BY <2>4, <2>6
  <2> QED
    BY <2>1, <2>2, <2>4, <2>5, <2>7, Zenon
<1>4. PICK n \in Nat : n = Len(exts)
  BY LenProperties
<1>5. PICK i \in 1 .. n : Shares(exts) = {i} /\ exts[i].type = ExtensionType.KeyShare
  <2>1. PICK i \in 1 .. n : exts[i].type = ExtensionType.KeyShare /\ i \in Shares(exts)
    BY <1>3, <1>4 DEF Shares
  <2>2. ASSUME NEW j \in Shares(exts) PROVE j = i
    BY <1>1, <1>4, <2>1 DEF Shares, Duplicate
  <2>3. Shares(exts) = {i}
    BY <2>1, <2>2
  <2> QED
    BY <2>1, <2>3
<1>6. Min({i}) = i
  BY DEF Min
<1>7. PICK p \in Sized(2) : p = exts[i].payload
  <2>1. exts[i] \in Extension
    BY <1>4, ElementOfSeq
  <2> QED
    BY <2>1 DEF Extension
<1>8. first = ParseKeyShareServer(p)
  BY <1>2, <1>5, <1>6, <1>7, Zenon
<1>9. Len(p) # 2
  <2>1. ASSUME Len(p) = 2 PROVE FALSE
    <3>1. first = [ok |-> TRUE, share |-> NoShare, selectedGroup |-> Value(p)]
      BY <1>8, <2>1 DEF ParseKeyShareServer
    <3>2. a = <<>>
      BY <1>3, <3>1 DEF NoShare
    <3> QED
      BY <1>3, <3>2, EmptySeq DEF X25519KeyLen
  <2> QED
    BY <2>1
<1>10. PICK share : share = ReadKeyShare(p)
  OBVIOUS
<1>11. share.ok /\ share.rest = <<>> /\ a = share.value.data
  <2>1. PICK ok \in BOOLEAN : ok = (share.ok /\ share.rest = <<>>)
    <3>1. (share.ok /\ share.rest = <<>>) \in BOOLEAN
      OBVIOUS
    <3> QED
      BY <3>1, Zenon
  <2>2. first = [ok |-> ok, share |-> share.value, selectedGroup |-> 0]
    BY <1>8, <1>9, <1>10, <2>1, Zenon DEF ParseKeyShareServer
  <2>3. first.ok = ok /\ first.share = share.value
    BY <2>2
  <2> QED
    BY <1>3, <2>1, <2>3, Zenon
<1>12. p \in ByteString
  BY SizedLength
<1>13. share.value.group \in Uint16 /\ p = Pair(share.value.group, a)
  BY <1>10, <1>11, <1>12, WholeShare, Zenon
<1> QED
  <2>1. PICK group \in Uint16 : p = Pair(group, a)
    BY <1>13, Zenon
  <2>2. exts[i].payload = Number(2, group) \o Vector(2, a)
    BY <1>7, <2>1, Zenon DEF Pair
  <2>3. i \in Shares(exts)
    BY <1>5
  <2>4. OneShare(exts, i, a)
    BY <1>3, <1>5, <2>2, Zenon DEF OneShare
  <2> QED
    BY <1>1, <2>3, <2>4, Zenon

-----------------------------------------------------------------------------
(* One element of what is collected.                                       *)

\* A sequence around its element at i.
Around(seq, A, i, front, back) ==
  /\ front \in Seq(A) /\ back \in Seq(A) /\ Len(front) = i - 1
  /\ seq = front \o (<<seq[i]>> \o back)

\* A sequence around one of its places.
LEMMA SplitAround ==
  ASSUME NEW A, NEW seq \in Seq(A), NEW i \in 1 .. Len(seq)
  PROVE  \E front, back : Around(seq, A, i, front, back)
<1>1. PICK n \in Nat : n = Len(seq) /\ i \in 1 .. n
  BY LenProperties
<1>2. PICK front : front = SubSeq(seq, 1, i - 1)
  OBVIOUS
<1>3. PICK back : back = SubSeq(seq, i + 1, n)
  OBVIOUS
<1>4. /\ front \in Seq(A) /\ Len(front) = i - 1
      /\ \A k \in 1 .. i - 1 : front[k] = seq[k]
  <2>1. i - 1 \in 0 .. n
    BY <1>1
  <2> QED
    BY <1>1, <1>2, <2>1, SubSeqProperties
<1>5. /\ back \in Seq(A) /\ Len(back) = n - i
      /\ \A k \in 1 .. n - i : back[k] = seq[i + k]
  BY <1>1, <1>3, SubSeqProperties
<1>6. seq[i] \in A
  BY ElementOfSeq
<1>7. PICK x \in A : x = seq[i]
  BY <1>6
<1>8. PICK one \in Seq(A) : one = <<x>> /\ Len(one) = 1 /\ one[1] = x
  <2>1. <<x>> \in Seq(A) /\ Len(<<x>>) = 1 /\ <<x>>[1] = x
    OBVIOUS
  <2> QED
    BY <2>1
<1>9. PICK l \in Nat : l = n - i
  <2>1. n - i \in Nat
    BY <1>1
  <2> QED
    BY <2>1
<1>10. PICK m \in Nat : m = i - 1
  BY <1>1
<1>11. PICK o \in Nat : o = 1
  OBVIOUS
<1>12. PICK t : t = one \o back
  OBVIOUS
<1>13. Joined(t, A, one, back, o, l)
  BY <1>5, <1>8, <1>9, <1>11, <1>12, JoinedElements, Zenon
<1>14. PICK w : w = front \o t
  OBVIOUS
<1>15. PICK r \in Nat : r = Len(t) /\ r = o + l /\ t \in Seq(A)
  BY <1>13 DEF Joined
<1>16. Joined(w, A, front, t, m, r)
  BY <1>4, <1>10, <1>14, <1>15, JoinedElements, Zenon
<1>17. /\ t[1] = x
       /\ \A k \in 1 .. l : t[1 + k] = back[k]
  BY <1>8, <1>11, <1>13 DEF Joined
<1>18. /\ w \in Seq(A) /\ Len(w) = n
       /\ \A k \in 1 .. m : w[k] = front[k]
       /\ \A k \in 1 .. r : w[m + k] = t[k]
  <2>1. m + r = n
    BY <1>1, <1>9, <1>10, <1>11, <1>15
  <2>2. /\ w \in Seq(A) /\ Len(w) = m + r
        /\ \A k \in 1 .. m : w[k] = front[k]
        /\ \A k \in 1 .. r : w[m + k] = t[k]
    BY <1>16, Zenon DEF Joined
  <2> QED
    BY <2>1, <2>2, Zenon
<1>19. ASSUME NEW k \in 1 .. n PROVE w[k] = seq[k]
  <2>1. CASE k <= m
    BY <1>1, <1>4, <1>10, <1>18, <2>1
  <2>2. CASE k = i
    <3>1. 1 \in 1 .. r /\ m + 1 = i
      BY <1>1, <1>10, <1>11, <1>15
    <3>2. w[m + 1] = t[1]
      BY <1>18, <3>1
    <3> QED
      BY <1>7, <1>17, <2>2, <3>1, <3>2
  <2>3. CASE k > i
    <3>1. PICK j \in 1 .. l : k = i + j
      <4>1. k - i \in 1 .. l /\ k = i + (k - i)
        BY <1>1, <1>9, <2>3
      <4> QED
        BY <4>1
    <3>2. 1 + j \in 1 .. r /\ m + (1 + j) = k
      BY <1>1, <1>9, <1>10, <1>11, <1>15, <3>1
    <3>3. w[m + (1 + j)] = t[1 + j]
      BY <1>18, <3>2
    <3>4. t[1 + j] = back[j] /\ back[j] = seq[i + j]
      BY <1>5, <1>9, <1>17, <3>1
    <3> QED
      BY <3>1, <3>2, <3>3, <3>4
  <2> QED
    BY <1>1, <1>10, <2>1, <2>2, <2>3
<1>20. w = seq
  BY <1>1, <1>18, <1>19, SeqEqual
<1>21. seq = front \o (<<x>> \o back)
  BY <1>8, <1>12, <1>14, <1>20
<1> QED
  BY <1>4, <1>5, <1>7, <1>21, Zenon DEF Around

\* What is collected from it.
CollectedAround(f, seq, S, i, front, back) ==
  /\ Collected(f, front) \in Seq(S) /\ Collected(f, back) \in Seq(S)
  /\ Collected(f, seq) = Collected(f, front) \o (f[seq[i]] \o Collected(f, back))

\* What is collected around it.
LEMMA CollectAround ==
  ASSUME NEW A, NEW S, NEW f \in [A -> Seq(S)], NEW seq \in Seq(A), NEW i \in 1 .. Len(seq),
         NEW front, NEW back, Around(seq, A, i, front, back)
  PROVE  CollectedAround(f, seq, S, i, front, back)
<1>1. seq[i] \in A
  BY ElementOfSeq
<1>2. PICK x \in A : x = seq[i]
  BY <1>1
<1>3. PICK one \in Seq(A) : one = <<x>>
  <2>1. <<x>> \in Seq(A)
    OBVIOUS
  <2> QED
    BY <2>1
<1>4. front \in Seq(A) /\ back \in Seq(A) /\ seq = front \o (one \o back)
  BY <1>2, <1>3, Zenon DEF Around
<1>5. PICK t \in Seq(A) : t = one \o back
  BY <1>4, ConcatProperties
<1>6. CollectedJoins(f, front, t) /\ CollectedJoins(f, one, back)
  BY <1>4, CollectedConcat, Zenon
<1>7. Collected(f, one) = f[x]
  BY <1>3, CollectedOne
<1>8. Collected(f, front) \in Seq(S) /\ Collected(f, back) \in Seq(S)
  BY <1>4, CollectedType, Zenon
<1> QED
  BY <1>2, <1>4, <1>5, <1>6, <1>7, <1>8, Zenon DEF CollectedJoins, CollectedAround

\* It is as long as each of them at least.
LEMMA CollectedBound ==
  ASSUME NEW A, NEW S, NEW f \in [A -> Seq(S)], NEW seq \in Seq(A), NEW i \in 1 .. Len(seq),
         NEW n, n = Len(Collected(f, seq))
  PROVE  n \in Nat /\ Len(f[seq[i]]) \in Nat /\ Len(f[seq[i]]) <= n
<1>1. PICK front, back : Around(seq, A, i, front, back)
  BY SplitAround, Zenon
<1>2. CollectedAround(f, seq, S, i, front, back)
  BY <1>1, CollectAround, Zenon
<1>3. PICK a \in Seq(S), b \in Seq(S) : a = Collected(f, front) /\ b = Collected(f, back)
  BY <1>2, Zenon DEF CollectedAround
<1>4. seq[i] \in A
  BY ElementOfSeq
<1>5. PICK c \in Seq(S) : c = f[seq[i]]
  BY <1>4
<1>6. PICK t \in Seq(S) : t = c \o b /\ Len(t) = Len(c) + Len(b)
  BY ConcatProperties
<1>7. Collected(f, seq) = a \o t
  BY <1>2, <1>3, <1>5, <1>6, Zenon DEF CollectedAround
<1>8. Len(a \o t) = Len(a) + Len(t)
  BY ConcatProperties
<1>9. Len(a) \in Nat /\ Len(b) \in Nat /\ Len(c) \in Nat /\ Len(t) \in Nat
  BY LenProperties
<1> QED
  BY <1>5, <1>6, <1>7, <1>8, <1>9

-----------------------------------------------------------------------------
(* Lists of numbers.                                                       *)

\* The numbers of a width.
NumbersIn(width) == {n \in Nat : n < 256 ^ width}

NumberEncoder(width) == [n \in NumbersIn(width) |-> Number(width, n)]

\* Numbers that all have the one width.
SameWidth(f, A, S, width) ==
  f \in [A -> Seq(S)] /\ \A a \in A : Len(f[a]) = width

\* A number is written in as many bytes as the others.
LEMMA NumberEncoded ==
  ASSUME NEW width \in 1 .. 3
  PROVE  SameWidth(NumberEncoder(width), NumbersIn(width), Byte, width)
<1>1. ASSUME NEW n \in NumbersIn(width)
      PROVE  /\ NumberEncoder(width)[n] \in Seq(Byte)
             /\ Len(NumberEncoder(width)[n]) = width
  <2>1. n \in Nat
    BY DEF NumbersIn
  <2> QED
    BY <2>1, NumberTyped DEF NumberEncoder
<1> QED
  BY <1>1 DEF NumberEncoder, SameWidth

\* A list of numbers collects what is written of each.
LEMMA NumbersCollected ==
  ASSUME NEW width \in 1 .. 3, NEW ns \in Seq(NumbersIn(width))
  PROVE  /\ Numbers(width, ns) \in Seq(Byte)
         /\ Numbers(width, ns) = Collected(NumberEncoder(width), ns)
<1>1. ASSUME NEW i \in 1 .. Len(ns)
      PROVE  Number(width, ns[i]) = NumberEncoder(width)[ns[i]]
  <2>1. ns[i] \in NumbersIn(width)
    BY ElementOfSeq
  <2> QED
    BY <2>1 DEF NumberEncoder
<1>2. Numbers(width, ns) = Collected(NumberEncoder(width), ns)
  BY <1>1, Zenon DEF Numbers, Collected
<1>3. NumberEncoder(width) \in [NumbersIn(width) -> Seq(Byte)]
  BY NumberEncoded DEF SameWidth
<1>4. Collected(NumberEncoder(width), ns) \in Seq(Byte)
  BY <1>3, CollectedType
<1> QED
  BY <1>2, <1>4

\* So many times the width.
Times(width, n) == IF width = 1 THEN n ELSE 2 * n

CollectedHas(f, ns, width, k) == Len(Collected(f, ns)) = Times(width, k)

\* What is collected of elements of one width.
LEMMA CollectedLength ==
  ASSUME NEW A, NEW S, NEW width \in 1 .. 2, NEW f, SameWidth(f, A, S, width), NEW k \in Nat,
         NEW ns \in Seq(A), Len(ns) = k
  PROVE  CollectedHas(f, ns, width, k)
<1> DEFINE T == {n \in Nat : \A seq \in Seq(A) :
                   Len(seq) = n => Len(Collected(f, seq)) = Times(width, n)}
<1>1. f \in [A -> Seq(S)]
  BY DEF SameWidth
<1>2. 0 \in T
  <2>1. ASSUME NEW seq \in Seq(A), Len(seq) = 0 PROVE Len(Collected(f, seq)) = Times(width, 0)
    <3>1. seq = <<>>
      BY <2>1, EmptySeq
    <3>2. Collected(f, seq) = <<>>
      BY <3>1, CollectedEmpty
    <3> QED
      BY <3>2, EmptySeq DEF Times
  <2> QED
    BY <2>1
<1>3. ASSUME NEW n \in T PROVE n + 1 \in T
  <2>1. n \in Nat
    OBVIOUS
  <2>2. ASSUME NEW seq \in Seq(A), Len(seq) = n + 1
        PROVE  Len(Collected(f, seq)) = Times(width, n + 1)
    <3>1. 1 \in 1 .. Len(seq)
      BY <2>1, <2>2
    <3>2. PICK front, back : Around(seq, A, 1, front, back)
      BY <3>1, SplitAround, Zenon
    <3>3. CollectedAround(f, seq, S, 1, front, back)
      BY <1>1, <3>1, <3>2, CollectAround, Zenon
    <3>4. PICK x \in A : x = seq[1]
      BY <3>1, ElementOfSeq
    <3>5. front = <<>> /\ back \in Seq(A) /\ Len(back) = n
      <4>1. front \in Seq(A) /\ back \in Seq(A) /\ Len(front) = 0 /\ seq = front \o (<<x>> \o back)
        BY <3>2, <3>4 DEF Around
      <4>2. PICK one \in Seq(A) : one = <<x>> /\ Len(one) = 1
        <5>1. <<x>> \in Seq(A) /\ Len(<<x>>) = 1
          OBVIOUS
        <5> QED
          BY <5>1
      <4>3. PICK t \in Seq(A) : t = one \o back /\ Len(t) = Len(one) + Len(back)
        BY <4>1, ConcatProperties
      <4>4. Len(seq) = Len(front) + Len(t)
        <5>1. seq = front \o t
          BY <4>1, <4>2, <4>3
        <5> QED
          BY <4>1, <5>1, ConcatProperties
      <4>5. PICK l \in Nat : l = Len(back)
        BY <4>1, LenProperties
      <4>6. n + 1 = 0 + (1 + l)
        BY <2>2, <4>1, <4>2, <4>3, <4>4, <4>5
      <4>7. l = n
        BY <2>1, <4>6
      <4> QED
        BY <4>1, <4>5, <4>7, EmptySeq
    <3>6. Collected(f, front) = <<>>
      BY <3>5, CollectedEmpty
    <3>7. PICK b \in Seq(S) : b = Collected(f, back) /\ Len(b) = Times(width, n)
      <4>1. Collected(f, back) \in Seq(S)
        BY <3>3 DEF CollectedAround
      <4> QED
        BY <3>5, <4>1
    <3>8. PICK c \in Seq(S) : c = f[x] /\ Len(c) = width
      BY <1>1 DEF SameWidth
    <3>9. Collected(f, seq) = <<>> \o (c \o b)
      BY <3>3, <3>4, <3>6, <3>7, <3>8, Zenon DEF CollectedAround
    <3>10. c \o b \in Seq(S) /\ Len(c \o b) = Len(c) + Len(b)
      BY ConcatProperties
    <3>11. Len(<<>> \o (c \o b)) = Len(<<>>) + Len(c \o b) /\ Len(<<>>) = 0
      <4>1. <<>> \in Seq(S) /\ Len(<<>>) = 0
        BY EmptySeq
      <4> QED
        BY <3>10, <4>1, ConcatProperties
    <3>12. Len(Collected(f, seq)) = 0 + (width + Times(width, n))
      BY <3>7, <3>8, <3>9, <3>10, <3>11
    <3> QED
      BY <2>1, <3>12 DEF Times
  <2> QED
    BY <2>1, <2>2
<1>4. T = Nat
  <2> HIDE DEF T
  <2>1. T \in SUBSET Nat
    BY DEF T
  <2> QED
    BY <1>2, <1>3, <2>1, SetInduction
<1>5. k \in T
  BY <1>4
<1> QED
  BY <1>5 DEF CollectedHas

\* The part between two others.
IsBetween(c, a, b, m, n) == SubSeq(a \o (c \o b), m + 1, m + n) = c

\* The part between two others is found at its place.
LEMMA MiddlePart ==
  ASSUME NEW S, NEW a \in Seq(S), NEW c \in Seq(S), NEW b \in Seq(S),
         NEW m, m = Len(a), NEW n, n = Len(c)
  PROVE  IsBetween(c, a, b, m, n)
<1>1. PICK l : l = Len(b)
  OBVIOUS
<1>2. PICK t : t = c \o b
  OBVIOUS
<1>3. Joined(t, S, c, b, n, l)
  BY <1>1, <1>2, JoinedElements, Zenon
<1>4. PICK r \in Nat : r = Len(t) /\ r = n + l /\ t \in Seq(S) /\ n \in Nat /\ l \in Nat
  BY <1>3 DEF Joined
<1>5. PICK w : w = a \o t
  OBVIOUS
<1>6. Joined(w, S, a, t, m, r)
  BY <1>4, <1>5, JoinedElements, Zenon
<1>7. /\ m \in Nat /\ w \in Seq(S) /\ Len(w) = m + r
      /\ \A i \in 1 .. r : w[m + i] = t[i]
      /\ \A i \in 1 .. n : t[i] = c[i]
  BY <1>3, <1>6 DEF Joined
<1>8. PICK s : s = SubSeq(w, m + 1, m + n)
  OBVIOUS
<1>9. s \in Seq(S) /\ Len(s) = n /\ \A i \in 1 .. n : s[i] = w[m + i]
  <2>1. m + 1 \in 1 .. Len(w) + 1 /\ m + n \in m .. Len(w)
    BY <1>4, <1>7
  <2>2. PICK p \in Nat : p = m + 1
    BY <1>7
  <2>3. PICK q \in Nat : q = m + n
    BY <1>4, <1>7
  <2>4. /\ SubSeq(w, p, q) \in Seq(S)
        /\ Len(SubSeq(w, p, q)) = IF p <= q THEN q - p + 1 ELSE 0
        /\ \A i \in 1 .. q - p + 1 : SubSeq(w, p, q)[i] = w[p + i - 1]
    BY <1>7, <2>1, <2>2, <2>3, SubSeqProperties
  <2>5. Len(s) = n
    BY <1>4, <1>7, <1>8, <2>2, <2>3, <2>4
  <2>6. ASSUME NEW i \in 1 .. n PROVE s[i] = w[m + i]
    <3>1. i \in 1 .. q - p + 1 /\ p + i - 1 = m + i
      BY <1>4, <1>7, <2>2, <2>3
    <3>2. SubSeq(w, p, q)[i] = w[p + i - 1]
      BY <2>4, <3>1
    <3> QED
      BY <1>8, <2>2, <2>3, <3>1, <3>2
  <2> QED
    BY <1>8, <2>2, <2>3, <2>4, <2>5, <2>6
<1>10. \A i \in 1 .. n : s[i] = c[i]
  <2>1. ASSUME NEW i \in 1 .. n PROVE s[i] = c[i]
    <3>1. i \in 1 .. r
      BY <1>4
    <3>2. s[i] = w[m + i] /\ w[m + i] = t[i] /\ t[i] = c[i]
      BY <1>7, <1>9, <3>1, Zenon
    <3> QED
      BY <3>2, Zenon
  <2> QED
    BY <2>1, Zenon
<1>11. s = c
  BY <1>4, <1>9, <1>10, SeqEqual
<1> QED
  BY <1>2, <1>5, <1>8, <1>11, Zenon DEF IsBetween

\* The number at a place of a list.
NumberAt(x, width, i, n) ==
  SubSeq(x, width * (i - 1) + 1, width * i) = Number(width, n)

\* A number of a list is found at its place.
LEMMA NumbersAt ==
  ASSUME NEW width \in 1 .. 2, NEW ns \in Seq(NumbersIn(width)), NEW i \in 1 .. Len(ns),
         NEW x, x = Numbers(width, ns)
  PROVE  NumberAt(x, width, i, ns[i])
<1> DEFINE f == NumberEncoder(width)
           A == NumbersIn(width)
<1>0. width \in 1 .. 3
  OBVIOUS
<1>1. SameWidth(f, A, Byte, width)
  BY <1>0, NumberEncoded
<1>2. x = Collected(f, ns)
  BY <1>0, NumbersCollected, Zenon
<1>3. PICK n \in A : n = ns[i]
  BY ElementOfSeq
<1>4. f[n] = Number(width, n)
  BY DEF NumberEncoder
<1> HIDE DEF f, A
<1>5. PICK front, back : Around(ns, A, i, front, back)
  BY SplitAround, Zenon DEF A
<1>6. f \in [A -> Seq(Byte)] /\ ns \in Seq(A)
  BY <1>1 DEF SameWidth, A
<1>7. CollectedAround(f, ns, Byte, i, front, back)
  BY <1>5, <1>6, CollectAround, Zenon
<1>8. PICK a \in Seq(Byte) : a = Collected(f, front)
  BY <1>7 DEF CollectedAround
<1>9. PICK b \in Seq(Byte) : b = Collected(f, back)
  BY <1>7 DEF CollectedAround
<1>10. PICK c \in Seq(Byte) : c = f[n] /\ Len(c) = width
  BY <1>1 DEF SameWidth
<1>11. x = a \o (c \o b)
  BY <1>2, <1>3, <1>7, <1>8, <1>9, <1>10, Zenon DEF CollectedAround
<1>12. PICK k \in Nat : k = i - 1
  <2>1. i - 1 \in Nat
    OBVIOUS
  <2> QED
    BY <2>1
<1>13. front \in Seq(A) /\ Len(front) = k
  BY <1>5, <1>12 DEF Around
<1>14. Len(a) = Times(width, k)
  <2>1. CollectedHas(f, front, width, k)
    BY <1>1, <1>13, CollectedLength, Zenon
  <2> QED
    BY <1>8, <2>1, Zenon DEF CollectedHas
<1>15. PICK m : m = Len(a)
  OBVIOUS
<1>16. SubSeq(a \o (c \o b), m + 1, m + width) = c
  <2>1. IsBetween(c, a, b, m, width)
    BY <1>10, <1>15, MiddlePart, Zenon
  <2> QED
    BY <2>1, Zenon DEF IsBetween
<1>17. m = width * (i - 1) /\ m + width = width * i
  <2>1. CASE width = 1
    BY <1>12, <1>14, <1>15, <2>1 DEF Times
  <2>2. CASE width = 2
    BY <1>12, <1>14, <1>15, <2>2 DEF Times
  <2> QED
    BY <2>1, <2>2
<1>18. SubSeq(x, width * (i - 1) + 1, width * i) = c
  BY <1>11, <1>16, <1>17
<1> QED
  BY <1>3, <1>4, <1>10, <1>18 DEF NumberAt

\* The length of a list of numbers.
LEMMA NumbersLength ==
  ASSUME NEW width \in 1 .. 2, NEW ns \in Seq(NumbersIn(width)), NEW n, n = Len(ns)
  PROVE  /\ n \in Nat /\ Numbers(width, ns) \in ByteString
         /\ Len(Numbers(width, ns)) = Times(width, n)
<1>1. n \in Nat
  BY LenProperties
<1>2. width \in 1 .. 3
  OBVIOUS
<1>3. PICK x : x = Numbers(width, ns)
  OBVIOUS
<1>4. x \in ByteString /\ x = Collected(NumberEncoder(width), ns)
  BY <1>2, <1>3, NumbersCollected DEF ByteString
<1>5. SameWidth(NumberEncoder(width), NumbersIn(width), Byte, width)
  BY <1>2, NumberEncoded
<1>6. Len(x) = Times(width, n)
  <2>1. CollectedHas(NumberEncoder(width), ns, width, n)
    BY <1>1, <1>5, CollectedLength, Zenon
  <2> QED
    BY <1>4, <2>1, Zenon DEF CollectedHas
<1> QED
  BY <1>1, <1>3, <1>4, <1>6

\* A list that is not empty comes back, whatever is behind it.
LEMMA NumbersRead ==
  ASSUME NEW prefix \in 1 .. 2, NEW width \in 1 .. 2,
         NEW ns \in Seq(NumbersIn(width)), ns # <<>>,
         Numbers(width, ns) \in Sized(prefix)
  PROVE  ListRead(ReadNumbers(prefix, width, Vector(prefix, Numbers(width, ns))), ns)
<1>0. prefix \in 1 .. 3 /\ width \in 1 .. 3
  OBVIOUS
<1>1. PICK x \in ByteString : x = Numbers(width, ns)
  BY NumbersLength
<1>2. PICK n \in Nat : n = Len(ns) /\ n # 0
  BY LenProperties, EmptySeq
<1>3. Len(x) = Times(width, n)
  BY <1>1, <1>2, NumbersLength
<1>4. Len(x) % width = 0 /\ Len(x) \div width = n /\ Len(x) # 0
  <2>1. CASE width = 1
    BY <1>2, <1>3, <2>1 DEF Times
  <2>2. CASE width = 2
    <3>1. (2 * n) % 2 = 0 /\ (2 * n) \div 2 = n /\ 2 * n # 0
      BY <1>2
    <3> QED
      BY <1>3, <2>2, <3>1 DEF Times
  <2> QED
    BY <2>1, <2>2
<1>5. PICK list : list = ReadVector(prefix, Vector(prefix, x))
  OBVIOUS
<1>6. list.ok /\ list.value = x
  <2>1. <<>> \in ByteString /\ Vector(prefix, x) \in ByteString
    BY <1>0, EmptySeq, VectorTyped DEF ByteString
  <2>2. HasRead(ReadVector(prefix, Vector(prefix, x) \o <<>>), x, <<>>)
    BY <1>0, <1>1, <2>1, ReadsVector, Zenon
  <2>3. Vector(prefix, x) \o <<>> = Vector(prefix, x)
    BY <2>1, ConcatEmptySeq DEF ByteString
  <2> QED
    BY <1>5, <2>2, <2>3, Zenon DEF HasRead
<1>7. PICK r : r = ReadNumbers(prefix, width, Vector(prefix, x))
  OBVIOUS
<1>8. PICK v : v = [i \in 1 .. Len(list.value) \div width |->
                     Value(SubSeq(list.value, width * (i - 1) + 1, width * i))]
  OBVIOUS
<1>9. r.ok /\ r.value = v
  <2>1. x # <<>>
    BY <1>4, EmptySeq
  <2>2. r = [ok    |-> list.ok /\ list.value # <<>> /\ Len(list.value) % width = 0,
             value |-> [i \in 1 .. Len(list.value) \div width |->
                          Value(SubSeq(list.value, width * (i - 1) + 1, width * i))]]
    BY <1>5, <1>7, Zenon DEF ReadNumbers
  <2>3. r = [ok    |-> list.ok /\ list.value # <<>> /\ Len(list.value) % width = 0,
             value |-> v]
    BY <1>8, <2>2, Zenon
  <2>4. PICK ok \in BOOLEAN : ok = (list.ok /\ list.value # <<>> /\ Len(list.value) % width = 0)
    <3>1. (list.ok /\ list.value # <<>> /\ Len(list.value) % width = 0) \in BOOLEAN
      OBVIOUS
    <3> QED
      BY <3>1, Zenon
  <2>5. r = [ok |-> ok, value |-> v]
    BY <2>3, <2>4, Zenon
  <2>6. ok
    BY <1>4, <1>6, <2>1, <2>4, Zenon
  <2> QED
    BY <2>5, <2>6
<1>10. ASSUME NEW i \in 1 .. n PROVE v[i] = ns[i]
  <2>1. NumberAt(x, width, i, ns[i])
    BY <1>1, <1>2, NumbersAt
  <2>2. PICK k \in NumbersIn(width) : k = ns[i]
    BY <1>2, ElementOfSeq
  <2>3. Denotes(Number(width, k), k)
    <3>1. k \in Nat /\ k < 256 ^ width
      BY DEF NumbersIn
    <3> QED
      BY <1>0, <3>1, NumberRead
  <2>4. v[i] = Value(SubSeq(x, width * (i - 1) + 1, width * i))
    <3>1. i \in 1 .. Len(list.value) \div width
      BY <1>4, <1>6, Zenon
    <3>2. v[i] = Value(SubSeq(list.value, width * (i - 1) + 1, width * i))
      BY <1>8, <3>1, Zenon
    <3> QED
      BY <1>6, <3>2, Zenon
  <2> QED
    BY <2>1, <2>2, <2>3, <2>4, Zenon DEF NumberAt, Denotes
<1>11. v = ns
  <2>1. ns = [i \in 1 .. n |-> ns[i]]
    BY <1>2
  <2>2. v = [i \in 1 .. n |-> v[i]]
    <3>1. v = [i \in 1 .. Len(list.value) \div width |-> v[i]]
      BY <1>8, Zenon
    <3> QED
      BY <1>4, <1>6, <3>1, Zenon
  <2> QED
    BY <1>10, <2>1, <2>2, Zenon
<1> QED
  BY <1>1, <1>7, <1>9, <1>11, Zenon DEF ListRead

-----------------------------------------------------------------------------
(* What the client puts into a hello, before it is known to fit.           *)

\* A sequence whose elements are in a set.
LEMMA ElementsOfSeq ==
  ASSUME NEW A, NEW B, NEW seq \in Seq(A), \A i \in 1 .. Len(seq) : seq[i] \in B
  PROVE  seq \in Seq(B)
<1>1. PICK n \in Nat : n = Len(seq)
  BY LenProperties
<1>2. seq \in [1 .. n -> B]
  <2>1. seq \in [1 .. n -> A]
    BY <1>1
  <2> QED
    BY <1>1, <2>1
<1> QED
  BY <1>2

\* A number and bytes of any length.
LongExtension == [type : Uint16, payload : ByteString]
LongEncoder   == [ext \in LongExtension |-> Pair(ext.type, ext.payload)]

LongShareEncoder == [share \in KeyShareEntry |-> Pair(share.group, share.data)]

\* Extensions and shares that need not fit are written as bytes.
LEMMA LongPairs ==
  /\ LongEncoder \in [LongExtension -> Seq(Byte)]
  /\ LongShareEncoder \in [KeyShareEntry -> Seq(Byte)]
<1>1. ASSUME NEW ext \in LongExtension PROVE Pair(ext.type, ext.payload) \in Seq(Byte)
  <2>1. ext.type \in Uint16 /\ ext.payload \in ByteString
    BY DEF LongExtension
  <2> QED
    BY <2>1, PairTyped DEF ByteString
<1>2. ASSUME NEW share \in KeyShareEntry PROVE Pair(share.group, share.data) \in Seq(Byte)
  <2>1. share.group \in Uint16 /\ share.data \in ByteString
    BY DEF KeyShareEntry, ByteString
  <2> QED
    BY <2>1, PairTyped DEF ByteString
<1> QED
  BY <1>1, <1>2 DEF LongEncoder, LongShareEncoder

\* A list of such extensions.
LEMMA LongExtensionsMarshalled ==
  ASSUME NEW exts \in Seq(LongExtension)
  PROVE  /\ MarshalExtensions(exts) \in ByteString
         /\ MarshalExtensions(exts) = Collected(LongEncoder, exts)
<1>1. ASSUME NEW i \in 1 .. Len(exts)
      PROVE  MarshalExtension(exts[i]) = LongEncoder[exts[i]]
  <2>1. exts[i] \in LongExtension
    BY ElementOfSeq
  <2> QED
    BY <2>1 DEF LongEncoder, MarshalExtension, Pair
<1>2. MarshalExtensions(exts) = Collected(LongEncoder, exts)
  BY <1>1, Zenon DEF MarshalExtensions, Collected
<1>3. Collected(LongEncoder, exts) \in Seq(Byte)
  BY LongPairs, CollectedType
<1> QED
  BY <1>2, <1>3 DEF ByteString

\* A list of such shares.
LEMMA LongSharesMarshalled ==
  ASSUME NEW shares \in Seq(KeyShareEntry)
  PROVE  /\ MarshalShares(shares) \in ByteString
         /\ MarshalShares(shares) = Collected(LongShareEncoder, shares)
<1>1. ASSUME NEW i \in 1 .. Len(shares)
      PROVE  MarshalKeyShare(shares[i]) = LongShareEncoder[shares[i]]
  <2>1. shares[i] \in KeyShareEntry
    BY ElementOfSeq
  <2> QED
    BY <2>1 DEF LongShareEncoder, MarshalKeyShare, Pair
<1>2. MarshalShares(shares) = Collected(LongShareEncoder, shares)
  BY <1>1, Zenon DEF MarshalShares, Collected
<1>3. Collected(LongShareEncoder, shares) \in Seq(Byte)
  BY LongPairs, CollectedType
<1> QED
  BY <1>2, <1>3 DEF ByteString

\* Bytes that are part of a sized whole are sized.
LEMMA PartFits ==
  ASSUME NEW n \in Uint16, NEW bytes \in ByteString, NEW whole \in Sized(2),
         Len(Pair(n, bytes)) <= Len(whole)
  PROVE  bytes \in Sized(2)
<1>1. PICK l \in Nat : l = Len(bytes)
  BY LenIsNat
<1>2. PICK k \in Nat : k = Len(whole) /\ k < 256 ^ 2
  BY SizedLength, LenIsNat
<1>3. 4 + l <= k
  BY <1>1, <1>2, PairTyped
<1>4. l < 256 ^ 2
  BY <1>2, <1>3
<1> QED
  BY <1>1, <1>4, SizedLength

\* Extensions fit if their list does.
LEMMA ExtensionsFit ==
  ASSUME NEW exts \in Seq(LongExtension), MarshalExtensions(exts) \in Sized(2)
  PROVE  exts \in Seq(Extension)
<1>1. ASSUME NEW i \in 1 .. Len(exts) PROVE exts[i] \in Extension
  <2>1. PICK ext \in LongExtension : ext = exts[i]
    BY ElementOfSeq
  <2>2. ext.type \in Uint16 /\ ext.payload \in ByteString
        /\ ext = [type |-> ext.type, payload |-> ext.payload]
    BY DEF LongExtension
  <2>3. Len(LongEncoder[ext]) <= Len(MarshalExtensions(exts))
    BY <2>1, LongPairs, LongExtensionsMarshalled, CollectedBound
  <2>4. LongEncoder[ext] = Pair(ext.type, ext.payload)
    BY DEF LongEncoder
  <2>5. ext.payload \in Sized(2)
    BY <2>2, <2>3, <2>4, PartFits
  <2> QED
    BY <2>1, <2>2, <2>5 DEF Extension
<1> QED
  BY <1>1, ElementsOfSeq

\* Shares fit if their list does.
LEMMA SharesFit ==
  ASSUME NEW shares \in Seq(KeyShareEntry), MarshalShares(shares) \in Sized(2)
  PROVE  shares \in Seq(SizedShare)
<1>1. ASSUME NEW i \in 1 .. Len(shares) PROVE shares[i] \in SizedShare
  <2>1. PICK share \in KeyShareEntry : share = shares[i]
    BY ElementOfSeq
  <2>2. share.group \in Uint16 /\ share.data \in ByteString
        /\ share = [group |-> share.group, data |-> share.data]
    BY DEF KeyShareEntry, ByteString
  <2>3. Len(LongShareEncoder[share]) <= Len(MarshalShares(shares))
    BY <2>1, LongPairs, LongSharesMarshalled, CollectedBound
  <2>4. LongShareEncoder[share] = Pair(share.group, share.data)
    BY DEF LongShareEncoder
  <2>5. share.data \in Sized(2)
    BY <2>2, <2>3, <2>4, PartFits
  <2> QED
    BY <2>1, <2>2, <2>5 DEF SizedShare
<1> QED
  BY <1>1, ElementsOfSeq

-----------------------------------------------------------------------------
(* The payloads of a hello.                                                *)

\* The numbers of one byte and of two.
LEMMA NumbersOfWidth == NumbersIn(1) = Byte /\ NumbersIn(2) = Uint16
<1>1. 256 ^ 1 = 256
  OBVIOUS
<1>2. NumbersIn(1) = Byte
  BY <1>1 DEF NumbersIn, Byte
<1>3. NumbersIn(2) = Uint16
  <2>1. ASSUME NEW n \in Nat PROVE n < 256 ^ 2 <=> n \in Uint16
    BY Uint16Is
  <2>2. Uint16 \subseteq Nat
    BY SMT DEF Uint16
  <2> QED
    BY <2>1, <2>2 DEF NumbersIn
<1> QED
  BY <1>2, <1>3

\* The extensions a client makes, and their payloads.
NameOffer(ext, p) ==
  /\ ext.type = ExtensionType.ServerName /\ ext.data \in ByteString
  /\ p = Vector(2, <<HostName>> \o Vector(2, ext.data))

VersionsOffer(ext, p) ==
  /\ ext.type = ExtensionType.SupportedVersions
  /\ ext.data \in Seq(Uint16) /\ Len(ext.data) \in 1 .. 127
  /\ p = Vector(1, Numbers(2, ext.data))

ListOffer(ext, p) ==
  /\ ext.type \in {ExtensionType.SupportedCurves, ExtensionType.SignatureAlgorithms}
  /\ ext.data \in Seq(Uint16) /\ ext.data # <<>>
  /\ p = Vector(2, Numbers(2, ext.data))

CookieOffer(ext, p) ==
  /\ ext.type = ExtensionType.Cookie
  /\ ext.data \in ByteString /\ ext.data # <<>>
  /\ p = Vector(2, ext.data)

ModesOffer(ext, p) ==
  /\ ext.type = ExtensionType.PSKKeyExchangeModes
  /\ ext.data \in Seq(Byte) /\ Len(ext.data) \in 1 .. 255
  /\ p = Vector(1, Numbers(1, ext.data))

SharesOffer(ext, p) ==
  /\ ext.type = ExtensionType.KeyShare
  /\ ext.data \in Seq(KeyShareEntry)
  /\ p = Vector(2, MarshalShares(ext.data))

\* The kinds of extension a client makes, each with its payload.
LEMMA OfferedKinds ==
  ASSUME NEW ext \in OfferedExtension, NEW p, p = MarshalPayload(ext.type, ext.data)
  PROVE  \/ NameOffer(ext, p) \/ VersionsOffer(ext, p) \/ ListOffer(ext, p)
         \/ CookieOffer(ext, p) \/ ModesOffer(ext, p) \/ SharesOffer(ext, p)
<1>1. CASE ext \in [type : {ExtensionType.ServerName}, data : Seq(Byte)]
  <2>1. ext.type = ExtensionType.ServerName /\ ext.data \in ByteString
    BY <1>1 DEF ByteString
  <2>2. p = Vector(2, <<HostName>> \o Vector(2, ext.data))
    BY <2>1 DEF MarshalPayload, ExtensionType
  <2> QED
    BY <2>1, <2>2 DEF NameOffer
<1>2. CASE ext \in [type : {ExtensionType.SupportedVersions},
                    data : {list \in Seq(Uint16) : Len(list) \in 1 .. 127}]
  <2>1. /\ ext.type = ExtensionType.SupportedVersions
        /\ ext.data \in Seq(Uint16) /\ Len(ext.data) \in 1 .. 127
    BY <1>2
  <2>2. p = Vector(1, Numbers(2, ext.data))
    BY <2>1 DEF MarshalPayload, ExtensionType
  <2> QED
    BY <2>1, <2>2 DEF VersionsOffer
<1>3. CASE ext \in [type : {ExtensionType.SupportedCurves, ExtensionType.SignatureAlgorithms},
                    data : {list \in Seq(Uint16) : list # <<>>}]
  <2>1. /\ ext.type \in {ExtensionType.SupportedCurves, ExtensionType.SignatureAlgorithms}
        /\ ext.data \in Seq(Uint16) /\ ext.data # <<>>
    BY <1>3
  <2>2. p = Vector(2, Numbers(2, ext.data))
    BY <2>1 DEF MarshalPayload, ExtensionType
  <2> QED
    BY <2>1, <2>2 DEF ListOffer
<1>4. CASE ext \in [type : {ExtensionType.Cookie}, data : {bytes \in Seq(Byte) : bytes # <<>>}]
  <2>1. /\ ext.type = ExtensionType.Cookie
        /\ ext.data \in ByteString /\ ext.data # <<>>
    BY <1>4 DEF ByteString
  <2>2. p = Vector(2, ext.data)
    BY <2>1 DEF MarshalPayload, ExtensionType
  <2> QED
    BY <2>1, <2>2 DEF CookieOffer
<1>5. CASE ext \in [type : {ExtensionType.PSKKeyExchangeModes},
                    data : {list \in Seq(Byte) : Len(list) \in 1 .. 255}]
  <2>1. /\ ext.type = ExtensionType.PSKKeyExchangeModes
        /\ ext.data \in Seq(Byte) /\ Len(ext.data) \in 1 .. 255
    BY <1>5
  <2>2. p = Vector(1, Numbers(1, ext.data))
    BY <2>1 DEF MarshalPayload, MarshalModes, ExtensionType
  <2> QED
    BY <2>1, <2>2 DEF ModesOffer
<1>6. CASE ext \in [type : {ExtensionType.KeyShare}, data : Seq(KeyShareEntry)]
  <2>1. ext.type = ExtensionType.KeyShare /\ ext.data \in Seq(KeyShareEntry)
    BY <1>6
  <2>2. p = Vector(2, MarshalShares(ext.data))
    BY <2>1 DEF MarshalPayload, MarshalShares, ExtensionType
  <2> QED
    BY <2>1, <2>2 DEF SharesOffer
<1> QED
  BY <1>1, <1>2, <1>3, <1>4, <1>5, <1>6 DEF OfferedExtension

\* Their types and payloads.
LEMMA OfferedTyped ==
  ASSUME NEW ext \in OfferedExtension
  PROVE  ext.type \in Uint16 /\ MarshalPayload(ext.type, ext.data) \in ByteString
<1>1. PICK p : p = MarshalPayload(ext.type, ext.data)
  OBVIOUS
<1>2. /\ 1 \in 1 .. 3 /\ 2 \in 1 .. 3 /\ 1 \in 1 .. 2 /\ 2 \in 1 .. 2
  OBVIOUS
<1>3. ext.type \in Uint16
  <2>1. ext.type \in {ExtensionType.ServerName, ExtensionType.SupportedVersions,
                     ExtensionType.SupportedCurves, ExtensionType.SignatureAlgorithms,
                     ExtensionType.Cookie, ExtensionType.PSKKeyExchangeModes,
                     ExtensionType.KeyShare}
    BY <1>1, OfferedKinds
      DEF NameOffer, VersionsOffer, ListOffer, CookieOffer, ModesOffer, SharesOffer
  <2>2. /\ 0 \in Uint16 /\ 43 \in Uint16 /\ 10 \in Uint16 /\ 13 \in Uint16
        /\ 44 \in Uint16 /\ 45 \in Uint16 /\ 51 \in Uint16
    BY SMT DEF Uint16
  <2>3. /\ ExtensionType.ServerName \in Uint16 /\ ExtensionType.SupportedVersions \in Uint16
        /\ ExtensionType.SupportedCurves \in Uint16
        /\ ExtensionType.SignatureAlgorithms \in Uint16
        /\ ExtensionType.Cookie \in Uint16 /\ ExtensionType.PSKKeyExchangeModes \in Uint16
        /\ ExtensionType.KeyShare \in Uint16
    BY <2>2 DEF ExtensionType
  <2> QED
    BY <2>1, <2>3, Zenon
<1>4. CASE NameOffer(ext, p)
  <2>1. ext.data \in ByteString
    BY <1>4 DEF NameOffer
  <2>2. PICK v \in ByteString : v = Vector(2, ext.data)
    BY <1>2, <2>1, VectorTyped
  <2>3. PICK b \in Byte : b = HostName
    BY DEF Byte, HostName
  <2>4. <<b>> \o v \in ByteString
    BY ByteInFront
  <2>5. Vector(2, <<b>> \o v) \in ByteString
    BY <1>2, <2>4, VectorTyped
  <2> QED
    BY <1>1, <1>3, <1>4, <2>2, <2>3, <2>5, Zenon DEF NameOffer
<1>5. CASE VersionsOffer(ext, p) \/ ListOffer(ext, p)
  <2>1. PICK list \in Seq(NumbersIn(2)) : list = ext.data
    BY <1>5, NumbersOfWidth DEF VersionsOffer, ListOffer
  <2>2. Numbers(2, list) \in ByteString
    BY <1>2, NumbersCollected DEF ByteString
  <2>3. Vector(1, Numbers(2, list)) \in ByteString /\ Vector(2, Numbers(2, list)) \in ByteString
    BY <1>2, <2>2, VectorTyped
  <2> QED
    BY <1>1, <1>3, <1>5, <2>1, <2>3, Zenon DEF VersionsOffer, ListOffer
<1>6. CASE CookieOffer(ext, p)
  BY <1>1, <1>2, <1>3, <1>6, VectorTyped DEF CookieOffer
<1>7. CASE ModesOffer(ext, p)
  <2>1. PICK list \in Seq(NumbersIn(1)) : list = ext.data
    BY <1>7, NumbersOfWidth DEF ModesOffer
  <2>2. Numbers(1, list) \in ByteString
    BY <1>2, NumbersCollected DEF ByteString
  <2>3. Vector(1, Numbers(1, list)) \in ByteString
    BY <1>2, <2>2, VectorTyped
  <2> QED
    BY <1>1, <1>3, <1>7, <2>1, <2>3, Zenon DEF ModesOffer
<1>8. CASE SharesOffer(ext, p)
  <2>1. ext.data \in Seq(KeyShareEntry) /\ p = Vector(2, MarshalShares(ext.data))
    BY <1>8 DEF SharesOffer
  <2>2. MarshalShares(ext.data) \in ByteString
    BY <2>1, LongSharesMarshalled
  <2> QED
    BY <1>1, <1>2, <1>3, <2>1, <2>2, VectorTyped
<1> QED
  BY <1>1, <1>4, <1>5, <1>6, <1>7, <1>8, OfferedKinds

OfferPayloads(exts) == [i \in 1 .. Len(exts) |-> NewExtension(exts[i].type, exts[i].data)]

PayloadsOf(exts, payloads) ==
  /\ Len(payloads) = Len(exts)
  /\ \A i \in 1 .. Len(exts) :
       /\ exts[i] \in OfferedExtension
       /\ payloads[i].type = exts[i].type
       /\ payloads[i].payload = MarshalPayload(exts[i].type, exts[i].data)

\* The payloads of a hello, extension by extension.
LEMMA PayloadsTyped ==
  ASSUME NEW exts \in Seq(OfferedExtension)
  PROVE  OfferPayloads(exts) \in Seq(LongExtension) /\ PayloadsOf(exts, OfferPayloads(exts))
<1>1. PICK n \in Nat : n = Len(exts)
  BY LenProperties
<1>2. PICK p : p = [i \in 1 .. n |-> NewExtension(exts[i].type, exts[i].data)]
  OBVIOUS
<1>3. ASSUME NEW i \in 1 .. n
      PROVE  /\ exts[i] \in OfferedExtension
             /\ p[i] \in LongExtension
             /\ p[i].type = exts[i].type
             /\ p[i].payload = MarshalPayload(exts[i].type, exts[i].data)
  <2>1. PICK ext \in OfferedExtension : ext = exts[i]
    BY <1>1, ElementOfSeq
  <2>2. p[i] = [type |-> ext.type, payload |-> MarshalPayload(ext.type, ext.data)]
    BY <1>2, <2>1, Zenon DEF NewExtension
  <2>3. ext.type \in Uint16 /\ MarshalPayload(ext.type, ext.data) \in ByteString
    BY OfferedTyped
  <2> QED
    BY <2>1, <2>2, <2>3 DEF LongExtension
<1>4. p \in [1 .. n -> LongExtension]
  BY <1>2, <1>3
<1>5. p \in Seq(LongExtension) /\ Len(p) = n
  BY <1>1, <1>4
<1>6. p = OfferPayloads(exts)
  BY <1>1, <1>2 DEF OfferPayloads
<1> QED
  BY <1>1, <1>3, <1>5, <1>6 DEF PayloadsOf

-----------------------------------------------------------------------------
(* The hello, as the server reads it.                                      *)

\* The extensions behind the fields, where there are any.
Behind(exts) == IF exts = <<>> THEN <<>> ELSE Vector(2, MarshalExtensions(exts))

TailRead(x, exts) ==
  LET extData == ReadVector(2, x)
  IN  extData.rest = <<>> /\ ListRead(UnmarshalExtensions(extData.value), exts)

\* The extensions behind the fields are read back.
LEMMA BehindRead ==
  ASSUME NEW exts \in Seq(Extension), MarshalExtensions(exts) \in Sized(2)
  PROVE  Behind(exts) \in ByteString /\ TailRead(Behind(exts), exts)
<1>0. 2 \in 1 .. 3
  OBVIOUS
<1>1. <<>> \in ByteString
  BY EmptySeq DEF ByteString
<1>2. CASE exts = <<>>
  <2>1. PICK x \in ByteString : x = <<>> /\ Behind(exts) = x /\ Len(x) = 0
    BY <1>1, <1>2, EmptySeq DEF Behind
  <2>2. PICK r : r = ReadVector(2, x)
    OBVIOUS
  <2>3. r.value = <<>> /\ r.rest = <<>>
    <3>1. Read(2, x) = [ok |-> FALSE, value |-> <<>>, rest |-> x]
      BY <2>1 DEF Read
    <3>2. r = [ok |-> FALSE, value |-> <<>>, rest |-> x]
      <4>1. PICK length : length = Read(2, x)
        OBVIOUS
      <4>2. ~length.ok /\ length = [ok |-> FALSE, value |-> <<>>, rest |-> x]
        BY <3>1, <4>1
      <4> QED
        BY <2>2, <4>1, <4>2, Zenon DEF ReadVector
    <3> QED
      BY <2>1, <3>2
  <2>4. ListRead(UnmarshalExtensions(MarshalExtensions(exts)), exts)
    BY ExtensionsRead, Zenon
  <2>5. MarshalExtensions(exts) = <<>>
    BY <1>2, NoExtensions
  <2> QED
    BY <1>1, <2>1, <2>2, <2>3, <2>4, <2>5, Zenon DEF TailRead
<1>3. CASE exts # <<>>
  <2>1. PICK m \in Sized(2) : m = MarshalExtensions(exts)
    OBVIOUS
  <2>2. PICK x \in ByteString : x = Vector(2, m)
    <3>1. m \in ByteString
      BY <1>0, SizedLength
    <3> QED
      BY <1>0, <3>1, VectorTyped
  <2>3. Behind(exts) = x
    BY <1>3, <2>1, <2>2, Zenon DEF Behind
  <2>4. HasRead(ReadVector(2, Vector(2, m) \o <<>>), m, <<>>)
    BY <1>0, <1>1, ReadsVector, Zenon
  <2>5. x \o <<>> = x
    BY ConcatEmptySeq DEF ByteString
  <2>6. ListRead(UnmarshalExtensions(MarshalExtensions(exts)), exts)
    BY ExtensionsRead, Zenon
  <2> QED
    BY <2>1, <2>2, <2>3, <2>4, <2>5, <2>6, Zenon DEF TailRead, HasRead
<1> QED
  BY <1>2, <1>3

\* The fields of a hello.
HelloBehind(random, suites, x) ==
  Fields(Number(2, TLSVersion.TLS12), random, Vector(1, <<>>),
         Vector(2, suites), Vector(1, <<0>>)) \o x

HelloSeen(fragment, suites, exts) ==
  LET seen == ReadClientHello(fragment)
  IN  /\ seen.suites = suites /\ seen.rest = <<>>
      /\ ListRead(seen.exts, exts)

\* The part of a hello from its session ID on.
FromSession(fragment, tail) ==
  SubSeq(fragment, HandshakeHeaderLen + 35, Len(fragment)) = tail

OfLengths(a, b, m, n) == Len(a) = m /\ Len(b) = n

\* The session ID is behind the header, the version and the random bytes.
LEMMA SessionPlace ==
  ASSUME NEW type \in Byte, NEW a \in ByteString, NEW b \in ByteString, OfLengths(a, b, 2, 32),
         NEW tail \in ByteString
  PROVE  FromSession(Framed(type, a \o (b \o tail)), tail)
<1>1. PICK t \in ByteString : t = <<type>> /\ Len(t) = 1
  <2>1. <<type>> \in Seq(Byte) /\ Len(<<type>>) = 1
    OBVIOUS
  <2> QED
    BY <2>1 DEF ByteString
<1>2. PICK ab \in ByteString : ab = a \o b /\ Len(ab) = Len(a) + Len(b)
  BY ConcatProperties DEF ByteString
<1>3. PICK w \in ByteString : w = ab \o tail
  BY ConcatProperties DEF ByteString
<1>4. a \o (b \o tail) = w
  <2>1. Associates(a, b, tail)
    BY JoinsInAnyOrder DEF ByteString
  <2> QED
    BY <1>2, <1>3, <2>1, Zenon DEF Associates
<1>5. PICK l \in Nat : l = Len(w)
  BY LenIsNat
<1>6. PICK n \in ByteString : n = Number(3, l) /\ Len(n) = 3
  BY NumberTyped DEF ByteString
<1>7. PICK h \in ByteString : h = t \o n /\ Len(h) = Len(t) + Len(n)
  BY ConcatProperties DEF ByteString
<1>8. Framed(type, w) = h \o w
  <2>1. Associates(t, n, w)
    BY JoinsInAnyOrder DEF ByteString
  <2>2. Framed(type, w) = t \o (n \o w)
    BY <1>1, <1>5, <1>6, Zenon DEF Framed, Vector
  <2> QED
    BY <1>7, <2>1, <2>2, Zenon DEF Associates
<1>9. PICK front \in ByteString : front = h \o ab /\ Len(front) = Len(h) + Len(ab)
  BY ConcatProperties DEF ByteString
<1>10. h \o w = front \o tail
  <2>1. Associates(h, ab, tail)
    BY JoinsInAnyOrder DEF ByteString
  <2> QED
    BY <1>3, <1>9, <2>1, Zenon DEF Associates
<1>11. SubSeq(front \o tail, Len(front) + 1, Len(front \o tail)) = tail
  BY PartsOfJoin DEF ByteString
<1>12. Len(front) + 1 = HandshakeHeaderLen + 35
  <2>1. PICK i \in Nat, j \in Nat : i = Len(a) /\ j = Len(b)
    BY LenIsNat
  <2>2. i = 2 /\ j = 32
    BY <2>1, Zenon DEF OfLengths
  <2>3. PICK k \in Nat, m \in Nat, o \in Nat, p \in Nat, q \in Nat :
          k = Len(t) /\ m = Len(n) /\ o = Len(h) /\ p = Len(ab) /\ q = Len(front)
    BY LenIsNat
  <2>4. k = 1 /\ m = 3
    BY <1>1, <1>6, <2>3, Zenon
  <2>5. o = k + m /\ p = i + j /\ q = o + p
    BY <1>2, <1>7, <1>9, <2>1, <2>3, Zenon
  <2>6. q + 1 = 39
    BY <2>2, <2>4, <2>5
  <2>7. HandshakeHeaderLen + 35 = 39
    BY DEF HandshakeHeaderLen
  <2> QED
    BY <2>3, <2>6, <2>7, Zenon
<1> QED
  BY <1>4, <1>8, <1>10, <1>11, <1>12, Zenon DEF FromSession

IsRandom(random) == random \in ByteString /\ Len(random) = 32

\* The constants of a hello fit.
LEMMA HelloParts ==
  /\ HandshakeType.ClientHello \in Byte /\ TLSVersion.TLS12 \in Uint16
  /\ <<>> \in Sized(1) /\ <<0>> \in Sized(1)
  /\ 1 \in 1 .. 3 /\ 2 \in 1 .. 3 /\ 3 \in 1 .. 3
<1>1. HandshakeType.ClientHello \in Byte
  BY DEF HandshakeType, Byte
<1>2. TLSVersion.TLS12 \in Uint16
  <2>1. 771 \in Uint16
    BY SMT DEF Uint16
  <2> QED
    BY <2>1 DEF TLSVersion
<1>3. <<>> \in Sized(1) /\ <<0>> \in ByteString
  BY EmptyVector
<1>4. <<0>> \in Sized(1)
  <2>1. Len(<<0>>) < 256 ^ 1
    OBVIOUS
  <2>2. 1 \in 1 .. 3
    OBVIOUS
  <2> QED
    BY <1>3, <2>1, <2>2, SizedLength, Zenon
<1> QED
  BY <1>1, <1>2, <1>3, <1>4

\* The server finds the suites and the extensions of a hello.
LEMMA HelloIsSeen ==
  ASSUME NEW random, IsRandom(random), NEW suites \in Sized(2),
         NEW exts \in Seq(Extension), MarshalExtensions(exts) \in Sized(2),
         NEW type, type = HandshakeType.ClientHello
  PROVE  HelloSeen(Framed(type, HelloBehind(random, suites, Behind(exts))), suites, exts)
<1>1. PICK x \in ByteString : x = Behind(exts) /\ TailRead(x, exts)
  BY BehindRead
<1>2. PICK a \in ByteString : a = Number(2, TLSVersion.TLS12) /\ Len(a) = 2
  BY HelloParts, NumberInBytes
<1>3. PICK none \in Sized(1), zero \in Sized(1) : none = <<>> /\ zero = <<0>>
  BY HelloParts
<1>4. none \in ByteString /\ zero \in ByteString /\ suites \in ByteString
  BY HelloParts, SizedLength
<1>5. PICK c \in ByteString, d \in ByteString, e \in ByteString :
        c = Vector(1, none) /\ d = Vector(2, suites) /\ e = Vector(1, zero)
  BY <1>4, HelloParts, VectorTyped
<1>6. PICK ex \in ByteString : ex = e \o x
  BY ConcatProperties DEF ByteString
<1>7. PICK dex \in ByteString : dex = d \o ex
  BY ConcatProperties DEF ByteString
<1>8. PICK tail \in ByteString : tail = c \o dex
  BY ConcatProperties DEF ByteString
<1>9. random \in ByteString /\ OfLengths(a, random, 2, 32)
  BY <1>2, Zenon DEF IsRandom, OfLengths
<1>10. HelloBehind(random, suites, x) = a \o (random \o tail)
  <2>1. FieldsJoin(a, random, c, d, e, x)
    BY <1>9, FieldsInAnyOrder
  <2> QED
    BY <1>2, <1>3, <1>5, <1>6, <1>7, <1>8, <2>1, Zenon DEF FieldsJoin, HelloBehind
<1>11. PICK f : f = Framed(type, HelloBehind(random, suites, x))
  OBVIOUS
<1>12. SubSeq(f, HandshakeHeaderLen + 35, Len(f)) = tail
  <2>1. type \in Byte
    BY HelloParts
  <2>2. FromSession(Framed(type, a \o (random \o tail)), tail)
    BY <1>9, <2>1, SessionPlace, Zenon
  <2> QED
    BY <1>10, <1>11, <2>2, Zenon DEF FromSession
<1>13. HasRead(ReadVector(1, tail), none, dex)
  BY <1>5, <1>8, HelloParts, ReadsVector, Zenon
<1>14. HasRead(ReadVector(2, dex), suites, ex)
  BY <1>5, <1>7, HelloParts, ReadsVector, Zenon
<1>15. HasRead(ReadVector(1, ex), zero, x)
  BY <1>5, <1>6, HelloParts, ReadsVector, Zenon
<1>16. PICK r : r = ReadVector(2, x)
  OBVIOUS
<1>17. PICK u : u = UnmarshalExtensions(r.value)
  OBVIOUS
<1>18. r.rest = <<>> /\ ListRead(u, exts)
  BY <1>1, <1>16, <1>17, Zenon DEF TailRead
<1>19. ReadClientHello(f) = [suites |-> suites, rest |-> r.rest, exts |-> u]
  <2>1. PICK sessionID : sessionID = ReadVector(1, tail)
    OBVIOUS
  <2>2. PICK list : list = ReadVector(2, sessionID.rest)
    OBVIOUS
  <2>3. PICK methods : methods = ReadVector(1, list.rest)
    OBVIOUS
  <2>4. sessionID.rest = dex
    BY <1>13, <2>1, Zenon DEF HasRead
  <2>5. list.value = suites /\ list.rest = ex
    BY <1>14, <2>2, <2>4, Zenon DEF HasRead
  <2>6. methods.rest = x
    BY <1>15, <2>3, <2>5, Zenon DEF HasRead
  <2>7. ReadClientHello(f) = [suites |-> list.value,
                              rest |-> ReadVector(2, methods.rest).rest,
                              exts |-> UnmarshalExtensions(ReadVector(2, methods.rest).value)]
    BY <1>12, <2>1, <2>2, <2>3, Zenon DEF ReadClientHello
  <2> QED
    BY <1>16, <1>17, <2>5, <2>6, <2>7, Zenon
<1>20. HelloSeen(f, suites, exts)
  <2>1. PICK seen : seen = ReadClientHello(f)
    OBVIOUS
  <2>2. seen.suites = suites /\ seen.rest = r.rest /\ seen.exts = u
    BY <1>19, <2>1
  <2> QED
    BY <1>18, <2>1, <2>2, Zenon DEF HelloSeen
<1> QED
  BY <1>1, <1>11, <1>20

\* The suites, as bytes.
TheSuites == Number(2, TLS_CHACHA20_POLY1305_SHA256)

\* The one suite fits.
LEMMA SuitesSized == TheSuites \in Sized(2)
<1>1. TLS_CHACHA20_POLY1305_SHA256 \in Uint16
  BY SMT DEF TLS_CHACHA20_POLY1305_SHA256, Uint16
<1>2. PICK s \in ByteString : s = TheSuites /\ Len(s) = 2
  BY <1>1, NumberInBytes DEF TheSuites
<1>3. Len(s) < 256 ^ 2
  BY <1>2
<1> QED
  BY <1>2, <1>3, HelloParts, SizedLength, Zenon

\* MarshalClientHello writes these parts (client_hello.go).
LEMMA HelloMarshalled ==
  ASSUME NEW random, NEW exts \in Seq(OfferedExtension)
  PROVE  MarshalClientHello(random, exts) = HelloBehind(random, TheSuites, Behind(OfferPayloads(exts)))
<1>1. PICK p \in Seq(LongExtension) : p = OfferPayloads(exts) /\ Len(p) = Len(exts)
  BY PayloadsTyped DEF PayloadsOf
<1>2. exts = <<>> <=> p = <<>>
  BY <1>1, EmptySeq
<1>3. (IF exts = <<>> THEN <<>> ELSE Vector(2, MarshalExtensions(p))) = Behind(p)
  BY <1>2, Zenon DEF Behind
<1> QED
  BY <1>1, <1>3, Zenon DEF MarshalClientHello, HelloBehind, Fields, TheSuites, OfferPayloads

\* A hello that fits a record has payloads that fit their lengths.
LEMMA HelloFits ==
  ASSUME NEW random, IsRandom(random), NEW exts \in Seq(OfferedExtension),
         NewClientHelloRecord(random, exts).ok
  PROVE  /\ OfferPayloads(exts) \in Seq(Extension)
         /\ MarshalExtensions(OfferPayloads(exts)) \in Sized(2)
<1>1. PICK p \in Seq(LongExtension) : p = OfferPayloads(exts)
  BY PayloadsTyped
<1>2. PICK m \in ByteString : m = MarshalExtensions(p)
  BY <1>1, LongExtensionsMarshalled
<1>3. PICK body : body = MarshalClientHello(random, exts)
  OBVIOUS
<1>4. PICK type \in Byte : type = HandshakeType.ClientHello
  BY HelloParts
<1>5. PICK f : f = Framed(type, body)
  OBVIOUS
<1>6. Len(f) <= MaxPayloadLen
  <2>1. PICK ok \in BOOLEAN : ok = (Len(f) <= MaxPayloadLen)
    <3>1. (Len(f) <= MaxPayloadLen) \in BOOLEAN
      OBVIOUS
    <3> QED
      BY <3>1, Zenon
  <2>2. NewClientHelloRecord(random, exts) = [ok |-> ok, fragment |-> f]
    BY <1>3, <1>4, <1>5, <2>1, Zenon DEF NewClientHelloRecord
  <2>3. ok
    BY <2>2
  <2> QED
    BY <2>1, <2>3, Zenon
<1>7. m \in Sized(2)
  <2>1. CASE p = <<>>
    <3>1. m = <<>> /\ <<>> \in ByteString /\ Len(<<>>) = 0
      BY <1>2, <2>1, NoExtensions, EmptySeq DEF ByteString
    <3>2. Len(m) < 256 ^ 2
      BY <3>1
    <3> QED
      BY <3>2, HelloParts, SizedLength, Zenon
  <2>2. CASE p # <<>>
    <3>1. PICK v \in ByteString : v = Vector(2, m) /\ Len(v) = 2 + Len(m)
      BY HelloParts, VectorTyped
    <3>2. Behind(p) = v
      BY <1>2, <2>2, <3>1, Zenon DEF Behind
    <3>3. PICK h \in ByteString : body = h \o v
      <4>1. PICK a \in ByteString : a = Number(2, TLSVersion.TLS12)
        BY HelloParts, NumberInBytes
      <4>2. <<>> \in ByteString /\ <<0>> \in ByteString /\ TheSuites \in ByteString
        BY HelloParts, SuitesSized, SizedLength
      <4>3. PICK c \in ByteString, d \in ByteString, e \in ByteString :
              c = Vector(1, <<>>) /\ d = Vector(2, TheSuites) /\ e = Vector(1, <<0>>)
        BY <4>2, HelloParts, VectorTyped
      <4>4. random \in ByteString
        BY DEF IsRandom
      <4>5. Fields(a, random, c, d, e) \in ByteString
        BY <4>4, FieldsInAnyOrder
      <4>6. body = HelloBehind(random, TheSuites, v)
        BY <1>1, <1>3, <3>2, HelloMarshalled
      <4>7. body = Fields(a, random, c, d, e) \o v
        BY <4>1, <4>3, <4>6, Zenon DEF HelloBehind
      <4> QED
        BY <4>5, <4>7
    <3>4. body \in ByteString /\ Len(body) = Len(h) + Len(v)
      BY <3>3, ConcatProperties DEF ByteString
    <3>5. PICK w \in ByteString : w = Vector(3, body) /\ Len(w) = 3 + Len(body)
      BY <3>4, HelloParts, VectorTyped
    <3>6. f = <<type>> \o w
      BY <1>5, <3>5, Zenon DEF Framed
    <3>7. Len(f) = Len(w) + 1
      BY <3>6, ByteInFront
    <3>8. PICK i \in Nat, j \in Nat, k \in Nat, l \in Nat, n \in Nat :
            i = Len(m) /\ j = Len(v) /\ k = Len(h) /\ l = Len(body) /\ n = Len(w)
      BY <3>4, LenIsNat
    <3>9. n + 1 <= 16384
      BY <1>6, <3>7, <3>8 DEF MaxPayloadLen
    <3>10. i < 256 ^ 2
      BY <3>1, <3>4, <3>5, <3>8, <3>9
    <3> QED
      BY <3>8, <3>10, HelloParts, SizedLength, Zenon
  <2> QED
    BY <2>1, <2>2
<1>8. p \in Seq(Extension)
  BY <1>2, <1>7, ExtensionsFit
<1> QED
  BY <1>1, <1>2, <1>7, <1>8

-----------------------------------------------------------------------------
(* The name of the server.                                                 *)

\* A function that is given at some places, and looks ahead at the others.
AheadAt(F, stop, base, next, i) == IF stop[i] THEN base[i] ELSE F[next[i]]

LooksAhead(F, stop, base, next, first, n) ==
  F = [i \in first .. n + 1 |-> AheadAt(F, stop, base, next, i)]

GoesAhead(stop, next, n) ==
  stop[n + 1] /\ \A i \in 1 .. n : stop[i] \/ next[i] \in i + 1 .. n + 1

\* A recursion over places that goes ahead has a solution.
LEMMA LookingAhead ==
  ASSUME NEW n \in Nat, NEW stop, NEW base, NEW next, GoesAhead(stop, next, n)
  PROVE  \E F : LooksAhead(F, stop, base, next, 1, n)
<1> DEFINE T == {k \in Nat : \E F : LooksAhead(F, stop, base, next, n + 1 - k, n)}
<1>1. 0 \in T
  <2> DEFINE F == [i \in n + 1 .. n + 1 |-> base[i]]
  <2>1. ASSUME NEW i \in n + 1 .. n + 1
        PROVE  (IF stop[i] THEN base[i] ELSE F[next[i]]) = base[i]
    <3>1. i = n + 1
      OBVIOUS
    <3>2. stop[i]
      BY <3>1, Zenon DEF GoesAhead
    <3> QED
      BY <3>2, Zenon
  <2>2. F = [i \in n + 1 .. n + 1 |-> IF stop[i] THEN base[i] ELSE F[next[i]]]
    BY <2>1, Zenon
  <2>3. n + 1 - 0 = n + 1
    OBVIOUS
  <2>4. LooksAhead(F, stop, base, next, n + 1 - 0, n)
    BY <2>2, <2>3, Zenon DEF LooksAhead, AheadAt
  <2> QED
    BY <2>4
<1>2. ASSUME NEW k \in 0 .. n - 1, k \in T PROVE k + 1 \in T
  <2>1. PICK F : LooksAhead(F, stop, base, next, n + 1 - k, n)
    BY <1>2
  <2>2. PICK from \in 1 .. n : from = n + 1 - (k + 1) /\ from + 1 = n + 1 - k
    <3>1. n + 1 - (k + 1) \in 1 .. n /\ (n + 1 - (k + 1)) + 1 = n + 1 - k
      OBVIOUS
    <3> QED
      BY <3>1
  <2>3. F = [i \in from + 1 .. n + 1 |-> IF stop[i] THEN base[i] ELSE F[next[i]]]
    BY <2>1, <2>2, Zenon DEF LooksAhead, AheadAt
  <2> DEFINE G == [i \in from .. n + 1 |->
                     IF stop[i] THEN base[i] ELSE F[next[i]]]
             H == [i \in from .. n + 1 |->
                     IF stop[i] THEN base[i] ELSE G[next[i]]]
  <2>4. ASSUME NEW j \in from + 1 .. n + 1 PROVE G[j] = F[j]
    <3>1. j \in from .. n + 1
      OBVIOUS
    <3>2. G[j] = IF stop[j] THEN base[j] ELSE F[next[j]]
      BY <3>1, Zenon
    <3>3. F[j] = IF stop[j] THEN base[j] ELSE F[next[j]]
      BY <2>3, Zenon
    <3> QED
      BY <3>2, <3>3, Zenon
  <2>5. ASSUME NEW i \in from .. n + 1 PROVE G[i] = H[i]
    <3>1. CASE stop[i]
      BY <3>1, Zenon
    <3>2. CASE ~stop[i]
      <4>1. i # n + 1
        BY <3>2, Zenon DEF GoesAhead
      <4>2. i \in 1 .. n
        BY <4>1
      <4>3. next[i] \in i + 1 .. n + 1
        BY <3>2, <4>2, Zenon DEF GoesAhead
      <4>4. next[i] \in from + 1 .. n + 1
        BY <4>3
      <4>5. G[next[i]] = F[next[i]]
        BY <2>4, <4>4, Zenon
      <4>6. G[i] = F[next[i]]
        BY <3>2, Zenon
      <4>7. H[i] = G[next[i]]
        BY <3>2, Zenon
      <4> QED
        BY <4>5, <4>6, <4>7, Zenon
    <3> QED
      BY <3>1, <3>2, Zenon
  <2>6. G = H
    <3>1. G = [i \in from .. n + 1 |-> G[i]]
      OBVIOUS
    <3>2. H = [i \in from .. n + 1 |-> H[i]]
      <4> HIDE DEF G
      <4> QED
        OBVIOUS
    <3> HIDE DEF G, H
    <3> QED
      BY <2>5, <3>1, <3>2, SameFunction, Zenon
  <2>7. LooksAhead(G, stop, base, next, from, n)
    BY <2>6, Zenon DEF LooksAhead, AheadAt
  <2> HIDE DEF G, H
  <2> QED
    BY <2>2, <2>7
<1>3. n \in T
  <2> HIDE DEF T
  <2>1. \A k \in 0 .. n : k \in T
    BY <1>1, <1>2, BoundedInduction
  <2> QED
    BY <2>1
<1>4. PICK F : LooksAhead(F, stop, base, next, n + 1 - n, n)
  BY <1>3
<1>5. n + 1 - n = 1
  OBVIOUS
<1> QED
  BY <1>4, <1>5, Zenon

\* What the parser makes of the names from every place on.
NameAt(F, bytes, n, i) ==
  LET one == ReadName(SubSeq(bytes, i, n))
  IN  IF i > n THEN [ok |-> TRUE, value |-> <<>>]
      ELSE IF ~one.ok THEN [ok |-> FALSE, value |-> <<>>]
      ELSE IF one.value.type = HostName
           THEN [ok    |-> \/ one.value.name = <<>>
                           \/ Last(one.value.name) # Dot,
                 value |-> one.value.name]
      ELSE F[n + 1 - Len(one.rest)]

NamesFrom(F, bytes, n) == F = [i \in 1 .. n + 1 |-> NameAt(F, bytes, n, i)]

\* The reader of a name takes at least one byte.
LEMMA NameConsumes ==
  ASSUME NEW b \in ByteString, ReadName(b).ok
  PROVE  ReadName(b).rest \in ByteString /\ Len(ReadName(b).rest) < Len(b)
<1>1. PICK type : type = Read(1, b)
  OBVIOUS
<1>2. PICK name : name = ReadVector(2, type.rest)
  OBVIOUS
<1>3. PICK ok \in BOOLEAN : ok = (type.ok /\ name.ok)
  <2>1. (type.ok /\ name.ok) \in BOOLEAN
    OBVIOUS
  <2> QED
    BY <2>1, Zenon
<1>4. PICK v : v = [type |-> Value(type.value), name |-> name.value]
  OBVIOUS
<1>5. ReadName(b) = [ok |-> ok, value |-> v, rest |-> name.rest]
  BY <1>1, <1>2, <1>3, <1>4, Zenon DEF ReadName
<1>6. ok /\ ReadName(b).rest = name.rest
  BY <1>5
<1>7. type.ok /\ name.ok
  BY <1>3, <1>6, Zenon
<1>8. PICK o \in Nat : o = 1
  OBVIOUS
<1>9. /\ type.value \in ByteString /\ type.rest \in ByteString /\ Len(type.value) = o
      /\ Joins(b, type.value, type.rest)
  BY <1>1, <1>7, <1>8, ReadSplits DEF IsRead
<1>10. /\ name.value \in ByteString /\ name.rest \in ByteString
       /\ SpelledVector(type.rest, 2, name)
  BY <1>2, <1>7, <1>9, HelloParts, ReadVectorSplits DEF IsRead
<1>11. PICK w \in ByteString : w = Vector(2, name.value)
  BY <1>10, HelloParts, VectorTyped
<1>12. type.rest = w \o name.rest
  BY <1>10, <1>11, Zenon DEF SpelledVector
<1>13. Len(type.rest) = Len(w) + Len(name.rest)
  BY <1>10, <1>12, ConcatProperties DEF ByteString
<1>14. Len(b) = Len(type.value) + Len(type.rest)
  BY <1>9, ConcatProperties DEF ByteString, Joins
<1>15. PICK i \in Nat, j \in Nat, k \in Nat, l \in Nat :
         i = Len(b) /\ j = Len(type.rest) /\ k = Len(w) /\ l = Len(name.rest)
  BY <1>9, <1>10, LenIsNat
<1>16. l < i
  BY <1>8, <1>9, <1>13, <1>14, <1>15
<1> QED
  BY <1>6, <1>10, <1>15, <1>16

\* The recursion in the parser of the server name has a solution.
LEMMA NamesFromExists ==
  ASSUME NEW bytes \in ByteString, NEW n, n = Len(bytes)
  PROVE  \E F : NamesFrom(F, bytes, n)
<1>1. n \in Nat
  BY LenIsNat
<1> DEFINE R == [i \in 1 .. n + 1 |-> ReadName(SubSeq(bytes, i, n))]
           stop == [i \in 1 .. n + 1 |->
                      i > n \/ ~R[i].ok \/ R[i].value.type = HostName]
           base == [i \in 1 .. n + 1 |->
                      IF i > n THEN [ok |-> TRUE, value |-> <<>>]
                      ELSE IF ~R[i].ok THEN [ok |-> FALSE, value |-> <<>>]
                      ELSE [ok    |-> \/ R[i].value.name = <<>>
                                      \/ Last(R[i].value.name) # Dot,
                            value |-> R[i].value.name]]
           next == [i \in 1 .. n + 1 |-> n + 1 - Len(R[i].rest)]
<1>2. ASSUME NEW i \in 1 .. n + 1 PROVE R[i] = ReadName(SubSeq(bytes, i, n))
  BY Zenon
<1>3. ASSUME NEW i \in 1 .. n + 1
      PROVE  stop[i] = (i > n \/ ~R[i].ok \/ R[i].value.type = HostName)
  <2> HIDE DEF R
  <2> QED
    BY Zenon
<1>4. ASSUME NEW i \in 1 .. n + 1
      PROVE  base[i] = IF i > n THEN [ok |-> TRUE, value |-> <<>>]
                       ELSE IF ~R[i].ok THEN [ok |-> FALSE, value |-> <<>>]
                       ELSE [ok    |-> \/ R[i].value.name = <<>>
                                       \/ Last(R[i].value.name) # Dot,
                             value |-> R[i].value.name]
  <2> HIDE DEF R
  <2> QED
    BY Zenon
<1>5. ASSUME NEW i \in 1 .. n + 1 PROVE next[i] = n + 1 - Len(R[i].rest)
  <2> HIDE DEF R
  <2> QED
    BY Zenon
<1> HIDE DEF R, stop, base, next
<1>6. GoesAhead(stop, next, n)
  <2>1. stop[n + 1]
    <3>1. n + 1 \in 1 .. n + 1 /\ n + 1 > n
      OBVIOUS
    <3> QED
      BY <1>3, <3>1, Zenon
  <2>2. ASSUME NEW i \in 1 .. n, ~stop[i] PROVE next[i] \in i + 1 .. n + 1
    <3>1. i \in 1 .. n + 1
      OBVIOUS
    <3>2. R[i].ok
      BY <1>3, <2>2, <3>1, Zenon
    <3>3. PICK b \in ByteString : b = SubSeq(bytes, i, n) /\ Len(b) = n + 1 - i
      BY <1>1, <3>1, SuffixTyped
    <3>4. R[i] = ReadName(b)
      BY <1>2, <3>1, <3>3, Zenon
    <3>5. PICK t \in ByteString : t = R[i].rest /\ Len(t) < Len(b)
      BY <3>2, <3>4, NameConsumes
    <3>6. PICK l \in Nat : l = Len(t) /\ next[i] = n + 1 - l
      BY <1>5, <3>1, <3>5, LenIsNat
    <3>7. l < n + 1 - i
      BY <3>3, <3>5, <3>6
    <3>8. n + 1 - l \in i + 1 .. n + 1
      BY <1>1, <3>6, <3>7
    <3> QED
      BY <3>6, <3>8, Zenon
  <2> QED
    BY <2>1, <2>2 DEF GoesAhead
<1>7. PICK F : LooksAhead(F, stop, base, next, 1, n)
  BY <1>6, LookingAhead
<1>8. ASSUME NEW i \in 1 .. n + 1
      PROVE  AheadAt(F, stop, base, next, i) = NameAt(F, bytes, n, i)
  BY <1>2, <1>3, <1>4, <1>5, Zenon DEF AheadAt, NameAt
<1>9. NamesFrom(F, bytes, n)
  BY <1>7, <1>8, Zenon DEF LooksAhead, NamesFrom
<1> QED
  BY <1>9

\* A vector comes back with nothing behind it.
LEMMA ReadsWhole ==
  ASSUME NEW width \in 1 .. 3, NEW front \in Sized(width)
  PROVE  HasRead(ReadVector(width, Vector(width, front)), front, <<>>)
<1>1. front \in ByteString /\ <<>> \in ByteString
  BY SizedLength, EmptySeq DEF ByteString
<1>2. Vector(width, front) \o <<>> = Vector(width, front)
  BY <1>1, VectorTyped, ConcatEmptySeq DEF ByteString
<1>3. HasRead(ReadVector(width, Vector(width, front) \o <<>>), front, <<>>)
  BY <1>1, ReadsVector, Zenon
<1> QED
  BY <1>2, <1>3, Zenon

\* What is behind a length that fits is sized.
LEMMA SizedInside ==
  ASSUME NEW front \in ByteString, NEW k \in Nat, NEW whole \in Sized(2),
         Len(whole) = k + Len(front)
  PROVE  front \in Sized(2)
<1>1. PICK l \in Nat, m \in Nat : l = Len(front) /\ m = Len(whole) /\ m < 256 ^ 2
  BY HelloParts, SizedLength, LenIsNat
<1>2. l < 256 ^ 2
  BY <1>1
<1> QED
  BY <1>1, <1>2, HelloParts, SizedLength, Zenon

NameOK(name) == name = <<>> \/ Last(name) # Dot

NameParsed(r, name) == (r.ok <=> NameOK(name)) /\ r.value = name

\* A name is read back, unless it ends in a dot (server_name 73-76).
LEMMA NameParses ==
  ASSUME NEW name \in ByteString, NEW p \in Sized(2),
         p = Vector(2, <<HostName>> \o Vector(2, name))
  PROVE  NameParsed(ParseServerName(p), name)
<1>1. PICK zero \in Byte : zero = HostName
  BY DEF HostName, Byte
<1>2. PICK v \in ByteString : v = Vector(2, name) /\ Len(v) = 2 + Len(name)
  BY HelloParts, VectorTyped
<1>3. PICK t \in ByteString : t = <<zero>> /\ Len(t) = 1 /\ Value(t) = zero
  BY ByteRead
<1>4. PICK body \in ByteString : body = t \o v /\ Len(body) = Len(t) + Len(v)
  BY ConcatProperties DEF ByteString
<1>5. p = Vector(2, body)
  BY <1>1, <1>2, <1>3, <1>4, Zenon
<1>6. Len(p) = 2 + Len(body)
  BY <1>5, HelloParts, VectorTyped
<1>7. body \in Sized(2)
  BY <1>6, SizedInside
<1>8. name \in Sized(2)
  <2>1. PICK l \in Nat, m \in Nat : l = Len(body) /\ m = Len(name)
    BY LenIsNat
  <2>2. Len(body) = 3 + Len(name)
    BY <1>2, <1>3, <1>4, <2>1
  <2> QED
    BY <1>7, <2>2, SizedInside
<1>9. PICK list : list = ReadVector(2, p)
  OBVIOUS
<1>10. list.ok /\ list.value = body
  BY <1>5, <1>7, <1>9, HelloParts, ReadsWhole, Zenon DEF HasRead
<1>11. PICK n \in Nat : n = Len(body) /\ n >= 1
  <2>1. PICK l \in Nat, m \in Nat : l = Len(t) /\ m = Len(v)
    BY LenIsNat
  <2>2. l + m \in Nat /\ l + m >= 1
    BY <1>3, <2>1
  <2> QED
    BY <1>4, <2>1, <2>2
<1>12. PICK F : F = CHOOSE G : NamesFrom(G, ReadVector(2, p).value,
                                          Len(ReadVector(2, p).value))
  OBVIOUS
<1>13. NamesFrom(F, body, n)
  <2>1. \E G : NamesFrom(G, body, n)
    BY <1>11, NamesFromExists
  <2>2. ReadVector(2, p).value = body /\ Len(ReadVector(2, p).value) = n
    BY <1>9, <1>10, <1>11, Zenon
  <2>3. \E G : NamesFrom(G, ReadVector(2, p).value, Len(ReadVector(2, p).value))
    BY <2>1, <2>2, Zenon
  <2>4. NamesFrom(F, ReadVector(2, p).value, Len(ReadVector(2, p).value))
    BY <1>12, <2>3, Zenon
  <2> QED
    BY <2>2, <2>4, Zenon
<1>14. ParseServerName(p) = F[1]
  <2>1. ReadVector(2, p).ok
    BY <1>9, <1>10, Zenon
  <2> QED
    BY <1>12, <2>1, Zenon DEF ParseServerName, NamesFrom, NameAt
<1>15. PICK one : one = ReadName(SubSeq(body, 1, n))
  OBVIOUS
<1>16. one.ok /\ one.value.type = HostName /\ one.value.name = name
  <2>1. SubSeq(body, 1, n) = body
    BY <1>11, WholeSuffix
  <2>2. HasRead(Read(1, t \o v), t, v)
    BY <1>3, ReadsFront
  <2>3. HasRead(ReadVector(2, v), name, <<>>)
    BY <1>2, <1>8, HelloParts, ReadsWhole, Zenon
  <2>4. PICK type : type = Read(1, body)
    OBVIOUS
  <2>5. type.ok /\ type.value = t /\ type.rest = v
    BY <1>4, <2>2, <2>4, Zenon DEF HasRead
  <2>6. PICK vector : vector = ReadVector(2, type.rest)
    OBVIOUS
  <2>7. vector.ok /\ vector.value = name
    BY <2>3, <2>5, <2>6, Zenon DEF HasRead
  <2>8. PICK x : x = [type |-> Value(type.value), name |-> vector.value]
    OBVIOUS
  <2>9. x.type = HostName /\ x.name = name
    BY <1>1, <1>3, <2>5, <2>7, <2>8
  <2>10. PICK ok \in BOOLEAN : ok = (type.ok /\ vector.ok)
    <3>1. (type.ok /\ vector.ok) \in BOOLEAN
      OBVIOUS
    <3> QED
      BY <3>1, Zenon
  <2>11. one = [ok |-> ok, value |-> x, rest |-> vector.rest]
    BY <1>15, <2>1, <2>4, <2>6, <2>8, <2>10, Zenon DEF ReadName
  <2>12. ok
    BY <2>5, <2>7, <2>10, Zenon
  <2> QED
    BY <2>9, <2>11, <2>12
<1>17. F[1] = NameAt(F, body, n, 1)
  <2>1. 1 \in 1 .. n + 1
    BY <1>11
  <2> QED
    BY <1>13, <2>1, Zenon DEF NamesFrom
<1>18. PICK ok \in BOOLEAN : ok = NameOK(name)
  <2>1. NameOK(name) \in BOOLEAN
    BY DEF NameOK
  <2> QED
    BY <2>1, Zenon
<1>19. NameAt(F, body, n, 1) = [ok |-> ok, value |-> name]
  <2>1. ~(1 > n)
    BY <1>11
  <2> QED
    BY <1>15, <1>16, <1>18, <2>1, Zenon DEF NameAt, NameOK
<1>20. ParseServerName(p).ok = ok /\ ParseServerName(p).value = name
  BY <1>14, <1>17, <1>19
<1> QED
  BY <1>18, <1>20, Zenon DEF NameParsed

-----------------------------------------------------------------------------
(* What the server finds in a payload.                                     *)

PayloadParsed(r, ext) ==
  /\ r.ok <=> ~EndsInDot(ext)
  /\ r.ok => r.value = ext.data

\* A list of numbers behind a length is read back.
LEMMA NumbersParse ==
  ASSUME NEW prefix \in 1 .. 2, NEW width \in 1 .. 2, NEW ns, ns # <<>>,
         ns \in Seq(NumbersIn(width)),
         NEW x, x = Numbers(width, ns), x \in Sized(prefix),
         NEW r, r = ReadNumbers(prefix, width, Vector(prefix, x))
  PROVE  ListRead(r, ns)
<1>1. ListRead(ReadNumbers(prefix, width, Vector(prefix, Numbers(width, ns))), ns)
  BY NumbersRead, Zenon
<1> QED
  BY <1>1, Zenon

\* A list of numbers that fits the length of its prefix.
LEMMA ShortNumbers ==
  ASSUME NEW width \in 1 .. 2, NEW ns \in Seq(NumbersIn(width)),
         NEW n \in Nat, n = Len(ns), Times(width, n) < 256
  PROVE  Numbers(width, ns) \in Sized(1)
<1>1. Numbers(width, ns) \in ByteString /\ Len(Numbers(width, ns)) = Times(width, n)
  BY NumbersLength, Zenon
<1>2. 256 ^ 1 = 256
  OBVIOUS
<1>3. Len(Numbers(width, ns)) < 256 ^ 1
  <2>1. PICK k : k = Times(width, n)
    OBVIOUS
  <2>2. k < 256 ^ 1
    BY <1>2, <2>1
  <2> QED
    BY <1>1, <2>1, <2>2, Zenon
<1> QED
  BY <1>1, <1>3, HelloParts, SizedLength, Zenon

\* A list of numbers fits if its vector does.
LEMMA LongNumbers ==
  ASSUME NEW ns \in Seq(NumbersIn(2)), Vector(2, Numbers(2, ns)) \in Sized(2)
  PROVE  Numbers(2, ns) \in Sized(2)
<1>0. 2 \in 1 .. 2
  OBVIOUS
<1>1. PICK x \in ByteString : x = Numbers(2, ns)
  BY <1>0, NumbersLength
<1>2. Len(Vector(2, x)) = 2 + Len(x)
  BY HelloParts, VectorTyped
<1> QED
  BY <1>1, <1>2, SizedInside

\* The parser of an extension is chosen by its type.
LEMMA ParserOfType ==
  ASSUME NEW p
  PROVE  /\ ParsePayload(ExtensionType.ServerName, p) = ParseServerName(p)
         /\ ParsePayload(ExtensionType.SupportedVersions, p) = ParseSupportedVersionsClient(p)
         /\ ParsePayload(ExtensionType.Cookie, p) = ParseCookie(p)
         /\ ParsePayload(ExtensionType.PSKKeyExchangeModes, p) = ParsePSKKeyExchangeModes(p)
         /\ ParsePayload(ExtensionType.KeyShare, p) = ParseKeyShareClient(p)
<1>1. ParsePayload(ExtensionType.ServerName, p) = ParseServerName(p)
  BY DEF ParsePayload, ExtensionType
<1>2. ParsePayload(ExtensionType.SupportedVersions, p) = ParseSupportedVersionsClient(p)
  BY DEF ParsePayload, ExtensionType
<1>3. ParsePayload(ExtensionType.Cookie, p) = ParseCookie(p)
  BY DEF ParsePayload, ExtensionType
<1>4. ParsePayload(ExtensionType.PSKKeyExchangeModes, p) = ParsePSKKeyExchangeModes(p)
  BY DEF ParsePayload, ExtensionType
<1>5. ParsePayload(ExtensionType.KeyShare, p) = ParseKeyShareClient(p)
  BY DEF ParsePayload, ExtensionType
<1> QED
  BY <1>1, <1>2, <1>3, <1>4, <1>5, Zenon

\* The parser of each extension finds what the client has put there.
LEMMA PayloadSurvives ==
  ASSUME NEW ext \in OfferedExtension, NEW p, p = MarshalPayload(ext.type, ext.data),
         p \in Sized(2)
  PROVE  PayloadParsed(ParsePayload(ext.type, p), ext)
<1>1. PICK r : r = ParsePayload(ext.type, p)
  OBVIOUS
<1>2. /\ 1 \in 1 .. 2 /\ 2 \in 1 .. 2
  OBVIOUS
<1>3. ASSUME ext.type # ExtensionType.ServerName, ListRead(r, ext.data)
      PROVE  PayloadParsed(r, ext)
  BY <1>3 DEF PayloadParsed, ListRead, EndsInDot
<1>4. CASE NameOffer(ext, p)
  <2>1. r = ParseServerName(p)
    BY <1>1, <1>4, ParserOfType, Zenon DEF NameOffer
  <2>2. NameParsed(r, ext.data)
    BY <1>4, <2>1, NameParses, Zenon DEF NameOffer
  <2>3. NameOK(ext.data) <=> ~EndsInDot(ext)
    BY <1>4, Zenon DEF NameOffer, NameOK, EndsInDot
  <2> QED
    BY <1>1, <2>2, <2>3, Zenon DEF NameParsed, PayloadParsed
<1>5. CASE VersionsOffer(ext, p)
  <2>1. r = ReadNumbers(1, 2, p)
    BY <1>1, <1>5, ParserOfType, Zenon DEF VersionsOffer, ParseSupportedVersionsClient
  <2>2. PICK ns \in Seq(NumbersIn(2)) : ns = ext.data
    BY <1>5, NumbersOfWidth DEF VersionsOffer
  <2>3. PICK n \in 1 .. 127 : n = Len(ns)
    BY <1>5, <2>2 DEF VersionsOffer
  <2>4. ns # <<>> /\ Times(2, n) < 256 /\ n \in Nat
    <3>1. n \in Nat /\ n # 0 /\ 2 * n < 256
      OBVIOUS
    <3>2. Times(2, n) = 2 * n
      BY DEF Times
    <3>3. ns # <<>>
      BY <2>3, <3>1, EmptySeq
    <3> QED
      BY <3>1, <3>2, <3>3, Zenon
  <2>5. Numbers(2, ns) \in Sized(1)
    BY <1>2, <2>3, <2>4, ShortNumbers
  <2>6. p = Vector(1, Numbers(2, ns))
    BY <1>5, <2>2, Zenon DEF VersionsOffer
  <2>7. ListRead(r, ns)
    BY <1>2, <2>1, <2>4, <2>5, <2>6, NumbersParse, Zenon
  <2>8. ext.type # ExtensionType.ServerName
    BY <1>5 DEF VersionsOffer, ExtensionType
  <2> QED
    BY <1>1, <1>3, <2>2, <2>7, <2>8, Zenon
<1>6. CASE ListOffer(ext, p)
  <2>1. r = ReadNumbers(2, 2, p)
    BY <1>1, <1>6 DEF ParsePayload, ListOffer, ExtensionType, ParseSupportedCurves,
                      ParseSignatureAlgorithms
  <2>2. PICK ns \in Seq(NumbersIn(2)) : ns = ext.data /\ ns # <<>>
    BY <1>6, NumbersOfWidth DEF ListOffer
  <2>3. p = Vector(2, Numbers(2, ns))
    BY <1>6, <2>2, Zenon DEF ListOffer
  <2>4. Numbers(2, ns) \in Sized(2)
    BY <2>3, LongNumbers
  <2>5. ListRead(r, ns)
    BY <1>2, <2>1, <2>2, <2>3, <2>4, NumbersParse, Zenon
  <2>6. ext.type # ExtensionType.ServerName
    BY <1>6 DEF ListOffer, ExtensionType
  <2> QED
    BY <1>1, <1>3, <2>2, <2>5, <2>6, Zenon
<1>7. CASE CookieOffer(ext, p)
  <2>1. r = ParseCookie(p)
    BY <1>1, <1>7, ParserOfType, Zenon DEF CookieOffer
  <2>2. PICK data \in ByteString : data = ext.data /\ data # <<>> /\ p = Vector(2, data)
    BY <1>7, Zenon DEF CookieOffer
  <2>3. data \in Sized(2)
    <3>1. Len(Vector(2, data)) = 2 + Len(data)
      BY HelloParts, VectorTyped
    <3>2. Vector(2, data) \in Sized(2)
      BY <2>2, Zenon
    <3> QED
      BY <3>1, <3>2, SizedInside
  <2>4. PICK cookie : cookie = ReadVector(2, p)
    OBVIOUS
  <2>5. cookie.ok /\ cookie.value = data /\ cookie.rest = <<>>
    <3>1. HasRead(ReadVector(2, Vector(2, data)), data, <<>>)
      BY <2>3, HelloParts, ReadsWhole, Zenon
    <3> QED
      BY <2>2, <2>4, <3>1, Zenon DEF HasRead
  <2>6. PICK ok \in BOOLEAN : ok = (cookie.ok /\ cookie.value # <<>> /\ cookie.rest = <<>>)
    <3>1. (cookie.ok /\ cookie.value # <<>> /\ cookie.rest = <<>>) \in BOOLEAN
      OBVIOUS
    <3> QED
      BY <3>1, Zenon
  <2>7. r = [ok |-> ok, value |-> cookie.value]
    BY <2>1, <2>4, <2>6, Zenon DEF ParseCookie
  <2>8. ok
    BY <2>2, <2>5, <2>6, Zenon
  <2>9. ListRead(r, data)
    BY <2>5, <2>7, <2>8 DEF ListRead
  <2>10. ext.type # ExtensionType.ServerName
    BY <1>7 DEF CookieOffer, ExtensionType
  <2> QED
    BY <1>1, <1>3, <2>2, <2>9, <2>10, Zenon
<1>8. CASE ModesOffer(ext, p)
  <2>1. r = ReadNumbers(1, 1, p)
    BY <1>1, <1>8, ParserOfType, Zenon DEF ModesOffer, ParsePSKKeyExchangeModes
  <2>2. PICK ns \in Seq(NumbersIn(1)) : ns = ext.data
    BY <1>8, NumbersOfWidth DEF ModesOffer
  <2>3. PICK n \in 1 .. 255 : n = Len(ns)
    BY <1>8, <2>2 DEF ModesOffer
  <2>4. ns # <<>> /\ Times(1, n) < 256 /\ n \in Nat
    <3>1. n \in Nat /\ n # 0 /\ n < 256
      OBVIOUS
    <3>2. Times(1, n) = n
      BY DEF Times
    <3>3. ns # <<>>
      BY <2>3, <3>1, EmptySeq
    <3> QED
      BY <3>1, <3>2, <3>3, Zenon
  <2>5. Numbers(1, ns) \in Sized(1)
    BY <1>2, <2>3, <2>4, ShortNumbers
  <2>6. p = Vector(1, Numbers(1, ns))
    BY <1>8, <2>2, Zenon DEF ModesOffer
  <2>7. ListRead(r, ns)
    BY <1>2, <2>1, <2>4, <2>5, <2>6, NumbersParse, Zenon
  <2>8. ext.type # ExtensionType.ServerName
    BY <1>8 DEF ModesOffer, ExtensionType
  <2> QED
    BY <1>1, <1>3, <2>2, <2>7, <2>8, Zenon
<1>9. CASE SharesOffer(ext, p)
  <2>1. r = ParseKeyShareClient(p)
    BY <1>1, <1>9, ParserOfType, Zenon DEF SharesOffer
  <2>2. PICK shares \in Seq(KeyShareEntry) :
          shares = ext.data /\ p = Vector(2, MarshalShares(shares))
    BY <1>9, Zenon DEF SharesOffer
  <2>3. PICK m \in ByteString : m = MarshalShares(shares)
    BY LongSharesMarshalled
  <2>4. m \in Sized(2)
    BY <2>2, <2>3, HelloParts, VectorTyped, SizedInside
  <2>5. shares \in Seq(SizedShare)
    BY <2>3, <2>4, SharesFit
  <2>6. ListRead(ReadAll(ReadKeyShare, MarshalShares(shares)), shares)
    BY <2>5, SharesRead, Zenon
  <2>7. PICK list : list = ReadVector(2, p)
    OBVIOUS
  <2>8. list.ok /\ list.value = m
    BY <2>2, <2>3, <2>4, <2>7, HelloParts, ReadsWhole, Zenon DEF HasRead
  <2>9. r = ReadAll(ReadKeyShare, list.value)
    BY <2>1, <2>7, <2>8, Zenon DEF ParseKeyShareClient
  <2>10. ListRead(r, shares)
    BY <2>3, <2>6, <2>8, <2>9, Zenon
  <2>11. ext.type # ExtensionType.ServerName
    BY <1>9 DEF SharesOffer, ExtensionType
  <2> QED
    BY <1>1, <1>3, <2>2, <2>10, <2>11, Zenon
<1> QED
  BY <1>1, <1>4, <1>5, <1>6, <1>7, <1>8, <1>9, OfferedKinds, Zenon

-----------------------------------------------------------------------------
(* A hello that has been made.                                             *)

\* What the server reads in it.
HelloHolds(exts, fragment) ==
  /\ exts \in Seq(OfferedExtension) /\ ~Duplicate(exts)
  /\ OfferPayloads(exts) \in Seq(Extension) /\ PayloadsOf(exts, OfferPayloads(exts))
  /\ HelloSeen(fragment, TheSuites, OfferPayloads(exts))

\* A hello that fits its record holds the offer.
LEMMA HelloOf ==
  ASSUME NEW exts \in Offers, NewClientHelloRecord(Random, exts).ok
  PROVE  HelloHolds(exts, NewClientHelloRecord(Random, exts).fragment)
<1>1. exts \in Seq(OfferedExtension) /\ ~Duplicate(exts)
  BY MessagesAssumption, Zenon
<1>2. IsRandom(Random)
  BY MessagesAssumption, Zenon DEF IsRandom, ByteString
<1>3. PICK p \in Seq(Extension) : p = OfferPayloads(exts) /\ MarshalExtensions(p) \in Sized(2)
  BY <1>1, <1>2, HelloFits
<1>4. PayloadsOf(exts, p)
  BY <1>1, <1>3, PayloadsTyped
<1>5. PICK type : type = HandshakeType.ClientHello
  OBVIOUS
<1>6. MarshalClientHello(Random, exts) = HelloBehind(Random, TheSuites, Behind(p))
  BY <1>1, <1>3, HelloMarshalled
<1>7. PICK f : f = Framed(type, HelloBehind(Random, TheSuites, Behind(p)))
  OBVIOUS
<1>8. HelloSeen(f, TheSuites, p)
  BY <1>2, <1>3, <1>5, <1>7, SuitesSized, HelloIsSeen
<1>9. NewClientHelloRecord(Random, exts).fragment = f
  <2>1. NewClientHelloRecord(Random, exts)
          = [ok |-> Len(f) <= MaxPayloadLen, fragment |-> f]
    BY <1>5, <1>6, <1>7, Zenon DEF NewClientHelloRecord
  <2> QED
    BY <2>1
<1> QED
  BY <1>1, <1>3, <1>4, <1>8, <1>9, Zenon DEF HelloHolds

\* The hello of a client that has sent it holds the offer.
LEMMA HelloInUse ==
  ASSUME UseInv, pc = "answer" \/ sender # "none"
  PROVE  HelloHolds(offer, hello.fragment)
<1>1. offer \in Offers /\ hello.ok
  BY DEF UseInv
<1>2. pc # "hello"
  BY DEF UseInv, ReadInv
<1>3. hello = NewClientHelloRecord(Random, offer)
  BY <1>2, Zenon DEF UseInv
<1> QED
  BY <1>1, <1>3, HelloOf

\* An extension of it, as the server finds it.
Found(exts, i, one) ==
  LET parsed == ParsePayload(exts[i].type, one.payload)
  IN  one.type = exts[i].type /\ PayloadParsed(parsed, exts[i])

\* An extension of the offer is found at its place.
LEMMA ExtensionFound ==
  ASSUME NEW exts \in Seq(OfferedExtension), NEW p \in Seq(Extension), PayloadsOf(exts, p),
         NEW i \in 1 .. Len(exts)
  PROVE  Found(exts, i, p[i])
<1>1. PICK ext \in OfferedExtension : ext = exts[i]
  BY ElementOfSeq
<1>2. i \in 1 .. Len(p)
  BY Zenon DEF PayloadsOf
<1>3. PICK one \in Extension : one = p[i]
  BY <1>2, ElementOfSeq
<1>4. one.payload \in Sized(2)
  BY DEF Extension
<1>5. one.type = ext.type /\ one.payload = MarshalPayload(ext.type, ext.data)
  BY <1>1, <1>3, Zenon DEF PayloadsOf
<1>6. PayloadParsed(ParsePayload(ext.type, one.payload), ext)
  BY <1>4, <1>5, PayloadSurvives
<1> QED
  BY <1>1, <1>3, <1>5, <1>6, Zenon DEF Found

\* The server finds the offer in the hello.
LEMMA UseInvOffer == UseInv => OfferSurvives
<1> SUFFICES ASSUME UseInv, pc = "answer" PROVE OfferSurvives
  BY DEF OfferSurvives
<1>1. HelloHolds(offer, hello.fragment)
  BY HelloInUse
<1>2. PICK p \in Seq(Extension) : p = OfferPayloads(offer)
  BY <1>1 DEF HelloHolds
<1>3. offer \in Seq(OfferedExtension) /\ PayloadsOf(offer, p)
  BY <1>1, <1>2, Zenon DEF HelloHolds
<1>4. PICK seen : seen = ReadClientHello(hello.fragment)
  OBVIOUS
<1>5. /\ seen.suites = TheSuites /\ seen.rest = <<>>
      /\ seen.exts.ok /\ seen.exts.value = p
  BY <1>1, <1>2, <1>4, Zenon DEF HelloHolds, HelloSeen, ListRead
<1>6. Len(seen.exts.value) = Len(offer)
  BY <1>3, <1>5, Zenon DEF PayloadsOf
<1>7. ASSUME NEW i \in 1 .. Len(offer)
      PROVE  LET ext    == seen.exts.value[i]
                 parsed == ParsePayload(offer[i].type, ext.payload)
             IN  /\ ext.type = offer[i].type
                 /\ parsed.ok <=> ~EndsInDot(offer[i])
                 /\ parsed.ok => parsed.value = offer[i].data
  <2>1. Found(offer, i, p[i])
    BY <1>3, ExtensionFound
  <2> QED
    BY <1>5, <2>1, Zenon DEF Found, PayloadParsed
<1> QED
  BY <1>4, <1>5, <1>6, <1>7, Zenon DEF OfferSurvives, TheSuites

\* The server finds in every hello that is sent what the client has put there,
\* extension by extension, with nothing behind them; the parsers refuse only
\* a name that ends in a dot (client_hello.go 41-67).
THEOREM OfferAlwaysSurvives == Spec => []OfferSurvives
BY UseInvariant, UseInvOffer, PTL

-----------------------------------------------------------------------------
(* What the client goes on with is the server's.                           *)

\* A message of the server that has been read.
LEMMA AnswerRead ==
  ASSUME UseInv, FromServer, read.outcome = "ok"
  PROVE  /\ sent.type \in AnswerType /\ sent.message \in MessageOf(sent.type)
         /\ sent.whole => read.value = sent.message
         /\ \E x \in Arrived :
              /\ ReadsAs(sent.type, x, read)
              /\ \A m \in MessageOf(sent.type) :
                   x = Encode(sent.type, m) => ReadsBack(sent.type, m, read)
<1>1. AnswerArrives /\ read = Unmarshal(sent.type, wire)
  BY DEF UseInv, ReadInv, FromServer
<1>2. PICK x \in Arrived :
        wire = Framed(sent.type, x) /\ (sent.whole => x = Encode(sent.type, sent.message))
  BY <1>1, Zenon DEF AnswerArrives
<1>3. sent.type \in AnswerType /\ sent.message \in MessageOf(sent.type)
  BY <1>1, Zenon DEF AnswerArrives
<1>4. /\ ReadsAs(sent.type, x, read)
      /\ \A m \in MessageOf(sent.type) :
           x = Encode(sent.type, m) => ReadsBack(sent.type, m, read)
  BY <1>1, <1>2, <1>3, AnswersExact, Zenon
<1> QED
  BY <1>2, <1>3, <1>4, Zenon DEF ReadsBack

\* A ServerHello that is read has no extension twice.
LEMMA HelloReadOnce ==
  ASSUME NEW type, type = HandshakeType.ServerHello,
         NEW x \in Arrived, NEW r, r.outcome = "ok", ReadsAs(type, x, r),
         \A m \in MessageOf(type) : x = Encode(type, m) => ReadsBack(type, m, r)
  PROVE  r.value \in ServerHelloFields /\ ~Duplicate(r.value.extensions)
<1>1. PICK m \in MessageOf(type) : m = r.value
  BY DEF ReadsAs
<1>2. m \in ServerHelloFields
  BY DEF MessageOf, HandshakeType
<1>3. CASE m.extensions = <<>>
  <2>1. ASSUME NEW exts, exts = <<>> PROVE ~Duplicate(exts)
    BY <2>1 DEF Duplicate
  <2> QED
    BY <1>1, <1>2, <1>3, <2>1, Zenon
<1>4. CASE m.extensions # <<>>
  <2>1. Encodings(type, m) = {Encode(type, m)}
    BY <1>4, Zenon DEF Encodings
  <2>2. type # HandshakeType.EncryptedExtensions
    BY DEF HandshakeType
  <2>3. r.rest = <<>>
    BY <2>2, Zenon DEF ReadsAs
  <2>4. Joins(x, Encode(type, m), <<>>)
    BY <1>1, <2>1, <2>3, Zenon DEF ReadsAs
  <2>5. Encode(type, m) \in ByteString
    <3>1. type \in AnswerType
      BY AnswerTypes
    <3> QED
      BY <3>1, EncodeTyped, Zenon
  <2>6. x = Encode(type, m)
    BY <2>4, <2>5, NothingJoins DEF ByteString
  <2>7. Legal(type, m)
    BY <2>6, Zenon DEF ReadsBack
  <2>8. ~Duplicate(m.extensions)
    BY <2>7 DEF Legal, HandshakeType
  <2> QED
    BY <1>1, <1>2, <2>8, Zenon
<1> QED
  BY <1>3, <1>4

\* A secret is derived from the one share of the hello (server_hello.go
\* 121-136).
LEMMA SecretIsTheServers ==
  ASSUME UseInv, FromServer, pc = "done", read.outcome = "ok",
         sent.type = HandshakeType.ServerHello, accepted # Nothing
  PROVE  \E i \in Shares(read.value.extensions) :
           OneShare(read.value.extensions, i, accepted)
<1>1. read.value \in ServerHelloFields /\ ~Duplicate(read.value.extensions)
  BY AnswerRead, HelloReadOnce, Zenon
<1>2. GoesOnWith(accepted)
  BY DEF UseInv, FromServer
<1>3. accepted = IF DerivesSharedSecret(read.value)
                 THEN ServerShare(read.value).data ELSE Nothing
  BY <1>2 DEF GoesOnWith, HandshakeType
<1>4. DerivesSharedSecret(read.value) /\ accepted = ServerShare(read.value).data
  BY <1>3, Zenon
<1> QED
  BY <1>1, <1>4, ShareIsTheServers, Zenon

\* The leaf is the first certificate of the server's list (verify.go).
LEMMA LeafIsTheServers ==
  ASSUME UseInv, FromServer, pc = "done", read.outcome = "ok",
         sent.type = HandshakeType.Certificate, sent.whole
  PROVE  accepted =
           IF sent.message # <<>>
              /\ {sent.message[i].cert : i \in 1 .. Len(sent.message)} \subseteq Parseable
           THEN Head(sent.message).cert ELSE Nothing
<1>1. GoesOnWith(accepted) /\ read.value = sent.message
  BY AnswerRead DEF UseInv, FromServer
<1>2. accepted = LeafCertificate(sent.message, Parseable)
  BY <1>1 DEF GoesOnWith, HandshakeType
<1>3. PICK entries \in Seq([cert : Sized(3), exts : Sized(2)]) : entries = sent.message
  <2>1. sent.message \in MessageOf(sent.type)
    BY AnswerRead
  <2>2. sent.message \in CertificateList
    BY <2>1 DEF MessageOf, HandshakeType
  <2> QED
    BY <2>2, Zenon DEF CertificateList
<1>4. entries # <<>> => Head(entries) = entries[1]
  OBVIOUS
<1>5. ({entries[i].cert : i \in 1 .. Len(entries)} \subseteq Parseable)
        <=> (\A i \in 1 .. Len(entries) : entries[i].cert \in Parseable)
  BY Zenon
<1> QED
  BY <1>2, <1>3, <1>4, <1>5, Zenon DEF LeafCertificate, Nothing

-----------------------------------------------------------------------------
(* A signature, and the schemes the server has found in the hello.         *)

\* The server finds the schemes of NewSignatureAlgorithmsExtension.
LEMMA SchemesFound ==
  ASSUME UseInv, FromServer, NewSignatureAlgorithmsExtension \in Range(offer)
  PROVE  SchemesSeen = Range(OfferedSchemes)
<1>1. HelloHolds(offer, hello.fragment)
  BY HelloInUse DEF FromServer
<1>2. PICK exts \in Seq(OfferedExtension) : exts = offer
  BY <1>1 DEF HelloHolds
<1>3. PICK p \in Seq(Extension) : p = OfferPayloads(exts)
  BY <1>1, <1>2 DEF HelloHolds
<1>4. PayloadsOf(exts, p) /\ ~Duplicate(exts)
  BY <1>1, <1>2, <1>3, Zenon DEF HelloHolds
<1>5. ReadClientHello(hello.fragment).exts.value = p
  BY <1>1, <1>2, <1>3, Zenon DEF HelloHolds, HelloSeen, ListRead
<1>6. PICK n \in Nat : n = Len(exts)
  BY LenProperties
<1>7. PICK one : one = NewSignatureAlgorithmsExtension
  OBVIOUS
<1>8. PICK j \in 1 .. n : exts[j] = one
  BY <1>2, <1>6, <1>7, LenProperties DEF Range
<1>9. one.type = ExtensionType.SignatureAlgorithms /\ one.data = OfferedSchemes
  BY <1>7, Zenon DEF NewSignatureAlgorithmsExtension
<1>10. \A i \in 1 .. n : p[i].type = exts[i].type
  BY <1>4, <1>6, Zenon DEF PayloadsOf
<1>11. Len(p) = n
  BY <1>4, <1>6, Zenon DEF PayloadsOf
<1>12. \A i \in 1 .. n : exts[i].type = ExtensionType.SignatureAlgorithms <=> i = j
  BY <1>4, <1>6, <1>8, <1>9, Zenon DEF Duplicate
<1>13. {i \in 1 .. Len(p) : p[i].type = ExtensionType.SignatureAlgorithms} = {j}
  BY <1>8, <1>10, <1>11, <1>12
<1>14. ParseSignatureAlgorithms(p[j].payload).value = OfferedSchemes
  <2>1. Found(exts, j, p[j])
    BY <1>4, <1>6, <1>8, ExtensionFound
  <2>2. PayloadParsed(ParsePayload(one.type, p[j].payload), one)
    BY <1>8, <2>1, Zenon DEF Found
  <2>3. ~EndsInDot(one)
    BY <1>9 DEF EndsInDot, ExtensionType
  <2>4. ParsePayload(one.type, p[j].payload).value = OfferedSchemes
    BY <1>9, <2>2, <2>3, Zenon DEF PayloadParsed
  <2>5. ParsePayload(one.type, p[j].payload) = ParseSignatureAlgorithms(p[j].payload)
    BY <1>9 DEF ParsePayload, ExtensionType
  <2> QED
    BY <2>4, <2>5, Zenon
<1>15. SchemesSeen = UNION {Range(ParseSignatureAlgorithms(p[i].payload).value) : i \in {j}}
  BY <1>5, <1>13, Zenon DEF SchemesSeen
<1>16. SchemesSeen = Range(ParseSignatureAlgorithms(p[j].payload).value)
  BY <1>15
<1> QED
  BY <1>14, <1>16, Zenon

\* The key that signs with a scheme is the one it is verified with, if the
\* client has offered the scheme.
LEMMA OfferedKey ==
  ASSUME NEW scheme \in DOMAIN SigningKey, NEW key, key = SigningKey[scheme]
  PROVE  key \in KeyKind(scheme) <=> scheme \in Range(OfferedSchemes)
<1>1. scheme \in {1025, 1027, 2052, 2055, 1281}
  <2>1. scheme \in Range(SignatureScheme)
    BY DEF SigningKey
  <2> QED
    BY <2>1 DEF Range, SignatureScheme
<1>2. Range(OfferedSchemes) = {1027, 2052, 1025, 2055}
  BY DEF Range, OfferedSchemes, SignatureScheme
<1>3. key = CASE scheme = 2055 -> "ed25519" [] scheme = 1027 -> "ecdsa" [] OTHER -> "rsa"
  BY DEF SigningKey, SignatureScheme
<1>4. KeyKind(scheme) = CASE scheme = 2055 -> {"ed25519"} [] scheme = 1027 -> {"ecdsa"}
                          [] scheme \in {2052, 1025} -> {"rsa"} [] OTHER -> {}
  BY DEF KeyKind, SignatureScheme
<1> QED
  BY <1>1, <1>2, <1>3, <1>4

\* A signature is taken exactly when it is genuine under a scheme the client
\* has offered (verify.go 76-140).
LEMMA SignatureIsTheServers ==
  ASSUME UseInv, FromServer, pc = "done", read.outcome = "ok",
         sent.type = HandshakeType.CertificateVerify,
         NewSignatureAlgorithmsExtension \in Range(offer)
  PROVE  accepted # Nothing <=>
           /\ Genuine(read.value.scheme, read.value.signature)
           /\ read.value.signature # <<>>
           /\ read.value.scheme \in SchemesSeen
<1>1. GoesOnWith(accepted)
  BY DEF UseInv, FromServer
<1>2. PICK scheme, signature : scheme = read.value.scheme /\ signature = read.value.signature
  OBVIOUS
<1>3. accepted = IF VerifiesSignature(kind, read.value, Genuine(scheme, signature))
                 THEN signature ELSE Nothing
  <2>1. accepted = IF VerifiesSignature(kind, read.value,
                                        Genuine(read.value.scheme, read.value.signature))
                   THEN read.value.signature ELSE Nothing
    BY <1>1 DEF GoesOnWith, HandshakeType
  <2> QED
    BY <1>2, <2>1, Zenon
<1>4. accepted # Nothing <=>
        signature # <<>> /\ kind \in KeyKind(scheme) /\ Genuine(scheme, signature)
  BY <1>2, <1>3, Zenon DEF VerifiesSignature, Nothing
<1>5. Genuine(scheme, signature) =>
        (kind \in KeyKind(scheme) <=> scheme \in Range(OfferedSchemes))
  BY OfferedKey, Zenon DEF Genuine
<1> QED
  BY <1>2, <1>4, <1>5, SchemesFound, Zenon

\* What the client goes on with is the server's, message by message.
LEMMA UseInvGoesOn == UseInv => GoesOnWithTheServers
<1> SUFFICES ASSUME UseInv, FromServer, pc = "done", read.outcome = "ok"
             PROVE  GoesOnWithTheServers
  BY DEF GoesOnWithTheServers
<1>1. CASE sent.type = HandshakeType.ServerHello
  <2>1. accepted # Nothing =>
          \E i \in Shares(read.value.extensions) :
            OneShare(read.value.extensions, i, accepted)
    BY <1>1, SecretIsTheServers
  <2>2. accepted # Nothing =>
          \E i \in Shares(read.value.extensions) :
            /\ Shares(read.value.extensions) = {i}
            /\ Len(accepted) = X25519KeyLen
            /\ \E group \in Uint16 :
                 read.value.extensions[i].payload
                   = Number(2, group) \o Vector(2, accepted)
    BY <2>1, Zenon DEF OneShare
  <2> QED
    BY <1>1, <2>2 DEF GoesOnWithTheServers, HandshakeType
<1>2. CASE sent.type = HandshakeType.Certificate /\ sent.whole
  BY <1>2, LeafIsTheServers DEF GoesOnWithTheServers, HandshakeType
<1>3. CASE /\ sent.type = HandshakeType.CertificateVerify
           /\ NewSignatureAlgorithmsExtension \in Range(offer)
  BY <1>3, SignatureIsTheServers DEF GoesOnWithTheServers, HandshakeType
<1>4. CASE /\ sent.type # HandshakeType.ServerHello
           /\ ~(sent.type = HandshakeType.Certificate /\ sent.whole)
           /\ ~(/\ sent.type = HandshakeType.CertificateVerify
                /\ NewSignatureAlgorithmsExtension \in Range(offer))
  BY <1>4 DEF GoesOnWithTheServers
<1> QED
  BY <1>1, <1>2, <1>3, <1>4

\* The client only ever goes on with the server's: a secret from the one share
\* of 32 bytes of the hello, the first certificate of a list that parses, and
\* a signature exactly when it is genuine under a scheme it has offered.
THEOREM ClientGoesOnWithTheServers == Spec => []GoesOnWithTheServers
BY UseInvariant, UseInvGoesOn, PTL
=============================================================================
