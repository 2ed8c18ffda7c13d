---------------------------- MODULE FramingProofs -----------------------------
(***************************************************************************)
(* Packets are read as they were written, for payloads of every length and *)
(* every MaxPacket, and with compression wherever the stream is cut; and   *)
(* lemmas about streams: sequences that are put together from pieces, and  *)
(* where in them the pieces are.                                           *)
(***************************************************************************)
EXTENDS Framing, SequenceTheorems, WellFoundedInduction, TLAPS

-----------------------------------------------------------------------------
(***************************************************************************)
(* Numbers.                                                                *)
(***************************************************************************)

LEMMA Division ==
  ASSUME NEW a \in Nat, NEW b \in Nat \ {0}
  PROVE  a \div b \in Nat /\ a % b \in 0..(b - 1) /\ a % b = a - b * (a \div b)
  <1>1. a \div b \in Int /\ a \div b >= 0
    OBVIOUS
  <1>2. a % b \in 0..(b - 1)
    OBVIOUS
  <1>3. a % b = a - b * (a \div b)
    OBVIOUS
  <1> QED
    BY <1>1, <1>2, <1>3

LEMMA Quotient ==
  ASSUME NEW b \in Nat \ {0}, NEW q \in Nat, NEW r \in 0..(b - 1)
  PROVE  (b * q + r) \div b = q /\ (b * q + r) % b = r
  OBVIOUS

\* A set that has 0, and with each number the next one, has all.
LEMMA Induction ==
  ASSUME NEW P, 0 \in P, \A n \in Nat : n \in P => n + 1 \in P
  PROVE  \A n \in Nat : n \in P
  <1> DEFINE T == Nat \ P
             R == OpToRel(<, Nat)
  <1> SUFFICES ASSUME T # {} PROVE FALSE
    OBVIOUS
  <1>1. IsWellFoundedOn(R, Nat) /\ T \subseteq Nat
    BY NatLessThanWellFounded
  <1>2. PICK x \in T : \A y \in T : <<y, x>> \notin R
    <2> HIDE DEF R, T
    <2> QED
      BY <1>1, WFMin
  <1>3. x \in Nat /\ x \notin P
    OBVIOUS
  <1>4. x # 0 /\ x - 1 \in Nat /\ x - 1 + 1 = x
    BY <1>3
  <1>5. x - 1 \in T
    BY <1>3, <1>4
  <1>6. <<x - 1, x>> \in R
    BY <1>3, <1>4 DEF OpToRel
  <1> QED
    BY <1>2, <1>5, <1>6

\* Induction as far as m.
LEMMA InductionUpTo ==
  ASSUME NEW m \in Nat, NEW P, 0 \in P, \A n \in Nat : n < m /\ n \in P => n + 1 \in P
  PROVE  \A n \in 0..m : n \in P
  <1> DEFINE Q == {n \in Nat : n <= m => n \in P}
  <1>1. 0 \in Q
    OBVIOUS
  <1>2. \A n \in Nat : n \in Q => n + 1 \in Q
    OBVIOUS
  <1>3. \A n \in Nat : n \in Q
    <2> HIDE DEF Q
    <2> QED
      BY <1>1, <1>2, Induction
  <1> QED
    BY <1>3

\* A loop's n turns, and what it has computed after each of them.
Turns(step, n, V) == step \in [1..n -> [V -> V]]
Loop(f, step, n, V, a) == f \in [0..n -> V] /\ f[0] = a /\ \A i \in 1..n : f[i] = step[i][f[i - 1]]

LEMMA Iterated ==
  ASSUME NEW n \in Nat, NEW V, NEW a \in V, NEW step, Turns(step, n, V)
  PROVE  \E f : Loop(f, step, n, V, a)
  <1>4. step \in [1..n -> [V -> V]]
    BY DEF Turns
  <1> DEFINE Runs(f, k) == f \in [0..k -> V] /\ f[0] = a /\ \A i \in 1..k : f[i] = step[i][f[i - 1]]
             P == {k \in Nat : \E f : Runs(f, k)}
  <1>1. 0 \in P
    <2>1. [i \in 0..0 |-> a] \in [0..0 -> V]
      OBVIOUS
    <2>2. Runs([i \in 0..0 |-> a], 0)
      BY <2>1
    <2> QED
      BY <2>2
  <1>2. ASSUME NEW k \in Nat, k < n, k \in P PROVE k + 1 \in P
    <2>1. PICK f : Runs(f, k)
      BY <1>2
    <2> DEFINE g == [i \in 0..(k + 1) |-> IF i = k + 1 THEN step[k + 1][f[k]] ELSE f[i]]
    <2>2. f[k] \in V /\ k + 1 \in 1..n
      BY <1>2, <2>1
    <2>3. step[k + 1][f[k]] \in V
      BY <1>4, <2>2
    <2>4. g \in [0..(k + 1) -> V]
      BY <2>1, <2>3
    <2>5. g[0] = a
      BY <2>1
    <2>6. ASSUME NEW i \in 1..(k + 1) PROVE g[i] = step[i][g[i - 1]]
      <3>1. CASE i = k + 1
        BY <3>1
      <3>2. CASE i # k + 1
        <4>1. i \in 1..k /\ i - 1 \in 0..k /\ i - 1 # k + 1 /\ i - 1 \in 0..(k + 1)
          BY <3>2
        <4>2. g[i] = f[i] /\ g[i - 1] = f[i - 1]
          BY <4>1
        <4> QED
          BY <2>1, <4>1, <4>2
      <3> QED
        BY <3>1, <3>2
    <2>7. Runs(g, k + 1)
      BY <2>4, <2>5, <2>6
    <2>8. k + 1 \in Nat
      OBVIOUS
    <2> HIDE DEF Runs, g
    <2> QED
      BY <2>7, <2>8
  <1>3. n \in P
    <2> HIDE DEF P
    <2>1. \A k \in 0..n : k \in P
      BY <1>1, <1>2, InductionUpTo
    <2> QED
      BY <2>1
  <1> QED
    BY <1>3 DEF Loop

-----------------------------------------------------------------------------
(***************************************************************************)
(* Sequences put together, and cut.                                        *)
(***************************************************************************)

\* FlattenSeq puts one piece after the other: f has the sequence after each of them.
Joins(f, seqs, S) ==
  /\ f \in [0..Len(seqs) -> Seq(S)]
  /\ f[0] = <<>>
  /\ \A i \in 1..Len(seqs) : f[i] = f[i - 1] \o seqs[i]

LEMMA JoinsExist ==
  ASSUME NEW S, NEW seqs \in Seq(Seq(S))
  PROVE  \E f : Joins(f, seqs, S)
  <1> DEFINE n == Len(seqs)
             step == [i \in 1..n |-> [s \in Seq(S) |-> s \o seqs[i]]]
  <1>1. n \in Nat /\ <<>> \in Seq(S) /\ \A i \in 1..n : seqs[i] \in Seq(S)
    OBVIOUS
  <1>2. \A i \in 1..n : \A s \in Seq(S) : s \o seqs[i] \in Seq(S)
    BY <1>1, ConcatProperties
  <1>3. step \in [1..n -> [Seq(S) -> Seq(S)]]
    BY <1>2
  <1>4. \A i \in 1..n : \A s \in Seq(S) : step[i][s] = s \o seqs[i]
    OBVIOUS
  <1> HIDE DEF step, n
  <1>5. PICK f \in [0..n -> Seq(S)] : f[0] = <<>> /\ \A i \in 1..n : f[i] = step[i][f[i - 1]]
    <2> DEFINE V == Seq(S)
               a == <<>>
    <2>1. n \in Nat /\ a \in V /\ Turns(step, n, V)
      BY <1>1, <1>3 DEF Turns
    <2> HIDE DEF V, a
    <2>2. \E g : Loop(g, step, n, V, a)
      BY <2>1, Iterated
    <2> QED
      BY <2>2 DEF Loop, V, a
  <1>6. \A i \in 1..n : i - 1 \in 0..n /\ f[i - 1] \in Seq(S)
    <2>1. \A i \in 1..n : i - 1 \in 0..n
      BY <1>1
    <2> QED
      BY <1>5, <2>1
  <1>7. \A i \in 1..n : f[i] = f[i - 1] \o seqs[i]
    BY <1>4, <1>5, <1>6
  <1> QED
    BY <1>5, <1>7 DEF Joins, n

LEMMA JoinsNext ==
  ASSUME NEW S, NEW seqs \in Seq(Seq(S)), NEW f, Joins(f, seqs, S), NEW k \in Nat, k < Len(seqs)
  PROVE  /\ f[0] = <<>> /\ f[k] \in Seq(S) /\ seqs[k + 1] \in Seq(S)
         /\ f[k + 1] = f[k] \o seqs[k + 1] /\ f[k + 1] \in Seq(S)
  <1> DEFINE i == k + 1
             n == Len(seqs)
  <1>1. n \in Nat /\ i \in 1..n /\ i \in 0..n /\ k \in 0..n /\ i - 1 = k
    OBVIOUS
  <1>2. \A j \in 1..n : seqs[j] \in Seq(S)
    OBVIOUS
  <1> HIDE DEF i
  <1>3. f \in [0..n -> Seq(S)] /\ f[0] = <<>> /\ \A j \in 1..n : f[j] = f[j - 1] \o seqs[j]
    BY DEF Joins
  <1> HIDE DEF n
  <1>4. f[i] = f[k] \o seqs[i] /\ f[k] \in Seq(S) /\ f[i] \in Seq(S) /\ seqs[i] \in Seq(S)
    BY <1>1, <1>2, <1>3
  <1> QED
    BY <1>3, <1>4 DEF i

LEMMA JoinsFirst ==
  ASSUME NEW S, NEW seqs \in Seq(Seq(S)), NEW f, Joins(f, seqs, S), 0 < Len(seqs)
  PROVE  f[1] = seqs[1]
  <1>1. f[0] = <<>> /\ seqs[0 + 1] \in Seq(S) /\ f[0 + 1] = f[0] \o seqs[0 + 1]
    BY JoinsNext, 0 \in Nat
  <1>2. 0 + 1 = 1
    OBVIOUS
  <1>3. seqs[1] \in Seq(S) /\ f[1] = <<>> \o seqs[1]
    BY <1>1, <1>2
  <1> QED
    BY <1>3, ConcatEmptySeq

LEMMA JoinsUnique ==
  ASSUME NEW S, NEW seqs \in Seq(Seq(S)), NEW f, NEW g, Joins(f, seqs, S), Joins(g, seqs, S),
         NEW i \in 0..Len(seqs)
  PROVE  f[i] = g[i]
  <1> DEFINE P == {k \in Nat : f[k] = g[k]}
  <1>1. Len(seqs) \in Nat
    OBVIOUS
  <1>2. 0 \in P
    BY DEF Joins
  <1> HIDE DEF P
  <1>3. ASSUME NEW k \in Nat, k < Len(seqs), k \in P PROVE k + 1 \in P
    <2>1. f[k + 1] = f[k] \o seqs[k + 1] /\ g[k + 1] = g[k] \o seqs[k + 1]
      BY <1>3, JoinsNext
    <2>2. f[k] = g[k] /\ k + 1 \in Nat
      BY <1>3 DEF P
    <2>3. f[k + 1] = g[k + 1]
      BY <2>1, <2>2
    <2> QED
      BY <2>2, <2>3 DEF P
  <1>4. \A k \in 0..Len(seqs) : k \in P
    BY <1>1, <1>2, <1>3, InductionUpTo
  <1> QED
    BY <1>4 DEF P

LEMMA Flattened ==
  ASSUME NEW S, NEW seqs \in Seq(Seq(S)), NEW f, Joins(f, seqs, S)
  PROVE  FlattenSeq(seqs) = f[Len(seqs)] /\ FlattenSeq(seqs) \in Seq(S)
  <1> DEFINE n == Len(seqs)
             Flat(g) == g = [i \in 1..n |-> IF i = 1 THEN seqs[i] ELSE g[i - 1] \o seqs[i]]
             flatten == CHOOSE g : Flat(g)
  <1>1. n \in Nat /\ \A i \in 1..n : seqs[i] \in Seq(S)
    OBVIOUS
  <1>2. /\ f \in [0..n -> Seq(S)] /\ f[0] = <<>>
        /\ \A i \in 1..n : f[i] = f[i - 1] \o seqs[i]
    BY DEF Joins
  <1>3. CASE n = 0
    <2>1. FlattenSeq(seqs) = <<>> /\ seqs = <<>>
      BY <1>3 DEF FlattenSeq
    <2> QED
      BY <1>2, <1>3, <2>1
  <1>4. CASE n > 0
    <2>1. FlattenSeq(seqs) = flatten[n]
      BY <1>4 DEF FlattenSeq
    <2> HIDE DEF n
    <2> DEFINE h == [i \in 1..n |-> f[i]]
    <2>2. \A i \in 1..n : h[i] = IF i = 1 THEN seqs[i] ELSE h[i - 1] \o seqs[i]
      <3> TAKE i \in 1..n
      <3>1. h[i] = f[i - 1] \o seqs[i]
        BY <1>2
      <3>2. CASE i = 1
        <4>1. f[1] = seqs[1]
          BY <1>4, JoinsFirst DEF n
        <4> QED
          BY <3>2, <4>1
      <3>3. CASE i # 1
        <4>1. i - 1 \in 1..n
          BY <1>1, <3>3
        <4> QED
          BY <3>1, <3>3, <4>1
      <3> QED
        BY <3>2, <3>3
    <2>3. [i \in 1..n |-> IF i = 1 THEN seqs[i] ELSE h[i - 1] \o seqs[i]] = [i \in 1..n |-> h[i]]
      <3> HIDE DEF h
      <3> QED
        BY <2>2
    <2>4. Flat(h)
      BY <2>3
    <2>5. Flat(flatten)
      <3> HIDE DEF h, Flat
      <3> QED
        BY <2>4
    <2> DEFINE P == {k \in Nat : k + 1 <= n => flatten[k + 1] = f[k + 1]}
    <2>6. \A i \in 1..n : flatten[i] = IF i = 1 THEN seqs[i] ELSE flatten[i - 1] \o seqs[i]
      <3> HIDE DEF flatten
      <3> QED
        BY <2>5
    <2> HIDE DEF flatten
    <2>7. 0 \in P
      <3>1. 1 \in 1..n
        BY <1>1, <1>4
      <3>2. flatten[1] = seqs[1]
        BY <2>6, <3>1
      <3>3. f[1] = seqs[1]
        BY <1>4, JoinsFirst DEF n
      <3> QED
        BY <3>2, <3>3
    <2>8. ASSUME NEW k \in Nat, k \in P PROVE k + 1 \in P
      <3> SUFFICES ASSUME k + 2 <= n PROVE flatten[k + 2] = f[k + 2]
        OBVIOUS
      <3>1. k + 2 \in 1..n /\ k + 2 # 1 /\ k + 2 - 1 = k + 1
        BY <1>1
      <3> DEFINE i == k + 2
      <3>2. flatten[i] = flatten[k + 1] \o seqs[i]
        <4>1. i \in 1..n /\ i # 1 /\ i - 1 = k + 1
          BY <3>1
        <4> HIDE DEF i
        <4> QED
          BY <2>6, <4>1
      <3>4. f[k + 1 + 1] = f[k + 1] \o seqs[k + 1 + 1] /\ k + 1 + 1 = i
        <4> DEFINE j == k + 1
        <4>1. j \in Nat /\ j < Len(seqs) /\ j + 1 = i
          BY <1>1 DEF n
        <4> HIDE DEF j
        <4>2. f[j + 1] = f[j] \o seqs[j + 1]
          BY <4>1, JoinsNext
        <4> QED
          BY <4>1, <4>2 DEF j
      <3>3. flatten[k + 1] = f[k + 1]
        BY <1>1, <2>8
      <3> QED
        BY <3>2, <3>3, <3>4
    <2>9. n - 1 \in P
      <3> HIDE DEF P
      <3>1. n - 1 \in Nat
        BY <1>1, <1>4
      <3> QED
        BY <2>7, <2>8, <3>1, Induction
    <2>10. flatten[n] = f[n] /\ f[n] \in Seq(S)
      BY <1>1, <1>2, <1>4, <2>9
    <2> QED
      BY <2>1, <2>10 DEF n
  <1> QED
    BY <1>1, <1>3, <1>4

LEMMA FlattenedExist ==
  ASSUME NEW S, NEW seqs \in Seq(Seq(S))
  PROVE  \E f : Joins(f, seqs, S) /\ FlattenSeq(seqs) = f[Len(seqs)]
  BY JoinsExist, Flattened

LEMMA Concatenated ==
  ASSUME NEW S, NEW a \in Seq(S), NEW b \in Seq(S)
  PROVE  /\ Len(a) \in Nat /\ Len(b) \in Nat /\ a \o b \in Seq(S)
         /\ Len(a \o b) = Len(a) + Len(b)
         /\ \A k \in 1..Len(a) : (a \o b)[k] = a[k]
         /\ \A k \in 1..Len(b) : (a \o b)[Len(a) + k] = b[k]
  OBVIOUS

\* A stream has a piece from a position on.
Holds(stream, at, piece) ==
  /\ at + Len(piece) - 1 <= Len(stream)
  /\ \A k \in 1..Len(piece) : stream[at + k - 1] = piece[k]

LEMMA HoldsItself ==
  ASSUME NEW S, NEW s \in Seq(S)
  PROVE  Holds(s, 1, s)
  BY DEF Holds

LEMMA HoldsParts ==
  ASSUME NEW S, NEW T, NEW stream \in Seq(T), NEW at \in Nat \ {0}, NEW a \in Seq(S), NEW b \in Seq(S),
         Holds(stream, at, a \o b)
  PROVE  Holds(stream, at, a) /\ Holds(stream, at + Len(a), b)
  <1>1. /\ Len(a) \in Nat /\ Len(b) \in Nat /\ Len(stream) \in Nat
        /\ Len(a \o b) = Len(a) + Len(b)
        /\ \A k \in 1..Len(a) : (a \o b)[k] = a[k]
        /\ \A k \in 1..Len(b) : (a \o b)[Len(a) + k] = b[k]
    BY Concatenated
  <1> DEFINE ab == a \o b
  <1>2. Len(ab) = Len(a) + Len(b) /\ at + Len(ab) - 1 <= Len(stream)
    BY <1>1 DEF Holds
  <1>3. ASSUME NEW k \in 1..Len(a) PROVE stream[at + k - 1] = a[k]
    <2>1. k \in 1..Len(ab)
      BY <1>1
    <2>2. stream[at + k - 1] = ab[k]
      BY <2>1 DEF Holds
    <2> QED
      BY <1>1, <2>2
  <1>4. ASSUME NEW k \in 1..Len(b) PROVE stream[at + Len(a) + k - 1] = b[k]
    <2> DEFINE j == Len(a) + k
    <2>1. j \in 1..Len(ab) /\ at + j - 1 = at + Len(a) + k - 1
      BY <1>1
    <2>2. stream[at + j - 1] = ab[j]
      <3> HIDE DEF j
      <3> QED
        BY <2>1 DEF Holds
    <2> QED
      BY <1>1, <2>1, <2>2
  <1> HIDE DEF ab
  <1> QED
    BY <1>1, <1>2, <1>3, <1>4 DEF Holds

LEMMA HeadFirst ==
  ASSUME NEW S, NEW x \in S, NEW b \in Seq(S)
  PROVE  /\ <<x>> \o b \in Seq(S) /\ Len(<<x>> \o b) = Len(b) + 1
         /\ (<<x>> \o b)[1] = x /\ <<x>> \o b # <<>>
  <1> DEFINE a == <<x>>
  <1>1. a \in Seq(S) /\ Len(a) = 1 /\ a[1] = x
    OBVIOUS
  <1> HIDE DEF a
  <1>2. a \o b \in Seq(S) /\ Len(a \o b) = Len(b) + 1 /\ (a \o b)[1] = a[1]
    <2>1. Len(b) \in Nat /\ Len(a) = 1 /\ a \in Seq(S)
      BY <1>1
    <2>2. /\ a \o b \in Seq(S) /\ Len(a \o b) = Len(a) + Len(b)
          /\ \A i \in 1..Len(a) : (a \o b)[i] = a[i]
      BY <2>1, Concatenated
    <2> QED
      BY <2>1, <2>2
  <1>3. a \o b # <<>>
    <2>1. Len(b) \in Nat
      OBVIOUS
    <2> QED
      BY <1>2, <2>1
  <1> QED
    BY <1>1, <1>2, <1>3 DEF a

LEMMA HoldsHead ==
  ASSUME NEW S, NEW T, NEW stream \in Seq(T), NEW at \in Nat \ {0}, NEW x \in S, NEW b \in Seq(S),
         Holds(stream, at, <<x>> \o b)
  PROVE  at <= Len(stream) /\ stream[at] = x /\ Holds(stream, at + 1, b)
  <1> DEFINE a == <<x>>
  <1>1. a \in Seq(S) /\ Len(a) = 1 /\ a[1] = x
    OBVIOUS
  <1>2. Holds(stream, at, a \o b)
    OBVIOUS
  <1> HIDE DEF a
  <1>3. Holds(stream, at, a) /\ Holds(stream, at + Len(a), b)
    BY <1>1, <1>2, HoldsParts
  <1>4. at + 1 - 1 <= Len(stream) /\ stream[at + 1 - 1] = a[1] /\ at + 1 - 1 = at
    BY <1>1, <1>3 DEF Holds
  <1> QED
    BY <1>1, <1>3, <1>4

LEMMA HoldsCut ==
  ASSUME NEW S, NEW T, NEW stream \in Seq(T), NEW at \in Nat \ {0}, NEW piece \in Seq(S),
         Holds(stream, at, piece)
  PROVE  SubSeq(stream, at, at + Len(piece) - 1) = piece
  <1> DEFINE last == at + Len(piece) - 1
             sub == SubSeq(stream, at, last)
  <1>1. last \in Nat /\ last <= Len(stream) /\ at \in 1..(Len(stream) + 1) /\ Len(piece) \in Nat
    BY DEF Holds
  <1>2. sub \in Seq(T) /\ Len(sub) = Len(piece)
    BY <1>1, SubSeqProperties
  <1>3. ASSUME NEW k \in 1..Len(piece) PROVE sub[k] = piece[k]
    <2>1. sub[k] = stream[at + k - 1]
      BY <1>1
    <2> QED
      BY <2>1 DEF Holds
  <1>4. sub \in Seq(S \cup T) /\ piece \in Seq(S \cup T)
    <2>1. \A k \in 1..Len(sub) : sub[k] \in T
      BY <1>2
    <2>2. sub = [k \in 1..Len(sub) |-> sub[k]] /\ Len(sub) \in Nat
      BY <1>2
    <2>3. piece = [k \in 1..Len(piece) |-> piece[k]]
      OBVIOUS
    <2> HIDE DEF sub
    <2> QED
      BY <1>1, <2>1, <2>2, <2>3
  <1> HIDE DEF sub, last
  <1>5. sub = piece
    BY <1>2, <1>3, <1>4, SeqEqual
  <1> QED
    BY <1>5 DEF sub, last

LEMMA HoldsPieces ==
  ASSUME NEW S, NEW T, NEW stream \in Seq(T), NEW at \in Nat \ {0}, NEW seqs \in Seq(Seq(S)),
         NEW f, Joins(f, seqs, S), Holds(stream, at, f[Len(seqs)]), NEW i \in 1..Len(seqs)
  PROVE  /\ f[i - 1] \in Seq(S) /\ f[i] \in Seq(S) /\ f[i] = f[i - 1] \o seqs[i]
         /\ Holds(stream, at + Len(f[i - 1]), seqs[i])
  <1> DEFINE n == Len(seqs)
             P == {k \in Nat : k <= n => Holds(stream, at, f[n - k])}
  <1>1. n \in Nat /\ \A j \in 1..n : seqs[j] \in Seq(S)
    OBVIOUS
  <1>2. /\ f \in [0..n -> Seq(S)]
        /\ \A j \in 1..n : f[j] = f[j - 1] \o seqs[j]
    BY DEF Joins
  <1> HIDE DEF n
  <1>3. \A j \in 1..n : j - 1 \in 0..n /\ f[j - 1] \in Seq(S) /\ f[j] \in Seq(S)
    <2>1. \A j \in 1..n : j - 1 \in 0..n /\ j \in 0..n
      BY <1>1
    <2> QED
      BY <1>2, <2>1
  <1>4. ASSUME NEW j \in 1..n, Holds(stream, at, f[j])
        PROVE  Holds(stream, at, f[j - 1]) /\ Holds(stream, at + Len(f[j - 1]), seqs[j])
    <2>1. Holds(stream, at, f[j - 1] \o seqs[j])
      BY <1>2, <1>4
    <2>2. f[j - 1] \in Seq(S) /\ seqs[j] \in Seq(S)
      BY <1>1, <1>3
    <2> QED
      BY <2>1, <2>2, HoldsParts
  <1>5. 0 \in P
    BY <1>1 DEF n
  <1>6. ASSUME NEW k \in Nat, k \in P PROVE k + 1 \in P
    <2> DEFINE j == n - k
    <2> SUFFICES ASSUME k + 1 <= n PROVE Holds(stream, at, f[n - (k + 1)])
      OBVIOUS
    <2>1. j \in 1..n /\ j - 1 = n - (k + 1) /\ Holds(stream, at, f[j])
      BY <1>1, <1>6
    <2> HIDE DEF j
    <2> QED
      BY <1>4, <2>1
  <1>7. n - i \in P
    <2> HIDE DEF P
    <2>1. n - i \in Nat
      BY <1>1 DEF n
    <2> QED
      BY <1>5, <1>6, <2>1, Induction
  <1>8. Holds(stream, at, f[i]) /\ i \in 1..n
    BY <1>1, <1>7 DEF n
  <1>9. Holds(stream, at + Len(f[i - 1]), seqs[i])
    BY <1>4, <1>8
  <1> QED
    BY <1>2, <1>3, <1>8, <1>9

\* Where the pieces of a sequence are in a stream that has it.
Places(stream, at, seqs, place) ==
  /\ place \in [0..Len(seqs) -> Nat \ {0}]
  /\ place[0] = at
  /\ \A i \in 1..Len(seqs) :
       /\ i - 1 \in 0..Len(seqs)
       /\ place[i - 1] \in Nat \ {0}
       /\ place[i] = place[i - 1] + Len(seqs[i])
       /\ Holds(stream, place[i - 1], seqs[i])
  /\ place[Len(seqs)] = at + Len(FlattenSeq(seqs))

LEMMA Placed ==
  ASSUME NEW S, NEW T, NEW stream \in Seq(T), NEW at \in Nat \ {0}, NEW seqs \in Seq(Seq(S)),
         Holds(stream, at, FlattenSeq(seqs))
  PROVE  FlattenSeq(seqs) \in Seq(S) /\ \E place : Places(stream, at, seqs, place)
  <1>1. PICK f : Joins(f, seqs, S)
    BY JoinsExist
  <1>2. FlattenSeq(seqs) = f[Len(seqs)] /\ FlattenSeq(seqs) \in Seq(S)
    BY <1>1, Flattened
  <1>3. \A i \in 1..Len(seqs) :
          /\ f[i - 1] \in Seq(S) /\ f[i] \in Seq(S) /\ f[i] = f[i - 1] \o seqs[i]
          /\ Holds(stream, at + Len(f[i - 1]), seqs[i])
    BY <1>1, <1>2, HoldsPieces
  <1> DEFINE n == Len(seqs)
             place == [i \in 0..n |-> at + Len(f[i])]
  <1>4. n \in Nat /\ f \in [0..n -> Seq(S)] /\ f[0] = <<>>
    BY <1>1 DEF Joins
  <1>5. place \in [0..n -> Nat \ {0}]
    <2>1. \A i \in 0..n : at + Len(f[i]) \in Nat \ {0}
      BY <1>4
    <2> QED
      BY <2>1
  <1>6. place[0] = at /\ place[n] = at + Len(FlattenSeq(seqs))
    <2> HIDE DEF n
    <2>1. 0 \in 0..n /\ n \in 0..n /\ Len(f[0]) = 0
      BY <1>4
    <2>2. place[0] = at + Len(f[0]) /\ place[n] = at + Len(f[n])
      BY <2>1
    <2>3. f[n] = FlattenSeq(seqs)
      BY <1>2 DEF n
    <2> HIDE DEF place
    <2> QED
      BY <2>1, <2>2, <2>3
  <1>7. ASSUME NEW i \in 1..n
        PROVE  /\ i - 1 \in 0..n /\ place[i - 1] \in Nat \ {0}
               /\ place[i] = place[i - 1] + Len(seqs[i]) /\ Holds(stream, place[i - 1], seqs[i])
    <2>1. i - 1 \in 0..n /\ i \in 0..n
      BY <1>4
    <2>2. place[i - 1] = at + Len(f[i - 1]) /\ place[i] = at + Len(f[i])
      BY <2>1
    <2> HIDE DEF place
    <2> DEFINE a == f[i - 1]
               b == seqs[i]
    <2>3. Len(a) \in Nat /\ Len(b) \in Nat /\ Len(f[i]) = Len(a) + Len(b)
      <3>1. b \in Seq(S)
        OBVIOUS
      <3>2. a \in Seq(S) /\ f[i] = a \o b
        BY <1>3
      <3> HIDE DEF a, b
      <3> QED
        BY <3>1, <3>2, Concatenated
    <2>4. Holds(stream, at + Len(f[i - 1]), seqs[i])
      BY <1>3
    <2>5. place[i - 1] \in Nat \ {0} /\ place[i] = place[i - 1] + Len(b)
      <3> DEFINE x == Len(a)
                 y == Len(b)
                 z == Len(f[i])
      <3>1. place[i - 1] = at + x /\ place[i] = at + z
        BY <2>2
      <3>2. x \in Nat /\ y \in Nat /\ z = x + y
        BY <2>3
      <3> HIDE DEF x, y, z
      <3>3. place[i - 1] \in Nat \ {0} /\ place[i] = place[i - 1] + y
        BY <3>1, <3>2
      <3> QED
        BY <3>3 DEF y
    <2>7. Holds(stream, place[i - 1], seqs[i])
      BY <2>2, <2>4
    <2> QED
      BY <2>1, <2>5, <2>7
  <1> HIDE DEF place
  <1>8. Places(stream, at, seqs, place)
    BY <1>5, <1>6, <1>7 DEF Places
  <1> QED
    BY <1>2, <1>8

\* The first i elements, and one more.
FirstOf(s, i) == [k \in 1..i |-> s[k]]

LEMMA FirstAppended ==
  ASSUME NEW s, NEW i \in Nat \ {0}
  PROVE  Append(FirstOf(s, i - 1), s[i]) = FirstOf(s, i)
  <1> DEFINE a == FirstOf(s, i - 1)
             T == {s[k] : k \in 1..i}
  <1>1. a \in Seq(T) /\ Len(a) = i - 1 /\ \A k \in 1..(i - 1) : a[k] = s[k]
    BY DEF FirstOf
  <1>2. s[i] \in T
    OBVIOUS
  <1>3. FirstOf(s, i) \in Seq(T) /\ Len(FirstOf(s, i)) = i /\ \A k \in 1..i : FirstOf(s, i)[k] = s[k]
    BY DEF FirstOf
  <1> HIDE DEF a, T
  <1>4. Append(a, s[i]) \in Seq(T) /\ Len(Append(a, s[i])) = i
    BY <1>1, <1>2
  <1>5. \A k \in 1..i : Append(a, s[i])[k] = s[k]
    BY <1>1, <1>2
  <1>6. Append(a, s[i]) = FirstOf(s, i)
    BY <1>3, <1>4, <1>5, SeqEqual
  <1> QED
    BY <1>6 DEF a

LEMMA FirstAll ==
  ASSUME NEW S, NEW s \in Seq(S)
  PROVE  FirstOf(s, Len(s)) = s
  BY DEF FirstOf

LEMMA MinOfTwo ==
  ASSUME NEW a \in Int, NEW b \in Int
  PROVE  Min({a, b}) = IF a <= b THEN a ELSE b
  <1> DEFINE m == IF a <= b THEN a ELSE b
             T == {a, b}
  <1>1. m \in T /\ m \in Int /\ \A y \in T : m <= y
    OBVIOUS
  <1>2. \A x \in T : (\A y \in T : x <= y) => x = m
    <2> TAKE x \in T
    <2> HAVE \A y \in T : x <= y
    <2>1. x <= m /\ m <= x /\ x \in Int
      BY <1>1
    <2> HIDE DEF m, T
    <2> QED
      BY <1>1, <2>1
  <1> HIDE DEF m, T
  <1>3. Min(T) = m
    BY <1>1, <1>2 DEF Min
  <1> QED
    BY <1>3 DEF m, T

LEMMA MinOfNats ==
  ASSUME NEW T, T \subseteq Nat, T # {}
  PROVE  Min(T) \in T /\ \A y \in T : Min(T) <= y
  <1> DEFINE R == OpToRel(<, Nat)
  <1>1. IsWellFoundedOn(R, Nat)
    BY NatLessThanWellFounded
  <1>2. PICK x \in T : \A y \in T : <<y, x>> \notin R
    <2> HIDE DEF R
    <2> QED
      BY <1>1, WFMin
  <1>3. \A y \in T : x <= y
    <2> TAKE y \in T
    <2>1. x \in Nat /\ y \in Nat
      OBVIOUS
    <2>2. <<y, x>> \notin R
      BY <1>2
    <2>3. ~(y < x)
      BY <2>1, <2>2 DEF OpToRel
    <2> QED
      BY <2>1, <2>3
  <1>4. x \in T /\ \A y \in T : x <= y
    BY <1>2, <1>3
  <1> QED
    BY <1>4 DEF Min

LEMMA Monotone ==
  ASSUME NEW a \in Nat, NEW b \in Nat, NEW m \in Nat, a <= b
  PROVE  a * m \in Nat /\ b * m \in Nat /\ a * m <= b * m
  OBVIOUS

LEMMA Multiples ==
  ASSUME NEW i \in Nat, NEW m \in Nat
  PROVE  i * m \in Nat /\ (i + 1) * m = i * m + m /\ (i - 1) * m = i * m - m
  OBVIOUS

LEMMA SubSeqIs ==
  ASSUME NEW S, NEW s \in Seq(S), NEW a \in Nat \ {0}, NEW b \in Nat, b <= Len(s)
  PROVE  /\ SubSeq(s, a, b) \in Seq(S) /\ Len(SubSeq(s, a, b)) = IF a <= b THEN b - a + 1 ELSE 0
         /\ \A k \in 1..(b - a + 1) : SubSeq(s, a, b)[k] = s[a + k - 1]
  OBVIOUS

LEMMA SubSeqNone ==
  ASSUME NEW S, NEW s \in Seq(S)
  PROVE  SubSeq(s, 1, 0) = <<>>
  <1> DEFINE a == 1
             b == 0
  <1>1. a \in Nat \ {0} /\ b \in Nat /\ b <= Len(s) /\ ~(a <= b)
    OBVIOUS
  <1> HIDE DEF a, b
  <1>2. SubSeq(s, a, b) \in Seq(S) /\ Len(SubSeq(s, a, b)) = 0
    BY <1>1, SubSeqIs
  <1> QED
    BY <1>2, EmptySeq DEF a, b

LEMMA SubSeqAll ==
  ASSUME NEW S, NEW s \in Seq(S)
  PROVE  SubSeq(s, 1, Len(s)) = s
  <1> DEFINE at == 1
  <1>1. at \in Nat \ {0} /\ Holds(s, at, s) /\ at + Len(s) - 1 = Len(s)
    BY HoldsItself
  <1> HIDE DEF at
  <1>2. SubSeq(s, at, at + Len(s) - 1) = s
    BY <1>1, HoldsCut
  <1> QED
    BY <1>1, <1>2 DEF at

\* What is cut in two is put together again.
LEMMA SubSeqJoined ==
  ASSUME NEW S, NEW s \in Seq(S), NEW a \in Nat \ {0}, NEW b \in Nat, NEW c \in Nat,
         a <= b + 1, b <= c, c <= Len(s)
  PROVE  SubSeq(s, a, b) \o SubSeq(s, b + 1, c) = SubSeq(s, a, c)
  <1> DEFINE x == SubSeq(s, a, b)
             y == SubSeq(s, b + 1, c)
             z == SubSeq(s, a, c)
  <1>1. x \in Seq(S) /\ Len(x) = b - a + 1 /\ \A k \in 1..(b - a + 1) : x[k] = s[a + k - 1]
    BY SubSeqIs
  <1>2. y \in Seq(S) /\ Len(y) = c - b /\ \A k \in 1..(c - b) : y[k] = s[b + k]
    <2> DEFINE d == b + 1
    <2>1. d \in Nat \ {0}
      OBVIOUS
    <2> HIDE DEF d
    <2>2. /\ SubSeq(s, d, c) \in Seq(S) /\ Len(SubSeq(s, d, c)) = IF d <= c THEN c - d + 1 ELSE 0
          /\ \A k \in 1..(c - d + 1) : SubSeq(s, d, c)[k] = s[d + k - 1]
      BY <2>1, SubSeqIs
    <2>3. \A k \in 1..(c - b) : d + k - 1 = b + k /\ k \in 1..(c - d + 1)
      BY DEF d
    <2>4. Len(SubSeq(s, d, c)) = c - b
      BY <2>2 DEF d
    <2> QED
      BY <2>2, <2>3, <2>4 DEF d
  <1>3. z \in Seq(S) /\ Len(z) = c - a + 1 /\ \A k \in 1..(c - a + 1) : z[k] = s[a + k - 1]
    BY SubSeqIs
  <1>a. x \in Seq(S) /\ y \in Seq(S) /\ Len(x) \in Int
    BY <1>1, <1>2
  <1> HIDE DEF x, y, z
  <1>4. /\ x \o y \in Seq(S) /\ Len(x \o y) = Len(x) + Len(y)
        /\ \A k \in 1..Len(x) : (x \o y)[k] = x[k]
        /\ \A k \in 1..Len(y) : (x \o y)[Len(x) + k] = y[k]
    BY <1>a, Concatenated
  <1>5. Len(x \o y) = Len(z)
    BY <1>1, <1>2, <1>3, <1>4
  <1>6. ASSUME NEW k \in 1..Len(z) PROVE (x \o y)[k] = z[k]
    <2>1. CASE k <= Len(x)
      <3>1. k \in 1..Len(x) /\ k \in 1..(b - a + 1) /\ k \in 1..(c - a + 1)
        BY <1>1, <1>3, <2>1
      <3> QED
        BY <1>1, <1>3, <1>4, <3>1
    <2>2. CASE k > Len(x)
      <3> DEFINE j == k - Len(x)
      <3>1. j \in 1..Len(y) /\ j \in 1..(c - b) /\ Len(x) + j = k /\ b + j = a + k - 1 /\ k \in 1..(c - a + 1)
        BY <1>1, <1>2, <1>3, <2>2
      <3> HIDE DEF j
      <3>2. (x \o y)[Len(x) + j] = y[j] /\ y[j] = s[b + j]
        BY <1>2, <1>4, <3>1
      <3>3. z[k] = s[a + k - 1]
        BY <1>3, <3>1
      <3> QED
        BY <3>1, <3>2, <3>3
    <2>3. k <= Len(x) \/ k > Len(x)
      BY <1>3, <1>a
    <2> QED
      BY <2>1, <2>2, <2>3
  <1>7. x \o y = z
    BY <1>3, <1>4, <1>5, <1>6, SeqEqual
  <1> QED
    BY <1>7 DEF x, y, z

\* The first n pieces of a size.
CutUp(bytes, size, n) ==
  [i \in 1..n |-> SubSeq(bytes, (i - 1) * size + 1, Min({i * size, Len(bytes)}))]

\* Pieces of a size put together are what they are cut from.
LEMMA PiecesJoined ==
  ASSUME NEW S, NEW bytes \in Seq(S), NEW size \in Nat \ {0}, NEW n \in Nat, n * size >= Len(bytes)
  PROVE  /\ CutUp(bytes, size, n) \in Seq(Seq(S)) /\ Len(CutUp(bytes, size, n)) = n
         /\ FlattenSeq(CutUp(bytes, size, n)) = bytes
  <1> DEFINE seqs == CutUp(bytes, size, n)
             l == Len(bytes)
             m(i) == Min({i * size, l})
             piece(i) == SubSeq(bytes, (i - 1) * size + 1, m(i))
             f == [i \in 0..n |-> SubSeq(bytes, 1, m(i))]
  <1>1. l \in Nat
    OBVIOUS
  <1>2. ASSUME NEW i \in Nat PROVE i * size \in Nat /\ m(i) = (IF i * size <= l THEN i * size ELSE l) /\ m(i) \in 0..l
    <2> DEFINE a == i * size
    <2>1. a \in Nat
      BY Multiples
    <2> HIDE DEF a, l
    <2>2. Min({a, l}) = IF a <= l THEN a ELSE l
      BY <1>1, <2>1, MinOfTwo
    <2> QED
      BY <1>1, <2>1, <2>2 DEF a
  <1> HIDE DEF l, m
  <1>3. ASSUME NEW i \in 1..n
        PROVE  piece(i) \in Seq(S) /\ SubSeq(bytes, 1, m(i - 1)) \o piece(i) = SubSeq(bytes, 1, m(i))
    <2> DEFINE a == (i - 1) * size
               b == m(i - 1)
               c == m(i)
    <2>1. i \in Nat /\ i - 1 \in Nat
      OBVIOUS
    <2>2. a \in Nat /\ i * size = a + size /\ i * size \in Nat
      BY <2>1, Multiples
    <2>3. b = (IF a <= l THEN a ELSE l) /\ c = (IF i * size <= l THEN i * size ELSE l) /\ b \in 0..l /\ c \in 0..l
      BY <1>2, <2>1
    <2>4. b <= c
      <3> HIDE DEF a, b, c
      <3> QED
        BY <1>1, <2>2, <2>3
    <2>5. a + 1 \in Nat \ {0} /\ c \in Nat /\ c <= Len(bytes)
      BY <1>1, <2>2, <2>3 DEF l
    <2> HIDE DEF a, b, c
    <2>6. SubSeq(bytes, a + 1, c) \in Seq(S)
      <3> DEFINE d == a + 1
      <3>1. d \in Nat \ {0} /\ c \in Nat /\ c <= Len(bytes)
        BY <2>5
      <3> HIDE DEF d
      <3>2. SubSeq(bytes, d, c) \in Seq(S)
        BY <3>1, SubSeqIs
      <3> QED
        BY <3>2 DEF d
    <2>7. SubSeq(bytes, 1, b) \o SubSeq(bytes, b + 1, c) = SubSeq(bytes, 1, c)
      <3> DEFINE one == 1
      <3>1. one \in Nat \ {0} /\ one <= b + 1 /\ b \in Nat /\ c \in Nat /\ c <= Len(bytes)
        BY <1>1, <2>3, <2>5
      <3> HIDE DEF one
      <3>2. SubSeq(bytes, one, b) \o SubSeq(bytes, b + 1, c) = SubSeq(bytes, one, c)
        BY <2>4, <3>1, SubSeqJoined
      <3> QED
        BY <3>2 DEF one
    <2>8. SubSeq(bytes, a + 1, c) = SubSeq(bytes, b + 1, c)
      <3>1. CASE a <= l
        BY <2>3, <3>1
      <3>2. CASE a > l
        <4>1. b = l /\ c = l
          BY <1>1, <2>2, <2>3, <3>2
        <4>2. SubSeq(bytes, a + 1, c) = <<>> /\ SubSeq(bytes, b + 1, c) = <<>>
          <5> DEFINE d == a + 1
                     e == b + 1
          <5>1. d \in Nat \ {0} /\ e \in Nat \ {0} /\ ~(d <= c) /\ ~(e <= c) /\ c \in Nat /\ c <= Len(bytes)
            BY <1>1, <2>2, <2>3, <2>5, <3>2, <4>1
          <5> HIDE DEF d, e
          <5>2. SubSeq(bytes, d, c) \in Seq(S) /\ Len(SubSeq(bytes, d, c)) = 0
            BY <5>1, SubSeqIs
          <5>3. SubSeq(bytes, e, c) \in Seq(S) /\ Len(SubSeq(bytes, e, c)) = 0
            BY <5>1, SubSeqIs
          <5> QED
            BY <5>2, <5>3, EmptySeq DEF d, e
        <4> QED
          BY <4>2
      <3>3. a <= l \/ a > l
        BY <1>1, <2>2
      <3> QED
        BY <3>1, <3>2, <3>3
    <2> QED
      BY <2>6, <2>7, <2>8 DEF a, b, c
  <1>4. seqs = [i \in 1..n |-> piece(i)]
    BY DEF l, m, CutUp
  <1> HIDE DEF piece, seqs
  <1>5. seqs \in Seq(Seq(S)) /\ Len(seqs) = n /\ \A i \in 1..n : seqs[i] = piece(i)
    <2>1. \A i \in 1..n : piece(i) \in Seq(S)
      BY <1>3
    <2>2. \A i \in 1..n : seqs[i] = piece(i)
      BY <1>4
    <2>3. seqs \in [1..n -> Seq(S)]
      BY <1>4, <2>1
    <2>4. seqs \in Seq(Seq(S))
      <3> DEFINE T == Seq(S)
                 all == [i \in 1..n |-> piece(i)]
      <3>1. \A i \in 1..n : piece(i) \in T
        BY <2>1
      <3> HIDE DEF T
      <3>2. all \in Seq(T)
        BY <3>1
      <3> QED
        BY <1>4, <3>2 DEF T
    <2>5. Len(seqs) = n
      BY <1>4
    <2> QED
      BY <2>2, <2>4, <2>5
  <1>6. Joins(f, seqs, S)
    <2>1. \A i \in 0..n : SubSeq(bytes, 1, m(i)) \in Seq(S)
      <3> TAKE i \in 0..n
      <3> DEFINE one == 1
                 c == m(i)
      <3>1. one \in Nat \ {0} /\ c \in Nat /\ c <= Len(bytes)
        <4>1. i \in Nat
          OBVIOUS
        <4>2. c \in 0..l
          BY <1>2, <4>1
        <4> QED
          BY <1>1, <4>2 DEF l
      <3> HIDE DEF one, c
      <3>2. SubSeq(bytes, one, c) \in Seq(S)
        BY <3>1, SubSeqIs
      <3> QED
        BY <3>2 DEF one, c
    <2>2. f \in [0..n -> Seq(S)]
      BY <2>1
    <2>3. f[0] = <<>>
      <3>1. m(0) = 0
        BY <1>1, <1>2
      <3>2. f[0] = SubSeq(bytes, 1, 0)
        BY <3>1
      <3> QED
        BY <3>2, SubSeqNone
    <2>4. \A i \in 1..n : f[i] = f[i - 1] \o seqs[i]
      <3> TAKE i \in 1..n
      <3>1. i \in 0..n /\ i - 1 \in 0..n
        OBVIOUS
      <3>2. f[i] = SubSeq(bytes, 1, m(i)) /\ f[i - 1] = SubSeq(bytes, 1, m(i - 1))
        BY <3>1
      <3> HIDE DEF f
      <3> QED
        BY <1>3, <1>5, <3>2
    <2> HIDE DEF f
    <2> QED
      BY <1>5, <2>2, <2>3, <2>4 DEF Joins
  <1>7. f[n] = bytes
    <2>1. m(n) = l
      <3>1. n * size \in Nat /\ m(n) = IF n * size <= l THEN n * size ELSE l
        BY <1>2
      <3>2. n * size >= l
        BY DEF l
      <3> QED
        BY <1>1, <3>1, <3>2
    <2>2. f[n] = SubSeq(bytes, 1, l)
      <3>1. n \in 0..n
        OBVIOUS
      <3>2. f[n] = SubSeq(bytes, 1, m(n))
        BY <3>1
      <3> QED
        BY <2>1, <3>2
    <2> QED
      BY <2>2, SubSeqAll DEF l
  <1> HIDE DEF f
  <1>8. FlattenSeq(seqs) = f[n]
    BY <1>5, <1>6, Flattened
  <1> QED
    BY <1>5, <1>7, <1>8 DEF seqs

LEMMA FunctionIsSeq ==
  ASSUME NEW T, NEW n \in Nat, NEW s \in [1..n -> T]
  PROVE  s \in Seq(T) /\ Len(s) = n
  <1> DEFINE all == [i \in 1..n |-> s[i]]
  <1>1. all \in Seq(T) /\ Len(all) = n
    OBVIOUS
  <1> QED
    BY <1>1

LEMMA ConcatNone ==
  ASSUME NEW S, NEW s \in Seq(S)
  PROVE  s \o <<>> = s
  BY ConcatEmptySeq

-----------------------------------------------------------------------------
(***************************************************************************)
(* Packets as they are written.                                            *)
(***************************************************************************)

\* The bodies of the packets of a payload: full ones, and one that is not.
Bodies(payload) == CutUp(payload, MaxPacket, Len(payload) \div MaxPacket + 1)

LEMMA BodiesAre ==
  ASSUME NEW S, NEW payload \in Seq(S)
  PROVE  LET q == Len(payload) \div MaxPacket  bodies == Bodies(payload) IN
         /\ q \in Nat /\ bodies \in Seq(Seq(S)) /\ Len(bodies) = q + 1 /\ FlattenSeq(bodies) = payload
         /\ \A i \in 1..q : Len(bodies[i]) = MaxPacket
         /\ Len(bodies[q + 1]) = Len(payload) % MaxPacket
  <1> DEFINE l == Len(payload)
             m == MaxPacket
             q == l \div m
             r == l % m
             n == q + 1
             bodies == Bodies(payload)
  <1>1. l \in Nat /\ m \in Nat \ {0}
    BY FramingAssumption
  <1>2. q \in Nat /\ r \in 0..(m - 1) /\ r = l - m * q
    <2> HIDE DEF l, m
    <2> QED
      BY <1>1, Division
  <1> HIDE DEF l, m, q, r
  <1>3. q * m \in Nat /\ (q + 1) * m = q * m + m /\ q * m = m * q /\ q * m + r = l
    BY <1>1, <1>2, Multiples
  <1>4. bodies = CutUp(payload, m, n)
    BY DEF Bodies, l, m, q
  <1>5. n \in Nat /\ n * m >= Len(payload)
    BY <1>1, <1>2, <1>3 DEF l
  <1> HIDE DEF bodies, n
  <1>6. bodies \in Seq(Seq(S)) /\ Len(bodies) = n /\ FlattenSeq(bodies) = payload
    BY <1>1, <1>4, <1>5, PiecesJoined
  <1>7. ASSUME NEW i \in 1..n
        PROVE  Len(bodies[i]) = IF i * m <= l THEN m ELSE IF (i - 1) * m + 1 <= l THEN l - (i - 1) * m ELSE 0
    <2> DEFINE a == (i - 1) * m
               b == i * m
    <2>1. a \in Nat /\ b \in Nat /\ b = a + m
      <3>1. i \in Nat /\ i - 1 \in Nat
        BY <1>5
      <3> QED
        BY <1>1, <3>1, Multiples
    <2>2. bodies[i] = SubSeq(payload, a + 1, Min({b, l}))
      BY <1>4 DEF l, CutUp
    <2> HIDE DEF a, b
    <2>3. Min({b, l}) = IF b <= l THEN b ELSE l
      BY <1>1, <2>1, MinOfTwo
    <2> DEFINE c == a + 1
               d == Min({b, l})
    <2>4. c \in Nat \ {0} /\ d \in Nat /\ d <= Len(payload) /\ d = IF b <= l THEN b ELSE l
      BY <1>1, <2>1, <2>3 DEF l
    <2>5. bodies[i] = SubSeq(payload, c, d) /\ c = a + 1
      BY <2>2
    <2> HIDE DEF c, d
    <2>6. Len(SubSeq(payload, c, d)) = IF c <= d THEN d - c + 1 ELSE 0
      BY <2>4, SubSeqIs
    <2>7. Len(bodies[i]) = IF b <= l THEN m ELSE IF a + 1 <= l THEN l - a ELSE 0
      BY <1>1, <2>1, <2>4, <2>5, <2>6
    <2> QED
      BY <2>7 DEF a, b
  <1>8. ASSUME NEW i \in 1..q PROVE Len(bodies[i]) = m
    <2>1. i \in 1..n /\ i \in Nat /\ i <= q
      BY <1>2 DEF n
    <2>2. i * m <= q * m /\ i * m \in Nat
      BY <1>1, <1>2, <2>1, Monotone
    <2>3. i * m <= l
      BY <1>1, <1>2, <1>3, <2>2
    <2> QED
      BY <1>7, <2>1, <2>3
  <1>9. Len(bodies[q + 1]) = r
    <2>1. n \in 1..n /\ n = q + 1 /\ n - 1 = q
      BY <1>2 DEF n
    <2>2. ~(n * m <= l)
      BY <1>1, <1>2, <1>3, <2>1
    <2>3. Len(bodies[n]) = IF (n - 1) * m + 1 <= l THEN l - (n - 1) * m ELSE 0
      BY <1>7, <2>1, <2>2
    <2>4. Len(bodies[n]) = IF q * m + 1 <= l THEN l - q * m ELSE 0
      BY <2>1, <2>3
    <2> QED
      BY <1>1, <1>2, <1>3, <2>1, <2>4
  <1> QED
    BY <1>2, <1>6, <1>8, <1>9 DEF n, q, l, m, r, bodies

\* Neither writer has another list of packets.
LEMMA WritersAlike ==
  ASSUME NEW S, NEW payload \in Seq(S), NEW first \in Nat
  PROVE  /\ ClientPackets(payload, first) = Numbered(Bodies(payload), first)
         /\ ServerPackets(payload, first) = Numbered(Bodies(payload), first)
  <1> DEFINE l == Len(payload)
             m == MaxPacket
             q == l \div m
             r == l % m
             pieces == Pieces(payload)
             bodies == Bodies(payload)
             cut == Cut(payload, m)
             count == (l + m - 1) \div m
             none == <<>>
             tail == << <<>> >>
  <1>1. l \in Nat /\ m \in Nat \ {0}
    BY FramingAssumption
  <1>2. q \in Nat /\ r \in 0..(m - 1) /\ r = l - m * q
    <2> HIDE DEF l, m
    <2> QED
      BY <1>1, Division
  <1>3. /\ bodies \in Seq(Seq(S)) /\ Len(bodies) = q + 1
        /\ \A i \in 1..q : Len(bodies[i]) = m
        /\ Len(bodies[q + 1]) = r
    BY BodiesAre
  <1>4. bodies = CutUp(payload, m, q + 1) /\ cut = CutUp(payload, m, count)
    BY DEF Bodies, Cut, CutUp
  <1>5. /\ ClientPackets(payload, first)
             = Numbered(pieces \o IF Len(pieces[Len(pieces)]) = m THEN tail ELSE none, first)
        /\ ServerPackets(payload, first)
             = Numbered(pieces \o IF payload # <<>> /\ r = 0 THEN tail ELSE none, first)
        /\ pieces = IF payload = <<>> THEN tail ELSE cut
    BY DEF ClientPackets, ServerPackets, Pieces, Last
  <1> HIDE DEF l, m, q, r, pieces, bodies, cut, count, none, tail
  <1>6. r # 0 => count = q + 1
    <2> SUFFICES ASSUME r # 0 PROVE count = q + 1
      OBVIOUS
    <2>1. q + 1 \in Nat /\ r - 1 \in 0..(m - 1)
      BY <1>1, <1>2
    <2>2. l + m - 1 = m * (q + 1) + (r - 1)
      BY <1>1, <1>2
    <2> DEFINE q1 == q + 1
               r1 == r - 1
    <2> HIDE DEF q1, r1
    <2>3. (m * q1 + r1) \div m = q1
      BY <1>1, <2>1, Quotient DEF q1, r1
    <2> QED
      BY <2>2, <2>3 DEF q1, r1, count
  <1>7. r = 0 => count = q
    <2> SUFFICES ASSUME r = 0 PROVE count = q
      OBVIOUS
    <2>1. l + m - 1 = m * q + (m - 1) /\ m - 1 \in 0..(m - 1)
      BY <1>1, <1>2
    <2> DEFINE r1 == m - 1
    <2>2. r1 \in 0..(m - 1)
      BY <2>1
    <2> HIDE DEF r1
    <2>3. (m * q + r1) \div m = q
      BY <1>1, <1>2, <2>2, Quotient
    <2> QED
      BY <2>1, <2>3 DEF r1, count
  <1>8. none = <<>> /\ tail \in Seq(Seq(S)) /\ Len(tail) = 1 /\ tail[1] = <<>> /\ <<>> \in Seq(S)
    <2> DEFINE T == Seq(S)
    <2>1. <<>> \in T
      OBVIOUS
    <2> HIDE DEF T
    <2>2. << <<>> >> \in Seq(T)
      BY <2>1
    <2> QED
      BY <2>1, <2>2 DEF T, none, tail
  <1>9. (l = 0) <=> payload = <<>>
    BY EmptySeq DEF l
  <1>10. bodies \o none = bodies
    BY <1>3, <1>8, ConcatNone
  <1>11. CASE r # 0
    <2>1. payload # <<>> /\ cut = bodies /\ r # m
      <3>1. l # 0
        BY <1>1, <1>2, <1>11
      <3> QED
        BY <1>1, <1>2, <1>4, <1>6, <1>9, <1>11, <3>1
    <2>2. Len(pieces) = q + 1 /\ pieces = bodies /\ Len(pieces[q + 1]) # m
      BY <1>3, <1>5, <2>1
    <2>3. ClientPackets(payload, first) = Numbered(bodies \o none, first)
      BY <1>5, <2>2
    <2>4. ServerPackets(payload, first) = Numbered(bodies \o none, first)
      BY <1>5, <1>11, <2>2
    <2> QED
      BY <1>10, <2>3, <2>4 DEF bodies
  <1>12. CASE r = 0 /\ payload # <<>>
    <2>1. l # 0 /\ q # 0 /\ q \in 1..q /\ count = q
      BY <1>1, <1>2, <1>7, <1>9, <1>12
    <2>2. pieces = CutUp(payload, m, q) /\ q * m >= Len(payload)
      <3>1. q * m = m * q
        BY <1>1, <1>2
      <3> QED
        BY <1>1, <1>2, <1>4, <1>5, <1>12, <2>1, <3>1 DEF l
    <2>3. pieces \in Seq(Seq(S)) /\ Len(pieces) = q
      <3>1. CutUp(payload, m, q) \in Seq(Seq(S)) /\ Len(CutUp(payload, m, q)) = q
        BY <1>1, <1>2, <2>2, PiecesJoined
      <3> QED
        BY <2>2, <3>1
    <2>4. \A i \in 1..q : pieces[i] = bodies[i]
      <3> TAKE i \in 1..q
      <3> DEFINE piece == SubSeq(payload, (i - 1) * m + 1, Min({i * m, Len(payload)}))
      <3>1. i \in 1..(q + 1)
        BY <1>2
      <3>2. CutUp(payload, m, q)[i] = piece
        BY DEF CutUp
      <3>3. CutUp(payload, m, q + 1)[i] = piece
        BY <3>1 DEF CutUp
      <3> HIDE DEF piece
      <3> QED
        BY <1>4, <2>2, <3>2, <3>3
    <2>5. bodies[q + 1] = <<>>
      <3>1. q + 1 \in 1..Len(bodies)
        BY <1>2, <1>3
      <3>2. bodies[q + 1] \in Seq(S)
        BY <1>3, <3>1
      <3> QED
        BY <1>3, <1>12, <3>2, EmptySeq
    <2>6. pieces \o tail = bodies
      <3> DEFINE T == Seq(S)
                 x == pieces \o tail
      <3>1. pieces \in Seq(T) /\ tail \in Seq(T) /\ bodies \in Seq(T)
        BY <1>3, <1>8, <2>3
      <3> HIDE DEF T
      <3>2. /\ x \in Seq(T) /\ Len(x) = Len(pieces) + Len(tail)
            /\ \A k \in 1..Len(pieces) : x[k] = pieces[k]
            /\ \A k \in 1..Len(tail) : x[Len(pieces) + k] = tail[k]
        BY <3>1, Concatenated
      <3> HIDE DEF x
      <3>3. Len(x) = q + 1
        BY <1>2, <1>8, <2>3, <3>2
      <3>4. x[q + 1] = <<>>
        <4>1. 1 \in 1..Len(tail)
          BY <1>8
        <4> QED
          BY <1>8, <2>3, <3>2, <4>1
      <3>5. ASSUME NEW k \in 1..(q + 1) PROVE x[k] = bodies[k]
        <4>1. CASE k = q + 1
          BY <2>5, <3>4, <4>1
        <4>2. CASE k # q + 1
          <5>1. k \in 1..q
            BY <1>2, <4>2
          <5> QED
            BY <2>3, <2>4, <3>2, <5>1
        <4> QED
          BY <4>1, <4>2
      <3>6. x = bodies
        BY <1>3, <3>1, <3>2, <3>3, <3>5, SeqEqual
      <3> QED
        BY <3>6 DEF x
    <2>7. Len(pieces[Len(pieces)]) = m
      BY <1>3, <2>1, <2>3, <2>4
    <2>8. ClientPackets(payload, first) = Numbered(bodies, first)
      BY <1>5, <2>6, <2>7
    <2>9. ServerPackets(payload, first) = Numbered(bodies, first)
      BY <1>5, <1>12, <2>6
    <2> QED
      BY <2>8, <2>9 DEF bodies
  <1>13. CASE payload = <<>>
    <2>1. l = 0 /\ q = 0 /\ r = 0
      BY <1>1, <1>2, <1>9, <1>13
    <2>2. pieces = tail
      BY <1>5, <1>13
    <2>3. bodies = tail
      <3> DEFINE T == Seq(S)
      <3>1. bodies[1] \in Seq(S) /\ Len(bodies) = 1 /\ Len(bodies[1]) = 0
        <4>1. q + 1 = 1 /\ 1 \in 1..1
          BY <2>1
        <4>2. Len(bodies) = 1 /\ Len(bodies[1]) = 0
          BY <1>3, <2>1, <4>1
        <4>3. bodies[1] \in Seq(S)
          BY <1>3, <4>1, <4>2
        <4> QED
          BY <4>2, <4>3
      <3>2. bodies[1] = <<>>
        BY <3>1, EmptySeq
      <3>3. bodies \in Seq(T) /\ tail \in Seq(T)
        BY <1>3, <1>8
      <3> HIDE DEF T
      <3>4. Len(tail) = Len(bodies) /\ \A k \in 1..Len(bodies) : bodies[k] = tail[k]
        BY <1>8, <3>1, <3>2
      <3> QED
        BY <3>3, <3>4, SeqEqual
    <2>4. Len(pieces[Len(pieces)]) # m
      <3>1. pieces[Len(pieces)] = <<>>
        BY <1>8, <2>2
      <3> QED
        BY <1>1, <3>1
    <2>5. ClientPackets(payload, first) = Numbered(bodies \o none, first)
      BY <1>5, <2>2, <2>3, <2>4
    <2>6. ServerPackets(payload, first) = Numbered(bodies \o none, first)
      BY <1>5, <1>13, <2>2, <2>3
    <2> QED
      BY <1>10, <2>5, <2>6 DEF bodies
  <1> QED
    BY <1>11, <1>12, <1>13
LEMMA PacketIs ==
  ASSUME NEW id \in Nat, NEW body \in Seq(Nat)
  PROVE  /\ Packet(id, body) \in Seq(Nat) /\ Len(Packet(id, body)) = HeaderLength + Len(body)
         /\ id % IdMod \in Nat /\ Len(body) \in Nat
  <1> DEFINE r == id % IdMod
             l == Len(body)
             head == <<l, 0, 0, r>>
  <1>1. IdMod \in Nat \ {0}
    BY FramingAssumption
  <1>2. r \in Nat /\ l \in Nat
    BY <1>1
  <1>3. Packet(id, body) = head \o body
    BY DEF Packet
  <1> HIDE DEF r, l
  <1>4. head \in Seq(Nat) /\ Len(head) = 4
    BY <1>2
  <1> HIDE DEF head
  <1>5. head \o body \in Seq(Nat) /\ Len(head \o body) = Len(head) + Len(body)
    BY <1>4, Concatenated
  <1> QED
    BY <1>2, <1>3, <1>4, <1>5 DEF HeaderLength, r, l

\* What is where in a packet.
PacketAt(stream, at, id, body) ==
  /\ stream[at] = Len(body) /\ stream[at + 3] = id % IdMod
  /\ Holds(stream, at + HeaderLength, body)

LEMMA PacketHeld ==
  ASSUME NEW stream \in Seq(Nat), NEW at \in Nat \ {0}, NEW id \in Nat, NEW body \in Seq(Nat),
         Holds(stream, at, Packet(id, body))
  PROVE  PacketAt(stream, at, id, body)
  <1> DEFINE r == id % IdMod
             l == Len(body)
             head == <<l, 0, 0, r>>
  <1>1. r \in Nat /\ l \in Nat
    BY PacketIs
  <1>2. Packet(id, body) = head \o body
    BY DEF Packet
  <1> HIDE DEF r, l
  <1>3. head \in Seq(Nat) /\ Len(head) = 4 /\ head[1] = l /\ head[4] = r
    BY <1>1
  <1> HIDE DEF head
  <1>4. Holds(stream, at, head) /\ Holds(stream, at + Len(head), body)
    BY <1>2, <1>3, HoldsParts
  <1>5. \A k \in 1..4 : stream[at + k - 1] = head[k]
    BY <1>3, <1>4 DEF Holds
  <1>6. stream[at + 1 - 1] = head[1] /\ stream[at + 4 - 1] = head[4] /\ at + 1 - 1 = at /\ at + 4 - 1 = at + 3
    BY <1>5
  <1>7. stream[at] = l /\ stream[at + 3] = r
    BY <1>3, <1>6
  <1>8. Holds(stream, at + HeaderLength, body)
    BY <1>3, <1>4 DEF HeaderLength
  <1> QED
    BY <1>7, <1>8 DEF PacketAt, r, l

\* Where the packets of a payload are.
PacketsAt(stream, at, id, bodies, place) ==
  /\ place \in [0..Len(bodies) -> Nat \ {0}]
  /\ place[0] = at
  /\ place[Len(bodies)] = at + Len(Numbered(bodies, id))
  /\ \A i \in 1..Len(bodies) :
       /\ i - 1 \in 0..Len(bodies) /\ place[i - 1] \in Nat \ {0}
       /\ place[i] = place[i - 1] + (HeaderLength + Len(bodies[i]))
       /\ place[i] - 1 <= Len(stream)
       /\ PacketAt(stream, place[i - 1], id + i - 1, bodies[i])

LEMMA NumberedIs ==
  ASSUME NEW id \in Nat, NEW bodies \in Seq(Seq(Nat))
  PROVE  LET packets == [i \in DOMAIN bodies |-> Packet(id + i - 1, bodies[i])] IN
         /\ packets \in Seq(Seq(Nat)) /\ Len(packets) = Len(bodies) /\ Numbered(bodies, id) = FlattenSeq(packets)
         /\ \A i \in 1..Len(bodies) : /\ packets[i] = Packet(id + i - 1, bodies[i])
                                      /\ bodies[i] \in Seq(Nat) /\ id + i - 1 \in Nat
                                      /\ Len(packets[i]) = HeaderLength + Len(bodies[i])
  <1> DEFINE n == Len(bodies)
             packets == [i \in DOMAIN bodies |-> Packet(id + i - 1, bodies[i])]
             T == Seq(Nat)
  <1>1. n \in Nat /\ DOMAIN bodies = 1..n /\ \A i \in 1..n : bodies[i] \in Seq(Nat)
    OBVIOUS
  <1> HIDE DEF n
  <1>2. \A i \in 1..n : id + i - 1 \in Nat
    BY <1>1
  <1>3. \A i \in 1..n : /\ Packet(id + i - 1, bodies[i]) \in T
                        /\ Len(Packet(id + i - 1, bodies[i])) = HeaderLength + Len(bodies[i])
    BY <1>1, <1>2, PacketIs
  <1> HIDE DEF T
  <1>4. packets \in [1..n -> T]
    BY <1>1, <1>3
  <1>5. \A i \in 1..n : packets[i] = Packet(id + i - 1, bodies[i])
    BY <1>1
  <1>6. Numbered(bodies, id) = FlattenSeq(packets)
    BY DEF Numbered
  <1> HIDE DEF packets
  <1>7. packets \in Seq(T) /\ Len(packets) = n
    BY <1>1, <1>4, FunctionIsSeq
  <1> QED
    BY <1>1, <1>2, <1>3, <1>5, <1>6, <1>7 DEF n, packets, T

LEMMA PacketsPlaced ==
  ASSUME NEW stream \in Seq(Nat), NEW at \in Nat \ {0}, NEW id \in Nat, NEW bodies \in Seq(Seq(Nat)),
         Holds(stream, at, Numbered(bodies, id))
  PROVE  Numbered(bodies, id) \in Seq(Nat) /\ \E place : PacketsAt(stream, at, id, bodies, place)
  <1> DEFINE n == Len(bodies)
             packets == [i \in DOMAIN bodies |-> Packet(id + i - 1, bodies[i])]
  <1>1. /\ packets \in Seq(Seq(Nat)) /\ Len(packets) = n /\ Numbered(bodies, id) = FlattenSeq(packets)
        /\ \A i \in 1..n : /\ packets[i] = Packet(id + i - 1, bodies[i])
                           /\ bodies[i] \in Seq(Nat) /\ id + i - 1 \in Nat
                           /\ Len(packets[i]) = HeaderLength + Len(bodies[i])
    BY NumberedIs
  <1> HIDE DEF packets
  <1>2. Numbered(bodies, id) \in Seq(Nat) /\ \E place : Places(stream, at, packets, place)
    BY <1>1, Placed
  <1>3. PICK place : Places(stream, at, packets, place)
    BY <1>2
  <1> HIDE DEF n
  <1>4. /\ place \in [0..n -> Nat \ {0}] /\ place[0] = at
        /\ place[n] = at + Len(Numbered(bodies, id))
        /\ \A i \in 1..n : /\ i - 1 \in 0..n /\ place[i - 1] \in Nat \ {0}
                           /\ place[i] = place[i - 1] + Len(packets[i])
                           /\ Holds(stream, place[i - 1], packets[i])
    BY <1>1, <1>3 DEF Places
  <1>5. ASSUME NEW i \in 1..n
        PROVE  /\ i - 1 \in 0..n /\ place[i - 1] \in Nat \ {0}
               /\ place[i] = place[i - 1] + (HeaderLength + Len(bodies[i]))
               /\ place[i] - 1 <= Len(stream)
               /\ PacketAt(stream, place[i - 1], id + i - 1, bodies[i])
    <2> DEFINE x == place[i - 1]
               number == id + i - 1
               packet == packets[i]
               body == bodies[i]
    <2>1. x \in Nat \ {0} /\ number \in Nat /\ body \in Seq(Nat) /\ packet = Packet(number, body)
      BY <1>1, <1>4
    <2>2. Holds(stream, x, packet) /\ place[i] = x + Len(packet) /\ Len(packet) = HeaderLength + Len(body)
      BY <1>1, <1>4
    <2>3. i - 1 \in 0..n
      BY <1>4
    <2> HIDE DEF x, number, packet, body
    <2>4. PacketAt(stream, x, number, body)
      BY <2>1, <2>2, PacketHeld
    <2>5. x + Len(packet) - 1 <= Len(stream)
      BY <2>2 DEF Holds
    <2>6. place[i] = x + (HeaderLength + Len(body)) /\ place[i] - 1 <= Len(stream)
      <3> DEFINE y == place[i]
                 l == Len(packet)
      <3>1. y = x + l /\ l = HeaderLength + Len(body) /\ x + l - 1 <= Len(stream)
        BY <2>2, <2>5
      <3>2. l \in Nat /\ x \in Nat /\ Len(stream) \in Nat
        BY <2>1, PacketIs
      <3> HIDE DEF y, l
      <3>3. y = x + (HeaderLength + Len(body))
        BY <3>1
      <3>4. y - 1 <= Len(stream)
        BY <3>1, <3>2
      <3> QED
        BY <3>3, <3>4 DEF y
    <2> QED
      BY <2>1, <2>3, <2>4, <2>6 DEF x, number, body
  <1>6. PacketsAt(stream, at, id, bodies, place)
    BY <1>4, <1>5 DEF PacketsAt, n
  <1> QED
    BY <1>2, <1>6
\* A payload's packets in a stream: all but the last are full.
PayloadAt(stream, at, id, payload, place) ==
  LET q == Len(payload) \div MaxPacket  bodies == Bodies(payload) IN
  /\ q \in Nat /\ bodies \in Seq(Seq(Nat)) /\ Len(bodies) = q + 1 /\ FlattenSeq(bodies) = payload
  /\ place \in [0..(q + 1) -> Nat \ {0}] /\ place[0] = at
  /\ place[q + 1] = at + Len(Numbered(bodies, id))
  /\ \A i \in 1..(q + 1) :
       /\ i - 1 \in 0..(q + 1) /\ place[i - 1] \in Nat \ {0}
       /\ bodies[i] \in Seq(Nat) /\ Len(bodies[i]) \in Nat
       /\ place[i] = place[i - 1] + (HeaderLength + Len(bodies[i]))
       /\ place[i] - 1 <= Len(stream)
       /\ PacketAt(stream, place[i - 1], id + i - 1, bodies[i])
       /\ i # q + 1 => Len(bodies[i]) = MaxPacket
  /\ Len(bodies[q + 1]) < MaxPacket
  /\ 4 * (q + 1) <= Len(stream) - (at - 1)

LEMMA PayloadPlaced ==
  ASSUME NEW stream \in Seq(Nat), NEW at \in Nat \ {0}, NEW id \in Nat, NEW payload \in Seq(Nat),
         Holds(stream, at, Numbered(Bodies(payload), id))
  PROVE  /\ Numbered(Bodies(payload), id) \in Seq(Nat)
         /\ \E place : PayloadAt(stream, at, id, payload, place)
  <1> DEFINE l == Len(payload)
             m == MaxPacket
             q == l \div m
             bodies == Bodies(payload)
  <1>1. l \in Nat /\ m \in Nat \ {0}
    BY FramingAssumption
  <1>2. l % m \in 0..(m - 1)
    <2> HIDE DEF l, m
    <2> QED
      BY <1>1, Division
  <1>3. /\ q \in Nat /\ bodies \in Seq(Seq(Nat)) /\ Len(bodies) = q + 1 /\ FlattenSeq(bodies) = payload
        /\ \A i \in 1..q : Len(bodies[i]) = m
        /\ Len(bodies[q + 1]) = l % m
    BY BodiesAre
  <1> HIDE DEF bodies, q
  <1>4. Numbered(bodies, id) \in Seq(Nat) /\ \E place : PacketsAt(stream, at, id, bodies, place)
    BY <1>3, PacketsPlaced DEF bodies
  <1>5. PICK place : PacketsAt(stream, at, id, bodies, place)
    BY <1>4
  <1> DEFINE n == q + 1
  <1>6. /\ place \in [0..n -> Nat \ {0}] /\ place[0] = at
        /\ place[n] = at + Len(Numbered(bodies, id))
        /\ \A i \in 1..n :
             /\ i - 1 \in 0..n /\ place[i - 1] \in Nat \ {0}
             /\ place[i] = place[i - 1] + (HeaderLength + Len(bodies[i]))
             /\ place[i] - 1 <= Len(stream)
             /\ PacketAt(stream, place[i - 1], id + i - 1, bodies[i])
    BY <1>3, <1>5 DEF PacketsAt
  <1>7. \A i \in 1..n : /\ bodies[i] \in Seq(Nat) /\ Len(bodies[i]) \in Nat
                        /\ i # n => i \in 1..q
    <2>1. \A i \in 1..n : bodies[i] \in Seq(Nat)
      BY <1>3
    <2>2. \A i \in 1..n : Len(bodies[i]) \in Nat
      BY <2>1
    <2> QED
      BY <1>3, <2>1, <2>2
  <1>8. Len(bodies[n]) < m
    BY <1>1, <1>2, <1>3
  <1>9. 4 * n <= Len(stream) - (at - 1)
    <2> DEFINE P == {k \in Nat : k <= n => place[k] \in Nat \ {0} /\ place[k] >= at + 4 * k}
    <2>1. 0 \in P
      BY <1>3, <1>6
    <2>2. ASSUME NEW k \in Nat, k \in P PROVE k + 1 \in P
      <3> DEFINE j == k + 1
                 x == place[k]
                 b == Len(bodies[j])
      <3> SUFFICES ASSUME j <= n PROVE place[j] \in Nat \ {0} /\ place[j] >= at + 4 * j
        OBVIOUS
      <3>1. j \in 1..n /\ j - 1 = k /\ k <= n
        BY <1>3
      <3>2. x \in Nat \ {0} /\ x >= at + 4 * k
        BY <2>2, <3>1
      <3> HIDE DEF x, b
      <3>3. b \in Nat /\ place[j] = x + (4 + b)
        <4> HIDE DEF j, n
        <4> QED
          BY <1>6, <1>7, <3>1 DEF HeaderLength, x, b
      <3>4. x + (4 + b) \in Nat \ {0} /\ x + (4 + b) >= at + 4 * j
        BY <3>2, <3>3
      <3> QED
        BY <3>3, <3>4
    <2>3. n \in P
      <3> HIDE DEF P
      <3>1. n \in Nat
        BY <1>3
      <3> HIDE DEF n
      <3> QED
        BY <2>1, <2>2, <3>1, Induction
    <2>4. place[n] >= at + 4 * n /\ place[n] \in Nat
      BY <1>3, <2>3
    <2>5. place[n] - 1 <= Len(stream)
      <3>1. n \in 1..n
        BY <1>3
      <3> QED
        BY <1>6, <3>1
    <2> DEFINE y == place[n]
    <2> HIDE DEF y
    <2>6. y >= at + 4 * n /\ y \in Nat /\ y - 1 <= Len(stream) /\ n \in Nat
      BY <1>3, <2>4, <2>5 DEF y
    <2> HIDE DEF n
    <2> QED
      BY <2>6
  <1> HIDE DEF m, l
  <1>10. PayloadAt(stream, at, id, payload, place)
    BY <1>3, <1>6, <1>7, <1>8, <1>9 DEF PayloadAt, bodies, q, l, m
  <1> QED
    BY <1>4, <1>10 DEF bodies
\* A packet is read whole, and the next one begins behind it.
LEMMA PayloadRead ==
  ASSUME NEW stream \in Seq(Nat), NEW at \in Nat \ {0}, NEW id \in Nat, NEW payload \in Seq(Nat),
         NEW place, PayloadAt(stream, at, id, payload, place)
  PROVE  ReadPacket(stream, at) = [id |-> id % IdMod, payload |-> payload, next |-> place[Len(payload) \div MaxPacket + 1]]
  <1> DEFINE m == MaxPacket
             q == Len(payload) \div MaxPacket
             n == q + 1
             bodies == Bodies(payload)
             from(k) == at + (k - 1) * (HeaderLength + MaxPacket)
             IsCount(k) == stream[from(k)] < MaxPacket /\ \A j \in 1..(k - 1) : stream[from(j)] = MaxPacket
             count == CHOOSE k \in 1..Len(stream) : IsCount(k)
             after(k) == from(k) + HeaderLength + stream[from(k)]
             read == [k \in 1..count |-> SubSeq(stream, from(k) + HeaderLength, after(k) - 1)]
  <1>1. /\ q \in Nat /\ bodies \in Seq(Seq(Nat)) /\ Len(bodies) = n /\ FlattenSeq(bodies) = payload
        /\ place[0] = at
        /\ \A i \in 1..n :
             /\ i - 1 \in 0..n /\ place[i - 1] \in Nat \ {0}
             /\ bodies[i] \in Seq(Nat) /\ Len(bodies[i]) \in Nat
             /\ place[i] = place[i - 1] + (HeaderLength + Len(bodies[i]))
             /\ PacketAt(stream, place[i - 1], id + i - 1, bodies[i])
             /\ i # n => Len(bodies[i]) = m
        /\ Len(bodies[n]) < m
        /\ 4 * n <= Len(stream) - (at - 1)
    BY DEF PayloadAt
  <1>2. m \in Nat \ {0} /\ HeaderLength = 4
    BY FramingAssumption DEF HeaderLength
  <1>3. ReadPacket(stream, at) = [id |-> stream[at + 3], payload |-> FlattenSeq(read), next |-> after(count)]
    BY DEF ReadPacket
  <1> HIDE DEF m, q, bodies
  <1>4. \A k \in 1..n : from(k) = place[k - 1]
    <2> DEFINE P == {k \in Nat : k + 1 <= n => from(k + 1) = place[k]}
    <2>1. 0 \in P
      <3> DEFINE size == HeaderLength + MaxPacket
      <3>1. size \in Nat /\ from(0 + 1) = at + (0 + 1 - 1) * size
        BY <1>2 DEF m
      <3> HIDE DEF size, from
      <3>2. (0 + 1 - 1) * size = 0
        BY <3>1
      <3>3. from(0 + 1) = place[0]
        BY <1>1, <3>1, <3>2
      <3> QED
        BY <3>3
    <2>2. ASSUME NEW k \in Nat, k \in P PROVE k + 1 \in P
      <3> DEFINE j == k + 1
                 size == HeaderLength + MaxPacket
      <3> SUFFICES ASSUME j + 1 <= n PROVE from(j + 1) = place[j]
        OBVIOUS
      <3>1. j \in 1..n /\ j # n /\ j - 1 = k /\ from(j) = place[k]
        BY <1>1, <2>2
      <3>2. size \in Nat /\ j \in Nat /\ j + 1 - 1 = j
        BY <1>2 DEF m
      <3>3. from(j + 1) = at + j * size /\ from(j) = at + (j - 1) * size
        BY <3>2
      <3>4. place[j] = place[k] + size
        <4> HIDE DEF j, n
        <4> QED
          BY <1>1, <3>1 DEF m
      <3> HIDE DEF size, j, from
      <3>5. (j - 1) * size = j * size - size /\ j * size \in Nat
        BY <3>2, Multiples
      <3> DEFINE a == j * size
                 b == (j - 1) * size
      <3>6. a \in Nat /\ b = a - size /\ from(j + 1) = at + a /\ place[k] = at + b
        BY <3>1, <3>3, <3>5
      <3> HIDE DEF a, b
      <3>7. place[j] = at + b + size
        BY <3>4, <3>6
      <3>8. at + b + size = at + a
        BY <3>2, <3>6
      <3> QED
        BY <3>6, <3>7, <3>8
    <2>3. \A k \in Nat : k \in P
      <3> HIDE DEF P
      <3> QED
        BY <2>1, <2>2, Induction
    <2> TAKE k \in 1..n
    <2> DEFINE i == k - 1
    <2>4. i \in Nat /\ i + 1 = k /\ i + 1 <= n /\ i \in P
      BY <1>1, <2>3
    <2>5. from(i + 1) = place[i]
      BY <2>4
    <2> QED
      BY <2>4, <2>5
  <1>5. ASSUME NEW k \in 1..n
        PROVE  /\ stream[from(k)] = Len(bodies[k]) /\ stream[from(k) + 3] = (id + k - 1) % IdMod
               /\ after(k) = place[k]
               /\ SubSeq(stream, from(k) + HeaderLength, after(k) - 1) = bodies[k]
    <2> DEFINE x == place[k - 1]
               body == bodies[k]
               number == id + k - 1
    <2>1. /\ x \in Nat \ {0} /\ body \in Seq(Nat) /\ Len(body) \in Nat
          /\ place[k] = x + (HeaderLength + Len(body)) /\ PacketAt(stream, x, number, body)
      BY <1>1
    <2>2. from(k) = x
      BY <1>4
    <2> HIDE DEF x, body, from
    <2>3. stream[x] = Len(body) /\ stream[x + 3] = number % IdMod /\ Holds(stream, x + HeaderLength, body)
      BY <2>1 DEF PacketAt
    <2>4. after(k) = x + HeaderLength + Len(body)
      BY <2>2, <2>3
    <2> DEFINE start == x + HeaderLength
    <2>5. start \in Nat \ {0} /\ after(k) = start + Len(body) /\ place[k] = after(k)
      BY <1>2, <2>1, <2>4
    <2> HIDE DEF start
    <2>6. Holds(stream, start, body)
      BY <2>3 DEF start
    <2>7. SubSeq(stream, start, start + Len(body) - 1) = body
      BY <2>1, <2>5, <2>6, HoldsCut
    <2>8. SubSeq(stream, from(k) + HeaderLength, after(k) - 1) = body
      BY <2>2, <2>5, <2>7 DEF start
    <2> QED
      BY <2>2, <2>3, <2>5, <2>8 DEF body
  <1> HIDE DEF from, after
  <1>6. count = n
    <2>1. n \in 1..Len(stream)
      <3>1. n \in Nat /\ n > 0 /\ Len(stream) \in Nat
        BY <1>1
      <3> HIDE DEF n
      <3> QED
        BY <1>1, <3>1
    <2>2. IsCount(n)
      <3>1. \A j \in 1..(n - 1) : j \in 1..n /\ j # n
        BY <1>1
      <3>2. n \in 1..n
        BY <1>1
      <3> HIDE DEF n
      <3> QED
        BY <1>1, <1>5, <3>1, <3>2 DEF m
    <2>3. ASSUME NEW k \in 1..Len(stream), IsCount(k) PROVE k = n
      <3>1. CASE k < n
        <4>1. k \in 1..n /\ k # n
          BY <1>1, <3>1
        <4>2. stream[from(k)] = m
          <5> HIDE DEF n
          <5> QED
            BY <1>1, <1>5, <4>1
        <4>3. stream[from(k)] < m
          BY <2>3 DEF m
        <4> QED
          BY <1>2, <4>2, <4>3
      <3>2. CASE k > n
        <4>1. n \in 1..(k - 1) /\ n \in 1..n
          BY <1>1, <3>2
        <4>2. stream[from(n)] = m
          BY <2>3, <4>1 DEF m
        <4>3. stream[from(n)] < m
          <5> HIDE DEF n
          <5> QED
            BY <1>1, <1>5, <4>1
        <4> QED
          BY <1>2, <4>2, <4>3
      <3> QED
        BY <1>1, <3>1, <3>2
    <2> HIDE DEF IsCount, n
    <2> QED
      BY <2>1, <2>2, <2>3
  <1> HIDE DEF count
  <1>7. read = bodies
    <2>1. bodies = [k \in 1..n |-> bodies[k]]
      BY <1>1
    <2>2. \A k \in 1..n : SubSeq(stream, from(k) + HeaderLength, after(k) - 1) = bodies[k]
      BY <1>5
    <2> HIDE DEF n
    <2> QED
      BY <1>6, <2>1, <2>2
  <1>8. stream[at + 3] = id % IdMod
    <2> DEFINE one == 1
    <2>1. one \in 1..n /\ one - 1 = 0 /\ id + one - 1 = id
      BY <1>1
    <2> HIDE DEF one
    <2>2. from(one) = at
      BY <1>1, <1>4, <2>1
    <2>3. stream[from(one) + 3] = (id + one - 1) % IdMod
      BY <1>5, <2>1
    <2> QED
      BY <2>1, <2>2, <2>3
  <1>9. after(count) = place[n]
    <2>1. n \in 1..n
      BY <1>1
    <2> HIDE DEF n
    <2> QED
      BY <1>5, <1>6, <2>1
  <1> QED
    BY <1>1, <1>3, <1>7, <1>8, <1>9 DEF q

-----------------------------------------------------------------------------
(***************************************************************************)
(* The compressed reader.                                                  *)
(***************************************************************************)

\* A stream in chunks: what is in each of them, none of them empty, and where it is.
InChunks(stream, all, pieces, place) ==
  /\ stream \in Seq(Nat) /\ pieces \in Seq(Seq(Nat)) /\ stream = FlattenSeq(pieces)
  /\ \E T : all \in Seq(T)
  /\ Len(all) = Len(pieces)
  /\ \A i \in 1..Len(pieces) : Inflated(all[i]) = pieces[i] /\ pieces[i] # <<>>
  /\ Places(stream, 1, pieces, place)

LEMMA PlacesGrow ==
  ASSUME NEW stream, NEW all, NEW pieces, NEW place, InChunks(stream, all, pieces, place)
  PROVE  /\ Len(pieces) \in Nat /\ place[0] = 1 /\ place[Len(pieces)] = 1 + Len(stream)
         /\ \A a \in 0..Len(pieces) : place[a] \in Nat \ {0} /\ place[a] <= 1 + Len(stream)
         /\ \A a \in 0..Len(pieces), b \in 0..Len(pieces) :
              a <= b => place[a] <= place[b] /\ (a # b => place[a] < place[b])
  <1> DEFINE n == Len(pieces)
             l(i) == Len(pieces[i])
  <1>1. n \in Nat /\ place \in [0..n -> Nat \ {0}] /\ place[0] = 1 /\ place[n] = 1 + Len(stream)
    BY DEF InChunks, Places
  <1>2. \A i \in 1..n : pieces[i] \in Seq(Nat) /\ pieces[i] # <<>>
    BY DEF InChunks
  <1>3. \A i \in 1..n : l(i) \in Nat \ {0}
    BY <1>2, EmptySeq
  <1>4. \A i \in 1..n : i - 1 \in 0..n /\ place[i - 1] \in Nat \ {0} /\ place[i] = place[i - 1] + l(i)
    BY DEF InChunks, Places
  <1> HIDE DEF n, l
  <1>5. \A a \in 0..n : place[a] \in Nat \ {0}
    BY <1>1
  <1>6. ASSUME NEW a \in 0..n, NEW b \in 0..n, a <= b
        PROVE  place[a] <= place[b] /\ (a # b => place[a] < place[b])
    <2> DEFINE P == {k \in Nat : a + k <= n => place[a] <= place[a + k] /\ (k # 0 => place[a] < place[a + k])}
    <2>1. 0 \in P
      <3>1. a + 0 = a
        OBVIOUS
      <3> QED
        BY <1>5, <3>1
    <2>2. ASSUME NEW k \in Nat, k \in P PROVE k + 1 \in P
      <3> DEFINE i == a + k + 1
      <3> SUFFICES ASSUME a + (k + 1) <= n PROVE place[a] < place[a + (k + 1)]
        <4> QED
          BY <1>1, <1>5
      <3>1. i \in 1..n /\ i - 1 = a + k /\ a + k <= n /\ i = a + (k + 1) /\ a + k \in 0..n
        BY <1>1
      <3>2. place[a] <= place[a + k]
        BY <2>2, <3>1
      <3> HIDE DEF i
      <3>3. place[i] = place[a + k] + l(i) /\ l(i) \in Nat \ {0}
        BY <1>3, <1>4, <3>1
      <3> DEFINE x == place[a + k]
      <3>4. x \in Nat /\ place[a] \in Nat
        BY <1>5, <3>1
      <3> HIDE DEF x
      <3>5. place[a] < x + l(i)
        BY <3>2, <3>3, <3>4 DEF x
      <3> QED
        BY <3>1, <3>3, <3>5 DEF x
    <2>3. b - a \in P
      <3> HIDE DEF P
      <3>1. b - a \in Nat
        BY <1>1, <1>6
      <3> QED
        BY <2>1, <2>2, <3>1, Induction
    <2>4. a + (b - a) = b /\ b <= n
      BY <1>1
    <2> QED
      BY <2>3, <2>4
  <1>7. \A a \in 0..n : place[a] <= 1 + Len(stream)
    <2>1. n \in 0..n
      BY <1>1
    <2> QED
      BY <1>1, <1>6, <2>1
  <1> QED
    BY <1>1, <1>5, <1>6, <1>7 DEF n

\* The m chunks after the first n, and the bytes after a of a stream, as far as b.
PartOf(chunks, all, n, m) == Len(chunks) = m /\ DOMAIN chunks = 1..m /\ \A i \in 1..m : chunks[i] = all[n + i]
BytesOf(s, stream, a, b) ==
  /\ s \in Seq(Nat) /\ a \in Nat /\ b \in Nat /\ a <= b
  /\ Len(s) = b - a /\ \A k \in 1..(b - a) : s[k] = stream[a + k]

\* Chunks of a stream that follow each other hold the bytes that follow each other.
LEMMA PlainPart ==
  ASSUME NEW stream, NEW all, NEW pieces, NEW place, InChunks(stream, all, pieces, place),
         NEW n \in 0..Len(pieces), NEW m \in 0..(Len(pieces) - n),
         NEW chunks, PartOf(chunks, all, n, m)
  PROVE  BytesOf(Plain(chunks), stream, place[n] - 1, place[n + m] - 1)
  <1> DEFINE total == Len(pieces)
             a == place[n]
             end(j) == place[n + j] - 1
             seqs == [i \in 1..m |-> Inflated(chunks[i])]
             f == [j \in 0..m |-> SubSeq(stream, a, end(j))]
  <1>1. /\ total \in Nat /\ \A i \in 0..total : place[i] \in Nat \ {0} /\ place[i] <= 1 + Len(stream)
        /\ \A i \in 0..total, j \in 0..total : i <= j => place[i] <= place[j]
    BY PlacesGrow
  <1>2. stream \in Seq(Nat) /\ Len(stream) \in Nat
    BY DEF InChunks
  <1>3. \A i \in 1..total : pieces[i] \in Seq(Nat) /\ Inflated(all[i]) = pieces[i]
    BY DEF InChunks
  <1>4. \A i \in 1..total : /\ i - 1 \in 0..total /\ place[i - 1] \in Nat \ {0}
                            /\ place[i] = place[i - 1] + Len(pieces[i])
                            /\ Holds(stream, place[i - 1], pieces[i])
    BY DEF InChunks, Places
  <1> HIDE DEF total
  <1>5. m \in Nat /\ n \in 0..total /\ \A j \in 0..m : n + j \in 0..total
    BY <1>1 DEF total
  <1>6. \A j \in 0..m : end(j) \in Nat /\ end(j) <= Len(stream) /\ a \in Nat \ {0} /\ a <= end(j) + 1
    <2> TAKE j \in 0..m
    <2> DEFINE b == n + j
               x == place[b]
    <2>1. b \in 0..total /\ n \in 0..total /\ n <= b
      BY <1>5
    <2> HIDE DEF b
    <2>2. x \in Nat \ {0} /\ x <= 1 + Len(stream) /\ a <= x /\ a \in Nat \ {0}
      BY <1>1, <2>1
    <2> HIDE DEF x, a
    <2>3. x - 1 \in Nat /\ x - 1 <= Len(stream) /\ a <= x - 1 + 1
      BY <1>2, <2>2
    <2> QED
      BY <2>2, <2>3 DEF x, b
  <1> HIDE DEF a, end
  <1>7. \A j \in 0..m : SubSeq(stream, a, end(j)) \in Seq(Nat) /\ Len(SubSeq(stream, a, end(j))) = end(j) - a + 1
    <2> TAKE j \in 0..m
    <2> DEFINE c == end(j)
    <2>1. c \in Nat /\ c <= Len(stream) /\ a \in Nat \ {0} /\ a <= c + 1
      BY <1>6
    <2> HIDE DEF c
    <2>2. SubSeq(stream, a, c) \in Seq(Nat) /\ Len(SubSeq(stream, a, c)) = IF a <= c THEN c - a + 1 ELSE 0
      BY <1>2, <2>1, SubSeqIs
    <2>3. Len(SubSeq(stream, a, c)) = c - a + 1
      BY <2>1, <2>2
    <2> QED
      BY <2>2, <2>3 DEF c
  <1>8. \A i \in 1..m : seqs[i] = pieces[n + i] /\ pieces[n + i] \in Seq(Nat)
    <2> TAKE i \in 1..m
    <2>1. n + i \in 1..total
      BY <1>5 DEF total
    <2>2. chunks[i] = all[n + i] /\ DOMAIN chunks = 1..m
      BY DEF PartOf
    <2> QED
      BY <1>3, <2>1, <2>2
  <1>9. seqs \in Seq(Seq(Nat)) /\ Len(seqs) = m
    <2> DEFINE T == Seq(Nat)
    <2>1. \A i \in 1..m : seqs[i] \in T
      BY <1>8
    <2> HIDE DEF T
    <2>2. seqs \in [1..m -> T]
      BY <2>1
    <2> HIDE DEF seqs
    <2> QED
      BY <1>5, <2>2, FunctionIsSeq DEF T
  <1>10. Plain(chunks) = FlattenSeq(seqs)
    BY DEF Plain, PartOf
  <1> HIDE DEF seqs
  <1>11. f[0] = <<>>
    <2>1. f[0] = SubSeq(stream, a, end(0)) /\ 0 \in 0..m /\ end(0) - a + 1 = 0
      <3>1. 0 \in 0..m /\ n + 0 = n
        BY <1>5
      <3>2. end(0) = a - 1 /\ a \in Nat \ {0}
        BY <1>6, <3>1 DEF end, a
      <3> QED
        BY <3>1, <3>2
    <2>2. SubSeq(stream, a, end(0)) \in Seq(Nat) /\ Len(SubSeq(stream, a, end(0))) = 0
      BY <1>7, <2>1
    <2> QED
      BY <2>1, <2>2, EmptySeq
  <1>12. ASSUME NEW i \in 1..m PROVE f[i] = f[i - 1] \o seqs[i]
    <2> DEFINE b == end(i - 1)
               c == end(i)
               piece == pieces[n + i]
               at == place[n + i - 1]
    <2>1. i - 1 \in 0..m /\ i \in 0..m /\ n + i \in 1..total /\ n + (i - 1) = n + i - 1
      BY <1>5 DEF total
    <2>2. b \in Nat /\ c \in Nat /\ b <= Len(stream) /\ c <= Len(stream) /\ a \in Nat \ {0} /\ a <= b + 1
      BY <1>6, <2>1
    <2>3. at \in Nat \ {0} /\ piece \in Seq(Nat) /\ Holds(stream, at, piece) /\ place[n + i] = at + Len(piece)
      BY <1>3, <1>4, <2>1
    <2>4. b = at - 1 /\ c = place[n + i] - 1
      BY <2>1 DEF end
    <2>5. Len(piece) \in Nat
      BY <2>3
    <2>6. f[i] = SubSeq(stream, a, c) /\ f[i - 1] = SubSeq(stream, a, b) /\ seqs[i] = piece
      BY <1>8, <2>1
    <2> HIDE DEF b, c, piece, at, f
    <2>7. c = at + Len(piece) - 1 /\ b + 1 = at /\ b <= c
      BY <2>3, <2>4, <2>5
    <2>8. SubSeq(stream, at, at + Len(piece) - 1) = piece
      BY <1>2, <2>3, HoldsCut
    <2>9. SubSeq(stream, b + 1, c) = piece
      BY <2>7, <2>8
    <2>10. SubSeq(stream, a, b) \o SubSeq(stream, b + 1, c) = SubSeq(stream, a, c)
      BY <1>2, <2>2, <2>7, SubSeqJoined
    <2> QED
      BY <2>6, <2>9, <2>10
  <1>13. Joins(f, seqs, Nat)
    <2>1. f \in [0..m -> Seq(Nat)]
      BY <1>7
    <2> HIDE DEF f
    <2> QED
      BY <1>9, <1>11, <1>12, <2>1 DEF Joins
  <1>14. Plain(chunks) = SubSeq(stream, a, end(m))
    <2>1. f[m] = SubSeq(stream, a, end(m))
      <3>1. m \in 0..m
        BY <1>5
      <3> QED
        BY <3>1
    <2> HIDE DEF f
    <2>2. FlattenSeq(seqs) = f[m]
      BY <1>9, <1>13, Flattened
    <2> QED
      BY <1>10, <2>1, <2>2
  <1>15. m \in 0..m /\ end(m) = place[n + m] - 1 /\ end(m) \in Nat /\ a \in Nat \ {0} /\ place[n + m] \in Nat
    <2>1. m \in 0..m /\ n + m \in 0..total
      BY <1>5
    <2> QED
      BY <1>1, <1>6, <2>1 DEF end
  <1>16. Len(Plain(chunks)) = place[n + m] - a /\ Plain(chunks) \in Seq(Nat)
    <2>1. SubSeq(stream, a, end(m)) \in Seq(Nat) /\ Len(SubSeq(stream, a, end(m))) = end(m) - a + 1
      BY <1>7, <1>15
    <2> QED
      BY <1>14, <1>15, <2>1
  <1>17. \A k \in 1..(place[n + m] - a) : Plain(chunks)[k] = stream[a - 1 + k]
    <2> DEFINE c == end(m)
    <2>1. c \in Nat /\ c <= Len(stream) /\ a \in Nat \ {0}
      BY <1>6, <1>15
    <2>2. place[n + m] - a = c - a + 1
      BY <1>15
    <2> HIDE DEF c
    <2>3. \A k \in 1..(c - a + 1) : SubSeq(stream, a, c)[k] = stream[a + k - 1]
      BY <1>2, <2>1, SubSeqIs
    <2>4. \A k \in 1..(c - a + 1) : a + k - 1 = a - 1 + k
      BY <2>1
    <2> QED
      BY <1>14, <2>2, <2>3, <2>4 DEF c
  <1> DEFINE b == place[n + m]
             plain == Plain(chunks)
  <1>18. a \in Nat \ {0} /\ b \in Nat /\ a <= b
    <2>1. n \in 0..total /\ n + m \in 0..total /\ n <= n + m
      BY <1>5, <1>15
    <2>2. place[n] <= place[n + m]
      BY <1>1, <2>1
    <2> QED
      BY <1>15, <2>2 DEF a
  <1>19. plain \in Seq(Nat) /\ Len(plain) = b - a /\ \A k \in 1..(b - a) : plain[k] = stream[a - 1 + k]
    BY <1>16, <1>17
  <1> HIDE DEF b, plain
  <1>20. a - 1 \in Nat /\ b - 1 \in Nat /\ a - 1 <= b - 1 /\ b - a = (b - 1) - (a - 1)
    BY <1>18
  <1> QED
    BY <1>19, <1>20 DEF BytesOf, a, b, plain

\* The bytes of a buffer after an offset are those after p of the stream, as far as end.
BufferAt(buffer, offset, stream, p, end) ==
  /\ p \in Nat /\ buffer \in Seq(Nat) /\ offset \in 0..Len(buffer)
  /\ p + (Len(buffer) - offset) = end
  /\ \A k \in 1..(Len(buffer) - offset) : buffer[offset + k] = stream[p + k]

\* A reader that has n chunks behind it, and whose next byte is the one after p of the stream.
ReaderAt(reader, stream, all, place, n, p) ==
  /\ n \in 0..Len(all)
  /\ reader = [chunks |-> SubSeq(all, n + 1, Len(all)), buffer |-> reader.buffer, offset |-> reader.offset]
  /\ BufferAt(reader.buffer, reader.offset, stream, p, place[n] - 1)

LEMMA SubSeqAt ==
  ASSUME NEW S, NEW s \in Seq(S), NEW a \in Nat \ {0}, NEW b \in Nat, b <= Len(s), a <= b + 1
  PROVE  /\ SubSeq(s, a, b) \in Seq(S) /\ Len(SubSeq(s, a, b)) = b - a + 1
         /\ \A k \in 1..(b - a + 1) : SubSeq(s, a, b)[k] = s[a + k - 1]
  OBVIOUS

LEMMA SubSeqRest ==
  ASSUME NEW S, NEW s \in Seq(S), NEW m \in 0..Len(s)
  PROVE  /\ SubSeq(s, m + 1, Len(s)) \in Seq(S) /\ Len(SubSeq(s, m + 1, Len(s))) = Len(s) - m
         /\ \A k \in 1..(Len(s) - m) : SubSeq(s, m + 1, Len(s))[k] = s[m + k]
  <1> DEFINE at == m + 1
             l == Len(s)
  <1>1. at \in Nat \ {0} /\ l \in Nat /\ l <= Len(s) /\ at <= l + 1 /\ l - at + 1 = l - m
    OBVIOUS
  <1>2. \A k \in 1..(l - m) : at + k - 1 = m + k
    OBVIOUS
  <1> HIDE DEF at, l
  <1>3. /\ SubSeq(s, at, l) \in Seq(S) /\ Len(SubSeq(s, at, l)) = l - at + 1
        /\ \A k \in 1..(l - at + 1) : SubSeq(s, at, l)[k] = s[at + k - 1]
    BY <1>1, SubSeqAt
  <1>4. \A k \in 1..(l - m) : SubSeq(s, at, l)[k] = s[m + k]
    BY <1>1, <1>2, <1>3
  <1> QED
    BY <1>1, <1>3, <1>4 DEF at, l

LEMMA SubSeqFirst ==
  ASSUME NEW S, NEW s \in Seq(S), NEW m \in 0..Len(s)
  PROVE  /\ SubSeq(s, 1, m) \in Seq(S) /\ Len(SubSeq(s, 1, m)) = m
         /\ \A k \in 1..m : SubSeq(s, 1, m)[k] = s[k]
  <1> DEFINE at == 1
  <1>1. m \in Nat /\ at \in Nat \ {0} /\ m <= Len(s) /\ at <= m + 1 /\ m - at + 1 = m
    OBVIOUS
  <1>2. \A k \in 1..m : at + k - 1 = k
    OBVIOUS
  <1> HIDE DEF at
  <1>3. /\ SubSeq(s, at, m) \in Seq(S) /\ Len(SubSeq(s, at, m)) = m - at + 1
        /\ \A k \in 1..(m - at + 1) : SubSeq(s, at, m)[k] = s[at + k - 1]
    BY <1>1, SubSeqAt
  <1>4. \A k \in 1..m : SubSeq(s, at, m)[k] = s[k]
    BY <1>1, <1>2, <1>3
  <1> QED
    BY <1>1, <1>3, <1>4 DEF at

LEMMA SubSeqSubSeq ==
  ASSUME NEW T, NEW all \in Seq(T), NEW n \in 0..Len(all), NEW m \in 0..(Len(all) - n),
         NEW rest, rest = SubSeq(all, n + 1, Len(all))
  PROVE  /\ Len(rest) = Len(all) - n /\ PartOf(SubSeq(rest, 1, m), all, n, m)
         /\ SubSeq(rest, m + 1, Len(rest)) = SubSeq(all, n + m + 1, Len(all))
  <1> DEFINE l == Len(all)
             r == Len(rest)
             first == SubSeq(rest, 1, m)
             b == SubSeq(rest, m + 1, r)
             d == n + m
             c == SubSeq(all, d + 1, l)
  <1>1. l \in Nat /\ n \in Nat /\ m \in Nat /\ n <= l /\ m <= l - n /\ d \in 0..l
    OBVIOUS
  <1>2. rest \in Seq(T) /\ r = l - n /\ \A k \in 1..(l - n) : rest[k] = all[n + k]
    <2>1. /\ SubSeq(all, n + 1, Len(all)) \in Seq(T) /\ Len(SubSeq(all, n + 1, Len(all))) = Len(all) - n
          /\ \A k \in 1..(Len(all) - n) : SubSeq(all, n + 1, Len(all))[k] = all[n + k]
      BY SubSeqRest
    <2> QED
      BY <2>1
  <1>3. c \in Seq(T) /\ Len(c) = l - d /\ \A k \in 1..(l - d) : c[k] = all[d + k]
    <2> HIDE DEF d
    <2> QED
      BY <1>1, SubSeqRest
  <1>4. m \in 0..r
    BY <1>1, <1>2
  <1>5. b \in Seq(T) /\ Len(b) = r - m /\ \A k \in 1..(r - m) : b[k] = rest[m + k]
    BY <1>2, <1>4, SubSeqRest
  <1>6. first \in Seq(T) /\ Len(first) = m /\ \A k \in 1..m : first[k] = rest[k]
    BY <1>2, <1>4, SubSeqFirst
  <1> HIDE DEF l, r, b, c, first
  <1>7. \A k \in 1..m : k \in 1..(l - n) /\ first[k] = all[n + k]
    BY <1>1, <1>2, <1>6
  <1>8. DOMAIN first = 1..m
    BY <1>6
  <1>9. r - m = l - d
    BY <1>1, <1>2
  <1>10. ASSUME NEW k \in 1..(l - d) PROVE b[k] = c[k]
    <2>1. m + k \in 1..(l - n) /\ n + (m + k) = d + k
      BY <1>1
    <2>2. b[k] = all[n + (m + k)]
      BY <1>2, <1>5, <1>9, <2>1
    <2> QED
      BY <1>3, <2>1, <2>2
  <1>11. b = c
    BY <1>3, <1>5, <1>9, <1>10, SeqEqual
  <1> QED
    BY <1>2, <1>6, <1>7, <1>8, <1>11 DEF l, r, b, c, first, PartOf

LEMMA BufferExtended ==
  ASSUME NEW stream, NEW buffer, NEW offset, NEW p, NEW a \in Nat, BufferAt(buffer, offset, stream, p, a),
         NEW b, NEW plain, BytesOf(plain, stream, a, b)
  PROVE  BufferAt(buffer \o plain, offset, stream, p, b)
  <1> DEFINE l == Len(buffer)
             more == b - a
             joined == buffer \o plain
             size == Len(joined)
  <1>1. /\ p \in Nat /\ buffer \in Seq(Nat) /\ offset \in 0..l /\ p + (l - offset) = a
        /\ \A k \in 1..(l - offset) : buffer[offset + k] = stream[p + k]
    BY DEF BufferAt
  <1>2. more \in Nat /\ Len(plain) = more /\ l \in Nat /\ plain \in Seq(Nat) /\ b \in Nat
    BY <1>1 DEF BytesOf
  <1>3. /\ joined \in Seq(Nat) /\ size = l + more
        /\ \A k \in 1..l : joined[k] = buffer[k]
        /\ \A k \in 1..more : joined[l + k] = plain[k]
    <2>1. /\ buffer \o plain \in Seq(Nat) /\ Len(buffer \o plain) = Len(buffer) + Len(plain)
          /\ \A k \in 1..Len(buffer) : (buffer \o plain)[k] = buffer[k]
          /\ \A k \in 1..Len(plain) : (buffer \o plain)[Len(buffer) + k] = plain[k]
      <3>1. buffer \in Seq(Nat) /\ plain \in Seq(Nat)
        BY <1>1, <1>2
      <3> HIDE DEF joined, l, more, size
      <3> QED
        BY <3>1, Concatenated
    <2> QED
      BY <1>2, <2>1
  <1>4. \A k \in 1..more : plain[k] = stream[a + k]
    BY DEF BytesOf
  <1>5. a + more = b
    BY <1>2
  <1> HIDE DEF l, more, joined, size
  <1>6. offset \in 0..size /\ p + (size - offset) = b
    BY <1>1, <1>2, <1>3, <1>5
  <1>7. ASSUME NEW k \in 1..(size - offset) PROVE joined[offset + k] = stream[p + k]
    <2>1. k \in Nat \ {0} /\ k <= l + more - offset
      BY <1>1, <1>2, <1>3
    <2>2. CASE k <= l - offset
      <3>1. offset + k \in 1..l /\ k \in 1..(l - offset)
        BY <1>1, <1>2, <2>1, <2>2
      <3> QED
        BY <1>1, <1>3, <3>1
    <2>3. CASE k > l - offset
      <3> DEFINE j == k - (l - offset)
      <3>1. j \in 1..more /\ l + j = offset + k /\ a + j = p + k
        BY <1>1, <1>2, <2>1, <2>3
      <3> HIDE DEF j
      <3>2. joined[l + j] = plain[j] /\ plain[j] = stream[a + j]
        BY <1>3, <1>4, <3>1
      <3> QED
        BY <3>1, <3>2
    <2>4. k <= l - offset \/ k > l - offset
      BY <1>1, <1>2, <2>1
    <2> QED
      BY <2>2, <2>3, <2>4
  <1> QED
    BY <1>1, <1>3, <1>6, <1>7 DEF BufferAt, size, joined

\* Chunks appended to the buffer go on where its bytes end.
LEMMA AfterAt ==
  ASSUME NEW stream, NEW all, NEW pieces, NEW place, InChunks(stream, all, pieces, place),
         NEW reader, NEW n, NEW p, ReaderAt(reader, stream, all, place, n, p),
         NEW m \in 0..(Len(all) - n)
  PROVE  /\ ReaderAt(After(reader, m), stream, all, place, n + m, p)
         /\ After(reader, m).offset = reader.offset /\ Len(reader.chunks) = Len(all) - n
  <1> DEFINE buffer == reader.buffer
             offset == reader.offset
             chunks == reader.chunks
             part == SubSeq(chunks, 1, m)
             plain == Plain(part)
             rest == SubSeq(all, n + m + 1, Len(all))
             a == place[n] - 1
             b == place[n + m] - 1
             x == After(reader, m)
  <1>1. /\ n \in 0..Len(all) /\ chunks = SubSeq(all, n + 1, Len(all))
        /\ reader = [chunks |-> chunks, buffer |-> buffer, offset |-> offset]
        /\ BufferAt(buffer, offset, stream, p, a)
    BY DEF ReaderAt
  <1>2. PICK T : all \in Seq(T)
    BY DEF InChunks
  <1>3. Len(all) = Len(pieces) /\ Len(all) \in Nat
    BY <1>2 DEF InChunks
  <1>4. n + m \in 0..Len(pieces) /\ n \in 0..Len(pieces) /\ n <= n + m /\ m \in 0..(Len(pieces) - n)
    BY <1>1, <1>3
  <1>5. /\ Len(chunks) = Len(all) - n
        /\ PartOf(part, all, n, m)
        /\ SubSeq(chunks, m + 1, Len(chunks)) = rest
    <2> HIDE DEF chunks
    <2> QED
      BY <1>1, <1>2, SubSeqSubSeq DEF rest, part
  <1>6. x = [reader EXCEPT !.buffer = buffer \o plain, !.chunks = SubSeq(chunks, m + 1, Len(chunks))]
    BY DEF After
  <1> HIDE DEF chunks, buffer, offset, part, x
  <1>7. BytesOf(plain, stream, a, b)
    BY <1>4, <1>5, PlainPart
  <1>9. a \in Nat
    BY <1>7 DEF BytesOf
  <1> HIDE DEF plain, rest, a, b
  <1>10. x = [chunks |-> rest, buffer |-> buffer \o plain, offset |-> offset]
    BY <1>1, <1>5, <1>6
  <1>12. BufferAt(buffer \o plain, offset, stream, p, b)
    BY <1>1, <1>7, <1>9, BufferExtended
  <1>13. x.buffer = buffer \o plain /\ x.offset = offset
         /\ x = [chunks |-> rest, buffer |-> x.buffer, offset |-> x.offset]
    BY <1>10
  <1>14. n + m \in 0..Len(all)
    BY <1>3, <1>4
  <1>15. ReaderAt(x, stream, all, place, n + m, p)
    BY <1>12, <1>13, <1>14 DEF ReaderAt, b, rest
  <1> QED
    BY <1>5, <1>13, <1>15 DEF x, offset, chunks

\* There are chunks enough for what the stream has.
LEMMA FilledAt ==
  ASSUME NEW stream, NEW all, NEW pieces, NEW place, InChunks(stream, all, pieces, place),
         NEW reader, NEW n, NEW p, ReaderAt(reader, stream, all, place, n, p),
         NEW need \in Nat, p + need <= Len(stream)
  PROVE  LET x == Filled(reader, need) IN
         /\ \E m : ReaderAt(x, stream, all, place, m, p)
         /\ Len(x.buffer) - x.offset >= need
  <1> DEFINE l == Len(reader.chunks)
             enough == {m \in 0..l : Len(After(reader, m).buffer) - reader.offset >= need}
             x == Filled(reader, need)
             T == enough \cup {l}
             c == Len(all)
  <1>1. n \in 0..c /\ c = Len(pieces) /\ c \in Nat /\ place[c] = 1 + Len(stream) /\ Len(stream) \in Nat
    <2>1. stream \in Seq(Nat) /\ Len(all) = Len(pieces)
      BY DEF InChunks
    <2> QED
      BY <2>1, PlacesGrow DEF ReaderAt
  <1> DEFINE d == c - n
  <1>2. d \in 0..(c - n) /\ n + d = c
    BY <1>1
  <1>3. /\ ReaderAt(After(reader, d), stream, all, place, n + d, p)
        /\ After(reader, d).offset = reader.offset /\ l = c - n
    <2> HIDE DEF d
    <2> QED
      BY <1>2, AfterAt
  <1>4. l = d
    BY <1>3
  <1> DEFINE last == After(reader, d)
  <1>5. BufferAt(last.buffer, last.offset, stream, p, place[n + d] - 1)
    BY <1>3 DEF ReaderAt
  <1>6. place[n + d] - 1 = Len(stream)
    BY <1>1, <1>2
  <1> HIDE DEF last, d
  <1>7. Len(last.buffer) - last.offset >= need
    <2> DEFINE y == Len(last.buffer)
    <2>1. y \in Nat /\ last.offset \in 0..y /\ p \in Nat /\ p + (y - last.offset) = Len(stream)
      BY <1>5, <1>6 DEF BufferAt
    <2> HIDE DEF y
    <2>2. y - last.offset >= need
      BY <1>1, <2>1
    <2> QED
      BY <2>2 DEF y
  <1>8. T = enough /\ T # {} /\ T \subseteq Nat
    <2>1. l \in Nat /\ l \in 0..l
      BY <1>2, <1>4
    <2>2. l \in enough
      BY <1>3, <1>4, <1>7, <2>1 DEF last
    <2> QED
      BY <2>1, <2>2
  <1>9. Min(T) \in T
    <2> HIDE DEF T
    <2> QED
      BY <1>8, MinOfNats
  <1> DEFINE m == Min(T)
  <1>10. m \in 0..l /\ Len(After(reader, m).buffer) - reader.offset >= need /\ x = After(reader, m)
    BY <1>8, <1>9 DEF Filled
  <1> HIDE DEF m, T, enough
  <1>11. m \in 0..(Len(all) - n)
    BY <1>3, <1>10
  <1>12. ReaderAt(After(reader, m), stream, all, place, n + m, p) /\ After(reader, m).offset = reader.offset
    BY <1>11, AfterAt
  <1> QED
    BY <1>10, <1>12

LEMMA CompactedAt ==
  ASSUME NEW stream, NEW all, NEW place, NEW reader, NEW n, NEW p,
         ReaderAt(reader, stream, all, place, n, p)
  PROVE  ReaderAt(Compacted(reader), stream, all, place, n, p)
  <1> DEFINE buffer == reader.buffer
             offset == reader.offset
             l == Len(buffer)
             at == offset + 1
             rest == SubSeq(buffer, at, l)
             zero == 0
             end == place[n] - 1
             chunks == SubSeq(all, n + 1, Len(all))
             x == Compacted(reader)
  <1>1. /\ n \in 0..Len(all) /\ reader = [chunks |-> chunks, buffer |-> buffer, offset |-> offset]
        /\ BufferAt(buffer, offset, stream, p, end)
    BY DEF ReaderAt
  <1>2. CASE x = reader
    BY <1>2
  <1>3. CASE x # reader
    <2>1. x = [reader EXCEPT !.buffer = rest, !.offset = zero]
      BY <1>3 DEF Compacted
    <2> HIDE DEF x, rest, buffer, offset, chunks, end
    <2>2. x = [chunks |-> chunks, buffer |-> rest, offset |-> zero]
      BY <1>1, <2>1
    <2>3. x.buffer = rest /\ x.offset = zero /\ x = [chunks |-> chunks, buffer |-> x.buffer, offset |-> x.offset]
      BY <2>2
    <2>4. /\ p \in Nat /\ buffer \in Seq(Nat) /\ offset \in 0..l /\ p + (l - offset) = end
          /\ \A k \in 1..(l - offset) : buffer[offset + k] = stream[p + k]
      BY <1>1 DEF BufferAt
    <2>5. l \in Nat /\ l <= Len(buffer) /\ at \in Nat \ {0} /\ at <= l + 1 /\ l - at + 1 = l - offset
      BY <2>4
    <2>6. \A k \in 1..(l - offset) : at + k - 1 = offset + k
      BY <2>4
    <2>7. rest = SubSeq(buffer, at, l)
      BY DEF rest
    <2> HIDE DEF l, at
    <2>8. /\ SubSeq(buffer, at, l) \in Seq(Nat) /\ Len(SubSeq(buffer, at, l)) = l - at + 1
          /\ \A k \in 1..(l - at + 1) : SubSeq(buffer, at, l)[k] = buffer[at + k - 1]
      BY <2>4, <2>5, SubSeqAt
    <2>9. rest \in Seq(Nat) /\ Len(rest) = l - offset /\ \A k \in 1..(l - offset) : rest[k] = stream[p + k]
      BY <2>4, <2>5, <2>6, <2>7, <2>8
    <2>10. /\ l - offset \in Nat /\ zero \in 0..(l - offset) /\ (l - offset) - zero = l - offset
           /\ \A k \in 1..(l - offset) : zero + k = k
      BY <2>4, <2>5
    <2>11. BufferAt(rest, zero, stream, p, end)
      <3> HIDE DEF zero
      <3> QED
        BY <2>4, <2>9, <2>10 DEF BufferAt
    <2> QED
      BY <1>1, <2>3, <2>11 DEF ReaderAt, chunks, end, x
  <1> QED
    BY <1>2, <1>3

LEMMA BufferSkipped ==
  ASSUME NEW stream, NEW buffer, NEW offset, NEW p, NEW end, BufferAt(buffer, offset, stream, p, end),
         NEW m \in Nat, m <= Len(buffer) - offset
  PROVE  BufferAt(buffer, offset + m, stream, p + m, end)
  <1> DEFINE l == Len(buffer)
             at == offset + m
  <1>1. /\ p \in Nat /\ buffer \in Seq(Nat) /\ offset \in 0..l /\ p + (l - offset) = end
        /\ \A k \in 1..(l - offset) : buffer[offset + k] = stream[p + k]
    BY DEF BufferAt
  <1>2. l \in Nat /\ m <= l - offset
    BY <1>1
  <1> HIDE DEF l
  <1>3. at \in 0..l /\ p + m \in Nat /\ p + m + (l - at) = end
    BY <1>1, <1>2
  <1>4. ASSUME NEW k \in 1..(l - at) PROVE buffer[at + k] = stream[p + m + k]
    <2>1. m + k \in 1..(l - offset) /\ offset + (m + k) = at + k /\ p + (m + k) = p + m + k
      BY <1>1, <1>2
    <2>2. buffer[offset + (m + k)] = stream[p + (m + k)]
      BY <1>1, <2>1
    <2> HIDE DEF at
    <2> QED
      BY <2>1, <2>2
  <1> HIDE DEF at
  <1> QED
    BY <1>1, <1>3, <1>4 DEF BufferAt, l, at

\* A whole packet in the buffer is taken.
LEMMA TakenAt ==
  ASSUME NEW stream, NEW all, NEW place, NEW reader, NEW n, NEW p,
         ReaderAt(reader, stream, all, place, n, p),
         NEW id \in Nat, NEW body \in Seq(Nat), PacketAt(stream, p + 1, id, body),
         Len(reader.buffer) - reader.offset >= HeaderLength + Len(body)
  PROVE  LET x == Taken(reader) IN
         /\ x.id = id % IdMod /\ x.payload = body
         /\ ReaderAt(x.reader, stream, all, place, n, p + HeaderLength + Len(body))
  <1> DEFINE buffer == reader.buffer
             offset == reader.offset
             chunks == reader.chunks
             l == Len(body)
             size == Len(buffer)
             h == 4
             from == offset + HeaderLength
             x == Taken(reader)
             end == place[n] - 1
             payload == SubSeq(buffer, from + 1, from + Length(reader))
  <1>1. /\ n \in 0..Len(all) /\ reader = [chunks |-> SubSeq(all, n + 1, Len(all)), buffer |-> buffer, offset |-> offset]
        /\ BufferAt(buffer, offset, stream, p, end)
    BY DEF ReaderAt
  <1>2. /\ p \in Nat /\ buffer \in Seq(Nat) /\ offset \in 0..size
        /\ \A k \in 1..(size - offset) : buffer[offset + k] = stream[p + k]
    BY <1>1 DEF BufferAt
  <1>3. /\ l \in Nat /\ size \in Nat /\ HeaderLength = h /\ size - offset >= h + l /\ h = 4
        /\ offset \in Nat /\ offset <= size
    BY <1>2 DEF HeaderLength
  <1>4. Length(reader) = l
    <2>1. 1 \in 1..(size - offset)
      BY <1>2, <1>3
    <2>2. buffer[offset + 1] = stream[p + 1]
      BY <1>2, <2>1
    <2> QED
      BY <2>2 DEF Length, PacketAt
  <1>5. buffer[offset + 4] = id % IdMod
    <2>1. 4 \in 1..(size - offset) /\ p + 1 + 3 = p + 4
      BY <1>2, <1>3
    <2>2. buffer[offset + 4] = stream[p + 4]
      BY <1>2, <2>1
    <2> QED
      BY <2>1, <2>2 DEF PacketAt
  <1>6. payload = body
    <2> DEFINE at == from + 1
               last == from + l
    <2>1. at \in Nat \ {0} /\ last \in Nat /\ last <= size /\ at <= last + 1 /\ last - at + 1 = l
      <3> HIDE DEF l, size, offset, h
      <3>1. from = offset + 4
        BY <1>3
      <3> HIDE DEF from
      <3> QED
        BY <1>3, <3>1
    <2>2. payload = SubSeq(buffer, at, last)
      BY <1>4
    <2>3. ASSUME NEW k \in 1..l PROVE buffer[at + k - 1] = body[k]
      <3>1. h + k \in 1..(size - offset) /\ offset + (h + k) = at + k - 1 /\ p + (h + k) = p + 1 + h + k - 1
        <4> HIDE DEF l, size, offset, h
        <4>1. from = offset + 4 /\ k \in Nat \ {0} /\ k <= l
          BY <1>3
        <4> HIDE DEF from
        <4> QED
          BY <1>2, <1>3, <4>1
      <3>2. stream[p + 1 + HeaderLength + k - 1] = body[k]
        BY DEF PacketAt, Holds
      <3>3. buffer[offset + (h + k)] = stream[p + (h + k)]
        BY <1>2, <3>1
      <3> HIDE DEF at, h
      <3> QED
        BY <1>3, <3>1, <3>2, <3>3
    <2> HIDE DEF at, last, payload, l, buffer
    <2>4. /\ SubSeq(buffer, at, last) \in Seq(Nat) /\ Len(SubSeq(buffer, at, last)) = last - at + 1
          /\ \A k \in 1..(last - at + 1) : SubSeq(buffer, at, last)[k] = buffer[at + k - 1]
      <3>1. buffer \in Seq(Nat)
        BY <1>2
      <3>2. at \in Nat \ {0} /\ last \in Nat /\ last <= Len(buffer) /\ at <= last + 1
        BY <2>1
      <3> QED
        BY <3>1, <3>2, SubSeqAt
    <2>5. payload \in Seq(Nat) /\ Len(payload) = l /\ \A k \in 1..l : payload[k] = body[k]
      BY <2>1, <2>2, <2>3, <2>4
    <2> QED
      BY <2>5, SeqEqual DEF l
  <1> DEFINE d == h + l
             next == [reader EXCEPT !.offset = from + Length(reader)]
  <1>7. x = [id |-> buffer[offset + 4], payload |-> payload, reader |-> Compacted(next)]
    BY DEF Taken
  <1>8. from + Length(reader) = offset + d /\ p + HeaderLength + Len(body) = p + d /\ d \in Nat /\ d <= size - offset
    <2> HIDE DEF l, size, offset, h
    <2>1. from = offset + 4
      BY <1>3
    <2> HIDE DEF from
    <2>2. from + l = offset + d /\ p + HeaderLength + l = p + d /\ d \in Nat /\ d <= size - offset
      BY <1>2, <1>3, <2>1
    <2> QED
      BY <1>4, <2>2 DEF l
  <1> HIDE DEF x, payload, buffer, offset, d, from, end, size
  <1>9. next = [chunks |-> SubSeq(all, n + 1, Len(all)), buffer |-> buffer, offset |-> offset + d]
    <2> DEFINE rest == SubSeq(all, n + 1, Len(all))
               to == offset + d
    <2>1. reader = [chunks |-> rest, buffer |-> buffer, offset |-> offset]
      BY <1>1
    <2>2. next = [reader EXCEPT !.offset = to]
      BY <1>8
    <2> HIDE DEF rest, to, next
    <2>3. next = [chunks |-> rest, buffer |-> buffer, offset |-> to]
      BY <2>1, <2>2
    <2> QED
      BY <2>3 DEF rest, to
  <1>10. BufferAt(buffer, offset + d, stream, p + d, end)
    BY <1>1, <1>8, BufferSkipped DEF size
  <1> HIDE DEF next
  <1>11. next.buffer = buffer /\ next.offset = offset + d
         /\ next = [chunks |-> SubSeq(all, n + 1, Len(all)), buffer |-> next.buffer, offset |-> next.offset]
    BY <1>9
  <1>12. ReaderAt(next, stream, all, place, n, p + d)
    BY <1>1, <1>10, <1>11 DEF ReaderAt, end
  <1>13. ReaderAt(Compacted(next), stream, all, place, n, p + d)
    BY <1>12, CompactedAt
  <1> QED
    BY <1>5, <1>6, <1>7, <1>8, <1>13 DEF x

\* One packet of the stream is read, and the reader is at the next one.
LEMMA ReadNormalAt ==
  ASSUME NEW stream, NEW all, NEW pieces, NEW place, InChunks(stream, all, pieces, place),
         NEW reader, NEW n, NEW p, ReaderAt(reader, stream, all, place, n, p),
         NEW id \in Nat, NEW body \in Seq(Nat), PacketAt(stream, p + 1, id, body),
         p + HeaderLength + Len(body) <= Len(stream)
  PROVE  LET x == ReadNormal(reader) IN
         /\ x.id = id % IdMod /\ x.payload = body
         /\ \E m : ReaderAt(x.reader, stream, all, place, m, p + HeaderLength + Len(body))
  <1> DEFINE y == Filled(reader, HeaderLength)
             z == WithBody(y)
             need == HeaderLength + Len(body)
             h == HeaderLength
  <1>1. p \in Nat /\ Len(body) \in Nat /\ h = 4 /\ Len(stream) \in Nat
    <2>1. p \in Nat
      BY DEF ReaderAt, BufferAt
    <2>2. stream \in Seq(Nat)
      BY DEF InChunks
    <2> QED
      BY <2>1, <2>2 DEF HeaderLength
  <1>2. h \in Nat /\ need \in Nat /\ p + h <= Len(stream) /\ p + need <= Len(stream)
    BY <1>1
  <1> HIDE DEF h
  <1>3. (\E m : ReaderAt(Filled(reader, h), stream, all, place, m, p))
        /\ Len(Filled(reader, h).buffer) - Filled(reader, h).offset >= h
    BY <1>2, FilledAt
  <1>4. PICK m : ReaderAt(y, stream, all, place, m, p)
    BY <1>3 DEF h
  <1>5. Length(y) = Len(body)
    <2> DEFINE size == Len(y.buffer)
    <2>1. size \in Nat /\ y.offset \in 0..size /\ \A k \in 1..(size - y.offset) : y.buffer[y.offset + k] = stream[p + k]
      BY <1>4 DEF ReaderAt, BufferAt
    <2>2. size - y.offset >= h
      BY <1>3 DEF h
    <2> HIDE DEF size, y
    <2>3. 1 \in 1..(size - y.offset)
      BY <1>1, <2>1, <2>2
    <2> QED
      BY <2>1, <2>3 DEF PacketAt, Length
  <1>6. z = Filled(y, need)
    BY <1>5 DEF WithBody
  <1> HIDE DEF y, z, need
  <1>7. (\E k : ReaderAt(Filled(y, need), stream, all, place, k, p))
        /\ Len(Filled(y, need).buffer) - Filled(y, need).offset >= need
    BY <1>2, <1>4, FilledAt
  <1>8. PICK k : ReaderAt(z, stream, all, place, k, p)
    BY <1>6, <1>7
  <1>9. Len(z.buffer) - z.offset >= HeaderLength + Len(body)
    BY <1>6, <1>7 DEF need
  <1>10. /\ Taken(z).id = id % IdMod /\ Taken(z).payload = body
         /\ ReaderAt(Taken(z).reader, stream, all, place, k, p + HeaderLength + Len(body))
    BY <1>8, <1>9, TakenAt
  <1>11. ReadNormal(reader) = Taken(z)
    BY DEF ReadNormal, y, z
  <1> QED
    BY <1>10, <1>11

\* What is read one after the other.
Readings(g, n, reader) == g = [k \in 1..n |-> ReadNormal(IF k = 1 THEN reader ELSE g[k - 1].reader)]

LEMMA ReadingsExist ==
  ASSUME NEW n \in Nat, NEW reader
  PROVE  \E g : Readings(g, n, reader)
  <1> DEFINE Runs(g, i) == g = [k \in 1..i |-> ReadNormal(IF k = 1 THEN reader ELSE g[k - 1].reader)]
             P == {i \in Nat : \E g : Runs(g, i)}
  <1>1. 0 \in P
    <2> DEFINE g == [k \in 1..0 |-> reader]
    <2>1. g = [k \in 1..0 |-> ReadNormal(IF k = 1 THEN reader ELSE g[k - 1].reader)]
      OBVIOUS
    <2> QED
      BY <2>1
  <1>2. ASSUME NEW i \in Nat, i \in P PROVE i + 1 \in P
    <2>1. PICK g : Runs(g, i)
      BY <1>2
    <2> DEFINE last == ReadNormal(IF i + 1 = 1 THEN reader ELSE g[i].reader)
               h == [k \in 1..(i + 1) |-> IF k = i + 1 THEN last ELSE g[k]]
               step(f, k) == ReadNormal(IF k = 1 THEN reader ELSE f[k - 1].reader)
    <2>2. ASSUME NEW k \in 1..(i + 1) PROVE h[k] = step(h, k)
      <3>1. CASE k = i + 1
        <4>1. h[k] = last /\ k - 1 = i
          BY <3>1
        <4>2. CASE k = 1
          BY <3>1, <4>1, <4>2
        <4>3. CASE k # 1
          <5>1. i \in 1..(i + 1) /\ i # i + 1
            BY <3>1, <4>3
          <5>2. h[i] = g[i]
            BY <5>1
          <5> HIDE DEF h
          <5> QED
            BY <3>1, <4>1, <4>3, <5>2
        <4> QED
          BY <4>2, <4>3
      <3>2. CASE k # i + 1
        <4>1. k \in 1..i
          BY <3>2
        <4>2. h[k] = g[k] /\ g[k] = step(g, k)
          BY <2>1, <3>2, <4>1
        <4>3. CASE k = 1
          BY <4>2, <4>3
        <4>4. CASE k # 1
          <5>1. k - 1 \in 1..(i + 1) /\ k - 1 # i + 1
            BY <4>1, <4>4
          <5>2. h[k - 1] = g[k - 1]
            BY <5>1
          <5> HIDE DEF h
          <5> QED
            BY <4>2, <4>4, <5>2
        <4> QED
          BY <4>3, <4>4
      <3> QED
        BY <3>1, <3>2
    <2>3. h = [k \in 1..(i + 1) |-> h[k]]
      OBVIOUS
    <2> HIDE DEF h
    <2>4. [k \in 1..(i + 1) |-> h[k]] = [k \in 1..(i + 1) |-> step(h, k)]
      <3> HIDE DEF step
      <3> QED
        BY <2>2
    <2>5. Runs(h, i + 1)
      BY <2>3, <2>4
    <2>6. i + 1 \in Nat
      OBVIOUS
    <2> HIDE DEF Runs
    <2> QED
      BY <2>5, <2>6
  <1>3. n \in P
    <2> HIDE DEF P
    <2> QED
      BY <1>1, <1>2, Induction
  <1> QED
    BY <1>3 DEF Readings

\* Wherever the stream is cut, there are bytes enough in the reader for the packets of it.
LEMMA BytesLeft ==
  ASSUME NEW stream, NEW all, NEW pieces, NEW place, InChunks(stream, all, pieces, place),
         NEW reader, NEW n, NEW p, ReaderAt(reader, stream, all, place, n, p)
  PROVE  /\ Len(reader.buffer) + Len(Plain(reader.chunks)) \in Nat /\ p \in Nat /\ Len(stream) \in Nat
         /\ Len(reader.buffer) + Len(Plain(reader.chunks)) >= Len(stream) - p
  <1> DEFINE l == Len(all)
             m == l - n
             chunks == reader.chunks
             plain == Plain(chunks)
             size == Len(reader.buffer)
             b == Len(plain)
             a == place[n]
             c == place[n + m]
  <1>1. n \in 0..l /\ chunks = SubSeq(all, n + 1, l) /\ BufferAt(reader.buffer, reader.offset, stream, p, a - 1)
    BY DEF ReaderAt
  <1>2. PICK T : all \in Seq(T)
    BY DEF InChunks
  <1>3. stream \in Seq(Nat) /\ l = Len(pieces) /\ l \in Nat
    BY <1>2 DEF InChunks
  <1>4. n \in 0..Len(pieces) /\ m \in 0..(Len(pieces) - n) /\ n + m = l
    BY <1>1, <1>3
  <1>5. c = 1 + Len(stream) /\ a \in Nat \ {0}
    <2>1. place[Len(pieces)] = 1 + Len(stream) /\ place[n] \in Nat \ {0}
      BY <1>4, PlacesGrow
    <2> QED
      BY <1>3, <1>4, <2>1
  <1>6. PartOf(chunks, all, n, m)
    <2>1. /\ SubSeq(all, n + 1, Len(all)) \in Seq(T) /\ Len(SubSeq(all, n + 1, Len(all))) = Len(all) - n
          /\ \A k \in 1..(Len(all) - n) : SubSeq(all, n + 1, Len(all))[k] = all[n + k]
      BY <1>1, <1>2, SubSeqRest
    <2>2. chunks \in Seq(T) /\ Len(chunks) = m /\ \A k \in 1..m : chunks[k] = all[n + k]
      BY <1>1, <2>1
    <2> HIDE DEF chunks, m
    <2>3. DOMAIN chunks = 1..m
      BY <2>2
    <2> QED
      BY <2>2, <2>3 DEF PartOf
  <1>7. BytesOf(plain, stream, a - 1, c - 1)
    <2> HIDE DEF m, chunks
    <2> QED
      BY <1>4, <1>6, PlainPart
  <1>8. b = (c - 1) - (a - 1) /\ b \in Nat
    BY <1>7 DEF BytesOf
  <1>9. p \in Nat /\ size \in Nat /\ reader.offset \in 0..size /\ p + (size - reader.offset) = a - 1
    BY <1>1 DEF BufferAt
  <1>10. Len(stream) \in Nat
    BY <1>3
  <1> HIDE DEF a, b, c, size
  <1>11. size + b \in Nat /\ size + b >= Len(stream) - p
    BY <1>5, <1>8, <1>9, <1>10
  <1> QED
    BY <1>9, <1>10, <1>11 DEF size, b, plain, chunks

\* The packets of a payload are read from a compressed stream, wherever it is cut.
LEMMA ReadCompressedAt ==
  ASSUME NEW stream, NEW all, NEW pieces, NEW place, InChunks(stream, all, pieces, place),
         NEW reader, NEW n, NEW p, ReaderAt(reader, stream, all, place, n, p),
         NEW id \in Nat, NEW payload \in Seq(Nat), NEW at, PayloadAt(stream, p + 1, id, payload, at)
  PROVE  LET x == ReadCompressed(reader) IN
         /\ x.id = id % IdMod /\ x.payload = payload
         /\ \E m : ReaderAt(x.reader, stream, all, place, m, at[Len(payload) \div MaxPacket + 1] - 1)
  <1> DEFINE q == Len(payload) \div MaxPacket
             t == q + 1
             bodies == Bodies(payload)
             bytes == Len(reader.buffer) + Len(Plain(reader.chunks))
             packet == CHOOSE g : g = [k \in 1..bytes |-> ReadNormal(IF k = 1 THEN reader ELSE g[k - 1].reader)]
             before(k) == IF k = 1 THEN reader ELSE packet[k - 1].reader
             IsCount(k) == Len(packet[k].payload) < MaxPacket /\ \A j \in 1..(k - 1) : Len(packet[j].payload) = MaxPacket
             count == CHOOSE k \in 1..bytes : IsCount(k)
             parts == [k \in 1..count |-> packet[k].payload]
             x == ReadCompressed(reader)
  <1>1. x = [id |-> packet[1].id, payload |-> FlattenSeq(parts), reader |-> packet[count].reader]
    BY DEF ReadCompressed
  <1>2. /\ q \in Nat /\ bodies \in Seq(Seq(Nat)) /\ Len(bodies) = t /\ FlattenSeq(bodies) = payload
        /\ at \in [0..t -> Nat \ {0}] /\ at[0] = p + 1
        /\ \A i \in 1..t :
             /\ i - 1 \in 0..t /\ at[i - 1] \in Nat \ {0}
             /\ bodies[i] \in Seq(Nat) /\ Len(bodies[i]) \in Nat
             /\ at[i] = at[i - 1] + (HeaderLength + Len(bodies[i]))
             /\ at[i] - 1 <= Len(stream)
             /\ PacketAt(stream, at[i - 1], id + i - 1, bodies[i])
             /\ i # t => Len(bodies[i]) = MaxPacket
        /\ Len(bodies[t]) < MaxPacket
        /\ 4 * t <= Len(stream) - p
    <2> DEFINE first == p + 1
    <2>1. PayloadAt(stream, first, id, payload, at)
      OBVIOUS
    <2> HIDE DEF first
    <2>2. /\ q \in Nat /\ bodies \in Seq(Seq(Nat)) /\ Len(bodies) = t /\ FlattenSeq(bodies) = payload
          /\ at \in [0..t -> Nat \ {0}] /\ at[0] = first
      BY <2>1 DEF PayloadAt
    <2>3. \A i \in 1..t :
             /\ i - 1 \in 0..t /\ at[i - 1] \in Nat \ {0}
             /\ bodies[i] \in Seq(Nat) /\ Len(bodies[i]) \in Nat
             /\ at[i] = at[i - 1] + (HeaderLength + Len(bodies[i]))
             /\ at[i] - 1 <= Len(stream)
             /\ PacketAt(stream, at[i - 1], id + i - 1, bodies[i])
             /\ i # t => Len(bodies[i]) = MaxPacket
      BY <2>1 DEF PayloadAt
    <2>4. Len(bodies[t]) < MaxPacket /\ 4 * t <= Len(stream) - (first - 1)
      BY <2>1 DEF PayloadAt
    <2> HIDE DEF t, q, bodies
    <2>5. at[0] = p + 1
      BY <2>2 DEF first
    <2>6. first - 1 = p
      BY DEF first, ReaderAt, BufferAt
    <2>7. 4 * t <= Len(stream) - p
      BY <2>4, <2>6
    <2> QED
      BY <2>2, <2>3, <2>4, <2>5, <2>7
  <1>3. bytes \in Nat /\ p \in Nat /\ Len(stream) \in Nat /\ bytes >= Len(stream) - p
    BY BytesLeft
  <1>4. packet = [k \in 1..bytes |-> ReadNormal(before(k))]
    <2>1. \E g : Readings(g, bytes, reader)
      <3> HIDE DEF bytes
      <3> QED
        BY <1>3, ReadingsExist
    <2>2. \E g : g = [k \in 1..bytes |-> ReadNormal(IF k = 1 THEN reader ELSE g[k - 1].reader)]
      BY <2>1 DEF Readings
    <2> QED
      BY <2>2
  <1> HIDE DEF packet, bytes, q, bodies, x
  <1>5. t \in 1..bytes /\ t \in Nat
    BY <1>2, <1>3
  <1>6. \A k \in 1..t : packet[k] = ReadNormal(before(k))
    <2> TAKE k \in 1..t
    <2>1. k \in 1..bytes
      BY <1>3, <1>5
    <2> HIDE DEF before
    <2> QED
      BY <1>4, <2>1
  <1> DEFINE Is(k) == \E m : ReaderAt(before(k), stream, all, place, m, at[k - 1] - 1)
  <1>7. Is(1)
    <2>1. at[0] - 1 = p /\ 1 - 1 = 0
      BY <1>2, <1>3
    <2>2. before(1) = reader
      OBVIOUS
    <2> HIDE DEF before
    <2> QED
      BY <2>1, <2>2
  <1>8. ASSUME NEW k \in 1..t, Is(k)
        PROVE  /\ packet[k].id = (id + k - 1) % IdMod /\ packet[k].payload = bodies[k]
               /\ \E m : ReaderAt(packet[k].reader, stream, all, place, m, at[k] - 1)
    <2> DEFINE r == before(k)
               a == at[k - 1] - 1
               d == id + k - 1
               body == bodies[k]
    <2>1. PICK m : ReaderAt(r, stream, all, place, m, a)
      BY <1>8
    <2>2. a + 1 = at[k - 1] /\ d \in Nat /\ body \in Seq(Nat) /\ a + HeaderLength + Len(body) = at[k] - 1
      <3>1. at[k - 1] \in Nat \ {0} /\ body \in Seq(Nat) /\ at[k] = at[k - 1] + (HeaderLength + Len(body)) /\ Len(body) \in Nat
        BY <1>2
      <3> DEFINE y == at[k - 1]
      <3> HIDE DEF body
      <3>2. d \in Nat
        BY <1>5
      <3> HIDE DEF d, y
      <3>3. y - 1 + 1 = y /\ y - 1 + HeaderLength + Len(body) = y + (HeaderLength + Len(body)) - 1
        BY <3>1 DEF HeaderLength, y
      <3>4. a + 1 = at[k - 1] /\ at[k] - 1 = y + (HeaderLength + Len(body)) - 1
        <4>1. at[k] = y + (HeaderLength + Len(body)) /\ a = y - 1 /\ y \in Nat
          BY <3>1 DEF y
        <4> HIDE DEF a
        <4> DEFINE z == at[k]
                   w == HeaderLength + Len(body)
        <4>2. w \in Nat /\ z = y + w
          BY <3>1, <4>1 DEF HeaderLength
        <4> HIDE DEF z, w
        <4>3. a + 1 = y /\ z - 1 = y + w - 1
          BY <4>1, <4>2
        <4> QED
          BY <4>3 DEF y, z, w
      <3>5. a + HeaderLength + Len(body) = at[k] - 1
        BY <3>3, <3>4 DEF y
      <3> HIDE DEF a
      <3> QED
        BY <3>1, <3>2, <3>4, <3>5
    <2>3. PacketAt(stream, a + 1, d, body) /\ a + HeaderLength + Len(body) <= Len(stream)
      <3>1. PacketAt(stream, at[k - 1], d, body) /\ at[k] - 1 <= Len(stream)
        BY <1>2
      <3> HIDE DEF a, d, body
      <3> QED
        BY <2>2, <3>1
    <2>4. packet[k] = ReadNormal(r)
      BY <1>6
    <2> HIDE DEF r, a, d, body
    <2>5. /\ ReadNormal(r).id = d % IdMod /\ ReadNormal(r).payload = body
          /\ \E i : ReaderAt(ReadNormal(r).reader, stream, all, place, i, a + HeaderLength + Len(body))
      BY <2>1, <2>2, <2>3, ReadNormalAt
    <2> QED
      BY <2>2, <2>4, <2>5 DEF d, body
  <1> DEFINE P == {k \in Nat : k + 1 <= t => Is(k + 1)}
  <1>9. 0 \in P
    <2>1. 0 + 1 = 1
      OBVIOUS
    <2> HIDE DEF Is
    <2> QED
      BY <1>7, <2>1
  <1>10. ASSUME NEW k \in Nat, k \in P PROVE k + 1 \in P
    <2> DEFINE i == k + 1
    <2> SUFFICES ASSUME i + 1 <= t PROVE Is(i + 1)
      OBVIOUS
    <2>1. i \in 1..t /\ i + 1 # 1 /\ i + 1 - 1 = i /\ i <= t
      BY <1>5
    <2>2. Is(i)
      BY <1>10, <2>1
    <2> HIDE DEF i, P
    <2>3. \E m : ReaderAt(packet[i].reader, stream, all, place, m, at[i] - 1)
      BY <1>8, <2>1, <2>2
    <2>4. before(i + 1) = packet[i].reader
      BY <2>1
    <2> HIDE DEF before
    <2> QED
      BY <2>1, <2>3, <2>4
  <1>11. ASSUME NEW k \in 1..t PROVE Is(k)
    <2>1. k - 1 \in Nat /\ k - 1 + 1 = k /\ k <= t
      BY <1>5
    <2>2. k - 1 \in P
      <3> HIDE DEF P
      <3> QED
        BY <1>9, <1>10, <2>1, Induction
    <2> HIDE DEF Is
    <2> QED
      BY <2>1, <2>2
  <1> HIDE DEF Is, P, before
  <1>12. \A k \in 1..t : /\ packet[k].id = (id + k - 1) % IdMod /\ packet[k].payload = bodies[k]
                         /\ \E m : ReaderAt(packet[k].reader, stream, all, place, m, at[k] - 1)
    BY <1>8, <1>11
  <1>13. count = t
    <2>1. IsCount(t)
      <3>1. t \in 1..t
        BY <1>5
      <3>2. \A j \in 1..(t - 1) : j \in 1..t /\ j # t
        BY <1>5
      <3>3. Len(packet[t].payload) < MaxPacket
        BY <1>2, <1>12, <3>1
      <3>4. ASSUME NEW j \in 1..(t - 1) PROVE Len(packet[j].payload) = MaxPacket
        <4>1. Len(bodies[j]) = MaxPacket /\ packet[j].payload = bodies[j]
          <5>1. j \in 1..t /\ j # t
            BY <3>2
          <5> HIDE DEF t
          <5> QED
            BY <1>2, <1>12, <5>1
        <4> QED
          BY <4>1
      <3> QED
        BY <3>3, <3>4
    <2>2. ASSUME NEW k \in 1..bytes, IsCount(k) PROVE k = t
      <3>1. CASE k < t
        <4>1. k \in 1..t /\ k # t
          BY <3>1, <1>5
        <4>2. Len(packet[k].payload) = MaxPacket
          BY <1>2, <1>12, <4>1
        <4>3. Len(packet[k].payload) < MaxPacket
          BY <2>2
        <4> QED
          BY <4>2, <4>3, FramingAssumption
      <3>2. CASE k > t
        <4>1. t \in 1..(k - 1) /\ t \in 1..t
          BY <3>2, <1>5
        <4>2. Len(packet[t].payload) = MaxPacket
          BY <2>2, <4>1
        <4>3. Len(packet[t].payload) < MaxPacket
          BY <1>2, <1>12, <4>1
        <4> QED
          BY <4>2, <4>3, FramingAssumption
      <3>3. k \in Nat /\ (k = t \/ k < t \/ k > t)
        BY <1>5
      <3> QED
        BY <3>1, <3>2, <3>3
    <2> HIDE DEF IsCount
    <2> QED
      BY <1>5, <2>1, <2>2
  <1>14. parts = bodies
    <2>1. parts = [k \in 1..t |-> bodies[k]]
      <3>1. parts = [k \in 1..t |-> packet[k].payload]
        BY <1>13
      <3> HIDE DEF parts
      <3> QED
        BY <1>12, <3>1
    <2>2. bodies = [k \in 1..t |-> bodies[k]]
      <3> DEFINE T == Seq(Nat)
      <3>1. bodies \in Seq(T) /\ Len(bodies) = t
        BY <1>2
      <3> HIDE DEF T
      <3> QED
        BY <3>1
    <2> HIDE DEF parts
    <2> QED
      BY <2>1, <2>2
  <1> HIDE DEF count, parts
  <1>15. 1 \in 1..t /\ t \in 1..t /\ id + 1 - 1 = id
    BY <1>5
  <1>16. packet[1].id = id % IdMod /\ \E m : ReaderAt(packet[t].reader, stream, all, place, m, at[t] - 1)
    <2>1. packet[1].id = (id + 1 - 1) % IdMod
      BY <1>12, <1>15
    <2> QED
      BY <1>12, <1>15, <2>1
  <1>17. x.id = packet[1].id /\ x.payload = payload /\ x.reader = packet[t].reader
    BY <1>1, <1>2, <1>13, <1>14
  <1> QED
    BY <1>16, <1>17 DEF x, q

\* At the end of the stream nothing is left over.
LEMMA NothingLeft ==
  ASSUME NEW stream, NEW all, NEW pieces, NEW place, InChunks(stream, all, pieces, place),
         NEW reader, NEW n, ReaderAt(reader, stream, all, place, n, Len(stream))
  PROVE  reader.chunks = <<>> /\ reader.offset = Len(reader.buffer)
  <1> DEFINE l == Len(all)
             size == Len(reader.buffer)
             a == place[n]
  <1>1. /\ n \in 0..l /\ reader.chunks = SubSeq(all, n + 1, l)
        /\ BufferAt(reader.buffer, reader.offset, stream, Len(stream), a - 1)
    BY DEF ReaderAt
  <1>2. PICK T : all \in Seq(T)
    BY DEF InChunks
  <1>3. l = Len(pieces) /\ l \in Nat /\ stream \in Seq(Nat)
    BY <1>2 DEF InChunks
  <1>4. /\ a \in Nat \ {0} /\ a <= 1 + Len(stream) /\ place[l] = 1 + Len(stream)
        /\ (n # l => a < place[l])
    <2>1. n \in 0..Len(pieces) /\ Len(pieces) \in 0..Len(pieces) /\ n <= Len(pieces)
      BY <1>1, <1>3
    <2>2. /\ place[Len(pieces)] = 1 + Len(stream) /\ place[n] \in Nat \ {0} /\ place[n] <= 1 + Len(stream)
          /\ (n # Len(pieces) => place[n] < place[Len(pieces)])
      BY <2>1, PlacesGrow
    <2> QED
      BY <1>3, <2>2
  <1>5. size \in Nat /\ reader.offset \in 0..size /\ Len(stream) + (size - reader.offset) = a - 1
    BY <1>1 DEF BufferAt
  <1>6. Len(stream) \in Nat
    BY <1>3
  <1> HIDE DEF size, a
  <1>7. reader.offset = size /\ a = 1 + Len(stream)
    BY <1>4, <1>5, <1>6
  <1>8. n = l
    BY <1>4, <1>6, <1>7
  <1>9. reader.chunks = <<>>
    <2>1. reader.chunks \in Seq(T) /\ Len(reader.chunks) = l - n
      BY <1>1, <1>2, SubSeqRest
    <2>2. l - n = 0
      BY <1>3, <1>8
    <2> QED
      BY <2>1, <2>2, EmptySeq
  <1> QED
    BY <1>7, <1>9 DEF size

\* Numbers that go round at m.
Round(f, n, m, c, first) ==
  f \in [0..n -> 0..(m - 1)] /\ f[0] = first /\ \A i \in 1..n : f[i] = (f[i - 1] + c[i]) % m

LEMMA GoingRound ==
  ASSUME NEW n \in Nat, NEW m \in Nat \ {0}, NEW c, \A i \in 1..n : c[i] \in Nat, NEW first \in 0..(m - 1)
  PROVE  \E f : Round(f, n, m, c, first)
  <1> DEFINE V == 0..(m - 1)
             a == first
             step == [i \in 1..n |-> [x \in V |-> (x + c[i]) % m]]
  <1>1. \A i \in 1..n : \A x \in V : (x + c[i]) % m \in V
    <2> TAKE i \in 1..n
    <2> TAKE x \in V
    <2> DEFINE y == x + c[i]
    <2>1. y \in Nat
      OBVIOUS
    <2> HIDE DEF y
    <2>2. y % m \in 0..(m - 1)
      BY <2>1, Division
    <2> QED
      BY <2>2 DEF y
  <1>2. a \in V
    OBVIOUS
  <1> HIDE DEF V, a
  <1>3. step \in [1..n -> [V -> V]] /\ \A i \in 1..n : \A x \in V : step[i][x] = (x + c[i]) % m
    BY <1>1
  <1> HIDE DEF step
  <1>4. Turns(step, n, V)
    BY <1>3 DEF Turns
  <1>5. PICK f : Loop(f, step, n, V, a)
    BY <1>2, <1>4, Iterated
  <1>7. f \in [0..n -> V] /\ f[0] = a /\ \A i \in 1..n : f[i] = step[i][f[i - 1]]
    BY <1>5 DEF Loop
  <1>6. \A i \in 1..n : f[i] = (f[i - 1] + c[i]) % m
    <2> TAKE i \in 1..n
    <2>1. i - 1 \in 0..n
      OBVIOUS
    <2>2. f[i - 1] \in V
      BY <1>7, <2>1
    <2> QED
      BY <1>3, <1>7, <2>2
  <1> QED
    BY <1>6, <1>7 DEF Round, V, a

\* What a chunk holds is what went into it.
LEMMA ChunkRead ==
  ASSUME NEW bytes \in Seq(Nat), NEW id
  PROVE  Inflated(Chunk(bytes, id)) = bytes
  <1> DEFINE x == Chunk(bytes, id)
  <1>1. CASE Deflates(bytes)
    <2>1. x.length = Len(bytes) /\ x.body = <<"deflated", bytes>> /\ x.body[2] = bytes
      BY <1>1 DEF Chunk
    <2>2. Len(bytes) # 0
      BY <1>1 DEF Deflates
    <2> HIDE DEF x
    <2>3. Inflated(x) = SubSeq(bytes, 1, Len(bytes))
      BY <2>1, <2>2 DEF Inflated
    <2> QED
      BY <2>3, SubSeqAll DEF x
  <1>2. CASE ~Deflates(bytes)
    <2>1. x.length = 0 /\ x.body[2] = bytes
      BY <1>2 DEF Chunk
    <2> QED
      BY <2>1 DEF Inflated
  <1> QED
    BY <1>1, <1>2

\* A stream in chunks of a size.
LEMMA ChunksAre ==
  ASSUME NEW stream \in Seq(Nat), NEW id, NEW size \in Nat \ {0}
  PROVE  \E pieces, place : InChunks(stream, Chunks(stream, id, size), pieces, place)
  <1> DEFINE l == Len(stream)
             n == (l + size - 1) \div size
             pieces == CutUp(stream, size, n)
             all == Chunks(stream, id, size)
  <1>1. l \in Nat /\ n \in Nat /\ n * size >= l /\ n * size <= l + size - 1
    <2> DEFINE x == l + size - 1
               p == size * n
    <2>1. l \in Nat /\ x \in Nat
      OBVIOUS
    <2> HIDE DEF x
    <2>2. x \div size \in Nat /\ x % size \in 0..(size - 1) /\ x % size = x - size * (x \div size)
      BY <2>1, Division
    <2>3. n \in Nat /\ x % size \in 0..(size - 1) /\ x % size = x - p
      BY <2>2 DEF x
    <2>4. p \in Nat /\ n * size = p
      BY <2>3
    <2> HIDE DEF p, n
    <2>5. p >= l /\ p <= l + size - 1
      BY <2>1, <2>3, <2>4 DEF x
    <2> QED
      BY <2>1, <2>3, <2>4, <2>5
  <1>2. Cut(stream, size) = pieces
    BY DEF Cut, CutUp
  <1> HIDE DEF n, pieces
  <1>3. pieces \in Seq(Seq(Nat)) /\ Len(pieces) = n /\ FlattenSeq(pieces) = stream
    BY <1>1, PiecesJoined DEF pieces
  <1>4. DOMAIN pieces = 1..n /\ \A i \in 1..n : pieces[i] \in Seq(Nat)
    BY <1>3
  <1>5. all = [i \in 1..n |-> Chunk(pieces[i], id + i - 1)]
    BY <1>2, <1>4 DEF Chunks
  <1> HIDE DEF all
  <1>6. \A i \in 1..n : Inflated(all[i]) = pieces[i]
    <2> TAKE i \in 1..n
    <2>1. all[i] = Chunk(pieces[i], id + i - 1)
      BY <1>5
    <2> QED
      BY <1>4, <2>1, ChunkRead
  <1>7. ASSUME NEW i \in 1..n PROVE pieces[i] # <<>>
    <2> DEFINE a == (i - 1) * size
               b == i * size
               c == Min({b, l})
               at == a + 1
    <2>1. pieces[i] = SubSeq(stream, at, c)
      BY DEF pieces, CutUp
    <2>2. a \in Nat /\ b \in Nat /\ b = a + size /\ a + size <= n * size
      <3>1. i \in Nat /\ i - 1 \in Nat /\ i <= n
        BY <1>1
      <3>2. i * size \in Nat /\ (i - 1) * size = i * size - size /\ (i - 1) * size \in Nat
        BY <3>1, Multiples
      <3>3. i * size <= n * size
        BY <1>1, <3>1, Monotone
      <3> DEFINE x == i * size
                 y == (i - 1) * size
                 z == n * size
      <3>4. x \in Nat /\ y = x - size /\ y \in Nat /\ x <= z
        BY <3>2, <3>3
      <3> HIDE DEF x, y, z
      <3>5. x = y + size
        BY <3>4
      <3> QED
        BY <3>4, <3>5 DEF x, y, z
    <2>3. a < l
      <3> DEFINE z == n * size
      <3>1. z \in Nat /\ z <= l + size - 1 /\ a + size <= z
        BY <1>1, <2>2
      <3> HIDE DEF z, a
      <3> QED
        BY <1>1, <2>2, <3>1
    <2>4. c = IF b <= l THEN b ELSE l
      <3> HIDE DEF b
      <3> QED
        BY <1>1, <2>2, MinOfTwo
    <2> HIDE DEF a, b, c
    <2>5. c \in Nat /\ c <= l /\ at \in Nat \ {0} /\ at <= c
      BY <1>1, <2>2, <2>3, <2>4
    <2> HIDE DEF at
    <2>6. Len(SubSeq(stream, at, c)) = c - at + 1
      BY <2>5, SubSeqIs
    <2> DEFINE piece == SubSeq(stream, at, c)
    <2>7. Len(piece) # 0
      <3>1. c - at + 1 # 0
        BY <2>5
      <3> QED
        BY <2>6, <3>1
    <2> HIDE DEF piece
    <2>8. piece # <<>>
      BY <2>7
    <2> QED
      BY <2>1, <2>8 DEF piece
  <1>8. (\E T : all \in Seq(T)) /\ Len(all) = n
    <2> DEFINE T == {all[i] : i \in 1..n}
    <2>1. all \in [1..n -> T]
      BY <1>5
    <2> HIDE DEF T
    <2>2. all \in Seq(T) /\ Len(all) = n
      BY <1>1, <2>1, FunctionIsSeq
    <2> QED
      BY <2>2
  <1>9. PICK place : Places(stream, 1, pieces, place)
    <2> DEFINE at == 1
    <2>1. at \in Nat \ {0} /\ Holds(stream, at, FlattenSeq(pieces))
      <3>1. Holds(stream, 1, stream)
        BY HoldsItself
      <3> QED
        BY <1>3, <3>1
    <2> HIDE DEF at
    <2>2. \E place : Places(stream, at, pieces, place)
      BY <1>3, <2>1, Placed
    <2> QED
      BY <2>2 DEF at
  <1>10. InChunks(stream, all, pieces, place)
    BY <1>3, <1>6, <1>7, <1>8, <1>9 DEF InChunks
  <1> QED
    BY <1>10 DEF all

LEMMA ReaderBegins ==
  ASSUME NEW stream, NEW all, NEW pieces, NEW place, InChunks(stream, all, pieces, place)
  PROVE  ReaderAt(Reader(all), stream, all, place, 0, 0)
  <1> DEFINE x == Reader(all)
             zero == 0
             none == <<>>
             rest == SubSeq(all, zero + 1, Len(all))
  <1>1. PICK T : all \in Seq(T)
    BY DEF InChunks
  <1>2. rest = all
    <2>1. SubSeq(all, 1, Len(all)) = all
      BY <1>1, SubSeqAll
    <2> QED
      BY <2>1
  <1>3. x = [chunks |-> all, buffer |-> none, offset |-> zero]
    BY DEF Reader
  <1>4. x.buffer = none /\ x.offset = zero /\ x = [chunks |-> rest, buffer |-> x.buffer, offset |-> x.offset]
    BY <1>2, <1>3
  <1>5. none \in Seq(Nat) /\ Len(none) = zero /\ zero \in Nat /\ zero \in 0..zero /\ 1..(zero - zero) = {}
    OBVIOUS
  <1>6. place[zero] - 1 = zero /\ zero + (zero - zero) = zero
    BY PlacesGrow
  <1> HIDE DEF x, zero, none, rest
  <1>7. BufferAt(none, zero, stream, zero, place[zero] - 1)
    BY <1>5, <1>6 DEF BufferAt
  <1>8. zero \in 0..Len(all)
    BY <1>1 DEF zero
  <1> QED
    BY <1>4, <1>7, <1>8 DEF ReaderAt, x, zero, rest
=============================================================================
