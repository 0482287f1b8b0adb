--------------------------- MODULE SignedBytes_proofs ---------------------------
(***************************************************************************)
(* No two ceremonies are signed over the same bytes; the TypeScript encoder      *)
(* writes the Rust encoder's or throws, for bytes and integers of any width and  *)
(* vectors of any length; and the scanner of clientDataJSON reads any text as     *)
(* JSON has it and any challenge as it was written.                            *)
(***************************************************************************)
EXTENDS SignedBytes, Lexemes, Sums_proofs, SequenceTheorems

-----------------------------------------------------------------------------
(* Recursion over the naturals. *)

IsRun(g, n, a, step, V) ==
  /\ g \in [0 .. n -> V]
  /\ g[0] = a
  /\ \A m \in 0 .. n - 1 : g[m + 1] = step[<<m, g[m]>>]

\* Runs of any length exist.
LEMMA RunsExist ==
  ASSUME NEW V, NEW a \in V, NEW step \in [Nat \X V -> V]
  PROVE  \A n \in Nat : \E g : IsRun(g, n, a, step, V)
<1> DEFINE P == {n \in Nat : \E g : IsRun(g, n, a, step, V)}
<1>1. 0 \in P
  <2> DEFINE g == [m \in 0 .. 0 |-> a]
  <2>1. IsRun(g, 0, a, step, V)
    BY DEF IsRun
  <2> QED
    BY <2>1
<1>2. ASSUME NEW n \in Nat, n \in P PROVE n + 1 \in P
  <2>1. PICK g : IsRun(g, n, a, step, V)
    BY <1>2
  <2>2. g \in [0 .. n -> V] /\ g[0] = a /\ \A m \in 0 .. n - 1 : g[m + 1] = step[<<m, g[m]>>]
    BY <2>1 DEF IsRun
  <2> DEFINE h == [m \in 0 .. n + 1 |-> IF m = n + 1 THEN step[<<n, g[n]>>] ELSE g[m]]
  <2>3. g[n] \in V /\ step[<<n, g[n]>>] \in V
    BY <2>2
  <2>4. h \in [0 .. n + 1 -> V]
    BY <2>2, <2>3
  <2>5. h[0] = a
    BY <2>2
  <2>6. ASSUME NEW m \in 0 .. n PROVE h[m + 1] = step[<<m, h[m]>>]
    <3>0. m \in 0 .. n + 1 /\ m # n + 1 /\ m + 1 \in 0 .. n + 1
      OBVIOUS
    <3>1. h[m] = g[m]
      BY <3>0
    <3>2. CASE m = n
      <4>1. h[m + 1] = step[<<n, g[n]>>]
        BY <3>0, <3>2
      <4> QED
        BY <3>1, <3>2, <4>1
    <3>3. CASE m # n
      <4>1. m \in 0 .. n - 1 /\ m + 1 # n + 1
        BY <3>3
      <4>2. h[m + 1] = g[m + 1]
        BY <3>0, <4>1
      <4> QED
        BY <2>2, <3>1, <4>1, <4>2
    <3> QED
      BY <3>2, <3>3
  <2> HIDE DEF h
  <2>7. IsRun(h, n + 1, a, step, V)
    BY <2>4, <2>5, <2>6 DEF IsRun
  <2> QED
    BY <2>7
<1> HIDE DEF P
<1>3. Nat \subseteq P
  BY <1>1, <1>2, NaturalsReached
<1> QED
  BY <1>3 DEF P

\* Where two runs both are, they are at the same.
LEMMA RunsAgree ==
  ASSUME NEW V, NEW a, NEW step, NEW n \in Nat, NEW k \in Nat, NEW g, NEW h,
         IsRun(g, n, a, step, V), IsRun(h, k, a, step, V)
  PROVE  \A m \in Nat : m <= n /\ m <= k => g[m] = h[m]
<1> DEFINE P == {m \in Nat : m <= n /\ m <= k => g[m] = h[m]}
<1>1. 0 \in P
  BY DEF IsRun
<1>2. ASSUME NEW m \in Nat, m \in P PROVE m + 1 \in P
  <2> SUFFICES ASSUME m + 1 <= n, m + 1 <= k PROVE g[m + 1] = h[m + 1]
    OBVIOUS
  <2>1. m \in 0 .. n - 1 /\ m \in 0 .. k - 1 /\ g[m] = h[m]
    BY <1>2
  <2> QED
    BY <2>1 DEF IsRun
<1> HIDE DEF P
<1>3. Nat \subseteq P
  BY <1>1, <1>2, NaturalsReached
<1> QED
  BY <1>3 DEF P

Follows(h, a, step, V) ==
  /\ h \in [Nat -> V]
  /\ h[0] = a
  /\ \A n \in Nat : h[n + 1] = step[<<n, h[n]>>]

\* A first value and a step define a function on the naturals.
LEMMA RecursionExists ==
  ASSUME NEW V, NEW a \in V, NEW step \in [Nat \X V -> V]
  PROVE  \E h : Follows(h, a, step, V)
<1> DEFINE run(n) == CHOOSE g : IsRun(g, n, a, step, V)
           h == [n \in Nat |-> run(n)[n]]
<1>1. \A n \in Nat : IsRun(run(n), n, a, step, V)
  BY RunsExist
<1> HIDE DEF run
<1>2. h \in [Nat -> V]
  <2>1. \A n \in Nat : run(n)[n] \in V
    BY <1>1 DEF IsRun
  <2> QED
    BY <2>1
<1>3. h[0] = a
  BY <1>1 DEF IsRun
<1>4. ASSUME NEW n \in Nat PROVE h[n + 1] = step[<<n, h[n]>>]
  <2>1. run(n)[n] = run(n + 1)[n]
    BY <1>1, RunsAgree
  <2>2. run(n + 1)[n + 1] = step[<<n, run(n + 1)[n]>>]
    BY <1>1 DEF IsRun
  <2> QED
    BY <2>1, <2>2
<1> QED
  BY <1>2, <1>3, <1>4 DEF Follows

-----------------------------------------------------------------------------
(* Integers and their bytes. *)

\* A width has a positive number of values, and RADIX times as many with a byte more.
LEMMA RadixPowers ==
  /\ \A n \in Nat : RadixTo[n] \in Nat \ {0} /\ RadixTo[n + 1] = RADIX * RadixTo[n]
  /\ RadixTo[0] = 1
<1> DEFINE V == Nat \ {0}
           step == [p \in Nat \X V |-> RADIX * p[2]]
           Solves1(f) == f = [n \in Nat |-> IF n = 0 THEN 1 ELSE RADIX * f[n - 1]]
<1>1. RADIX \in Nat /\ RADIX > 1
  BY TranscriptAssumption
<1>2. \A x \in V : RADIX * x \in V
  BY <1>1
<1>3. step \in [Nat \X V -> V] /\ \A n \in Nat, x \in V : step[<<n, x>>] = RADIX * x
  BY <1>2
<1>4. 1 \in V
  OBVIOUS
<1> HIDE DEF step, V
<1>5. PICK h : Follows(h, 1, step, V)
  <2>1. step \in [Nat \X V -> V]
    BY <1>3
  <2> QED
    BY <1>4, <2>1, RecursionExists
<1>6. \A n \in Nat : h[n + 1] = RADIX * h[n]
  BY <1>3, <1>5 DEF Follows
<1>7. Solves1(h)
  <2>1. \A n \in Nat : h[n] = IF n = 0 THEN 1 ELSE RADIX * h[n - 1]
    <3> SUFFICES ASSUME NEW n \in Nat, n # 0 PROVE h[n] = RADIX * h[n - 1]
      BY <1>5 DEF Follows
    <3>1. n - 1 \in Nat /\ (n - 1) + 1 = n
      OBVIOUS
    <3> QED
      BY <1>6, <3>1
  <2> QED
    BY <2>1, <1>5 DEF Follows
<1>8. Solves1(RadixTo)
  <2>1. RadixTo = CHOOSE f : Solves1(f)
    BY DEF RadixTo
  <2> QED
    BY <1>7, <2>1
<1>9. RadixTo[0] = 1 /\ \A n \in Nat : RadixTo[n + 1] = RADIX * RadixTo[n]
  <2>1. ASSUME NEW n \in Nat PROVE RadixTo[n + 1] = RADIX * RadixTo[n]
    <3>1. n + 1 \in Nat /\ n + 1 # 0 /\ (n + 1) - 1 = n
      OBVIOUS
    <3> QED
      BY <1>8, <3>1
  <2> QED
    BY <1>8, <2>1
<1> DEFINE P == {n \in Nat : RadixTo[n] \in V}
<1>10. 0 \in P
  BY <1>4, <1>9
<1>11. ASSUME NEW n \in Nat, n \in P PROVE n + 1 \in P
  BY <1>2, <1>9, <1>11
<1> HIDE DEF P
<1>12. Nat \subseteq P
  BY <1>10, <1>11, NaturalsReached
<1> QED
  BY <1>9, <1>12 DEF P, V

\* A remainder and a quotient.
LEMMA Divided ==
  ASSUME NEW x \in Int, NEW m \in Nat \ {0}
  PROVE  /\ x \div m \in Int /\ x % m \in 0 .. m - 1
         /\ x = m * (x \div m) + (x % m)
  OBVIOUS

\* Adding a multiple adds to the quotient.
LEMMA QuotientOfShifted ==
  ASSUME NEW x \in Int, NEW k \in Int, NEW m \in Nat \ {0}
  PROVE  (x + k * m) \div m = x \div m + k
<1> DEFINE y == x + k * m
           q == y \div m - (x \div m + k)
           r == y % m
           s == x % m
<1>1. /\ y \in Int /\ y \div m \in Int /\ r \in 0 .. m - 1 /\ y = m * (y \div m) + r
  BY Divided
<1>2. x \div m \in Int /\ s \in 0 .. m - 1 /\ x = m * (x \div m) + s
  BY Divided
<1>3. q \in Int /\ m * q = s - r
  BY <1>1, <1>2
<1> HIDE DEF q, r, s
<1>4. m * q < m /\ m * q > -m
  BY <1>1, <1>2, <1>3
<1>5. q = 0
  <2>1. q >= 1 => m * q >= m
    BY <1>3
  <2>2. q <= -1 => m * q <= -m
    BY <1>3
  <2> QED
    BY <1>3, <1>4, <2>1, <2>2
<1> QED
  BY <1>1, <1>2, <1>5 DEF q

\* Integers with the same remainder are a multiple apart.
LEMMA SameRemainder ==
  ASSUME NEW x \in Int, NEW y \in Int, NEW m \in Nat \ {0}, x % m = y % m
  PROVE  \E k \in Int : x = y + k * m
<1>1. x \div m - y \div m \in Int
  BY Divided
<1>2. x = y + (x \div m - y \div m) * m
  BY Divided
<1> QED
  BY <1>1, <1>2

\* A multiple that is nearer to zero than the modulus is zero.
LEMMA SmallMultiple ==
  ASSUME NEW k \in Int, NEW m \in Nat \ {0}, k * m < m, k * m > -m
  PROVE  k = 0
<1>1. k >= 1 => k * m >= m
  OBVIOUS
<1>2. k <= -1 => k * m <= -m
  OBVIOUS
<1> QED
  BY <1>1, <1>2

\* Bytes of an integer are bytes, as many as asked for.
LEMMA LeIsBytes ==
  ASSUME NEW v \in Int, NEW len \in Nat
  PROVE  /\ Le(v, len) \in Seq(Cells) /\ Len(Le(v, len)) = len
         /\ \A i \in 1 .. len : Le(v, len)[i] = (v \div RadixTo[i - 1]) % RADIX
<1>1. ASSUME NEW i \in 1 .. len PROVE (v \div RadixTo[i - 1]) % RADIX \in Cells
  <2>1. i - 1 \in Nat /\ RADIX \in Nat \ {0}
    BY TranscriptAssumption
  <2>2. RadixTo[i - 1] \in Nat \ {0}
    BY <2>1, RadixPowers
  <2>3. v \div RadixTo[i - 1] \in Int
    BY <2>2, Divided
  <2> QED
    BY <2>1, <2>3, Divided DEF Cells
<1>2. Le(v, len) \in [1 .. len -> Cells]
  BY <1>1 DEF Le
<1> QED
  BY <1>2 DEF Le

\* Integers with the same bytes are a multiple of the number of values apart.
LEMMA SameBytes ==
  ASSUME NEW v \in Int, NEW w \in Int, NEW len \in Nat, Le(v, len) = Le(w, len)
  PROVE  \E k \in Int : v = w + k * RadixTo[len]
<1> DEFINE P == {n \in Nat : n <= len => \E k \in Int : v = w + k * RadixTo[n]}
<1>1. 0 \in P
  <2>1. v - w \in Int /\ v = w + (v - w) * 1
    OBVIOUS
  <2> QED
    BY <2>1, RadixPowers
<1>2. ASSUME NEW n \in Nat, n \in P PROVE n + 1 \in P
  <2> SUFFICES ASSUME n + 1 <= len PROVE \E k \in Int : v = w + k * RadixTo[n + 1]
    OBVIOUS
  <2> DEFINE m == RadixTo[n]
  <2>1. PICK k \in Int : v = w + k * m
    BY <1>2
  <2>2. m \in Nat \ {0} /\ RadixTo[n + 1] = RADIX * m /\ RADIX \in Nat \ {0}
    BY RadixPowers, TranscriptAssumption
  <2>3. (v \div m) % RADIX = (w \div m) % RADIX
    <3>1. n + 1 \in 1 .. len /\ (n + 1) - 1 = n
      OBVIOUS
    <3> QED
      BY <3>1, LeIsBytes
  <2> HIDE DEF m
  <2>4. w \div m \in Int /\ v \div m \in Int /\ v \div m = w \div m + k
    BY <2>1, <2>2, Divided, QuotientOfShifted
  <2>5. PICK j \in Int : v \div m = w \div m + j * RADIX
    BY <2>2, <2>3, <2>4, SameRemainder
  <2>6. k = j * RADIX
    BY <2>2, <2>4, <2>5
  <2>7. v = w + j * (RADIX * m)
    BY <2>1, <2>2, <2>6
  <2> QED
    BY <2>2, <2>7
<1> HIDE DEF P
<1>3. len \in P
  BY <1>1, <1>2, NaturalsReached
<1> QED
  BY <1>3 DEF P

\* An integer that fits its width is read back from its bytes.
LEMMA UnsignedRead ==
  ASSUME NEW len \in Nat, NEW v \in Unsigned(len), NEW w \in Unsigned(len),
         Le(v, len) = Le(w, len)
  PROVE  v = w
<1> DEFINE m == RadixTo[len]
<1>1. m \in Nat \ {0} /\ v \in 0 .. m - 1 /\ w \in 0 .. m - 1
  BY RadixPowers DEF Unsigned
<1>2. PICK k \in Int : v = w + k * m
  BY <1>1, SameBytes
<1> HIDE DEF m
<1>3. k * m \in Int
  BY <1>1
<1>4. k * m < m /\ k * m > -m
  BY <1>1, <1>2, <1>3
<1>5. k = 0
  BY <1>1, <1>4, SmallMultiple
<1> QED
  BY <1>1, <1>2, <1>5

\* So is one with a sign.
LEMMA SignedRead ==
  ASSUME NEW len \in Nat, NEW v \in Signed(len), NEW w \in Signed(len),
         Le(v, len) = Le(w, len)
  PROVE  v = w
<1> DEFINE m == RadixTo[len]
           half == m \div 2
<1>1. m \in Nat \ {0} /\ v \in -half .. half - 1 /\ w \in -half .. half - 1
  BY RadixPowers DEF Signed
<1>2. half \in Int /\ 2 * half <= m
  <2>1. m \in Int /\ 2 \in Nat \ {0}
    BY <1>1
  <2> HIDE DEF m
  <2>2. half \in Int /\ m % 2 \in 0 .. 1 /\ m = 2 * half + (m % 2)
    BY <2>1, Divided
  <2> QED
    BY <2>1, <2>2
<1>3. PICK k \in Int : v = w + k * m
  <2>1. v \in Int /\ w \in Int
    BY <1>1, <1>2
  <2> QED
    BY <2>1, SameBytes
<1> HIDE DEF m, half
<1>4. k * m \in Int
  BY <1>1
<1>5. k * m < m /\ k * m > -m
  BY <1>1, <1>2, <1>3, <1>4
<1>6. k = 0
  BY <1>1, <1>5, SmallMultiple
<1> QED
  BY <1>1, <1>2, <1>3, <1>6

-----------------------------------------------------------------------------
(* Concatenation. *)

\* Two concatenations whose heads are as long have the same heads and the same tails.
LEMMA SameHeads ==
  ASSUME NEW S, NEW a \in Seq(S), NEW b \in Seq(S), NEW c \in Seq(S), NEW d \in Seq(S),
         Len(a) = Len(c), a \o b = c \o d
  PROVE  a = c /\ b = d
<1>1. /\ Len(a \o b) = Len(a) + Len(b) /\ Len(c \o d) = Len(c) + Len(d)
      /\ Len(a) \in Nat /\ Len(b) \in Nat /\ Len(c) \in Nat /\ Len(d) \in Nat
  BY LenProperties, ConcatProperties
<1>2. Len(b) = Len(d)
  BY <1>1
<1>3. ASSUME NEW i \in 1 .. Len(a) PROVE a[i] = c[i]
  <2>1. (a \o b)[i] = a[i] /\ (c \o d)[i] = c[i]
    <3>1. i \in 1 .. Len(a) + Len(b) /\ i \in 1 .. Len(c) + Len(d) /\ i <= Len(a)
      BY <1>1
    <3> QED
      BY <3>1, ConcatProperties
  <2> QED
    BY <2>1
<1>4. ASSUME NEW i \in 1 .. Len(b) PROVE b[i] = d[i]
  <2> DEFINE j == Len(a) + i
  <2>1. j \in 1 .. Len(a \o b) /\ j > Len(a) /\ j - Len(a) = i
    BY <1>1
  <2>2. (a \o b)[j] = b[i] /\ (c \o d)[j] = d[i]
    <3>1. /\ (a \o b)[j] = IF j <= Len(a) THEN a[j] ELSE b[j - Len(a)]
          /\ (c \o d)[j] = IF j <= Len(c) THEN c[j] ELSE d[j - Len(c)]
      BY <1>1, <1>2, <2>1, ConcatProperties
    <3> QED
      BY <2>1, <3>1
  <2> QED
    BY <2>2
<1> QED
  BY <1>2, <1>3, <1>4, SeqEqual

\* So have two whose tails are as long.
LEMMA SameTails ==
  ASSUME NEW S, NEW a \in Seq(S), NEW b \in Seq(S), NEW c \in Seq(S), NEW d \in Seq(S),
         Len(b) = Len(d), a \o b = c \o d
  PROVE  a = c /\ b = d
<1>1. /\ Len(a \o b) = Len(a) + Len(b) /\ Len(c \o d) = Len(c) + Len(d)
      /\ Len(a) \in Nat /\ Len(b) \in Nat /\ Len(c) \in Nat /\ Len(d) \in Nat
  BY LenProperties, ConcatProperties
<1>2. Len(a) = Len(c)
  BY <1>1
<1> QED
  BY <1>2, SameHeads

\* The same, of concatenation and length as names: what is known of sequences would
\* lead the provers astray where only these facts matter.
Cat(a, b) == a \o b

Bytes(x, S) == x \in Seq(S)

Sized(x, n, S) == x \in Seq(S) /\ Len(x) = n

\* Concatenations are sequences, wherever the parentheses are.
LEMMA CatIsBytes ==
  ASSUME NEW S, NEW a, NEW b, Bytes(a, S), Bytes(b, S)
  PROVE  Bytes(Cat(a, b), S)
  BY ConcatProperties DEF Bytes, Cat

\* Parentheses of a concatenation do not matter.
LEMMA CatAssociates ==
  ASSUME NEW S, NEW a, NEW b, NEW c, Bytes(a, S), Bytes(b, S), Bytes(c, S)
  PROVE  Cat(Cat(a, b), c) = Cat(a, Cat(b, c))
<1>1. a \in Seq(S) /\ b \in Seq(S) /\ c \in Seq(S)
  BY DEF Bytes
<1> QED
  BY <1>1, ConcatAssociative DEF Cat

\* Lengths of what is concatenated add up.
LEMMA CatSized ==
  ASSUME NEW S, NEW a, NEW b, NEW m, NEW n, Sized(a, m, S), Sized(b, n, S)
  PROVE  Sized(Cat(a, b), m + n, S)
  BY ConcatProperties DEF Sized, Cat

\* A tail of known length is read back from a concatenation.
LEMMA ReadTail ==
  ASSUME NEW S, NEW n, NEW a, NEW b, NEW c, NEW d,
         Bytes(a, S), Sized(b, n, S), Bytes(c, S), Sized(d, n, S), Cat(a, b) = Cat(c, d)
  PROVE  a = c /\ b = d
  BY SameTails DEF Bytes, Sized, Cat

\* A head of known length is read back from a concatenation.
LEMMA ReadHead ==
  ASSUME NEW S, NEW n, NEW a, NEW b, NEW c, NEW d,
         Sized(a, n, S), Bytes(b, S), Sized(c, n, S), Bytes(d, S), Cat(a, b) = Cat(c, d)
  PROVE  a = c /\ b = d
  BY SameHeads DEF Bytes, Sized, Cat

Joins(h, seqs, S) ==
  /\ h \in [Nat -> Seq(S)]
  /\ h[0] = <<>>
  /\ \A n \in Nat : n < Len(seqs) => h[n + 1] = h[n] \o seqs[n + 1]

FlattenSolves(f, seqs) ==
  f = [i \in 1 .. Len(seqs) |-> IF i = 1 THEN seqs[i] ELSE f[i - 1] \o seqs[i]]

\* FlattenSeq is the last of the joins of the sequences before it.
LEMMA FlattenJoins ==
  ASSUME NEW S, NEW seqs \in Seq(Seq(S))
  PROVE  \E h : Joins(h, seqs, S) /\ FlattenSeq(seqs) = h[Len(seqs)]
<1> DEFINE V == Seq(S)
           next(p) == IF p[1] < Len(seqs) THEN p[2] \o seqs[p[1] + 1] ELSE p[2]
           step == [p \in Nat \X V |-> next(p)]
<1>0. Len(seqs) \in Nat /\ \A n \in Nat : n < Len(seqs) => seqs[n + 1] \in V
  OBVIOUS
<1>1. ASSUME NEW n \in Nat, NEW x \in V
      PROVE  next(<<n, x>>) \in V /\ (n < Len(seqs) => next(<<n, x>>) = x \o seqs[n + 1])
  <2>1. CASE n < Len(seqs)
    <3>1. seqs[n + 1] \in Seq(S) /\ x \in Seq(S)
      BY <1>0, <2>1
    <3>2. x \o seqs[n + 1] \in Seq(S)
      BY <3>1
    <3> QED
      BY <2>1, <3>2
  <2>2. CASE ~ (n < Len(seqs))
    BY <2>2
  <2> QED
    BY <2>1, <2>2
<1> HIDE DEF next
<1>2. step \in [Nat \X V -> V]
  BY <1>1
<1>3. \A n \in Nat, x \in V : step[<<n, x>>] = next(<<n, x>>)
  OBVIOUS
<1>4. <<>> \in V
  OBVIOUS
<1> HIDE DEF step, V
<1>5. PICK h : Follows(h, <<>>, step, V)
  BY <1>2, <1>4, RecursionExists
<1>6. h \in [Nat -> V] /\ h[0] = <<>> /\ \A n \in Nat : h[n + 1] = next(<<n, h[n]>>)
  BY <1>3, <1>5 DEF Follows
<1>7. \A n \in Nat : n < Len(seqs) => h[n + 1] = h[n] \o seqs[n + 1]
  BY <1>1, <1>6
<1>8. Joins(h, seqs, S)
  BY <1>6, <1>7 DEF Joins, V
<1>9. CASE Len(seqs) = 0
  <2>1. FlattenSeq(seqs) = seqs /\ seqs = <<>>
    BY <1>9 DEF FlattenSeq
  <2> QED
    BY <1>6, <1>8, <1>9, <2>1
<1>10. CASE Len(seqs) # 0
  <2> DEFINE f == [i \in 1 .. Len(seqs) |-> h[i]]
             F == CHOOSE g : FlattenSolves(g, seqs)
  <2>1. FlattenSeq(seqs) = F[Len(seqs)]
    BY <1>10, Zenon DEF FlattenSeq, FlattenSolves
  <2>2. FlattenSolves(f, seqs)
    <3>1. ASSUME NEW i \in 1 .. Len(seqs)
          PROVE  h[i] = IF i = 1 THEN seqs[i] ELSE f[i - 1] \o seqs[i]
      <4>1. i - 1 \in Nat /\ i - 1 < Len(seqs) /\ (i - 1) + 1 = i
        BY <1>0
      <4>2. h[i] = h[i - 1] \o seqs[i]
        BY <1>7, <4>1
      <4>3. CASE i = 1
        <5>1. seqs[1] \in Seq(S)
          BY <1>0, <4>3
        <5>2. <<>> \o seqs[1] = seqs[1]
          BY <5>1
        <5> QED
          BY <1>6, <4>2, <4>3, <5>2
      <4>4. CASE i # 1
        <5>1. f[i - 1] = h[i - 1]
          <6>1. i - 1 \in 1 .. Len(seqs)
            BY <1>0, <4>4
          <6> QED
            BY <6>1
        <5> HIDE DEF f
        <5> QED
          BY <4>2, <4>4, <5>1
      <4> QED
        BY <4>3, <4>4
    <3> QED
      BY <3>1 DEF FlattenSolves
  <2>3. FlattenSolves(F, seqs)
    BY <2>2
  <2> HIDE DEF f, F
  <2> DEFINE P == {n \in Nat : n + 1 <= Len(seqs) => F[n + 1] = h[n + 1]}
  <2>4. 0 \in P
    <3>1. 1 \in 1 .. Len(seqs)
      BY <1>0, <1>10
    <3>2. F[1] = seqs[1]
      BY <2>3, <3>1 DEF FlattenSolves
    <3>3. h[1] = <<>> \o seqs[1] /\ seqs[1] \in Seq(S)
      <4>1. 0 < Len(seqs) /\ 0 + 1 = 1
        BY <1>0, <1>10
      <4> QED
        BY <1>0, <1>6, <1>7, <4>1 DEF V
    <3> QED
      BY <3>2, <3>3
  <2>5. ASSUME NEW n \in Nat, n \in P PROVE n + 1 \in P
    <3> SUFFICES ASSUME (n + 1) + 1 <= Len(seqs) PROVE F[(n + 1) + 1] = h[(n + 1) + 1]
      OBVIOUS
    <3>1. /\ (n + 1) + 1 \in 1 .. Len(seqs) /\ (n + 1) + 1 # 1 /\ ((n + 1) + 1) - 1 = n + 1
          /\ n + 1 \in Nat /\ n + 1 < Len(seqs)
      BY <1>0
    <3>2. F[(n + 1) + 1] = F[n + 1] \o seqs[(n + 1) + 1]
      BY <2>3, <3>1 DEF FlattenSolves
    <3>3. h[(n + 1) + 1] = h[n + 1] \o seqs[(n + 1) + 1]
      BY <1>7, <3>1
    <3> QED
      <4>1. F[n + 1] = h[n + 1]
        BY <2>5, <3>1
      <4> HIDE DEF P
      <4> QED
        BY <3>2, <3>3, <4>1, Zenon
  <2> HIDE DEF P
  <2>6. Len(seqs) - 1 \in P
    <3>1. Len(seqs) - 1 \in Nat
      BY <1>0, <1>10
    <3> QED
      BY <2>4, <2>5, <3>1, NaturalsReached
  <2>7. F[Len(seqs)] = h[Len(seqs)]
    <3>1. (Len(seqs) - 1) + 1 = Len(seqs)
      BY <1>0
    <3> QED
      BY <2>6, <3>1 DEF P
  <2> QED
    BY <1>8, <2>1, <2>7
<1> QED
  BY <1>9, <1>10

Alike(s, t) == Len(s) = Len(t) /\ \A i \in 1 .. Len(s) : Len(s[i]) = Len(t[i])

\* Sequences of as many pieces, each as long as its counterpart, flatten to the same
\* length.
LEMMA FlattenLength ==
  ASSUME NEW S, NEW s \in Seq(Seq(S)), NEW t \in Seq(Seq(S)), Alike(s, t)
  PROVE  FlattenSeq(s) \in Seq(S) /\ Len(FlattenSeq(s)) = Len(FlattenSeq(t))
<1>1. PICK g : Joins(g, s, S) /\ FlattenSeq(s) = g[Len(s)]
  BY FlattenJoins
<1>2. PICK h : Joins(h, t, S) /\ FlattenSeq(t) = h[Len(t)]
  BY FlattenJoins
<1>3. /\ Len(s) \in Nat /\ Len(t) = Len(s)
      /\ \A n \in Nat : n < Len(s) =>
           s[n + 1] \in Seq(S) /\ t[n + 1] \in Seq(S) /\ Len(s[n + 1]) = Len(t[n + 1])
  BY DEF Alike
<1> DEFINE P == {n \in Nat : n <= Len(s) => Len(g[n]) = Len(h[n])}
<1>4. 0 \in P
  BY <1>1, <1>2 DEF Joins
<1>5. ASSUME NEW n \in Nat, n \in P PROVE n + 1 \in P
  <2> SUFFICES ASSUME n + 1 <= Len(s) PROVE Len(g[n + 1]) = Len(h[n + 1])
    OBVIOUS
  <2>1. n < Len(s) /\ Len(g[n]) = Len(h[n])
    BY <1>3, <1>5
  <2>2. g[n + 1] = g[n] \o s[n + 1] /\ h[n + 1] = h[n] \o t[n + 1]
    BY <1>1, <1>2, <1>3, <2>1 DEF Joins
  <2>3. g[n] \in Seq(S) /\ h[n] \in Seq(S)
    BY <1>1, <1>2 DEF Joins
  <2>4. /\ Len(g[n + 1]) = Len(g[n]) + Len(s[n + 1])
        /\ Len(h[n + 1]) = Len(h[n]) + Len(t[n + 1])
    <3>1. s[n + 1] \in Seq(S) /\ t[n + 1] \in Seq(S)
      BY <1>3, <2>1
    <3>2. /\ Len(g[n] \o s[n + 1]) = Len(g[n]) + Len(s[n + 1])
          /\ Len(h[n] \o t[n + 1]) = Len(h[n]) + Len(t[n + 1])
      BY <2>3, <3>1, ConcatProperties
    <3> QED
      BY <2>2, <3>2
  <2> QED
    BY <1>3, <2>1, <2>4
<1> HIDE DEF P
<1>6. Len(s) \in P
  BY <1>3, <1>4, <1>5, NaturalsReached
<1>7. Len(g[Len(s)]) = Len(h[Len(s)])
  BY <1>3, <1>6 DEF P
<1>8. g[Len(s)] \in Seq(S)
  BY <1>1, <1>3 DEF Joins
<1> QED
  BY <1>1, <1>2, <1>3, <1>7, <1>8

\* Pieces of known lengths are read back from the sequence they flatten to.
LEMMA FlattenRead ==
  ASSUME NEW S, NEW s \in Seq(Seq(S)), NEW t \in Seq(Seq(S)), Alike(s, t),
         FlattenSeq(s) = FlattenSeq(t)
  PROVE  s = t
<1>1. PICK g : Joins(g, s, S) /\ FlattenSeq(s) = g[Len(s)]
  BY FlattenJoins
<1>2. PICK h : Joins(h, t, S) /\ FlattenSeq(t) = h[Len(t)]
  BY FlattenJoins
<1>3. /\ Len(s) \in Nat /\ Len(t) = Len(s)
      /\ \A n \in Nat : n < Len(s) =>
           s[n + 1] \in Seq(S) /\ t[n + 1] \in Seq(S) /\ Len(s[n + 1]) = Len(t[n + 1])
  BY DEF Alike
<1> DEFINE Same(n) == \A i \in 1 .. n : s[i] = t[i]
           P == {n \in Nat : n <= Len(s) /\ g[n] = h[n] => Same(n)}
<1>4. 0 \in P
  OBVIOUS
<1>5. ASSUME NEW n \in Nat, n \in P PROVE n + 1 \in P
  <2> SUFFICES ASSUME n + 1 <= Len(s), g[n + 1] = h[n + 1] PROVE Same(n + 1)
    OBVIOUS
  <2>1. n < Len(s)
    BY <1>3
  <2>2. g[n + 1] = g[n] \o s[n + 1] /\ h[n + 1] = h[n] \o t[n + 1]
    BY <1>1, <1>2, <1>3, <2>1 DEF Joins
  <2>3. g[n] \in Seq(S) /\ h[n] \in Seq(S)
    BY <1>1, <1>2 DEF Joins
  <2>4. g[n] = h[n] /\ s[n + 1] = t[n + 1]
    <3>1. /\ Sized(s[n + 1], Len(t[n + 1]), S) /\ Sized(t[n + 1], Len(t[n + 1]), S)
          /\ Bytes(g[n], S) /\ Bytes(h[n], S)
      BY <1>3, <2>1, <2>3 DEF Sized, Bytes
    <3>2. Cat(g[n], s[n + 1]) = Cat(h[n], t[n + 1])
      BY <2>2 DEF Cat
    <3> DEFINE a == g[n]
               b == s[n + 1]
               c == h[n]
               d == t[n + 1]
    <3>3. /\ Sized(b, Len(d), S) /\ Sized(d, Len(d), S) /\ Bytes(a, S) /\ Bytes(c, S)
          /\ Cat(a, b) = Cat(c, d)
      BY <3>1, <3>2
    <3> HIDE DEF a, b, c, d
    <3>4. a = c /\ b = d
      BY <3>3, ReadTail
    <3> QED
      BY <3>4 DEF a, b, c, d
  <2>5. Same(n)
    BY <1>3, <1>5, <2>1, <2>4
  <2> QED
    BY <2>4, <2>5
<1> HIDE DEF P
<1>6. Len(s) \in P
  BY <1>3, <1>4, <1>5, NaturalsReached
<1>7. Same(Len(s))
  <2>1. g[Len(s)] = h[Len(s)]
    BY <1>1, <1>2, <1>3
  <2> QED
    BY <1>3, <1>6, <2>1 DEF P
<1> QED
  BY <1>3, <1>7, SeqEqual

\* What a Vec holds: pieces of one length, no more than its own length can count.
Items(s, width) ==
  /\ s \in Seq(Seq(Cells))
  /\ Len(s) \in Unsigned(U32_LEN)
  /\ \A i \in 1 .. Len(s) : Len(s[i]) = width

\* The bytes of a Vec are bytes.
LEMMA BorshVecIsBytes ==
  ASSUME NEW s, NEW width, Items(s, width)
  PROVE  BorshVec(s) \in Seq(Cells)
<1>1. s \in Seq(Seq(Cells)) /\ Len(s) \in Nat
  BY DEF Items
<1>2. FlattenSeq(s) \in Seq(Cells)
  BY <1>1, FlattenLength DEF Alike
<1>3. Le(Len(s), U32_LEN) \in Seq(Cells)
  BY <1>1, LeIsBytes, TranscriptAssumption
<1> QED
  BY <1>2, <1>3, ConcatProperties DEF BorshVec

\* A Vec of items of one length is read back, whatever bytes follow it.
LEMMA BorshVecRead ==
  ASSUME NEW s, NEW t, NEW width, Items(s, width), Items(t, width),
         NEW x, NEW y, Bytes(x, Cells), Bytes(y, Cells),
         Cat(BorshVec(s), x) = Cat(BorshVec(t), y)
  PROVE  s = t /\ x = y
<1> DEFINE a == Le(Len(s), U32_LEN)
           b == Le(Len(t), U32_LEN)
           f == FlattenSeq(s)
           g == FlattenSeq(t)
<1>1. /\ s \in Seq(Seq(Cells)) /\ t \in Seq(Seq(Cells)) /\ Len(s) \in Nat /\ Len(t) \in Nat
      /\ U32_LEN \in Nat
  BY TranscriptAssumption DEF Items
<1>2. Sized(a, U32_LEN, Cells) /\ Sized(b, U32_LEN, Cells)
  <2>1. Len(s) \in Int /\ Len(t) \in Int
    BY <1>1
  <2> QED
    BY <1>1, <2>1, LeIsBytes DEF Sized
<1>3. Bytes(f, Cells) /\ Bytes(g, Cells)
  BY <1>1, FlattenLength DEF Alike, Bytes
<1>4. BorshVec(s) = Cat(a, f) /\ BorshVec(t) = Cat(b, g)
  BY DEF BorshVec, Cat
<1>5. Len(s) = Len(t) => Alike(s, t)
  BY DEF Items, Alike
<1>6. a = b => Len(s) = Len(t)
  <2>1. Len(s) \in Unsigned(U32_LEN) /\ Len(t) \in Unsigned(U32_LEN)
    BY DEF Items
  <2> QED
    BY <1>1, <2>1, UnsignedRead
<1>7. Alike(s, t) => Sized(f, Len(g), Cells) /\ Sized(g, Len(g), Cells)
  BY <1>1, <1>3, FlattenLength DEF Sized, Bytes
<1>8. Alike(s, t) /\ f = g => s = t
  BY <1>1, FlattenRead
<1> HIDE DEF a, b, f, g
<1>9. Bytes(a, Cells) /\ Bytes(b, Cells)
  BY <1>2 DEF Sized, Bytes
<1>10. Cat(a, Cat(f, x)) = Cat(b, Cat(g, y))
  BY <1>3, <1>4, <1>9, CatAssociates
<1>11. Bytes(Cat(f, x), Cells) /\ Bytes(Cat(g, y), Cells)
  BY <1>3, CatIsBytes
<1>12. a = b /\ Cat(f, x) = Cat(g, y)
  BY <1>2, <1>10, <1>11, ReadHead
<1>13. f = g /\ x = y
  BY <1>5, <1>6, <1>7, <1>12, ReadHead
<1> QED
  BY <1>5, <1>6, <1>8, <1>12, <1>13

-----------------------------------------------------------------------------
(* The fields of a document. *)

\* A key, an integer, a byte and a label have the lengths that are declared for them.
LEMMA FieldsAreSized ==
  /\ \A k \in Key : Sized(k, HASH_LEN, Cells)
  /\ \A l \in Label : Sized(l, LABEL_LEN, Cells)
  /\ \A c \in Cells : Sized(<<c>>, 1, Cells)
  /\ \A v \in Int, len \in Nat : Sized(Le(v, len), len, Cells)
<1>1. HASH_LEN \in Nat /\ LABEL_LEN \in Nat
  BY TranscriptAssumption
<1>2. ASSUME NEW k \in Key PROVE Sized(k, HASH_LEN, Cells)
  BY <1>1 DEF Key, Sized
<1>3. ASSUME NEW l \in Label PROVE Sized(l, LABEL_LEN, Cells)
  BY <1>1 DEF Label, Sized
<1>4. ASSUME NEW c \in Cells PROVE Sized(<<c>>, 1, Cells)
  BY DEF Sized
<1>5. ASSUME NEW v \in Int, NEW len \in Nat PROVE Sized(Le(v, len), len, Cells)
  BY LeIsBytes DEF Sized
<1> QED
  BY <1>2, <1>3, <1>4, <1>5

\* The integers of a document are integers.
LEMMA WidthsAreInt ==
  /\ {U16_LEN, U32_LEN, U64_LEN, HASH_LEN, LABEL_LEN} \subseteq Nat
  /\ \A len \in Nat : Unsigned(len) \subseteq Int /\ Signed(len) \subseteq Int
<1>1. ASSUME NEW len \in Nat PROVE Unsigned(len) \subseteq Int /\ Signed(len) \subseteq Int
  BY DEF Unsigned, Signed
<1> QED
  BY <1>1, TranscriptAssumption

\* What has a length is bytes, and bytes of a smaller set are bytes of a larger.
LEMMA SizedIsBytes ==
  ASSUME NEW S, NEW n, NEW x, Sized(x, n, S)
  PROVE  Bytes(x, S)
  BY DEF Sized, Bytes

\* Bytes of a smaller set are bytes of a larger.
LEMMA Widened ==
  ASSUME NEW S, NEW T, S \subseteq T, NEW x
  PROVE  /\ Bytes(x, S) => Bytes(x, T)
         /\ \A n : Sized(x, n, S) => Sized(x, n, T)
<1>1. x \in Seq(S) => x \in Seq(T)
  OBVIOUS
<1> QED
  BY <1>1 DEF Sized, Bytes

MintCapWidth == HASH_LEN + U64_LEN + U64_LEN + U64_LEN

\* A cap's bytes have one length for all caps.
LEMMA MintCapSized ==
  ASSUME NEW c \in CapFields
  PROVE  Sized(MintCapBytes(c), MintCapWidth, Cells)
<1> DEFINE m == c.mint
           p == Le(c.per_tx, U64_LEN)
           q == Le(c.per_day, U64_LEN)
           r == Le(c.per_30d, U64_LEN)
<1>1. /\ Sized(m, HASH_LEN, Cells) /\ Sized(p, U64_LEN, Cells)
      /\ Sized(q, U64_LEN, Cells) /\ Sized(r, U64_LEN, Cells)
  BY FieldsAreSized, WidthsAreInt DEF CapFields, Amounts
<1>2. MintCapBytes(c) = Cat(Cat(Cat(m, p), q), r)
  BY DEF MintCapBytes, Cat
<1> HIDE DEF m, p, q, r
<1>3. Sized(Cat(m, p), HASH_LEN + U64_LEN, Cells)
  BY <1>1, CatSized
<1>4. Sized(Cat(Cat(m, p), q), HASH_LEN + U64_LEN + U64_LEN, Cells)
  BY <1>1, <1>3, CatSized
<1>5. Sized(Cat(Cat(Cat(m, p), q), r), MintCapWidth, Cells)
  BY <1>1, <1>4, CatSized DEF MintCapWidth
<1> QED
  BY <1>2, <1>5

\* A cap is read back from its bytes.
LEMMA MintCapRead ==
  ASSUME NEW c \in CapFields, NEW d \in CapFields, MintCapBytes(c) = MintCapBytes(d)
  PROVE  c = d
<1> DEFINE m(x) == x.mint
           p(x) == Le(x.per_tx, U64_LEN)
           q(x) == Le(x.per_day, U64_LEN)
           r(x) == Le(x.per_30d, U64_LEN)
<1>1. ASSUME NEW x \in CapFields
      PROVE  /\ Sized(m(x), HASH_LEN, Cells) /\ Sized(p(x), U64_LEN, Cells)
             /\ Sized(q(x), U64_LEN, Cells) /\ Sized(r(x), U64_LEN, Cells)
             /\ MintCapBytes(x) = Cat(Cat(Cat(m(x), p(x)), q(x)), r(x))
  <2>1. /\ x.mint \in Key /\ x.per_tx \in Int /\ x.per_day \in Int /\ x.per_30d \in Int
        /\ U64_LEN \in Nat
    BY WidthsAreInt DEF CapFields, Amounts
  <2>2. MintCapBytes(x) = Cat(Cat(Cat(m(x), p(x)), q(x)), r(x))
    BY DEF MintCapBytes, Cat
  <2> QED
    BY <2>1, <2>2, FieldsAreSized
<1>2. /\ p(c) = p(d) => c.per_tx = d.per_tx
      /\ q(c) = q(d) => c.per_day = d.per_day
      /\ r(c) = r(d) => c.per_30d = d.per_30d
  BY UnsignedRead, WidthsAreInt DEF CapFields, Amounts
<1> HIDE DEF p, q, r, m
<1>3. /\ Bytes(m(c), Cells) /\ Bytes(m(d), Cells)
      /\ Bytes(Cat(m(c), p(c)), Cells) /\ Bytes(Cat(m(d), p(d)), Cells)
      /\ Bytes(Cat(Cat(m(c), p(c)), q(c)), Cells) /\ Bytes(Cat(Cat(m(d), p(d)), q(d)), Cells)
  <2>1. ASSUME NEW x \in CapFields
        PROVE  /\ Bytes(m(x), Cells) /\ Bytes(Cat(m(x), p(x)), Cells)
               /\ Bytes(Cat(Cat(m(x), p(x)), q(x)), Cells)
    <3>1. Bytes(m(x), Cells) /\ Bytes(p(x), Cells) /\ Bytes(q(x), Cells)
      BY <1>1, SizedIsBytes
    <3>2. Bytes(Cat(m(x), p(x)), Cells)
      BY <3>1, CatIsBytes
    <3> QED
      BY <3>1, <3>2, CatIsBytes
  <2> QED
    BY <2>1
<1>4. Cat(Cat(Cat(m(c), p(c)), q(c)), r(c)) = Cat(Cat(Cat(m(d), p(d)), q(d)), r(d))
  BY <1>1
<1>5. Cat(Cat(m(c), p(c)), q(c)) = Cat(Cat(m(d), p(d)), q(d)) /\ r(c) = r(d)
  BY <1>1, <1>3, <1>4, ReadTail
<1>6. Cat(m(c), p(c)) = Cat(m(d), p(d)) /\ q(c) = q(d)
  BY <1>1, <1>3, <1>5, ReadTail
<1>7. m(c) = m(d) /\ p(c) = p(d)
  BY <1>1, <1>3, <1>6, ReadTail
<1>8. /\ c.mint = d.mint /\ c.per_tx = d.per_tx
      /\ c.per_day = d.per_day /\ c.per_30d = d.per_30d
  BY <1>2, <1>5, <1>6, <1>7 DEF m
<1> QED
  BY <1>8 DEF CapFields

\* The caps of a grant and its lifetime caps, in bytes.
CapItems(caps) == [i \in DOMAIN caps |-> MintCapBytes(caps[i])]
AmountItems(amounts) == [i \in DOMAIN amounts |-> Le(amounts[i], U64_LEN)]

\* Both are items of one length.
LEMMA VecsHoldItems ==
  /\ \A caps \in Vec(CapFields) : Items(CapItems(caps), MintCapWidth)
  /\ \A amounts \in Vec(Amounts) : Items(AmountItems(amounts), U64_LEN)
<1>1. ASSUME NEW caps \in Vec(CapFields) PROVE Items(CapItems(caps), MintCapWidth)
  <2>1. caps \in Seq(CapFields) /\ Len(caps) \in Unsigned(U32_LEN)
    BY DEF Vec
  <2>2. DOMAIN caps = 1 .. Len(caps) /\ \A i \in 1 .. Len(caps) : caps[i] \in CapFields
    BY <2>1
  <2>3. \A i \in 1 .. Len(caps) : MintCapBytes(caps[i]) \in Seq(Cells)
                                  /\ Len(MintCapBytes(caps[i])) = MintCapWidth
    BY <2>2, MintCapSized DEF Sized
  <2>4. /\ CapItems(caps) \in [1 .. Len(caps) -> Seq(Cells)]
        /\ \A i \in 1 .. Len(caps) : Len(CapItems(caps)[i]) = MintCapWidth
    BY <2>2, <2>3 DEF CapItems
  <2>5. Len(caps) \in Nat
    BY <2>1
  <2>6. CapItems(caps) \in Seq(Seq(Cells)) /\ Len(CapItems(caps)) = Len(caps)
    BY <2>4, <2>5
  <2> QED
    BY <2>1, <2>4, <2>6 DEF Items
<1>2. ASSUME NEW amounts \in Vec(Amounts) PROVE Items(AmountItems(amounts), U64_LEN)
  <2>1. amounts \in Seq(Amounts) /\ Len(amounts) \in Unsigned(U32_LEN)
    BY DEF Vec
  <2>2. DOMAIN amounts = 1 .. Len(amounts) /\ \A i \in 1 .. Len(amounts) : amounts[i] \in Int
    BY <2>1, WidthsAreInt DEF Amounts
  <2>3. \A i \in 1 .. Len(amounts) : Le(amounts[i], U64_LEN) \in Seq(Cells)
                                     /\ Len(Le(amounts[i], U64_LEN)) = U64_LEN
    BY <2>2, FieldsAreSized, WidthsAreInt DEF Sized
  <2>4. /\ AmountItems(amounts) \in [1 .. Len(amounts) -> Seq(Cells)]
        /\ \A i \in 1 .. Len(amounts) : Len(AmountItems(amounts)[i]) = U64_LEN
    BY <2>2, <2>3 DEF AmountItems
  <2>5. Len(amounts) \in Nat
    BY <2>1
  <2>6. AmountItems(amounts) \in Seq(Seq(Cells)) /\ Len(AmountItems(amounts)) = Len(amounts)
    BY <2>4, <2>5
  <2> QED
    BY <2>1, <2>4, <2>6 DEF Items
<1> QED
  BY <1>1, <1>2

\* A Vec of either kind is read back from its items.
LEMMA VecsAreRead ==
  /\ \A v, w \in Vec(CapFields) : CapItems(v) = CapItems(w) => v = w
  /\ \A v, w \in Vec(Amounts) : AmountItems(v) = AmountItems(w) => v = w
<1>1. ASSUME NEW v \in Vec(CapFields), NEW w \in Vec(CapFields), CapItems(v) = CapItems(w)
      PROVE  v = w
  <2>1. v \in Seq(CapFields) /\ w \in Seq(CapFields)
    BY DEF Vec
  <2>2. DOMAIN v = DOMAIN CapItems(v) /\ DOMAIN w = DOMAIN CapItems(w)
    BY DEF CapItems
  <2>3. DOMAIN v = DOMAIN w /\ DOMAIN v = 1 .. Len(v) /\ Len(v) = Len(w)
    BY <1>1, <2>1, <2>2
  <2>4. ASSUME NEW i \in 1 .. Len(v) PROVE v[i] = w[i]
    <3>1. CapItems(v)[i] = MintCapBytes(v[i]) /\ CapItems(w)[i] = MintCapBytes(w[i])
      BY <2>3 DEF CapItems
    <3>2. v[i] \in CapFields /\ w[i] \in CapFields
      BY <2>1, <2>3
    <3> QED
      BY <1>1, <3>1, <3>2, MintCapRead
  <2> QED
    BY <2>1, <2>3, <2>4, SeqEqual
<1>2. ASSUME NEW v \in Vec(Amounts), NEW w \in Vec(Amounts), AmountItems(v) = AmountItems(w)
      PROVE  v = w
  <2>1. v \in Seq(Amounts) /\ w \in Seq(Amounts)
    BY DEF Vec
  <2>2. DOMAIN v = DOMAIN AmountItems(v) /\ DOMAIN w = DOMAIN AmountItems(w)
    BY DEF AmountItems
  <2>3. DOMAIN v = DOMAIN w /\ DOMAIN v = 1 .. Len(v) /\ Len(v) = Len(w)
    BY <1>2, <2>1, <2>2
  <2>4. ASSUME NEW i \in 1 .. Len(v) PROVE v[i] = w[i]
    <3>1. AmountItems(v)[i] = Le(v[i], U64_LEN) /\ AmountItems(w)[i] = Le(w[i], U64_LEN)
      BY <2>3 DEF AmountItems
    <3>2. v[i] \in Unsigned(U64_LEN) /\ w[i] \in Unsigned(U64_LEN)
      BY <2>1, <2>3 DEF Amounts
    <3> QED
      BY <1>2, <3>1, <3>2, UnsignedRead, WidthsAreInt
  <2> QED
    BY <2>1, <2>3, <2>4, SeqEqual
<1> QED
  BY <1>1, <1>2

\* The parts of a grant's body in their order: what comes before the Vecs, the Vecs,
\* what comes after them.
GrantHead(b) ==
  Cat(Cat(Cat(Le(b.expiry_ts, U64_LEN), b.session_pubkey), <<b.kind>>), Le(b.ops_mask, U16_LEN))
CapsPart(b) == BorshVec(CapItems(b.caps))
LifetimePart(b) == BorshVec(AmountItems(b.lifetime_cap))
GrantHeadWidth == U64_LEN + HASH_LEN + 1 + U16_LEN

\* The body is these parts, each of them bytes.
LEMMA GrantParts ==
  ASSUME NEW b \in GrantFields
  PROVE  /\ GrantBodyBytes(b) =
              Cat(Cat(Cat(Cat(Cat(GrantHead(b), CapsPart(b)), LifetimePart(b)),
                Le(b.program_allowlist_id, U16_LEN)), b.label), b.prior_authority_hash)
         /\ Sized(GrantHead(b), GrantHeadWidth, Cells)
         /\ Bytes(CapsPart(b), Cells) /\ Bytes(LifetimePart(b), Cells)
         /\ Sized(Le(b.program_allowlist_id, U16_LEN), U16_LEN, Cells)
         /\ Sized(b.label, LABEL_LEN, Cells) /\ Sized(b.prior_authority_hash, HASH_LEN, Cells)
<1>1. GrantBodyBytes(b) =
        Cat(Cat(Cat(Cat(Cat(GrantHead(b), CapsPart(b)), LifetimePart(b)),
          Le(b.program_allowlist_id, U16_LEN)), b.label), b.prior_authority_hash)
  BY DEF GrantBodyBytes, GrantHead, CapsPart, LifetimePart, CapItems, AmountItems, Cat
<1>2. /\ b.expiry_ts \in Int /\ b.session_pubkey \in Key /\ b.kind \in Cells
      /\ b.ops_mask \in Int /\ b.caps \in Vec(CapFields) /\ b.lifetime_cap \in Vec(Amounts)
      /\ b.program_allowlist_id \in Int /\ b.label \in Label /\ b.prior_authority_hash \in Key
      /\ U64_LEN \in Nat /\ U16_LEN \in Nat /\ HASH_LEN \in Nat
  BY WidthsAreInt DEF GrantFields
<1>3. Bytes(CapsPart(b), Cells) /\ Bytes(LifetimePart(b), Cells)
  BY <1>2, VecsHoldItems, BorshVecIsBytes DEF CapsPart, LifetimePart, Bytes
<1>4. Sized(GrantHead(b), GrantHeadWidth, Cells)
  <2> DEFINE e == Le(b.expiry_ts, U64_LEN)
             s == b.session_pubkey
             k == <<b.kind>>
             o == Le(b.ops_mask, U16_LEN)
  <2>1. /\ Sized(e, U64_LEN, Cells) /\ Sized(s, HASH_LEN, Cells) /\ Sized(k, 1, Cells)
        /\ Sized(o, U16_LEN, Cells)
    BY <1>2, FieldsAreSized
  <2>2. GrantHead(b) = Cat(Cat(Cat(e, s), k), o)
    BY DEF GrantHead
  <2> HIDE DEF e, s, k, o
  <2>3. Sized(Cat(e, s), U64_LEN + HASH_LEN, Cells)
    BY <2>1, CatSized
  <2>4. Sized(Cat(Cat(e, s), k), U64_LEN + HASH_LEN + 1, Cells)
    BY <2>1, <2>3, CatSized
  <2>5. Sized(Cat(Cat(Cat(e, s), k), o), GrantHeadWidth, Cells)
    BY <2>1, <2>4, CatSized DEF GrantHeadWidth
  <2> QED
    BY <2>2, <2>5
<1>5. /\ Sized(Le(b.program_allowlist_id, U16_LEN), U16_LEN, Cells)
      /\ Sized(b.label, LABEL_LEN, Cells) /\ Sized(b.prior_authority_hash, HASH_LEN, Cells)
  BY <1>2, FieldsAreSized
<1> QED
  BY <1>1, <1>3, <1>4, <1>5

\* A grant's head is read back.
LEMMA GrantHeadRead ==
  ASSUME NEW b \in GrantFields, NEW c \in GrantFields, GrantHead(b) = GrantHead(c)
  PROVE  /\ b.expiry_ts = c.expiry_ts /\ b.session_pubkey = c.session_pubkey
         /\ b.kind = c.kind /\ b.ops_mask = c.ops_mask
<1> DEFINE e(x) == Le(x.expiry_ts, U64_LEN)
           s(x) == x.session_pubkey
           k(x) == <<x.kind>>
           o(x) == Le(x.ops_mask, U16_LEN)
<1>1. ASSUME NEW x \in GrantFields
      PROVE  /\ Sized(e(x), U64_LEN, Cells) /\ Sized(s(x), HASH_LEN, Cells)
             /\ Sized(k(x), 1, Cells) /\ Sized(o(x), U16_LEN, Cells)
             /\ GrantHead(x) = Cat(Cat(Cat(e(x), s(x)), k(x)), o(x))
  <2>1. /\ x.expiry_ts \in Int /\ x.session_pubkey \in Key /\ x.kind \in Cells
        /\ x.ops_mask \in Int /\ U64_LEN \in Nat /\ U16_LEN \in Nat
    BY WidthsAreInt DEF GrantFields
  <2>2. GrantHead(x) = Cat(Cat(Cat(e(x), s(x)), k(x)), o(x))
    BY DEF GrantHead
  <2> QED
    BY <2>1, <2>2, FieldsAreSized
<1>2. /\ e(b) = e(c) => b.expiry_ts = c.expiry_ts
      /\ o(b) = o(c) => b.ops_mask = c.ops_mask
      /\ k(b) = k(c) => b.kind = c.kind
  <2>1. e(b) = e(c) => b.expiry_ts = c.expiry_ts
    BY SignedRead, WidthsAreInt DEF GrantFields
  <2>2. o(b) = o(c) => b.ops_mask = c.ops_mask
    BY UnsignedRead, WidthsAreInt DEF GrantFields
  <2>3. k(b) = k(c) => b.kind = c.kind
    OBVIOUS
  <2> QED
    BY <2>1, <2>2, <2>3
<1> HIDE DEF e, s, k, o
<1>3. ASSUME NEW x \in GrantFields
      PROVE  /\ Bytes(e(x), Cells) /\ Bytes(Cat(e(x), s(x)), Cells)
             /\ Bytes(Cat(Cat(e(x), s(x)), k(x)), Cells)
  <2>1. Bytes(e(x), Cells) /\ Bytes(s(x), Cells) /\ Bytes(k(x), Cells)
    BY <1>1, SizedIsBytes
  <2>2. Bytes(Cat(e(x), s(x)), Cells)
    BY <2>1, CatIsBytes
  <2> QED
    BY <2>1, <2>2, CatIsBytes
<1>4. Cat(Cat(Cat(e(b), s(b)), k(b)), o(b)) = Cat(Cat(Cat(e(c), s(c)), k(c)), o(c))
  BY <1>1
<1>5. Cat(Cat(e(b), s(b)), k(b)) = Cat(Cat(e(c), s(c)), k(c)) /\ o(b) = o(c)
  BY <1>1, <1>3, <1>4, ReadTail
<1>6. Cat(e(b), s(b)) = Cat(e(c), s(c)) /\ k(b) = k(c)
  BY <1>1, <1>3, <1>5, ReadTail
<1>7. e(b) = e(c) /\ s(b) = s(c)
  BY <1>1, <1>3, <1>6, ReadTail
<1> QED
  BY <1>2, <1>5, <1>6, <1>7 DEF s

\* A grant's body is read back, its Vecs one after the other.
LEMMA GrantBodyRead ==
  ASSUME NEW b \in GrantFields, NEW c \in GrantFields, GrantBodyBytes(b) = GrantBodyBytes(c)
  PROVE  b = c
<1> DEFINE h(x) == GrantHead(x)
           v(x) == CapsPart(x)
           w(x) == LifetimePart(x)
           p(x) == Le(x.program_allowlist_id, U16_LEN)
           l(x) == x.label
           a(x) == x.prior_authority_hash
<1>1. ASSUME NEW x \in GrantFields
      PROVE  /\ GrantBodyBytes(x) = Cat(Cat(Cat(Cat(Cat(h(x), v(x)), w(x)), p(x)), l(x)), a(x))
             /\ Sized(h(x), GrantHeadWidth, Cells) /\ Bytes(v(x), Cells) /\ Bytes(w(x), Cells)
             /\ Sized(p(x), U16_LEN, Cells) /\ Sized(l(x), LABEL_LEN, Cells)
             /\ Sized(a(x), HASH_LEN, Cells)
  BY GrantParts
<1>2. p(b) = p(c) => b.program_allowlist_id = c.program_allowlist_id
  BY UnsignedRead, WidthsAreInt DEF GrantFields
<1> HIDE DEF h, v, w, p, l, a
<1>3. ASSUME NEW x \in GrantFields
      PROVE  /\ Bytes(h(x), Cells) /\ Bytes(Cat(h(x), v(x)), Cells)
             /\ Bytes(Cat(Cat(h(x), v(x)), w(x)), Cells)
             /\ Bytes(Cat(Cat(Cat(h(x), v(x)), w(x)), p(x)), Cells)
             /\ Bytes(Cat(Cat(Cat(Cat(h(x), v(x)), w(x)), p(x)), l(x)), Cells)
             /\ Bytes(Cat(v(x), w(x)), Cells)
             /\ Cat(Cat(h(x), v(x)), w(x)) = Cat(h(x), Cat(v(x), w(x)))
  <2>1. /\ Bytes(h(x), Cells) /\ Bytes(v(x), Cells) /\ Bytes(w(x), Cells)
        /\ Bytes(p(x), Cells) /\ Bytes(l(x), Cells)
    BY <1>1, SizedIsBytes
  <2>2. Bytes(Cat(h(x), v(x)), Cells) /\ Bytes(Cat(v(x), w(x)), Cells)
    BY <2>1, CatIsBytes
  <2>3. Bytes(Cat(Cat(h(x), v(x)), w(x)), Cells)
    BY <2>1, <2>2, CatIsBytes
  <2>4. Bytes(Cat(Cat(Cat(h(x), v(x)), w(x)), p(x)), Cells)
    BY <2>1, <2>3, CatIsBytes
  <2>5. Bytes(Cat(Cat(Cat(Cat(h(x), v(x)), w(x)), p(x)), l(x)), Cells)
    BY <2>1, <2>4, CatIsBytes
  <2>6. Cat(Cat(h(x), v(x)), w(x)) = Cat(h(x), Cat(v(x), w(x)))
    BY <2>1, CatAssociates
  <2> QED
    BY <2>1, <2>2, <2>3, <2>4, <2>5, <2>6
<1>4. Cat(Cat(Cat(Cat(Cat(h(b), v(b)), w(b)), p(b)), l(b)), a(b))
        = Cat(Cat(Cat(Cat(Cat(h(c), v(c)), w(c)), p(c)), l(c)), a(c))
  BY <1>1
<1>5. /\ Cat(Cat(Cat(Cat(h(b), v(b)), w(b)), p(b)), l(b))
           = Cat(Cat(Cat(Cat(h(c), v(c)), w(c)), p(c)), l(c))
      /\ a(b) = a(c)
  BY <1>1, <1>3, <1>4, ReadTail
<1>6. /\ Cat(Cat(Cat(h(b), v(b)), w(b)), p(b)) = Cat(Cat(Cat(h(c), v(c)), w(c)), p(c))
      /\ l(b) = l(c)
  BY <1>1, <1>3, <1>5, ReadTail
<1>7. Cat(Cat(h(b), v(b)), w(b)) = Cat(Cat(h(c), v(c)), w(c)) /\ p(b) = p(c)
  BY <1>1, <1>3, <1>6, ReadTail
<1>8. Cat(h(b), Cat(v(b), w(b))) = Cat(h(c), Cat(v(c), w(c)))
  BY <1>3, <1>7
<1>9. h(b) = h(c) /\ Cat(v(b), w(b)) = Cat(v(c), w(c))
  BY <1>1, <1>3, <1>8, ReadHead
<1>10. b.caps = c.caps /\ w(b) = w(c)
  <2>1. b.caps \in Vec(CapFields) /\ c.caps \in Vec(CapFields)
    BY DEF GrantFields
  <2>2. Items(CapItems(b.caps), MintCapWidth) /\ Items(CapItems(c.caps), MintCapWidth)
    BY <2>1, VecsHoldItems
  <2>3. Cat(BorshVec(CapItems(b.caps)), w(b)) = Cat(BorshVec(CapItems(c.caps)), w(c))
    BY <1>9 DEF v, CapsPart
  <2>4. CapItems(b.caps) = CapItems(c.caps) /\ w(b) = w(c)
    BY <1>1, <2>2, <2>3, BorshVecRead
  <2> QED
    BY <2>1, <2>4, VecsAreRead
<1>11. b.lifetime_cap = c.lifetime_cap
  <2>1. b.lifetime_cap \in Vec(Amounts) /\ c.lifetime_cap \in Vec(Amounts)
    BY DEF GrantFields
  <2>2. Items(AmountItems(b.lifetime_cap), U64_LEN) /\ Items(AmountItems(c.lifetime_cap), U64_LEN)
    BY <2>1, VecsHoldItems
  <2>3. Bytes(<<>>, Cells)
    BY DEF Bytes
  <2>4. Cat(BorshVec(AmountItems(b.lifetime_cap)), <<>>)
          = Cat(BorshVec(AmountItems(c.lifetime_cap)), <<>>)
    BY <1>10 DEF w, LifetimePart
  <2>5. AmountItems(b.lifetime_cap) = AmountItems(c.lifetime_cap)
    BY <2>2, <2>3, <2>4, BorshVecRead
  <2> QED
    BY <2>1, <2>5, VecsAreRead
<1>12. /\ b.expiry_ts = c.expiry_ts /\ b.session_pubkey = c.session_pubkey
       /\ b.kind = c.kind /\ b.ops_mask = c.ops_mask
  BY <1>9, GrantHeadRead DEF h
<1>13. /\ b.program_allowlist_id = c.program_allowlist_id /\ b.label = c.label
       /\ b.prior_authority_hash = c.prior_authority_hash
  BY <1>2, <1>5, <1>6, <1>7 DEF l, a
<1> QED
  BY <1>10, <1>11, <1>12, <1>13 DEF GrantFields

\* A revocation's body is read back.
LEMMA RevokeBodyRead ==
  ASSUME NEW b \in RevokeFields, NEW c \in RevokeFields, RevokeBodyBytes(b) = RevokeBodyBytes(c)
  PROVE  b = c
<1>1. /\ Sized(b.session_pubkey, HASH_LEN, Cells) /\ Sized(b.refund_to, HASH_LEN, Cells)
      /\ Sized(c.session_pubkey, HASH_LEN, Cells) /\ Sized(c.refund_to, HASH_LEN, Cells)
  BY FieldsAreSized DEF RevokeFields
<1>2. Bytes(b.session_pubkey, Cells) /\ Bytes(c.session_pubkey, Cells)
  BY <1>1, SizedIsBytes
<1>3. Cat(b.session_pubkey, b.refund_to) = Cat(c.session_pubkey, c.refund_to)
  BY DEF RevokeBodyBytes, Cat
<1>4. b.session_pubkey = c.session_pubkey /\ b.refund_to = c.refund_to
  BY <1>1, <1>2, <1>3, ReadTail
<1> QED
  BY <1>4 DEF RevokeFields

\* A transfer's body is read back.
LEMMA TransferBodyRead ==
  ASSUME NEW b \in TransferFields, NEW c \in TransferFields,
         TransferBodyBytes(b) = TransferBodyBytes(c)
  PROVE  b = c
<1> DEFINE n(x) == <<IF x.native THEN 1 ELSE 0>>
           m(x) == x.mint
           d(x) == x.destination
           a(x) == Le(x.amount, U64_LEN)
<1>1. ASSUME NEW x \in TransferFields
      PROVE  /\ Sized(n(x), 1, Cells) /\ Sized(m(x), HASH_LEN, Cells)
             /\ Sized(d(x), HASH_LEN, Cells) /\ Sized(a(x), U64_LEN, Cells)
             /\ TransferBodyBytes(x) = Cat(Cat(Cat(n(x), m(x)), d(x)), a(x))
  <2>1. /\ x.mint \in Key /\ x.destination \in Key /\ x.amount \in Int /\ U64_LEN \in Nat
    BY WidthsAreInt DEF TransferFields, Amounts
  <2>2. (IF x.native THEN 1 ELSE 0) \in Cells
    BY TranscriptAssumption DEF Cells
  <2>3. TransferBodyBytes(x) = Cat(Cat(Cat(n(x), m(x)), d(x)), a(x))
    BY DEF TransferBodyBytes, Cat
  <2> QED
    BY <2>1, <2>2, <2>3, FieldsAreSized
<1>2. /\ n(b) = n(c) => b.native = c.native
      /\ a(b) = a(c) => b.amount = c.amount
  <2>1. n(b) = n(c) => b.native = c.native
    <3>1. b.native \in BOOLEAN /\ c.native \in BOOLEAN
      BY DEF TransferFields
    <3> QED
      BY <3>1
  <2>2. a(b) = a(c) => b.amount = c.amount
    BY UnsignedRead, WidthsAreInt DEF TransferFields, Amounts
  <2> QED
    BY <2>1, <2>2
<1> HIDE DEF n, m, d, a
<1>3. ASSUME NEW x \in TransferFields
      PROVE  /\ Bytes(n(x), Cells) /\ Bytes(Cat(n(x), m(x)), Cells)
             /\ Bytes(Cat(Cat(n(x), m(x)), d(x)), Cells)
  <2>1. Bytes(n(x), Cells) /\ Bytes(m(x), Cells) /\ Bytes(d(x), Cells)
    BY <1>1, SizedIsBytes
  <2>2. Bytes(Cat(n(x), m(x)), Cells)
    BY <2>1, CatIsBytes
  <2> QED
    BY <2>1, <2>2, CatIsBytes
<1>4. Cat(Cat(Cat(n(b), m(b)), d(b)), a(b)) = Cat(Cat(Cat(n(c), m(c)), d(c)), a(c))
  BY <1>1
<1>5. Cat(Cat(n(b), m(b)), d(b)) = Cat(Cat(n(c), m(c)), d(c)) /\ a(b) = a(c)
  BY <1>1, <1>3, <1>4, ReadTail
<1>6. Cat(n(b), m(b)) = Cat(n(c), m(c)) /\ d(b) = d(c)
  BY <1>1, <1>3, <1>5, ReadTail
<1>7. n(b) = n(c) /\ m(b) = m(c)
  BY <1>1, <1>3, <1>6, ReadTail
<1>8. b.native = c.native /\ b.mint = c.mint /\ b.destination = c.destination /\ b.amount = c.amount
  BY <1>2, <1>5, <1>6, <1>7 DEF m, d
<1> QED
  BY <1>8 DEF TransferFields

-----------------------------------------------------------------------------
(* Documents. *)

IsDocument(d) ==
  /\ d.t \in Bindings
  /\ \/ d.op \in {"rotate_nonce", "freeze", "unfreeze"} /\ d.body = <<>>
     \/ d.op = "grant_session" /\ d.body \in GrantFields
     \/ d.op = "revoke_session" /\ d.body \in RevokeFields
     \/ d.op = "transfer" /\ d.body \in TransferFields
  /\ d = [op |-> d.op, body |-> d.body, t |-> d.t]

\* A document is an operation with the body that it takes, and what it is bound to.
LEMMA DocumentsAreSo ==
  ASSUME NEW d \in Documents
  PROVE  IsDocument(d)
<1>1. CASE d \in [op: {"rotate_nonce", "freeze", "unfreeze"}, body: {<<>>}, t: Bindings]
  BY <1>1 DEF IsDocument
<1>2. CASE d \in [op: {"grant_session"}, body: GrantFields, t: Bindings]
  BY <1>2 DEF IsDocument
<1>3. CASE d \in [op: {"revoke_session"}, body: RevokeFields, t: Bindings]
  BY <1>3 DEF IsDocument
<1>4. CASE d \in [op: {"transfer"}, body: TransferFields, t: Bindings]
  BY <1>4 DEF IsDocument
<1> QED
  BY <1>1, <1>2, <1>3, <1>4 DEF Documents

Operations ==
  {"rotate_nonce", "freeze", "unfreeze", "grant_session", "revoke_session", "transfer"}

\* Operations have bytes of their own.
LEMMA OpByteRead ==
  ASSUME NEW op \in Operations, NEW other \in Operations, OpByte(op) = OpByte(other)
  PROVE  op = other
  BY DEF Operations, OpByte

\* Every body is bytes.
LEMMA BodyIsBytes ==
  ASSUME NEW d, IsDocument(d)
  PROVE  Bytes(BodyBytes(d.op, d.body), Cells)
<1>1. CASE d.op \in {"rotate_nonce", "freeze", "unfreeze"}
  BY <1>1 DEF BodyBytes, Bytes
<1>2. CASE d.op = "grant_session" /\ d.body \in GrantFields
  <2> DEFINE b == d.body
  <2>1. BodyBytes(d.op, d.body) = GrantBodyBytes(b)
    BY <1>2 DEF BodyBytes
  <2>2. b \in GrantFields
    BY <1>2
  <2> HIDE DEF b
  <2> DEFINE v == Cat(Cat(GrantHead(b), CapsPart(b)), LifetimePart(b))
             p == Le(b.program_allowlist_id, U16_LEN)
             l == b.label
             a == b.prior_authority_hash
  <2>3. /\ GrantBodyBytes(b) = Cat(Cat(Cat(v, p), l), a) /\ Bytes(v, Cells)
        /\ Bytes(p, Cells) /\ Bytes(l, Cells) /\ Bytes(a, Cells)
    BY <2>2, GrantParts, SizedIsBytes, CatIsBytes
  <2> HIDE DEF v, p, l, a
  <2> QED
    BY <2>1, <2>3, CatIsBytes
<1>3. CASE d.op = "revoke_session" /\ d.body \in RevokeFields
  <2>1. BodyBytes(d.op, d.body) = Cat(d.body.session_pubkey, d.body.refund_to)
    BY <1>3 DEF BodyBytes, RevokeBodyBytes, Cat
  <2>2. Bytes(d.body.session_pubkey, Cells) /\ Bytes(d.body.refund_to, Cells)
    BY <1>3, FieldsAreSized, SizedIsBytes DEF RevokeFields
  <2> QED
    BY <2>1, <2>2, CatIsBytes
<1>4. CASE d.op = "transfer" /\ d.body \in TransferFields
  <2> DEFINE n == <<IF d.body.native THEN 1 ELSE 0>>
             m == d.body.mint
             e == d.body.destination
             a == Le(d.body.amount, U64_LEN)
  <2>1. BodyBytes(d.op, d.body) = Cat(Cat(Cat(n, m), e), a)
    BY <1>4 DEF BodyBytes, TransferBodyBytes, Cat
  <2>2. /\ (IF d.body.native THEN 1 ELSE 0) \in Cells
        /\ m \in Key /\ e \in Key /\ d.body.amount \in Int /\ U64_LEN \in Nat
    BY <1>4, TranscriptAssumption, WidthsAreInt DEF Cells, TransferFields, Amounts
  <2>3. Bytes(n, Cells) /\ Bytes(m, Cells) /\ Bytes(e, Cells) /\ Bytes(a, Cells)
    BY <2>2, FieldsAreSized, SizedIsBytes
  <2> HIDE DEF n, m, e, a
  <2> QED
    BY <2>1, <2>3, CatIsBytes
<1> QED
  BY <1>1, <1>2, <1>3, <1>4 DEF IsDocument

\* The operation and its arguments are read back from what the action's hash is of.
LEMMA ActionRead ==
  ASSUME NEW d, NEW e, IsDocument(d), IsDocument(e),
         ActionBytes(OpByte(d.op), BodyBytes(d.op, d.body))
           = ActionBytes(OpByte(e.op), BodyBytes(e.op, e.body))
  PROVE  d.op = e.op /\ d.body = e.body
<1> DEFINE x == <<OpByte(d.op)>>
           y == <<OpByte(e.op)>>
           a == BodyBytes(d.op, d.body)
           b == BodyBytes(e.op, e.body)
<1>1. d.op \in Operations /\ e.op \in Operations
  BY DEF IsDocument, Operations
<1>2. Sized(x, 1, Nat) /\ Sized(y, 1, Nat)
  <2>1. OpByte(d.op) \in Nat /\ OpByte(e.op) \in Nat
    BY <1>1 DEF Operations, OpByte
  <2> QED
    BY <2>1 DEF Sized
<1>3. Bytes(a, Nat) /\ Bytes(b, Nat)
  <2>1. Bytes(a, Cells) /\ Bytes(b, Cells)
    BY BodyIsBytes
  <2>2. Cells \subseteq Nat
    BY TranscriptAssumption DEF Cells
  <2> HIDE DEF a, b
  <2> QED
    BY <2>1, <2>2, Widened
<1>4. Cat(x, a) = Cat(y, b)
  BY DEF ActionBytes, Cat
<1>5. x = y => d.op = e.op
  BY <1>1, OpByteRead
<1> HIDE DEF x, y, a, b
<1>6. x = y /\ a = b
  BY <1>2, <1>3, <1>4, ReadHead
<1>7. d.op = e.op /\ BodyBytes(d.op, d.body) = BodyBytes(d.op, e.body)
  BY <1>5, <1>6 DEF a, b
<1>8. CASE d.op \in {"rotate_nonce", "freeze", "unfreeze"}
  BY <1>7, <1>8 DEF IsDocument
<1>9. CASE d.op = "grant_session"
  <2>1. /\ d.body \in GrantFields /\ e.body \in GrantFields
        /\ GrantBodyBytes(d.body) = GrantBodyBytes(e.body)
    BY <1>7, <1>9 DEF IsDocument, BodyBytes
  <2> QED
    BY <1>7, <2>1, GrantBodyRead
<1>10. CASE d.op = "revoke_session"
  <2>1. /\ d.body \in RevokeFields /\ e.body \in RevokeFields
        /\ RevokeBodyBytes(d.body) = RevokeBodyBytes(e.body)
    BY <1>7, <1>10 DEF IsDocument, BodyBytes
  <2> QED
    BY <1>7, <2>1, RevokeBodyRead
<1>11. CASE d.op = "transfer"
  <2>1. /\ d.body \in TransferFields /\ e.body \in TransferFields
        /\ TransferBodyBytes(d.body) = TransferBodyBytes(e.body)
    BY <1>7, <1>11 DEF IsDocument, BodyBytes
  <2> QED
    BY <1>7, <2>1, TransferBodyRead
<1> QED
  BY <1>1, <1>8, <1>9, <1>10, <1>11 DEF Operations

\* The fields of a transcript, with a hash that may be anything.
IsTranscript(t, S) ==
  /\ t.cluster_tag \in Key /\ t.program_id \in Key /\ t.account \in Key
  /\ t.generation \in Unsigned(U64_LEN) /\ t.policy_version \in Unsigned(U32_LEN)
  /\ t.root_nonce \in Unsigned(U64_LEN) /\ t.expiry_ts \in Signed(U64_LEN)
  /\ Sized(t.action_hash, 1, S)

\* A transcript's fields are read back from its bytes, the domain being the same.
LEMMA TranscriptRead ==
  ASSUME NEW S, Cells \subseteq S, NEW t, NEW u, IsTranscript(t, S), IsTranscript(u, S),
         TranscriptBytes(t) = TranscriptBytes(u)
  PROVE  /\ t.cluster_tag = u.cluster_tag /\ t.program_id = u.program_id
         /\ t.account = u.account /\ t.generation = u.generation
         /\ t.policy_version = u.policy_version /\ t.root_nonce = u.root_nonce
         /\ t.expiry_ts = u.expiry_ts /\ t.action_hash = u.action_hash
<1> DEFINE c(x) == x.cluster_tag
           p(x) == x.program_id
           a(x) == x.account
           g(x) == Le(x.generation, U64_LEN)
           v(x) == Le(x.policy_version, U32_LEN)
           r(x) == Le(x.root_nonce, U64_LEN)
           e(x) == Le(x.expiry_ts, U64_LEN)
           h(x) == x.action_hash
           C(x) == Cat(TRANSCRIPT_DOMAIN, c(x))
           P(x) == Cat(C(x), p(x))
           A(x) == Cat(P(x), a(x))
           G(x) == Cat(A(x), g(x))
           V(x) == Cat(G(x), v(x))
           R(x) == Cat(V(x), r(x))
           E(x) == Cat(R(x), e(x))
<1>1. ASSUME NEW x, IsTranscript(x, S)
      PROVE  /\ TranscriptBytes(x) = Cat(E(x), h(x))
             /\ Sized(c(x), HASH_LEN, S) /\ Sized(p(x), HASH_LEN, S) /\ Sized(a(x), HASH_LEN, S)
             /\ Sized(g(x), U64_LEN, S) /\ Sized(v(x), U32_LEN, S) /\ Sized(r(x), U64_LEN, S)
             /\ Sized(e(x), U64_LEN, S) /\ Sized(h(x), 1, S)
  <2>1. /\ c(x) \in Key /\ p(x) \in Key /\ a(x) \in Key
        /\ x.generation \in Int /\ x.policy_version \in Int /\ x.root_nonce \in Int
        /\ x.expiry_ts \in Int /\ U64_LEN \in Nat /\ U32_LEN \in Nat
    BY <1>1, WidthsAreInt DEF IsTranscript
  <2>2. /\ Sized(c(x), HASH_LEN, Cells) /\ Sized(p(x), HASH_LEN, Cells)
        /\ Sized(a(x), HASH_LEN, Cells) /\ Sized(g(x), U64_LEN, Cells)
        /\ Sized(v(x), U32_LEN, Cells) /\ Sized(r(x), U64_LEN, Cells)
        /\ Sized(e(x), U64_LEN, Cells)
    BY <2>1, FieldsAreSized
  <2>3. TranscriptBytes(x) = Cat(E(x), h(x))
    BY DEF TranscriptBytes, Cat
  <2>4. Sized(h(x), 1, S)
    BY <1>1 DEF IsTranscript
  <2> HIDE DEF c, p, a, g, v, r, e, h, E
  <2> QED
    BY <2>2, <2>3, <2>4, Widened
<1>2. Bytes(TRANSCRIPT_DOMAIN, S)
  <2>1. Bytes(TRANSCRIPT_DOMAIN, Cells)
    BY TranscriptAssumption DEF Bytes, Cells
  <2> QED
    BY <2>1, Widened
<1>3. /\ g(t) = g(u) => t.generation = u.generation
      /\ v(t) = v(u) => t.policy_version = u.policy_version
      /\ r(t) = r(u) => t.root_nonce = u.root_nonce
      /\ e(t) = e(u) => t.expiry_ts = u.expiry_ts
  <2>1. U64_LEN \in Nat /\ U32_LEN \in Nat
    BY WidthsAreInt
  <2>2. g(t) = g(u) => t.generation = u.generation
    BY <2>1, UnsignedRead DEF IsTranscript
  <2>3. v(t) = v(u) => t.policy_version = u.policy_version
    BY <2>1, UnsignedRead DEF IsTranscript
  <2>4. r(t) = r(u) => t.root_nonce = u.root_nonce
    BY <2>1, UnsignedRead DEF IsTranscript
  <2>5. e(t) = e(u) => t.expiry_ts = u.expiry_ts
    BY <2>1, SignedRead DEF IsTranscript
  <2> QED
    BY <2>2, <2>3, <2>4, <2>5
<1> HIDE DEF c, p, a, g, v, r, e, h
<1>4. ASSUME NEW x, IsTranscript(x, S)
      PROVE  /\ Bytes(C(x), S) /\ Bytes(P(x), S) /\ Bytes(A(x), S) /\ Bytes(G(x), S)
             /\ Bytes(V(x), S) /\ Bytes(R(x), S) /\ Bytes(E(x), S)
  <2>1. /\ Bytes(c(x), S) /\ Bytes(p(x), S) /\ Bytes(a(x), S) /\ Bytes(g(x), S)
        /\ Bytes(v(x), S) /\ Bytes(r(x), S) /\ Bytes(e(x), S)
    BY <1>1, <1>4, SizedIsBytes
  <2>2. Bytes(C(x), S)
    BY <1>2, <2>1, CatIsBytes
  <2> HIDE DEF C
  <2>3. Bytes(P(x), S)
    BY <2>1, <2>2, CatIsBytes
  <2> HIDE DEF P
  <2>4. Bytes(A(x), S)
    BY <2>1, <2>3, CatIsBytes
  <2> HIDE DEF A
  <2>5. Bytes(G(x), S)
    BY <2>1, <2>4, CatIsBytes
  <2> HIDE DEF G
  <2>6. Bytes(V(x), S)
    BY <2>1, <2>5, CatIsBytes
  <2> HIDE DEF V
  <2>7. Bytes(R(x), S)
    BY <2>1, <2>6, CatIsBytes
  <2> HIDE DEF R
  <2>8. Bytes(E(x), S)
    BY <2>1, <2>7, CatIsBytes
  <2> QED
    BY <2>2, <2>3, <2>4, <2>5, <2>6, <2>7, <2>8
<1>5. Cat(E(t), h(t)) = Cat(E(u), h(u))
  <2> HIDE DEF E
  <2> QED
    BY <1>1
<1> HIDE DEF E
<1>6. E(t) = E(u) /\ h(t) = h(u)
  BY <1>1, <1>4, <1>5, ReadTail
<1> HIDE DEF R
<1>7. Cat(R(t), e(t)) = Cat(R(u), e(u))
  BY <1>6 DEF E
<1>8. R(t) = R(u) /\ e(t) = e(u)
  BY <1>1, <1>4, <1>7, ReadTail
<1> HIDE DEF V
<1>9. Cat(V(t), r(t)) = Cat(V(u), r(u))
  BY <1>8 DEF R
<1>10. V(t) = V(u) /\ r(t) = r(u)
  BY <1>1, <1>4, <1>9, ReadTail
<1> HIDE DEF G
<1>11. Cat(G(t), v(t)) = Cat(G(u), v(u))
  BY <1>10 DEF V
<1>12. G(t) = G(u) /\ v(t) = v(u)
  BY <1>1, <1>4, <1>11, ReadTail
<1> HIDE DEF A
<1>13. Cat(A(t), g(t)) = Cat(A(u), g(u))
  BY <1>12 DEF G
<1>14. A(t) = A(u) /\ g(t) = g(u)
  BY <1>1, <1>4, <1>13, ReadTail
<1> HIDE DEF P
<1>15. Cat(P(t), a(t)) = Cat(P(u), a(u))
  BY <1>14 DEF A
<1>16. P(t) = P(u) /\ a(t) = a(u)
  BY <1>1, <1>4, <1>15, ReadTail
<1> HIDE DEF C
<1>17. Cat(C(t), p(t)) = Cat(C(u), p(u))
  BY <1>16 DEF P
<1>18. C(t) = C(u) /\ p(t) = p(u)
  BY <1>1, <1>4, <1>17, ReadTail
<1>19. Cat(TRANSCRIPT_DOMAIN, c(t)) = Cat(TRANSCRIPT_DOMAIN, c(u))
  BY <1>18 DEF C
<1>20. c(t) = c(u)
  BY <1>1, <1>2, <1>19, ReadTail
<1>21. t.cluster_tag = u.cluster_tag /\ t.program_id = u.program_id
  BY <1>18, <1>20 DEF c, p
<1>22. t.account = u.account /\ t.action_hash = u.action_hash
  BY <1>6, <1>16 DEF a, h
<1> QED
  BY <1>3, <1>8, <1>10, <1>12, <1>14, <1>21, <1>22

\* What is hashed for a document determines the document.
LEMMA EncodedRead ==
  ASSUME NEW d \in Documents, NEW e \in Documents, Encoded(d) = Encoded(e)
  PROVE  d = e
<1> DEFINE x == ActionBytes(OpByte(d.op), BodyBytes(d.op, d.body))
           y == ActionBytes(OpByte(e.op), BodyBytes(e.op, e.body))
           t == [cluster_tag |-> d.t.cluster_tag, program_id |-> d.t.program_id,
                 account |-> d.t.account, generation |-> d.t.generation,
                 policy_version |-> d.t.policy_version, root_nonce |-> d.t.root_nonce,
                 expiry_ts |-> d.t.expiry_ts, action_hash |-> Keccak256(x)]
           u == [cluster_tag |-> e.t.cluster_tag, program_id |-> e.t.program_id,
                 account |-> e.t.account, generation |-> e.t.generation,
                 policy_version |-> e.t.policy_version, root_nonce |-> e.t.root_nonce,
                 expiry_ts |-> e.t.expiry_ts, action_hash |-> Keccak256(y)]
<1>1. IsDocument(d) /\ IsDocument(e)
  BY DocumentsAreSo
<1>2. TranscriptBytes(t) = TranscriptBytes(u)
  BY DEF Encoded
<1>3. PICK S : S = Cells \cup {<<"Keccak256", x>>, <<"Keccak256", y>>}
  OBVIOUS
<1>4. Sized(Keccak256(x), 1, S) /\ Sized(Keccak256(y), 1, S)
  <2> HIDE DEF x, y
  <2>1. <<"Keccak256", x>> \in S /\ <<"Keccak256", y>> \in S
    BY <1>3
  <2> QED
    BY <2>1 DEF Sized, Keccak256
<1>5. Keccak256(x) = Keccak256(y) => x = y
  <2> HIDE DEF x, y
  <2> QED
    BY DEF Keccak256
<1> HIDE DEF x, y
<1>6. IsTranscript(t, S) /\ IsTranscript(u, S)
  <2>1. d.t \in Bindings /\ e.t \in Bindings
    BY <1>1 DEF IsDocument
  <2> QED
    BY <1>4, <2>1 DEF IsTranscript, Bindings, Amounts
<1>7. Cells \subseteq S
  BY <1>3
<1>8. /\ t.cluster_tag = u.cluster_tag /\ t.program_id = u.program_id
      /\ t.account = u.account /\ t.generation = u.generation
      /\ t.policy_version = u.policy_version /\ t.root_nonce = u.root_nonce
      /\ t.expiry_ts = u.expiry_ts /\ t.action_hash = u.action_hash
  <2> HIDE DEF t, u
  <2> QED
    BY <1>2, <1>6, <1>7, TranscriptRead
<1>9. d.t = e.t
  <2>1. d.t \in Bindings /\ e.t \in Bindings
    BY <1>1 DEF IsDocument
  <2> QED
    BY <1>8, <2>1 DEF Bindings
<1>10. d.op = e.op /\ d.body = e.body
  BY <1>1, <1>5, <1>8, ActionRead DEF x, y
<1> QED
  BY <1>1, <1>9, <1>10 DEF IsDocument

AreDocuments == first \in Documents /\ (second = NotChosen \/ second \in Documents)

\* Whatever is signed is a document.
LEMMA DocumentsStay ==
  SignedBytesSpec => []AreDocuments
<1>1. AnySigned => AreDocuments
  BY DEF AnySigned, AreDocuments
<1>2. AreDocuments /\ [Choose]_<<documentVars, input>> => AreDocuments'
  <2> SUFFICES ASSUME AreDocuments, [Choose]_<<documentVars, input>> PROVE AreDocuments'
    OBVIOUS
  <2>1. CASE ChooseDocument(Documents)
    BY <2>1 DEF ChooseDocument, AreDocuments
  <2>2. CASE UNCHANGED documentVars
    BY <2>2 DEF documentVars, AreDocuments
  <2> QED
    BY <2>1, <2>2 DEF Choose
<1> QED
  BY <1>1, <1>2, PTL DEF SignedBytesSpec

\* transcript_hash and action_hash, for keys, integers and labels of any width and
\* Vecs of any length: documents that differ anywhere are signed over different bytes.
\* What is left to Keccak-256 is that different bytes have different hashes.
THEOREM DifferentDocuments ==
  SignedBytesSpec => []DocumentsDiffer
<1>1. AreDocuments => DocumentsDiffer
  <2> SUFFICES ASSUME AreDocuments, second # NotChosen, first # second
               PROVE  Encoded(first) # Encoded(second)
    BY DEF DocumentsDiffer
  <2>1. first \in Documents /\ second \in Documents
    BY DEF AreDocuments
  <2> QED
    BY <2>1, EncodedRead
<1> QED
  BY <1>1, DocumentsStay, PTL

-----------------------------------------------------------------------------
(* The mirror. *)

\* A buffer of a fixed size whose front has been filled with x.
Filled(x, size) == [i \in 1 .. size |-> IF i <= Len(x) THEN x[i] ELSE 0]

\* Setting the next field of such a buffer fills it with one field more.
LEMMA FillNext ==
  ASSUME NEW x, NEW b, NEW m, NEW n, NEW size \in Nat, NEW at,
         Sized(x, m, Cells), Sized(b, n, Cells), m + n <= size, at = m
  PROVE  Place(Filled(x, size), b, at) = Filled(Cat(x, b), size)
<1>1. /\ x \in Seq(Cells) /\ b \in Seq(Cells) /\ m = Len(x) /\ n = Len(b)
      /\ m \in Nat /\ n \in Nat
  BY DEF Sized
<1>2. Len(x \o b) = m + n /\ \A i \in 1 .. m + n :
        (x \o b)[i] = IF i <= m THEN x[i] ELSE b[i - m]
  BY <1>1
<1> DEFINE f == Filled(x, size)
           g == Filled(x \o b, size)
<1>3. DOMAIN f = 1 .. size /\ \A i \in 1 .. size : f[i] = IF i <= m THEN x[i] ELSE 0
  BY <1>1 DEF Filled
<1>4. g = [i \in 1 .. size |-> IF i <= m + n THEN (x \o b)[i] ELSE 0]
  BY <1>2 DEF Filled
<1>5. Place(f, b, m) =
        [i \in 1 .. size |-> IF i \in m + 1 .. m + n THEN b[i - m] ELSE f[i]]
  <2> HIDE DEF f
  <2> QED
    BY <1>1, <1>3 DEF Place
<1> HIDE DEF f, g
<1>6. ASSUME NEW i \in 1 .. size
      PROVE  (IF i \in m + 1 .. m + n THEN b[i - m] ELSE f[i])
               = (IF i <= m + n THEN (x \o b)[i] ELSE 0)
  <2>1. CASE i <= m
    <3>1. i \in 1 .. m + n /\ ~ (i \in m + 1 .. m + n) /\ i <= m + n
      BY <1>1, <2>1
    <3> QED
      BY <1>2, <1>3, <2>1, <3>1
  <2>2. CASE i > m /\ i <= m + n
    <3>1. i \in 1 .. m + n /\ i \in m + 1 .. m + n /\ ~ (i <= m)
      BY <1>1, <2>2
    <3> QED
      BY <1>2, <3>1, <2>2
  <2>3. CASE i > m + n
    <3>1. ~ (i \in m + 1 .. m + n) /\ ~ (i <= m) /\ ~ (i <= m + n)
      BY <1>1, <2>3
    <3> QED
      BY <1>3, <3>1
  <2> QED
    BY <1>1, <2>1, <2>2, <2>3
<1>7. Place(f, b, m) = g
  BY <1>4, <1>5, <1>6
<1> QED
  BY <1>7 DEF f, g, Cat

\* A buffer that is full is what it was filled with.
LEMMA FillDone ==
  ASSUME NEW x, NEW size, Sized(x, size, Cells)
  PROVE  Filled(x, size) = x
<1>1. x \in Seq(Cells) /\ size = Len(x) /\ size \in Nat
  BY DEF Sized
<1>2. x \in [1 .. size -> Cells]
  BY <1>1
<1>3. Filled(x, size) = [i \in 1 .. size |-> x[i]]
  BY <1>1 DEF Filled
<1> QED
  BY <1>2, <1>3

\* The assertions of the mirror are the widths of the fields.
LEMMA AssertionsAreWidths ==
  ASSUME NEW v \in Int
  PROVE  /\ \A len \in Nat : AssertUnsigned(v, len) <=> v \in Unsigned(len)
         /\ AssertI64(v) <=> v \in Signed(U64_LEN)
         /\ AssertUnsigned(v, 1) <=> v \in Cells
<1>1. ASSUME NEW len \in Nat PROVE AssertUnsigned(v, len) <=> v \in Unsigned(len)
  <2> DEFINE m == RadixTo[len]
  <2>1. m \in Nat
    BY RadixPowers
  <2> HIDE DEF m
  <2>2. v >= 0 /\ v < m <=> v \in 0 .. m - 1
    BY <2>1
  <2> QED
    BY <2>2 DEF m, AssertUnsigned, Unsigned
<1>2. AssertI64(v) <=> v \in Signed(U64_LEN)
  <2> DEFINE m == RadixTo[U64_LEN] \div 2
  <2>1. m \in Int
    <3>1. RadixTo[U64_LEN] \in Int
      BY RadixPowers, WidthsAreInt
    <3> QED
      BY <3>1, Divided
  <2> HIDE DEF m
  <2>2. v >= -m /\ v < m <=> v \in -m .. m - 1
    BY <2>1
  <2> QED
    BY <2>2 DEF m, AssertI64, Signed
<1>3. AssertUnsigned(v, 1) <=> v \in Cells
  <2>1. RadixTo[1] = RADIX
    <3>1. RadixTo[0 + 1] = RADIX * RadixTo[0] /\ RadixTo[0] = 1
      BY RadixPowers
    <3> QED
      BY <3>1, TranscriptAssumption
  <2> QED
    BY <1>1, <2>1 DEF Unsigned, Cells
<1> QED
  BY <1>1, <1>2, <1>3

\* actionHash.
LEMMA ActionMirrored ==
  ASSUME NEW op \in Int, NEW args \in Seq(Cells)
  PROVE  TsActionHash(op, args) = IF op \in Cells THEN ActionBytes(op, args) ELSE Thrown
<1>1. CASE ~ AssertUnsigned(op, 1)
  BY <1>1, AssertionsAreWidths DEF TsActionHash
<1>2. CASE AssertUnsigned(op, 1)
  <2> DEFINE size == 1 + Len(args)
             x == <<op>>
             buffer == [i \in 1 .. size |-> IF i = 1 THEN op ELSE 0]
  <2>1. op \in Cells
    BY <1>2, AssertionsAreWidths
  <2>2. Sized(x, 1, Cells) /\ Sized(args, Len(args), Cells) /\ size \in Nat /\ Len(args) \in Nat
    BY <2>1 DEF Sized
  <2>3. buffer = Filled(x, size)
    <3>1. ASSUME NEW i \in 1 .. size
          PROVE  (IF i = 1 THEN op ELSE 0) = (IF i <= Len(x) THEN x[i] ELSE 0)
      <4>1. Len(x) = 1 /\ x[1] = op
        OBVIOUS
      <4> QED
        BY <2>2, <4>1
    <3> QED
      BY <3>1 DEF Filled
  <2>4. TsActionHash(op, args) = Place(buffer, args, 1)
    BY <1>2 DEF TsActionHash
  <2>5. ActionBytes(op, args) = Cat(x, args)
    BY DEF ActionBytes, Cat
  <2>6. 1 + Len(args) <= size
    BY <2>2
  <2>7. size = 1 + Len(args)
    OBVIOUS
  <2> HIDE DEF size, x, buffer
  <2>8. Place(Filled(x, size), args, 1) = Filled(Cat(x, args), size)
    BY <2>2, <2>6, FillNext
  <2>9. Sized(Cat(x, args), size, Cells)
    BY <2>2, <2>7, CatSized
  <2> QED
    BY <2>1, <2>3, <2>4, <2>5, <2>8, <2>9, FillDone
<1> QED
  BY <1>1, <1>2

\* The mirror's guards are the declared types of the Rust encoder's fields.
LEMMA GuardsAreTypes ==
  ASSUME NEW t \in MirrorInputs
  PROVE  t \in TranscriptFields <=>
           /\ \A b \in {t.cluster_tag, t.program_id, t.account, t.action_hash} : Require32(b)
           /\ AssertUnsigned(t.generation, U64_LEN) /\ AssertUnsigned(t.policy_version, U32_LEN)
           /\ AssertUnsigned(t.root_nonce, U64_LEN) /\ AssertI64(t.expiry_ts)
<1>1. U64_LEN \in Nat /\ U32_LEN \in Nat /\ HASH_LEN \in Nat
  BY WidthsAreInt
<1>2. ASSUME NEW b \in Seq(Cells) PROVE Require32(b) <=> b \in Key
  <2>1. CASE Len(b) = HASH_LEN
    <3>1. b \in [1 .. Len(b) -> Cells]
      OBVIOUS
    <3> QED
      BY <2>1, <3>1 DEF Require32, Key
  <2>2. CASE Len(b) # HASH_LEN
    <3>1. ASSUME b \in Key PROVE FALSE
      <4>1. b \in [1 .. HASH_LEN -> Cells]
        BY <3>1 DEF Key
      <4>2. Len(b) = HASH_LEN
        BY <1>1, <4>1
      <4> QED
        BY <2>2, <4>2
    <3> QED
      BY <2>2, <3>1 DEF Require32
  <2> QED
    BY <2>1, <2>2
<1>3. /\ t.cluster_tag \in Seq(Cells) /\ t.program_id \in Seq(Cells)
      /\ t.account \in Seq(Cells) /\ t.action_hash \in Seq(Cells)
      /\ t.generation \in Int /\ t.policy_version \in Int /\ t.root_nonce \in Int
      /\ t.expiry_ts \in Int
  BY DEF MirrorInputs
<1>4. t \in TranscriptFields <=>
        /\ t.cluster_tag \in Key /\ t.program_id \in Key /\ t.account \in Key
        /\ t.generation \in Unsigned(U64_LEN) /\ t.policy_version \in Unsigned(U32_LEN)
        /\ t.root_nonce \in Unsigned(U64_LEN) /\ t.expiry_ts \in Signed(U64_LEN)
        /\ t.action_hash \in Key
  BY DEF MirrorInputs, TranscriptFields
<1>5. /\ AssertUnsigned(t.generation, U64_LEN) <=> t.generation \in Unsigned(U64_LEN)
      /\ AssertUnsigned(t.policy_version, U32_LEN) <=> t.policy_version \in Unsigned(U32_LEN)
      /\ AssertUnsigned(t.root_nonce, U64_LEN) <=> t.root_nonce \in Unsigned(U64_LEN)
      /\ AssertI64(t.expiry_ts) <=> t.expiry_ts \in Signed(U64_LEN)
  BY <1>1, <1>3, AssertionsAreWidths
<1>6. /\ Require32(t.cluster_tag) <=> t.cluster_tag \in Key
      /\ Require32(t.program_id) <=> t.program_id \in Key
      /\ Require32(t.account) <=> t.account \in Key
      /\ Require32(t.action_hash) <=> t.action_hash \in Key
  BY <1>2, <1>3
<1> QED
  BY <1>4, <1>5, <1>6

\* transcriptHash.
LEMMA TranscriptMirrored ==
  ASSUME NEW t \in MirrorInputs
  PROVE  TsTranscriptHash(t) = IF t \in TranscriptFields THEN TranscriptBytes(t) ELSE Thrown
<1>1. CASE t \notin TranscriptFields
  BY <1>1, GuardsAreTypes DEF TsTranscriptHash
<1>2. CASE t \in TranscriptFields
  <2> DEFINE start == Len(TRANSCRIPT_DOMAIN)
             size == start + 4 * HASH_LEN + 3 * U64_LEN + U32_LEN
             at == start + 3 * HASH_LEN
             g == Le(t.generation, U64_LEN)
             v == Le(t.policy_version, U32_LEN)
             r == Le(t.root_nonce, U64_LEN)
             e == Le(t.expiry_ts, U64_LEN)
             D == TRANSCRIPT_DOMAIN
             C == Cat(D, t.cluster_tag)
             P == Cat(C, t.program_id)
             A == Cat(P, t.account)
             G == Cat(A, g)
             V == Cat(G, v)
             R == Cat(V, r)
             E == Cat(R, e)
             H == Cat(E, t.action_hash)
             p0 == Place([i \in 1 .. size |-> 0], D, 0)
             p1 == Place(p0, t.cluster_tag, start)
             p2 == Place(p1, t.program_id, start + HASH_LEN)
             p3 == Place(p2, t.account, start + 2 * HASH_LEN)
             p4 == Place(p3, g, at)
             p5 == Place(p4, v, at + U64_LEN)
             p6 == Place(p5, r, at + U64_LEN + U32_LEN)
             p7 == Place(p6, e, at + 2 * U64_LEN + U32_LEN)
             p8 == Place(p7, t.action_hash, at + 3 * U64_LEN + U32_LEN)
  <2>1. TsTranscriptHash(t) = p8
    BY <1>2, GuardsAreTypes DEF TsTranscriptHash
  <2>2. TranscriptBytes(t) = H
    BY DEF TranscriptBytes, Cat
  <2>3. U64_LEN \in Nat /\ U32_LEN \in Nat /\ HASH_LEN \in Nat /\ start \in Nat
    BY WidthsAreInt, TranscriptAssumption
  <2>4. /\ Sized(t.cluster_tag, HASH_LEN, Cells) /\ Sized(t.program_id, HASH_LEN, Cells)
        /\ Sized(t.account, HASH_LEN, Cells) /\ Sized(t.action_hash, HASH_LEN, Cells)
        /\ Sized(g, U64_LEN, Cells) /\ Sized(v, U32_LEN, Cells) /\ Sized(r, U64_LEN, Cells)
        /\ Sized(e, U64_LEN, Cells)
    <3>1. /\ t.cluster_tag \in Key /\ t.program_id \in Key /\ t.account \in Key
          /\ t.action_hash \in Key /\ t.generation \in Int /\ t.policy_version \in Int
          /\ t.root_nonce \in Int /\ t.expiry_ts \in Int
      BY <1>2, <2>3, WidthsAreInt DEF TranscriptFields
    <3> QED
      BY <2>3, <3>1, FieldsAreSized
  <2>5. Sized(D, start, Cells) /\ Sized(<<>>, 0, Cells)
    BY TranscriptAssumption DEF Cells, Sized
  <2>6. [i \in 1 .. size |-> 0] = Filled(<<>>, size)
    <3> HIDE DEF size
    <3> QED
      BY DEF Filled
  <2>7. Cat(<<>>, D) = D
    BY TranscriptAssumption DEF Cat
  <2>8. size \in Nat /\ size = start + 4 * HASH_LEN + 3 * U64_LEN + U32_LEN
        /\ at = start + 3 * HASH_LEN
    BY <2>3
  <2> HIDE DEF start, size, at, g, v, r, e, D, p8
  <2>10. p0 = Filled(D, size)
    <3>1. 0 + start <= size
      BY <2>3, <2>8
    <3>2. Place(Filled(<<>>, size), D, 0) = Filled(Cat(<<>>, D), size)
      BY <2>5, <2>8, <3>1, FillNext
    <3> QED
      BY <2>6, <2>7, <3>2
  <2> HIDE DEF p0
  <2>11. p1 = Filled(C, size) /\ Sized(C, start + HASH_LEN, Cells)
    <3>1. start + HASH_LEN <= size
      BY <2>3, <2>8
    <3> QED
      BY <2>4, <2>5, <2>8, <2>10, <3>1, FillNext, CatSized
  <2> HIDE DEF p1, C
  <2>12. p2 = Filled(P, size) /\ Sized(P, (start + HASH_LEN) + HASH_LEN, Cells)
    <3>1. (start + HASH_LEN) + HASH_LEN <= size
      BY <2>3, <2>8
    <3> QED
      BY <2>4, <2>8, <2>11, <3>1, FillNext, CatSized
  <2> HIDE DEF p2, P
  <2>13. p3 = Filled(A, size) /\ Sized(A, at, Cells)
    <3>1. /\ start + 2 * HASH_LEN + HASH_LEN <= size /\ start + 2 * HASH_LEN + HASH_LEN = at
          /\ (start + HASH_LEN) + HASH_LEN = start + 2 * HASH_LEN
      BY <2>3, <2>8
    <3>2. Sized(P, start + 2 * HASH_LEN, Cells)
      BY <2>12, <3>1
    <3>3. Sized(A, start + 2 * HASH_LEN + HASH_LEN, Cells)
      BY <2>4, <3>2, CatSized
    <3>4. p3 = Filled(A, size)
      BY <2>4, <2>8, <2>12, <3>1, <3>2, FillNext
    <3> QED
      BY <3>1, <3>3, <3>4
  <2> HIDE DEF p3, A
  <2>14. p4 = Filled(G, size) /\ Sized(G, at + U64_LEN, Cells)
    <3>1. at + U64_LEN <= size
      BY <2>3, <2>8
    <3> QED
      BY <2>4, <2>8, <2>13, <3>1, FillNext, CatSized
  <2> HIDE DEF p4, G
  <2>15. p5 = Filled(V, size) /\ Sized(V, at + U64_LEN + U32_LEN, Cells)
    <3>1. at + U64_LEN + U32_LEN <= size
      BY <2>3, <2>8
    <3> QED
      BY <2>4, <2>8, <2>14, <3>1, FillNext, CatSized
  <2> HIDE DEF p5, V
  <2>16. p6 = Filled(R, size) /\ Sized(R, at + 2 * U64_LEN + U32_LEN, Cells)
    <3>1. /\ at + U64_LEN + U32_LEN + U64_LEN <= size
          /\ at + U64_LEN + U32_LEN + U64_LEN = at + 2 * U64_LEN + U32_LEN
      BY <2>3, <2>8
    <3>2. Sized(R, at + U64_LEN + U32_LEN + U64_LEN, Cells)
      BY <2>4, <2>15, CatSized
    <3>3. p6 = Filled(R, size)
      BY <2>4, <2>8, <2>15, <3>1, FillNext
    <3> QED
      BY <3>1, <3>2, <3>3
  <2> HIDE DEF p6, R
  <2>17. p7 = Filled(E, size) /\ Sized(E, at + 3 * U64_LEN + U32_LEN, Cells)
    <3>1. /\ at + 2 * U64_LEN + U32_LEN + U64_LEN <= size
          /\ at + 2 * U64_LEN + U32_LEN + U64_LEN = at + 3 * U64_LEN + U32_LEN
      BY <2>3, <2>8
    <3>2. Sized(E, at + 2 * U64_LEN + U32_LEN + U64_LEN, Cells)
      BY <2>4, <2>16, CatSized
    <3>3. p7 = Filled(E, size)
      BY <2>4, <2>8, <2>16, <3>1, FillNext
    <3> QED
      BY <3>1, <3>2, <3>3
  <2> HIDE DEF p7, E
  <2>18. p8 = Filled(H, size) /\ Sized(H, size, Cells)
    <3>1. at + 3 * U64_LEN + U32_LEN + HASH_LEN = size
      BY <2>3, <2>8
    <3>2. Sized(H, at + 3 * U64_LEN + U32_LEN + HASH_LEN, Cells)
      BY <2>4, <2>17, CatSized
    <3>3. at + 3 * U64_LEN + U32_LEN + HASH_LEN <= size
      BY <2>8, <3>1
    <3>4. p8 = Filled(H, size)
      BY <2>4, <2>8, <2>17, <3>3, FillNext DEF p8
    <3> QED
      BY <3>1, <3>2, <3>4
  <2> HIDE DEF H
  <2> QED
    BY <1>2, <2>1, <2>2, <2>18, FillDone
<1> QED
  BY <1>1, <1>2

AreInputs == input \in MirrorInputs

\* What the encoder is given is any inputs of its types.
LEMMA InputsStay ==
  SignedBytesSpec => []AreInputs
<1>1. AnySigned => AreInputs
  BY DEF AnySigned, AreInputs
<1>2. AreInputs /\ [Choose]_<<documentVars, input>> => AreInputs'
  BY DEF AreInputs, Choose
<1> QED
  BY <1>1, <1>2, PTL DEF SignedBytesSpec

\* The TypeScript encoder, for byte arrays of any length and integers of any size:
\* it throws when the Rust encoder's types do not hold the input, and otherwise
\* every field lands at the offset that the Rust encoder writes it to.
THEOREM MirrorIsExact ==
  SignedBytesSpec => []MirrorAgrees
<1>1. AreInputs => MirrorAgrees
  <2> SUFFICES ASSUME input \in MirrorInputs PROVE MirrorAgrees
    BY DEF AreInputs
  <2>1. input.policy_version \in Int /\ input.account \in Seq(Cells)
    BY DEF MirrorInputs
  <2>2. TsActionHash(input.policy_version, input.account) =
          IF input.policy_version \in Cells
          THEN ActionBytes(input.policy_version, input.account) ELSE Thrown
    BY <2>1, ActionMirrored
  <2>3. TsTranscriptHash(input) =
          IF input \in TranscriptFields THEN TranscriptBytes(input) ELSE Thrown
    BY TranscriptMirrored
  <2> QED
    BY <2>2, <2>3 DEF MirrorAgrees
<1> QED
  BY <1>1, InputsStay, PTL

-----------------------------------------------------------------------------
(* Recursion from the last place of a text to the first. *)

\* What holds of a place when it holds of all the later ones holds of every place.
LEMMA LastToFirst ==
  ASSUME NEW a \in Nat, NEW N \in Nat, NEW P,
         \A j \in a .. N : (\A m \in j + 1 .. N : m \in P) => j \in P
  PROVE  a .. N \subseteq P
<1> SUFFICES ASSUME NEW x \in a .. N, x \notin P PROVE FALSE
  OBVIOUS
<1> DEFINE S == {n \in Nat : n <= N /\ a <= N - n /\ N - n \notin P}
<1>1. N - x \in S
  <2>1. N - (N - x) = x /\ N - x \in Nat /\ N - x <= N
    OBVIOUS
  <2> QED
    BY <2>1
<1>2. S \subseteq Nat /\ S # {}
  BY <1>1
<1>3. PICK n \in S : \A m \in S : n <= m
  BY <1>2, LeastNatural
<1>4. n \in Nat /\ N - n \in a .. N /\ N - n \notin P
  BY <1>3
<1>5. ASSUME NEW m \in (N - n) + 1 .. N PROVE m \in P
  <2>1. N - m \in Nat /\ N - m <= N /\ a <= N - (N - m) /\ N - (N - m) = m /\ N - m < n /\ N - m \in Int
    BY <1>4
  <2>2. N - m \notin S
    <3>1. ~ (n <= N - m)
      BY <1>4, <2>1
    <3> HIDE DEF S
    <3> QED
      BY <1>3, <3>1
  <2> QED
    BY <2>1, <2>2
<1> QED
  BY <1>4, <1>5

\* A recursion that stops, or goes on with a later place or one where it stops.
Leads(next, stops, a, N) ==
  \A j \in a .. N : \/ j \in stops
                    \/ next[j] \in a .. N /\ (next[j] \in stops \/ next[j] > j)

Backward(f, next, stops, a, N, value, join, V) ==
  /\ f \in [a .. N -> V]
  /\ \A j \in a .. N :
       f[j] = IF j \in stops THEN value[j] ELSE join[<<j, f[next[j]]>>]

\* Such a recursion has a solution.
LEMMA BackwardExists ==
  ASSUME NEW a \in Nat, NEW N \in Nat, NEW V, NEW stops, NEW next, Leads(next, stops, a, N),
         NEW value \in [a .. N -> V], NEW join \in [(a .. N) \X V -> V]
  PROVE  \E f : Backward(f, next, stops, a, N, value, join, V)
<1> DEFINE Eq(f, j) == f[j] = IF j \in stops THEN value[j] ELSE join[<<j, f[next[j]]>>]
           Upto(f, k) == /\ f \in [a .. N -> V]
                         /\ \A j \in a .. N : (j \in stops \/ j > N - k) => Eq(f, j)
           P == {k \in Nat : \E f : Upto(f, k)}
<1>1. 0 \in P
  <2>1. \A j \in a .. N : ~ (j > N - 0)
    OBVIOUS
  <2>2. Upto(value, 0)
    BY <2>1
  <2> HIDE DEF Upto
  <2> QED
    BY <2>2
<1>2. ASSUME NEW k \in Nat, k \in P PROVE k + 1 \in P
  <2>1. PICK f : Upto(f, k)
    BY <1>2
  <2> DEFINE new(j) == IF j = N - k /\ j \notin stops THEN join[<<j, f[next[j]]>>] ELSE f[j]
             g == [j \in a .. N |-> new(j)]
  <2>2. ASSUME NEW j \in a .. N PROVE new(j) \in V
    <3>1. CASE j = N - k /\ j \notin stops
      <4>1. next[j] \in a .. N
        BY <3>1 DEF Leads
      <4>2. f[next[j]] \in V
        BY <2>1, <4>1
      <4> QED
        BY <3>1, <4>2
    <3>2. CASE ~ (j = N - k /\ j \notin stops)
      BY <2>1, <3>2
    <3> QED
      BY <3>1, <3>2
  <2>3. g \in [a .. N -> V]
    BY <2>2
  <2>4. \A j \in a .. N : g[j] = new(j)
    OBVIOUS
  <2> HIDE DEF g
  <2>5. ASSUME NEW j \in a .. N, j \in stops \/ j > N - (k + 1) PROVE Eq(g, j)
    <3>1. CASE j \in stops
      BY <2>1, <2>4, <3>1
    <3>2. CASE j \notin stops
      <4>1. next[j] \in a .. N /\ (next[j] \in stops \/ next[j] > j)
        BY <3>2 DEF Leads
      <4>2. j >= N - k
        BY <2>5, <3>2
      <4>3. g[next[j]] = f[next[j]]
        <5>1. next[j] \in stops \/ next[j] # N - k
          BY <4>1, <4>2
        <5> QED
          BY <2>4, <4>1, <5>1
      <4>4. CASE j = N - k
        BY <2>4, <3>2, <4>3, <4>4
      <4>5. CASE j # N - k
        <5>1. j > N - k
          BY <4>2, <4>5
        <5>2. Eq(f, j) /\ g[j] = f[j]
          BY <2>1, <2>4, <4>5, <5>1
        <5> QED
          BY <3>2, <4>3, <5>2
      <4> QED
        BY <4>4, <4>5
    <3> QED
      BY <3>1, <3>2
  <2>6. Upto(g, k + 1)
    BY <2>3, <2>5
  <2> HIDE DEF Upto
  <2> QED
    BY <2>6
<1> HIDE DEF P
<1>3. N + 1 \in P
  BY <1>1, <1>2, NaturalsReached
<1>4. PICK f : Upto(f, N + 1)
  BY <1>3 DEF P
<1>5. \A j \in a .. N : j > N - (N + 1)
  OBVIOUS
<1> QED
  BY <1>4, <1>5 DEF Backward

-----------------------------------------------------------------------------
(* Bytes of a text. *)

\* A byte is a byte, and there is none past the end.
LEMMA BytesRead ==
  ASSUME NEW d \in Seq(Byte), NEW i
  PROVE  /\ At(d, i) \in Byte \cup {NoByte}
         /\ At(d, i) # NoByte => i \in 1 .. Len(d)
         /\ i \in 1 .. Len(d) => At(d, i) = d[i] /\ At(d, i) \in Byte
<1>1. DOMAIN d = 1 .. Len(d) /\ \A k \in 1 .. Len(d) : d[k] \in Byte
  OBVIOUS
<1>2. NoByte \notin Byte
  BY DEF Byte, NoByte
<1> QED
  BY <1>1, <1>2, Zenon DEF At

\* What an escape stands for is a byte; u is none of them.
LEMMA EscapesAreBytes ==
  /\ \A e \in DOMAIN Unescaped : Unescaped[e] \in Byte
  /\ NoByte \notin DOMAIN Unescaped /\ LowerU \notin DOMAIN Unescaped
<1>1. ASSUME NEW e \in DOMAIN Unescaped PROVE Unescaped[e] \in Byte
  <2>1. e \in {34, 92, 47} \/ e = 98 \/ e = 102 \/ e = 110 \/ e = 114 \/ e = 116
    BY DEF Unescaped
  <2>2. Unescaped[e] = CASE e \in {34, 92, 47} -> e [] e = 98 -> 8 [] e = 102 -> 12
                         [] e = 110 -> 10 [] e = 114 -> 13 [] e = 116 -> 9
    BY DEF Unescaped
  <2> QED
    BY <2>1, <2>2 DEF Byte
<1> QED
  BY <1>1 DEF Unescaped, NoByte, LowerU

\* A hexadecimal digit is one of sixteen.
LEMMA HexValues ==
  ASSUME NEW c \in HexDigits
  PROVE  HexValue(c) \in 0 .. 15 /\ c # NoByte /\ c # Backslash
  BY DEF HexDigits, HexValue, Digits, NoByte, Backslash

\* What four digits can number.
IsCodePoint(cp) == cp \in Nat /\ cp <= 65535

\* Four of them are a code point.
LEMMA HexRead ==
  ASSUME NEW d \in Seq(Byte), NEW i \in Nat, IsHex(d, i)
  PROVE  /\ IsCodePoint(CodePoint(d, i))
         /\ i + 3 \in 1 .. Len(d) /\ Len(d) \in Nat
         /\ \A k \in i .. i + 3 : At(d, k) # Backslash
<1>1. \A k \in 0 .. 3 : At(d, i + k) \in HexDigits
  BY DEF IsHex
<1>2. /\ At(d, i) \in HexDigits /\ At(d, i + 1) \in HexDigits
      /\ At(d, i + 2) \in HexDigits /\ At(d, i + 3) \in HexDigits
  <2>1. At(d, i + 0) \in HexDigits /\ i + 0 = i
    BY <1>1
  <2> QED
    BY <1>1, <2>1
<1>3. IsCodePoint(CodePoint(d, i))
  <2> DEFINE InAll(a, b, c, e) == 4096 * a + 256 * b + 16 * c + e
  <2>1. ASSUME NEW a \in 0 .. 15, NEW b \in 0 .. 15, NEW c \in 0 .. 15, NEW e \in 0 .. 15
        PROVE  IsCodePoint(InAll(a, b, c, e))
    <3>1. 16 * a + b \in 0 .. 255 /\ 16 * c + e \in 0 .. 255
      OBVIOUS
    <3>2. 4096 * a + 256 * b + 16 * c + e = 256 * (16 * a + b) + (16 * c + e)
      BY SMT
    <3>3. \A m, n \in 0 .. 255 : 256 * m + n \in Nat /\ 256 * m + n <= 65535
      BY SMT
    <3> QED
      BY <3>1, <3>2, <3>3, SMT DEF IsCodePoint
  <2>2. /\ HexValue(At(d, i)) \in 0 .. 15 /\ HexValue(At(d, i + 1)) \in 0 .. 15
        /\ HexValue(At(d, i + 2)) \in 0 .. 15 /\ HexValue(At(d, i + 3)) \in 0 .. 15
    BY <1>2, HexValues
  <2> QED
    <3> DEFINE a == HexValue(At(d, i))
               b == HexValue(At(d, i + 1))
               c == HexValue(At(d, i + 2))
               e == HexValue(At(d, i + 3))
    <3>1. CodePoint(d, i) = InAll(a, b, c, e)
      BY DEF CodePoint
    <3> HIDE DEF a, b, c, e, InAll
    <3>2. a \in 0 .. 15 /\ b \in 0 .. 15 /\ c \in 0 .. 15 /\ e \in 0 .. 15
      BY <2>2 DEF a, b, c, e
    <3> QED
      BY <2>1, <3>1, <3>2, Zenon
<1>4. i + 3 \in 1 .. Len(d) /\ Len(d) \in Nat
  <2>1. At(d, i + 3) # NoByte
    BY <1>2, HexValues
  <2> QED
    BY <2>1, BytesRead
<1>5. ASSUME NEW k \in i .. i + 3 PROVE At(d, k) # Backslash
  <2>1. k = i \/ k = i + 1 \/ k = i + 2 \/ k = i + 3
    OBVIOUS
  <2> QED
    BY <1>2, <2>1, HexValues
<1> QED
  BY <1>3, <1>4, <1>5, Zenon

\* The code points are written in bytes.
LEMMA Utf8IsBytes ==
  ASSUME NEW cp, IsCodePoint(cp)
  PROVE  Utf8(cp) \in Seq(Byte)
<1>0. cp \in Nat
  BY DEF IsCodePoint
<1>1. CASE cp < 128
  <2>1. cp \in Byte /\ Utf8(cp) = <<cp>>
    BY <1>0, <1>1, SMT DEF Utf8, Byte
  <2> QED
    BY <2>1
<1>2. CASE cp >= 128 /\ cp < 2048
  <2>1. 192 + (cp \div 64) \in Byte /\ 128 + (cp % 64) \in Byte
    BY <1>0, <1>2, SMT DEF Byte
  <2>2. Utf8(cp) = <<192 + (cp \div 64), 128 + (cp % 64)>>
    BY <1>0, <1>2, SMT DEF Utf8
  <2> HIDE DEF Byte
  <2> QED
    BY <2>1, <2>2
<1>3. CASE cp >= 2048
  <2>1. /\ 224 + (cp \div 4096) \in Byte /\ 128 + ((cp \div 64) % 64) \in Byte
        /\ 128 + (cp % 64) \in Byte
    BY <1>3, SMT DEF Byte, IsCodePoint
  <2>2. Utf8(cp) = <<224 + (cp \div 4096), 128 + ((cp \div 64) % 64), 128 + (cp % 64)>>
    BY <1>0, <1>3, SMT DEF Utf8
  <2> HIDE DEF Byte
  <2> QED
    BY <2>1, <2>2
<1>4. cp < 128 \/ (cp >= 128 /\ cp < 2048) \/ cp >= 2048
  BY <1>0, SMT
<1> QED
  BY <1>1, <1>2, <1>3, <1>4, SMT

-----------------------------------------------------------------------------
(* One turn of the two loops. *)

\* The kinds of what may stand at a place of a string.
IsPlain(d, j) == At(d, j) \notin Controls \cup {Backslash, NoByte}
IsShort(d, j) == At(d, j) = Backslash /\ At(d, j + 1) \in DOMAIN Unescaped
IsUnicode(d, j) == At(d, j) = Backslash /\ At(d, j + 1) = LowerU /\ IsHex(d, j + 2)
IsHalf(d, j) == IsUnicode(d, j) /\ CodePoint(d, j + 2) \in SURROGATES

\* The two loops take the same units, but for half of a pair.
LEMMA UnitsRead ==
  ASSUME NEW d \in Seq(Byte), NEW j \in 1 .. Len(d) + 1
  PROVE  /\ ValidUnit(d, j) = IF IsPlain(d, j) THEN j + 1
                              ELSE IF IsShort(d, j) THEN j + 2
                              ELSE IF IsUnicode(d, j) THEN j + 6 ELSE Fail
         /\ ParsedUnit(d, j) = IF IsPlain(d, j) THEN [at |-> j + 1, out |-> <<At(d, j)>>]
                               ELSE IF IsShort(d, j)
                                 THEN [at |-> j + 2, out |-> <<Unescaped[At(d, j + 1)]>>]
                               ELSE IF IsUnicode(d, j) /\ ~ IsHalf(d, j)
                                 THEN [at |-> j + 6, out |-> Utf8(CodePoint(d, j + 2))]
                               ELSE BadString
         /\ IsPlain(d, j) => j + 1 \in 1 .. Len(d) + 1 /\ At(d, j) \in Byte
         /\ IsShort(d, j) => j + 2 \in 1 .. Len(d) + 1
         /\ IsUnicode(d, j) => j + 6 \in 1 .. Len(d) + 1 /\ IsCodePoint(CodePoint(d, j + 2))
         /\ ~ (IsPlain(d, j) /\ IsShort(d, j)) /\ ~ (IsPlain(d, j) /\ IsUnicode(d, j))
         /\ ~ (IsShort(d, j) /\ IsUnicode(d, j))
<1>1. IsPlain(d, j) => j + 1 \in 1 .. Len(d) + 1 /\ At(d, j) \in Byte
  BY BytesRead DEF IsPlain
<1>2. IsShort(d, j) => j + 2 \in 1 .. Len(d) + 1
  <2>1. SUFFICES ASSUME IsShort(d, j) PROVE j + 2 \in 1 .. Len(d) + 1
    OBVIOUS
  <2>2. At(d, j + 1) # NoByte
    BY <2>1, EscapesAreBytes DEF IsShort
  <2>3. j + 1 \in 1 .. Len(d)
    BY <2>2, BytesRead
  <2> QED
    BY <2>3
<1>3. IsUnicode(d, j) => j + 6 \in 1 .. Len(d) + 1 /\ IsCodePoint(CodePoint(d, j + 2))
  <2>1. SUFFICES ASSUME IsUnicode(d, j)
                 PROVE  j + 6 \in 1 .. Len(d) + 1 /\ IsCodePoint(CodePoint(d, j + 2))
    OBVIOUS
  <2>2. IsHex(d, j + 2) /\ j + 2 \in Nat
    BY <2>1 DEF IsUnicode
  <2>3. IsCodePoint(CodePoint(d, j + 2)) /\ (j + 2) + 3 \in 1 .. Len(d) /\ Len(d) \in Nat
    BY <2>2, HexRead, Zenon
  <2> QED
    BY <2>3, SMT
<1>4. /\ ~ (IsPlain(d, j) /\ IsShort(d, j)) /\ ~ (IsPlain(d, j) /\ IsUnicode(d, j))
      /\ ~ (IsShort(d, j) /\ IsUnicode(d, j))
  BY EscapesAreBytes DEF IsPlain, IsShort, IsUnicode
<1>5. ValidUnit(d, j) = IF IsPlain(d, j) THEN j + 1
                        ELSE IF IsShort(d, j) THEN j + 2
                        ELSE IF IsUnicode(d, j) THEN j + 6 ELSE Fail
  BY Zenon DEF ValidUnit, IsPlain, IsShort, IsUnicode
<1>6. ParsedUnit(d, j) = IF IsPlain(d, j) THEN [at |-> j + 1, out |-> <<At(d, j)>>]
                         ELSE IF IsShort(d, j)
                           THEN [at |-> j + 2, out |-> <<Unescaped[At(d, j + 1)]>>]
                         ELSE IF IsUnicode(d, j) /\ ~ IsHalf(d, j)
                           THEN [at |-> j + 6, out |-> Utf8(CodePoint(d, j + 2))]
                         ELSE BadString
  BY Zenon DEF ParsedUnit, IsPlain, IsShort, IsUnicode, IsHalf
<1> QED
  BY <1>1, <1>2, <1>3, <1>4, <1>5, <1>6, Zenon

-----------------------------------------------------------------------------
(* Whole strings. *)

EndSolves(f, d) ==
  f = [j \in 0 .. Len(d) + 1 |->
         IF j = Fail THEN Fail
         ELSE IF At(d, j) = Quote THEN j + 1
         ELSE f[ParsedUnit(d, j).at]]

OutSolves(f, d) ==
  f = [j \in 0 .. Len(d) + 1 |->
         IF j = Fail \/ At(d, j) = Quote THEN <<>>
         ELSE ParsedUnit(d, j).out \o f[ParsedUnit(d, j).at]]

RestSolves(f, d) ==
  f = [j \in 0 .. Len(d) + 1 |->
         IF j = Fail THEN Fail
         ELSE IF At(d, j) = Quote THEN j + 1
         ELSE f[ValidUnit(d, j)]]

\* Where the loops stop, and where they go on.
Stops(d) == {j \in 0 .. Len(d) + 1 : j = Fail \/ At(d, j) = Quote}
ParsedNext(d) == [j \in 0 .. Len(d) + 1 |-> ParsedUnit(d, j).at]
ValidNext(d) == [j \in 0 .. Len(d) + 1 |-> ValidUnit(d, j)]

\* A turn of a loop fails or goes on to a later byte, and decodes bytes.
LEMMA TurnsLead ==
  ASSUME NEW d \in Seq(Byte), NEW j \in 1 .. Len(d) + 1
  PROVE  /\ ValidUnit(d, j) = Fail \/ ValidUnit(d, j) \in j + 1 .. Len(d) + 1
         /\ ParsedUnit(d, j).at = Fail \/ ParsedUnit(d, j).at = ValidUnit(d, j)
         /\ ParsedUnit(d, j).at = Fail <=> ValidUnit(d, j) = Fail \/ IsHalf(d, j)
         /\ ParsedUnit(d, j).out \in Seq(Byte)
         /\ IsHalf(d, j) => IsUnicode(d, j)
<1>0. IsHalf(d, j) => IsUnicode(d, j)
  BY DEF IsHalf
<1>1. CASE IsPlain(d, j)
  <2>1. ParsedUnit(d, j) = [at |-> j + 1, out |-> <<At(d, j)>>] /\ ValidUnit(d, j) = j + 1
    BY <1>1, UnitsRead
  <2>2. At(d, j) \in Byte /\ j + 1 \in 1 .. Len(d) + 1 /\ ~ IsUnicode(d, j)
    BY <1>1, UnitsRead
  <2> QED
    BY <1>0, <2>1, <2>2 DEF Fail
<1>2. CASE IsShort(d, j)
  <2>1. /\ ParsedUnit(d, j) = [at |-> j + 2, out |-> <<Unescaped[At(d, j + 1)]>>]
        /\ ValidUnit(d, j) = j + 2
    BY <1>2, UnitsRead
  <2>2. Unescaped[At(d, j + 1)] \in Byte /\ j + 2 \in 1 .. Len(d) + 1 /\ ~ IsUnicode(d, j)
    BY <1>2, UnitsRead, EscapesAreBytes DEF IsShort
  <2> QED
    BY <1>0, <2>1, <2>2 DEF Fail
<1>3. CASE IsUnicode(d, j)
  <2>1. ~ IsPlain(d, j) /\ ~ IsShort(d, j) /\ j + 6 \in 1 .. Len(d) + 1
        /\ IsCodePoint(CodePoint(d, j + 2))
    BY <1>3, UnitsRead
  <2>2. ValidUnit(d, j) = j + 6
    BY <1>3, <2>1, UnitsRead
  <2>3. CASE IsHalf(d, j)
    <3>1. ParsedUnit(d, j) = BadString
      BY <2>1, <2>3, UnitsRead
    <3> QED
      BY <1>3, <2>1, <2>2, <2>3, <3>1 DEF Fail, BadString
  <2>4. CASE ~ IsHalf(d, j)
    <3>1. ParsedUnit(d, j) = [at |-> j + 6, out |-> Utf8(CodePoint(d, j + 2))]
      BY <1>3, <2>1, <2>4, UnitsRead
    <3>2. Utf8(CodePoint(d, j + 2)) \in Seq(Byte)
      BY <2>1, Utf8IsBytes
    <3> QED
      BY <2>1, <2>2, <2>4, <3>1, <3>2 DEF Fail
  <2> QED
    BY <2>3, <2>4
<1>4. CASE ~ IsPlain(d, j) /\ ~ IsShort(d, j) /\ ~ IsUnicode(d, j)
  <2>1. ParsedUnit(d, j) = BadString /\ ValidUnit(d, j) = Fail
    BY <1>4, UnitsRead
  <2> QED
    BY <1>0, <1>4, <2>1 DEF Fail, BadString
<1> QED
  BY <1>1, <1>2, <1>3, <1>4

\* The loops are recursions with a solution.
LEMMA LoopsEnd ==
  ASSUME NEW d \in Seq(Byte)
  PROVE  /\ \E f : EndSolves(f, d)
         /\ \E f : OutSolves(f, d)
         /\ \E f : RestSolves(f, d)
<1> DEFINE N == Len(d) + 1
<1>0. N \in Nat /\ Len(d) \in Nat /\ 0 \in Nat
  OBVIOUS
<1>1. ASSUME NEW j \in 0 .. N PROVE j \notin Stops(d) => j \in 1 .. Len(d) + 1
  BY <1>1 DEF Stops, Fail
<1>2. 0 \in Stops(d)
  BY <1>0 DEF Stops, Fail
<1>3. Leads(ParsedNext(d), Stops(d), 0, N) /\ Leads(ValidNext(d), Stops(d), 0, N)
  <2>1. ASSUME NEW j \in 0 .. N, j \notin Stops(d)
        PROVE  /\ ParsedNext(d)[j] \in 0 .. N /\ (ParsedNext(d)[j] \in Stops(d) \/ ParsedNext(d)[j] > j)
               /\ ValidNext(d)[j] \in 0 .. N /\ (ValidNext(d)[j] \in Stops(d) \/ ValidNext(d)[j] > j)
    <3>1. j \in 1 .. Len(d) + 1
      BY <1>1, <2>1
    <3>2. ParsedNext(d)[j] = ParsedUnit(d, j).at /\ ValidNext(d)[j] = ValidUnit(d, j)
      BY <2>1 DEF ParsedNext, ValidNext
    <3>3. /\ ValidUnit(d, j) = 0 \/ ValidUnit(d, j) \in j + 1 .. Len(d) + 1
          /\ ParsedUnit(d, j).at = 0 \/ ParsedUnit(d, j).at = ValidUnit(d, j)
      BY <3>1, TurnsLead DEF Fail
    <3> QED
      BY <1>0, <1>2, <3>1, <3>2, <3>3
  <2> QED
    BY <2>1 DEF Leads
<1>4. \E f : EndSolves(f, d)
  <2> DEFINE value == [j \in 0 .. N |-> IF j = Fail THEN Fail ELSE j + 1]
             join == [p \in (0 .. N) \X Nat |-> p[2]]
  <2>1. value \in [0 .. N -> Nat] /\ join \in [(0 .. N) \X Nat -> Nat]
    BY <1>0 DEF Fail
  <2>2. PICK f : Backward(f, ParsedNext(d), Stops(d), 0, N, value, join, Nat)
    BY <1>0, <1>3, <2>1, BackwardExists
  <2>3. ASSUME NEW j \in 0 .. N
        PROVE  f[j] = IF j = Fail THEN Fail ELSE IF At(d, j) = Quote THEN j + 1
                      ELSE f[ParsedUnit(d, j).at]
    <3>1. f[j] = IF j \in Stops(d) THEN value[j] ELSE join[<<j, f[ParsedNext(d)[j]]>>]
      BY <2>2 DEF Backward
    <3>2. CASE j \in Stops(d)
      BY <3>1, <3>2 DEF Stops
    <3>3. CASE j \notin Stops(d)
      <4>1. ParsedNext(d)[j] \in 0 .. N
        BY <1>3, <3>3 DEF Leads
      <4>2. f[ParsedNext(d)[j]] \in Nat
        BY <2>2, <4>1 DEF Backward
      <4>3. join[<<j, f[ParsedNext(d)[j]]>>] = f[ParsedNext(d)[j]]
        BY <4>2
      <4>4. ParsedNext(d)[j] = ParsedUnit(d, j).at
        BY DEF ParsedNext
      <4>5. j # Fail /\ At(d, j) # Quote
        BY <3>3 DEF Stops
      <4> QED
        BY <3>1, <3>3, <4>3, <4>4, <4>5, Zenon
    <3> QED
      BY <3>2, <3>3
  <2>4. f = [j \in 0 .. N |-> f[j]]
    BY <2>2 DEF Backward
  <2> QED
    BY <2>3, <2>4, Zenon DEF EndSolves
<1>5. \E f : RestSolves(f, d)
  <2> DEFINE value == [j \in 0 .. N |-> IF j = Fail THEN Fail ELSE j + 1]
             join == [p \in (0 .. N) \X Nat |-> p[2]]
  <2>1. value \in [0 .. N -> Nat] /\ join \in [(0 .. N) \X Nat -> Nat]
    BY <1>0 DEF Fail
  <2>2. PICK f : Backward(f, ValidNext(d), Stops(d), 0, N, value, join, Nat)
    BY <1>0, <1>3, <2>1, BackwardExists
  <2>3. ASSUME NEW j \in 0 .. N
        PROVE  f[j] = IF j = Fail THEN Fail ELSE IF At(d, j) = Quote THEN j + 1
                      ELSE f[ValidUnit(d, j)]
    <3>1. f[j] = IF j \in Stops(d) THEN value[j] ELSE join[<<j, f[ValidNext(d)[j]]>>]
      BY <2>2 DEF Backward
    <3>2. CASE j \in Stops(d)
      BY <3>1, <3>2 DEF Stops
    <3>3. CASE j \notin Stops(d)
      <4>1. ValidNext(d)[j] \in 0 .. N
        BY <1>3, <3>3 DEF Leads
      <4>2. f[ValidNext(d)[j]] \in Nat
        BY <2>2, <4>1 DEF Backward
      <4>3. join[<<j, f[ValidNext(d)[j]]>>] = f[ValidNext(d)[j]]
        BY <4>2
      <4>4. ValidNext(d)[j] = ValidUnit(d, j)
        BY DEF ValidNext
      <4>5. j # Fail /\ At(d, j) # Quote
        BY <3>3 DEF Stops
      <4> QED
        BY <3>1, <3>3, <4>3, <4>4, <4>5, Zenon
    <3> QED
      BY <3>2, <3>3
  <2>4. f = [j \in 0 .. N |-> f[j]]
    BY <2>2 DEF Backward
  <2> QED
    BY <2>3, <2>4, Zenon DEF RestSolves
<1>6. \E f : OutSolves(f, d)
  <2> DEFINE value == [j \in 0 .. N |-> <<>>]
             join == [p \in (0 .. N) \X Seq(Byte) |->
                        IF p[1] = 0 THEN <<>> ELSE ParsedUnit(d, p[1]).out \o p[2]]
  <2>1. value \in [0 .. N -> Seq(Byte)]
    OBVIOUS
  <2>2. join \in [(0 .. N) \X Seq(Byte) -> Seq(Byte)]
    <3>1. ASSUME NEW p \in (0 .. N) \X Seq(Byte)
          PROVE  (IF p[1] = 0 THEN <<>> ELSE ParsedUnit(d, p[1]).out \o p[2]) \in Seq(Byte)
      <4>1. CASE p[1] = 0
        BY <4>1
      <4>2. CASE p[1] # 0
        <5>1. p[1] \in 1 .. Len(d) + 1 /\ p[2] \in Seq(Byte)
          BY <1>0, <4>2
        <5>2. ParsedUnit(d, p[1]).out \in Seq(Byte)
          BY <5>1, TurnsLead
        <5>3. ParsedUnit(d, p[1]).out \o p[2] \in Seq(Byte)
          BY <5>1, <5>2, ConcatProperties
        <5> QED
          BY <4>2, <5>3
      <4> QED
        BY <4>1, <4>2
    <3> QED
      BY <3>1, Zenon
  <2>3. PICK f : Backward(f, ParsedNext(d), Stops(d), 0, N, value, join, Seq(Byte))
    <3> HIDE DEF value, join
    <3> QED
      BY <1>0, <1>3, <2>1, <2>2, BackwardExists
  <2>4. ASSUME NEW j \in 0 .. N
        PROVE  f[j] = IF j = Fail \/ At(d, j) = Quote THEN <<>>
                      ELSE ParsedUnit(d, j).out \o f[ParsedUnit(d, j).at]
    <3>1. f[j] = IF j \in Stops(d) THEN value[j] ELSE join[<<j, f[ParsedNext(d)[j]]>>]
      <4> HIDE DEF value, join
      <4> QED
        BY <2>3 DEF Backward
    <3>2. CASE j \in Stops(d)
      <4>1. value[j] = <<>>
        OBVIOUS
      <4>2. j = Fail \/ At(d, j) = Quote
        BY <3>2 DEF Stops
      <4> HIDE DEF value, join
      <4> QED
        BY <3>1, <3>2, <4>1, <4>2, Zenon
    <3>3. CASE j \notin Stops(d)
      <4>1. ParsedNext(d)[j] \in 0 .. N
        BY <1>3, <3>3 DEF Leads
      <4>2. f[ParsedNext(d)[j]] \in Seq(Byte)
        <5> HIDE DEF value, join
        <5> QED
          BY <2>3, <4>1 DEF Backward
      <4>3. j # Fail /\ At(d, j) # Quote
        BY <3>3 DEF Stops
      <4>4. join[<<j, f[ParsedNext(d)[j]]>>] = ParsedUnit(d, j).out \o f[ParsedNext(d)[j]]
        BY <4>2, <4>3 DEF Fail
      <4>5. ParsedNext(d)[j] = ParsedUnit(d, j).at
        BY DEF ParsedNext
      <4> HIDE DEF value, join
      <4> QED
        BY <3>1, <3>3, <4>3, <4>4, <4>5, Zenon
    <3> QED
      BY <3>2, <3>3
  <2>5. f = [j \in 0 .. N |-> f[j]]
    <3> HIDE DEF value, join
    <3> QED
      BY <2>3 DEF Backward
  <2> QED
    BY <2>4, <2>5, Zenon DEF OutSolves
<1> QED
  BY <1>4, <1>5, <1>6

\* The two scans of a string, by the recursions.
LEMMA StringsRead ==
  ASSUME NEW d \in Seq(Byte), NEW i
  PROVE  /\ \E e, o : /\ EndSolves(e, d) /\ OutSolves(o, d)
                      /\ ParseString(d, i) = IF At(d, i) = Quote
                                               THEN [at |-> e[i + 1], out |-> o[i + 1]]
                                               ELSE BadString
         /\ \E r : /\ RestSolves(r, d)
                   /\ ValidateString(d, i) = IF At(d, i) = Quote THEN r[i + 1] ELSE Fail
<1> DEFINE e == CHOOSE f : EndSolves(f, d)
           o == CHOOSE f : OutSolves(f, d)
           r == CHOOSE f : RestSolves(f, d)
<1>1. EndSolves(e, d) /\ OutSolves(o, d) /\ RestSolves(r, d)
  BY LoopsEnd, Zenon
<1>2. ParseString(d, i) = IF At(d, i) = Quote THEN [at |-> e[i + 1], out |-> o[i + 1]]
                          ELSE BadString
  BY Zenon DEF ParseString, EndSolves, OutSolves
<1>3. ValidateString(d, i) = IF At(d, i) = Quote THEN r[i + 1] ELSE Fail
  BY Zenon DEF ValidateString, RestSolves
<1> HIDE DEF e, o, r
<1> QED
  BY <1>1, <1>2, <1>3, Zenon

\* The places before p where no backslash stands, and the one before the text.
Unslashed(d, p) == {q \in 0 .. p - 1 : q = 0 \/ At(d, q) # Backslash}

\* They have a last.
LEMMA LastUnslashed ==
  ASSUME NEW d, NEW p \in Nat, p > 0
  PROVE  /\ Max(Unslashed(d, p)) \in Unslashed(d, p)
         /\ \A q \in Unslashed(d, p) : Max(Unslashed(d, p)) >= q
<1> DEFINE S == {n \in Nat : n <= p - 1 /\ (p - 1) - n \in Unslashed(d, p)}
<1>1. p - 1 \in S
  BY DEF Unslashed
<1>2. S \subseteq Nat /\ S # {}
  BY <1>1
<1>3. PICK n \in S : \A m \in S : n <= m
  BY <1>2, LeastNatural
<1>4. ASSUME NEW q \in Unslashed(d, p) PROVE (p - 1) - n >= q
  <2>1. q \in 0 .. p - 1
    BY DEF Unslashed
  <2>2. (p - 1) - q \in Nat /\ (p - 1) - q <= p - 1 /\ (p - 1) - ((p - 1) - q) = q
    BY <2>1
  <2>3. (p - 1) - q \in S
    BY <2>2
  <2>4. n <= (p - 1) - q /\ n \in Nat
    BY <1>3, <2>3
  <2> QED
    BY <2>1, <2>4
<1>5. (p - 1) - n \in Unslashed(d, p)
  BY <1>3
<1>6. \E x \in Unslashed(d, p) : \A q \in Unslashed(d, p) : x >= q
  BY <1>4, <1>5
<1> QED
  BY <1>6 DEF Max

\* A byte is escaped when the one before it is a backslash that is not.
LEMMA EscapedNext ==
  ASSUME NEW d, NEW p \in Nat, p > 0
  PROVE  Escaped(d, p + 1) <=> At(d, p) = Backslash /\ ~ Escaped(d, p)
<1> DEFINE M == Max(Unslashed(d, p))
           L == Max(Unslashed(d, p + 1))
<1>1. Escaped(d, p) <=> (p - 1 - M) % 2 = 1
  BY DEF Escaped, Unslashed
<1>2. Escaped(d, p + 1) <=> ((p + 1) - 1 - L) % 2 = 1
  BY DEF Escaped, Unslashed
<1>3. M \in Unslashed(d, p) /\ \A q \in Unslashed(d, p) : M >= q
  BY LastUnslashed
<1>4. L \in Unslashed(d, p + 1) /\ \A q \in Unslashed(d, p + 1) : L >= q
  BY LastUnslashed
<1> HIDE DEF M, L
<1>5. M \in 0 .. p - 1 /\ L \in 0 .. p
  BY <1>3, <1>4 DEF Unslashed
<1>6. CASE At(d, p) = Backslash
  <2>1. L # p
    BY <1>4, <1>6 DEF Unslashed
  <2>2. M \in Unslashed(d, p + 1) /\ L \in Unslashed(d, p)
    BY <1>3, <1>4, <1>5, <2>1 DEF Unslashed
  <2>3. L = M
    BY <1>3, <1>4, <1>5, <2>2
  <2>4. ((p + 1) - 1 - M) % 2 = 1 <=> ~ ((p - 1 - M) % 2 = 1)
    BY <1>5
  <2> QED
    BY <1>1, <1>2, <1>6, <2>3, <2>4
<1>7. CASE At(d, p) # Backslash
  <2>1. p \in Unslashed(d, p + 1)
    BY <1>7 DEF Unslashed
  <2>2. L = p
    BY <1>4, <1>5, <2>1
  <2>3. ((p + 1) - 1 - p) % 2 = 0
    OBVIOUS
  <2> QED
    BY <1>2, <1>7, <2>2, <2>3
<1> QED
  BY <1>6, <1>7

\* An escape that names half of a pair.
NamesHalf(d, p) ==
  /\ At(d, p) = Backslash /\ ~ Escaped(d, p) /\ At(d, p + 1) = LowerU
  /\ CodePoint(d, p + 2) \in SURROGATES

\* After a unit that begins where no byte is escaped comes another; in it only its
\* first byte may begin an escape that names half of a pair.
LEMMA UnitsAreWhole ==
  ASSUME NEW d \in Seq(Byte), NEW j \in 1 .. Len(d) + 1, ~ Escaped(d, j),
         ValidUnit(d, j) # Fail
  PROVE  /\ ~ Escaped(d, ValidUnit(d, j))
         /\ \A p \in j .. ValidUnit(d, j) - 1 : NamesHalf(d, p) <=> p = j /\ IsHalf(d, j)
<1>0. j \in Nat /\ j > 0 /\ Len(d) \in Nat
  OBVIOUS
<1>1. CASE IsPlain(d, j)
  <2>1. ValidUnit(d, j) = j + 1 /\ ~ IsUnicode(d, j)
    BY <1>1, UnitsRead
  <2>2. At(d, j) # Backslash
    BY <1>1 DEF IsPlain
  <2>3. ~ Escaped(d, j + 1)
    BY <1>0, <2>2, EscapedNext
  <2>4. \A p \in j .. (j + 1) - 1 : p = j
    BY <1>0
  <2> QED
    BY <2>1, <2>2, <2>3, <2>4 DEF NamesHalf, IsHalf
<1>2. CASE IsShort(d, j)
  <2>1. ValidUnit(d, j) = j + 2 /\ ~ IsUnicode(d, j)
    BY <1>2, UnitsRead
  <2>2. At(d, j) = Backslash /\ At(d, j + 1) # LowerU
    BY <1>2, EscapesAreBytes DEF IsShort
  <2>3. Escaped(d, j + 1)
    BY <1>0, <2>2, EscapedNext
  <2>4. ~ Escaped(d, (j + 1) + 1) /\ (j + 1) + 1 = j + 2
    BY <1>0, <2>3, EscapedNext
  <2>5. \A p \in j .. (j + 2) - 1 : p = j \/ p = j + 1
    BY <1>0
  <2> QED
    BY <2>1, <2>2, <2>3, <2>4, <2>5 DEF NamesHalf, IsHalf
<1>3. CASE IsUnicode(d, j)
  <2>1. ValidUnit(d, j) = j + 6
    BY <1>3, UnitsRead
  <2>2. At(d, j) = Backslash /\ At(d, j + 1) = LowerU /\ IsHex(d, j + 2)
    BY <1>3 DEF IsUnicode
  <2>3. \A k \in j + 2 .. (j + 2) + 3 : At(d, k) # Backslash
    BY <1>0, <2>2, HexRead
  <2>4. ~ Escaped(d, (j + 5) + 1) /\ (j + 5) + 1 = j + 6
    <3>1. j + 5 \in j + 2 .. (j + 2) + 3 /\ j + 5 \in Nat /\ j + 5 > 0
      BY <1>0
    <3> QED
      BY <2>3, <3>1, EscapedNext
  <2>5. ASSUME NEW p \in j .. (j + 6) - 1, p # j PROVE ~ NamesHalf(d, p)
    <3>1. p = j + 1 \/ p \in j + 2 .. (j + 2) + 3
      BY <1>0, <2>5
    <3>2. LowerU # Backslash
      BY DEF LowerU, Backslash
    <3> QED
      BY <2>2, <2>3, <3>1, <3>2 DEF NamesHalf
  <2>6. NamesHalf(d, j) <=> IsHalf(d, j)
    BY <1>3, <2>2 DEF NamesHalf, IsHalf
  <2> QED
    BY <2>1, <2>4, <2>5, <2>6
<1>4. IsPlain(d, j) \/ IsShort(d, j) \/ IsUnicode(d, j)
  BY UnitsRead
<1> QED
  BY <1>1, <1>2, <1>3, <1>4

\* What the two scans agree on from j on: where the string ends, unless an escape
\* that names half of a pair is among what is left of it.
AgreeFrom(d, e, r, j) ==
  /\ e[j] = Fail \/ e[j] = r[j]
  /\ r[j] = Fail => e[j] = Fail
  /\ ~ Escaped(d, j) /\ r[j] # Fail =>
       /\ r[j] \in Int /\ r[j] > j
       /\ e[j] = Fail <=> \E p \in j .. r[j] - 2 : NamesHalf(d, p)

\* The decoder's scan and the validator's agree from every position on.
LEMMA ScansAgree ==
  ASSUME NEW d \in Seq(Byte), NEW e, NEW r, EndSolves(e, d), RestSolves(r, d)
  PROVE  \A j \in 1 .. Len(d) + 1 : AgreeFrom(d, e, r, j)
<1> DEFINE N == Len(d) + 1
           P == {j \in 1 .. N : AgreeFrom(d, e, r, j)}
<1>0. N \in Nat /\ Len(d) \in Nat /\ 1 \in Nat
  OBVIOUS
<1>e. \A j \in 0 .. N : e[j] = IF j = Fail THEN Fail ELSE IF At(d, j) = Quote THEN j + 1
                               ELSE e[ParsedUnit(d, j).at]
  BY Zenon DEF EndSolves
<1>r. \A j \in 0 .. N : r[j] = IF j = Fail THEN Fail ELSE IF At(d, j) = Quote THEN j + 1
                               ELSE r[ValidUnit(d, j)]
  BY Zenon DEF RestSolves
<1>f. e[Fail] = Fail /\ r[Fail] = Fail
  <2>1. Fail \in 0 .. N
    BY <1>0 DEF Fail
  <2> QED
    BY <1>e, <1>r, <2>1
<1>1. ASSUME NEW j \in 1 .. N, \A m \in j + 1 .. N : m \in P PROVE AgreeFrom(d, e, r, j)
  <2>0. j \in 0 .. N /\ j # Fail /\ j \in Int
    BY <1>0 DEF Fail
  <2>1. CASE At(d, j) = Quote
    <3>1. e[j] = j + 1 /\ r[j] = j + 1
      BY <1>e, <1>r, <2>0, <2>1
    <3>2. At(d, j) # Backslash
      BY <2>1 DEF Quote, Backslash
    <3>3. j + 1 # Fail /\ j + 1 > j /\ j + 1 \in Int /\ j .. (j + 1) - 2 = {}
      BY <2>0, <1>0 DEF Fail
    <3> QED
      BY <3>1, <3>3 DEF AgreeFrom
  <2>2. CASE At(d, j) # Quote
    <3> DEFINE n == ValidUnit(d, j)
               q == ParsedUnit(d, j).at
    <3>1. e[j] = e[q] /\ r[j] = r[n]
      BY <1>e, <1>r, <2>0, <2>2
    <3>2. /\ n = Fail \/ n \in j + 1 .. N
          /\ q = Fail \/ q = n
          /\ q = Fail <=> n = Fail \/ IsHalf(d, j)
      BY TurnsLead
    <3> HIDE DEF q
    <3>3. CASE n = Fail
      <4>1. e[j] = Fail /\ r[j] = Fail
        BY <1>f, <3>1, <3>2, <3>3
      <4> QED
        BY <4>1 DEF AgreeFrom
    <3>4. CASE n # Fail
      <4>1. n \in j + 1 .. N /\ AgreeFrom(d, e, r, n)
        BY <1>1, <3>2, <3>4
      <4>2. (e[j] = Fail \/ e[j] = r[j]) /\ (r[j] = Fail => e[j] = Fail)
        BY <1>f, <3>1, <3>2, <4>1 DEF AgreeFrom
      <4>3. ASSUME ~ Escaped(d, j), r[j] # Fail
            PROVE  /\ r[j] \in Int /\ r[j] > j
                   /\ e[j] = Fail <=> \E p \in j .. r[j] - 2 : NamesHalf(d, p)
        <5>1. /\ ~ Escaped(d, n)
              /\ \A p \in j .. n - 1 : NamesHalf(d, p) <=> p = j /\ IsHalf(d, j)
          BY <3>4, <4>3, UnitsAreWhole
        <5> HIDE DEF n
        <5>2. /\ r[n] \in Int /\ r[n] > n
              /\ e[n] = Fail <=> \E p \in n .. r[n] - 2 : NamesHalf(d, p)
          BY <3>1, <4>1, <4>3, <5>1 DEF AgreeFrom
        <5>3. e[j] = Fail <=> IsHalf(d, j) \/ e[n] = Fail
          BY <1>f, <3>1, <3>2, <3>4
        <5>4. (\E p \in j .. r[j] - 2 : NamesHalf(d, p))
                <=> IsHalf(d, j) \/ \E p \in n .. r[n] - 2 : NamesHalf(d, p)
          <6>1. n \in Int /\ n > j /\ j \in Int
            BY <2>0, <4>1
          <6>2. ASSUME NEW p \in j .. r[j] - 2, NamesHalf(d, p)
                PROVE  IsHalf(d, j) \/ \E k \in n .. r[n] - 2 : NamesHalf(d, k)
            <7>1. p \in j .. n - 1 \/ p \in n .. r[n] - 2
              BY <3>1, <5>2, <6>1
            <7> QED
              BY <5>1, <6>2, <7>1
          <6>3. ASSUME IsHalf(d, j) PROVE \E p \in j .. r[j] - 2 : NamesHalf(d, p)
            <7>1. j \in j .. n - 1 /\ j \in j .. r[j] - 2
              BY <3>1, <5>2, <6>1
            <7> QED
              BY <5>1, <6>3, <7>1
          <6>4. ASSUME NEW p \in n .. r[n] - 2, NamesHalf(d, p)
                PROVE  \E k \in j .. r[j] - 2 : NamesHalf(d, k)
            <7>1. p \in j .. r[j] - 2
              BY <3>1, <5>2, <6>1
            <7> QED
              BY <6>4, <7>1
          <6> QED
            BY <6>2, <6>3, <6>4
        <5>5. r[j] \in Int /\ r[j] > j
          BY <2>0, <3>1, <4>1, <5>2
        <5> QED
          BY <5>2, <5>3, <5>4, <5>5
      <4> QED
        BY <4>2, <4>3 DEF AgreeFrom
    <3> QED
      BY <3>3, <3>4
  <2> QED
    BY <2>1, <2>2
<1>2. \A j \in 1 .. N : (\A m \in j + 1 .. N : m \in P) => j \in P
  BY <1>1
<1> HIDE DEF P
<1>3. 1 .. N \subseteq P
  BY <1>0, <1>2, LastToFirst
<1> QED
  BY <1>3 DEF P

\* The scans of a text agree, as StringsAgree says.
LEMMA StringsAreOne ==
  ASSUME text \in Seq(Byte)
  PROVE  StringsAgree
<1> DEFINE d == text
<1>0. d \in Seq(Byte)
  OBVIOUS
<1> HIDE DEF d
<1>1. PICK e, o : /\ EndSolves(e, d) /\ OutSolves(o, d)
                  /\ ParseString(d, 1) = IF At(d, 1) = Quote THEN [at |-> e[1 + 1], out |-> o[1 + 1]]
                                         ELSE BadString
  BY <1>0, StringsRead, Zenon
<1>2. PICK r : /\ RestSolves(r, d)
               /\ ValidateString(d, 1) = IF At(d, 1) = Quote THEN r[1 + 1] ELSE Fail
  BY <1>0, StringsRead, Zenon
<1> DEFINE parsed == ParseString(d, 1)
           valid == ValidateString(d, 1)
           free == SurrogateFree(d, [from |-> 1, to |-> valid - 1])
<1>3. (parsed.at # Fail => parsed.at = valid) /\ (valid # Fail => (parsed.at = Fail <=> ~ free))
  <2>1. CASE At(d, 1) # Quote
    <3>1. parsed = BadString /\ valid = Fail
      BY <1>1, <1>2, <2>1
    <3> QED
      BY <3>1 DEF BadString
  <2>2. CASE At(d, 1) = Quote
    <3>1. parsed.at = e[2] /\ valid = r[2]
      BY <1>1, <1>2, <2>2
    <3>2. 1 \in 1 .. Len(d) /\ Len(d) \in Nat
      <4>1. At(d, 1) # NoByte
        BY <2>2 DEF Quote, NoByte
      <4> QED
        BY <1>0, <4>1, BytesRead
    <3>3. 2 \in 1 .. Len(d) + 1
      BY <3>2
    <3>4. AgreeFrom(d, e, r, 2)
      BY <1>0, <1>1, <1>2, <3>3, ScansAgree
    <3>5. ~ Escaped(d, 1 + 1) /\ 1 + 1 = 2
      <4>1. At(d, 1) # Backslash
        BY <2>2 DEF Quote, Backslash
      <4> QED
        BY <4>1, EscapedNext
    <3> HIDE DEF parsed, valid
    <3>6. ASSUME valid # Fail PROVE parsed.at = Fail <=> ~ free
      <4>1. /\ valid \in Int /\ valid > 2
            /\ parsed.at = Fail <=> \E p \in 2 .. valid - 2 : NamesHalf(d, p)
        BY <3>1, <3>4, <3>5, <3>6 DEF AgreeFrom
      <4>2. ~ free <=> \E p \in 1 + 1 .. (valid - 1) - 1 :
                         /\ d[p] = Backslash /\ ~ Escaped(d, p) /\ At(d, p + 1) = LowerU
                         /\ CodePoint(d, p + 2) \in SURROGATES
        BY DEF SurrogateFree, UnicodeEscapes
      <4>3. ASSUME NEW p \in 2 .. valid - 2
            PROVE  (d[p] = Backslash /\ At(d, p + 1) = LowerU) <=>
                     (At(d, p) = Backslash /\ At(d, p + 1) = LowerU)
        <5>1. CASE At(d, p + 1) = LowerU
          <6>1. At(d, p + 1) # NoByte
            BY <5>1 DEF LowerU, NoByte
          <6>2. p + 1 \in 1 .. Len(d)
            BY <1>0, <6>1, BytesRead
          <6>3. p \in 1 .. Len(d)
            BY <3>2, <4>1, <6>2
          <6> QED
            BY <1>0, <6>3, BytesRead
        <5> QED
          BY <5>1
      <4>4. 1 + 1 .. (valid - 1) - 1 = 2 .. valid - 2
        BY <4>1
      <4> HIDE DEF free
      <4> QED
        BY <4>1, <4>2, <4>3, <4>4 DEF NamesHalf
    <3>7. parsed.at # Fail => parsed.at = valid
      BY <3>1, <3>4 DEF AgreeFrom
    <3> QED
      BY <3>6, <3>7
  <2> QED
    BY <2>1, <2>2
<1> QED
  BY <1>3, Zenon DEF StringsAgree, d

\* Texts and bytes stay texts and bytes.
LEMMA TextsStay == LexemesSpec => []AnyText
<1>1. AnyText /\ [Rewrite]_<<text, bytes>> => AnyText'
  BY DEF AnyText, Rewrite
<1> QED
  BY <1>1, PTL DEF LexemesSpec

\* Decoder and validator take the same strings, but for a lone half of a surrogate
\* pair, whatever the text (client_data.rs parse_string, validate_string).
THEOREM DecoderAndValidatorAgree == LexemesSpec => []StringsAgree
<1>1. AnyText => StringsAgree
  BY StringsAreOne DEF AnyText
<1> QED
  BY <1>1, TextsStay, PTL

-----------------------------------------------------------------------------
(* Escapes. *)

\* A code point in two bytes.
LEMMA TwoBytes ==
  ASSUME NEW cp \in Nat, cp >= 128, cp < 2048
  PROVE  Utf8Char(Utf8(cp)) /\ Number(Utf8(cp)) = cp
<1> DEFINE a == cp \div 64
           b == cp % 64
<1>1. a \in Int /\ b \in Int /\ a >= 2 /\ a <= 31 /\ b >= 0 /\ b <= 63 /\ cp = 64 * a + b
  BY SMT
<1>2. Utf8(cp) = <<192 + a, 128 + b>>
  BY SMT DEF Utf8
<1> HIDE DEF a, b
<1>3. 192 + a \in 194 .. 223 /\ 128 + b \in Continuation
  BY <1>1, SMT DEF Continuation
<1>4. (192 + a) % 32 = a /\ (128 + b) % 64 = b
  BY <1>1, SMT
<1> DEFINE u == Utf8(cp)
<1>5. Len(u) = 2 /\ u[1] = 192 + a /\ u[2] = 128 + b
  BY <1>2
<1> HIDE DEF u
<1>6. Utf8Char(u)
  BY <1>3, <1>5, SMT DEF Utf8Char
<1>7. Number(u) = 64 * (u[1] % 32) + (u[2] % 64)
  BY <1>5, SMT DEF Number
<1>8. Number(u) = cp
  BY <1>1, <1>4, <1>5, <1>7, SMT
<1> QED
  BY <1>6, <1>8 DEF u

\* A code point in three bytes.
LEMMA ThreeBytes ==
  ASSUME NEW cp, IsCodePoint(cp), cp >= 2048, cp \notin SURROGATES
  PROVE  Utf8Char(Utf8(cp)) /\ Number(Utf8(cp)) = cp
<1> DEFINE a == cp \div 4096
           b == (cp \div 64) % 64
           c == cp % 64
<1>0. cp \in Nat /\ cp <= 65535
  BY DEF IsCodePoint
<1>1. /\ a \in Int /\ b \in Int /\ c \in Int /\ a >= 0 /\ a <= 15 /\ b >= 0 /\ b <= 63
      /\ c >= 0 /\ c <= 63
  BY <1>0, SMT
<1>2. cp = 4096 * a + 64 * b + c
  BY <1>0, SMT
<1>3. Utf8(cp) = <<224 + a, 128 + b, 128 + c>>
  BY <1>0, SMT DEF Utf8
<1>4. cp < 55296 \/ cp > 57343
  BY <1>0, SMT DEF SURROGATES
<1> HIDE DEF a, b, c
<1>5. 224 + a \in 224 .. 239 /\ 128 + b \in Continuation /\ 128 + c \in Continuation
  BY <1>1, SMT DEF Continuation
<1>6. (224 + a = 224 => 128 + b >= 160) /\ (224 + a = 237 => 128 + b < 160)
  BY <1>1, <1>2, <1>4, SMT
<1>7. (224 + a) % 16 = a /\ (128 + b) % 64 = b /\ (128 + c) % 64 = c
  BY <1>1, SMT
<1> DEFINE u == Utf8(cp)
<1>8. Len(u) = 3 /\ u[1] = 224 + a /\ u[2] = 128 + b /\ u[3] = 128 + c
  BY <1>3
<1> HIDE DEF u
<1>9. Utf8Char(u)
  BY <1>5, <1>6, <1>8 DEF Utf8Char
<1>10. Number(u) = 4096 * (u[1] % 16) + 64 * (u[2] % 64) + (u[3] % 64)
  BY <1>8, SMT DEF Number
<1>11. Number(u) = cp
  BY <1>1, <1>2, <1>7, <1>8, <1>10, SMT
<1> QED
  BY <1>9, <1>11 DEF u

\* A code point in its bytes.
LEMMA Utf8Numbers ==
  ASSUME NEW cp, IsCodePoint(cp), cp \notin SURROGATES
  PROVE  Utf8Char(Utf8(cp)) /\ Number(Utf8(cp)) = cp
<1>0. cp \in Nat
  BY DEF IsCodePoint
<1>1. CASE cp < 128
  <2>1. Utf8(cp) = <<cp>>
    BY <1>0, <1>1, SMT DEF Utf8
  <2> DEFINE u == Utf8(cp)
  <2>2. Len(u) = 1 /\ u[1] = cp
    BY <2>1
  <2> HIDE DEF u
  <2>3. Utf8Char(u) /\ Number(u) = cp
    BY <1>1, <2>2, SMT DEF Utf8Char, Number
  <2> QED
    BY <2>3 DEF u
<1>2. CASE cp >= 128 /\ cp < 2048
  BY <1>0, <1>2, TwoBytes
<1>3. CASE cp >= 2048
  BY <1>3, ThreeBytes
<1>4. cp < 128 \/ (cp >= 128 /\ cp < 2048) \/ cp >= 2048
  BY <1>0, SMT
<1> QED
  BY <1>1, <1>2, <1>3, <1>4, SMT

\* Four hexadecimal digits between the quotes of an escape.
LEMMA EscapeRead ==
  ASSUME NEW s \in Seq(Byte), Len(s) = 4, IsHex(s, 1), NEW d,
         d = <<Quote, Backslash, LowerU>> \o s \o <<Quote>>
  PROVE  /\ d \in Seq(Byte) /\ Len(d) = 8
         /\ At(d, 1) = Quote /\ At(d, 2) = Backslash /\ At(d, 3) = LowerU
         /\ IsHex(d, 4) /\ CodePoint(d, 4) = CodePoint(s, 1)
         /\ At(d, 8) = Quote
<1> DEFINE h == <<Quote, Backslash, LowerU>>
<1>1. /\ h \in Seq(Byte) /\ Len(h) = 3 /\ h[1] = Quote /\ h[2] = Backslash /\ h[3] = LowerU
      /\ <<Quote>> \in Seq(Byte) /\ Len(<<Quote>>) = 1 /\ <<Quote>>[1] = Quote
  BY DEF Byte, Quote, Backslash, LowerU
<1> HIDE DEF h
<1>2. /\ h \o s \in Seq(Byte) /\ Len(h \o s) = 7
      /\ \A i \in 1 .. 7 : (h \o s)[i] = IF i <= 3 THEN h[i] ELSE s[i - 3]
  <2>1. /\ h \o s \in Seq(Byte) /\ Len(h \o s) = Len(h) + Len(s)
        /\ \A i \in 1 .. Len(h) + Len(s) : (h \o s)[i] = IF i <= Len(h) THEN h[i] ELSE s[i - Len(h)]
    BY <1>1, ConcatProperties, Zenon
  <2>2. Len(h) + Len(s) = 7
    BY <1>1
  <2> QED
    BY <1>1, <2>1, <2>2, Zenon
<1>3. d \in Seq(Byte) /\ Len(d) = 8
  BY <1>1, <1>2 DEF h
<1>4. \A i \in 1 .. 7 : d[i] = (h \o s)[i]
  BY <1>1, <1>2 DEF h
<1>5. d[1] = Quote /\ d[2] = Backslash /\ d[3] = LowerU
  BY <1>1, <1>2, <1>4
<1>6. d[4] = s[1] /\ d[5] = s[2] /\ d[6] = s[3] /\ d[7] = s[4]
  <2>1. \A i \in 4 .. 7 : i \in 1 .. 7 /\ ~ (i <= 3)
    OBVIOUS
  <2>2. \A i \in 4 .. 7 : d[i] = s[i - 3]
    BY <1>2, <1>4, <2>1, Zenon
  <2>3. 4 - 3 = 1 /\ 5 - 3 = 2 /\ 6 - 3 = 3 /\ 7 - 3 = 4
    OBVIOUS
  <2>4. 4 \in 4 .. 7 /\ 5 \in 4 .. 7 /\ 6 \in 4 .. 7 /\ 7 \in 4 .. 7
    OBVIOUS
  <2> HIDE DEF h
  <2>5. d[4] = s[4 - 3] /\ d[5] = s[5 - 3] /\ d[6] = s[6 - 3] /\ d[7] = s[7 - 3]
    BY <2>2, <2>4, Zenon
  <2> QED
    BY <2>3, <2>5, Zenon
<1>7. d[8] = Quote
  <2>1. d = (h \o s) \o <<Quote>>
    BY DEF h
  <2> QED
    BY <1>1, <1>2, <2>1
<1>8. /\ At(d, 1) = Quote /\ At(d, 2) = Backslash /\ At(d, 3) = LowerU /\ At(d, 8) = Quote
      /\ At(d, 4) = At(s, 1) /\ At(d, 5) = At(s, 2) /\ At(d, 6) = At(s, 3) /\ At(d, 7) = At(s, 4)
  <2>1. DOMAIN d = 1 .. 8 /\ DOMAIN s = 1 .. 4
    BY <1>3
  <2> QED
    BY <1>5, <1>6, <1>7, <2>1 DEF At
<1>9. IsHex(d, 4)
  <2>1. ASSUME NEW k \in 0 .. 3 PROVE At(d, 4 + k) = At(s, 1 + k)
    <3>1. \/ (4 + k = 4 /\ 1 + k = 1) \/ (4 + k = 5 /\ 1 + k = 2)
          \/ (4 + k = 6 /\ 1 + k = 3) \/ (4 + k = 7 /\ 1 + k = 4)
      OBVIOUS
    <3> QED
      BY <1>8, <3>1, Zenon
  <2> QED
    BY <2>1 DEF IsHex
<1>10. CodePoint(d, 4) = CodePoint(s, 1)
  BY <1>8 DEF CodePoint
<1> QED
  BY <1>3, <1>8, <1>9, <1>10, Zenon

\* Escapes spell what they number, as EscapesSpellUtf8 says.
LEMMA EscapesAreSpelled ==
  ASSUME text \in Seq(Byte)
  PROVE  EscapesSpellUtf8
<1> SUFFICES ASSUME Len(text) = 4, IsHex(text, 1)
             PROVE  LET parsed == ParseString(<<Quote, Backslash, LowerU>> \o text \o <<Quote>>, 1)
                        cp == CodePoint(text, 1)
                    IN  IF cp \in SURROGATES THEN parsed.at = Fail
                        ELSE parsed.at = 9 /\ Utf8Char(parsed.out) /\ Number(parsed.out) = cp
  BY Zenon DEF EscapesSpellUtf8
<1> DEFINE d == <<Quote, Backslash, LowerU>> \o text \o <<Quote>>
           cp == CodePoint(text, 1)
<1>1. /\ d \in Seq(Byte) /\ Len(d) = 8
      /\ At(d, 1) = Quote /\ At(d, 2) = Backslash /\ At(d, 3) = LowerU
      /\ IsHex(d, 4) /\ CodePoint(d, 4) = cp
      /\ At(d, 8) = Quote
  BY EscapeRead
<1> HIDE DEF d, cp
<1>2. PICK e, o : /\ EndSolves(e, d) /\ OutSolves(o, d)
                  /\ ParseString(d, 1) = IF At(d, 1) = Quote THEN [at |-> e[1 + 1], out |-> o[1 + 1]]
                                         ELSE BadString
  BY <1>1, StringsRead, Zenon
<1>3. ParseString(d, 1).at = e[2] /\ ParseString(d, 1).out = o[2]
  BY <1>1, <1>2
<1>4. \A j \in 0 .. 9 :
        /\ e[j] = IF j = Fail THEN Fail ELSE IF At(d, j) = Quote THEN j + 1
                  ELSE e[ParsedUnit(d, j).at]
        /\ o[j] = IF j = Fail \/ At(d, j) = Quote THEN <<>>
                  ELSE ParsedUnit(d, j).out \o o[ParsedUnit(d, j).at]
  <2>1. Len(d) + 1 = 9
    BY <1>1
  <2> QED
    BY <1>2, <2>1, Zenon DEF EndSolves, OutSolves
<1>5. /\ e[Fail] = Fail
      /\ e[2] = e[ParsedUnit(d, 2).at] /\ o[2] = ParsedUnit(d, 2).out \o o[ParsedUnit(d, 2).at]
      /\ e[8] = 9 /\ o[8] = <<>>
  <2>1. Fail \in 0 .. 9 /\ 2 \in 0 .. 9 /\ 8 \in 0 .. 9 /\ 2 # Fail /\ 8 # Fail /\ 8 + 1 = 9
    BY DEF Fail
  <2>2. At(d, 2) # Quote
    BY <1>1 DEF Backslash, Quote
  <2> QED
    BY <1>1, <1>4, <2>1, <2>2
<1>6. 2 \in 1 .. Len(d) + 1 /\ 2 + 2 = 4 /\ 2 + 1 = 3 /\ 2 + 6 = 8
  BY <1>1
<1>7. IsUnicode(d, 2) /\ (IsHalf(d, 2) <=> cp \in SURROGATES)
  BY <1>1, <1>6 DEF IsUnicode, IsHalf
<1>8. ~ IsPlain(d, 2) /\ ~ IsShort(d, 2) /\ IsCodePoint(cp)
  BY <1>1, <1>6, <1>7, UnitsRead
<1>9. CASE cp \in SURROGATES
  <2>1. ParsedUnit(d, 2).at = Fail
    BY <1>1, <1>6, <1>7, <1>9, TurnsLead
  <2>2. ParseString(d, 1).at = Fail
    BY <1>3, <1>5, <2>1
  <2> QED
    BY <1>9, <2>2 DEF d, cp
<1>10. CASE cp \notin SURROGATES
  <2>1. ParsedUnit(d, 2) = [at |-> 8, out |-> Utf8(cp)]
    BY <1>1, <1>6, <1>7, <1>8, <1>10, UnitsRead
  <2>2. Utf8(cp) \in Seq(Byte)
    BY <1>8, Utf8IsBytes
  <2>3. Utf8(cp) \o <<>> = Utf8(cp)
    BY <2>2
  <2>4. ParseString(d, 1).at = 9 /\ ParseString(d, 1).out = Utf8(cp)
    <3>1. ParsedUnit(d, 2).at = 8 /\ ParsedUnit(d, 2).out = Utf8(cp)
      BY <2>1
    <3>2. e[2] = 9 /\ o[2] = Utf8(cp)
      BY <1>5, <2>3, <3>1, Zenon
    <3> QED
      BY <1>3, <3>2, Zenon
  <2>5. Utf8Char(Utf8(cp)) /\ Number(Utf8(cp)) = cp
    BY <1>8, <1>10, Utf8Numbers
  <2>6. ParseString(d, 1).at = 9 /\ Utf8Char(ParseString(d, 1).out) /\ Number(ParseString(d, 1).out) = cp
    BY <2>4, <2>5
  <2> QED
    BY <1>10, <2>6 DEF d, cp
<1> QED
  BY <1>9, <1>10

\* A \u escape decodes to the shortest UTF-8 of the code point that any four digits
\* number, and to nothing when they number half of a pair (client_data.rs hex4, push_utf8).
THEOREM EscapesAreUtf8 == LexemesSpec => []EscapesSpellUtf8
<1>1. AnyText => EscapesSpellUtf8
  BY EscapesAreSpelled DEF AnyText
<1> QED
  BY <1>1, TextsStay, PTL

-----------------------------------------------------------------------------
(* Challenges. *)

\* A byte of the challenge, or the zero that it is filled up with.
Padded(i) == IF i \in 1 .. Len(bytes) THEN bytes[i] ELSE 0

\* The k-th character of InBits, wherever it ends.
Six(k) ==
  B64URL(32 * Bit(6 * k - 5) + 16 * Bit(6 * k - 4) + 8 * Bit(6 * k - 3)
         + 4 * Bit(6 * k - 2) + 2 * Bit(6 * k - 1) + Bit(6 * k))

\* So many of them, after the first m.
Run(m, p) == [k \in 1 .. p |-> Six(m + k)]

\* The eight bits of a byte.
LEMMA BitsOfByte ==
  ASSUME NEW x \in Nat, x <= 255
  PROVE  /\ x \div 128 \in Nat /\ (x \div 128) % 2 = x \div 128
         /\ x \div 64 = 2 * (x \div 128) + ((x \div 64) % 2)
         /\ x \div 32 = 2 * (x \div 64) + ((x \div 32) % 2)
         /\ x \div 16 = 2 * (x \div 32) + ((x \div 16) % 2)
         /\ x \div 8 = 2 * (x \div 16) + ((x \div 8) % 2)
         /\ x \div 4 = 2 * (x \div 8) + ((x \div 4) % 2)
         /\ x \div 2 = 2 * (x \div 4) + ((x \div 2) % 2)
         /\ x = 2 * (x \div 2) + (x % 2)
<1>1. x \div 128 \in Nat /\ (x \div 128) % 2 = x \div 128
  BY SMT
<1>2. x \div 64 = 2 * (x \div 128) + ((x \div 64) % 2)
  BY SMT
<1>3. x \div 32 = 2 * (x \div 64) + ((x \div 32) % 2)
  BY SMT
<1>4. x \div 16 = 2 * (x \div 32) + ((x \div 16) % 2)
  BY SMT
<1>5. x \div 8 = 2 * (x \div 16) + ((x \div 8) % 2)
  BY SMT
<1>6. x \div 4 = 2 * (x \div 8) + ((x \div 4) % 2)
  BY SMT
<1>7. x \div 2 = 2 * (x \div 4) + ((x \div 2) % 2)
  BY SMT
<1>8. x = 2 * (x \div 2) + (x % 2)
  BY SMT
<1> QED
  BY <1>1, <1>2, <1>3, <1>4, <1>5, <1>6, <1>7, <1>8, SMT

\* The heads and tails of a byte, in bits.
LEMMA PartsOfByte ==
  ASSUME NEW x \in Nat, x <= 255,
         NEW a, NEW b, NEW c, NEW d, NEW e, NEW f, NEW g, NEW h,
         a = (x \div 128) % 2, b = (x \div 64) % 2, c = (x \div 32) % 2, d = (x \div 16) % 2,
         e = (x \div 8) % 2, f = (x \div 4) % 2, g = (x \div 2) % 2, h = x % 2
  PROVE  /\ a \in 0 .. 1 /\ b \in 0 .. 1 /\ c \in 0 .. 1 /\ d \in 0 .. 1
         /\ e \in 0 .. 1 /\ f \in 0 .. 1 /\ g \in 0 .. 1 /\ h \in 0 .. 1
         /\ x = 128 * a + 64 * b + 32 * c + 16 * d + 8 * e + 4 * f + 2 * g + h
<1>1. /\ a \in 0 .. 1 /\ b \in 0 .. 1 /\ c \in 0 .. 1 /\ d \in 0 .. 1
      /\ e \in 0 .. 1 /\ f \in 0 .. 1 /\ g \in 0 .. 1 /\ h \in 0 .. 1
  BY SMT
<1> DEFINE x1 == x \div 2
           x2 == x \div 4
           x3 == x \div 8
           x4 == x \div 16
           x5 == x \div 32
           x6 == x \div 64
           x7 == x \div 128
<1>2. /\ x7 = a /\ x6 = 2 * x7 + b /\ x5 = 2 * x6 + c /\ x4 = 2 * x5 + d /\ x3 = 2 * x4 + e
      /\ x2 = 2 * x3 + f /\ x1 = 2 * x2 + g /\ x = 2 * x1 + h
  BY BitsOfByte, SMT
<1>3. /\ x1 \in Int /\ x2 \in Int /\ x3 \in Int /\ x4 \in Int /\ x5 \in Int /\ x6 \in Int
      /\ x7 \in Int
  BY SMT
<1> HIDE DEF x1, x2, x3, x4, x5, x6, x7
<1>4. /\ a \in Int /\ b \in Int /\ c \in Int /\ d \in Int
      /\ e \in Int /\ f \in Int /\ g \in Int /\ h \in Int
  BY <1>1
<1>5. x4 = 8 * a + 4 * b + 2 * c + d
  BY <1>2, <1>3, <1>4, SMT
<1>6. x = 16 * x4 + 8 * e + 4 * f + 2 * g + h
  BY <1>2, <1>3, <1>4, SMT
<1>7. x = 128 * a + 64 * b + 32 * c + 16 * d + 8 * e + 4 * f + 2 * g + h
  BY <1>3, <1>4, <1>5, <1>6, SMT
<1> QED
  BY <1>1, <1>7

\* Bytes of a challenge are bytes, the zeros at its end included.
LEMMA PaddedIsByte ==
  ASSUME bytes \in Seq(Byte), NEW i
  PROVE  Padded(i) \in Nat /\ Padded(i) <= 255
<1>1. Padded(i) \in Byte
  <2>1. CASE i \in 1 .. Len(bytes)
    <3>1. bytes[i] \in Byte
      BY <2>1
    <3> QED
      BY <2>1, <3>1 DEF Padded
  <2>2. CASE i \notin 1 .. Len(bytes)
    BY <2>2 DEF Padded, Byte
  <2> QED
    BY <2>1, <2>2
<1>2. \A x \in Byte : x \in Nat /\ x <= 255
  BY SMT DEF Byte
<1> QED
  BY <1>1, <1>2, SMT

\* A bit of the challenge is a bit of the byte it belongs to.
LEMMA BitRead ==
  ASSUME bytes \in Seq(Byte), NEW m \in Nat, m > 0
  PROVE  /\ Bit(8 * m - 7) = (Padded(m) \div 128) % 2
         /\ Bit(8 * m - 6) = (Padded(m) \div 64) % 2
         /\ Bit(8 * m - 5) = (Padded(m) \div 32) % 2
         /\ Bit(8 * m - 4) = (Padded(m) \div 16) % 2
         /\ Bit(8 * m - 3) = (Padded(m) \div 8) % 2
         /\ Bit(8 * m - 2) = (Padded(m) \div 4) % 2
         /\ Bit(8 * m - 1) = (Padded(m) \div 2) % 2
         /\ Bit(8 * m) = Padded(m) % 2
<1> DEFINE n == Len(bytes)
<1>0. n \in Nat
  OBVIOUS
<1>1. /\ ((8 * m - 7) - 1) \div 8 = m - 1 /\ ((8 * m - 7) - 1) % 8 = 0
      /\ ((8 * m - 6) - 1) \div 8 = m - 1 /\ ((8 * m - 6) - 1) % 8 = 1
      /\ ((8 * m - 5) - 1) \div 8 = m - 1 /\ ((8 * m - 5) - 1) % 8 = 2
      /\ ((8 * m - 4) - 1) \div 8 = m - 1 /\ ((8 * m - 4) - 1) % 8 = 3
      /\ ((8 * m - 3) - 1) \div 8 = m - 1 /\ ((8 * m - 3) - 1) % 8 = 4
      /\ ((8 * m - 2) - 1) \div 8 = m - 1 /\ ((8 * m - 2) - 1) % 8 = 5
      /\ ((8 * m - 1) - 1) \div 8 = m - 1 /\ ((8 * m - 1) - 1) % 8 = 6
      /\ (8 * m - 1) \div 8 = m - 1 /\ (8 * m - 1) % 8 = 7
      /\ (m - 1) + 1 = m
  BY SMT
<1>2. /\ 2 ^ (7 - 0) = 128 /\ 2 ^ (7 - 1) = 64 /\ 2 ^ (7 - 2) = 32 /\ 2 ^ (7 - 3) = 16
      /\ 2 ^ (7 - 4) = 8 /\ 2 ^ (7 - 5) = 4 /\ 2 ^ (7 - 6) = 2 /\ 2 ^ (7 - 7) = 1
  BY SMT
<1> HIDE DEF n
<1>3. CASE m <= n
  <2>1. /\ ~ (8 * m - 7 > 8 * n) /\ ~ (8 * m - 6 > 8 * n) /\ ~ (8 * m - 5 > 8 * n)
        /\ ~ (8 * m - 4 > 8 * n) /\ ~ (8 * m - 3 > 8 * n) /\ ~ (8 * m - 2 > 8 * n)
        /\ ~ (8 * m - 1 > 8 * n) /\ ~ (8 * m > 8 * n)
    BY <1>0, <1>3, SMT
  <2>2. Padded(m) = bytes[m]
    BY <1>0, <1>3 DEF Padded, n
  <2>3. bytes[m] \div 1 = bytes[m]
    <3>1. bytes[m] \in Nat
      BY <2>2, PaddedIsByte
    <3> QED
      BY <3>1, SMT
  <2>4. Bit(8 * m - 7) = (bytes[m] \div 128) % 2
    <3>1. Bit(8 * m - 7) = (bytes[(((8 * m - 7) - 1) \div 8) + 1] \div 2 ^ (7 - (((8 * m - 7) - 1) % 8))) % 2
      BY <2>1, Zenon DEF Bit, n
    <3> QED
      BY <1>1, <1>2, <3>1, Zenon
  <2>5. Bit(8 * m - 6) = (bytes[m] \div 64) % 2
    <3>1. Bit(8 * m - 6) = (bytes[(((8 * m - 6) - 1) \div 8) + 1] \div 2 ^ (7 - (((8 * m - 6) - 1) % 8))) % 2
      BY <2>1, Zenon DEF Bit, n
    <3> QED
      BY <1>1, <1>2, <3>1, Zenon
  <2>6. Bit(8 * m - 5) = (bytes[m] \div 32) % 2
    <3>1. Bit(8 * m - 5) = (bytes[(((8 * m - 5) - 1) \div 8) + 1] \div 2 ^ (7 - (((8 * m - 5) - 1) % 8))) % 2
      BY <2>1, Zenon DEF Bit, n
    <3> QED
      BY <1>1, <1>2, <3>1, Zenon
  <2>7. Bit(8 * m - 4) = (bytes[m] \div 16) % 2
    <3>1. Bit(8 * m - 4) = (bytes[(((8 * m - 4) - 1) \div 8) + 1] \div 2 ^ (7 - (((8 * m - 4) - 1) % 8))) % 2
      BY <2>1, Zenon DEF Bit, n
    <3> QED
      BY <1>1, <1>2, <3>1, Zenon
  <2>8. Bit(8 * m - 3) = (bytes[m] \div 8) % 2
    <3>1. Bit(8 * m - 3) = (bytes[(((8 * m - 3) - 1) \div 8) + 1] \div 2 ^ (7 - (((8 * m - 3) - 1) % 8))) % 2
      BY <2>1, Zenon DEF Bit, n
    <3> QED
      BY <1>1, <1>2, <3>1, Zenon
  <2>9. Bit(8 * m - 2) = (bytes[m] \div 4) % 2
    <3>1. Bit(8 * m - 2) = (bytes[(((8 * m - 2) - 1) \div 8) + 1] \div 2 ^ (7 - (((8 * m - 2) - 1) % 8))) % 2
      BY <2>1, Zenon DEF Bit, n
    <3> QED
      BY <1>1, <1>2, <3>1, Zenon
  <2>10. Bit(8 * m - 1) = (bytes[m] \div 2) % 2
    <3>1. Bit(8 * m - 1) = (bytes[(((8 * m - 1) - 1) \div 8) + 1] \div 2 ^ (7 - (((8 * m - 1) - 1) % 8))) % 2
      BY <2>1, Zenon DEF Bit, n
    <3> QED
      BY <1>1, <1>2, <3>1, Zenon
  <2>11. Bit(8 * m) = (bytes[m] \div 1) % 2
    <3>1. Bit(8 * m) = (bytes[((8 * m - 1) \div 8) + 1] \div 2 ^ (7 - ((8 * m - 1) % 8))) % 2
      BY <2>1, Zenon DEF Bit, n
    <3> QED
      BY <1>1, <1>2, <3>1, Zenon
  <2> QED
    BY <2>2, <2>3, <2>4, <2>5, <2>6, <2>7, <2>8, <2>9, <2>10, <2>11
<1>4. CASE m > n
  <2>1. /\ 8 * m - 7 > 8 * n /\ 8 * m - 6 > 8 * n /\ 8 * m - 5 > 8 * n
        /\ 8 * m - 4 > 8 * n /\ 8 * m - 3 > 8 * n /\ 8 * m - 2 > 8 * n
        /\ 8 * m - 1 > 8 * n /\ 8 * m > 8 * n
    BY <1>0, <1>4, SMT
  <2>2. Padded(m) = 0
    BY <1>0, <1>4 DEF Padded, n
  <2>3. /\ Bit(8 * m - 7) = 0 /\ Bit(8 * m - 6) = 0 /\ Bit(8 * m - 5) = 0 /\ Bit(8 * m - 4) = 0
        /\ Bit(8 * m - 3) = 0 /\ Bit(8 * m - 2) = 0 /\ Bit(8 * m - 1) = 0 /\ Bit(8 * m) = 0
    BY <2>1 DEF Bit, n
  <2> QED
    BY <2>2, <2>3, SMT
<1> QED
  BY <1>0, <1>3, <1>4, SMT

\* Three bytes in four characters: the digits to the base 64 of their number are its
\* bits, six by six.
LEMMA FourSextets ==
  ASSUME NEW x \in Nat, NEW y \in Nat, NEW z \in Nat, x <= 255, y <= 255, z <= 255
  PROVE  LET n == x * 65536 + y * 256 + z
         IN  /\ (n \div 262144) % 64 = x \div 4
             /\ (n \div 4096) % 64 = 16 * (x % 4) + (y \div 16)
             /\ (n \div 64) % 64 = 4 * (y % 16) + (z \div 64)
             /\ n % 64 = z % 64
<1> DEFINE x1 == x \div 4
           x0 == x % 4
           y1 == y \div 16
           y0 == y % 16
           z1 == z \div 64
           z0 == z % 64
           n == x * 65536 + y * 256 + z
<1>1. /\ x1 \in Nat /\ x1 <= 63 /\ x0 \in Nat /\ x0 <= 3 /\ x = 4 * x1 + x0
      /\ y1 \in Nat /\ y1 <= 15 /\ y0 \in Nat /\ y0 <= 15 /\ y = 16 * y1 + y0
      /\ z1 \in Nat /\ z1 <= 3 /\ z0 \in Nat /\ z0 <= 63 /\ z = 64 * z1 + z0
  BY SMT
<1>2. n = x * 65536 + y * 256 + z
  OBVIOUS
<1> HIDE DEF x1, x0, y1, y0, z1, z0, n
<1> DEFINE q1 == 16 * x0 + y1
           q2 == 4 * y0 + z1
<1>3. q1 \in Nat /\ q1 <= 63 /\ q2 \in Nat /\ q2 <= 63
  BY <1>1, SMT
<1>4. n = 262144 * x1 + 4096 * q1 + 64 * q2 + z0
  BY <1>1, <1>2, SMT
<1> HIDE DEF q1, q2
<1>5. n \in Nat
  BY <1>1, <1>3, <1>4, SMT
<1>6. n % 64 = z0
  BY <1>1, <1>3, <1>4, SMT
<1>7. n \div 64 = 4096 * x1 + 64 * q1 + q2
  BY <1>1, <1>3, <1>4, SMT
<1>8. (n \div 64) % 64 = q2
  BY <1>1, <1>3, <1>7, SMT
<1>9. n \div 4096 = 64 * x1 + q1
  BY <1>1, <1>3, <1>4, SMT
<1>10. (n \div 4096) % 64 = q1
  BY <1>1, <1>3, <1>9, SMT
<1>11. n \div 262144 = x1
  BY <1>1, <1>3, <1>4, SMT
<1>12. x1 % 64 = x1
  BY <1>1, SMT
<1> QED
  BY <1>6, <1>8, <1>10, <1>11, <1>12 DEF x1, x0, y1, y0, z1, z0, n, q1, q2

\* The parts of a byte that its characters take.
LEMMA PartsInBits ==
  ASSUME NEW x \in Nat, x <= 255
  PROVE  /\ x \div 4 = 32 * ((x \div 128) % 2) + 16 * ((x \div 64) % 2) + 8 * ((x \div 32) % 2)
                         + 4 * ((x \div 16) % 2) + 2 * ((x \div 8) % 2) + ((x \div 4) % 2)
         /\ x % 4 = 2 * ((x \div 2) % 2) + (x % 2)
         /\ x \div 16 = 8 * ((x \div 128) % 2) + 4 * ((x \div 64) % 2) + 2 * ((x \div 32) % 2)
                          + ((x \div 16) % 2)
         /\ x % 16 = 8 * ((x \div 8) % 2) + 4 * ((x \div 4) % 2) + 2 * ((x \div 2) % 2) + (x % 2)
         /\ x \div 64 = 2 * ((x \div 128) % 2) + ((x \div 64) % 2)
         /\ x % 64 = 32 * ((x \div 32) % 2) + 16 * ((x \div 16) % 2) + 8 * ((x \div 8) % 2)
                       + 4 * ((x \div 4) % 2) + 2 * ((x \div 2) % 2) + (x % 2)
<1> DEFINE a == (x \div 128) % 2
           b == (x \div 64) % 2
           c == (x \div 32) % 2
           d == (x \div 16) % 2
           e == (x \div 8) % 2
           f == (x \div 4) % 2
           g == (x \div 2) % 2
           h == x % 2
<1>1. /\ a \in 0 .. 1 /\ b \in 0 .. 1 /\ c \in 0 .. 1 /\ d \in 0 .. 1
      /\ e \in 0 .. 1 /\ f \in 0 .. 1 /\ g \in 0 .. 1 /\ h \in 0 .. 1
      /\ x = 128 * a + 64 * b + 32 * c + 16 * d + 8 * e + 4 * f + 2 * g + h
  BY PartsOfByte
<1> HIDE DEF a, b, c, d, e, f, g, h
<1>2. x \div 4 = 32 * a + 16 * b + 8 * c + 4 * d + 2 * e + f /\ x % 4 = 2 * g + h
  BY <1>1, SMT
<1>3. x \div 16 = 8 * a + 4 * b + 2 * c + d /\ x % 16 = 8 * e + 4 * f + 2 * g + h
  BY <1>1, SMT
<1>4. x \div 64 = 2 * a + b /\ x % 64 = 32 * c + 16 * d + 8 * e + 4 * f + 2 * g + h
  BY <1>1, SMT
<1> QED
  BY <1>2, <1>3, <1>4 DEF a, b, c, d, e, f, g, h

\* Each of its bits is an integer.
LEMMA BitsAreIntegers ==
  ASSUME NEW x \in Nat, x <= 255
  PROVE  /\ (x \div 128) % 2 \in Int /\ (x \div 64) % 2 \in Int /\ (x \div 32) % 2 \in Int
         /\ (x \div 16) % 2 \in Int /\ (x \div 8) % 2 \in Int /\ (x \div 4) % 2 \in Int
         /\ (x \div 2) % 2 \in Int /\ x % 2 \in Int
  BY SMT

\* The six bits of a character.
SixBits(k) ==
  32 * Bit(6 * k - 5) + 16 * Bit(6 * k - 4) + 8 * Bit(6 * k - 3)
    + 4 * Bit(6 * k - 2) + 2 * Bit(6 * k - 1) + Bit(6 * k)

\* Four characters hold three bytes.
LEMMA SixBitsRead ==
  ASSUME bytes \in Seq(Byte), NEW t \in Nat, NEW x, NEW y, NEW z,
         x = Padded(3 * t + 1), y = Padded(3 * t + 2), z = Padded(3 * t + 3)
  PROVE  /\ SixBits(4 * t + 1) = x \div 4
         /\ SixBits(4 * t + 2) = 16 * (x % 4) + (y \div 16)
         /\ SixBits(4 * t + 3) = 4 * (y % 16) + (z \div 64)
         /\ SixBits(4 * t + 4) = z % 64
<1>0. /\ 3 * t + 1 \in Nat /\ 3 * t + 1 > 0 /\ 3 * t + 2 \in Nat /\ 3 * t + 2 > 0
      /\ 3 * t + 3 \in Nat /\ 3 * t + 3 > 0
  BY SMT
<1>1. /\ x \in Nat /\ x <= 255 /\ y \in Nat /\ y <= 255 /\ z \in Nat /\ z <= 255
  BY PaddedIsByte
<1>2. /\ 6 * (4 * t + 1) - 5 = 8 * (3 * t + 1) - 7 /\ 6 * (4 * t + 1) - 4 = 8 * (3 * t + 1) - 6
      /\ 6 * (4 * t + 1) - 3 = 8 * (3 * t + 1) - 5 /\ 6 * (4 * t + 1) - 2 = 8 * (3 * t + 1) - 4
      /\ 6 * (4 * t + 1) - 1 = 8 * (3 * t + 1) - 3 /\ 6 * (4 * t + 1) = 8 * (3 * t + 1) - 2
  BY SMT
<1>3. /\ 6 * (4 * t + 2) - 5 = 8 * (3 * t + 1) - 1 /\ 6 * (4 * t + 2) - 4 = 8 * (3 * t + 1)
      /\ 6 * (4 * t + 2) - 3 = 8 * (3 * t + 2) - 7 /\ 6 * (4 * t + 2) - 2 = 8 * (3 * t + 2) - 6
      /\ 6 * (4 * t + 2) - 1 = 8 * (3 * t + 2) - 5 /\ 6 * (4 * t + 2) = 8 * (3 * t + 2) - 4
  BY SMT
<1>4. /\ 6 * (4 * t + 3) - 5 = 8 * (3 * t + 2) - 3 /\ 6 * (4 * t + 3) - 4 = 8 * (3 * t + 2) - 2
      /\ 6 * (4 * t + 3) - 3 = 8 * (3 * t + 2) - 1 /\ 6 * (4 * t + 3) - 2 = 8 * (3 * t + 2)
      /\ 6 * (4 * t + 3) - 1 = 8 * (3 * t + 3) - 7 /\ 6 * (4 * t + 3) = 8 * (3 * t + 3) - 6
  BY SMT
<1>5. /\ 6 * (4 * t + 4) - 5 = 8 * (3 * t + 3) - 5 /\ 6 * (4 * t + 4) - 4 = 8 * (3 * t + 3) - 4
      /\ 6 * (4 * t + 4) - 3 = 8 * (3 * t + 3) - 3 /\ 6 * (4 * t + 4) - 2 = 8 * (3 * t + 3) - 2
      /\ 6 * (4 * t + 4) - 1 = 8 * (3 * t + 3) - 1 /\ 6 * (4 * t + 4) = 8 * (3 * t + 3)
  BY SMT
<1>6. /\ Bit(8 * (3 * t + 1) - 7) = (x \div 128) % 2 /\ Bit(8 * (3 * t + 1) - 6) = (x \div 64) % 2
      /\ Bit(8 * (3 * t + 1) - 5) = (x \div 32) % 2 /\ Bit(8 * (3 * t + 1) - 4) = (x \div 16) % 2
      /\ Bit(8 * (3 * t + 1) - 3) = (x \div 8) % 2 /\ Bit(8 * (3 * t + 1) - 2) = (x \div 4) % 2
      /\ Bit(8 * (3 * t + 1) - 1) = (x \div 2) % 2 /\ Bit(8 * (3 * t + 1)) = x % 2
  BY <1>0, BitRead
<1>7. /\ Bit(8 * (3 * t + 2) - 7) = (y \div 128) % 2 /\ Bit(8 * (3 * t + 2) - 6) = (y \div 64) % 2
      /\ Bit(8 * (3 * t + 2) - 5) = (y \div 32) % 2 /\ Bit(8 * (3 * t + 2) - 4) = (y \div 16) % 2
      /\ Bit(8 * (3 * t + 2) - 3) = (y \div 8) % 2 /\ Bit(8 * (3 * t + 2) - 2) = (y \div 4) % 2
      /\ Bit(8 * (3 * t + 2) - 1) = (y \div 2) % 2 /\ Bit(8 * (3 * t + 2)) = y % 2
  BY <1>0, BitRead
<1>8. /\ Bit(8 * (3 * t + 3) - 7) = (z \div 128) % 2 /\ Bit(8 * (3 * t + 3) - 6) = (z \div 64) % 2
      /\ Bit(8 * (3 * t + 3) - 5) = (z \div 32) % 2 /\ Bit(8 * (3 * t + 3) - 4) = (z \div 16) % 2
      /\ Bit(8 * (3 * t + 3) - 3) = (z \div 8) % 2 /\ Bit(8 * (3 * t + 3) - 2) = (z \div 4) % 2
      /\ Bit(8 * (3 * t + 3) - 1) = (z \div 2) % 2 /\ Bit(8 * (3 * t + 3)) = z % 2
  BY <1>0, BitRead
<1>9. SixBits(4 * t + 1) = x \div 4
  <2>1. SixBits(4 * t + 1) =
          32 * ((x \div 128) % 2) + 16 * ((x \div 64) % 2) + 8 * ((x \div 32) % 2)
            + 4 * ((x \div 16) % 2) + 2 * ((x \div 8) % 2) + ((x \div 4) % 2)
    BY <1>2, <1>6 DEF SixBits
  <2> QED
    BY <1>1, <2>1, PartsInBits
<1>10. SixBits(4 * t + 2) = 16 * (x % 4) + (y \div 16)
  <2> DEFINE g == (x \div 2) % 2
             h == x % 2
             a == (y \div 128) % 2
             b == (y \div 64) % 2
             c == (y \div 32) % 2
             d == (y \div 16) % 2
  <2>1. SixBits(4 * t + 2) = 32 * g + 16 * h + 8 * a + 4 * b + 2 * c + d
    BY <1>3, <1>6, <1>7 DEF SixBits
  <2>2. x % 4 = 2 * g + h
    BY <1>1, PartsInBits
  <2>3. y \div 16 = 8 * a + 4 * b + 2 * c + d
    BY <1>1, PartsInBits
  <2>4. /\ g \in Int /\ h \in Int
        /\ a \in Int /\ b \in Int /\ c \in Int /\ d \in Int
    BY <1>1, BitsAreIntegers
  <2> DEFINE p == x % 4
             q == y \div 16
  <2> HIDE DEF g, h, a, b, c, d, p, q
  <2>5. p = 2 * g + h /\ q = 8 * a + 4 * b + 2 * c + d
    BY <2>2, <2>3 DEF p, q
  <2>6. SixBits(4 * t + 2) = 16 * p + q
    BY <2>1, <2>4, <2>5, SMT
  <2> QED
    BY <2>6 DEF p, q
<1>11. SixBits(4 * t + 3) = 4 * (y % 16) + (z \div 64)
  <2> DEFINE e == (y \div 8) % 2
             f == (y \div 4) % 2
             g == (y \div 2) % 2
             h == y % 2
             a == (z \div 128) % 2
             b == (z \div 64) % 2
  <2>1. SixBits(4 * t + 3) = 32 * e + 16 * f + 8 * g + 4 * h + 2 * a + b
    BY <1>4, <1>7, <1>8 DEF SixBits
  <2>2. y % 16 = 8 * e + 4 * f + 2 * g + h
    BY <1>1, PartsInBits
  <2>3. z \div 64 = 2 * a + b
    BY <1>1, PartsInBits
  <2>4. /\ e \in Int /\ f \in Int /\ g \in Int /\ h \in Int
        /\ a \in Int /\ b \in Int
    BY <1>1, BitsAreIntegers
  <2> DEFINE p == y % 16
             q == z \div 64
  <2> HIDE DEF e, f, g, h, a, b, p, q
  <2>5. p = 8 * e + 4 * f + 2 * g + h /\ q = 2 * a + b
    BY <2>2, <2>3 DEF p, q
  <2>6. SixBits(4 * t + 3) = 4 * p + q
    BY <2>1, <2>4, <2>5, SMT
  <2> QED
    BY <2>6 DEF p, q
<1>12. SixBits(4 * t + 4) = z % 64
  <2>1. SixBits(4 * t + 4) =
          32 * ((z \div 32) % 2) + 16 * ((z \div 16) % 2) + 8 * ((z \div 8) % 2)
            + 4 * ((z \div 4) % 2) + 2 * ((z \div 2) % 2) + (z % 2)
    BY <1>5, <1>8 DEF SixBits
  <2> QED
    BY <1>1, <2>1, PartsInBits
<1> QED
  BY <1>9, <1>10, <1>11, <1>12, Zenon

\* The characters of a chunk, of which a rest shows the first.
LEMMA ChunkRead ==
  ASSUME bytes \in Seq(Byte), NEW t \in Nat, NEW count \in 0 .. 4
  PROVE  Sextets(Padded(3 * t + 1) * 65536 + Padded(3 * t + 2) * 256 + Padded(3 * t + 3), count)
           = Run(4 * t, count)
<1> DEFINE x == Padded(3 * t + 1)
           y == Padded(3 * t + 2)
           z == Padded(3 * t + 3)
           n == x * 65536 + y * 256 + z
<1>1. /\ x \in Nat /\ x <= 255 /\ y \in Nat /\ y <= 255 /\ z \in Nat /\ z <= 255
  BY PaddedIsByte
<1>2. /\ SixBits(4 * t + 1) = x \div 4
      /\ SixBits(4 * t + 2) = 16 * (x % 4) + (y \div 16)
      /\ SixBits(4 * t + 3) = 4 * (y % 16) + (z \div 64)
      /\ SixBits(4 * t + 4) = z % 64
  BY SixBitsRead
<1> HIDE DEF x, y, z
<1>3. /\ (n \div 262144) % 64 = x \div 4
      /\ (n \div 4096) % 64 = 16 * (x % 4) + (y \div 16)
      /\ (n \div 64) % 64 = 4 * (y % 16) + (z \div 64)
      /\ n % 64 = z % 64
  BY <1>1, FourSextets
<1>4. n \in Nat
  BY <1>1, SMT
<1> HIDE DEF n
<1>5. ASSUME NEW k \in 1 .. count PROVE (n \div 64 ^ (4 - k)) % 64 = SixBits(4 * t + k)
  <2>1. k = 1 \/ k = 2 \/ k = 3 \/ k = 4
    OBVIOUS
  <2>2. CASE k = 1
    <3>1. 64 ^ (4 - 1) = 262144
      BY SMT
    <3> QED
      BY <1>2, <1>3, <2>2, <3>1
  <2>3. CASE k = 2
    <3>1. 64 ^ (4 - 2) = 4096
      BY SMT
    <3> QED
      BY <1>2, <1>3, <2>3, <3>1
  <2>4. CASE k = 3
    <3>1. 64 ^ (4 - 3) = 64
      BY SMT
    <3> QED
      BY <1>2, <1>3, <2>4, <3>1
  <2>5. CASE k = 4
    <3>1. 64 ^ (4 - 4) = 1
      BY SMT
    <3>2. n \div 1 = n
      BY <1>4, SMT
    <3> QED
      BY <1>2, <1>3, <2>5, <3>1, <3>2
  <2> QED
    BY <2>1, <2>2, <2>3, <2>4, <2>5, Zenon
<1>6. \A k : Six(k) = B64URL(SixBits(k))
  BY Zenon DEF Six, SixBits
<1>7. Sextets(n, count) = Run(4 * t, count)
  <2>1. Sextets(n, count) = [k \in 1 .. count |-> B64URL((n \div 64 ^ (4 - k)) % 64)]
    BY Zenon DEF Sextets
  <2>2. ASSUME NEW k \in 1 .. count PROVE B64URL((n \div 64 ^ (4 - k)) % 64) = Six(4 * t + k)
    BY <1>5, <1>6, Zenon
  <2> QED
    BY <2>1, <2>2, Zenon DEF Run
<1> QED
  BY <1>7 DEF n, x, y, z

\* The alphabet has 64 characters, and is made of plain bytes.
LEMMA AlphabetIsPlain ==
  /\ \A v \in Nat : v <= 63 => B64URL(v) \in Base64Url
  /\ Base64Url \subseteq Byte
  /\ \A c \in Base64Url : c # Quote /\ c \notin Controls \cup {Backslash, NoByte}
<1>1. ASSUME NEW v \in Nat, v <= 63 PROVE B64URL(v) \in Base64Url
  <2>1. CASE v < 26
    <3>1. 65 + v \in 65 .. 90
      BY <2>1
    <3> QED
      BY <2>1, <3>1, SMT DEF B64URL, Base64Url
  <2>2. CASE v >= 26 /\ v < 52
    <3>1. 97 + (v - 26) \in 97 .. 122
      BY <2>2
    <3> QED
      BY <2>2, <3>1, SMT DEF B64URL, Base64Url
  <2>3. CASE v >= 52 /\ v < 62
    <3>1. 48 + (v - 52) \in Digits
      BY <2>3, SMT DEF Digits
    <3> QED
      BY <2>3, <3>1, SMT DEF B64URL, Base64Url
  <2>4. CASE v >= 62
    BY <1>1, <2>4, SMT DEF B64URL, Base64Url
  <2> QED
    BY <2>1, <2>2, <2>3, <2>4, SMT
<1>2. Base64Url \subseteq Byte
  BY SMT DEF Base64Url, Byte, Digits
<1>3. ASSUME NEW c \in Base64Url PROVE c # Quote /\ c \notin Controls \cup {Backslash, NoByte}
  BY SMT DEF Base64Url, Digits, Quote, Controls, Backslash, NoByte
<1> QED
  BY <1>1, <1>2, <1>3

\* The characters of a challenge are of the alphabet.
LEMMA SixIsBase64 ==
  ASSUME bytes \in Seq(Byte), NEW k \in Nat, k > 0
  PROVE  Six(k) \in Base64Url
<1> DEFINE t == (k - 1) \div 4
           x == Padded(3 * t + 1)
           y == Padded(3 * t + 2)
           z == Padded(3 * t + 3)
<1>1. t \in Nat /\ (k = 4 * t + 1 \/ k = 4 * t + 2 \/ k = 4 * t + 3 \/ k = 4 * t + 4)
  BY SMT
<1> HIDE DEF t
<1>2. /\ x \in Nat /\ x <= 255 /\ y \in Nat /\ y <= 255 /\ z \in Nat /\ z <= 255
  BY PaddedIsByte
<1>3. /\ SixBits(4 * t + 1) = x \div 4
      /\ SixBits(4 * t + 2) = 16 * (x % 4) + (y \div 16)
      /\ SixBits(4 * t + 3) = 4 * (y % 16) + (z \div 64)
      /\ SixBits(4 * t + 4) = z % 64
  BY <1>1, SixBitsRead
<1> HIDE DEF x, y, z
<1>4. /\ x \div 4 \in Nat /\ x \div 4 <= 63
      /\ 16 * (x % 4) + (y \div 16) \in Nat /\ 16 * (x % 4) + (y \div 16) <= 63
      /\ 4 * (y % 16) + (z \div 64) \in Nat /\ 4 * (y % 16) + (z \div 64) <= 63
      /\ z % 64 \in Nat /\ z % 64 <= 63
  BY <1>2, SMT
<1>5. SixBits(k) \in Nat /\ SixBits(k) <= 63
  BY <1>1, <1>3, <1>4
<1>6. Six(k) = B64URL(SixBits(k))
  BY Zenon DEF Six, SixBits
<1> QED
  BY <1>5, <1>6, AlphabetIsPlain

\* A run of characters is a text of the alphabet.
LEMMA RunIsText ==
  ASSUME bytes \in Seq(Byte), NEW m \in Nat, NEW p \in Nat
  PROVE  /\ Run(m, p) \in Seq(Base64Url) /\ Len(Run(m, p)) = p
         /\ \A k \in 1 .. p : Run(m, p)[k] = Six(m + k)
<1>1. \A k \in 1 .. p : Six(m + k) \in Base64Url
  <2>1. \A k \in 1 .. p : m + k \in Nat /\ m + k > 0
    OBVIOUS
  <2> QED
    BY <2>1, SixIsBase64
<1>2. Run(m, p) \in [1 .. p -> Base64Url]
  BY <1>1, Zenon DEF Run
<1>3. \A k \in 1 .. p : Run(m, p)[k] = Six(m + k)
  BY Zenon DEF Run
<1> QED
  BY <1>2, <1>3

\* Runs follow one another.
LEMMA RunsJoin ==
  ASSUME bytes \in Seq(Byte), NEW m \in Nat, NEW p \in Nat, NEW q \in Nat
  PROVE  Run(m, p) \o Run(m + p, q) = Run(m, p + q)
<1> DEFINE a == Run(m, p)
           b == Run(m + p, q)
           c == Run(m, p + q)
<1>1. /\ a \in Seq(Base64Url) /\ Len(a) = p /\ \A k \in 1 .. p : a[k] = Six(m + k)
      /\ b \in Seq(Base64Url) /\ Len(b) = q /\ \A k \in 1 .. q : b[k] = Six((m + p) + k)
      /\ c \in Seq(Base64Url) /\ Len(c) = p + q /\ \A k \in 1 .. p + q : c[k] = Six(m + k)
  <2>1. m + p \in Nat /\ p + q \in Nat
    OBVIOUS
  <2> QED
    BY <2>1, RunIsText, Zenon
<1> HIDE DEF a, b, c
<1>2. /\ a \o b \in Seq(Base64Url) /\ Len(a \o b) = p + q
      /\ \A k \in 1 .. p + q : (a \o b)[k] = IF k <= p THEN a[k] ELSE b[k - p]
  BY <1>1, ConcatProperties
<1>3. ASSUME NEW k \in 1 .. p + q PROVE (a \o b)[k] = c[k]
  <2>1. CASE k <= p
    <3>1. k \in 1 .. p
      BY <2>1
    <3> QED
      BY <1>1, <1>2, <2>1, <3>1
  <2>2. CASE ~ (k <= p)
    <3>1. k - p \in 1 .. q /\ (m + p) + (k - p) = m + k
      BY <2>2
    <3> QED
      BY <1>1, <1>2, <2>2, <3>1
  <2> QED
    BY <2>1, <2>2
<1>4. a \o b = c
  BY <1>1, <1>2, <1>3, SeqEqual
<1> QED
  BY <1>4 DEF a, b, c

\* A run of no characters.
LEMMA NoRun ==
  ASSUME NEW m
  PROVE  Run(m, 0) = <<>>
  BY DEF Run

-----------------------------------------------------------------------------
(* Both encoders write the bits. *)

\* How many characters the bytes take.
LEMMA LengthsOfText ==
  ASSUME NEW t \in Nat
  PROVE  /\ (8 * (3 * t) + 5) \div 6 = 4 * t
         /\ (8 * (3 * t + 1) + 5) \div 6 = 4 * t + 2
         /\ (8 * (3 * t + 2) + 5) \div 6 = 4 * t + 3
  BY SMT

\* The text of the bits is a run.
LEMMA BitsAreRun ==
  ASSUME bytes \in Seq(Byte)
  PROVE  /\ InBits = Run(0, (8 * Len(bytes) + 5) \div 6)
         /\ (8 * Len(bytes) + 5) \div 6 \in Nat
<1>0. Len(bytes) \in Nat
  OBVIOUS
<1>1. (8 * Len(bytes) + 5) \div 6 \in Nat
  BY <1>0, SMT
<1> DEFINE L == (8 * Len(bytes) + 5) \div 6
<1>2. InBits = [k \in 1 .. L |-> Six(k)]
  BY Zenon DEF InBits, Six
<1> HIDE DEF L
<1>3. \A k \in 1 .. L : 0 + k = k
  OBVIOUS
<1>4. InBits = Run(0, L)
  BY <1>2, <1>3, Zenon DEF Run
<1> QED
  BY <1>1, <1>4 DEF L

\* What is left of the bytes after t whole chunks, at most two of them.
LEMMA RestRead ==
  ASSUME bytes \in Seq(Byte), NEW t \in Nat, NEW L, L = (8 * Len(bytes) + 5) \div 6
  PROVE  /\ Len(bytes) = 3 * t => L = 4 * t /\ Run(4 * t, L - 4 * t) = <<>>
         /\ Len(bytes) = 3 * t + 1 =>
              /\ L = 4 * t + 2
              /\ Sextets(bytes[3 * t + 1] * 65536, 2) = Run(4 * t, L - 4 * t)
         /\ Len(bytes) = 3 * t + 2 =>
              /\ L = 4 * t + 3
              /\ Sextets(bytes[3 * t + 1] * 65536 + bytes[3 * t + 2] * 256, 3)
                   = Run(4 * t, L - 4 * t)
<1> DEFINE x == Padded(3 * t + 1)
           y == Padded(3 * t + 2)
           z == Padded(3 * t + 3)
<1>0. /\ x \in Nat /\ y \in Nat /\ z \in Nat
  BY PaddedIsByte
<1>1. CASE Len(bytes) = 3 * t
  <2>1. L = 4 * t
    BY <1>1, LengthsOfText
  <2>2. L - 4 * t = 0
    BY <2>1
  <2>3. ~ (Len(bytes) = 3 * t + 1) /\ ~ (Len(bytes) = 3 * t + 2)
    BY <1>1
  <2> QED
    BY <2>1, <2>2, <2>3, NoRun
<1>2. CASE Len(bytes) = 3 * t + 1
  <2>1. L = 4 * t + 2
    BY <1>2, LengthsOfText
  <2>2. L - 4 * t = 2
    BY <2>1
  <2>3. ~ (Len(bytes) = 3 * t) /\ ~ (Len(bytes) = 3 * t + 2)
    BY <1>2
  <2>4. x = bytes[3 * t + 1] /\ y = 0 /\ z = 0
    <3>1. 3 * t + 1 \in 1 .. Len(bytes) /\ 3 * t + 2 \notin 1 .. Len(bytes)
          /\ 3 * t + 3 \notin 1 .. Len(bytes)
      BY <1>2
    <3> QED
      BY <3>1 DEF Padded
  <2>5. Sextets(x * 65536 + y * 256 + z, 2) = Run(4 * t, 2)
    BY ChunkRead
  <2> HIDE DEF x, y, z
  <2>6. x * 65536 + y * 256 + z = bytes[3 * t + 1] * 65536
    BY <1>0, <2>4, SMT
  <2> QED
    BY <2>1, <2>2, <2>3, <2>5, <2>6, SMT
<1>3. CASE Len(bytes) = 3 * t + 2
  <2>1. L = 4 * t + 3
    BY <1>3, LengthsOfText
  <2>2. L - 4 * t = 3
    BY <2>1
  <2>3. ~ (Len(bytes) = 3 * t) /\ ~ (Len(bytes) = 3 * t + 1)
    BY <1>3
  <2>4. x = bytes[3 * t + 1] /\ y = bytes[3 * t + 2] /\ z = 0
    <3>1. 3 * t + 1 \in 1 .. Len(bytes) /\ 3 * t + 2 \in 1 .. Len(bytes)
          /\ 3 * t + 3 \notin 1 .. Len(bytes)
      BY <1>3
    <3> QED
      BY <3>1 DEF Padded
  <2>5. Sextets(x * 65536 + y * 256 + z, 3) = Run(4 * t, 3)
    BY ChunkRead
  <2> HIDE DEF x, y, z
  <2>6. x * 65536 + y * 256 + z = bytes[3 * t + 1] * 65536 + bytes[3 * t + 2] * 256
    BY <1>0, <2>4, SMT
  <2> QED
    BY <2>1, <2>2, <2>3, <2>5, <2>6, SMT
<1> QED
  BY <1>1, <1>2, <1>3

\* A whole chunk.
WholeChunk(t) ==
  Sextets(bytes[3 * t + 1] * 65536 + bytes[3 * t + 2] * 256 + bytes[3 * t + 3], 4)

\* It is the next four characters of the text in bits.
LEMMA WholeChunkRead ==
  ASSUME bytes \in Seq(Byte), NEW t \in Nat, 3 * t + 3 <= Len(bytes)
  PROVE  WholeChunk(t) = Run(4 * t, 4)
<1>1. /\ 3 * t + 1 \in 1 .. Len(bytes) /\ 3 * t + 2 \in 1 .. Len(bytes)
      /\ 3 * t + 3 \in 1 .. Len(bytes)
  OBVIOUS
<1>2. /\ Padded(3 * t + 1) = bytes[3 * t + 1] /\ Padded(3 * t + 2) = bytes[3 * t + 2]
      /\ Padded(3 * t + 3) = bytes[3 * t + 3]
  BY <1>1 DEF Padded
<1>3. Sextets(Padded(3 * t + 1) * 65536 + Padded(3 * t + 2) * 256 + Padded(3 * t + 3), 4)
        = Run(4 * t, 4)
  BY ChunkRead
<1> QED
  BY <1>2, <1>3 DEF WholeChunk

\* The program's text is the run of all the bits.
LEMMA ProgramWritesBits ==
  ASSUME bytes \in Seq(Byte)
  PROVE  B64UrlNoPad(bytes) = Run(0, (8 * Len(bytes) + 5) \div 6)
<1> DEFINE n == Len(bytes)
           w == n \div 3
           L == (8 * n + 5) \div 6
           chunk(k) == Sextets(bytes[3 * k - 2] * 65536 + bytes[3 * k - 1] * 256 + bytes[3 * k], 4)
           seqs == [k \in 1 .. w |-> chunk(k)]
           rest == SubSeq(bytes, 3 * w + 1, n)
<1>0. n \in Nat /\ w \in Nat /\ (n = 3 * w \/ n = 3 * w + 1 \/ n = 3 * w + 2)
  <2>1. n \in Nat
    OBVIOUS
  <2> QED
    BY <2>1, SMT
<1>1. B64UrlNoPad(bytes) = FlattenSeq(seqs) \o Rest(rest)
  BY SMT DEF B64UrlNoPad
<1> HIDE DEF w
<1>2. ASSUME NEW k \in 1 .. w PROVE chunk(k) = Run(4 * (k - 1), 4)
  <2>1. k - 1 \in Nat /\ 3 * (k - 1) + 3 <= Len(bytes)
    BY <1>0
  <2>2. 3 * (k - 1) + 1 = 3 * k - 2 /\ 3 * (k - 1) + 2 = 3 * k - 1 /\ 3 * (k - 1) + 3 = 3 * k
    BY <2>1
  <2>3. WholeChunk(k - 1) = Run(4 * (k - 1), 4)
    BY <2>1, WholeChunkRead
  <2>4. WholeChunk(k - 1) = chunk(k)
    BY <2>2, SMT DEF WholeChunk
  <2> QED
    BY <2>3, <2>4
<1> HIDE DEF chunk
<1>3. seqs \in Seq(Seq(Base64Url)) /\ Len(seqs) = w /\ \A k \in 1 .. w : seqs[k] = Run(4 * (k - 1), 4)
  <2>1. ASSUME NEW k \in 1 .. w PROVE chunk(k) \in Seq(Base64Url)
    <3>1. 4 * (k - 1) \in Nat /\ 4 \in Nat
      BY <1>0
    <3> QED
      BY <1>2, <3>1, RunIsText
  <2>2. seqs \in [1 .. w -> Seq(Base64Url)]
    BY <2>1
  <2> QED
    BY <1>0, <1>2, <2>2
<1> HIDE DEF seqs
<1>4. PICK h : Joins(h, seqs, Base64Url) /\ FlattenSeq(seqs) = h[Len(seqs)]
  BY <1>3, FlattenJoins
<1> DEFINE P == {m \in Nat : m <= w => h[m] = Run(0, 4 * m)}
<1>5. 0 \in P
  BY <1>4, NoRun DEF Joins
<1>6. ASSUME NEW m \in Nat, m \in P PROVE m + 1 \in P
  <2> SUFFICES ASSUME m + 1 <= w PROVE h[m + 1] = Run(0, 4 * (m + 1))
    OBVIOUS
  <2>1. m < Len(seqs) /\ m + 1 \in 1 .. w /\ (m + 1) - 1 = m /\ m <= w
    BY <1>0, <1>3
  <2>2. h[m + 1] = h[m] \o seqs[m + 1]
    BY <1>4, <2>1 DEF Joins
  <2>3. h[m] = Run(0, 4 * m) /\ seqs[m + 1] = Run(4 * m, 4)
    BY <1>3, <1>6, <2>1
  <2>4. Run(0, 4 * m) \o Run(0 + 4 * m, 4) = Run(0, 4 * m + 4)
    <3>1. 0 \in Nat /\ 4 * m \in Nat /\ 4 \in Nat
      OBVIOUS
    <3> QED
      BY <3>1, RunsJoin
  <2>5. 0 + 4 * m = 4 * m /\ 4 * m + 4 = 4 * (m + 1)
    OBVIOUS
  <2> HIDE DEF P
  <2> QED
    BY <2>2, <2>3, <2>4, <2>5
<1> HIDE DEF P
<1>7. w \in P
  BY <1>0, <1>5, <1>6, NaturalsReached
<1>8. FlattenSeq(seqs) = Run(0, 4 * w)
  BY <1>0, <1>3, <1>4, <1>7 DEF P
<1>9. Rest(rest) = Run(4 * w, L - 4 * w) /\ L - 4 * w \in Nat /\ L \in Nat
  <2>1. rest \in Seq(Byte) /\ Len(rest) = n - 3 * w
        /\ \A i \in 1 .. n - 3 * w : rest[i] = bytes[3 * w + i]
    <3>1. 3 * w + 1 \in 1 .. n + 1 /\ n \in 0 .. n
      BY <1>0
    <3>2. \A i \in 1 .. n - 3 * w : rest[i] = bytes[3 * w + i]
      <4>1. \A i \in 1 .. n - 3 * w : (3 * w + 1) + i - 1 = 3 * w + i
        BY <1>0
      <4> QED
        BY <1>0, <3>1, <4>1
    <3>3. rest \in Seq(Byte) /\ Len(rest) = n - 3 * w
      <4>1. \A i \in 1 .. n : bytes[i] \in Byte
        OBVIOUS
      <4>2. \A i \in 3 * w + 1 .. n : i \in 1 .. n
        BY <1>0
      <4>3. 3 * w + 1 \in Int /\ n \in Int
        BY <1>0
      <4>4. /\ rest \in Seq(Byte)
            /\ Len(rest) = IF 3 * w + 1 <= n THEN n - (3 * w + 1) + 1 ELSE 0
        BY <4>1, <4>2, <4>3, SubSeqProperties, Zenon
      <4> HIDE DEF rest, n
      <4> QED
        BY <1>0, <4>4
    <3> QED
      BY <3>2, <3>3
  <2> HIDE DEF n, L, rest
  <2>2. L = (8 * Len(bytes) + 5) \div 6 /\ n = Len(bytes)
    BY DEF L, n
  <2>3. CASE n = 3 * w
    <3>1. Len(rest) = 0
      BY <1>0, <2>1, <2>3
    <3>2. Rest(rest) = <<>>
      BY <3>1, SMT DEF Rest
    <3>3. L = 4 * w /\ Run(4 * w, L - 4 * w) = <<>>
      BY <1>0, <2>2, <2>3, RestRead
    <3>4. L - 4 * w \in Nat /\ L \in Nat
      BY <1>0, <3>3
    <3> QED
      BY <3>2, <3>3, <3>4
  <2>4. CASE n = 3 * w + 1
    <3>1. Len(rest) = 1 /\ rest[1] = bytes[3 * w + 1]
      BY <1>0, <2>1, <2>4
    <3>2. Rest(rest) = Sextets(rest[1] * 65536, 2)
      BY <3>1, SMT DEF Rest
    <3>3. L = 4 * w + 2 /\ Sextets(bytes[3 * w + 1] * 65536, 2) = Run(4 * w, L - 4 * w)
      BY <1>0, <2>2, <2>4, RestRead
    <3>4. L - 4 * w \in Nat /\ L \in Nat
      BY <1>0, <3>3
    <3> QED
      BY <3>1, <3>2, <3>3, <3>4
  <2>5. CASE n = 3 * w + 2
    <3>1. Len(rest) = 2 /\ rest[1] = bytes[3 * w + 1] /\ rest[2] = bytes[3 * w + 2]
      BY <1>0, <2>1, <2>5
    <3>2. Rest(rest) = Sextets(rest[1] * 65536 + rest[2] * 256, 3)
      BY <3>1, SMT DEF Rest
    <3>3. /\ L = 4 * w + 3
          /\ Sextets(bytes[3 * w + 1] * 65536 + bytes[3 * w + 2] * 256, 3) = Run(4 * w, L - 4 * w)
      BY <1>0, <2>2, <2>5, RestRead
    <3>4. L - 4 * w \in Nat /\ L \in Nat
      BY <1>0, <3>3
    <3> QED
      BY <3>1, <3>2, <3>3, <3>4
  <2> QED
    BY <1>0, <2>3, <2>4, <2>5
<1> HIDE DEF rest, L
<1>10. Run(0, 4 * w) \o Run(0 + 4 * w, L - 4 * w) = Run(0, 4 * w + (L - 4 * w))
  <2>1. 0 \in Nat /\ 4 * w \in Nat
    BY <1>0
  <2> QED
    BY <1>9, <2>1, RunsJoin
<1>11. 0 + 4 * w = 4 * w /\ 4 * w + (L - 4 * w) = L
  BY <1>0, <1>9
<1>12. B64UrlNoPad(bytes) = Run(0, L)
  BY <1>1, <1>8, <1>9, <1>10, <1>11
<1> QED
  BY <1>12 DEF L, n

\* The client's loop: a chunk and what follows it, or what is left.
ChunkAt(i) == Sextets(bytes[i] * 65536 + bytes[i + 1] * 256 + bytes[i + 2], 4)

RestAt(i) ==
  IF Len(bytes) - i + 1 = 1 THEN Sextets(bytes[i] * 65536, 2)
  ELSE IF Len(bytes) - i + 1 = 2 THEN Sextets(bytes[i] * 65536 + bytes[i + 1] * 256, 3)
  ELSE <<>>

FromSolves(f) ==
  f = [i \in 1 .. Len(bytes) + 1 |->
         IF i + 2 <= Len(bytes) THEN ChunkAt(i) \o f[i + 3] ELSE RestAt(i)]

\* The client writes what the loop says from the first byte on.
LEMMA ClientLoops == ChallengeB64Url(bytes) = (CHOOSE f : FromSolves(f))[1]
  BY SMT DEF ChallengeB64Url, FromSolves, ChunkAt, RestAt

\* It has a solution.
LEMMA LoopOfClient ==
  ASSUME bytes \in Seq(Byte)
  PROVE  \E f : FromSolves(f)
<1> DEFINE n == Len(bytes)
           N == n + 1
           V == Seq(Base64Url)
           turn(i) == IF i + 2 <= n THEN ChunkAt(i) ELSE RestAt(i)
           stops == {i \in 1 .. N : ~ (i + 2 <= n)}
           next == [i \in 1 .. N |-> i + 3]
<1>0. n \in Nat /\ N \in Nat /\ 1 \in Nat /\ N = n + 1
  OBVIOUS
<1> HIDE DEF n, N
<1>1. ASSUME NEW v \in Nat, NEW count \in 0 .. 4 PROVE Sextets(v, count) \in V
  <2>1. ASSUME NEW k \in 1 .. count PROVE B64URL((v \div 64 ^ (4 - k)) % 64) \in Base64Url
    <3>1. k = 1 \/ k = 2 \/ k = 3 \/ k = 4
      OBVIOUS
    <3>2. /\ 64 ^ (4 - 1) = 262144 /\ 64 ^ (4 - 2) = 4096 /\ 64 ^ (4 - 3) = 64 /\ 64 ^ (4 - 4) = 1
      BY SMT
    <3>4. /\ v \div 262144 \in Nat /\ v \div 4096 \in Nat /\ v \div 64 \in Nat /\ v \div 1 \in Nat
      BY SMT
    <3>5. v \div 64 ^ (4 - k) \in Nat
      <4>1. CASE k = 1
        BY <3>2, <3>4, <4>1, SMT
      <4>2. CASE k = 2
        BY <3>2, <3>4, <4>2, SMT
      <4>3. CASE k = 3
        BY <3>2, <3>4, <4>3, SMT
      <4>4. CASE k = 4
        BY <3>2, <3>4, <4>4, SMT
      <4> QED
        BY <3>1, <4>1, <4>2, <4>3, <4>4
    <3>6. (v \div 64 ^ (4 - k)) % 64 \in Nat /\ (v \div 64 ^ (4 - k)) % 64 <= 63
      BY <3>5, SMT
    <3> QED
      BY <3>6, AlphabetIsPlain
  <2>2. Sextets(v, count) \in [1 .. count -> Base64Url]
    BY <2>1, Zenon DEF Sextets
  <2> QED
    BY <2>2
<1>2. ASSUME NEW i \in 1 .. N PROVE turn(i) \in V
  <2>1. \A j \in 1 .. n : bytes[j] \in Nat
    <3>1. \A j \in 1 .. n : bytes[j] \in Byte
      BY DEF n
    <3>2. \A x \in Byte : x \in Nat
      BY SMT DEF Byte
    <3> QED
      BY <3>1, <3>2
  <2>2. CASE i + 2 <= n
    <3>1. bytes[i] \in Nat /\ bytes[i + 1] \in Nat /\ bytes[i + 2] \in Nat
      BY <1>0, <2>1, <2>2
    <3>2. bytes[i] * 65536 + bytes[i + 1] * 256 + bytes[i + 2] \in Nat
      BY <3>1, SMT
    <3> DEFINE v == bytes[i] * 65536 + bytes[i + 1] * 256 + bytes[i + 2]
    <3>3. ChunkAt(i) = Sextets(v, 4) /\ v \in Nat /\ 4 \in 0 .. 4
      BY <3>2, SMT DEF ChunkAt
    <3> HIDE DEF v
    <3>4. ChunkAt(i) \in V
      BY <1>1, <3>3, Zenon
    <3> QED
      BY <2>2, <3>4
  <2>3. CASE ~ (i + 2 <= n) /\ n - i + 1 = 1
    <3>1. bytes[i] \in Nat
      BY <1>0, <2>1, <2>3
    <3>2. bytes[i] * 65536 \in Nat
      BY <3>1, SMT
    <3> DEFINE v == bytes[i] * 65536
    <3>3. RestAt(i) = Sextets(v, 2) /\ v \in Nat /\ 2 \in 0 .. 4
      BY <2>3, <3>2, SMT DEF RestAt, n
    <3> HIDE DEF v
    <3>4. RestAt(i) \in V
      BY <1>1, <3>3, Zenon
    <3> QED
      BY <2>3, <3>4
  <2>4. CASE ~ (i + 2 <= n) /\ n - i + 1 = 2
    <3>1. bytes[i] \in Nat /\ bytes[i + 1] \in Nat
      BY <1>0, <2>1, <2>4
    <3>2. bytes[i] * 65536 + bytes[i + 1] * 256 \in Nat
      BY <3>1, SMT
    <3> DEFINE v == bytes[i] * 65536 + bytes[i + 1] * 256
    <3>3. ~ (n - i + 1 = 1)
      BY <2>4
    <3>4. RestAt(i) = Sextets(v, 3) /\ v \in Nat /\ 3 \in 0 .. 4
      BY <2>4, <3>2, <3>3, SMT DEF RestAt, n
    <3> HIDE DEF v
    <3>5. RestAt(i) \in V
      BY <1>1, <3>4, Zenon
    <3> QED
      BY <2>4, <3>5
  <2>5. CASE ~ (i + 2 <= n) /\ n - i + 1 # 1 /\ n - i + 1 # 2
    <3>1. RestAt(i) = <<>>
      BY <2>5, SMT DEF RestAt, n
    <3> QED
      BY <2>5, <3>1
  <2> QED
    BY <2>2, <2>3, <2>4, <2>5
<1> HIDE DEF V
<1> DEFINE value == [i \in 1 .. N |-> turn(i)]
           join == [p \in (1 .. N) \X V |-> turn(p[1]) \o p[2]]
<1>3. value \in [1 .. N -> V]
  BY <1>2, Zenon
<1>4. join \in [(1 .. N) \X V -> V]
  <2>1. ASSUME NEW p \in (1 .. N) \X V PROVE turn(p[1]) \o p[2] \in V
    <3>1. p[1] \in 1 .. N /\ p[2] \in V
      OBVIOUS
    <3>2. turn(p[1]) \in V
      BY <1>2, <3>1
    <3> HIDE DEF turn
    <3> QED
      BY <3>1, <3>2, ConcatProperties DEF V
  <2> QED
    BY <2>1, Zenon
<1>5. Leads(next, stops, 1, N)
  <2>1. ASSUME NEW i \in 1 .. N, i \notin stops PROVE next[i] \in 1 .. N /\ next[i] > i
    BY <1>0, <2>1
  <2> HIDE DEF next, stops
  <2> QED
    BY <2>1 DEF Leads
<1>6. ASSUME NEW i \in 1 .. N, i \in stops PROVE value[i] = RestAt(i) /\ ~ (i + 2 <= n)
  BY <1>6
<1>7. ASSUME NEW i \in 1 .. N, i \notin stops
      PROVE  /\ i + 2 <= n /\ next[i] = i + 3
             /\ \A x \in V : join[<<i, x>>] = ChunkAt(i) \o x
  BY <1>7
<1> HIDE DEF value, join, next, stops
<1>8. PICK f : Backward(f, next, stops, 1, N, value, join, V)
  BY <1>0, <1>3, <1>4, <1>5, BackwardExists
<1>9. ASSUME NEW i \in 1 .. N
      PROVE  f[i] = IF i + 2 <= n THEN ChunkAt(i) \o f[i + 3] ELSE RestAt(i)
  <2>1. f[i] = IF i \in stops THEN value[i] ELSE join[<<i, f[next[i]]>>]
    BY <1>8 DEF Backward
  <2>2. CASE i \in stops
    BY <1>6, <2>1, <2>2
  <2>3. CASE i \notin stops
    <3>1. next[i] \in 1 .. N
      BY <1>5, <2>3 DEF Leads
    <3>2. f[next[i]] \in V
      BY <1>8, <3>1 DEF Backward
    <3> QED
      BY <1>7, <2>1, <2>3, <3>2
  <2> QED
    BY <2>2, <2>3
<1>10. f = [i \in 1 .. N |-> f[i]]
  BY <1>8 DEF Backward
<1>11. f = [i \in 1 .. N |-> IF i + 2 <= n THEN ChunkAt(i) \o f[i + 3] ELSE RestAt(i)]
  BY <1>9, <1>10, Zenon
<1> QED
  BY <1>11, Zenon DEF FromSolves, N, n

\* So is the client's.
LEMMA ClientWritesBits ==
  ASSUME bytes \in Seq(Byte)
  PROVE  ChallengeB64Url(bytes) = Run(0, (8 * Len(bytes) + 5) \div 6)
<1> DEFINE n == Len(bytes)
           N == n + 1
           L == (8 * n + 5) \div 6
           f == CHOOSE g : FromSolves(g)
           Holds(i) == \A t \in Nat : i = 3 * t + 1 => f[i] = Run(4 * t, L - 4 * t)
           P == {i \in 1 .. N : Holds(i)}
<1>0. n \in Nat /\ N \in Nat /\ 1 \in Nat /\ N = n + 1
  OBVIOUS
<1>1. FromSolves(f)
  BY LoopOfClient, Zenon
<1>2. ChallengeB64Url(bytes) = f[1]
  BY ClientLoops, Zenon
<1> HIDE DEF f
<1>3. \A i \in 1 .. N : f[i] = IF i + 2 <= n THEN ChunkAt(i) \o f[i + 3] ELSE RestAt(i)
  BY <1>1, Zenon DEF FromSolves
<1>L. L = (8 * Len(bytes) + 5) \div 6
  OBVIOUS
<1>n. n = Len(bytes)
  OBVIOUS
<1> HIDE DEF n, N, L
<1>4. ASSUME NEW i \in 1 .. N, \A m \in i + 1 .. N : m \in P, NEW t \in Nat, i = 3 * t + 1
      PROVE  f[i] = Run(4 * t, L - 4 * t)
  <2>1. CASE i + 2 <= n
    <3>1. f[i] = ChunkAt(i) \o f[i + 3]
      BY <1>3, <2>1
    <3>2. ChunkAt(i) = Run(4 * t, 4)
      <4>1. 3 * t + 3 <= Len(bytes)
        BY <1>0, <1>4, <1>n, <2>1
      <4>2. WholeChunk(t) = Run(4 * t, 4)
        BY <4>1, WholeChunkRead
      <4>3. i = 3 * t + 1 /\ i + 1 = 3 * t + 2 /\ i + 2 = 3 * t + 3
        BY <1>4
      <4>4. ChunkAt(i) = WholeChunk(t)
        BY <4>3, SMT DEF ChunkAt, WholeChunk
      <4> QED
        BY <4>2, <4>4
    <3>3. f[i + 3] = Run(4 * (t + 1), L - 4 * (t + 1))
      <4>1. i + 3 \in i + 1 .. N /\ t + 1 \in Nat /\ i + 3 = 3 * (t + 1) + 1
        BY <1>0, <1>4, <2>1
      <4>2. Holds(i + 3)
        BY <1>4, <4>1
      <4> QED
        BY <4>1, <4>2
    <3>4. L - 4 * (t + 1) \in Nat /\ 4 * t \in Nat /\ L \in Nat
      BY <1>0, <1>4, <1>L, <1>n, <2>1, SMT
    <3>5. Run(4 * t, 4) \o Run(4 * t + 4, L - 4 * (t + 1)) = Run(4 * t, 4 + (L - 4 * (t + 1)))
      BY <3>4, RunsJoin
    <3>6. 4 * t + 4 = 4 * (t + 1) /\ 4 + (L - 4 * (t + 1)) = L - 4 * t
      BY <3>4
    <3> HIDE DEF P, Holds
    <3> QED
      BY <3>1, <3>2, <3>3, <3>5, <3>6
  <2>2. CASE ~ (i + 2 <= n)
    <3>1. f[i] = RestAt(i)
      BY <1>3, <2>2
    <3>2. n = 3 * t \/ n = 3 * t + 1 \/ n = 3 * t + 2
      BY <1>0, <1>4, <2>2
    <3> HIDE DEF P, Holds
    <3>3. CASE n = 3 * t
      <4>1. Run(4 * t, L - 4 * t) = <<>>
        BY <1>L, <1>n, <3>3, RestRead
      <4>2. Len(bytes) - i + 1 # 1 /\ Len(bytes) - i + 1 # 2
        BY <1>0, <1>4, <1>n, <3>3
      <4>3. RestAt(i) = <<>>
        BY <4>2, SMT DEF RestAt
      <4> QED
        BY <3>1, <4>1, <4>3
    <3>4. CASE n = 3 * t + 1
      <4>1. Sextets(bytes[3 * t + 1] * 65536, 2) = Run(4 * t, L - 4 * t)
        BY <1>L, <1>n, <3>4, RestRead
      <4>2. Len(bytes) - i + 1 = 1
        BY <1>0, <1>4, <1>n, <3>4
      <4>3. RestAt(i) = Sextets(bytes[3 * t + 1] * 65536, 2)
        BY <1>4, <4>2, SMT DEF RestAt
      <4> QED
        BY <3>1, <4>1, <4>3
    <3>5. CASE n = 3 * t + 2
      <4>1. Sextets(bytes[3 * t + 1] * 65536 + bytes[3 * t + 2] * 256, 3) = Run(4 * t, L - 4 * t)
        BY <1>L, <1>n, <3>5, RestRead
      <4>2. Len(bytes) - i + 1 = 2 /\ Len(bytes) - i + 1 # 1
        BY <1>0, <1>4, <1>n, <3>5
      <4>3. i + 1 = 3 * t + 2
        BY <1>4
      <4>4. RestAt(i) = Sextets(bytes[3 * t + 1] * 65536 + bytes[3 * t + 2] * 256, 3)
        BY <1>4, <4>2, <4>3, SMT DEF RestAt
      <4> QED
        BY <3>1, <4>1, <4>4
    <3> QED
      BY <3>2, <3>3, <3>4, <3>5
  <2> QED
    BY <2>1, <2>2
<1>5. \A i \in 1 .. N : (\A m \in i + 1 .. N : m \in P) => i \in P
  BY <1>4
<1> HIDE DEF P
<1>6. 1 .. N \subseteq P
  <2>1. 1 \in Nat /\ N \in Nat
    BY <1>0
  <2> QED
    BY <2>1, <1>5, LastToFirst
<1>7. 1 \in P
  BY <1>0, <1>6
<1>8. f[1] = Run(4 * 0, L - 4 * 0)
  <2>1. Holds(1)
    BY <1>7 DEF P
  <2>2. 0 \in Nat /\ 1 = 3 * 0 + 1
    OBVIOUS
  <2> QED
    BY <2>1, <2>2
<1>9. 4 * 0 = 0 /\ L - 4 * 0 = L
  <2>1. L \in Int
    BY <1>0, <1>L, <1>n, SMT
  <2> QED
    BY <2>1
<1> QED
  BY <1>2, <1>8, <1>9, <1>L

-----------------------------------------------------------------------------
(* The scanner reads a challenge back. *)

\* A text of the alphabet between quotes is read as it is.
LEMMA PlainTextRead ==
  ASSUME NEW v \in Seq(Base64Url), NEW d, d = <<Quote>> \o v \o <<Quote>>
  PROVE  ParseString(d, 1).at = Len(v) + 3 /\ ParseString(d, 1).out = v
<1> DEFINE n == Len(v)
           N == n + 2
           q == <<Quote>>
<1>0. n \in Nat /\ N \in Nat /\ N = n + 2 /\ 2 \in Nat
  OBVIOUS
<1>1. v \in Seq(Byte) /\ \A k \in 1 .. n : v[k] \in Base64Url
  BY AlphabetIsPlain
<1>2. q \in Seq(Byte) /\ Len(q) = 1 /\ q[1] = Quote
  BY DEF Byte, Quote
<1> HIDE DEF n, N, q
<1>3. /\ q \o v \in Seq(Byte) /\ Len(q \o v) = n + 1
      /\ \A k \in 1 .. n + 1 : (q \o v)[k] = IF k <= 1 THEN q[k] ELSE v[k - 1]
  <2>1. /\ q \o v \in Seq(Byte) /\ Len(q \o v) = Len(q) + Len(v)
        /\ \A k \in 1 .. Len(q) + Len(v) : (q \o v)[k] = IF k <= Len(q) THEN q[k] ELSE v[k - Len(q)]
    BY <1>1, <1>2, ConcatProperties, Zenon
  <2>2. Len(q) = 1 /\ Len(q) + Len(v) = n + 1
    BY <1>0, <1>2 DEF n
  <2> QED
    BY <2>1, <2>2, Zenon
<1>4. /\ d \in Seq(Byte) /\ Len(d) = N
      /\ \A k \in 1 .. N : d[k] = IF k <= n + 1 THEN (q \o v)[k] ELSE q[k - (n + 1)]
  <2> DEFINE r == q \o v
  <2>1. r \in Seq(Byte) /\ Len(r) = n + 1 /\ d = r \o q
    BY <1>3 DEF q
  <2> HIDE DEF r
  <2>2. /\ r \o q \in Seq(Byte) /\ Len(r \o q) = Len(r) + Len(q)
        /\ \A k \in 1 .. Len(r) + Len(q) : (r \o q)[k] = IF k <= Len(r) THEN r[k] ELSE q[k - Len(r)]
    BY <1>2, <2>1, ConcatProperties, Zenon
  <2>3. Len(r) = n + 1 /\ Len(r) + Len(q) = N
    BY <1>0, <1>2, <2>1
  <2>4. /\ r \o q \in Seq(Byte) /\ Len(r \o q) = N
        /\ \A k \in 1 .. N : (r \o q)[k] = IF k <= n + 1 THEN r[k] ELSE q[k - (n + 1)]
    BY <2>2, <2>3, Zenon
  <2>5. d = r \o q
    BY <2>1
  <2> QED
    BY <2>4, <2>5, Zenon DEF r
<1>5. At(d, 1) = Quote /\ At(d, N) = Quote
  <2>1. d[1] = Quote
    BY <1>0, <1>2, <1>3, <1>4
  <2>2. N - (n + 1) = 1 /\ ~ (N <= n + 1) /\ N \in 1 .. N
    BY <1>0
  <2>3. d[N] = Quote
    BY <1>2, <1>4, <2>2, Zenon
  <2>4. 1 \in 1 .. Len(d) /\ N \in 1 .. Len(d)
    BY <1>0, <1>4
  <2> QED
    BY <1>4, <2>1, <2>3, <2>4, BytesRead, Zenon
<1>6. ASSUME NEW j \in 2 .. N, j # N PROVE At(d, j) = v[j - 1] /\ v[j - 1] \in Base64Url
  <2>1. j \in 1 .. N /\ j \in 1 .. n + 1 /\ ~ (j <= 1) /\ j <= n + 1 /\ j - 1 \in 1 .. n
    BY <1>0, <1>6
  <2>2. d[j] = v[j - 1]
    BY <1>3, <1>4, <2>1
  <2> QED
    BY <1>1, <1>4, <2>1, <2>2, BytesRead
<1>7. PICK e, o : /\ EndSolves(e, d) /\ OutSolves(o, d)
                  /\ ParseString(d, 1) = IF At(d, 1) = Quote THEN [at |-> e[1 + 1], out |-> o[1 + 1]]
                                         ELSE BadString
  BY <1>4, StringsRead, Zenon
<1>8. ParseString(d, 1).at = e[2] /\ ParseString(d, 1).out = o[2]
  BY <1>5, <1>7
<1>9. \A j \in 0 .. N + 1 :
        /\ e[j] = IF j = Fail THEN Fail ELSE IF At(d, j) = Quote THEN j + 1
                  ELSE e[ParsedUnit(d, j).at]
        /\ o[j] = IF j = Fail \/ At(d, j) = Quote THEN <<>>
                  ELSE ParsedUnit(d, j).out \o o[ParsedUnit(d, j).at]
  <2>1. Len(d) + 1 = N + 1
    BY <1>4
  <2> QED
    BY <1>7, <2>1, Zenon DEF EndSolves, OutSolves
<1> DEFINE P == {j \in 2 .. N : e[j] = N + 1 /\ o[j] = SubSeq(v, j - 1, n)}
<1>10. ASSUME NEW j \in 2 .. N, \A m \in j + 1 .. N : m \in P
       PROVE  e[j] = N + 1 /\ o[j] = SubSeq(v, j - 1, n)
  <2>0. j \in 0 .. N + 1 /\ j # Fail /\ j \in Int
    BY <1>0 DEF Fail
  <2>1. CASE j = N
    <3>1. e[j] = j + 1 /\ o[j] = <<>>
      BY <1>5, <1>9, <2>0, <2>1
    <3>2. SubSeq(v, j - 1, n) = <<>>
      <4>1. j - 1 \in Int /\ n \in Int /\ n < j - 1
        BY <1>0, <2>1
      <4> QED
        BY <4>1, SubSeqEmpty
    <3> HIDE DEF P
    <3> QED
      BY <2>1, <3>1, <3>2
  <2>2. CASE j # N
    <3>1. At(d, j) = v[j - 1] /\ v[j - 1] \in Base64Url
      BY <1>6, <2>2
    <3>2. IsPlain(d, j) /\ At(d, j) # Quote
      BY <3>1, AlphabetIsPlain DEF IsPlain
    <3>3. j \in 1 .. Len(d) + 1
      BY <1>0, <1>4
    <3>4. ParsedUnit(d, j) = [at |-> j + 1, out |-> <<v[j - 1]>>]
      BY <1>4, <3>1, <3>2, <3>3, UnitsRead
    <3>5. e[j] = e[j + 1] /\ o[j] = <<v[j - 1]>> \o o[j + 1]
      <4>1. ParsedUnit(d, j).at = j + 1 /\ ParsedUnit(d, j).out = <<v[j - 1]>>
        BY <3>4
      <4> HIDE DEF P
      <4> QED
        BY <1>9, <2>0, <3>2, <4>1, Zenon
    <3>6. e[j + 1] = N + 1 /\ o[j + 1] = SubSeq(v, (j + 1) - 1, n)
      <4>1. j + 1 \in j + 1 .. N
        BY <1>0, <2>2
      <4> QED
        BY <1>10, <4>1
    <3>7. <<v[j - 1]>> \o SubSeq(v, (j + 1) - 1, n) = SubSeq(v, j - 1, n)
      <4> DEFINE a == <<v[j - 1]>>
                 b == SubSeq(v, (j + 1) - 1, n)
                 c == SubSeq(v, j - 1, n)
      <4>1. j - 1 \in 1 .. n /\ (j + 1) - 1 = j /\ j - 1 \in Int /\ n \in Int /\ j \in Int
        BY <1>0, <2>2
      <4>2. a \in Seq(Base64Url) /\ Len(a) = 1 /\ a[1] = v[j - 1]
        BY <3>1
      <4>3. /\ b \in Seq(Base64Url) /\ Len(b) = n - (j - 1)
            /\ \A k \in 1 .. n - (j - 1) : b[k] = v[j + k - 1]
        <5>1. \A i \in j .. n : v[i] \in Base64Url
          BY <1>1, <4>1
        <5>2. /\ SubSeq(v, j, n) \in Seq(Base64Url)
              /\ Len(SubSeq(v, j, n)) = IF j <= n THEN n - j + 1 ELSE 0
              /\ \A i \in 1 .. n - j + 1 : SubSeq(v, j, n)[i] = v[j + i - 1]
          BY <4>1, <5>1, SubSeqProperties
        <5>3. n - j + 1 = n - (j - 1) /\ (IF j <= n THEN n - j + 1 ELSE 0) = n - (j - 1)
          BY <4>1
        <5>4. b = SubSeq(v, j, n)
          BY <4>1
        <5> QED
          BY <5>2, <5>3, <5>4
      <4>4. /\ c \in Seq(Base64Url) /\ Len(c) = n - (j - 1) + 1
            /\ \A k \in 1 .. n - (j - 1) + 1 : c[k] = v[(j - 1) + k - 1]
        <5>1. \A i \in j - 1 .. n : v[i] \in Base64Url
          BY <1>1, <4>1
        <5>2. /\ c \in Seq(Base64Url)
              /\ Len(c) = IF j - 1 <= n THEN n - (j - 1) + 1 ELSE 0
              /\ \A i \in 1 .. n - (j - 1) + 1 : c[i] = v[(j - 1) + i - 1]
          BY <4>1, <5>1, SubSeqProperties
        <5> HIDE DEF c
        <5> QED
          BY <4>1, <5>2
      <4> HIDE DEF a, b, c
      <4>5. /\ a \o b \in Seq(Base64Url) /\ Len(a \o b) = Len(a) + Len(b)
            /\ \A k \in 1 .. Len(a) + Len(b) : (a \o b)[k] = IF k <= Len(a) THEN a[k] ELSE b[k - Len(a)]
        BY <4>2, <4>3, ConcatProperties, Zenon
      <4>6. Len(a \o b) = Len(c)
        BY <4>1, <4>2, <4>3, <4>4, <4>5
      <4>7. ASSUME NEW k \in 1 .. Len(c) PROVE (a \o b)[k] = c[k]
        <5>1. CASE k = 1
          <6>1. (j - 1) + 1 - 1 = j - 1
            BY <4>1
          <6> QED
            BY <4>1, <4>2, <4>3, <4>4, <4>5, <5>1, <6>1
        <5>2. CASE k # 1
          <6>1. k - 1 \in 1 .. n - (j - 1) /\ j + (k - 1) - 1 = (j - 1) + k - 1 /\ ~ (k <= 1)
            BY <4>1, <4>4, <5>2
          <6>2. k \in 1 .. Len(a) + Len(b) /\ k \in 1 .. n - (j - 1) + 1
            BY <4>1, <4>2, <4>3, <4>4
          <6> QED
            BY <4>2, <4>3, <4>4, <4>5, <6>1, <6>2
        <5> QED
          BY <5>1, <5>2
      <4>8. a \o b = c
        BY <4>4, <4>5, <4>6, <4>7, SeqEqual
      <4> QED
        BY <4>8 DEF a, b, c
    <3> HIDE DEF P
    <3> QED
      BY <3>5, <3>6, <3>7
  <2> QED
    BY <2>1, <2>2
<1>11. \A j \in 2 .. N : (\A m \in j + 1 .. N : m \in P) => j \in P
  BY <1>10
<1> HIDE DEF P
<1>12. 2 .. N \subseteq P
  <2>1. 2 \in Nat /\ N \in Nat
    BY <1>0
  <2> QED
    BY <2>1, <1>11, LastToFirst
<1>13. e[2] = N + 1 /\ o[2] = SubSeq(v, 2 - 1, n)
  <2>1. 2 \in 2 .. N
    BY <1>0
  <2> QED
    BY <1>12, <2>1 DEF P
<1>14. SubSeq(v, 2 - 1, n) = v /\ N + 1 = n + 3
  <2>1. 2 - 1 = 1 /\ N + 1 = n + 3
    BY <1>0
  <2>2. SubSeq(v, 1, n) = v
    BY DEF n
  <2> QED
    BY <2>1, <2>2
<1> QED
  BY <1>8, <1>13, <1>14 DEF n

\* Challenges survive, as ChallengesSurvive says.
LEMMA ChallengesAreRead ==
  ASSUME bytes \in Seq(Byte)
  PROVE  ChallengesSurvive
<1> DEFINE v == B64UrlNoPad(bytes)
           L == (8 * Len(bytes) + 5) \div 6
           d == <<Quote>> \o v \o <<Quote>>
<1>1. v = Run(0, L) /\ ChallengeB64Url(bytes) = v /\ InBits = v /\ L \in Nat
  BY ProgramWritesBits, ClientWritesBits, BitsAreRun
<1>2. v \in Seq(Base64Url) /\ Len(v) = L
  <2>1. 0 \in Nat
    OBVIOUS
  <2> HIDE DEF L, v
  <2> QED
    BY <1>1, <2>1, RunIsText
<1>3. ParseString(d, 1).at = Len(v) + 3 /\ ParseString(d, 1).out = v
  <2> HIDE DEF v, L
  <2> QED
    BY <1>2, PlainTextRead
<1>4. ASSUME bytes # <<>> PROVE IsBase64UrlNoPad(v)
  <2>1. Len(bytes) \in Nat /\ Len(bytes) # 0
    BY <1>4
  <2>2. L # 0
    BY <2>1, SMT
  <2> HIDE DEF v, L
  <2>3. v # <<>> /\ \A k \in DOMAIN v : v[k] \in Base64Url
    BY <1>2, <2>2
  <2> QED
    BY <2>3 DEF IsBase64UrlNoPad
<1> HIDE DEF L
<1>5. v = InBits /\ ChallengeB64Url(bytes) = v
  BY <1>1
<1> HIDE DEF v
<1> QED
  BY <1>3, <1>4, <1>5, Zenon DEF ChallengesSurvive, v

\* Program and client write any challenge alike and as RFC 4648 has it, and the scanner
\* reads it back unchanged (transcript.rs b64url_no_pad, transcript.ts challengeB64Url,
\* client_data.rs is_b64url_no_pad).
THEOREM AnyChallengeSurvives == LexemesSpec => []ChallengesSurvive
<1>1. AnyText => ChallengesSurvive
  BY ChallengesAreRead DEF AnyText
<1> QED
  BY <1>1, TextsStay, PTL

-----------------------------------------------------------------------------
(* Numbers, by the positions where their parts end. *)

\* Digits from p to q.
Digital(d, p, q) == \A k \in p .. q : At(d, k) \in Digits

\* What the symbols of a number are not.
LEMMA SymbolsDiffer ==
  /\ NoByte \notin Digits /\ NoByte # Dot /\ NoByte # Minus /\ NoByte \notin Exponents
  /\ NoByte \notin Signs /\ NoByte # Zero
  /\ Minus \notin Digits /\ Dot \notin Digits /\ Zero \in Digits
  /\ \A x \in Exponents : x \notin Digits /\ x # Dot
  /\ \A x \in Signs : x \notin Digits
  BY DEF NoByte, Digits, Dot, Minus, Exponents, Signs, Zero

\* A slice of a text.
LEMMA SliceRead ==
  ASSUME NEW s \in Seq(Byte), NEW p \in Nat \ {0}, NEW q \in 0 .. Len(s)
  PROVE  /\ SubSeq(s, p, q) \in Seq(Byte)
         /\ p <= q => /\ SubSeq(s, p, q) # <<>> /\ Len(SubSeq(s, p, q)) = q - p + 1
                      /\ \A k \in 1 .. q - p + 1 : SubSeq(s, p, q)[k] = At(s, p + k - 1)
         /\ q < p => SubSeq(s, p, q) = <<>>
<1>0. p \in Int /\ q \in Int /\ p >= 1 /\ q <= Len(s) /\ Len(s) \in Nat
  OBVIOUS
<1>1. \A i \in p .. q : s[i] \in Byte
  OBVIOUS
<1>2. /\ SubSeq(s, p, q) \in Seq(Byte)
      /\ Len(SubSeq(s, p, q)) = IF p <= q THEN q - p + 1 ELSE 0
      /\ \A i \in 1 .. q - p + 1 : SubSeq(s, p, q)[i] = s[p + i - 1]
  BY <1>0, <1>1, SubSeqProperties
<1>3. q < p => SubSeq(s, p, q) = <<>>
  BY <1>0, SubSeqEmpty
<1> DEFINE t == SubSeq(s, p, q)
<1>4. ASSUME p <= q PROVE t # <<>> /\ Len(t) = q - p + 1
  <2>1. Len(t) = q - p + 1 /\ q - p + 1 # 0
    BY <1>0, <1>2, <1>4
  <2> HIDE DEF t
  <2> QED
    BY <2>1
<1>5. ASSUME NEW k \in 1 .. q - p + 1 PROVE t[k] = At(s, p + k - 1)
  <2>1. t[k] = s[p + k - 1]
    BY <1>2
  <2>2. p + k - 1 \in 1 .. Len(s)
    BY <1>0
  <2>3. At(s, p + k - 1) = s[p + k - 1]
    BY <2>2, BytesRead
  <2> QED
    BY <2>1, <2>3
<1> HIDE DEF t
<1> QED
  BY <1>2, <1>3, <1>4, <1>5, Zenon DEF t

\* Whether it is all digits.
LEMMA DigitsOfSlice ==
  ASSUME NEW s \in Seq(Byte), NEW p \in Nat \ {0}, NEW q \in 0 .. Len(s)
  PROVE  AllDigits(SubSeq(s, p, q)) <=> p <= q /\ Digital(s, p, q)
<1> DEFINE t == SubSeq(s, p, q)
<1>0. p \in Int /\ q \in Int /\ p >= 1
  OBVIOUS
<1>1. CASE q < p
  <2>1. t = <<>> /\ ~ (p <= q)
    BY <1>0, <1>1, SliceRead
  <2> HIDE DEF t
  <2>2. ~ AllDigits(t)
    BY <2>1 DEF AllDigits
  <2> QED
    BY <2>1, <2>2 DEF t
<1>2. CASE p <= q
  <2>1. /\ t \in Seq(Byte) /\ t # <<>> /\ Len(t) = q - p + 1
        /\ \A k \in 1 .. q - p + 1 : t[k] = At(s, p + k - 1)
    BY <1>2, SliceRead
  <2> HIDE DEF t
  <2>2. DOMAIN t = 1 .. q - p + 1
    BY <2>1
  <2>3. AllDigits(t) <=> \A k \in 1 .. q - p + 1 : At(s, p + k - 1) \in Digits
    BY <2>1, <2>2, Zenon DEF AllDigits
  <2>4. ASSUME \A k \in 1 .. q - p + 1 : At(s, p + k - 1) \in Digits, NEW k \in p .. q
        PROVE  At(s, k) \in Digits
    <3>1. k - p + 1 \in 1 .. q - p + 1 /\ p + (k - p + 1) - 1 = k
      BY <1>0
    <3> QED
      BY <2>4, <3>1
  <2>5. ASSUME Digital(s, p, q), NEW k \in 1 .. q - p + 1
        PROVE  At(s, p + k - 1) \in Digits
    <3>1. p + k - 1 \in p .. q
      BY <1>0
    <3> QED
      BY <2>5, <3>1 DEF Digital
  <2> QED
    BY <1>2, <2>3, <2>4, <2>5 DEF t, Digital
<1> QED
  BY <1>0, <1>1, <1>2

\* The same without its first byte.
LEMMA DigitsOfTail ==
  ASSUME NEW s \in Seq(Byte), NEW p \in Nat \ {0}, NEW q \in 0 .. Len(s), p <= q
  PROVE  AllDigits(Tail(SubSeq(s, p, q))) <=> p + 1 <= q /\ Digital(s, p + 1, q)
<1>1. p \in 1 .. Len(s) /\ q \in p .. Len(s) /\ p + 1 \in Nat \ {0}
  OBVIOUS
<1>2. Tail(SubSeq(s, p, q)) = SubSeq(s, p + 1, q)
  BY <1>1, HeadTailOfSubSeq
<1> QED
  BY <1>1, <1>2, DigitsOfSlice

\* The same without its first two.
LEMMA DigitsOfRest ==
  ASSUME NEW s \in Seq(Byte), NEW p \in Nat \ {0}, NEW q \in 0 .. Len(s), p <= q
  PROVE  AllDigits(SubSeq(SubSeq(s, p, q), 3, Len(SubSeq(s, p, q))))
           <=> p + 2 <= q /\ Digital(s, p + 2, q)
<1> DEFINE t == SubSeq(s, p, q)
<1>0. p \in Int /\ q \in Int /\ p >= 1 /\ q <= Len(s) /\ Len(s) \in Nat
  OBVIOUS
<1>1. Len(t) = q - p + 1 /\ q - p + 1 \in Nat /\ t \in Seq(Byte)
  BY SliceRead
<1>2. CASE p + 2 <= q
  <2>1. p \in 1 .. Len(s) /\ q \in 1 .. Len(s) /\ 3 \in 1 .. q - p + 1 /\ q - p + 1 \in 1 .. q - p + 1
    BY <1>0, <1>2
  <2>2. SubSeq(t, 3, q - p + 1) = SubSeq(s, p + 3 - 1, p + (q - p + 1) - 1)
    BY <2>1, SubSeqOfSubSeq
  <2>3. p + 3 - 1 = p + 2 /\ p + (q - p + 1) - 1 = q /\ p + 2 \in Nat \ {0}
    BY <1>0
  <2>4. SubSeq(t, 3, Len(t)) = SubSeq(s, p + 2, q)
    BY <1>1, <2>2, <2>3
  <2> QED
    BY <2>3, <2>4, DigitsOfSlice
<1>3. CASE ~ (p + 2 <= q)
  <2>1. Len(t) < 3 /\ 3 \in Int /\ Len(t) \in Int
    BY <1>0, <1>1, <1>3
  <2>2. SubSeq(t, 3, Len(t)) = <<>>
    BY <2>1, SubSeqEmpty
  <2>3. ~ AllDigits(SubSeq(t, 3, Len(t)))
    BY <2>2 DEF AllDigits
  <2> QED
    BY <1>3, <2>3
<1> QED
  BY <1>2, <1>3

\* The first n bytes of d are a number with these ends of sign, integer and fraction.
NumberAt(d, n, a, b, c) ==
  /\ a <= b /\ b <= c
  /\ a = 1 => At(d, 1) = Minus
  /\ a + 1 <= b /\ Digital(d, a + 1, b) /\ (At(d, a + 1) = Zero => b = a + 1)
  /\ c = b \/ (At(d, b + 1) = Dot /\ b + 2 <= c /\ Digital(d, b + 2, c))
  /\ \/ c = n
     \/ /\ At(d, c + 1) \in Exponents
        /\ \/ c + 2 <= n /\ Digital(d, c + 2, n)
           \/ At(d, c + 2) \in Signs /\ c + 3 <= n /\ Digital(d, c + 3, n)

\* A number is one by positions.
LEMMA NumbersByPosition ==
  ASSUME NEW s \in Seq(Byte), s # <<>>
  PROVE  IsNumber(s) <=> \E a \in 0 .. 1, b, c \in 0 .. Len(s) : NumberAt(s, Len(s), a, b, c)
<1> DEFINE n == Len(s)
           Int1(a, b) == SubSeq(s, a + 1, b)
           Frac(b, c) == SubSeq(s, b + 1, c)
           Exp(c) == SubSeq(s, c + 1, n)
           A(a, b) == AllDigits(Int1(a, b)) /\ (Int1(a, b)[1] = Zero => Len(Int1(a, b)) = 1)
           B(b, c) == Frac(b, c) = <<>> \/ (Frac(b, c)[1] = Dot /\ AllDigits(Tail(Frac(b, c))))
           C(c) == \/ Exp(c) = <<>>
                   \/ /\ Exp(c)[1] \in Exponents
                      /\ \/ AllDigits(Tail(Exp(c)))
                         \/ /\ Len(Exp(c)) > 1 /\ Exp(c)[2] \in Signs
                            /\ AllDigits(SubSeq(Exp(c), 3, Len(Exp(c))))
<1>0. n \in Nat /\ n >= 1
  <2>1. Len(s) # 0
    OBVIOUS
  <2> QED
    BY <2>1
<1>1. IsNumber(s) <=>
        \E a \in 0 .. 1, b, c \in 0 .. n :
          a <= b /\ b <= c /\ (a = 1 => s[1] = Minus) /\ A(a, b) /\ B(b, c) /\ C(c)
  BY Zenon DEF IsNumber
<1>2. ASSUME NEW a \in 0 .. 1, NEW b \in 0 .. n, a <= b
      PROVE  A(a, b) <=>
               a + 1 <= b /\ Digital(s, a + 1, b) /\ (At(s, a + 1) = Zero => b = a + 1)
  <2> DEFINE t == Int1(a, b)
  <2>0. a + 1 \in Nat \ {0} /\ b \in 0 .. Len(s) /\ a \in Int /\ b \in Int
    BY <1>0
  <2>1. AllDigits(t) <=> a + 1 <= b /\ Digital(s, a + 1, b)
    BY <2>0, DigitsOfSlice
  <2>2. ASSUME a + 1 <= b PROVE t[1] = At(s, a + 1) /\ (Len(t) = 1 <=> b = a + 1)
    <3>1. /\ Len(t) = b - (a + 1) + 1
          /\ \A k \in 1 .. b - (a + 1) + 1 : t[k] = At(s, (a + 1) + k - 1)
      BY <2>0, <2>2, SliceRead
    <3> HIDE DEF t
    <3>2. 1 \in 1 .. b - (a + 1) + 1 /\ (a + 1) + 1 - 1 = a + 1
      BY <2>0, <2>2
    <3>3. t[1] = At(s, a + 1)
      BY <3>1, <3>2
    <3>4. Len(t) = 1 <=> b = a + 1
      BY <2>0, <3>1
    <3> QED
      BY <3>3, <3>4
  <2>3. A(a, b) <=> AllDigits(t) /\ (t[1] = Zero => Len(t) = 1)
    OBVIOUS
  <2> HIDE DEF t, A
  <2> QED
    BY <2>1, <2>2, <2>3, Zenon
<1>3. ASSUME NEW b \in 0 .. n, NEW c \in 0 .. n, b <= c
      PROVE  B(b, c) <=> c = b \/ (At(s, b + 1) = Dot /\ b + 2 <= c /\ Digital(s, b + 2, c))
  <2> DEFINE t == Frac(b, c)
  <2>0. b + 1 \in Nat \ {0} /\ c \in 0 .. Len(s) /\ b \in Int /\ c \in Int
    BY <1>0
  <2>1. c = b => t = <<>>
    <3>1. c = b => c < b + 1
      BY <2>0
    <3> QED
      BY <2>0, <3>1, SliceRead
  <2>2. ASSUME c # b
        PROVE  /\ t # <<>> /\ t[1] = At(s, b + 1)
               /\ AllDigits(Tail(t)) <=> b + 2 <= c /\ Digital(s, b + 2, c)
    <3>0. b + 1 <= c
      BY <1>3, <2>0, <2>2
    <3>1. t # <<>> /\ \A k \in 1 .. c - (b + 1) + 1 : t[k] = At(s, (b + 1) + k - 1)
      BY <2>0, <3>0, SliceRead
    <3>2. AllDigits(Tail(t)) <=> (b + 1) + 1 <= c /\ Digital(s, (b + 1) + 1, c)
      BY <2>0, <3>0, DigitsOfTail
    <3> HIDE DEF t
    <3>3. 1 \in 1 .. c - (b + 1) + 1 /\ (b + 1) + 1 - 1 = b + 1 /\ (b + 1) + 1 = b + 2
      BY <2>0, <3>0
    <3> QED
      BY <3>1, <3>2, <3>3
  <2>3. B(b, c) <=> t = <<>> \/ (t[1] = Dot /\ AllDigits(Tail(t)))
    OBVIOUS
  <2> HIDE DEF t, B
  <2> QED
    BY <2>1, <2>2, <2>3, Zenon
<1>4. ASSUME NEW c \in 0 .. n
      PROVE  C(c) <=> \/ c = n
                      \/ /\ At(s, c + 1) \in Exponents
                         /\ \/ c + 2 <= n /\ Digital(s, c + 2, n)
                            \/ At(s, c + 2) \in Signs /\ c + 3 <= n /\ Digital(s, c + 3, n)
  <2> DEFINE t == Exp(c)
             tail == AllDigits(Tail(t))
             rest == AllDigits(SubSeq(t, 3, Len(t)))
  <2>0. c + 1 \in Nat \ {0} /\ n \in 0 .. Len(s) /\ c \in Int /\ n \in Int
    BY <1>0
  <2>1. c = n => t = <<>>
    <3>1. c = n => n < c + 1
      BY <2>0
    <3> QED
      BY <2>0, <3>1, SliceRead
  <2>2. ASSUME c # n
        PROVE  /\ t # <<>> /\ t[1] = At(s, c + 1)
               /\ tail <=> c + 2 <= n /\ Digital(s, c + 2, n)
               /\ rest <=> c + 3 <= n /\ Digital(s, c + 3, n)
               /\ c + 3 <= n => Len(t) > 1 /\ t[2] = At(s, c + 2)
    <3>0. c + 1 <= n
      BY <2>0, <2>2
    <3>1. /\ t # <<>> /\ Len(t) = n - (c + 1) + 1
          /\ \A k \in 1 .. n - (c + 1) + 1 : t[k] = At(s, (c + 1) + k - 1)
      BY <2>0, <3>0, SliceRead
    <3>2. tail <=> (c + 1) + 1 <= n /\ Digital(s, (c + 1) + 1, n)
      BY <2>0, <3>0, DigitsOfTail
    <3>3. rest <=> (c + 1) + 2 <= n /\ Digital(s, (c + 1) + 2, n)
      BY <2>0, <3>0, DigitsOfRest
    <3> HIDE DEF t, tail, rest
    <3>4. /\ 1 \in 1 .. n - (c + 1) + 1 /\ (c + 1) + 1 - 1 = c + 1 /\ (c + 1) + 1 = c + 2
          /\ (c + 1) + 2 = c + 3
      BY <2>0, <3>0
    <3>5. ASSUME c + 3 <= n PROVE Len(t) > 1 /\ t[2] = At(s, c + 2)
      <4>1. 2 \in 1 .. n - (c + 1) + 1 /\ (c + 1) + 2 - 1 = c + 2 /\ n - (c + 1) + 1 > 1
        BY <2>0, <3>5
      <4> QED
        BY <3>1, <4>1
    <3> QED
      BY <3>1, <3>2, <3>3, <3>4, <3>5
  <2>3. C(c) <=> \/ t = <<>>
                 \/ /\ t[1] \in Exponents
                    /\ tail \/ (Len(t) > 1 /\ t[2] \in Signs /\ rest)
    OBVIOUS
  <2> HIDE DEF t, C, tail, rest
  <2> QED
    BY <2>1, <2>2, <2>3, Zenon
<1>5. At(s, 1) = s[1]
  BY <1>0, BytesRead
<1> HIDE DEF A, B, C
<1>6. ASSUME NEW a \in 0 .. 1, NEW b \in 0 .. n, NEW c \in 0 .. n
      PROVE  (a <= b /\ b <= c /\ (a = 1 => s[1] = Minus) /\ A(a, b) /\ B(b, c) /\ C(c))
               <=> NumberAt(s, n, a, b, c)
  BY <1>2, <1>3, <1>4, <1>5, Zenon DEF NumberAt
<1> QED
  BY <1>1, <1>6, Zenon DEF n

\* The beginning of a text is a number where the text has one.
LEMMA NumbersBegin ==
  ASSUME NEW d \in Seq(Byte), NEW n \in 1 .. Len(d)
  PROVE  IsNumber(SubSeq(d, 1, n)) <=> \E a \in 0 .. 1, b, c \in 0 .. n : NumberAt(d, n, a, b, c)
<1> DEFINE s == SubSeq(d, 1, n)
<1>0. n \in Nat /\ n >= 1 /\ n <= Len(d) /\ Len(d) \in Nat
  OBVIOUS
<1>1. s \in Seq(Byte) /\ s # <<>> /\ Len(s) = n /\ \A k \in 1 .. n : s[k] = At(d, k)
  <2>1. /\ s \in Seq(Byte) /\ s # <<>> /\ Len(s) = n - 1 + 1
        /\ \A k \in 1 .. n - 1 + 1 : s[k] = At(d, 1 + k - 1)
    <3>1. 1 \in Nat \ {0} /\ n \in 0 .. Len(d) /\ 1 <= n
      BY <1>0
    <3> QED
      BY <3>1, SliceRead
  <2> HIDE DEF s
  <2>2. n - 1 + 1 = n /\ \A k \in 1 .. n : 1 + k - 1 = k
    BY <1>0
  <2> QED
    BY <2>1, <2>2
<1>2. IsNumber(s) <=> \E a \in 0 .. 1, b, c \in 0 .. n : NumberAt(s, n, a, b, c)
  <2> HIDE DEF s
  <2>1. IsNumber(s) <=> \E a \in 0 .. 1, b, c \in 0 .. Len(s) : NumberAt(s, Len(s), a, b, c)
    BY <1>1, NumbersByPosition
  <2> QED
    BY <1>1, <2>1, Zenon
<1> HIDE DEF s
<1>3. \A k \in 1 .. n : At(s, k) = At(d, k)
  BY <1>1, BytesRead, Zenon
<1>4. ASSUME NEW p \in Nat, p >= 1, NEW q \in 0 .. n
      PROVE  Digital(s, p, q) <=> Digital(d, p, q)
  <2>1. \A k \in p .. q : k \in 1 .. n
    BY <1>0, <1>4
  <2> QED
    BY <1>3, <2>1, Zenon DEF Digital
<1>5. ASSUME NEW a \in 0 .. 1, NEW b \in 0 .. n, NEW c \in 0 .. n
      PROVE  NumberAt(s, n, a, b, c) <=> NumberAt(d, n, a, b, c)
  <2>1. At(s, 1) = At(d, 1)
    BY <1>0, <1>3
  <2>2. a + 1 <= b => At(s, a + 1) = At(d, a + 1)
    BY <1>0, <1>3
  <2>3. b + 2 <= c => At(s, b + 1) = At(d, b + 1)
    BY <1>0, <1>3
  <2>4. c + 2 <= n => At(s, c + 1) = At(d, c + 1)
    BY <1>0, <1>3
  <2>5. c + 3 <= n => c + 2 <= n /\ At(s, c + 2) = At(d, c + 2)
    BY <1>0, <1>3
  <2>6. /\ Digital(s, a + 1, b) <=> Digital(d, a + 1, b)
        /\ Digital(s, b + 2, c) <=> Digital(d, b + 2, c)
        /\ Digital(s, c + 2, n) <=> Digital(d, c + 2, n)
        /\ Digital(s, c + 3, n) <=> Digital(d, c + 3, n)
    <3>1. /\ a + 1 \in Nat /\ a + 1 >= 1 /\ b + 2 \in Nat /\ b + 2 >= 1 /\ c + 2 \in Nat
          /\ c + 2 >= 1 /\ c + 3 \in Nat /\ c + 3 >= 1 /\ n \in 0 .. n
      BY <1>0
    <3> QED
      BY <1>4, <3>1, Zenon
  <2> QED
    BY <2>1, <2>2, <2>3, <2>4, <2>5, <2>6, Zenon DEF NumberAt
<1> QED
  BY <1>2, <1>5, Zenon DEF s

-----------------------------------------------------------------------------
(* The scan of digits. *)

\* Where the first byte that is no digit stands.
DigitsEnd(d, i, j) == j \in i .. Len(d) + 1 /\ At(d, j) \notin Digits /\ Digital(d, i, j - 1)

\* There is no byte past the end.
LEMMA NoByteAfter ==
  ASSUME NEW d \in Seq(Byte)
  PROVE  At(d, Len(d) + 1) = NoByte
<1>1. Len(d) \in Nat /\ Len(d) + 1 \notin 1 .. Len(d)
  OBVIOUS
<1> QED
  BY <1>1, BytesRead

\* Digits end somewhere, and only there.
LEMMA DigitsHaveAnEnd ==
  ASSUME NEW d \in Seq(Byte), NEW i \in 1 .. Len(d) + 1
  PROVE  /\ \E j : DigitsEnd(d, i, j)
         /\ \A j : DigitsEnd(d, i, j) => SkipAll(d, i, Digits) = j
<1> DEFINE N == Len(d) + 1
           P == {k \in 1 .. N : \E j : DigitsEnd(d, k, j)}
<1>0. Len(d) \in Nat /\ N \in Nat /\ 1 \in Nat /\ N = Len(d) + 1
  OBVIOUS
<1>1. ASSUME NEW k \in 1 .. N, \A m \in k + 1 .. N : m \in P
      PROVE  \E j : DigitsEnd(d, k, j)
  <2>1. CASE At(d, k) \notin Digits
    <3>1. k \in k .. N /\ \A m \in k .. k - 1 : FALSE
      BY <1>0
    <3> QED
      BY <1>0, <2>1, <3>1 DEF DigitsEnd, Digital
  <2>2. CASE At(d, k) \in Digits
    <3>1. k # N
      BY <1>0, <2>2, NoByteAfter, SymbolsDiffer
    <3>2. k + 1 \in k + 1 .. N
      BY <1>0, <3>1
    <3>3. k + 1 \in P
      BY <1>1, <3>2
    <3>4. PICK j : DigitsEnd(d, k + 1, j)
      BY <3>3
    <3> HIDE DEF P
    <3>5. j \in k + 1 .. N /\ At(d, j) \notin Digits /\ Digital(d, k + 1, j - 1)
      BY <3>4 DEF DigitsEnd
    <3>6. j \in k .. N
      BY <1>0, <3>5
    <3>7. Digital(d, k, j - 1)
      <4>1. \A m \in k .. j - 1 : m = k \/ m \in k + 1 .. j - 1
        BY <1>0, <3>5
      <4> QED
        BY <2>2, <3>5, <4>1 DEF Digital
    <3>8. DigitsEnd(d, k, j)
      BY <3>5, <3>6, <3>7 DEF DigitsEnd
    <3> QED
      BY <3>8
  <2> QED
    BY <2>1, <2>2
<1>2. \A k \in 1 .. N : (\A m \in k + 1 .. N : m \in P) => k \in P
  BY <1>1
<1> HIDE DEF P
<1>3. 1 .. N \subseteq P
  <2>1. 1 \in Nat /\ N \in Nat
    BY <1>0
  <2> HIDE DEF N
  <2> QED
    BY <1>2, <2>1, LastToFirst
<1>4. \E j : DigitsEnd(d, i, j)
  BY <1>3 DEF P
<1>5. ASSUME NEW j, NEW m, DigitsEnd(d, i, j), DigitsEnd(d, i, m) PROVE m = j
  <2>1. j \in i .. N /\ m \in i .. N /\ i \in 1 .. N
    BY <1>5 DEF DigitsEnd
  <2>2. ~ (j < m)
    <3>1. j < m => j \in i .. m - 1
      BY <1>0, <2>1
    <3> QED
      BY <1>5, <3>1, Zenon DEF DigitsEnd, Digital
  <2>3. ~ (m < j)
    <3>1. m < j => m \in i .. j - 1
      BY <1>0, <2>1
    <3> QED
      BY <1>5, <3>1, Zenon DEF DigitsEnd, Digital
  <2> QED
    BY <1>0, <2>1, <2>2, <2>3
<1>6. SkipAll(d, i, Digits) = CHOOSE j \in i .. Len(d) + 1 : At(d, j) \notin Digits /\ Digital(d, i, j - 1)
  BY Zenon DEF SkipAll, Digital
<1>7. DigitsEnd(d, i, SkipAll(d, i, Digits))
  BY <1>4, <1>6, Zenon DEF DigitsEnd
<1> QED
  BY <1>4, <1>5, <1>7, Zenon

\* Digits that must be there: read to their end, or refused.
LEMMA DigitsRead ==
  ASSUME NEW d \in Seq(Byte), NEW i \in 1 .. Len(d) + 1
  PROVE  \/ SomeDigits(d, i) = Fail /\ At(d, i) \notin Digits
         \/ SomeDigits(d, i) \in i + 1 .. Len(d) + 1 /\ Digital(d, i, SomeDigits(d, i) - 1)
<1> DEFINE e == SkipAll(d, i, Digits)
<1>1. DigitsEnd(d, i, e)
  BY DigitsHaveAnEnd, Zenon
<1> HIDE DEF e
<1>2. CASE At(d, i) \in Digits
  <2>1. e # i /\ e \in i .. Len(d) + 1
    BY <1>1, <1>2 DEF DigitsEnd
  <2>2. e \in i + 1 .. Len(d) + 1
    BY <2>1
  <2>3. SomeDigits(d, i) = e
    BY <1>2 DEF SomeDigits, e
  <2> QED
    BY <1>1, <2>2, <2>3, Zenon DEF DigitsEnd
<1>3. CASE At(d, i) \notin Digits
  BY <1>3 DEF SomeDigits
<1> QED
  BY <1>2, <1>3

\* Digits followed by something else are read to their end.
LEMMA DigitsTaken ==
  ASSUME NEW d \in Seq(Byte), NEW i \in 1 .. Len(d) + 1, NEW j \in i + 1 .. Len(d) + 1,
         Digital(d, i, j - 1), At(d, j) \notin Digits
  PROVE  SomeDigits(d, i) = j
<1>1. j \in i .. Len(d) + 1 /\ i \in i .. j - 1
  OBVIOUS
<1>2. SkipAll(d, i, Digits) = j
  BY <1>1, DigitsHaveAnEnd, Zenon DEF DigitsEnd
<1>3. At(d, i) \in Digits
  BY <1>1 DEF Digital
<1> QED
  BY <1>2, <1>3 DEF SomeDigits

-----------------------------------------------------------------------------
(* The scanner's numbers are the numbers. *)

\* What it takes for a number is one.
LEMMA NumbersTaken ==
  ASSUME NEW d \in Seq(Byte), ValidateNumber(d, 1) # Fail
  PROVE  /\ ValidateNumber(d, 1) - 1 \in 1 .. Len(d)
         /\ IsNumber(SubSeq(d, 1, ValidateNumber(d, 1) - 1))
<1> DEFINE N == Len(d) + 1
           lead == IF At(d, 1) = Minus THEN 2 ELSE 1
           int == IF At(d, lead) = Zero THEN lead + 1 ELSE SomeDigits(d, lead)
           frac == IF At(d, int) = Dot THEN SomeDigits(d, int + 1) ELSE int
           digits == IF At(d, frac + 1) \in Signs THEN frac + 2 ELSE frac + 1
           end == IF At(d, frac) \in Exponents THEN SomeDigits(d, digits) ELSE frac
<1>0. Len(d) \in Nat /\ N = Len(d) + 1 /\ N \in Nat
  OBVIOUS
<1>1. ValidateNumber(d, 1) = end
  BY DEF ValidateNumber
<1>2. At(d, Fail) = NoByte
  BY <1>0, BytesRead DEF Fail
<1>3. ASSUME NEW k, At(d, k) # NoByte PROVE k \in 1 .. Len(d) /\ k + 1 \in 1 .. N
  BY <1>0, <1>3, BytesRead
<1>4. lead \in 1 .. N /\ (lead = 1 \/ (lead = 2 /\ At(d, 1) = Minus))
  BY <1>0, <1>3, SymbolsDiffer
<1>5. int = Fail \/ ( /\ int \in lead + 1 .. N /\ Digital(d, lead, int - 1)
                      /\ At(d, lead) = Zero => int = lead + 1 )
  <2> DEFINE e == SomeDigits(d, lead)
  <2>1. \/ e = Fail
        \/ e \in lead + 1 .. N /\ Digital(d, lead, e - 1)
    BY <1>4, DigitsRead
  <2> HIDE DEF lead, e
  <2>2. CASE At(d, lead) = Zero
    <3>1. lead + 1 \in lead + 1 .. N
      BY <1>3, <1>4, <2>2, SymbolsDiffer
    <3>2. \A k \in lead .. (lead + 1) - 1 : k = lead
      BY <1>4
    <3>3. Digital(d, lead, (lead + 1) - 1)
      BY <2>2, <3>2, SymbolsDiffer DEF Digital
    <3>4. int = lead + 1
      BY <2>2
    <3> HIDE DEF int
    <3> QED
      BY <3>1, <3>3, <3>4
  <2>3. CASE At(d, lead) # Zero
    <3>1. int = e
      BY <2>3 DEF e
    <3> HIDE DEF int
    <3> QED
      BY <2>1, <2>3, <3>1
  <2> QED
    BY <2>2, <2>3
<1>6. At(d, int) = Dot => frac = SomeDigits(d, int + 1)
  OBVIOUS
<1>7. At(d, int) # Dot => frac = int
  OBVIOUS
<1> HIDE DEF int, lead
<1>8. frac = Fail \/ ( /\ int # Fail /\ frac \in int .. N
                       /\ \/ frac = int
                          \/ At(d, int) = Dot /\ frac \in int + 2 .. N /\ Digital(d, int + 1, frac - 1) )
  <2>1. CASE int = Fail
    <3>1. At(d, int) # Dot
      BY <1>2, <2>1, SymbolsDiffer
    <3> HIDE DEF frac
    <3> QED
      BY <1>7, <2>1, <3>1
  <2>2. CASE int # Fail /\ At(d, int) = Dot
    <3> DEFINE e == SomeDigits(d, int + 1)
    <3>1. int + 1 \in 1 .. N
      BY <1>3, <2>2, SymbolsDiffer
    <3>2. e = Fail \/ (e \in (int + 1) + 1 .. N /\ Digital(d, int + 1, e - 1))
      BY <3>1, DigitsRead
    <3>3. frac = e
      BY <1>6, <2>2
    <3> HIDE DEF frac, e
    <3>4. e \in (int + 1) + 1 .. N => e \in int + 2 .. N /\ e \in int .. N
      BY <1>0, <1>4, <1>5, <2>2
    <3> QED
      BY <2>2, <3>2, <3>3, <3>4
  <2>3. CASE int # Fail /\ At(d, int) # Dot
    <3>1. int \in int .. N
      BY <1>0, <1>4, <1>5, <2>3
    <3> HIDE DEF frac
    <3> QED
      BY <1>7, <2>3, <3>1
  <2> QED
    BY <2>1, <2>2, <2>3
<1>9. digits = (IF At(d, frac + 1) \in Signs THEN frac + 2 ELSE frac + 1)
  OBVIOUS
<1>10. At(d, frac) \in Exponents => end = SomeDigits(d, digits)
  OBVIOUS
<1>11. At(d, frac) \notin Exponents => end = frac
  OBVIOUS
<1> HIDE DEF frac, digits
<1>12. /\ frac # Fail
       /\ \/ end = frac
          \/ /\ At(d, frac) \in Exponents
             /\ \/ end \in frac + 2 .. N /\ Digital(d, frac + 1, end - 1)
                \/ At(d, frac + 1) \in Signs /\ end \in frac + 3 .. N /\ Digital(d, frac + 2, end - 1)
  <2>1. end # Fail
    BY <1>1
  <2>2. frac # Fail
    <3> HIDE DEF end
    <3> QED
      BY <1>2, <1>11, <2>1, SymbolsDiffer
  <2>3. CASE At(d, frac) \in Exponents
    <3> DEFINE e == SomeDigits(d, digits)
    <3>1. frac + 1 \in 1 .. N /\ frac \in 1 .. Len(d)
      BY <1>3, <2>3, SymbolsDiffer
    <3>2. digits \in 1 .. N
      <4>1. CASE At(d, frac + 1) \in Signs
        <5>1. (frac + 1) + 1 \in 1 .. N /\ (frac + 1) + 1 = frac + 2
          BY <1>3, <3>1, <4>1, SymbolsDiffer
        <5> QED
          BY <1>9, <4>1, <5>1
      <4>2. CASE At(d, frac + 1) \notin Signs
        BY <1>9, <3>1, <4>2
      <4> QED
        BY <4>1, <4>2
    <3>3. e = Fail \/ (e \in digits + 1 .. N /\ Digital(d, digits, e - 1))
      BY <3>2, DigitsRead
    <3>4. end = e
      BY <1>10, <2>3
    <3> HIDE DEF end, e
    <3>5. CASE At(d, frac + 1) \in Signs
      <4>1. digits = frac + 2 /\ (frac + 2) + 1 = frac + 3
        BY <1>9, <3>1, <3>5
      <4> QED
        BY <2>1, <2>2, <2>3, <3>3, <3>4, <3>5, <4>1
    <3>6. CASE At(d, frac + 1) \notin Signs
      <4>1. digits = frac + 1 /\ (frac + 1) + 1 = frac + 2
        BY <1>9, <3>1, <3>6
      <4> QED
        BY <2>1, <2>2, <2>3, <3>3, <3>4, <4>1
    <3> QED
      BY <3>5, <3>6
  <2>4. CASE At(d, frac) \notin Exponents
    <3> HIDE DEF end
    <3> QED
      BY <1>11, <2>2, <2>4
  <2> QED
    BY <2>3, <2>4
<1> HIDE DEF end, N
<1>13. /\ int \in lead + 1 .. N /\ Digital(d, lead, int - 1)
       /\ At(d, lead) = Zero => int = lead + 1
  BY <1>5, <1>8, <1>12
<1>14. /\ frac \in int .. N
       /\ \/ frac = int
          \/ At(d, int) = Dot /\ frac \in int + 2 .. N /\ Digital(d, int + 1, frac - 1)
  BY <1>8, <1>12
<1>15. end \in Int /\ lead \in Int /\ int \in Int /\ frac \in Int
  BY <1>0, <1>4, <1>12, <1>13, <1>14
<1>16. /\ lead - 1 \in 0 .. 1 /\ int - 1 \in 0 .. end - 1 /\ frac - 1 \in 0 .. end - 1
       /\ end - 1 \in 1 .. Len(d)
  BY <1>0, <1>4, <1>12, <1>13, <1>14
<1>17. NumberAt(d, end - 1, lead - 1, int - 1, frac - 1)
  <2>1. /\ (lead - 1) + 1 = lead /\ (int - 1) + 1 = int /\ (int - 1) + 2 = int + 1
        /\ (frac - 1) + 1 = frac /\ (frac - 1) + 2 = frac + 1 /\ (frac - 1) + 3 = frac + 2
    BY <1>15
  <2>2. /\ lead - 1 <= int - 1 /\ int - 1 <= frac - 1 /\ (lead - 1 = 1 => lead = 2)
        /\ (lead - 1) + 1 <= int - 1
        /\ int = lead + 1 => int - 1 = (lead - 1) + 1
        /\ frac = int => frac - 1 = int - 1
        /\ end = frac => frac - 1 = end - 1
        /\ frac \in int + 2 .. N => (int - 1) + 2 <= frac - 1
        /\ end \in frac + 2 .. N => (frac - 1) + 2 <= end - 1
        /\ end \in frac + 3 .. N => (frac - 1) + 3 <= end - 1
    BY <1>0, <1>4, <1>13, <1>14, <1>15
  <2>3. lead - 1 = 1 => At(d, 1) = Minus
    BY <1>4, <2>2
  <2>4. /\ Digital(d, (lead - 1) + 1, int - 1)
        /\ At(d, (lead - 1) + 1) = Zero => int - 1 = (lead - 1) + 1
    BY <1>13, <2>1, <2>2, Zenon
  <2>5. \/ frac - 1 = int - 1
        \/ /\ At(d, (int - 1) + 1) = Dot /\ (int - 1) + 2 <= frac - 1
           /\ Digital(d, (int - 1) + 2, frac - 1)
    BY <1>14, <2>1, <2>2, Zenon
  <2>6. \/ frac - 1 = end - 1
        \/ /\ At(d, (frac - 1) + 1) \in Exponents
           /\ \/ (frac - 1) + 2 <= end - 1 /\ Digital(d, (frac - 1) + 2, end - 1)
              \/ /\ At(d, (frac - 1) + 2) \in Signs /\ (frac - 1) + 3 <= end - 1
                 /\ Digital(d, (frac - 1) + 3, end - 1)
    BY <1>12, <2>1, <2>2, Zenon
  <2> QED
    BY <2>2, <2>3, <2>4, <2>5, <2>6, Zenon DEF NumberAt
<1>18. IsNumber(SubSeq(d, 1, end - 1))
  BY <1>16, <1>17, NumbersBegin, Zenon
<1> QED
  BY <1>1, <1>16, <1>18

\* A text that is a number is taken for one, to its last byte.
LEMMA NumbersFound ==
  ASSUME NEW d \in Seq(Byte), Len(d) \in 1 .. Len(d), IsNumber(SubSeq(d, 1, Len(d)))
  PROVE  ValidateNumber(d, 1) = Len(d) + 1
<1> DEFINE n == Len(d)
           N == n + 1
           lead == IF At(d, 1) = Minus THEN 2 ELSE 1
           int == IF At(d, lead) = Zero THEN lead + 1 ELSE SomeDigits(d, lead)
           frac == IF At(d, int) = Dot THEN SomeDigits(d, int + 1) ELSE int
           digits == IF At(d, frac + 1) \in Signs THEN frac + 2 ELSE frac + 1
           end == IF At(d, frac) \in Exponents THEN SomeDigits(d, digits) ELSE frac
<1>0. n \in Nat /\ n >= 1 /\ N = n + 1 /\ n = Len(d)
  OBVIOUS
<1>1. ValidateNumber(d, 1) = end
  BY DEF ValidateNumber
<1>2. PICK a \in 0 .. 1, b \in 0 .. n, c \in 0 .. n : NumberAt(d, n, a, b, c)
  BY NumbersBegin
<1>3. At(d, N) = NoByte
  BY NoByteAfter
<1>i. /\ lead = (IF At(d, 1) = Minus THEN 2 ELSE 1)
      /\ int = (IF At(d, lead) = Zero THEN lead + 1 ELSE SomeDigits(d, lead))
      /\ frac = (IF At(d, int) = Dot THEN SomeDigits(d, int + 1) ELSE int)
      /\ digits = (IF At(d, frac + 1) \in Signs THEN frac + 2 ELSE frac + 1)
      /\ end = (IF At(d, frac) \in Exponents THEN SomeDigits(d, digits) ELSE frac)
  OBVIOUS
<1> HIDE DEF n, N, lead, int, frac, digits, end
<1>4. ASSUME NEW i \in 1 .. N, NEW j \in i + 1 .. N, Digital(d, i, j - 1), At(d, j) \notin Digits
      PROVE  SomeDigits(d, i) = j
  <2>1. i \in 1 .. Len(d) + 1 /\ j \in i + 1 .. Len(d) + 1
    BY <1>0
  <2> QED
    BY <1>4, <2>1, DigitsTaken
<1>5. /\ a \in Int /\ b \in Int /\ c \in Int /\ a + 1 <= b /\ b <= c /\ c <= n
      /\ a = 0 \/ a = 1
  BY <1>0, <1>2, SMT DEF NumberAt
<1>6. At(d, c + 1) \notin Digits /\ At(d, c + 1) # Dot
  <2>1. CASE c = n
    BY <1>0, <1>3, <2>1, SymbolsDiffer
  <2>2. CASE c # n
    BY <1>2, <2>2, SymbolsDiffer DEF NumberAt
  <2> QED
    BY <2>1, <2>2
<1>7. At(d, b + 1) \notin Digits
  <2>1. CASE c = b
    BY <1>6, <2>1
  <2>2. CASE c # b
    BY <1>2, <2>2, SymbolsDiffer DEF NumberAt
  <2> QED
    BY <2>1, <2>2
<1>8. At(d, a + 1) \in Digits
  <2>1. a + 1 \in a + 1 .. b
    BY <1>5
  <2> QED
    BY <1>2, <2>1, Zenon DEF NumberAt, Digital
<1>9. lead = a + 1
  <2>1. CASE a = 0
    <3>1. At(d, 1) \in Digits
      BY <1>8, <2>1
    <3> QED
      BY <1>i, <2>1, <3>1, SymbolsDiffer
  <2>2. CASE a = 1
    <3>1. At(d, 1) = Minus
      BY <1>2, <2>2 DEF NumberAt
    <3> QED
      BY <1>i, <2>2, <3>1
  <2> QED
    BY <1>5, <2>1, <2>2
<1>10. int = b + 1
  <2>1. CASE At(d, a + 1) = Zero
    <3>1. b = a + 1
      BY <1>2, <2>1, Zenon DEF NumberAt
    <3> QED
      BY <1>i, <1>9, <2>1, <3>1
  <2>2. CASE At(d, a + 1) # Zero
    <3>1. a + 1 \in 1 .. N /\ b + 1 \in (a + 1) + 1 .. N /\ (b + 1) - 1 = b
      BY <1>0, <1>5
    <3>2. Digital(d, a + 1, (b + 1) - 1)
      BY <1>2, <3>1, Zenon DEF NumberAt
    <3>3. SomeDigits(d, a + 1) = b + 1
      BY <1>4, <1>7, <3>1, <3>2
    <3> QED
      BY <1>i, <1>9, <2>2, <3>3
  <2> QED
    BY <2>1, <2>2
<1>11. frac = c + 1
  <2>1. CASE c = b
    BY <1>i, <1>6, <1>10, <2>1
  <2>2. CASE c # b
    <3>1. At(d, b + 1) = Dot /\ b + 2 <= c /\ Digital(d, b + 2, c)
      BY <1>2, <2>2, Zenon DEF NumberAt
    <3>2. /\ b + 2 \in 1 .. N /\ c + 1 \in (b + 2) + 1 .. N /\ (c + 1) - 1 = c
          /\ (b + 1) + 1 = b + 2
      BY <1>0, <1>5, <3>1
    <3>3. SomeDigits(d, b + 2) = c + 1
      BY <1>4, <1>6, <3>1, <3>2
    <3> QED
      BY <1>i, <1>10, <3>1, <3>2, <3>3
  <2> QED
    BY <2>1, <2>2
<1>12. end = N
  <2>1. CASE c = n
    <3>1. At(d, frac) = NoByte /\ frac = N
      BY <1>0, <1>3, <1>11, <2>1
    <3> QED
      BY <1>i, <3>1, SymbolsDiffer
  <2>2. CASE c # n
    <3>1. /\ At(d, c + 1) \in Exponents
          /\ \/ c + 2 <= n /\ Digital(d, c + 2, n)
             \/ At(d, c + 2) \in Signs /\ c + 3 <= n /\ Digital(d, c + 3, n)
      BY <1>2, <2>2, Zenon DEF NumberAt
    <3>2. end = SomeDigits(d, digits)
      BY <1>i, <1>11, <3>1
    <3>3. (c + 1) + 1 = c + 2 /\ (c + 1) + 2 = c + 3 /\ N - 1 = n
      BY <1>0, <1>5
    <3>4. At(d, N) \notin Digits
      BY <1>3, SymbolsDiffer
    <3>5. CASE c + 2 <= n /\ Digital(d, c + 2, n)
      <4>1. c + 2 \in c + 2 .. n
        BY <1>0, <1>5, <3>5
      <4>2. At(d, c + 2) \in Digits
        BY <3>5, <4>1, Zenon DEF Digital
      <4>3. At(d, c + 2) \notin Signs
        BY <4>2, SymbolsDiffer
      <4>4. digits = c + 2
        BY <1>i, <1>11, <3>3, <4>3
      <4>5. c + 2 \in 1 .. N /\ N \in (c + 2) + 1 .. N
        BY <1>0, <1>5, <3>5
      <4>6. Digital(d, c + 2, N - 1)
        BY <3>3, <3>5
      <4> QED
        BY <1>4, <3>2, <3>4, <4>4, <4>5, <4>6
    <3>6. CASE At(d, c + 2) \in Signs /\ c + 3 <= n /\ Digital(d, c + 3, n)
      <4>1. digits = c + 3
        BY <1>i, <1>11, <3>3, <3>6
      <4>2. c + 3 \in 1 .. N /\ N \in (c + 3) + 1 .. N
        BY <1>0, <1>5, <3>6
      <4>3. Digital(d, c + 3, N - 1)
        BY <3>3, <3>6
      <4> QED
        BY <1>4, <3>2, <3>4, <4>1, <4>2, <4>3
    <3> QED
      BY <3>1, <3>5, <3>6
  <2> QED
    BY <2>1, <2>2
<1> QED
  BY <1>0, <1>1, <1>12

\* The scanner's numbers are JSON's, as NumbersAreJson says.
LEMMA ScannerFindsNumbers ==
  ASSUME text \in Seq(Byte)
  PROVE  NumbersAreJson
<1> DEFINE end == ValidateNumber(text, 1)
           numbers == {k \in 1 .. Len(text) : IsNumber(SubSeq(text, 1, k))}
<1>1. end # Fail => end - 1 \in numbers
  BY NumbersTaken
<1>2. Len(text) \in numbers => end = Len(text) + 1
  BY NumbersFound
<1> QED
  BY <1>1, <1>2, Zenon DEF NumbersAreJson

\* The scanner takes for a number what JSON's grammar calls one, in any text
\* (client_data.rs validate_number).
THEOREM NumbersAreNumbers == LexemesSpec => []NumbersAreJson
<1>1. AnyText => NumbersAreJson
  BY ScannerFindsNumbers DEF AnyText
<1> QED
  BY <1>1, TextsStay, PTL

===============================================================================
