----------------------------- MODULE Sums_proofs -----------------------------
(***************************************************************************)
(* Induction over the naturals and over the subsets of a finite set, for a     *)
(* property given as a set, and what a sum over a finite set is: it does not   *)
(* depend on the order it is added up in, on how the places are named, or on   *)
(* what the function is elsewhere.                                           *)
(***************************************************************************)
EXTENDS Functions, FiniteSetTheorems, WellFoundedInduction, TLAPS

\* Every nonempty set of naturals has a least element.
LEMMA LeastNatural ==
  ASSUME NEW S, S \subseteq Nat, S # {}
  PROVE  \E n \in S : \A m \in S : n <= m
<1> DEFINE R == OpToRel(<, Nat)
<1>1. \A m, n \in Nat : <<m, n>> \in R <=> m < n
  BY DEF OpToRel
<1>2. IsWellFoundedOn(R, Nat)
  BY NatLessThanWellFounded
<1> HIDE DEF R
<1>3. PICK n \in S : \A m \in S : ~ (<<m, n>> \in R)
  BY <1>2, WFMin
<1>4. ASSUME NEW m \in S PROVE n <= m
  <2>1. m \in Nat /\ n \in Nat /\ ~ (m < n)
    BY <1>1, <1>3
  <2> QED
    BY <2>1
<1> QED
  BY <1>4

\* Induction over the naturals: a set that holds 0 and every successor of a member
\* holds them all.
LEMMA NaturalsReached ==
  ASSUME NEW P, 0 \in P, \A n \in Nat : n \in P => n + 1 \in P
  PROVE  Nat \subseteq P
<1> SUFFICES ASSUME ~ (Nat \subseteq P) PROVE FALSE
  OBVIOUS
<1> DEFINE Missing == {n \in Nat : n \notin P}
<1>1. Missing \subseteq Nat /\ Missing # {}
  OBVIOUS
<1>2. PICK n \in Missing : \A m \in Missing : n <= m
  BY <1>1, LeastNatural
<1>3. n \in Nat /\ n # 0 /\ n - 1 \in Nat
  BY <1>2
<1>4. n - 1 \in P
  BY <1>2, <1>3
<1> QED
  BY <1>2, <1>3, <1>4

\* Induction over the subsets of a finite set: a set that holds {} and, with a set,
\* every set of one element more, holds them all.
LEMMA SubsetsReached ==
  ASSUME NEW S, IsFiniteSet(S), NEW P, {} \in P,
         \A T \in SUBSET S : \A x \in S \ T : T \in P => T \cup {x} \in P
  PROVE  \A T \in SUBSET S : T \in P
<1> SUFFICES ASSUME NEW U \in SUBSET S, U \notin P PROVE FALSE
  OBVIOUS
<1> DEFINE Sizes == {n \in Nat : \E T \in SUBSET S : T \notin P /\ Cardinality(T) = n}
<1>1. \A T \in SUBSET S : IsFiniteSet(T) /\ Cardinality(T) \in Nat
  BY FS_Subset, FS_CardinalityType
<1>2. Sizes \subseteq Nat /\ Sizes # {}
  BY <1>1
<1>3. PICK n \in Sizes : \A m \in Sizes : n <= m
  BY <1>2, LeastNatural
<1>4. PICK T \in SUBSET S : T \notin P /\ Cardinality(T) = n
  BY <1>3
<1>5. PICK x : x \in T
  BY <1>4
<1>6. T \ {x} \in SUBSET S /\ Cardinality(T \ {x}) = n - 1 /\ n - 1 \in Nat
  <2>1. Cardinality(T \ {x}) = Cardinality(T) - 1
    BY <1>1, <1>5, FS_RemoveElement
  <2>2. T \ {x} \in SUBSET S
    OBVIOUS
  <2> QED
    BY <1>1, <1>4, <2>1, <2>2
<1>7. T \ {x} \in P
  BY <1>3, <1>6
<1>8. (T \ {x}) \cup {x} = T /\ x \in S \ (T \ {x})
  BY <1>5
<1> QED
  BY <1>4, <1>6, <1>7, <1>8

-----------------------------------------------------------------------------
(* A sum is computed by recursion over the subsets of its places. *)

Picked(s) == CHOOSE x \in s : TRUE

SumBody(f, g, s) == IF s = {} THEN 0 ELSE f[Picked(s)] + g[s \ {Picked(s)}]

IsSumOn(g, f, D) == g = [s \in D |-> SumBody(f, g, s)]

Solves(g, f, S) == IsSumOn(g, f, SUBSET S)

\* The sum of the library is this recursion.
LEMMA SumUnfolds ==
  ASSUME NEW f, NEW S
  PROVE  SumFunctionOnSet(f, S) = (CHOOSE g : Solves(g, f, S))[S]
  BY Zenon
     DEF SumFunctionOnSet, FoldFunctionOnSet, MapThenFoldSet, Solves, IsSumOn, SumBody, Picked

\* What is picked from a set is one of its elements.
LEMMA PickedIsIn ==
  ASSUME NEW s, s # {}
  PROVE  Picked(s) \in s
  BY DEF Picked

\* The recursion has a solution.
LEMMA SumExists ==
  ASSUME NEW f, NEW S, IsFiniteSet(S)
  PROVE  \E g : Solves(g, f, S)
<1> DEFINE Small(n) == {s \in SUBSET S : Cardinality(s) <= n}
           P == {n \in Nat : \E g : IsSumOn(g, f, Small(n))}
<1>1. \A s \in SUBSET S :
        /\ IsFiniteSet(s) /\ Cardinality(s) \in Nat /\ Cardinality(s) <= Cardinality(S)
        /\ Cardinality(s) = 0 <=> s = {}
  BY FS_Subset, FS_CardinalityType, FS_EmptySet
<1>2. 0 \in P
  <2>1. \A s \in Small(0) : s = {}
    BY <1>1
  <2> DEFINE g == [s \in Small(0) |-> 0]
  <2>2. g = [s \in Small(0) |-> SumBody(f, g, s)]
    BY <2>1 DEF SumBody
  <2> QED
    BY <2>2 DEF IsSumOn
<1>3. ASSUME NEW n \in Nat, n \in P PROVE n + 1 \in P
  <2>1. PICK g : g = [s \in Small(n) |-> SumBody(f, g, s)]
    BY <1>3 DEF IsSumOn
  <2> DEFINE h == [s \in Small(n + 1) |-> SumBody(f, g, s)]
  <2>2. ASSUME NEW s \in Small(n) PROVE h[s] = g[s]
    <3>1. s \in Small(n + 1)
      BY <1>1
    <3> QED
      BY <2>1, <3>1
  <2>3. ASSUME NEW s \in Small(n + 1), s # {} PROVE s \ {Picked(s)} \in Small(n)
    <3>1. Picked(s) \in s
      BY <2>3, PickedIsIn
    <3>2. Cardinality(s \ {Picked(s)}) = Cardinality(s) - 1
      BY <1>1, <3>1, FS_RemoveElement
    <3> QED
      BY <1>1, <3>2
  <2> HIDE DEF Small
  <2>4. ASSUME NEW s \in Small(n + 1) PROVE SumBody(f, g, s) = SumBody(f, h, s)
    BY <2>2, <2>3 DEF SumBody
  <2>5. h = [s \in Small(n + 1) |-> SumBody(f, h, s)]
    BY <2>4
  <2>6. IsSumOn(h, f, Small(n + 1))
    BY <2>5 DEF IsSumOn
  <2> HIDE DEF h
  <2> QED
    BY <2>6
<1>4. Cardinality(S) \in P
  <2>1. Cardinality(S) \in Nat
    BY FS_CardinalityType
  <2> HIDE DEF P
  <2> QED
    BY <1>2, <1>3, <2>1, NaturalsReached
<1>5. Small(Cardinality(S)) = SUBSET S
  BY <1>1
<1> QED
  BY <1>4, <1>5 DEF Solves

\* ... and, over the subsets of any two finite sets, the same one.
LEMMA SumUnique ==
  ASSUME NEW f, NEW S, NEW T, NEW g, NEW h, IsFiniteSet(S), T \subseteq S,
         Solves(g, f, S), Solves(h, f, T)
  PROVE  g[T] = h[T]
<1> DEFINE P == {s \in SUBSET T : g[s] = h[s]}
           N == {n \in Nat : \E s \in SUBSET T : g[s] # h[s] /\ Cardinality(s) = n}
<1> SUFFICES \A s \in SUBSET T : g[s] = h[s]
  OBVIOUS
<1>1. \A s \in SUBSET T : IsFiniteSet(s) /\ Cardinality(s) \in Nat
  BY FS_Subset, FS_CardinalityType
<1>2. /\ \A s \in SUBSET T : g[s] = SumBody(f, g, s)
      /\ \A s \in SUBSET T : h[s] = SumBody(f, h, s)
  BY DEF Solves, IsSumOn
<1> SUFFICES ASSUME N # {} PROVE FALSE
  BY <1>1
<1>3. N \subseteq Nat
  OBVIOUS
<1>4. PICK n \in N : \A m \in N : n <= m
  BY <1>3, LeastNatural
<1>5. PICK s \in SUBSET T : g[s] # h[s] /\ Cardinality(s) = n
  BY <1>4
<1>6. s # {}
  BY <1>2, <1>5 DEF SumBody
<1> DEFINE r == s \ {Picked(s)}
<1>7. r \in SUBSET T /\ Cardinality(r) = n - 1 /\ n - 1 \in Nat
  <2>1. Picked(s) \in s
    BY <1>6, PickedIsIn
  <2>2. Cardinality(s \ {Picked(s)}) = Cardinality(s) - 1
    BY <1>1, <2>1, FS_RemoveElement
  <2>3. r \in SUBSET T
    OBVIOUS
  <2> QED
    BY <1>1, <1>5, <2>2, <2>3
<1>8. g[r] = h[r]
  BY <1>4, <1>7
<1> QED
  BY <1>2, <1>5, <1>6, <1>8 DEF SumBody

-----------------------------------------------------------------------------
(* Sums. *)

\* A sum is the value of a solution of the recursion.
LEMMA SumSolves ==
  ASSUME NEW f, NEW S, IsFiniteSet(S)
  PROVE  \E g : Solves(g, f, S) /\ SumFunctionOnSet(f, S) = g[S]
  BY SumExists, SumUnfolds

\* The sum over no place is 0.
LEMMA SumOfNothing ==
  ASSUME NEW f
  PROVE  SumFunctionOnSet(f, {}) = 0
<1>1. IsFiniteSet({})
  BY FS_EmptySet
<1>2. PICK g : Solves(g, f, {}) /\ SumFunctionOnSet(f, {}) = g[{}]
  BY <1>1, SumSolves
<1> QED
  BY <1>2 DEF Solves, IsSumOn, SumBody

\* The sum over a set is what is at the place picked plus the sum over the others.
LEMMA SumPicked ==
  ASSUME NEW f, NEW S, IsFiniteSet(S), S # {}
  PROVE  /\ Picked(S) \in S
         /\ SumFunctionOnSet(f, S) = f[Picked(S)] + SumFunctionOnSet(f, S \ {Picked(S)})
<1>1. PICK T : T = S \ {Picked(S)}
  OBVIOUS
<1>2. IsFiniteSet(T) /\ T \in SUBSET S
  BY <1>1, FS_RemoveElement
<1>3. PICK g : Solves(g, f, S) /\ SumFunctionOnSet(f, S) = g[S]
  BY SumSolves
<1>4. PICK h : Solves(h, f, T) /\ SumFunctionOnSet(f, T) = h[T]
  BY <1>2, SumSolves
<1>5. g[T] = h[T]
  BY <1>2, <1>3, <1>4, SumUnique
<1>6. g[S] = SumBody(f, g, S)
  BY <1>3 DEF Solves, IsSumOn
<1> QED
  BY <1>1, <1>3, <1>4, <1>5, <1>6, PickedIsIn DEF SumBody

\* Sums of naturals are naturals.
LEMMA SumIsNatural ==
  ASSUME NEW f, NEW S, IsFiniteSet(S), \A x \in S : f[x] \in Nat
  PROVE  SumFunctionOnSet(f, S) \in Nat
<1> DEFINE N == {n \in Nat : \E T \in SUBSET S :
                   Cardinality(T) = n /\ SumFunctionOnSet(f, T) \notin Nat}
<1>1. \A T \in SUBSET S : IsFiniteSet(T) /\ Cardinality(T) \in Nat
  BY FS_Subset, FS_CardinalityType
<1> SUFFICES ASSUME N # {} PROVE FALSE
  BY <1>1
<1>2. N \subseteq Nat
  OBVIOUS
<1>3. PICK n \in N : \A m \in N : n <= m
  BY <1>2, LeastNatural
<1>4. PICK T \in SUBSET S : Cardinality(T) = n /\ SumFunctionOnSet(f, T) \notin Nat
  BY <1>3
<1>5. T # {}
  BY <1>4, SumOfNothing
<1>6. PICK x \in T : SumFunctionOnSet(f, T) = f[x] + SumFunctionOnSet(f, T \ {x})
  BY <1>1, <1>5, SumPicked
<1>7. PICK U : U = T \ {x}
  OBVIOUS
<1>8. U \in SUBSET S /\ Cardinality(U) = n - 1 /\ n - 1 \in Nat
  <2>1. Cardinality(U) = Cardinality(T) - 1
    BY <1>1, <1>6, <1>7, FS_RemoveElement
  <2>2. U \in SUBSET S
    BY <1>7
  <2> QED
    BY <1>1, <1>4, <2>1, <2>2
<1>9. SumFunctionOnSet(f, U) \in Nat
  BY <1>3, <1>8
<1> QED
  BY <1>4, <1>6, <1>7, <1>9

\* Whichever place is taken out, the rest and it make up the sum.
LEMMA SumTakesOut ==
  ASSUME NEW f, NEW S, IsFiniteSet(S), \A x \in S : f[x] \in Nat, NEW x \in S
  PROVE  SumFunctionOnSet(f, S) = f[x] + SumFunctionOnSet(f, S \ {x})
<1> DEFINE Apart(T) == \A y \in T : SumFunctionOnSet(f, T) = f[y] + SumFunctionOnSet(f, T \ {y})
           N == {n \in Nat : \E T \in SUBSET S : Cardinality(T) = n /\ ~ Apart(T)}
<1>1. \A T \in SUBSET S : /\ IsFiniteSet(T) /\ Cardinality(T) \in Nat
                          /\ SumFunctionOnSet(f, T) \in Nat
  BY FS_Subset, FS_CardinalityType, SumIsNatural
<1> SUFFICES ASSUME N # {} PROVE FALSE
  BY <1>1
<1>2. N \subseteq Nat
  OBVIOUS
<1>3. PICK n \in N : \A m \in N : n <= m
  BY <1>2, LeastNatural
<1>4. PICK T \in SUBSET S : Cardinality(T) = n /\ ~ Apart(T)
  BY <1>3
<1>5. PICK y \in T : SumFunctionOnSet(f, T) # f[y] + SumFunctionOnSet(f, T \ {y})
  BY <1>4
<1>6. PICK p \in T : SumFunctionOnSet(f, T) = f[p] + SumFunctionOnSet(f, T \ {p})
  BY <1>1, <1>5, SumPicked
<1>7. PICK U, V, W : U = T \ {p} /\ V = T \ {y} /\ W = (T \ {p}) \ {y}
  OBVIOUS
<1>8. /\ U \in SUBSET S /\ Cardinality(U) = n - 1
      /\ V \in SUBSET S /\ Cardinality(V) = n - 1
      /\ n - 1 \in Nat
  <2>1. Cardinality(U) = Cardinality(T) - 1 /\ Cardinality(V) = Cardinality(T) - 1
    BY <1>1, <1>6, <1>7, FS_RemoveElement
  <2>2. IsFiniteSet(U) /\ Cardinality(U) \in Nat /\ U \in SUBSET S /\ V \in SUBSET S
    BY <1>1, <1>7
  <2> QED
    BY <1>1, <1>4, <2>1, <2>2
<1>9. Apart(U) /\ Apart(V)
  BY <1>3, <1>8
<1>10. p # y
  BY <1>5, <1>6
<1>11. SumFunctionOnSet(f, U) = f[y] + SumFunctionOnSet(f, W)
  BY <1>7, <1>9, <1>10
<1>12. SumFunctionOnSet(f, V) = f[p] + SumFunctionOnSet(f, W)
  <2>1. V \ {p} = W /\ p \in V
    BY <1>7, <1>10
  <2> QED
    BY <1>9, <2>1
<1>13. /\ f[p] \in Nat /\ f[y] \in Nat /\ SumFunctionOnSet(f, W) \in Nat
       /\ SumFunctionOnSet(f, U) \in Nat /\ SumFunctionOnSet(f, V) \in Nat
  BY <1>1, <1>7
<1> HIDE DEF Apart
<1> QED
  BY <1>5, <1>6, <1>7, <1>11, <1>12, <1>13

\* Only the values at the places count.
LEMMA SumOfEqual ==
  ASSUME NEW f, NEW g, NEW S, IsFiniteSet(S), \A x \in S : f[x] \in Nat /\ f[x] = g[x]
  PROVE  SumFunctionOnSet(f, S) = SumFunctionOnSet(g, S)
<1> DEFINE P == {T \in SUBSET S : SumFunctionOnSet(f, T) = SumFunctionOnSet(g, T)}
<1>1. {} \in P
  BY SumOfNothing
<1>2. ASSUME NEW T \in SUBSET S, NEW x \in S \ T, T \in P PROVE T \cup {x} \in P
  <2>1. PICK U : U = T \cup {x}
    OBVIOUS
  <2>2. U \in SUBSET S /\ IsFiniteSet(U) /\ x \in U /\ U \ {x} = T
    BY <1>2, <2>1, FS_Subset
  <2>3. /\ SumFunctionOnSet(f, U) = f[x] + SumFunctionOnSet(f, U \ {x})
        /\ SumFunctionOnSet(g, U) = g[x] + SumFunctionOnSet(g, U \ {x})
    BY <2>2, SumTakesOut
  <2> QED
    BY <1>2, <2>1, <2>2, <2>3
<1> HIDE DEF P
<1>3. S \in P
  BY <1>1, <1>2, SubsetsReached
<1> QED
  BY <1>3 DEF P

\* Places that hold nothing do not count.
LEMMA SumOverSupport ==
  ASSUME NEW f, NEW S, IsFiniteSet(S), \A x \in S : f[x] \in Nat,
         NEW T, T \subseteq S, \A x \in S \ T : f[x] = 0
  PROVE  SumFunctionOnSet(f, S) = SumFunctionOnSet(f, T)
<1> DEFINE P == {U \in SUBSET S : SumFunctionOnSet(f, U) = SumFunctionOnSet(f, U \cap T)}
<1>1. {} \in P
  <2>1. {} \cap T = {}
    OBVIOUS
  <2> QED
    BY <2>1, SumOfNothing
<1>2. ASSUME NEW U \in SUBSET S, NEW x \in S \ U, U \in P PROVE U \cup {x} \in P
  <2>1. PICK V : V = U \cup {x}
    OBVIOUS
  <2>2. V \in SUBSET S /\ IsFiniteSet(V) /\ x \in V /\ V \ {x} = U
    BY <1>2, <2>1, FS_Subset
  <2>3. SumFunctionOnSet(f, V) = f[x] + SumFunctionOnSet(f, U)
    BY <2>2, SumTakesOut
  <2>4. SumFunctionOnSet(f, U) = SumFunctionOnSet(f, U \cap T)
    BY <1>2
  <2>5. SumFunctionOnSet(f, U \cap T) \in Nat /\ SumFunctionOnSet(f, U) \in Nat
    <3>1. IsFiniteSet(U \cap T) /\ IsFiniteSet(U)
      BY FS_Subset
    <3> QED
      BY <3>1, SumIsNatural
  <2>6. SumFunctionOnSet(f, V \cap T) = f[x] + SumFunctionOnSet(f, U \cap T)
    <3>1. CASE x \in T
      <4>1. PICK W : W = V \cap T
        OBVIOUS
      <4>2. W \in SUBSET S /\ IsFiniteSet(W) /\ x \in W /\ W \ {x} = U \cap T
        BY <2>2, <3>1, <4>1, FS_Subset
      <4>3. SumFunctionOnSet(f, W) = f[x] + SumFunctionOnSet(f, W \ {x})
        BY <4>2, SumTakesOut
      <4> QED
        BY <4>1, <4>2, <4>3
    <3>2. CASE x \notin T
      <4>1. PICK W : W = U \cap T
        OBVIOUS
      <4>2. V \cap T = W /\ f[x] = 0
        BY <2>1, <3>2, <4>1
      <4>3. 0 + SumFunctionOnSet(f, W) = SumFunctionOnSet(f, W)
        BY <2>5, <4>1
      <4> QED
        BY <4>1, <4>2, <4>3, Zenon
    <3> QED
      BY <3>1, <3>2
  <2>7. V \in P
    BY <2>2, <2>3, <2>4, <2>6
  <2> QED
    BY <2>1, <2>7
<1> HIDE DEF P
<1>3. S \in P
  BY <1>1, <1>2, SubsetsReached
<1>4. S \cap T = T
  OBVIOUS
<1> QED
  BY <1>3, <1>4 DEF P

\* Changing one place changes the sum by as much.
LEMMA SumOfChanged ==
  ASSUME NEW f, NEW g, NEW S, IsFiniteSet(S),
         \A x \in S : f[x] \in Nat /\ g[x] \in Nat,
         NEW y \in S, \A x \in S \ {y} : g[x] = f[x]
  PROVE  /\ SumFunctionOnSet(g, S) + f[y] = SumFunctionOnSet(f, S) + g[y]
         /\ SumFunctionOnSet(g, S) \in Nat /\ SumFunctionOnSet(f, S) \in Nat
<1>1. PICK T : T = S \ {y}
  OBVIOUS
<1>2. IsFiniteSet(T) /\ \A x \in T : f[x] = g[x] /\ f[x] \in Nat
  BY <1>1, FS_RemoveElement
<1>3. SumFunctionOnSet(f, T) = SumFunctionOnSet(g, T)
  BY <1>2, SumOfEqual
<1>4. /\ SumFunctionOnSet(f, S) = f[y] + SumFunctionOnSet(f, T)
      /\ SumFunctionOnSet(g, S) = g[y] + SumFunctionOnSet(g, T)
  BY <1>1, SumTakesOut
<1>5. SumFunctionOnSet(f, T) \in Nat
  BY <1>2, SumIsNatural
<1> QED
  BY <1>3, <1>4, <1>5

\* Moving an amount from one place to another leaves the sum.
LEMMA SumOfMoved ==
  ASSUME NEW f, NEW g, NEW S, IsFiniteSet(S),
         \A x \in S : f[x] \in Nat /\ g[x] \in Nat,
         NEW y \in S, NEW z \in S, y # z, g[y] + g[z] = f[y] + f[z],
         \A x \in S \ {y, z} : g[x] = f[x]
  PROVE  SumFunctionOnSet(g, S) = SumFunctionOnSet(f, S)
<1>1. PICK T : T = S \ {y}
  OBVIOUS
<1>2. IsFiniteSet(T) /\ z \in T /\ \A x \in T : f[x] \in Nat /\ g[x] \in Nat
  BY <1>1, FS_RemoveElement
<1>3. \A x \in T \ {z} : g[x] = f[x]
  BY <1>1
<1>4. /\ SumFunctionOnSet(g, T) + f[z] = SumFunctionOnSet(f, T) + g[z]
      /\ SumFunctionOnSet(g, T) \in Nat /\ SumFunctionOnSet(f, T) \in Nat
  BY <1>2, <1>3, SumOfChanged
<1>5. /\ SumFunctionOnSet(f, S) = f[y] + SumFunctionOnSet(f, T)
      /\ SumFunctionOnSet(g, S) = g[y] + SumFunctionOnSet(g, T)
  BY <1>1, SumTakesOut
<1>6. f[y] \in Nat /\ g[y] \in Nat /\ f[z] \in Nat /\ g[z] \in Nat
  OBVIOUS
<1> QED
  BY <1>4, <1>5, <1>6

\* Naming the places otherwise leaves the sum.
LEMMA SumOfRenamed ==
  ASSUME NEW f, NEW S, IsFiniteSet(S), NEW g, NEW T, NEW m \in [S -> T],
         \A x \in S : f[x] \in Nat /\ f[x] = g[m[x]],
         \A x, y \in S : m[x] = m[y] => x = y,
         \A z \in T : \E x \in S : m[x] = z, IsFiniteSet(T)
  PROVE  SumFunctionOnSet(f, S) = SumFunctionOnSet(g, T)
<1> DEFINE Img(U) == {m[x] : x \in U}
           P == {U \in SUBSET S : SumFunctionOnSet(f, U) = SumFunctionOnSet(g, Img(U))}
<1>1. {} \in P
  <2>1. Img({}) = {}
    OBVIOUS
  <2> HIDE DEF Img
  <2> QED
    BY <2>1, SumOfNothing
<1>2. ASSUME NEW U \in SUBSET S, NEW x \in S \ U, U \in P PROVE U \cup {x} \in P
  <2>1. PICK V, W : V = U \cup {x} /\ W = Img(V)
    OBVIOUS
  <2>2. V \in SUBSET S /\ IsFiniteSet(V) /\ x \in V /\ V \ {x} = U
    BY <1>2, <2>1, FS_Subset
  <2>3. W \in SUBSET T /\ IsFiniteSet(W) /\ m[x] \in W /\ W \ {m[x]} = Img(U)
        /\ \A z \in W : g[z] \in Nat
    <3>1. W \in SUBSET T /\ m[x] \in W
      BY <2>1, <2>2
    <3>2. W \ {m[x]} = Img(U)
      BY <2>1, <2>2
    <3>3. IsFiniteSet(W)
      BY <3>1, FS_Subset
    <3>4. \A z \in W : g[z] \in Nat
      BY <2>1, <2>2
    <3> QED
      BY <3>1, <3>2, <3>3, <3>4
  <2> HIDE DEF Img
  <2>4. SumFunctionOnSet(f, V) = f[x] + SumFunctionOnSet(f, V \ {x})
    BY <2>2, SumTakesOut
  <2>5. SumFunctionOnSet(g, W) = g[m[x]] + SumFunctionOnSet(g, W \ {m[x]})
    BY <2>3, SumTakesOut
  <2> QED
    BY <1>2, <2>1, <2>2, <2>3, <2>4, <2>5
<1>3. S \in P
  <2> HIDE DEF P
  <2> QED
    BY <1>1, <1>2, SubsetsReached
<1>4. Img(S) = T
  OBVIOUS
<1> HIDE DEF Img
<1> QED
  BY <1>3, <1>4

\* A sum of smaller values is smaller.
LEMMA SumOfSmaller ==
  ASSUME NEW f, NEW g, NEW S, IsFiniteSet(S),
         \A x \in S : f[x] \in Nat /\ g[x] \in Nat /\ f[x] <= g[x]
  PROVE  SumFunctionOnSet(f, S) <= SumFunctionOnSet(g, S)
<1> DEFINE P == {T \in SUBSET S : SumFunctionOnSet(f, T) <= SumFunctionOnSet(g, T)}
<1>1. {} \in P
  BY SumOfNothing
<1>2. ASSUME NEW T \in SUBSET S, NEW x \in S \ T, T \in P PROVE T \cup {x} \in P
  <2>1. PICK U : U = T \cup {x}
    OBVIOUS
  <2>2. U \in SUBSET S /\ IsFiniteSet(U) /\ x \in U /\ U \ {x} = T /\ IsFiniteSet(T)
    BY <1>2, <2>1, FS_Subset
  <2>3. /\ SumFunctionOnSet(f, U) = f[x] + SumFunctionOnSet(f, T)
        /\ SumFunctionOnSet(g, U) = g[x] + SumFunctionOnSet(g, T)
    BY <2>2, SumTakesOut
  <2>4. SumFunctionOnSet(f, T) \in Nat /\ SumFunctionOnSet(g, T) \in Nat
    BY <2>2, SumIsNatural
  <2>5. U \in P
    BY <1>2, <2>2, <2>3, <2>4
  <2> QED
    BY <2>1, <2>5
<1> HIDE DEF P
<1>3. S \in P
  BY <1>1, <1>2, SubsetsReached
<1> QED
  BY <1>3 DEF P

\* A sum of values that two others cover is covered by their sums.
LEMMA SumOfCovered ==
  ASSUME NEW f, NEW g, NEW h, NEW S, IsFiniteSet(S),
         \A x \in S : f[x] \in Nat /\ g[x] \in Nat /\ h[x] \in Nat /\ f[x] <= g[x] + h[x]
  PROVE  SumFunctionOnSet(f, S) <= SumFunctionOnSet(g, S) + SumFunctionOnSet(h, S)
<1> DEFINE P == {T \in SUBSET S : SumFunctionOnSet(f, T)
                                   <= SumFunctionOnSet(g, T) + SumFunctionOnSet(h, T)}
<1>1. {} \in P
  BY SumOfNothing
<1>2. ASSUME NEW T \in SUBSET S, NEW x \in S \ T, T \in P PROVE T \cup {x} \in P
  <2>1. PICK U : U = T \cup {x}
    OBVIOUS
  <2>2. U \in SUBSET S /\ IsFiniteSet(U) /\ x \in U /\ U \ {x} = T /\ IsFiniteSet(T)
    BY <1>2, <2>1, FS_Subset
  <2>3. /\ SumFunctionOnSet(f, U) = f[x] + SumFunctionOnSet(f, T)
        /\ SumFunctionOnSet(g, U) = g[x] + SumFunctionOnSet(g, T)
        /\ SumFunctionOnSet(h, U) = h[x] + SumFunctionOnSet(h, T)
    BY <2>2, SumTakesOut
  <2>4. /\ SumFunctionOnSet(f, T) \in Nat /\ SumFunctionOnSet(g, T) \in Nat
        /\ SumFunctionOnSet(h, T) \in Nat
    BY <2>2, SumIsNatural
  <2>5. U \in P
    BY <1>2, <2>2, <2>3, <2>4
  <2> QED
    BY <2>1, <2>5
<1> HIDE DEF P
<1>3. S \in P
  BY <1>1, <1>2, SubsetsReached
<1> QED
  BY <1>3 DEF P

\* Leaving places out makes a sum no larger.
LEMMA SumOfFewer ==
  ASSUME NEW f, NEW S, IsFiniteSet(S), \A x \in S : f[x] \in Nat, NEW T, T \subseteq S
  PROVE  /\ SumFunctionOnSet(f, T) <= SumFunctionOnSet(f, S)
         /\ SumFunctionOnSet(f, T) \in Nat /\ SumFunctionOnSet(f, S) \in Nat
<1> DEFINE g == [x \in S |-> IF x \in T THEN f[x] ELSE 0]
<1>1. /\ \A x \in S : g[x] \in Nat /\ g[x] <= f[x]
      /\ \A x \in T : f[x] \in Nat /\ f[x] = g[x]
      /\ \A x \in S \ T : g[x] = 0
      /\ IsFiniteSet(T)
  BY FS_Subset
<1> HIDE DEF g
<1>2. SumFunctionOnSet(f, T) = SumFunctionOnSet(g, T)
  BY <1>1, SumOfEqual
<1>3. SumFunctionOnSet(g, S) = SumFunctionOnSet(g, T)
  BY <1>1, SumOverSupport
<1>4. SumFunctionOnSet(g, S) <= SumFunctionOnSet(f, S)
  BY <1>1, SumOfSmaller
<1>5. SumFunctionOnSet(f, T) \in Nat /\ SumFunctionOnSet(f, S) \in Nat
  BY <1>1, SumIsNatural
<1> QED
  BY <1>2, <1>3, <1>4, <1>5

\* g is f with n more at place y, as far as the places of S go.
AddsAt(f, g, S, y, n) ==
  /\ IsFiniteSet(S) /\ y \in S /\ n \in Nat
  /\ \A x \in S : f[x] \in Nat
  /\ \A x \in S : x # y => g[x] = f[x]
  /\ g[y] = f[y] + n

\* Adding to one place adds to the sum.
LEMMA SumOfAdded ==
  ASSUME NEW f, NEW g, NEW S, NEW y, NEW n, AddsAt(f, g, S, y, n)
  PROVE  /\ SumFunctionOnSet(f, S) \in Nat
         /\ SumFunctionOnSet(g, S) = SumFunctionOnSet(f, S) + n
<1>1. /\ \A x \in S : f[x] \in Nat /\ g[x] \in Nat
      /\ \A x \in S \ {y} : g[x] = f[x]
      /\ IsFiniteSet(S) /\ y \in S /\ n \in Nat /\ g[y] = f[y] + n
  BY DEF AddsAt
<1>2. /\ SumFunctionOnSet(g, S) + f[y] = SumFunctionOnSet(f, S) + g[y]
      /\ SumFunctionOnSet(g, S) \in Nat /\ SumFunctionOnSet(f, S) \in Nat
  BY <1>1, SumOfChanged
<1> QED
  BY <1>1, <1>2

=============================================================================
