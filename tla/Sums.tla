--------------------------------- MODULE Sums ---------------------------------
(***************************************************************************)
(* Facts about SumFunctionOnSet, the sums of amounts the ledger's          *)
(* properties speak of.  The recursion it is defined by is shown to have a *)
(* solution and to pick its elements in an order that does not matter.     *)
(* Every induction here is on a set of numbers or of finite sets that is   *)
(* closed under the step, so that no lemma has an operator as parameter.   *)
(***************************************************************************)
EXTENDS Integers, FiniteSets, Functions, FiniteSetTheorems, WellFoundedInduction, TLAPS

-----------------------------------------------------------------------------
(* Induction. *)

\* A set of numbers that holds 0 and with each number the next holds them all.
LEMMA NatClosed ==
  ASSUME NEW A \in SUBSET Nat, 0 \in A, \A n \in A : n + 1 \in A
  PROVE  A = Nat
<1> DEFINE T == Nat \ A
<1> SUFFICES ASSUME T # {} PROVE FALSE
  OBVIOUS
<1>1. PICK x \in T : \A y \in T : ~ (<<y, x>> \in OpToRel(<, Nat))
  <2> HIDE DEF T
  <2>1. T \subseteq Nat
    BY DEF T
  <2> QED
    BY <2>1, WFMin, NatLessThanWellFounded
<1>2. x \in Nat \ {0}
  OBVIOUS
<1>3. x - 1 \in Nat /\ x - 1 < x
  BY <1>2
<1>4. <<x - 1, x>> \in OpToRel(<, Nat)
  BY <1>2, <1>3 DEF OpToRel
<1>5. x - 1 \in A
  BY <1>1, <1>3, <1>4
<1> QED
  BY <1>2, <1>5

\* A set of subsets of S that holds the empty one and with each subset those
\* of one element more holds them all.
LEMMA SubsetsClosed ==
  ASSUME NEW S, IsFiniteSet(S), NEW A \in SUBSET (SUBSET S), {} \in A,
         \A T \in SUBSET S : \A x \in T : T \ {x} \in A => T \in A
  PROVE  A = SUBSET S
<1> DEFINE N == {n \in Nat : \A T \in SUBSET S : Cardinality(T) = n => T \in A}
<1>1. \A T \in SUBSET S : IsFiniteSet(T) /\ Cardinality(T) \in Nat
  BY FS_Subset, FS_CardinalityType
<1>2. 0 \in N
  BY <1>1, FS_EmptySet
<1>3. ASSUME NEW n \in N PROVE n + 1 \in N
  <2>1. n + 1 \in Nat
    OBVIOUS
  <2>2. ASSUME NEW T \in SUBSET S, Cardinality(T) = n + 1 PROVE T \in A
    <3>1. PICK x : x \in T
      BY <2>2, FS_EmptySet
    <3>2. Cardinality(T \ {x}) = n /\ T \ {x} \in SUBSET S
      BY <1>1, <2>2, <3>1, FS_RemoveElement
    <3> QED
      BY <1>3, <3>1, <3>2
  <2> QED
    BY <2>1, <2>2
<1>4. N = Nat
  <2>1. N \in SUBSET Nat
    OBVIOUS
  <2> HIDE DEF N
  <2> QED
    BY <1>2, <1>3, <2>1, NatClosed
<1> QED
  BY <1>1, <1>4

-----------------------------------------------------------------------------
(* The recursion. *)

Pick(s) == CHOOSE x \in s : TRUE
Entry(f, s, g) == IF s = {} THEN 0 ELSE f[Pick(s)] + g[s \ {Pick(s)}]
Table(f, S, g) == [s \in SUBSET S |-> Entry(f, s, g)]

LEMMA SumIsEntry ==
  ASSUME NEW f, NEW S
  PROVE  SumFunctionOnSet(f, S) = (CHOOSE g : g = Table(f, S, g))[S]
  BY DEF SumFunctionOnSet, FoldFunctionOnSet, MapThenFoldSet, Table, Entry, Pick

LEMMA PickIn == ASSUME NEW s, s # {} PROVE Pick(s) \in s
  BY DEF Pick

\* The recursion has a solution: one that is right for the sets of up to n
\* elements gives one that is right for those of n + 1.
LEMMA TableExists ==
  ASSUME NEW f, NEW S, IsFiniteSet(S)
  PROVE  \E g : g = Table(f, S, g)
<1> DEFINE Right(g, n) == \A s \in SUBSET S : Cardinality(s) <= n => g[s] = Entry(f, s, g)
           N == {n \in Nat : \E g : Right(g, n)}
<1>1. \A s \in SUBSET S : IsFiniteSet(s) /\ Cardinality(s) \in Nat
  BY FS_Subset, FS_CardinalityType
<1>2. 0 \in N
  <2> DEFINE h == [s \in SUBSET S |-> 0]
  <2>1. \A s \in SUBSET S : Cardinality(s) <= 0 => s = {}
    BY <1>1, FS_EmptySet
  <2>2. Right(h, 0)
    BY <2>1 DEF Entry
  <2> QED
    BY <2>2
<1>3. ASSUME NEW n \in N PROVE n + 1 \in N
  <2>1. PICK g : Right(g, n)
    BY <1>3
  <2> DEFINE h == [s \in SUBSET S |-> Entry(f, s, g)]
  <2>2. ASSUME NEW s \in SUBSET S, Cardinality(s) <= n PROVE h[s] = g[s]
    BY <2>1, <2>2
  <2>3. ASSUME NEW s \in SUBSET S, Cardinality(s) <= n + 1 PROVE h[s] = Entry(f, s, h)
    <3>1. CASE s = {}
      BY <3>1 DEF Entry
    <3>2. CASE s # {}
      <4> DEFINE r == s \ {Pick(s)}
      <4>1. r \in SUBSET S /\ Cardinality(r) = Cardinality(s) - 1
        BY <1>1, <3>2, PickIn, FS_RemoveElement
      <4>2. Cardinality(r) <= n
        BY <1>1, <2>3, <4>1
      <4>3. h[r] = g[r]
        BY <2>2, <4>1, <4>2
      <4> QED
        BY <3>2, <4>3 DEF Entry
    <3> QED
      BY <3>1, <3>2
  <2>4. n + 1 \in Nat /\ Right(h, n + 1)
    BY <2>3
  <2> HIDE DEF Right, h
  <2> QED
    BY <2>4
<1>4. N = Nat
  <2>1. N \in SUBSET Nat
    OBVIOUS
  <2> HIDE DEF N
  <2> QED
    BY <1>2, <1>3, <2>1, NatClosed
<1>5. Cardinality(S) \in Nat /\ \A s \in SUBSET S : Cardinality(s) <= Cardinality(S)
  BY FS_Subset, FS_CardinalityType
<1>6. PICK g : Right(g, Cardinality(S))
  BY <1>4, <1>5
<1> DEFINE h == Table(f, S, g)
<1>7. ASSUME NEW s \in SUBSET S PROVE h[s] = g[s]
  BY <1>5, <1>6 DEF Table
<1>8. ASSUME NEW s \in SUBSET S PROVE Entry(f, s, g) = Entry(f, s, h)
  <2>1. s # {} => s \ {Pick(s)} \in SUBSET S
    OBVIOUS
  <2> HIDE DEF h
  <2> QED
    BY <1>7, <2>1 DEF Entry
<1>9. h = Table(f, S, h)
  BY <1>8 DEF Table
<1> QED
  BY <1>9

\* Solutions for different sets agree on the subsets of both.
LEMMA TableUnique ==
  ASSUME NEW f, NEW S, NEW R \in SUBSET S, IsFiniteSet(S),
         NEW g, g = Table(f, S, g), NEW h, h = Table(f, R, h)
  PROVE  \A s \in SUBSET R : g[s] = h[s]
<1> DEFINE A == {s \in SUBSET R : g[s] = h[s]}
           N == {n \in Nat : \A s \in SUBSET R : Cardinality(s) = n => g[s] = h[s]}
<1>1. \A s \in SUBSET R : IsFiniteSet(s) /\ Cardinality(s) \in Nat
  BY FS_Subset, FS_CardinalityType
<1>2. \A s \in SUBSET R : g[s] = Entry(f, s, g) /\ h[s] = Entry(f, s, h)
  BY DEF Table
<1>3. 0 \in N
  <2>1. \A s \in SUBSET R : Cardinality(s) = 0 => s = {}
    BY <1>1, FS_EmptySet
  <2> QED
    BY <1>2, <2>1 DEF Entry
<1>4. ASSUME NEW n \in N PROVE n + 1 \in N
  <2>1. ASSUME NEW s \in SUBSET R, Cardinality(s) = n + 1 PROVE g[s] = h[s]
    <3>1. s # {}
      BY <2>1, FS_EmptySet
    <3>2. s \ {Pick(s)} \in SUBSET R /\ Cardinality(s \ {Pick(s)}) = n
      BY <1>1, <2>1, <3>1, PickIn, FS_RemoveElement
    <3>3. g[s \ {Pick(s)}] = h[s \ {Pick(s)}]
      BY <1>4, <3>2
    <3> QED
      BY <1>2, <3>1, <3>3 DEF Entry
  <2> QED
    BY <2>1
<1>5. N = Nat
  <2>1. N \in SUBSET Nat
    OBVIOUS
  <2> HIDE DEF N
  <2> QED
    BY <1>3, <1>4, <2>1, NatClosed
<1> QED
  BY <1>1, <1>5

-----------------------------------------------------------------------------
(* Sums. *)

LEMMA SumEmpty == ASSUME NEW f PROVE SumFunctionOnSet(f, {}) = 0
<1> DEFINE G == CHOOSE g : g = Table(f, {}, g)
<1>1. G = Table(f, {}, G)
  BY TableExists, FS_EmptySet
<1>2. G[{}] = 0
  <2> HIDE DEF G
  <2> QED
    BY <1>1 DEF Table, Entry
<1> QED
  BY <1>2, SumIsEntry

\* The element the definition picks is the first to be added.
LEMMA SumPicked ==
  ASSUME NEW f, NEW S, IsFiniteSet(S), S # {}
  PROVE  SumFunctionOnSet(f, S) = f[Pick(S)] + SumFunctionOnSet(f, S \ {Pick(S)})
<1> DEFINE R == S \ {Pick(S)}
           G == CHOOSE g : g = Table(f, S, g)
           H == CHOOSE g : g = Table(f, R, g)
<1>1. G = Table(f, S, G)
  BY TableExists
<1>2. H = Table(f, R, H)
  BY TableExists, FS_Subset
<1>3. SumFunctionOnSet(f, S) = G[S] /\ SumFunctionOnSet(f, R) = H[R]
  BY SumIsEntry
<1> HIDE DEF G, H
<1>4. G[R] = H[R]
  BY <1>1, <1>2, TableUnique
<1>5. G[S] = f[Pick(S)] + G[R]
  BY <1>1 DEF Table, Entry
<1> QED
  BY <1>3, <1>4, <1>5

LEMMA SumInt ==
  ASSUME NEW f, NEW S, IsFiniteSet(S), \A x \in S : f[x] \in Int
  PROVE  SumFunctionOnSet(f, S) \in Int
<1> DEFINE N == {n \in Nat : \A s \in SUBSET S : Cardinality(s) = n => SumFunctionOnSet(f, s) \in Int}
<1>1. \A s \in SUBSET S : IsFiniteSet(s) /\ Cardinality(s) \in Nat
  BY FS_Subset, FS_CardinalityType
<1>2. 0 \in N
  BY <1>1, FS_EmptySet, SumEmpty
<1>3. ASSUME NEW n \in N PROVE n + 1 \in N
  <2>1. ASSUME NEW s \in SUBSET S, Cardinality(s) = n + 1 PROVE SumFunctionOnSet(f, s) \in Int
    <3>1. s # {}
      BY <2>1, FS_EmptySet
    <3>2. /\ s \ {Pick(s)} \in SUBSET S /\ Cardinality(s \ {Pick(s)}) = n
          /\ f[Pick(s)] \in Int
      BY <1>1, <2>1, <3>1, PickIn, FS_RemoveElement
    <3>3. SumFunctionOnSet(f, s \ {Pick(s)}) \in Int
      BY <1>3, <3>2
    <3> QED
      BY <1>1, <3>1, <3>2, <3>3, SumPicked
  <2> QED
    BY <2>1
<1>4. N = Nat
  <2>1. N \in SUBSET Nat
    OBVIOUS
  <2> HIDE DEF N
  <2> QED
    BY <1>2, <1>3, <2>1, NatClosed
<1> QED
  BY <1>1, <1>4

\* Any element may be the first to be added.
LEMMA SumRemove ==
  ASSUME NEW f, NEW S, IsFiniteSet(S), \A x \in S : f[x] \in Int, NEW x \in S
  PROVE  SumFunctionOnSet(f, S) = f[x] + SumFunctionOnSet(f, S \ {x})
<1> DEFINE N == {n \in Nat : \A s \in SUBSET S : Cardinality(s) = n =>
                   \A y \in s : SumFunctionOnSet(f, s) = f[y] + SumFunctionOnSet(f, s \ {y})}
<1>1. \A s \in SUBSET S : /\ IsFiniteSet(s) /\ Cardinality(s) \in Nat
                          /\ SumFunctionOnSet(f, s) \in Int
  BY FS_Subset, FS_CardinalityType, SumInt
<1>2. 0 \in N
  BY <1>1, FS_EmptySet
<1>3. ASSUME NEW n \in N PROVE n + 1 \in N
  <2>1. ASSUME NEW s \in SUBSET S, Cardinality(s) = n + 1, NEW y \in s
        PROVE  SumFunctionOnSet(f, s) = f[y] + SumFunctionOnSet(f, s \ {y})
    <3> DEFINE p == Pick(s)
    <3>1. p \in s /\ SumFunctionOnSet(f, s) = f[p] + SumFunctionOnSet(f, s \ {p})
      BY <1>1, SumPicked, PickIn
    <3> HIDE DEF p
    <3>2. CASE p = y
      BY <3>1, <3>2
    <3>3. CASE p # y
      <4> DEFINE r == (s \ {p}) \ {y}
      <4>1. /\ s \ {p} \in SUBSET S /\ s \ {y} \in SUBSET S /\ r \in SUBSET S
            /\ y \in s \ {p} /\ p \in s \ {y} /\ (s \ {y}) \ {p} = r
        BY <3>1, <3>3
      <4>2. Cardinality(s \ {p}) = n /\ Cardinality(s \ {y}) = n
        BY <1>1, <2>1, <3>1, FS_RemoveElement
      <4>3. SumFunctionOnSet(f, s \ {p}) = f[y] + SumFunctionOnSet(f, r)
        BY <1>3, <4>1, <4>2
      <4>4. SumFunctionOnSet(f, s \ {y}) = f[p] + SumFunctionOnSet(f, r)
        BY <1>3, <4>1, <4>2
      <4>5. f[p] \in Int /\ f[y] \in Int /\ SumFunctionOnSet(f, r) \in Int
        BY <1>1, <3>1, <4>1
      <4> QED
        BY <3>1, <4>3, <4>4, <4>5
    <3> QED
      BY <3>2, <3>3
  <2>2. n + 1 \in Nat
    OBVIOUS
  <2> QED
    BY <2>1, <2>2
<1>4. N = Nat
  <2>1. N \in SUBSET Nat
    OBVIOUS
  <2> HIDE DEF N
  <2> QED
    BY <1>2, <1>3, <2>1, NatClosed
<1>5. S \in SUBSET S /\ Cardinality(S) \in N
  BY <1>1, <1>4
<1> QED
  BY <1>5

LEMMA SumAdd ==
  ASSUME NEW f, NEW S, IsFiniteSet(S), NEW x, x \notin S, \A y \in S \cup {x} : f[y] \in Int
  PROVE  SumFunctionOnSet(f, S \cup {x}) = SumFunctionOnSet(f, S) + f[x]
<1>1. (S \cup {x}) \ {x} = S /\ x \in S \cup {x} /\ IsFiniteSet(S \cup {x})
  BY FS_AddElement
<1>2. SumFunctionOnSet(f, S \cup {x}) = f[x] + SumFunctionOnSet(f, (S \cup {x}) \ {x})
  BY <1>1, SumRemove
<1>3. SumFunctionOnSet(f, S \cup {x}) = f[x] + SumFunctionOnSet(f, S)
  BY <1>1, <1>2, Zenon
<1>4. SumFunctionOnSet(f, S) \in Int /\ f[x] \in Int
  BY SumInt
<1> QED
  BY <1>3, <1>4

\* The sum depends on the values on the set alone.
LEMMA SumSame ==
  ASSUME NEW f, NEW g, NEW S, IsFiniteSet(S), \A x \in S : f[x] \in Int /\ f[x] = g[x]
  PROVE  SumFunctionOnSet(f, S) = SumFunctionOnSet(g, S)
<1> DEFINE A == {T \in SUBSET S : SumFunctionOnSet(f, T) = SumFunctionOnSet(g, T)}
<1>1. {} \in A
  BY SumEmpty
<1>2. ASSUME NEW T \in SUBSET S, NEW x \in T, T \ {x} \in A PROVE T \in A
  <2>1. IsFiniteSet(T)
    BY FS_Subset
  <2>2. SumFunctionOnSet(f, T) = f[x] + SumFunctionOnSet(f, T \ {x})
    BY <2>1, SumRemove
  <2>3. SumFunctionOnSet(g, T) = g[x] + SumFunctionOnSet(g, T \ {x})
    BY <2>1, SumRemove
  <2> QED
    BY <1>2, <2>2, <2>3
<1>3. A = SUBSET S
  <2>1. A \in SUBSET (SUBSET S)
    OBVIOUS
  <2> HIDE DEF A
  <2> QED
    BY <1>1, <1>2, <2>1, SubsetsClosed
<1> QED
  BY <1>3

\* One entry changes.
LEMMA SumChange ==
  ASSUME NEW f, NEW g, NEW S, IsFiniteSet(S), NEW x \in S,
         \A y \in S : f[y] \in Int /\ g[y] \in Int, \A y \in S \ {x} : g[y] = f[y]
  PROVE  SumFunctionOnSet(g, S) = SumFunctionOnSet(f, S) + g[x] - f[x]
<1>1. IsFiniteSet(S \ {x})
  BY FS_RemoveElement
<1>2. /\ SumFunctionOnSet(g, S) = g[x] + SumFunctionOnSet(g, S \ {x})
      /\ SumFunctionOnSet(f, S) = f[x] + SumFunctionOnSet(f, S \ {x})
  BY SumRemove
<1>3. SumFunctionOnSet(g, S \ {x}) = SumFunctionOnSet(f, S \ {x})
  BY <1>1, SumSame
<1>4. SumFunctionOnSet(f, S \ {x}) \in Int /\ f[x] \in Int /\ g[x] \in Int
  BY <1>1, SumInt
<1> QED
  BY <1>2, <1>3, <1>4

LEMMA SumNat ==
  ASSUME NEW f, NEW S, IsFiniteSet(S), \A x \in S : f[x] \in Nat
  PROVE  SumFunctionOnSet(f, S) \in Nat
<1> DEFINE A == {T \in SUBSET S : SumFunctionOnSet(f, T) \in Nat}
<1>1. {} \in A
  BY SumEmpty
<1>2. ASSUME NEW T \in SUBSET S, NEW x \in T, T \ {x} \in A PROVE T \in A
  <2>1. IsFiniteSet(T)
    BY FS_Subset
  <2>2. SumFunctionOnSet(f, T) = f[x] + SumFunctionOnSet(f, T \ {x})
    BY <2>1, SumRemove
  <2> QED
    BY <1>2, <2>2
<1>3. A = SUBSET S
  <2>1. A \in SUBSET (SUBSET S)
    OBVIOUS
  <2> HIDE DEF A
  <2> QED
    BY <1>1, <1>2, <2>1, SubsetsClosed
<1> QED
  BY <1>3

\* Of amounts that are not negative, fewer add up to less.
LEMMA SumSubset ==
  ASSUME NEW f, NEW S, IsFiniteSet(S), \A x \in S : f[x] \in Nat, NEW R \in SUBSET S
  PROVE  SumFunctionOnSet(f, R) <= SumFunctionOnSet(f, S)
<1> DEFINE A == {T \in SUBSET (S \ R) : SumFunctionOnSet(f, R) <= SumFunctionOnSet(f, R \cup T)}
<1>1. \A T \in SUBSET S : IsFiniteSet(T) /\ SumFunctionOnSet(f, T) \in Nat
  BY FS_Subset, SumNat
<1>2. {} \in A
  <2>1. R \cup {} = R /\ SumFunctionOnSet(f, R) \in Nat
    BY <1>1
  <2>2. SumFunctionOnSet(f, R \cup {}) = SumFunctionOnSet(f, R)
    BY <2>1, Zenon
  <2> QED
    BY <2>1, <2>2
<1>3. ASSUME NEW T \in SUBSET (S \ R), NEW x \in T, T \ {x} \in A PROVE T \in A
  <2>1. /\ R \cup T \in SUBSET S /\ x \in R \cup T /\ R \cup (T \ {x}) \in SUBSET S
        /\ (R \cup T) \ {x} = R \cup (T \ {x})
    OBVIOUS
  <2>2. SumFunctionOnSet(f, R \cup T) = f[x] + SumFunctionOnSet(f, (R \cup T) \ {x})
    BY <1>1, <2>1, SumRemove
  <2>3. SumFunctionOnSet(f, R \cup T) = f[x] + SumFunctionOnSet(f, R \cup (T \ {x}))
    BY <2>1, <2>2, Zenon
  <2>4. /\ SumFunctionOnSet(f, R) \in Nat /\ SumFunctionOnSet(f, R \cup (T \ {x})) \in Nat
        /\ f[x] \in Nat
    BY <1>1, <2>1
  <2>5. SumFunctionOnSet(f, R) <= SumFunctionOnSet(f, R \cup (T \ {x}))
    BY <1>3
  <2> QED
    BY <2>3, <2>4, <2>5
<1>4. A = SUBSET (S \ R)
  <2>1. A \in SUBSET (SUBSET (S \ R)) /\ IsFiniteSet(S \ R)
    BY <1>1
  <2> HIDE DEF A
  <2> QED
    BY <1>2, <1>3, <2>1, SubsetsClosed
<1>5. S \ R \in A /\ R \cup (S \ R) = S
  BY <1>4
<1>6. SumFunctionOnSet(f, R) <= SumFunctionOnSet(f, R \cup (S \ R))
  BY <1>5
<1> QED
  BY <1>5, <1>6, Zenon

\* A sum of zeros.
LEMMA SumZero ==
  ASSUME NEW f, NEW S, IsFiniteSet(S), \A x \in S : f[x] = 0
  PROVE  SumFunctionOnSet(f, S) = 0
<1> DEFINE A == {T \in SUBSET S : SumFunctionOnSet(f, T) = 0}
<1>1. {} \in A
  BY SumEmpty
<1>2. ASSUME NEW T \in SUBSET S, NEW x \in T, T \ {x} \in A PROVE T \in A
  <2>1. IsFiniteSet(T) /\ \A y \in T : f[y] \in Int
    BY FS_Subset
  <2>2. SumFunctionOnSet(f, T) = f[x] + SumFunctionOnSet(f, T \ {x})
    BY <2>1, SumRemove
  <2> QED
    BY <1>2, <2>2
<1> HIDE DEF A
<1>3. A \in SUBSET (SUBSET S)
  BY DEF A
<1>4. A = SUBSET S
  BY <1>1, <1>2, <1>3, SubsetsClosed
<1> QED
  BY <1>4 DEF A
===============================================================================
