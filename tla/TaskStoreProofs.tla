-------------------------- MODULE TaskStoreProofs ---------------------------
(***************************************************************************)
(* Proofs about TaskStore, for any number of tasks, Workers and claim      *)
(* calls.  The invariant is stated of a struct, so that one lemma per      *)
(* method can carry it from one struct to the next.                        *)
(***************************************************************************)
EXTENDS TaskStore, WellFoundedInduction, FiniteSetTheorems, SequenceTheorems, TLAPS

-----------------------------------------------------------------------------
(***************************************************************************)
(* Facts about the operators of Queues, for every sequence.  Induction is  *)
(* by the least element of a set of numbers.                               *)
(***************************************************************************)
(* A non-empty set of natural numbers has a least element. *)
LEMMA LeastNumber ==
  ASSUME NEW T \in SUBSET Nat, T # {}
  PROVE  \E x \in T : \A y \in T : x <= y
<1>1. IsWellFoundedOn(OpToRel(<, Nat), Nat)
  BY NatLessThanWellFounded
<1>2. PICK x \in T : \A y \in T : ~ (<< y, x >> \in OpToRel(<, Nat))
  BY <1>1, WFMin
<1>3. \A y \in T : ~ (y < x)
  BY <1>2 DEF OpToRel
<1>4. QED
  BY <1>3

(* A set of numbers that holds 0 and, with k < n, also k + 1, holds 0 .. n. *)
LEMMA UpTo ==
  ASSUME NEW n \in Nat, NEW G,
         0 \in G, \A k \in 0 .. n : k \in G /\ k < n => k + 1 \in G
  PROVE  \A k \in 0 .. n : k \in G
<1>1. SUFFICES ASSUME NEW m \in 0 .. n, m \notin G PROVE FALSE
  OBVIOUS
<1>2. DEFINE T == {k \in 0 .. n : k \notin G}
<1>3. PICK x \in T : \A y \in T : x <= y
  <2>1. T \in SUBSET Nat /\ T # {}
    BY <1>1
  <2>2. QED
    BY <2>1, LeastNumber
<1>4. x # 0 /\ x - 1 \in 0 .. n /\ x - 1 < x
  BY <1>3
<1>5. x - 1 \in G
  BY <1>3, <1>4
<1>6. (x - 1) + 1 \in G
  BY <1>3, <1>4, <1>5
<1>7. QED
  BY <1>3, <1>4, <1>6

\* The function whose fixed point is the recursive function inside Without.
Loop(q, X, f) ==
  [i \in 0 .. Len(q) |->
     IF i = 0 THEN << >>
     ELSE IF q[i] \in X THEN f[i - 1] ELSE Append(f[i - 1], q[i])]

(* The recursive function inside Without exists. *)
LEMMA KeptExists ==
  ASSUME NEW S, NEW q \in Seq(S), NEW X
  PROVE  \E f : f = Loop(q, X, f)
<1> DEFINE Step(f, i) == IF i = 0 THEN << >>
                         ELSE IF q[i] \in X THEN f[i - 1] ELSE Append(f[i - 1], q[i])
           G == {k \in 0 .. Len(q) : \E f : f = [i \in 0 .. k |-> Step(f, i)]}
<1>1. Len(q) \in Nat
  OBVIOUS
<1>2. 0 \in G
  <2> DEFINE f0 == [i \in 0 .. 0 |-> << >>]
  <2>1. f0 = [i \in 0 .. 0 |-> Step(f0, i)]
    OBVIOUS
  <2>2. \E f : f = [i \in 0 .. 0 |-> Step(f, i)]
    BY <2>1
  <2>3. 0 \in 0 .. Len(q)
    BY <1>1
  <2>4. QED
    BY <2>2, <2>3
<1>3. ASSUME NEW k \in 0 .. Len(q), k \in G, k < Len(q)
      PROVE  k + 1 \in G
  <2>1. PICK f : f = [i \in 0 .. k |-> Step(f, i)]
    BY <1>3
  <2> DEFINE v == IF q[k + 1] \in X THEN f[k] ELSE Append(f[k], q[k + 1])
             g == [i \in 0 .. (k + 1) |-> IF i = k + 1 THEN v ELSE f[i]]
  <2>2. ASSUME NEW i \in 0 .. (k + 1) PROVE g[i] = Step(g, i)
    <3>1. CASE i = k + 1
      <4>1. g[i - 1] = f[k]
        BY <3>1
      <4>2. QED
        BY <3>1, <4>1
    <3>2. CASE i # k + 1
      <4>1. i \in 0 .. k /\ g[i] = f[i]
        BY <3>2
      <4>2. i # 0 => g[i - 1] = f[i - 1]
        BY <4>1
      <4>3. f[i] = Step(f, i)
        BY <2>1, <4>1
      <4>4. QED
        BY <4>1, <4>2, <4>3
    <3>3. QED
      BY <3>1, <3>2
  <2>3. g = [i \in 0 .. (k + 1) |-> Step(g, i)]
    BY <2>2
  <2>4. k + 1 \in 0 .. Len(q)
    BY <1>3
  <2>5. QED
    BY <2>3, <2>4
<1>4. Len(q) \in G
  <2>1. \A k \in 0 .. Len(q) : k \in G /\ k < Len(q) => k + 1 \in G
    BY <1>3
  <2> HIDE DEF G
  <2>2. \A k \in 0 .. Len(q) : k \in G
    BY <1>1, <1>2, <2>1, UpTo
  <2>3. QED
    BY <1>1, <2>2
<1>5. QED
  BY <1>4 DEF Loop

(* x is an entry of the sequence q if and only if it has a position there. *)
LEMMA RangeByIndex ==
  ASSUME NEW S, NEW q \in Seq(S), NEW x
  PROVE  x \in Range(q) <=> \E i \in 1 .. Len(q) : q[i] = x
<1>1. DOMAIN q = 1 .. Len(q)
  OBVIOUS
<1>2. QED
  BY <1>1 DEF Range

(* What appending one entry does to the entries and to their distinctness. *)
LEMMA AppendFacts ==
  ASSUME NEW S, NEW q \in Seq(S), NEW e \in S
  PROVE  /\ Append(q, e) \in Seq(S)
         /\ Range(Append(q, e)) = Range(q) \cup {e}
         /\ IsInjective(q) /\ e \notin Range(q) => IsInjective(Append(q, e))
<1> DEFINE r == Append(q, e)
<1>1. /\ r \in Seq(S) /\ Len(q) \in Nat /\ Len(r) = Len(q) + 1
      /\ DOMAIN r = 1 .. Len(r) /\ DOMAIN q = 1 .. Len(q)
  OBVIOUS
<1>2. \A i \in 1 .. Len(r) : r[i] = IF i = Len(r) THEN e ELSE q[i]
  BY <1>1
<1> HIDE DEF r
<1>3. ASSUME NEW x PROVE x \in Range(r) <=> x \in Range(q) \cup {e}
  <2>1. x \in Range(r) <=> \E i \in 1 .. Len(r) : r[i] = x
    BY <1>1, RangeByIndex
  <2>2. x \in Range(q) <=> \E i \in 1 .. Len(q) : q[i] = x
    BY RangeByIndex
  <2>3. ASSUME NEW i \in 1 .. Len(r), r[i] = x PROVE x \in Range(q) \cup {e}
    <3>1. CASE i = Len(r)
      BY <1>2, <2>3, <3>1
    <3>2. CASE i # Len(r)
      <4>1. i \in 1 .. Len(q)
        BY <1>1, <3>2
      <4>2. QED
        BY <1>2, <2>2, <2>3, <3>2, <4>1
    <3>3. QED
      BY <3>1, <3>2
  <2>4. ASSUME NEW i \in 1 .. Len(q), q[i] = x PROVE x \in Range(r)
    <3>1. i \in 1 .. Len(r) /\ i # Len(r)
      BY <1>1
    <3>2. QED
      BY <1>2, <2>1, <2>4, <3>1
  <2>5. ASSUME x = e PROVE x \in Range(r)
    <3>1. Len(r) \in 1 .. Len(r)
      BY <1>1
    <3>2. QED
      BY <1>2, <2>1, <2>5, <3>1
  <2>6. QED
    BY <2>1, <2>2, <2>3, <2>4, <2>5
<1>4. ASSUME IsInjective(q), e \notin Range(q) PROVE IsInjective(r)
  <2>1. \A i \in 1 .. Len(q) : q[i] # e
    BY <1>4, RangeByIndex
  <2>2. \A i, j \in 1 .. Len(q) : q[i] = q[j] => i = j
    BY <1>1, <1>4 DEF IsInjective
  <2>3. ASSUME NEW i \in 1 .. Len(r), NEW j \in 1 .. Len(r), r[i] = r[j]
        PROVE  i = j
    <3>1. i = Len(r) \/ i \in 1 .. Len(q)
      BY <1>1
    <3>2. j = Len(r) \/ j \in 1 .. Len(q)
      BY <1>1
    <3>3. QED
      BY <1>1, <1>2, <2>1, <2>2, <2>3, <3>1, <3>2
  <2>4. QED
    BY <1>1, <2>3 DEF IsInjective
<1>5. QED
  BY <1>1, <1>3, <1>4 DEF r

(* The prefixes of the filtering loop, whatever function F computes them. *)
LEMMA FilterLoop ==
  ASSUME NEW S, NEW q \in Seq(S), NEW X, NEW F,
         F[0] = << >>,
         \A i \in 1 .. Len(q) :
           F[i] = IF q[i] \in X THEN F[i - 1] ELSE Append(F[i - 1], q[i])
  PROVE  /\ F[Len(q)] \in Seq(S)
         /\ Range(F[Len(q)]) = Range(q) \ X
         /\ IsInjective(q) => IsInjective(F[Len(q)])
<1> DEFINE Before(k) == {q[i] : i \in 1 .. k}
           Good(k) == /\ F[k] \in Seq(S)
                      /\ Range(F[k]) = Before(k) \ X
                      /\ IsInjective(q) => IsInjective(F[k])
           G == {k \in 0 .. Len(q) : Good(k)}
<1>1. /\ Len(q) \in Nat /\ DOMAIN q = 1 .. Len(q)
      /\ \A i \in 1 .. Len(q) : q[i] \in S
  OBVIOUS
<1>2. Good(0)
  <2>1. Range(<< >>) = {} /\ IsInjective(<< >>) /\ << >> \in Seq(S)
    BY DEF Range, IsInjective
  <2>2. Before(0) = {}
    OBVIOUS
  <2>3. QED
    BY <2>1, <2>2
<1>3. ASSUME NEW k \in 0 .. Len(q), Good(k), k < Len(q)
      PROVE  Good(k + 1)
  <2>1. k + 1 \in 1 .. Len(q) /\ (k + 1) - 1 = k /\ q[k + 1] \in S
    BY <1>1, <1>3
  <2>2. F[k + 1] = IF q[k + 1] \in X THEN F[k] ELSE Append(F[k], q[k + 1])
    BY <2>1
  <2>3. Before(k + 1) = Before(k) \cup {q[k + 1]}
    <3>1. 1 .. (k + 1) = 1 .. k \cup {k + 1}
      BY <1>1
    <3>2. QED
      BY <3>1
  <2>4. IsInjective(q) => q[k + 1] \notin Before(k)
    BY <1>1, <2>1 DEF IsInjective
  <2> HIDE DEF Before
  <2>5. CASE q[k + 1] \in X
    BY <1>3, <2>2, <2>3, <2>5
  <2>6. CASE q[k + 1] \notin X
    <3>1. F[k + 1] = Append(F[k], q[k + 1])
      BY <2>2, <2>6
    <3>2. /\ F[k + 1] \in Seq(S)
          /\ Range(F[k + 1]) = Range(F[k]) \cup {q[k + 1]}
          /\ IsInjective(F[k]) /\ q[k + 1] \notin Range(F[k]) => IsInjective(F[k + 1])
      BY <1>3, <2>1, <3>1, AppendFacts
    <3>3. QED
      BY <1>3, <2>3, <2>4, <2>6, <3>2
  <2>7. QED
    BY <2>5, <2>6
<1>4. Good(Len(q))
  <2> HIDE DEF Good
  <2>1. 0 \in G /\ \A k \in 0 .. Len(q) : k \in G /\ k < Len(q) => k + 1 \in G
    BY <1>1, <1>2, <1>3
  <2>2. \A k \in G : Good(k)
    OBVIOUS
  <2> HIDE DEF G
  <2>3. \A k \in 0 .. Len(q) : k \in G
    BY <1>1, <2>1, UpTo
  <2>4. Len(q) \in G
    BY <1>1, <2>3
  <2>5. QED
    BY <2>2, <2>4
<1>5. Before(Len(q)) = Range(q)
  BY <1>1 DEF Range
<1>6. QED
  BY <1>4, <1>5

(***************************************************************************)
(* Without(q, X) is a sequence with the entries of q that are not in X; it *)
(* has no entry twice unless q has (removeWorkLocked, removeCancelLocked). *)
(***************************************************************************)
LEMMA WithoutProperties ==
  ASSUME NEW S, NEW q \in Seq(S), NEW X
  PROVE  /\ Without(q, X) \in Seq(S)
         /\ Range(Without(q, X)) = Range(q) \ X
         /\ IsInjective(q) => IsInjective(Without(q, X))
<1> DEFINE F == CHOOSE f : f = Loop(q, X, f)
<1>1. \E f : f = Loop(q, X, f)
  BY KeptExists
<1>2. Without(q, X) = F[Len(q)]
  BY DEF Without, Loop
<1>3. F = Loop(q, X, F)
  BY <1>1
<1> HIDE DEF F
<1>4. Len(q) \in Nat
  OBVIOUS
<1>5. F[0] = << >>
  <2>1. Loop(q, X, F)[0] = << >>
    BY <1>4 DEF Loop
  <2>2. QED
    BY <1>3, <2>1
<1>6. ASSUME NEW i \in 1 .. Len(q)
      PROVE  F[i] = IF q[i] \in X THEN F[i - 1] ELSE Append(F[i - 1], q[i])
  <2>1. i \in 0 .. Len(q) /\ i # 0
    BY <1>4
  <2>2. Loop(q, X, F)[i] = IF q[i] \in X THEN F[i - 1] ELSE Append(F[i - 1], q[i])
    BY <2>1 DEF Loop
  <2>3. QED
    BY <1>3, <2>2
<1>7. QED
  BY <1>2, <1>5, <1>6, FilterLoop

(* A visiting order of a finite set lists exactly its elements, each once. *)
LEMMA OrdersFacts ==
  ASSUME NEW S, NEW X \in SUBSET S, IsFiniteSet(X), NEW o \in Orders(X)
  PROVE  o \in Seq(S) /\ Range(o) = X /\ IsInjective(o)
<1>1. Cardinality(X) \in Nat
  BY FS_CardinalityType
<1>2. /\ o \in [1 .. Cardinality(X) -> X]
      /\ IsInjective(o)
      /\ \A x \in X : \E i \in 1 .. Cardinality(X) : o[i] = x
  BY DEF Orders, Bijection, Injection, Surjection
<1>3. Range(o) = X
  BY <1>2 DEF Range
<1>4. o \in Seq(S)
  BY <1>1, <1>2
<1>5. QED
  BY <1>2, <1>3, <1>4

(* Appending a whole sequence that shares no entry with q keeps entries distinct. *)
LEMMA ConcatFacts ==
  ASSUME NEW S, NEW q \in Seq(S), NEW r \in Seq(S)
  PROVE  /\ q \o r \in Seq(S)
         /\ Range(q \o r) = Range(q) \cup Range(r)
         /\ IsInjective(q) /\ IsInjective(r) /\ Range(q) \cap Range(r) = {}
              => IsInjective(q \o r)
<1> DEFINE z == q \o r
<1>1. /\ z \in Seq(S) /\ Len(q) \in Nat /\ Len(r) \in Nat /\ Len(z) = Len(q) + Len(r)
      /\ DOMAIN z = 1 .. Len(z) /\ DOMAIN q = 1 .. Len(q) /\ DOMAIN r = 1 .. Len(r)
  OBVIOUS
<1>2. \A i \in 1 .. Len(z) : z[i] = IF i <= Len(q) THEN q[i] ELSE r[i - Len(q)]
  BY <1>1
<1> HIDE DEF z
<1>3. ASSUME NEW x PROVE x \in Range(z) <=> x \in Range(q) \cup Range(r)
  <2>1. /\ x \in Range(z) <=> \E i \in 1 .. Len(z) : z[i] = x
        /\ x \in Range(q) <=> \E i \in 1 .. Len(q) : q[i] = x
        /\ x \in Range(r) <=> \E i \in 1 .. Len(r) : r[i] = x
    BY <1>1, RangeByIndex
  <2>2. ASSUME NEW i \in 1 .. Len(z), z[i] = x PROVE x \in Range(q) \cup Range(r)
    <3>1. CASE i <= Len(q)
      BY <1>1, <1>2, <2>1, <2>2, <3>1
    <3>2. CASE ~ (i <= Len(q))
      <4>1. i - Len(q) \in 1 .. Len(r)
        BY <1>1, <3>2
      <4>2. QED
        BY <1>2, <2>1, <2>2, <3>2, <4>1
    <3>3. QED
      BY <3>1, <3>2
  <2>3. ASSUME NEW i \in 1 .. Len(q), q[i] = x PROVE x \in Range(z)
    <3>1. i \in 1 .. Len(z) /\ i <= Len(q)
      BY <1>1
    <3>2. QED
      BY <1>2, <2>1, <2>3, <3>1
  <2>4. ASSUME NEW i \in 1 .. Len(r), r[i] = x PROVE x \in Range(z)
    <3>1. /\ i + Len(q) \in 1 .. Len(z)
          /\ ~ (i + Len(q) <= Len(q))
          /\ (i + Len(q)) - Len(q) = i
      BY <1>1
    <3>2. QED
      BY <1>2, <2>1, <2>4, <3>1
  <2>5. QED
    BY <2>1, <2>2, <2>3, <2>4
<1>4. ASSUME IsInjective(q), IsInjective(r), Range(q) \cap Range(r) = {}
      PROVE  IsInjective(z)
  <2>1. ASSUME NEW i \in 1 .. Len(q), NEW j \in 1 .. Len(r) PROVE q[i] # r[j]
    <3>1. q[i] \in Range(q) /\ r[j] \in Range(r)
      BY RangeByIndex
    <3>2. QED
      BY <1>4, <3>1
  <2>2. ASSUME NEW i \in 1 .. Len(z), NEW j \in 1 .. Len(z), z[i] = z[j] PROVE i = j
    <3>1. CASE i <= Len(q) /\ j <= Len(q)
      BY <1>1, <1>2, <1>4, <2>2, <3>1 DEF IsInjective
    <3>2. CASE i > Len(q) /\ j > Len(q)
      <4>1. i - Len(q) \in 1 .. Len(r) /\ j - Len(q) \in 1 .. Len(r)
        BY <1>1, <3>2
      <4>2. r[i - Len(q)] = r[j - Len(q)]
        BY <1>1, <1>2, <2>2, <3>2
      <4>3. i - Len(q) = j - Len(q)
        BY <1>1, <1>4, <4>1, <4>2 DEF IsInjective
      <4>4. QED
        BY <1>1, <4>3
    <3>3. CASE i <= Len(q) /\ j > Len(q)
      <4>1. i \in 1 .. Len(q) /\ j - Len(q) \in 1 .. Len(r)
        BY <1>1, <3>3
      <4>2. q[i] = r[j - Len(q)]
        BY <1>1, <1>2, <2>2, <3>3
      <4>3. QED
        BY <2>1, <4>1, <4>2
    <3>4. CASE i > Len(q) /\ j <= Len(q)
      <4>1. j \in 1 .. Len(q) /\ i - Len(q) \in 1 .. Len(r)
        BY <1>1, <3>4
      <4>2. q[j] = r[i - Len(q)]
        BY <1>1, <1>2, <2>2, <3>4
      <4>3. QED
        BY <2>1, <4>1, <4>2
    <3>5. QED
      BY <1>1, <3>1, <3>2, <3>3, <3>4
  <2>3. QED
    BY <1>1, <2>2 DEF IsInjective
<1>5. QED
  BY <1>1, <1>3, <1>4 DEF z

(* A pop loop takes some number of entries between none and all. *)
LEMMA PopCountType ==
  ASSUME NEW S, NEW q \in Seq(S), NEW usable, NEW n
  PROVE  PopCount(q, usable, n) \in 0 .. Len(q)
<1> DEFINE stops == {k \in 0 .. Len(q) :
                       k = Len(q) \/ Cardinality(Kept(q, usable, k)) >= n}
<1>1. stops \in SUBSET Nat /\ Len(q) \in stops
  <2>1. Len(q) \in Nat
    OBVIOUS
  <2>2. QED
    BY <2>1
<1>2. stops \subseteq 0 .. Len(q)
  OBVIOUS
<1>3. PopCount(q, usable, n) = CHOOSE k \in stops : \A m \in stops : k <= m
  BY DEF PopCount
<1> HIDE DEF stops
<1>4. \E k \in stops : \A m \in stops : k <= m
  BY <1>1, LeastNumber
<1>5. QED
  BY <1>2, <1>3, <1>4

(* Popping k entries off a queue of distinct entries splits its entries in two. *)
LEMMA PopFacts ==
  ASSUME NEW S, NEW q \in Seq(S), NEW k \in 0 .. Len(q), IsInjective(q)
  PROVE  LET rest == SubSeq(q, k + 1, Len(q))
             popped == {q[i] : i \in 1 .. k}
         IN  /\ rest \in Seq(S)
             /\ IsInjective(rest)
             /\ Range(rest) = Range(q) \ popped
             /\ popped \subseteq Range(q)
             /\ \A usable : Range(q) \subseteq usable => Kept(q, usable, k) = 1 .. k
<1> DEFINE rest == SubSeq(q, k + 1, Len(q))
           popped == {q[i] : i \in 1 .. k}
<1>1. /\ Len(q) \in Nat /\ DOMAIN q = 1 .. Len(q)
      /\ \A i \in 1 .. Len(q) : q[i] \in S
      /\ \A i, j \in 1 .. Len(q) : q[i] = q[j] => i = j
  BY DEF IsInjective
<1>2. /\ rest \in Seq(S) /\ Len(rest) = Len(q) - k
      /\ \A i \in 1 .. Len(q) - k : rest[i] = q[k + i]
  <2>1. k + 1 \in Int /\ Len(q) \in Int /\ \A i \in (k + 1) .. Len(q) : q[i] \in S
    BY <1>1
  <2>2. /\ rest \in Seq(S)
        /\ Len(rest) = IF k + 1 <= Len(q) THEN Len(q) - (k + 1) + 1 ELSE 0
        /\ \A i \in 1 .. (Len(q) - (k + 1) + 1) : rest[i] = q[(k + 1) + i - 1]
    BY <2>1, SubSeqProperties
  <2> HIDE DEF rest
  <2>3. Len(rest) = Len(q) - k
    <3> DEFINE n == Len(q)
               m == Len(rest)
    <3>1. m = IF k + 1 <= n THEN n - (k + 1) + 1 ELSE 0
      BY <2>2
    <3>2. n \in Nat /\ k \in 0 .. n
      BY <1>1
    <3> HIDE DEF n, m
    <3>3. m = n - k
      BY <3>1, <3>2
    <3>4. QED
      BY <3>3 DEF n, m
  <2>4. ASSUME NEW i \in 1 .. Len(q) - k PROVE rest[i] = q[k + i]
    <3>1. i \in 1 .. (Len(q) - (k + 1) + 1) /\ (k + 1) + i - 1 = k + i
      BY <1>1
    <3>2. QED
      BY <2>2, <3>1
  <2>5. QED
    BY <2>2, <2>3, <2>4
<1>3. DOMAIN rest = 1 .. (Len(q) - k)
  BY <1>2
<1> HIDE DEF rest
<1>4. IsInjective(rest)
  <2>1. ASSUME NEW i \in 1 .. (Len(q) - k), NEW j \in 1 .. (Len(q) - k), rest[i] = rest[j]
        PROVE  i = j
    <3>1. k + i \in 1 .. Len(q) /\ k + j \in 1 .. Len(q) /\ q[k + i] = q[k + j]
      BY <1>1, <1>2, <2>1
    <3>2. k + i = k + j
      BY <1>1, <3>1
    <3>3. QED
      BY <3>2
  <2>2. QED
    BY <1>3, <2>1 DEF IsInjective
<1>5. ASSUME NEW x PROVE x \in Range(rest) <=> x \in Range(q) /\ x \notin popped
  <2>1. /\ x \in Range(rest) <=> \E i \in 1 .. (Len(q) - k) : rest[i] = x
        /\ x \in Range(q) <=> \E i \in 1 .. Len(q) : q[i] = x
    BY <1>2, RangeByIndex
  <2>2. ASSUME NEW i \in 1 .. (Len(q) - k), rest[i] = x
        PROVE  x \in Range(q) /\ x \notin popped
    <3>1. k + i \in 1 .. Len(q) /\ q[k + i] = x
      BY <1>1, <1>2, <2>2
    <3>2. ASSUME NEW j \in 1 .. k, q[j] = x PROVE FALSE
      <4>1. j \in 1 .. Len(q) /\ j # k + i
        BY <1>1
      <4>2. QED
        BY <1>1, <3>1, <3>2, <4>1
    <3>3. QED
      BY <2>1, <3>1, <3>2
  <2>3. ASSUME NEW i \in 1 .. Len(q), q[i] = x, x \notin popped
        PROVE  x \in Range(rest)
    <3>1. i \notin 1 .. k
      BY <2>3
    <3>2. i - k \in 1 .. (Len(q) - k) /\ k + (i - k) = i
      BY <1>1, <3>1
    <3>3. QED
      BY <1>2, <2>1, <2>3, <3>2
  <2>4. QED
    BY <2>1, <2>2, <2>3
<1>6. popped \subseteq Range(q)
  <2>1. 1 .. k \subseteq 1 .. Len(q)
    BY <1>1
  <2>2. QED
    BY <1>1, <2>1 DEF Range
<1>7. ASSUME NEW usable, Range(q) \subseteq usable PROVE Kept(q, usable, k) = 1 .. k
  <2>1. ASSUME NEW i \in 1 .. k
        PROVE  q[i] \in usable /\ \A j \in 1 .. (i - 1) : q[j] # q[i]
    <3>1. q[i] \in usable
      BY <1>6, <1>7
    <3>2. i \in 1 .. Len(q) /\ \A j \in 1 .. (i - 1) : j \in 1 .. Len(q) /\ j # i
      BY <1>1
    <3>3. QED
      BY <1>1, <3>1, <3>2
  <2>2. QED
    BY <2>1 DEF Kept
<1>8. QED
  BY <1>2, <1>4, <1>5, <1>6, <1>7 DEF rest

-----------------------------------------------------------------------------
(***************************************************************************)
(* The invariant.                                                          *)
(***************************************************************************)
SoundIn(s, last) ==
  /\ s \in Store
  /\ WorkQueuesIn(s)
  /\ TaskLeasesIn(s, last)
  /\ CancelQueuesIn(s)
  /\ CancelLeasesIn(s, last)
  /\ DeliveriesIn(s, last)
  /\ ResultsIn(s)

IInv ==
  /\ issued \in 0 .. MaxDelivery
  /\ overdue \in 0 .. issued
  /\ SoundIn(store, issued)

-----------------------------------------------------------------------------
(* What the helpers do to each field of the struct. *)

\* r and s agree on the fields that SoundIn speaks of.
SameJobs(r, s) ==
  /\ r.status = s.status
  /\ r.pending = s.pending
  /\ r.workQueues = s.workQueues
  /\ r.cancelQ = s.cancelQ
  /\ r.cancelSet = s.cancelSet
  /\ r.taskLeases = s.taskLeases
  /\ r.cancelLeases = s.cancelLeases
  /\ r.deliveries = s.deliveries

(* Tokens, wait lists and blocks play no part in the invariant. *)
LEMMA SameJobsSound ==
  ASSUME NEW s, NEW last, SoundIn(s, last), NEW r \in Store, SameJobs(r, s)
  PROVE  SoundIn(r, last)
BY DEF SoundIn, SameJobs, WorkQueuesIn, TaskLeasesIn, CancelQueuesIn, CancelLeasesIn,
       DeliveriesIn, ResultsIn, Numbers

LEMMA SignalFields ==
  ASSUME NEW s \in Store, NEW w \in Worker
  PROVE  SignalWaiters(s, w) \in Store /\ SameJobs(SignalWaiters(s, w), s)
BY DEF SignalWaiters, SameJobs, Store

(* r is a struct with these fields, whatever its waiters and its blocks are. *)
Fields(r, status, pending, workQueues, cancelQ, cancelSet, taskLeases, cancelLeases, deliveries) ==
  /\ r \in Store
  /\ r.status = status
  /\ r.pending = pending
  /\ r.workQueues = workQueues
  /\ r.cancelQ = cancelQ
  /\ r.cancelSet = cancelSet
  /\ r.taskLeases = taskLeases
  /\ r.cancelLeases = cancelLeases
  /\ r.deliveries = deliveries

LEMMA NotifyFields ==
  ASSUME NEW s \in Store, NEW t \in Task, NEW o \in Terminal
  PROVE  Fields(NotifyResult(s, t, o), s.status,
                [s.pending EXCEPT ![t] = IF s.pending[t] = "empty" THEN o ELSE s.pending[t]],
                s.workQueues, s.cancelQ, s.cancelSet, s.taskLeases, s.cancelLeases, s.deliveries)
BY DEF NotifyResult, Store, Fields

LEMMA RemoveWorkFields ==
  ASSUME NEW s \in Store, NEW w \in Worker, NEW X
  PROVE  Fields(RemoveWork(s, w, X), s.status, s.pending,
                [s.workQueues EXCEPT ![w] = Without(s.workQueues[w], X)],
                s.cancelQ, s.cancelSet, s.taskLeases, s.cancelLeases, s.deliveries)
<1>1. s.workQueues[w] \in Seq(Task)
  BY DEF Store
<1>2. Without(s.workQueues[w], X) \in Seq(Task)
  BY <1>1, WithoutProperties
<1>3. QED
  BY <1>2 DEF RemoveWork, Store, Fields

LEMMA RevokeType ==
  ASSUME NEW leases \in [Task -> Lease], NEW X
  PROVE  Revoke(leases, X) \in [Task -> Lease]
BY WorkerAssumption, MaxDeliveryAssumption DEF Revoke, Lease, NoLease

LEMMA RemoveCancelFields ==
  ASSUME NEW s \in Store, NEW w \in Worker, NEW X
  PROVE  Fields(RemoveCancel(s, w, X), s.status, s.pending, s.workQueues,
                [s.cancelQ EXCEPT ![w] = Without(s.cancelQ[w], X)],
                [s.cancelSet EXCEPT ![w] = s.cancelSet[w] \ X],
                s.taskLeases, Revoke(s.cancelLeases, X), s.deliveries)
<1> DEFINE cl == Revoke(s.cancelLeases, X)
           cs == s.cancelSet[w] \ X
           cq == Without(s.cancelQ[w], X)
           z == [s EXCEPT !.cancelLeases = cl, !.cancelSet[w] = cs, !.cancelQ[w] = cq]
<1>1. cl \in [Task -> Lease]
  BY RevokeType DEF Store
<1>2. cs \in SUBSET Task
  BY DEF Store
<1>3. cq \in Seq(Task)
  <2>1. s.cancelQ[w] \in Seq(Task)
    BY DEF Store
  <2>2. QED
    BY <2>1, WithoutProperties
<1>4. RemoveCancel(s, w, X) = z
  BY DEF RemoveCancel
<1> HIDE DEF cl, cs, cq
<1>5. Fields(z, s.status, s.pending, s.workQueues,
             [s.cancelQ EXCEPT ![w] = cq], [s.cancelSet EXCEPT ![w] = cs],
             s.taskLeases, cl, s.deliveries)
  BY <1>1, <1>2, <1>3 DEF Store, Fields
<1> HIDE DEF z
<1>6. QED
  BY <1>4, <1>5 DEF cl, cs, cq

(* What a reaping that requeues `work` and `cancels` makes of the struct. *)
ReapEffect(r, s, w, work, cancels) ==
  Fields(r, s.status, s.pending,
         [s.workQueues EXCEPT ![w] = s.workQueues[w] \o work],
         [s.cancelQ EXCEPT ![w] = s.cancelQ[w] \o cancels],
         [s.cancelSet EXCEPT ![w] = s.cancelSet[w] \cup Range(cancels)],
         Revoke(s.taskLeases, Expired(s.taskLeases, w)),
         Revoke(s.cancelLeases, Expired(s.cancelLeases, w)),
         s.deliveries)

LEMMA ReapFields ==
  ASSUME NEW s \in Store, NEW w \in Worker, NEW work \in Seq(Task), NEW cancels \in Seq(Task),
         NEW r, r = ReapExpired(s, w, work, cancels)
  PROVE  ReapEffect(r, s, w, work, cancels)
<1> DEFINE tl == Revoke(s.taskLeases, Expired(s.taskLeases, w))
           cl == Revoke(s.cancelLeases, Expired(s.cancelLeases, w))
           wq == s.workQueues[w] \o work
           cs == s.cancelSet[w] \cup Range(cancels)
           cq == s.cancelQ[w] \o cancels
           z == [s EXCEPT !.taskLeases = tl, !.cancelLeases = cl, !.workQueues[w] = wq,
                          !.cancelSet[w] = cs, !.cancelQ[w] = cq]
<1>1. tl \in [Task -> Lease] /\ cl \in [Task -> Lease]
  BY RevokeType DEF Store
<1>2. wq \in Seq(Task) /\ cq \in Seq(Task)
  BY DEF Store
<1>3. cs \in SUBSET Task
  BY RangeOfSeq DEF Store
<1>4. r = z \/ r = SignalWaiters(z, w)
  BY DEF ReapExpired
<1> HIDE DEF tl, cl, wq, cs, cq
<1>5. Fields(z, s.status, s.pending, [s.workQueues EXCEPT ![w] = wq],
             [s.cancelQ EXCEPT ![w] = cq], [s.cancelSet EXCEPT ![w] = cs], tl, cl, s.deliveries)
  BY <1>1, <1>2, <1>3 DEF Store, Fields
<1> HIDE DEF z
<1>6. r \in Store /\ SameJobs(r, z)
  BY <1>4, <1>5, SignalFields DEF Fields, SameJobs
<1>7. QED
  BY <1>5, <1>6 DEF ReapEffect, Fields, SameJobs, tl, cl, wq, cs, cq

-----------------------------------------------------------------------------
(* Each operator that takes a struct to a struct keeps it sound. *)

(* A lease whose worker is a Worker is a real one, and its task has that Target. *)
LEMMA LeaseFacts ==
  ASSUME NEW s, NEW last, SoundIn(s, last), NEW t \in Task, NEW w \in Worker
  PROVE  /\ s.taskLeases[t].worker = w =>
              Target[t] = w /\ s.status[t] = "pending" /\ s.taskLeases[t] # NoLease
         /\ s.cancelLeases[t].worker = w =>
              Target[t] = w /\ s.status[t] = "running" /\ s.cancelLeases[t] # NoLease
BY WorkerAssumption DEF SoundIn, TaskLeasesIn, CancelLeasesIn, NoLease

(* A reaping revokes w's expired leases and requeues their unfinished tasks. *)
LEMMA ReapKeeps ==
  ASSUME NEW s \in Store, NEW w \in Worker, NEW r \in Reaped(s, w)
  PROVE  \E work \in Seq(Task), cancels \in Seq(Task) :
           /\ Range(work) = LateWork(s, w) /\ IsInjective(work)
           /\ Range(cancels) = LateCancels(s, w) /\ IsInjective(cancels)
           /\ ReapEffect(r, s, w, work, cancels)
<1>1. PICK work \in Orders(LateWork(s, w)), cancels \in Orders(LateCancels(s, w)) :
        r = ReapExpired(s, w, work, cancels)
  BY DEF Reaped
<1>2. /\ LateWork(s, w) \in SUBSET Task /\ IsFiniteSet(LateWork(s, w))
      /\ LateCancels(s, w) \in SUBSET Task /\ IsFiniteSet(LateCancels(s, w))
  <2>1. LateWork(s, w) \subseteq Task /\ LateCancels(s, w) \subseteq Task
    BY DEF LateWork, LateCancels, Expired
  <2>2. QED
    BY <2>1, TaskAssumption, FS_Subset
<1>3. /\ work \in Seq(Task) /\ Range(work) = LateWork(s, w) /\ IsInjective(work)
      /\ cancels \in Seq(Task) /\ Range(cancels) = LateCancels(s, w) /\ IsInjective(cancels)
  BY <1>2, OrdersFacts
<1>4. work \in Seq(Task) /\ cancels \in Seq(Task)
  BY <1>3
<1>5. ReapEffect(r, s, w, work, cancels)
  BY <1>1, <1>4, ReapFields
<1>6. QED
  BY <1>3, <1>5

(* w has no expired lease left, and nothing else about leases or cancels changed. *)
ReapKeepsJobs(r, s, w) ==
  \A t \in Task :
    /\ r.taskLeases[t] = IF t \in Expired(s.taskLeases, w) THEN NoLease ELSE s.taskLeases[t]
    /\ r.cancelLeases[t] = IF t \in Expired(s.cancelLeases, w) THEN NoLease ELSE s.cancelLeases[t]

LEMMA ReapSound ==
  ASSUME NEW s, NEW last, SoundIn(s, last), NEW w \in Worker, NEW r \in Reaped(s, w)
  PROVE  SoundIn(r, last) /\ ReapKeepsJobs(r, s, w)
<1>1. s \in Store
  BY DEF SoundIn
<1>2. PICK work \in Seq(Task), cancels \in Seq(Task) :
        /\ Range(work) = LateWork(s, w) /\ IsInjective(work)
        /\ Range(cancels) = LateCancels(s, w) /\ IsInjective(cancels)
        /\ ReapEffect(r, s, w, work, cancels)
  BY <1>1, ReapKeeps
<1>3. /\ s.taskLeases \in [Task -> Lease] /\ s.cancelLeases \in [Task -> Lease]
      /\ s.workQueues \in [Worker -> Seq(Task)] /\ s.cancelQ \in [Worker -> Seq(Task)]
      /\ s.cancelSet \in [Worker -> SUBSET Task]
  BY <1>1 DEF Store
<1>4. ASSUME NEW v \in Worker
      PROVE  /\ r.workQueues[v] = IF v = w THEN s.workQueues[w] \o work ELSE s.workQueues[v]
             /\ r.cancelQ[v] = IF v = w THEN s.cancelQ[w] \o cancels ELSE s.cancelQ[v]
             /\ r.cancelSet[v] = IF v = w THEN s.cancelSet[w] \cup LateCancels(s, w)
                                          ELSE s.cancelSet[v]
  BY <1>2, <1>3 DEF ReapEffect, Fields
<1>5. ReapKeepsJobs(r, s, w)
  <2>1. /\ r.taskLeases = Revoke(s.taskLeases, Expired(s.taskLeases, w))
        /\ r.cancelLeases = Revoke(s.cancelLeases, Expired(s.cancelLeases, w))
    BY <1>2 DEF ReapEffect, Fields
  <2>2. QED
    BY <2>1 DEF Revoke, ReapKeepsJobs
<1>6. /\ r.status = s.status /\ r.pending = s.pending /\ r.deliveries = s.deliveries
      /\ r \in Store
  BY <1>2 DEF ReapEffect, Fields
<1>7. \A t \in Task : /\ t \in LateWork(s, w) => Target[t] = w /\ s.status[t] = "pending"
                      /\ t \in LateCancels(s, w) => Target[t] = w /\ s.status[t] = "running"
  BY LeaseFacts DEF LateWork, LateCancels, Expired
<1>8. /\ s.workQueues[w] \o work \in Seq(Task)
      /\ Range(s.workQueues[w] \o work) = Range(s.workQueues[w]) \cup LateWork(s, w)
      /\ IsInjective(s.workQueues[w] \o work)
  <2>1. /\ IsInjective(s.workQueues[w])
        /\ s.workQueues[w] \in Seq(Task)
        /\ Range(s.workQueues[w]) \cap Range(work) = {}
    BY <1>2, <1>3 DEF SoundIn, WorkQueuesIn, LateWork
  <2>2. QED
    BY <1>2, <2>1, ConcatFacts
<1>9. /\ s.cancelQ[w] \o cancels \in Seq(Task)
      /\ Range(s.cancelQ[w] \o cancels) = s.cancelSet[w] \cup LateCancels(s, w)
      /\ IsInjective(s.cancelQ[w] \o cancels)
  <2>1. /\ IsInjective(s.cancelQ[w])
        /\ s.cancelQ[w] \in Seq(Task)
        /\ Range(s.cancelQ[w]) = s.cancelSet[w]
        /\ Range(s.cancelQ[w]) \cap Range(cancels) = {}
    BY <1>2, <1>3 DEF SoundIn, CancelQueuesIn, LateCancels
  <2>2. QED
    BY <1>2, <2>1, ConcatFacts
<1>10. WorkQueuesIn(r)
  <2>1. ASSUME NEW v \in Worker, NEW t \in Range(r.workQueues[v])
        PROVE  Target[t] = v /\ r.status[t] = "pending" /\ r.taskLeases[t] = NoLease
    <3>1. CASE t \in Range(s.workQueues[v])
      <4>1. t \in Task
        BY <3>1, <1>3, RangeOfSeq
      <4>2. QED
        BY <3>1, <4>1, <1>5, <1>6 DEF SoundIn, WorkQueuesIn, ReapKeepsJobs
    <3>2. CASE t \notin Range(s.workQueues[v])
      <4>1. v = w /\ t \in LateWork(s, w)
        BY <3>2, <2>1, <1>4, <1>8
      <4>2. t \in Task /\ t \in Expired(s.taskLeases, w)
        BY <4>1 DEF LateWork, Expired
      <4>3. QED
        BY <4>1, <4>2, <1>5, <1>6, <1>7 DEF ReapKeepsJobs
    <3>3. QED
      BY <3>1, <3>2
  <2>2. \A v \in Worker : IsInjective(r.workQueues[v])
    BY <1>4, <1>8 DEF SoundIn, WorkQueuesIn
  <2>3. QED
    BY <2>1, <2>2 DEF WorkQueuesIn
<1>11. TaskLeasesIn(r, last)
  <2>1. ASSUME NEW t \in Task, r.status[t] = "pending"
        PROVE  t \in Range(r.workQueues[Target[t]]) \/ r.taskLeases[t] # NoLease
    <3>1. Target[t] \in Worker
      BY TargetAssumption
    <3>2. t \in Range(s.workQueues[Target[t]]) \/ s.taskLeases[t] # NoLease
      BY <2>1, <1>6 DEF SoundIn, TaskLeasesIn
    <3>3. Range(s.workQueues[Target[t]]) \subseteq Range(r.workQueues[Target[t]])
      BY <3>1, <1>4, <1>8
    <3>4. CASE t \in Expired(s.taskLeases, w)
      <4>1. Target[t] = w
        BY <3>4, LeaseFacts DEF Expired
      <4>2. t \in Range(s.workQueues[w]) \/ t \in LateWork(s, w)
        BY <3>4, <2>1, <1>6 DEF LateWork
      <4>3. QED
        BY <4>1, <4>2, <1>4, <1>8
    <3>5. QED
      BY <3>2, <3>3, <3>4, <1>5 DEF ReapKeepsJobs
  <2>2. QED
    BY <2>1, <1>5, <1>6 DEF SoundIn, TaskLeasesIn, ReapKeepsJobs
<1>12. CancelQueuesIn(r)
  <2>1. ASSUME NEW v \in Worker, NEW t \in r.cancelSet[v]
        PROVE  Target[t] = v /\ r.status[t] = "running" /\ r.cancelLeases[t] = NoLease
    <3>1. CASE t \in s.cancelSet[v]
      <4>1. t \in Task
        BY <3>1, <1>3
      <4>2. QED
        BY <3>1, <4>1, <1>5, <1>6 DEF SoundIn, CancelQueuesIn, ReapKeepsJobs
    <3>2. CASE t \notin s.cancelSet[v]
      <4>1. v = w /\ t \in LateCancels(s, w)
        BY <3>2, <2>1, <1>4
      <4>2. t \in Task /\ t \in Expired(s.cancelLeases, w)
        BY <4>1 DEF LateCancels, Expired
      <4>3. QED
        BY <4>1, <4>2, <1>5, <1>6, <1>7 DEF ReapKeepsJobs
    <3>3. QED
      BY <3>1, <3>2
  <2>2. \A v \in Worker : IsInjective(r.cancelQ[v]) /\ Range(r.cancelQ[v]) = r.cancelSet[v]
    BY <1>4, <1>9 DEF SoundIn, CancelQueuesIn
  <2>3. QED
    BY <2>1, <2>2 DEF CancelQueuesIn
<1>13. CancelLeasesIn(r, last)
  BY <1>5, <1>6 DEF SoundIn, CancelLeasesIn, ReapKeepsJobs
<1>14. DeliveriesIn(r, last)
  <2>1. \A t \in Task : Numbers(r, t) \subseteq Numbers(s, t)
    BY <1>5, <1>6 DEF ReapKeepsJobs, Numbers, NoLease
  <2>2. QED
    BY <2>1, <1>6 DEF SoundIn, DeliveriesIn
<1>15. ResultsIn(r)
  BY <1>6 DEF SoundIn, ResultsIn
<1>16. QED
  BY <1>5, <1>6, <1>10, <1>11, <1>12, <1>13, <1>14, <1>15 DEF SoundIn

(* A reaping leaves every task's status and owner, and every cancel request, alone. *)
LEMMA ReapTasks ==
  ASSUME NEW s, NEW last, SoundIn(s, last), NEW w \in Worker, NEW r \in Reaped(s, w),
         NEW t \in Task
  PROVE  /\ r.status[t] = s.status[t] /\ r.deliveries[t] = s.deliveries[t]
         /\ r.taskLeases[t] = IF t \in Expired(s.taskLeases, w) THEN NoLease ELSE s.taskLeases[t]
         /\ HasCancelIntent(s, Target[t], t) => HasCancelIntent(r, Target[t], t)
<1>1. s \in Store /\ Target[t] \in Worker
  BY TargetAssumption DEF SoundIn
<1>2. PICK work \in Seq(Task), cancels \in Seq(Task) :
        /\ Range(cancels) = LateCancels(s, w)
        /\ ReapEffect(r, s, w, work, cancels)
  BY <1>1, ReapKeeps
<1>3. /\ r.status = s.status /\ r.deliveries = s.deliveries
      /\ \A v \in Worker : r.cancelSet[v] = IF v = w THEN s.cancelSet[w] \cup LateCancels(s, w)
                                                     ELSE s.cancelSet[v]
  <2>1. s.cancelSet \in [Worker -> SUBSET Task]
    BY <1>1 DEF Store
  <2>2. QED
    BY <1>2, <2>1 DEF ReapEffect, Fields
<1>4. ReapKeepsJobs(r, s, w)
  BY ReapSound
<1>5. ASSUME HasCancelIntent(s, Target[t], t) PROVE HasCancelIntent(r, Target[t], t)
  <2>1. CASE t \in s.cancelSet[Target[t]]
    BY <1>1, <1>3, <2>1 DEF HasCancelIntent
  <2>2. CASE t \notin s.cancelSet[Target[t]] /\ t \in Expired(s.cancelLeases, w)
    <3>1. s.cancelLeases[t].worker = w
      BY <2>2 DEF Expired
    <3>2. Target[t] = w /\ s.status[t] = "running"
      BY <3>1, LeaseFacts
    <3>3. t \in LateCancels(s, w)
      BY <2>2, <3>2 DEF LateCancels
    <3>4. QED
      BY <1>1, <1>3, <3>2, <3>3 DEF HasCancelIntent
  <2>3. CASE t \notin s.cancelSet[Target[t]] /\ t \notin Expired(s.cancelLeases, w)
    BY <1>4, <1>5, <2>3 DEF HasCancelIntent, ReapKeepsJobs
  <2>4. QED
    BY <2>1, <2>2, <2>3
<1>6. QED
  BY <1>3, <1>4, <1>5 DEF ReapKeepsJobs

(* Deleting X from the queue of w: what is left in every queue. *)
Trimmed(left, qs, w, X) ==
  \A v \in Worker :
    /\ IsInjective(left[v])
    /\ Range(left[v]) = IF v = w THEN Range(qs[w]) \ X ELSE Range(qs[v])
    /\ Range(left[v]) \subseteq Task

LEMMA QueuesWithout ==
  ASSUME NEW qs \in [Worker -> Seq(Task)], NEW w \in Worker, NEW X,
         \A v \in Worker : IsInjective(qs[v]),
         NEW left, left = [qs EXCEPT ![w] = Without(qs[w], X)]
  PROVE  Trimmed(left, qs, w, X)
<1>1. \A v \in Worker : qs[v] \in Seq(Task)
  OBVIOUS
<1>2. /\ Range(Without(qs[w], X)) = Range(qs[w]) \ X
      /\ IsInjective(Without(qs[w], X))
  BY <1>1, WithoutProperties
<1>3. \A v \in Worker : left[v] = IF v = w THEN Without(qs[w], X) ELSE qs[v]
  OBVIOUS
<1>4. \A v \in Worker : Range(qs[v]) \subseteq Task
  BY <1>1, RangeOfSeq
<1>5. QED
  BY <1>2, <1>3, <1>4 DEF Trimmed

(* The struct after the running report of a leased task. *)
LEMMA StartFields ==
  ASSUME NEW s \in Store, NEW t \in Task, NEW w \in Worker, NEW d \in Delivery, NEW r,
         r = RemoveWork([s EXCEPT !.status[t] = "running",
                                  !.taskLeases[t] = NoLease,
                                  !.deliveries[t] = d], w, {t})
  PROVE  Fields(r, [s.status EXCEPT ![t] = "running"], s.pending,
                [s.workQueues EXCEPT ![w] = Without(s.workQueues[w], {t})], s.cancelQ,
                s.cancelSet, [s.taskLeases EXCEPT ![t] = NoLease], s.cancelLeases,
                [s.deliveries EXCEPT ![t] = d])
<1> DEFINE z == [s EXCEPT !.status[t] = "running", !.taskLeases[t] = NoLease,
                          !.deliveries[t] = d]
<1>1. d \in 0 .. MaxDelivery /\ NoLease \in Lease /\ "running" \in Status
  BY MaxDeliveryAssumption DEF Delivery, NoLease, Lease, Status
<1>2. Fields(z, [s.status EXCEPT ![t] = "running"], s.pending, s.workQueues, s.cancelQ,
             s.cancelSet, [s.taskLeases EXCEPT ![t] = NoLease], s.cancelLeases,
             [s.deliveries EXCEPT ![t] = d])
  BY <1>1 DEF Store, Fields
<1> HIDE DEF z
<1>3. z \in Store
  BY <1>2 DEF Fields
<1>4. r = RemoveWork(z, w, {t})
  BY DEF z
<1>5. Fields(r, z.status, z.pending, [z.workQueues EXCEPT ![w] = Without(z.workQueues[w], {t})],
             z.cancelQ, z.cancelSet, z.taskLeases, z.cancelLeases, z.deliveries)
  BY <1>3, <1>4, RemoveWorkFields
<1>6. QED
  BY <1>2, <1>5 DEF Fields

(* The running report: a leased task starts under the delivery of its lease. *)
LEMMA StartSound ==
  ASSUME NEW s, NEW last \in Nat, SoundIn(s, last), NEW t \in Task, NEW w \in Worker,
         NEW d \in Delivery, Target[t] = w, s.status[t] = "pending",
         s.taskLeases[t] = [id |-> d, worker |-> w]
  PROVE  SoundIn(RemoveWork([s EXCEPT !.status[t] = "running",
                                      !.taskLeases[t] = NoLease,
                                      !.deliveries[t] = d], w, {t}), last)
<1> DEFINE r == RemoveWork([s EXCEPT !.status[t] = "running", !.taskLeases[t] = NoLease,
                                     !.deliveries[t] = d], w, {t})
<1>1. s \in Store
  BY DEF SoundIn
<1>2. d \in 0 .. MaxDelivery /\ NoLease \in Lease /\ "running" \in Status
  BY MaxDeliveryAssumption DEF Delivery, NoLease, Lease, Status
<1>3. Fields(r, [s.status EXCEPT ![t] = "running"], s.pending,
             [s.workQueues EXCEPT ![w] = Without(s.workQueues[w], {t})], s.cancelQ,
             s.cancelSet, [s.taskLeases EXCEPT ![t] = NoLease], s.cancelLeases,
             [s.deliveries EXCEPT ![t] = d])
  BY <1>1, StartFields
<1> HIDE DEF r
<1>4. /\ s.workQueues[w] \in Seq(Task) /\ IsInjective(s.workQueues[w])
      /\ s.workQueues \in [Worker -> Seq(Task)] /\ s.status \in [Task -> Status]
      /\ s.taskLeases \in [Task -> Lease] /\ s.deliveries \in [Task -> 0 .. MaxDelivery]
  BY <1>1 DEF Store, SoundIn, WorkQueuesIn
<1>5. Trimmed(r.workQueues, s.workQueues, w, {t})
  <2>1. \A v \in Worker : IsInjective(s.workQueues[v])
    BY DEF SoundIn, WorkQueuesIn
  <2>2. r.workQueues = [s.workQueues EXCEPT ![w] = Without(s.workQueues[w], {t})]
    BY <1>3 DEF Fields
  <2>3. QED
    BY <1>4, <2>1, <2>2, QueuesWithout
<1>6. \A v \in Worker : t \notin Range(s.workQueues[v])
  BY <1>2, MaxDeliveryAssumption DEF SoundIn, WorkQueuesIn, NoLease, Delivery
<1>7. WorkQueuesIn(r)
  <2>1. ASSUME NEW v \in Worker, NEW u \in Range(r.workQueues[v])
        PROVE  Target[u] = v /\ r.status[u] = "pending" /\ r.taskLeases[u] = NoLease
    <3>1. u \in Task /\ u \in Range(s.workQueues[v]) /\ u # t
      BY <1>5, <1>6, <2>1 DEF Trimmed
    <3>2. r.status[u] = s.status[u] /\ r.taskLeases[u] = s.taskLeases[u]
      BY <1>3, <1>4, <3>1 DEF Fields
    <3>3. QED
      BY <3>1, <3>2 DEF SoundIn, WorkQueuesIn
  <2>2. QED
    BY <1>5, <2>1 DEF WorkQueuesIn, Trimmed
<1>8. TaskLeasesIn(r, last)
  <2>1. ASSUME NEW u \in Task \ {t}
        PROVE  /\ r.status[u] = s.status[u] /\ r.taskLeases[u] = s.taskLeases[u]
               /\ u \in Range(s.workQueues[Target[u]]) => u \in Range(r.workQueues[Target[u]])
    <3>1. r.status[u] = s.status[u] /\ r.taskLeases[u] = s.taskLeases[u]
      BY <1>3, <1>4 DEF Fields
    <3>2. Target[u] \in Worker
      BY TargetAssumption
    <3>3. QED
      BY <1>5, <3>1, <3>2 DEF Trimmed
  <2>2. r.status[t] = "running" /\ r.taskLeases[t] = NoLease
    BY <1>3, <1>4 DEF Fields
  <2>3. QED
    BY <2>1, <2>2 DEF SoundIn, TaskLeasesIn
<1>9. CancelQueuesIn(r)
  BY <1>3, <1>4 DEF Fields, SoundIn, CancelQueuesIn
<1>10. CancelLeasesIn(r, last)
  BY <1>3, <1>4 DEF Fields, SoundIn, CancelLeasesIn
<1>11. DeliveriesIn(r, last)
  <2>1. d # 0 /\ s.taskLeases[t].id = d
    BY DEF Delivery
  <2>2. \A u \in Task : Numbers(r, u) \subseteq Numbers(s, u)
    BY <1>3, <1>4, <2>1 DEF Fields, Numbers, NoLease
  <2>3. r.status[t] = "running" /\ r.deliveries[t] = d
    BY <1>3, <1>4 DEF Fields
  <2>4. \A u \in Task \ {t} : r.status[u] = s.status[u] /\ r.deliveries[u] = s.deliveries[u]
    BY <1>3, <1>4 DEF Fields
  <2>5. QED
    BY <2>1, <2>2, <2>3, <2>4 DEF SoundIn, DeliveriesIn
<1>12. ResultsIn(r)
  BY <1>3, <1>4 DEF Fields, SoundIn, ResultsIn, Terminal
<1>13. QED
  BY <1>3, <1>7, <1>8, <1>9, <1>10, <1>11, <1>12 DEF Fields, SoundIn, r

(* The struct after the report that ends a run. *)
LEMMA EndFields ==
  ASSUME NEW s \in Store, NEW t \in Task, NEW w \in Worker, NEW o \in Terminal, NEW r,
         r = NotifyResult(RemoveCancel([s EXCEPT !.status[t] = o,
                                                 !.taskLeases[t] = NoLease], w, {t}),
                          t, o)
  PROVE  Fields(r, [s.status EXCEPT ![t] = o],
                [s.pending EXCEPT ![t] = IF s.pending[t] = "empty" THEN o ELSE s.pending[t]],
                s.workQueues,
                [s.cancelQ EXCEPT ![w] = Without(s.cancelQ[w], {t})],
                [s.cancelSet EXCEPT ![w] = s.cancelSet[w] \ {t}],
                [s.taskLeases EXCEPT ![t] = NoLease], Revoke(s.cancelLeases, {t}), s.deliveries)
<1> DEFINE z == [s EXCEPT !.status[t] = o, !.taskLeases[t] = NoLease]
           y == RemoveCancel(z, w, {t})
<1>1. NoLease \in Lease /\ o \in Status
  BY MaxDeliveryAssumption DEF NoLease, Lease, Status
<1>2. Fields(z, [s.status EXCEPT ![t] = o], s.pending, s.workQueues, s.cancelQ,
             s.cancelSet, [s.taskLeases EXCEPT ![t] = NoLease], s.cancelLeases, s.deliveries)
  BY <1>1 DEF Store, Fields
<1>3. r = NotifyResult(y, t, o)
  OBVIOUS
<1> HIDE DEF z
<1>4. Fields(y, z.status, z.pending, z.workQueues,
             [z.cancelQ EXCEPT ![w] = Without(z.cancelQ[w], {t})],
             [z.cancelSet EXCEPT ![w] = z.cancelSet[w] \ {t}],
             z.taskLeases, Revoke(z.cancelLeases, {t}), z.deliveries)
  <2>1. z \in Store
    BY <1>2 DEF Fields
  <2>2. QED
    BY <2>1, RemoveCancelFields
<1> HIDE DEF y
<1>5. Fields(r, y.status, [y.pending EXCEPT ![t] = IF y.pending[t] = "empty" THEN o ELSE y.pending[t]],
             y.workQueues, y.cancelQ, y.cancelSet, y.taskLeases, y.cancelLeases, y.deliveries)
  <2>1. y \in Store
    BY <1>4 DEF Fields
  <2>2. QED
    BY <1>3, <2>1, NotifyFields
<1>6. QED
  BY <1>2, <1>4, <1>5 DEF Fields

(* The first report of a terminal status: a running task ends, its cancel job goes. *)
LEMMA EndSound ==
  ASSUME NEW s, NEW last \in Nat, SoundIn(s, last), NEW t \in Task, NEW w \in Worker,
         NEW o \in Terminal, Target[t] = w, s.status[t] = "running"
  PROVE  SoundIn(NotifyResult(RemoveCancel([s EXCEPT !.status[t] = o,
                                                     !.taskLeases[t] = NoLease], w, {t}),
                              t, o), last)
<1> DEFINE r == NotifyResult(RemoveCancel([s EXCEPT !.status[t] = o,
                                                    !.taskLeases[t] = NoLease], w, {t}), t, o)
<1>1. s \in Store
  BY DEF SoundIn
<1>2. o # "running" /\ o # "pending" /\ o # "empty"
  BY DEF Terminal
<1>3. Fields(r, [s.status EXCEPT ![t] = o],
             [s.pending EXCEPT ![t] = IF s.pending[t] = "empty" THEN o ELSE s.pending[t]],
             s.workQueues,
             [s.cancelQ EXCEPT ![w] = Without(s.cancelQ[w], {t})],
             [s.cancelSet EXCEPT ![w] = s.cancelSet[w] \ {t}],
             [s.taskLeases EXCEPT ![t] = NoLease], Revoke(s.cancelLeases, {t}), s.deliveries)
  BY <1>1, EndFields
<1> HIDE DEF r
<1>4. /\ s.workQueues \in [Worker -> Seq(Task)] /\ s.status \in [Task -> Status]
      /\ s.taskLeases \in [Task -> Lease] /\ s.cancelLeases \in [Task -> Lease]
      /\ s.cancelQ \in [Worker -> Seq(Task)] /\ s.cancelSet \in [Worker -> SUBSET Task]
      /\ s.pending \in [Task -> {"none", "empty"} \cup Terminal]
  BY <1>1 DEF Store
<1>5. Trimmed(r.cancelQ, s.cancelQ, w, {t})
  <2>1. \A v \in Worker : IsInjective(s.cancelQ[v])
    BY DEF SoundIn, CancelQueuesIn
  <2>2. r.cancelQ = [s.cancelQ EXCEPT ![w] = Without(s.cancelQ[w], {t})]
    BY <1>3 DEF Fields
  <2>3. QED
    BY <1>4, <2>1, <2>2, QueuesWithout
<1>6. ASSUME NEW u \in Task
      PROVE  /\ r.status[u] = IF u = t THEN o ELSE s.status[u]
             /\ r.taskLeases[u] = IF u = t THEN NoLease ELSE s.taskLeases[u]
             /\ r.cancelLeases[u] = IF u = t THEN NoLease ELSE s.cancelLeases[u]
             /\ r.pending[u] = IF u = t /\ s.pending[t] = "empty" THEN o ELSE s.pending[u]
  <2>1. r.cancelLeases = Revoke(s.cancelLeases, {t})
    BY <1>3 DEF Fields
  <2>2. r.cancelLeases[u] = IF u = t THEN NoLease ELSE s.cancelLeases[u]
    BY <2>1 DEF Revoke
  <2>3. QED
    BY <1>3, <1>4, <2>2 DEF Fields
<1>7. /\ r.workQueues = s.workQueues /\ r.deliveries = s.deliveries /\ r \in Store
       /\ \A v \in Worker : r.cancelSet[v] = IF v = w THEN s.cancelSet[w] \ {t} ELSE s.cancelSet[v]
  BY <1>3, <1>4 DEF Fields
<1>8. WorkQueuesIn(r)
  <2>1. ASSUME NEW v \in Worker, NEW u \in Range(r.workQueues[v])
        PROVE  Target[u] = v /\ r.status[u] = "pending" /\ r.taskLeases[u] = NoLease
    <3>1. /\ u \in Task /\ Target[u] = v
          /\ s.status[u] = "pending" /\ s.taskLeases[u] = NoLease
      BY <2>1, <1>4, <1>7, RangeOfSeq DEF SoundIn, WorkQueuesIn
    <3>2. QED
      BY <3>1, <1>6
  <2>2. QED
    BY <1>7, <2>1 DEF SoundIn, WorkQueuesIn
<1>9. TaskLeasesIn(r, last)
  BY <1>2, <1>6, <1>7 DEF SoundIn, TaskLeasesIn
<1>10. CancelQueuesIn(r)
  <2>1. ASSUME NEW v \in Worker
        PROVE  Range(r.cancelQ[v]) = r.cancelSet[v]
    BY <1>5, <1>7 DEF SoundIn, CancelQueuesIn, Trimmed
  <2>2. ASSUME NEW v \in Worker, NEW u \in r.cancelSet[v]
        PROVE  Target[u] = v /\ r.status[u] = "running" /\ r.cancelLeases[u] = NoLease
    <3>1. u \in s.cancelSet[v] /\ u \in Task
      BY <2>2, <1>4, <1>7
    <3>2. Target[u] = v /\ s.status[u] = "running" /\ s.cancelLeases[u] = NoLease
      BY <3>1 DEF SoundIn, CancelQueuesIn
    <3>3. u # t
      BY <2>2, <3>2, <1>7
    <3>4. QED
      BY <3>1, <3>2, <3>3, <1>6
  <2>3. QED
    BY <1>5, <2>1, <2>2 DEF CancelQueuesIn, Trimmed
<1>11. CancelLeasesIn(r, last)
  BY <1>6 DEF SoundIn, CancelLeasesIn
<1>12. DeliveriesIn(r, last)
  <2>1. \A u \in Task : Numbers(r, u) \subseteq Numbers(s, u)
    BY <1>6, <1>7 DEF Numbers, NoLease
  <2>2. QED
    BY <1>2, <1>6, <1>7, <2>1 DEF SoundIn, DeliveriesIn, Terminal
<1>13. ResultsIn(r)
  <2>1. ASSUME NEW u \in Task PROVE /\ r.status[u] \in Terminal => r.pending[u] # "empty"
                                    /\ r.pending[u] \in Terminal => r.status[u] = r.pending[u]
    <3>1. CASE u = t
      <4>1. s.pending[t] \notin Terminal
        BY DEF SoundIn, ResultsIn, Terminal
      <4>2. QED
        BY <3>1, <4>1, <1>2, <1>6
    <3>2. CASE u # t
      BY <3>2, <1>6 DEF SoundIn, ResultsIn
    <3>3. QED
      BY <3>1, <3>2
  <2>2. QED
    BY <2>1 DEF ResultsIn
<1>14. QED
  BY <1>7, <1>8, <1>9, <1>10, <1>11, <1>12, <1>13 DEF SoundIn, r

(* The struct after the cancellation of a pending task. *)
LEMMA CancelPendingFields ==
  ASSUME NEW s \in Store, NEW t \in Task, NEW w \in Worker, NEW r,
         r = NotifyResult(RemoveWork([s EXCEPT !.status[t] = "canceled",
                                               !.taskLeases[t] = NoLease,
                                               !.deliveries[t] = 0], w, {t}),
                          t, "canceled")
  PROVE  Fields(r, [s.status EXCEPT ![t] = "canceled"],
                [s.pending EXCEPT ![t] = IF s.pending[t] = "empty" THEN "canceled" ELSE s.pending[t]],
                [s.workQueues EXCEPT ![w] = Without(s.workQueues[w], {t})],
                s.cancelQ, s.cancelSet, [s.taskLeases EXCEPT ![t] = NoLease], s.cancelLeases,
                [s.deliveries EXCEPT ![t] = 0])
<1> DEFINE z == [s EXCEPT !.status[t] = "canceled", !.taskLeases[t] = NoLease, !.deliveries[t] = 0]
           y == RemoveWork(z, w, {t})
<1>1. /\ NoLease \in Lease /\ "canceled" \in Status /\ "canceled" \in Terminal
      /\ 0 \in 0 .. MaxDelivery
  BY MaxDeliveryAssumption DEF NoLease, Lease, Status, Terminal
<1>2. Fields(z, [s.status EXCEPT ![t] = "canceled"], s.pending, s.workQueues, s.cancelQ,
             s.cancelSet, [s.taskLeases EXCEPT ![t] = NoLease], s.cancelLeases,
             [s.deliveries EXCEPT ![t] = 0])
  BY <1>1 DEF Store, Fields
<1>3. r = NotifyResult(y, t, "canceled")
  OBVIOUS
<1> HIDE DEF z
<1>4. Fields(y, z.status, z.pending, [z.workQueues EXCEPT ![w] = Without(z.workQueues[w], {t})],
             z.cancelQ, z.cancelSet, z.taskLeases, z.cancelLeases, z.deliveries)
  <2>1. z \in Store
    BY <1>2 DEF Fields
  <2>2. QED
    BY <2>1, RemoveWorkFields
<1> HIDE DEF y
<1>5. Fields(r, y.status,
             [y.pending EXCEPT ![t] = IF y.pending[t] = "empty" THEN "canceled" ELSE y.pending[t]],
             y.workQueues, y.cancelQ, y.cancelSet, y.taskLeases, y.cancelLeases, y.deliveries)
  <2>1. y \in Store
    BY <1>4 DEF Fields
  <2>2. QED
    BY <1>1, <1>3, <2>1, NotifyFields
<1>6. QED
  BY <1>2, <1>4, <1>5 DEF Fields

(* Canceling a pending task takes it off the queue or out of its lease. *)
LEMMA CancelPendingSound ==
  ASSUME NEW s, NEW last \in Nat, SoundIn(s, last), NEW t \in Task, s.status[t] = "pending"
  PROVE  SoundIn(NotifyResult(RemoveWork([s EXCEPT !.status[t] = "canceled",
                                                   !.taskLeases[t] = NoLease,
                                                   !.deliveries[t] = 0], Target[t], {t}),
                              t, "canceled"), last)
<1> DEFINE w == Target[t]
           r == NotifyResult(RemoveWork([s EXCEPT !.status[t] = "canceled",
                                                  !.taskLeases[t] = NoLease,
                                                  !.deliveries[t] = 0], w, {t}),
                             t, "canceled")
<1>1. s \in Store /\ w \in Worker
  BY TargetAssumption DEF SoundIn
<1>2. "canceled" \in Terminal
  BY DEF Terminal
<1>3. Fields(r, [s.status EXCEPT ![t] = "canceled"],
             [s.pending EXCEPT ![t] = IF s.pending[t] = "empty" THEN "canceled" ELSE s.pending[t]],
             [s.workQueues EXCEPT ![w] = Without(s.workQueues[w], {t})],
             s.cancelQ, s.cancelSet, [s.taskLeases EXCEPT ![t] = NoLease], s.cancelLeases,
             [s.deliveries EXCEPT ![t] = 0])
  BY <1>1, CancelPendingFields
<1> HIDE DEF w, r
<1>4. /\ s.workQueues \in [Worker -> Seq(Task)] /\ s.status \in [Task -> Status]
      /\ s.taskLeases \in [Task -> Lease] /\ s.deliveries \in [Task -> 0 .. MaxDelivery]
      /\ s.pending \in [Task -> {"none", "empty"} \cup Terminal]
      /\ s.cancelSet \in [Worker -> SUBSET Task]
  BY <1>1 DEF Store
<1>5. Trimmed(r.workQueues, s.workQueues, w, {t})
  <2>1. \A v \in Worker : IsInjective(s.workQueues[v])
    BY DEF SoundIn, WorkQueuesIn
  <2>2. r.workQueues = [s.workQueues EXCEPT ![w] = Without(s.workQueues[w], {t})]
    BY <1>3 DEF Fields
  <2>3. QED
    BY <1>1, <1>4, <2>1, <2>2, QueuesWithout
<1>6. ASSUME NEW u \in Task
      PROVE  /\ r.status[u] = IF u = t THEN "canceled" ELSE s.status[u]
             /\ r.taskLeases[u] = IF u = t THEN NoLease ELSE s.taskLeases[u]
             /\ r.deliveries[u] = IF u = t THEN 0 ELSE s.deliveries[u]
             /\ r.pending[u] = IF u = t /\ s.pending[t] = "empty" THEN "canceled" ELSE s.pending[u]
  BY <1>3, <1>4 DEF Fields
<1>7. /\ r.cancelQ = s.cancelQ /\ r.cancelSet = s.cancelSet
       /\ r.cancelLeases = s.cancelLeases /\ r \in Store
  BY <1>3 DEF Fields
<1>8. WorkQueuesIn(r)
  <2>1. ASSUME NEW v \in Worker, NEW u \in Range(r.workQueues[v])
        PROVE  Target[u] = v /\ r.status[u] = "pending" /\ r.taskLeases[u] = NoLease
    <3>1. u \in Task /\ u \in Range(s.workQueues[v]) /\ (v = w => u # t)
      BY <1>5, <2>1 DEF Trimmed
    <3>2. Target[u] = v /\ s.status[u] = "pending" /\ s.taskLeases[u] = NoLease
      BY <3>1 DEF SoundIn, WorkQueuesIn
    <3>3. u # t
      BY <3>1, <3>2 DEF w
    <3>4. QED
      BY <3>1, <3>2, <3>3, <1>6
  <2>2. QED
    BY <1>5, <2>1 DEF WorkQueuesIn, Trimmed
<1>9. TaskLeasesIn(r, last)
  <2>1. ASSUME NEW u \in Task \ {t}
        PROVE  u \in Range(s.workQueues[Target[u]]) => u \in Range(r.workQueues[Target[u]])
    BY <1>5, TargetAssumption DEF Trimmed
  <2>2. QED
    BY <1>6, <2>1 DEF SoundIn, TaskLeasesIn
<1>10. CancelQueuesIn(r) /\ CancelLeasesIn(r, last)
  <2>1. \A u \in Task : s.status[u] = "running" => r.status[u] = "running"
    BY <1>6
  <2>2. CancelQueuesIn(r)
    BY <1>4, <1>7, <2>1 DEF SoundIn, CancelQueuesIn
  <2>3. QED
    BY <1>7, <2>1, <2>2 DEF SoundIn, CancelLeasesIn
<1>11. DeliveriesIn(r, last)
  <2>1. \A u \in Task : Numbers(r, u) \subseteq Numbers(s, u)
    BY <1>6 DEF Numbers, NoLease
  <2>2. QED
    BY <1>6, <2>1 DEF SoundIn, DeliveriesIn
<1>12. ResultsIn(r)
  <2>1. s.pending[t] \notin Terminal
    BY DEF SoundIn, ResultsIn, Terminal
  <2>2. QED
    BY <1>2, <1>6, <2>1 DEF SoundIn, ResultsIn
<1>13. QED
  BY <1>7, <1>8, <1>9, <1>10, <1>11, <1>12 DEF SoundIn, r, w

(* A new task joins the tail of its Worker's queue. *)
LEMMA EnqueueSound ==
  ASSUME NEW s, NEW last \in Nat, SoundIn(s, last), NEW t \in Task, s.status[t] = "absent"
  PROVE  SoundIn(SignalWaiters([s EXCEPT !.status[t] = "pending",
                                         !.workQueues[Target[t]] = Append(@, t)],
                               Target[t]), last)
<1> DEFINE w == Target[t]
           wq == Append(s.workQueues[w], t)
           r == [s EXCEPT !.status[t] = "pending", !.workQueues[w] = wq]
<1>1. s \in Store /\ w \in Worker
  BY TargetAssumption DEF SoundIn
<1>2. /\ s.workQueues \in [Worker -> Seq(Task)] /\ s.status \in [Task -> Status]
      /\ s.cancelSet \in [Worker -> SUBSET Task] /\ s.workQueues[w] \in Seq(Task)
  BY <1>1 DEF Store
<1>3. t \notin Range(s.workQueues[w]) /\ IsInjective(s.workQueues[w])
  BY <1>1 DEF SoundIn, WorkQueuesIn
<1>4. /\ wq \in Seq(Task) /\ IsInjective(wq)
      /\ Range(wq) = Range(s.workQueues[w]) \cup {t}
  BY <1>2, <1>3, AppendFacts
<1>5. [s EXCEPT !.status[t] = "pending", !.workQueues[Target[t]] = Append(@, t)] = r
  OBVIOUS
<1> HIDE DEF wq, w
<1>6. Fields(r, [s.status EXCEPT ![t] = "pending"], s.pending, [s.workQueues EXCEPT ![w] = wq],
             s.cancelQ, s.cancelSet, s.taskLeases, s.cancelLeases, s.deliveries)
  BY <1>1, <1>4 DEF Store, Fields, Status
<1> HIDE DEF r
<1>7. /\ \A u \in Task : r.status[u] = IF u = t THEN "pending" ELSE s.status[u]
      /\ \A v \in Worker : r.workQueues[v] = IF v = w THEN wq ELSE s.workQueues[v]
      /\ r.pending = s.pending /\ r.cancelQ = s.cancelQ /\ r.cancelSet = s.cancelSet
      /\ r.taskLeases = s.taskLeases /\ r.cancelLeases = s.cancelLeases
      /\ r.deliveries = s.deliveries /\ r \in Store
  BY <1>2, <1>6 DEF Fields
<1>8. WorkQueuesIn(r)
  <2>1. ASSUME NEW v \in Worker, NEW u \in Range(r.workQueues[v])
        PROVE  Target[u] = v /\ r.status[u] = "pending" /\ r.taskLeases[u] = NoLease
    <3>1. CASE u \in Range(s.workQueues[v])
      <4>1. u \in Task
        BY <3>1, <1>2, RangeOfSeq
      <4>2. QED
        BY <3>1, <4>1, <1>7 DEF SoundIn, WorkQueuesIn
    <3>2. CASE u \notin Range(s.workQueues[v])
      <4>1. v = w /\ u = t
        BY <3>2, <2>1, <1>4, <1>7
      <4>2. s.taskLeases[t] = NoLease
        BY DEF SoundIn, TaskLeasesIn
      <4>3. QED
        BY <4>1, <4>2, <1>7 DEF w
    <3>3. QED
      BY <3>1, <3>2
  <2>2. QED
    BY <1>4, <1>7, <2>1 DEF SoundIn, WorkQueuesIn
<1>9. TaskLeasesIn(r, last)
  <2>1. \A u \in Task : Target[u] \in Worker
    BY TargetAssumption
  <2>2. ASSUME NEW u \in Task
        PROVE  u = t \/ u \in Range(s.workQueues[Target[u]]) => u \in Range(r.workQueues[Target[u]])
    BY <1>4, <1>7, <2>1 DEF w
  <2>3. QED
    BY <1>7, <2>2 DEF SoundIn, TaskLeasesIn
<1>10. CancelQueuesIn(r) /\ CancelLeasesIn(r, last)
  <2>1. \A u \in Task : s.status[u] = "running" => r.status[u] = "running"
    BY <1>7
  <2>2. CancelQueuesIn(r)
    BY <1>2, <1>7, <2>1 DEF SoundIn, CancelQueuesIn
  <2>3. QED
    BY <1>7, <2>1, <2>2 DEF SoundIn, CancelLeasesIn
<1>11. DeliveriesIn(r, last)
  BY <1>7 DEF SoundIn, DeliveriesIn, Numbers
<1>12. ResultsIn(r)
  BY <1>7 DEF SoundIn, ResultsIn, Terminal
<1>13. SoundIn(r, last)
  BY <1>7, <1>8, <1>9, <1>10, <1>11, <1>12 DEF SoundIn
<1>14. SignalWaiters(r, w) \in Store /\ SameJobs(SignalWaiters(r, w), r)
  BY <1>1, <1>7, SignalFields
<1>15. SoundIn(SignalWaiters(r, w), last)
  BY <1>13, <1>14, SameJobsSound
<1>16. QED
  BY <1>5, <1>15 DEF w

(* A cancel job joins the tail of the cancel queue of a running task's Worker. *)
LEMMA EnqueueCancelSound ==
  ASSUME NEW s, NEW last \in Nat, SoundIn(s, last), NEW t \in Task, s.status[t] = "running",
         ~ HasCancelIntent(s, Target[t], t)
  PROVE  SoundIn(SignalWaiters([s EXCEPT !.cancelSet[Target[t]] = @ \cup {t},
                                         !.cancelQ[Target[t]] = Append(@, t)],
                               Target[t]), last)
<1> DEFINE w == Target[t]
           cs == s.cancelSet[w] \cup {t}
           cq == Append(s.cancelQ[w], t)
           r == [s EXCEPT !.cancelSet[w] = cs, !.cancelQ[w] = cq]
<1>1. s \in Store /\ w \in Worker
  BY TargetAssumption DEF SoundIn
<1>2. /\ s.cancelQ \in [Worker -> Seq(Task)] /\ s.cancelSet \in [Worker -> SUBSET Task]
      /\ s.cancelQ[w] \in Seq(Task) /\ cs \in SUBSET Task
  BY <1>1 DEF Store
<1>3. t \notin s.cancelSet[w] /\ s.cancelLeases[t] = NoLease
  BY DEF HasCancelIntent
<1>4. t \notin Range(s.cancelQ[w]) /\ IsInjective(s.cancelQ[w])
  BY <1>1, <1>3 DEF SoundIn, CancelQueuesIn
<1>5. cq \in Seq(Task) /\ IsInjective(cq) /\ Range(cq) = cs
  <2>1. Range(cq) = Range(s.cancelQ[w]) \cup {t} /\ cq \in Seq(Task) /\ IsInjective(cq)
    BY <1>2, <1>4, AppendFacts
  <2>2. QED
    BY <1>1, <2>1 DEF SoundIn, CancelQueuesIn
<1>6. [s EXCEPT !.cancelSet[Target[t]] = @ \cup {t}, !.cancelQ[Target[t]] = Append(@, t)] = r
  OBVIOUS
<1>7. \A v \in Worker : \A u \in (IF v = w THEN cs ELSE s.cancelSet[v]) :
        Target[u] = v /\ s.status[u] = "running" /\ s.cancelLeases[u] = NoLease
  BY <1>3 DEF SoundIn, CancelQueuesIn
<1> HIDE DEF cs, cq, w
<1>8. Fields(r, s.status, s.pending, s.workQueues, [s.cancelQ EXCEPT ![w] = cq],
             [s.cancelSet EXCEPT ![w] = cs], s.taskLeases, s.cancelLeases, s.deliveries)
  BY <1>1, <1>2, <1>5 DEF Store, Fields
<1> HIDE DEF r
<1>9. /\ \A v \in Worker : /\ r.cancelSet[v] = IF v = w THEN cs ELSE s.cancelSet[v]
                           /\ r.cancelQ[v] = IF v = w THEN cq ELSE s.cancelQ[v]
      /\ r.status = s.status /\ r.pending = s.pending /\ r.workQueues = s.workQueues
      /\ r.taskLeases = s.taskLeases /\ r.cancelLeases = s.cancelLeases
      /\ r.deliveries = s.deliveries /\ r \in Store
  BY <1>2, <1>8 DEF Fields
<1>10. CancelQueuesIn(r)
  <2>1. \A v \in Worker : IsInjective(r.cancelQ[v]) /\ Range(r.cancelQ[v]) = r.cancelSet[v]
    BY <1>5, <1>9 DEF SoundIn, CancelQueuesIn
  <2>2. QED
    BY <1>7, <1>9, <2>1 DEF CancelQueuesIn
<1>11. SoundIn(r, last)
  <2>1. WorkQueuesIn(r) /\ TaskLeasesIn(r, last) /\ CancelLeasesIn(r, last)
    BY <1>9 DEF SoundIn, WorkQueuesIn, TaskLeasesIn, CancelLeasesIn
  <2>2. DeliveriesIn(r, last) /\ ResultsIn(r)
    BY <1>9 DEF SoundIn, DeliveriesIn, Numbers, ResultsIn
  <2>3. QED
    BY <1>9, <1>10, <2>1, <2>2 DEF SoundIn
<1>12. SignalWaiters(r, w) \in Store /\ SameJobs(SignalWaiters(r, w), r)
  BY <1>1, <1>9, SignalFields
<1>13. SoundIn(SignalWaiters(r, w), last)
  BY <1>11, <1>12, SameJobsSound
<1>14. QED
  BY <1>6, <1>13 DEF w

(* Only the result channel of t changes. *)
LEMMA PendingSound ==
  ASSUME NEW s, NEW last, SoundIn(s, last), NEW t \in Task, NEW p \in {"none", "empty"},
         p = "empty" => s.status[t] = "absent"
  PROVE  SoundIn([s EXCEPT !.pending[t] = p], last)
<1> DEFINE r == [s EXCEPT !.pending[t] = p]
<1>1. Fields(r, s.status, [s.pending EXCEPT ![t] = p], s.workQueues, s.cancelQ, s.cancelSet,
             s.taskLeases, s.cancelLeases, s.deliveries)
  BY DEF SoundIn, Store, Fields
<1> HIDE DEF r
<1>2. \A u \in Task : r.pending[u] = IF u = t THEN p ELSE s.pending[u]
  BY <1>1 DEF Fields, SoundIn, Store
<1>3. ResultsIn(r)
  BY <1>1, <1>2 DEF Fields, SoundIn, ResultsIn, Terminal
<1>4. SoundIn(r, last)
  BY <1>1, <1>3 DEF Fields, SoundIn, WorkQueuesIn, TaskLeasesIn, CancelQueuesIn,
                    CancelLeasesIn, DeliveriesIn, Numbers
<1>5. QED
  BY <1>4 DEF r

(* A report, accepted or not, keeps the struct sound. *)
LEMMA ReportSound ==
  ASSUME NEW s, NEW last \in Nat, SoundIn(s, last), NEW t \in Task, NEW w \in Worker,
         NEW d \in Delivery, NEW o \in {"running"} \cup Outcome,
         Verdict(s, t, w, d, o) = "ok"
  PROVE  SoundIn(Applied(s, t, w, d, o), last)
<1>1. s.status[t] \in Status
  BY DEF SoundIn, Store
<1>2. CASE s.status[t] = o
  BY <1>2 DEF Applied
<1>3. CASE s.status[t] # o
  <2>1. Target[t] = w /\ s.status[t] \notin Terminal /\ s.status[t] # "absent"
    BY <1>1, <1>3 DEF Verdict, Status, Terminal
  <2>2. CASE o = "running"
    <3>1. s.status[t] = "pending" /\ s.taskLeases[t] = [id |-> d, worker |-> w]
      BY <1>1, <1>3, <2>1, <2>2 DEF Verdict, Status, Terminal
    <3>2. QED
      BY <1>3, <2>1, <2>2, <3>1, StartSound DEF Applied
  <2>3. CASE o # "running"
    <3>1. s.status[t] = "running" /\ o \in Terminal
      BY <1>1, <2>1, <2>3, OutcomeAssumption DEF Verdict, Status, Terminal
    <3>2. QED
      BY <1>3, <2>1, <2>3, <3>1, EndSound DEF Applied
  <2>4. QED
    BY <2>2, <2>3
<1>4. QED
  BY <1>2, <1>3

-----------------------------------------------------------------------------
(* Claiming. *)

\* g is `leases` with the first k tasks of q leased to w, each under a number of its own.
Granted(g, leases, q, k, base, w) ==
  /\ g \in [Task -> Lease]
  /\ \A t \in Task : IF t \in {q[i] : i \in 1 .. k}
                     THEN g[t] \in [id : (base + 1) .. (base + k), worker : {w}]
                     ELSE g[t] = leases[t]
  /\ \A t, u \in {q[i] : i \in 1 .. k} : t # u => g[t].id # g[u].id

LEMMA GrantFacts ==
  ASSUME NEW leases \in [Task -> Lease], NEW q \in Seq(Task), NEW k \in 0 .. Len(q),
         IsInjective(q), NEW base \in Nat, NEW w \in Worker, base + k <= MaxDelivery,
         NEW kept, kept = 1 .. k
  PROVE  Granted(Grant(leases, q, kept, base, w), leases, q, k, base, w)
<1> DEFINE g == Grant(leases, q, kept, base, w)
           popped == {q[i] : i \in 1 .. k}
           At(t) == CHOOSE i \in 1 .. k : q[i] = t
<1>1. Len(q) \in Nat /\ DOMAIN q = 1 .. Len(q) /\ k \in Nat
  OBVIOUS
<1>2. ASSUME NEW t \in popped PROVE At(t) \in 1 .. k /\ q[At(t)] = t
  <2>1. \E i \in 1 .. k : q[i] = t
    BY <1>2
  <2>2. QED
    BY <2>1
<1>3. \A t \in Task : g[t] = IF t \in popped THEN [id |-> base + At(t), worker |-> w] ELSE leases[t]
  BY DEF Grant
<1>4. g = [t \in Task |-> g[t]]
  BY DEF Grant
<1> HIDE DEF g, At, popped
<1>5. \A t \in popped : /\ base + At(t) \in (base + 1) .. (base + k)
                        /\ base + At(t) \in 0 .. MaxDelivery
  BY <1>1, <1>2, MaxDeliveryAssumption
<1>6. ASSUME NEW t \in Task
      PROVE  /\ g[t] \in Lease
             /\ IF t \in popped THEN g[t] \in [id : (base + 1) .. (base + k), worker : {w}]
                                ELSE g[t] = leases[t]
  <2>1. CASE t \in popped
    <3>1. g[t] = [id |-> base + At(t), worker |-> w]
      BY <1>3, <2>1
    <3>2. base + At(t) \in (base + 1) .. (base + k) /\ base + At(t) \in 0 .. MaxDelivery
      BY <1>5, <2>1
    <3>3. QED
      BY <2>1, <3>1, <3>2 DEF Lease
  <2>2. CASE t \notin popped
    BY <1>3, <2>2
  <2>3. QED
    BY <2>1, <2>2
<1>7. g \in [Task -> Lease]
  BY <1>4, <1>6
<1>8. \A t, u \in popped : t # u => g[t].id # g[u].id
  <2>1. popped \subseteq Task
    BY <1>1 DEF popped
  <2>2. ASSUME NEW t \in popped, NEW u \in popped, t # u PROVE g[t].id # g[u].id
    <3>1. At(t) \in Nat /\ At(u) \in Nat /\ q[At(t)] = t /\ q[At(u)] = u
      BY <1>1, <1>2
    <3>2. At(t) # At(u)
      BY <2>2, <3>1
    <3>3. g[t] = [id |-> base + At(t), worker |-> w] /\ g[u] = [id |-> base + At(u), worker |-> w]
      BY <1>3, <2>1
    <3>4. QED
      BY <3>1, <3>2, <3>3
  <2>3. QED
    BY <2>2
<1>9. QED
  BY <1>6, <1>7, <1>8 DEF Granted, g, popped

(* The rest of a queue whose first k entries were popped. *)
LEMMA RestFacts ==
  ASSUME NEW q \in Seq(Task), NEW k \in 0 .. Len(q), IsInjective(q),
         NEW rest, rest = SubSeq(q, k + 1, Len(q))
  PROVE  /\ rest \in Seq(Task) /\ IsInjective(rest)
         /\ Range(rest) = Range(q) \ {q[i] : i \in 1 .. k}
         /\ {q[i] : i \in 1 .. k} \subseteq Range(q)
BY PopFacts

(* Only new leases and cancel leases, numbered from last + 1 to upto, set r apart from s. *)
HandedOut(r, s, w, last, upto) ==
  /\ r.status = s.status /\ r.deliveries = s.deliveries
  /\ \A t \in Task :
       /\ \/ r.taskLeases[t] = s.taskLeases[t]
          \/ /\ r.taskLeases[t] \in [id : (last + 1) .. upto, worker : {w}]
             /\ s.status[t] = "pending" /\ Target[t] = w
       /\ HasCancelIntent(s, Target[t], t) => HasCancelIntent(r, Target[t], t)

(* Leasing the first c cancel jobs and the first k tasks of w's queues. *)
LEMMA LeaseSound ==
  ASSUME NEW s, NEW last \in Nat, SoundIn(s, last), NEW w \in Worker,
         NEW c \in 0 .. Len(s.cancelQ[w]), NEW k \in 0 .. Len(s.workQueues[w]),
         last + c + k <= MaxDelivery, NEW keptC, keptC = 1 .. c, NEW keptW, keptW = 1 .. k,
         NEW r, r = HandOut(s, w, last, c, keptC, k, keptW)
  PROVE  SoundIn(r, last + c + k) /\ HandedOut(r, s, w, last, last + c + k)
<1> DEFINE cq == SubSeq(s.cancelQ[w], c + 1, Len(s.cancelQ[w]))
           popC == {s.cancelQ[w][i] : i \in 1 .. c}
           cs == s.cancelSet[w] \ popC
           cl == Grant(s.cancelLeases, s.cancelQ[w], keptC, last, w)
           wq == SubSeq(s.workQueues[w], k + 1, Len(s.workQueues[w]))
           popW == {s.workQueues[w][i] : i \in 1 .. k}
           tl == Grant(s.taskLeases, s.workQueues[w], keptW, last + c, w)
           z == [s EXCEPT !.cancelQ[w] = cq, !.cancelSet[w] = cs, !.cancelLeases = cl,
                          !.workQueues[w] = wq, !.taskLeases = tl]
           upto == last + c + k
<1>1. s \in Store
  BY DEF SoundIn
<1>2. /\ s.cancelQ \in [Worker -> Seq(Task)] /\ s.cancelSet \in [Worker -> SUBSET Task]
      /\ s.workQueues \in [Worker -> Seq(Task)] /\ s.taskLeases \in [Task -> Lease]
      /\ s.cancelLeases \in [Task -> Lease] /\ s.status \in [Task -> Status]
      /\ s.cancelQ[w] \in Seq(Task) /\ s.workQueues[w] \in Seq(Task)
  BY <1>1 DEF Store
<1>3. c \in Nat /\ k \in Nat /\ last + c \in Nat /\ last + c <= MaxDelivery /\ upto \in Nat
  BY <1>2, MaxDeliveryAssumption
<1>4. IsInjective(s.cancelQ[w]) /\ IsInjective(s.workQueues[w])
  BY DEF SoundIn, CancelQueuesIn, WorkQueuesIn
<1>5. /\ cq \in Seq(Task) /\ IsInjective(cq)
      /\ Range(cq) = Range(s.cancelQ[w]) \ popC /\ popC \subseteq Range(s.cancelQ[w])
  BY <1>2, <1>4, RestFacts
<1>6. /\ wq \in Seq(Task) /\ IsInjective(wq)
      /\ Range(wq) = Range(s.workQueues[w]) \ popW /\ popW \subseteq Range(s.workQueues[w])
  BY <1>2, <1>4, RestFacts
<1>7. Granted(cl, s.cancelLeases, s.cancelQ[w], c, last, w)
  BY <1>2, <1>3, <1>4, GrantFacts
<1>8. Granted(tl, s.taskLeases, s.workQueues[w], k, last + c, w)
  BY <1>2, <1>3, <1>4, GrantFacts
<1>9. popW \subseteq Task /\ popC \subseteq Task /\ cs \in SUBSET Task
      /\ Range(s.workQueues[w]) \subseteq Task
  BY <1>2, <1>5, <1>6, RangeOfSeq
<1>10. r = z
  BY DEF HandOut
<1> HIDE DEF cq, cs, cl, wq, tl, popC, popW
<1>11. cl \in [Task -> Lease] /\ tl \in [Task -> Lease]
  BY <1>7, <1>8 DEF Granted
<1>12. Fields(z, s.status, s.pending, [s.workQueues EXCEPT ![w] = wq],
              [s.cancelQ EXCEPT ![w] = cq], [s.cancelSet EXCEPT ![w] = cs], tl, cl, s.deliveries)
  BY <1>1, <1>5, <1>6, <1>9, <1>11 DEF Store, Fields
<1> HIDE DEF z
<1>13. \A t \in Task :
         /\ IF t \in popW THEN tl[t] \in [id : (last + c + 1) .. upto, worker : {w}]
                          ELSE tl[t] = s.taskLeases[t]
         /\ IF t \in popC THEN cl[t] \in [id : (last + 1) .. (last + c), worker : {w}]
                          ELSE cl[t] = s.cancelLeases[t]
  BY <1>7, <1>8 DEF Granted, popC, popW
<1>14. \A t, u \in popW : t # u => tl[t].id # tl[u].id
  BY <1>8 DEF Granted, popW
<1>15. /\ \A v \in Worker : /\ r.workQueues[v] = IF v = w THEN wq ELSE s.workQueues[v]
                            /\ r.cancelQ[v] = IF v = w THEN cq ELSE s.cancelQ[v]
                            /\ r.cancelSet[v] = IF v = w THEN cs ELSE s.cancelSet[v]
       /\ r.status = s.status /\ r.pending = s.pending /\ r.deliveries = s.deliveries
       /\ r.taskLeases = tl /\ r.cancelLeases = cl /\ r \in Store
  BY <1>2, <1>10, <1>12 DEF Fields
<1>16. \A t \in popW : Target[t] = w /\ s.status[t] = "pending" /\ s.taskLeases[t] = NoLease
  BY <1>6 DEF SoundIn, WorkQueuesIn
<1>17. \A t \in popC : Target[t] = w /\ s.status[t] = "running" /\ s.cancelLeases[t] = NoLease
  BY <1>5 DEF SoundIn, CancelQueuesIn
<1>18. WorkQueuesIn(r)
  <2>1. ASSUME NEW v \in Worker, NEW t \in Range(r.workQueues[v])
        PROVE  Target[t] = v /\ r.status[t] = "pending" /\ r.taskLeases[t] = NoLease
    <3>1. t \in Range(s.workQueues[v]) /\ (v = w => t \notin popW)
      BY <2>1, <1>6, <1>15
    <3>2. t \in Task
      BY <3>1, <1>2, RangeOfSeq
    <3>3. Target[t] = v /\ s.status[t] = "pending" /\ s.taskLeases[t] = NoLease
      BY <3>1 DEF SoundIn, WorkQueuesIn
    <3>4. t \notin popW
      BY <3>1, <3>3, <1>16
    <3>5. QED
      BY <3>2, <3>3, <3>4, <1>13, <1>15
  <2>2. QED
    BY <2>1, <1>6, <1>15 DEF SoundIn, WorkQueuesIn
<1>19. TaskLeasesIn(r, upto)
  <2>1. ASSUME NEW t \in Task, r.taskLeases[t] # NoLease
        PROVE  r.status[t] = "pending" /\ r.taskLeases[t] \in [id : 1 .. upto, worker : {Target[t]}]
    <3>1. CASE t \in popW
      BY <3>1, <1>3, <1>13, <1>15, <1>16
    <3>2. CASE t \notin popW
      <4>1. r.taskLeases[t] = s.taskLeases[t]
        BY <3>2, <1>13, <1>15
      <4>2. s.status[t] = "pending" /\ s.taskLeases[t] \in [id : 1 .. last, worker : {Target[t]}]
        BY <2>1, <4>1 DEF SoundIn, TaskLeasesIn
      <4>3. QED
        BY <4>1, <4>2, <1>3, <1>15
    <3>3. QED
      BY <3>1, <3>2
  <2>2. ASSUME NEW t \in Task, r.status[t] = "pending"
        PROVE  t \in Range(r.workQueues[Target[t]]) \/ r.taskLeases[t] # NoLease
    <3>1. CASE t \in popW
      BY <3>1, <1>3, <1>13, <1>15 DEF NoLease
    <3>2. CASE t \notin popW
      <4>1. r.taskLeases[t] = s.taskLeases[t] /\ Target[t] \in Worker
        BY <3>2, <1>13, <1>15, TargetAssumption
      <4>2. t \in Range(s.workQueues[Target[t]]) \/ s.taskLeases[t] # NoLease
        BY <2>2, <1>15 DEF SoundIn, TaskLeasesIn
      <4>3. QED
        BY <3>2, <4>1, <4>2, <1>6, <1>15
    <3>3. QED
      BY <3>1, <3>2
  <2>3. QED
    BY <2>1, <2>2 DEF TaskLeasesIn
<1>20. CancelQueuesIn(r)
  <2>1. ASSUME NEW v \in Worker
        PROVE  IsInjective(r.cancelQ[v]) /\ Range(r.cancelQ[v]) = r.cancelSet[v]
    BY <1>5, <1>15 DEF SoundIn, CancelQueuesIn, cs
  <2>2. ASSUME NEW v \in Worker, NEW t \in r.cancelSet[v]
        PROVE  Target[t] = v /\ r.status[t] = "running" /\ r.cancelLeases[t] = NoLease
    <3>1. t \in s.cancelSet[v] /\ (v = w => t \notin popC) /\ t \in Task
      BY <2>2, <1>2, <1>15 DEF cs
    <3>2. Target[t] = v /\ s.status[t] = "running" /\ s.cancelLeases[t] = NoLease
      BY <3>1 DEF SoundIn, CancelQueuesIn
    <3>3. t \notin popC
      BY <3>1, <3>2, <1>17
    <3>4. QED
      BY <3>1, <3>2, <3>3, <1>13, <1>15
  <2>3. QED
    BY <2>1, <2>2 DEF CancelQueuesIn
<1>21. CancelLeasesIn(r, upto)
  <2>1. ASSUME NEW t \in Task, r.cancelLeases[t] # NoLease
        PROVE  r.status[t] = "running" /\ r.cancelLeases[t] \in [id : 1 .. upto, worker : {Target[t]}]
    <3>1. CASE t \in popC
      BY <3>1, <1>3, <1>13, <1>15, <1>17
    <3>2. CASE t \notin popC
      <4>1. r.cancelLeases[t] = s.cancelLeases[t]
        BY <3>2, <1>13, <1>15
      <4>2. s.status[t] = "running" /\ s.cancelLeases[t] \in [id : 1 .. last, worker : {Target[t]}]
        BY <2>1, <4>1 DEF SoundIn, CancelLeasesIn
      <4>3. QED
        BY <4>1, <4>2, <1>3, <1>15
    <3>3. QED
      BY <3>1, <3>2
  <2>2. QED
    BY <2>1 DEF CancelLeasesIn
<1>22. DeliveriesIn(r, upto)
  <2>1. ASSUME NEW t \in Task
        PROVE  Numbers(r, t) = IF t \in popW THEN {tl[t].id} ELSE Numbers(s, t)
    <3>1. CASE t \in popW
      <4>1. s.deliveries[t] = 0 /\ tl[t].id # 0
        BY <3>1, <1>3, <1>13, <1>16 DEF SoundIn, DeliveriesIn
      <4>2. QED
        BY <3>1, <4>1, <1>15 DEF Numbers
    <3>2. CASE t \notin popW
      BY <3>2, <1>13, <1>15 DEF Numbers
    <3>3. QED
      BY <3>1, <3>2
  <2>2. \A t \in popW : tl[t].id \in (last + c + 1) .. upto
    BY <1>9, <1>13
  <2>3. \A t \in Task : Numbers(s, t) \subseteq 1 .. last
    BY DEF SoundIn, DeliveriesIn
  <2>4. ASSUME NEW t \in Task PROVE Numbers(r, t) \subseteq 1 .. upto
    <3>1. 1 .. last \subseteq 1 .. upto /\ (last + c + 1) .. upto \subseteq 1 .. upto
      BY <1>3
    <3>2. CASE t \in popW
      <4>1. tl[t].id \in 1 .. upto
        BY <3>1, <3>2, <2>2
      <4>2. Numbers(r, t) = {tl[t].id}
        BY <3>2, <2>1
      <4>3. QED
        BY <4>1, <4>2
    <3>3. CASE t \notin popW
      BY <3>1, <3>3, <2>1, <2>3
    <3>4. QED
      BY <3>2, <3>3
  <2>5. ASSUME NEW t \in Task, NEW u \in Task \ {t}
        PROVE  Numbers(r, t) \cap Numbers(r, u) = {}
    <3>1. CASE t \in popW /\ u \in popW
      BY <3>1, <2>1, <2>5, <1>14
    <3>2. CASE t \notin popW /\ u \notin popW
      BY <3>2, <2>1, <2>5 DEF SoundIn, DeliveriesIn
    <3>3. CASE t \in popW /\ u \notin popW
      <4>1. tl[t].id \notin Numbers(s, u)
        BY <3>3, <2>2, <2>3, <1>3
      <4>2. QED
        BY <3>3, <4>1, <2>1
    <3>4. CASE t \notin popW /\ u \in popW
      <4>1. tl[u].id \notin Numbers(s, t)
        BY <3>4, <2>2, <2>3, <1>3
      <4>2. QED
        BY <3>4, <4>1, <2>1
    <3>5. QED
      BY <3>1, <3>2, <3>3, <3>4
  <2>6. QED
    BY <2>4, <2>5, <1>15 DEF SoundIn, DeliveriesIn
<1>23. ResultsIn(r)
  BY <1>15 DEF SoundIn, ResultsIn
<1>24. HandedOut(r, s, w, last, upto)
  <2>1. ASSUME NEW t \in Task
        PROVE  \/ r.taskLeases[t] = s.taskLeases[t]
               \/ /\ r.taskLeases[t] \in [id : (last + 1) .. upto, worker : {w}]
                  /\ s.status[t] = "pending" /\ Target[t] = w
    <3>1. (last + c + 1) .. upto \subseteq (last + 1) .. upto
      BY <1>3
    <3>2. QED
      BY <3>1, <1>13, <1>15, <1>16
  <2>2. ASSUME NEW t \in Task, HasCancelIntent(s, Target[t], t)
        PROVE  HasCancelIntent(r, Target[t], t)
    <3>1. CASE t \in popC
      BY <3>1, <1>3, <1>13, <1>15 DEF HasCancelIntent, NoLease
    <3>2. CASE t \notin popC
      <4>1. Target[t] \in Worker
        BY TargetAssumption
      <4>2. r.cancelLeases[t] = s.cancelLeases[t]
        BY <3>2, <1>13, <1>15
      <4>3. t \in s.cancelSet[Target[t]] => t \in r.cancelSet[Target[t]]
        BY <3>2, <4>1, <1>15 DEF cs
      <4>4. QED
        BY <2>2, <4>2, <4>3 DEF HasCancelIntent
    <3>3. QED
      BY <3>1, <3>2
  <2>3. QED
    BY <2>1, <2>2, <1>15 DEF HandedOut
<1>25. QED
  BY <1>15, <1>18, <1>19, <1>20, <1>21, <1>22, <1>23, <1>24 DEF SoundIn

-----------------------------------------------------------------------------
(* Recovery of a Worker's open tasks. *)

LEMMA RecoverFields ==
  ASSUME NEW s \in Store, NEW w \in Worker, NEW order \in Seq(Task),
         NEW r, r = Recovered(s, w, order)
  PROVE  Fields(r,
           [t \in Task |-> CASE t \in Doomed(s, w) -> "canceled"
                             [] t \in Open(s, w) \ Doomed(s, w) -> "pending"
                             [] t \notin Open(s, w) -> s.status[t]],
           [t \in Task |-> IF t \in Doomed(s, w) /\ s.pending[t] = "empty"
                           THEN "canceled" ELSE s.pending[t]],
           [s.workQueues EXCEPT ![w] = Without(s.workQueues[w], Open(s, w)) \o order],
           [s.cancelQ EXCEPT ![w] = Without(s.cancelQ[w], Open(s, w))],
           [s.cancelSet EXCEPT ![w] = s.cancelSet[w] \ Open(s, w)],
           Revoke(s.taskLeases, Open(s, w)), Revoke(s.cancelLeases, Open(s, w)),
           [t \in Task |-> IF t \in Open(s, w) THEN 0 ELSE s.deliveries[t]])
<1> DEFINE open == Open(s, w)
           doomed == Doomed(s, w)
           y == RemoveWork(s, w, open)
           cleared == RemoveCancel(y, w, open)
           st == [t \in Task |-> CASE t \in doomed -> "canceled"
                                   [] t \in open \ doomed -> "pending"
                                   [] t \notin open -> s.status[t]]
           pe == [t \in Task |-> IF t \in doomed /\ s.pending[t] = "empty"
                                 THEN "canceled" ELSE s.pending[t]]
           tl == Revoke(s.taskLeases, open)
           de == [t \in Task |-> IF t \in open THEN 0 ELSE s.deliveries[t]]
           left == Without(s.workQueues[w], open)
           wq == cleared.workQueues[w] \o order
           z == [cleared EXCEPT !.taskLeases = tl, !.deliveries = de, !.status = st,
                                !.pending = pe, !.workQueues[w] = wq]
<1>1. /\ s.status \in [Task -> Status] /\ s.taskLeases \in [Task -> Lease]
      /\ s.pending \in [Task -> {"none", "empty"} \cup Terminal]
      /\ s.deliveries \in [Task -> 0 .. MaxDelivery]
      /\ s.workQueues \in [Worker -> Seq(Task)] /\ s.workQueues[w] \in Seq(Task)
  BY DEF Store
<1>2. doomed \subseteq open
  BY DEF Doomed
<1>3. r = z
  BY DEF Recovered
<1> HIDE DEF open, doomed
<1>4. st \in [Task -> Status]
  BY <1>1, <1>2 DEF Status, Terminal
<1>5. pe \in [Task -> {"none", "empty"} \cup Terminal]
  BY <1>1 DEF Terminal
<1>6. de \in [Task -> 0 .. MaxDelivery]
  <2>1. 0 \in 0 .. MaxDelivery
    BY MaxDeliveryAssumption
  <2>2. QED
    BY <1>1, <2>1
<1>7. tl \in [Task -> Lease]
  BY <1>1, RevokeType
<1>8. left \in Seq(Task)
  BY <1>1, WithoutProperties
<1> HIDE DEF st, pe, tl, de, left, y, cleared
<1>9. Fields(y, s.status, s.pending, [s.workQueues EXCEPT ![w] = left],
             s.cancelQ, s.cancelSet, s.taskLeases, s.cancelLeases, s.deliveries)
  BY RemoveWorkFields DEF y, left
<1>10. Fields(cleared, y.status, y.pending, y.workQueues,
              [y.cancelQ EXCEPT ![w] = Without(y.cancelQ[w], open)],
              [y.cancelSet EXCEPT ![w] = y.cancelSet[w] \ open],
              y.taskLeases, Revoke(y.cancelLeases, open), y.deliveries)
  <2>1. y \in Store
    BY <1>9 DEF Fields
  <2>2. QED
    BY <2>1, RemoveCancelFields DEF cleared
<1>11. /\ cleared \in Store
       /\ cleared.workQueues = [s.workQueues EXCEPT ![w] = left]
       /\ cleared.cancelQ = [s.cancelQ EXCEPT ![w] = Without(s.cancelQ[w], open)]
       /\ cleared.cancelSet = [s.cancelSet EXCEPT ![w] = s.cancelSet[w] \ open]
       /\ cleared.cancelLeases = Revoke(s.cancelLeases, open)
  BY <1>9, <1>10 DEF Fields
<1>12. wq = left \o order /\ wq \in Seq(Task)
  <2>1. cleared.workQueues[w] = left
    BY <1>1, <1>11
  <2>2. left \o order \in Seq(Task)
    BY <1>8
  <2>3. QED
    BY <2>1, <2>2
<1> HIDE DEF wq
<1>13. Fields(z, st, pe, [cleared.workQueues EXCEPT ![w] = wq], cleared.cancelQ,
              cleared.cancelSet, tl, cleared.cancelLeases, de)
  BY <1>4, <1>5, <1>6, <1>7, <1>11, <1>12 DEF Store, Fields
<1>14. [cleared.workQueues EXCEPT ![w] = wq] = [s.workQueues EXCEPT ![w] = left \o order]
  BY <1>1, <1>11, <1>12
<1> HIDE DEF z
<1>15. Fields(r, st, pe, [s.workQueues EXCEPT ![w] = left \o order],
              [s.cancelQ EXCEPT ![w] = Without(s.cancelQ[w], open)],
              [s.cancelSet EXCEPT ![w] = s.cancelSet[w] \ open],
              tl, Revoke(s.cancelLeases, open), de)
  BY <1>3, <1>11, <1>13, <1>14 DEF Fields
<1>16. QED
  BY <1>15 DEF st, pe, tl, de, left, open, doomed

(* A recovered Worker's tasks are all canceled or queued, and only those are queued. *)
LEMMA RecoverSound ==
  ASSUME NEW s, NEW last \in Nat, SoundIn(s, last), NEW w \in Worker,
         NEW order \in Orders(Open(s, w) \ Doomed(s, w)),
         NEW r, r = Recovered(s, w, order)
  PROVE  SoundIn(r, last)
<1> DEFINE open == Open(s, w)
           doomed == Doomed(s, w)
           wq == Without(s.workQueues[w], open) \o order
           cq == Without(s.cancelQ[w], open)
<1>1. s \in Store
  BY DEF SoundIn
<1>2. /\ s.workQueues \in [Worker -> Seq(Task)] /\ s.cancelQ \in [Worker -> Seq(Task)]
      /\ s.cancelSet \in [Worker -> SUBSET Task] /\ s.status \in [Task -> Status]
      /\ s.workQueues[w] \in Seq(Task) /\ s.cancelQ[w] \in Seq(Task)
  BY <1>1 DEF Store
<1>3. /\ open \subseteq Task /\ doomed \subseteq open
      /\ \A t \in Task : t \in open <=> Target[t] = w /\ s.status[t] \in {"pending", "running"}
  BY DEF Open, Doomed
<1>4. order \in Seq(Task) /\ Range(order) = open \ doomed /\ IsInjective(order)
  <2>1. open \ doomed \in SUBSET Task /\ IsFiniteSet(open \ doomed)
    BY <1>3, TaskAssumption, FS_Subset
  <2>2. QED
    BY <2>1, OrdersFacts
<1>5. Range(s.workQueues[w]) \subseteq open /\ s.cancelSet[w] \subseteq open
  <2>1. Range(s.workQueues[w]) \subseteq Task /\ s.cancelSet[w] \subseteq Task
    BY <1>2, RangeOfSeq
  <2>2. QED
    BY <2>1, <1>3 DEF SoundIn, WorkQueuesIn, CancelQueuesIn
<1>6. wq \in Seq(Task) /\ Range(wq) = open \ doomed /\ IsInjective(wq)
  <2> DEFINE left == Without(s.workQueues[w], open)
  <2>1. left \in Seq(Task) /\ Range(left) = {} /\ IsInjective(left)
    <3>1. IsInjective(s.workQueues[w])
      BY DEF SoundIn, WorkQueuesIn
    <3>2. QED
      BY <3>1, <1>2, <1>5, WithoutProperties
  <2> HIDE DEF left
  <2>2. left \o order \in Seq(Task) /\ Range(left \o order) = open \ doomed
        /\ IsInjective(left \o order)
    BY <2>1, <1>4, ConcatFacts
  <2>3. QED
    BY <2>2 DEF left
<1>7. Range(cq) = {} /\ IsInjective(cq)
  <2>1. IsInjective(s.cancelQ[w]) /\ Range(s.cancelQ[w]) \subseteq open
    BY <1>5 DEF SoundIn, CancelQueuesIn
  <2>2. QED
    BY <2>1, <1>2, WithoutProperties
<1> DEFINE st == [t \in Task |-> CASE t \in doomed -> "canceled"
                                   [] t \in open \ doomed -> "pending"
                                   [] t \notin open -> s.status[t]]
           pe == [t \in Task |-> IF t \in doomed /\ s.pending[t] = "empty"
                                 THEN "canceled" ELSE s.pending[t]]
           de == [t \in Task |-> IF t \in open THEN 0 ELSE s.deliveries[t]]
           tl == Revoke(s.taskLeases, open)
           cl == Revoke(s.cancelLeases, open)
<1>8. Fields(r, st, pe, [s.workQueues EXCEPT ![w] = wq], [s.cancelQ EXCEPT ![w] = cq],
             [s.cancelSet EXCEPT ![w] = s.cancelSet[w] \ open], tl, cl, de)
  BY <1>1, <1>4, RecoverFields
<1>9. ASSUME NEW t \in Task
      PROVE  /\ st[t] = IF t \in doomed THEN "canceled"
                        ELSE IF t \in open THEN "pending" ELSE s.status[t]
             /\ pe[t] = IF t \in doomed /\ s.pending[t] = "empty" THEN "canceled" ELSE s.pending[t]
             /\ de[t] = IF t \in open THEN 0 ELSE s.deliveries[t]
             /\ tl[t] = IF t \in open THEN NoLease ELSE s.taskLeases[t]
             /\ cl[t] = IF t \in open THEN NoLease ELSE s.cancelLeases[t]
  BY <1>3 DEF Revoke
<1> HIDE DEF open, doomed, wq, cq, st, pe, de, tl, cl
<1>10. ASSUME NEW t \in Task
       PROVE  /\ r.status[t] = IF t \in doomed THEN "canceled"
                               ELSE IF t \in open THEN "pending" ELSE s.status[t]
              /\ r.pending[t] = IF t \in doomed /\ s.pending[t] = "empty"
                                THEN "canceled" ELSE s.pending[t]
              /\ r.deliveries[t] = IF t \in open THEN 0 ELSE s.deliveries[t]
              /\ r.taskLeases[t] = IF t \in open THEN NoLease ELSE s.taskLeases[t]
              /\ r.cancelLeases[t] = IF t \in open THEN NoLease ELSE s.cancelLeases[t]
  BY <1>8, <1>9 DEF Fields
<1>11. /\ r \in Store
       /\ \A v \in Worker :
            /\ r.workQueues[v] = IF v = w THEN wq ELSE s.workQueues[v]
            /\ r.cancelQ[v] = IF v = w THEN cq ELSE s.cancelQ[v]
            /\ r.cancelSet[v] = IF v = w THEN s.cancelSet[w] \ open ELSE s.cancelSet[v]
  BY <1>2, <1>8 DEF Fields
<1>12. WorkQueuesIn(r)
  <2>1. ASSUME NEW v \in Worker, NEW t \in Range(r.workQueues[v])
        PROVE  Target[t] = v /\ r.status[t] = "pending" /\ r.taskLeases[t] = NoLease
    <3>1. CASE v = w
      <4>1. t \in open \ doomed /\ t \in Task
        BY <3>1, <2>1, <1>3, <1>6, <1>11
      <4>2. QED
        BY <3>1, <4>1, <1>3, <1>10
    <3>2. CASE v # w
      <4>1. t \in Range(s.workQueues[v])
        BY <3>2, <2>1, <1>11
      <4>2. t \in Task /\ Target[t] = v /\ s.status[t] = "pending" /\ s.taskLeases[t] = NoLease
        BY <4>1, <1>2, RangeOfSeq DEF SoundIn, WorkQueuesIn
      <4>3. QED
        BY <3>2, <4>2, <1>3, <1>10
    <3>3. QED
      BY <3>1, <3>2
  <2>2. QED
    BY <2>1, <1>6, <1>11 DEF SoundIn, WorkQueuesIn
<1>13. TaskLeasesIn(r, last)
  <2>1. ASSUME NEW t \in Task
        PROVE  /\ r.taskLeases[t] # NoLease =>
                    /\ r.status[t] = "pending"
                    /\ r.taskLeases[t] \in [id : 1 .. last, worker : {Target[t]}]
               /\ r.status[t] = "pending" =>
                    t \in Range(r.workQueues[Target[t]]) \/ r.taskLeases[t] # NoLease
    <3>1. CASE t \in open
      <4>1. t \notin doomed => t \in Range(r.workQueues[Target[t]])
        BY <3>1, <1>3, <1>6, <1>11
      <4>2. QED
        BY <3>1, <4>1, <1>10
    <3>2. CASE t \notin open
      <4>1. r.status[t] = s.status[t] /\ r.taskLeases[t] = s.taskLeases[t]
        BY <3>2, <1>3, <1>10
      <4>2. s.status[t] = "pending" => Target[t] # w /\ Target[t] \in Worker
        BY <3>2, <1>3, TargetAssumption
      <4>3. QED
        BY <4>1, <4>2, <1>11 DEF SoundIn, TaskLeasesIn
    <3>3. QED
      BY <3>1, <3>2
  <2>2. QED
    BY <2>1 DEF TaskLeasesIn
<1>14. CancelQueuesIn(r)
  <2>1. ASSUME NEW v \in Worker
        PROVE  IsInjective(r.cancelQ[v]) /\ Range(r.cancelQ[v]) = r.cancelSet[v]
    BY <1>5, <1>7, <1>11 DEF SoundIn, CancelQueuesIn
  <2>2. ASSUME NEW v \in Worker, NEW t \in r.cancelSet[v]
        PROVE  Target[t] = v /\ r.status[t] = "running" /\ r.cancelLeases[t] = NoLease
    <3>1. v # w /\ t \in s.cancelSet[v] /\ t \in Task
      BY <2>2, <1>2, <1>5, <1>11
    <3>2. Target[t] = v /\ s.status[t] = "running" /\ s.cancelLeases[t] = NoLease
      BY <3>1 DEF SoundIn, CancelQueuesIn
    <3>3. QED
      BY <3>1, <3>2, <1>3, <1>10
  <2>3. QED
    BY <2>1, <2>2 DEF CancelQueuesIn
<1>15. CancelLeasesIn(r, last)
  BY <1>3, <1>10 DEF SoundIn, CancelLeasesIn
<1>16. DeliveriesIn(r, last)
  <2>1. \A t \in Task : Numbers(r, t) \subseteq Numbers(s, t)
    BY <1>10 DEF Numbers, NoLease
  <2>2. QED
    BY <2>1, <1>3, <1>10 DEF SoundIn, DeliveriesIn
<1>17. ResultsIn(r)
  <2>1. ASSUME NEW t \in Task
        PROVE  /\ r.status[t] \in Terminal => r.pending[t] # "empty"
               /\ r.pending[t] \in Terminal => r.status[t] = r.pending[t]
    <3>1. CASE t \in open
      <4>1. s.pending[t] \notin Terminal
        BY <3>1, <1>3 DEF SoundIn, ResultsIn, Terminal
      <4>2. QED
        BY <3>1, <4>1, <1>3, <1>10 DEF Terminal
    <3>2. CASE t \notin open
      <4>1. r.status[t] = s.status[t] /\ r.pending[t] = s.pending[t]
        BY <3>2, <1>3, <1>10
      <4>2. QED
        BY <4>1 DEF SoundIn, ResultsIn
    <3>3. QED
      BY <3>1, <3>2
  <2>2. QED
    BY <2>1 DEF ResultsIn
<1>18. QED
  BY <1>11, <1>12, <1>13, <1>14, <1>15, <1>16, <1>17 DEF SoundIn

-----------------------------------------------------------------------------
(* The inductive invariant. *)

LEMMA InitSound == Init => IInv
<1> SUFFICES ASSUME Init PROVE IInv
  OBVIOUS
<1>1. /\ store.status = [t \in Task |-> "absent"]
      /\ store.pending = [t \in Task |-> "none"]
      /\ store.workQueues = [w \in Worker |-> << >>]
      /\ store.cancelQ = [w \in Worker |-> << >>]
      /\ store.cancelSet = [w \in Worker |-> {}]
      /\ store.taskLeases = [t \in Task |-> NoLease]
      /\ store.cancelLeases = [t \in Task |-> NoLease]
      /\ store.deliveries = [t \in Task |-> 0]
      /\ issued = 0 /\ overdue = 0
  BY DEF Init, NewStore
<1>2. store \in Store
  <2>1. NoLease \in Lease /\ 0 \in 0 .. MaxDelivery
    BY MaxDeliveryAssumption DEF NoLease, Lease
  <2>2. QED
    BY <2>1 DEF Init, NewStore, Store, Status
<1>3. IsInjective(<< >>) /\ Range(<< >>) = {}
  BY DEF IsInjective, Range
<1>4. WorkQueuesIn(store) /\ CancelQueuesIn(store)
  BY <1>1, <1>3 DEF WorkQueuesIn, CancelQueuesIn
<1>5. TaskLeasesIn(store, 0) /\ CancelLeasesIn(store, 0)
  BY <1>1 DEF TaskLeasesIn, CancelLeasesIn
<1>6. DeliveriesIn(store, 0) /\ ResultsIn(store)
  BY <1>1 DEF DeliveriesIn, Numbers, NoLease, ResultsIn, Terminal
<1>7. QED
  BY <1>1, <1>2, <1>4, <1>5, <1>6, MaxDeliveryAssumption DEF IInv, SoundIn

LEMMA ClaimStep ==
  ASSUME IInv, NEW w \in Worker, NEW n \in Limit, Claim(w, n)
  PROVE  /\ IInv'
         /\ issued' \in Nat /\ issued <= issued' /\ overdue' = overdue
         /\ \E s \in Reaped(store, w) : HandedOut(store', s, w, issued, issued')
<1> DEFINE cancelable(s) == {t \in Task : s.status[t] = "running" /\ s.cancelLeases[t] = NoLease}
           startable(s) == {t \in Task : s.status[t] = "pending" /\ s.taskLeases[t] = NoLease}
<1>1. PICK s \in Reaped(store, w) :
        \E c, k, cancels, tasks :
          /\ c = PopCount(s.cancelQ[w], cancelable(s), n)
          /\ cancels = Kept(s.cancelQ[w], cancelable(s), c)
          /\ k = PopCount(s.workQueues[w], startable(s), n - Cardinality(cancels))
          /\ tasks = Kept(s.workQueues[w], startable(s), k)
          /\ issued + c + k \in 0 .. MaxDelivery
          /\ issued' = issued + c + k
          /\ store' = HandOut(s, w, issued, c, cancels, k, tasks)
  BY DEF Claim
<1>2. PICK c, k, cancels, tasks :
          /\ c = PopCount(s.cancelQ[w], cancelable(s), n)
          /\ cancels = Kept(s.cancelQ[w], cancelable(s), c)
          /\ k = PopCount(s.workQueues[w], startable(s), n - Cardinality(cancels))
          /\ tasks = Kept(s.workQueues[w], startable(s), k)
          /\ issued + c + k \in 0 .. MaxDelivery
          /\ issued' = issued + c + k
          /\ store' = HandOut(s, w, issued, c, cancels, k, tasks)
  BY <1>1
<1>3. SoundIn(s, issued) /\ issued \in Nat
  BY ReapSound, MaxDeliveryAssumption DEF IInv
<1>4. s.cancelQ[w] \in Seq(Task) /\ s.workQueues[w] \in Seq(Task)
  BY <1>3 DEF SoundIn, Store
<1>5. c \in 0 .. Len(s.cancelQ[w]) /\ k \in 0 .. Len(s.workQueues[w])
  BY <1>2, <1>4, PopCountType
<1>6. Range(s.cancelQ[w]) \subseteq cancelable(s) /\ Range(s.workQueues[w]) \subseteq startable(s)
  <2>1. Range(s.cancelQ[w]) \subseteq Task /\ Range(s.workQueues[w]) \subseteq Task
    BY <1>4, RangeOfSeq
  <2>2. QED
    BY <2>1, <1>3 DEF SoundIn, WorkQueuesIn, CancelQueuesIn
<1>7. IsInjective(s.cancelQ[w]) /\ IsInjective(s.workQueues[w])
  BY <1>3 DEF SoundIn, WorkQueuesIn, CancelQueuesIn
<1> HIDE DEF cancelable, startable
<1>8. cancels = 1 .. c /\ tasks = 1 .. k
  BY <1>2, <1>4, <1>5, <1>6, <1>7, PopFacts
<1>9. issued + c + k <= MaxDelivery /\ c \in Nat /\ k \in Nat
  BY <1>2, <1>4, <1>5, MaxDeliveryAssumption
<1>10. SoundIn(store', issued + c + k) /\ HandedOut(store', s, w, issued, issued + c + k)
  BY <1>2, <1>3, <1>5, <1>8, <1>9, LeaseSound
<1>11. overdue' = overdue
  BY DEF Claim
<1>12. QED
  BY <1>2, <1>3, <1>9, <1>10, <1>11, MaxDeliveryAssumption DEF IInv

(* Every step that leaves the two counters alone and makes a sound struct. *)
LEMMA SoundStep ==
  ASSUME IInv, SoundIn(store', issued), UNCHANGED << issued, overdue >>
  PROVE  IInv'
BY DEF IInv

LEMMA StepSound ==
  ASSUME IInv, [Next]_vars
  PROVE  IInv'
<1>1. /\ SoundIn(store, issued) /\ store \in Store
      /\ issued \in Nat /\ overdue \in Nat
  BY MaxDeliveryAssumption DEF IInv, SoundIn
<1>2. ASSUME NEW t \in Task, EnqueuePending(t) PROVE IInv'
  BY <1>1, <1>2, EnqueueSound, SoundStep DEF EnqueuePending
<1>3. ASSUME NEW t \in Task, RegisterPending(t) PROVE IInv'
  BY <1>1, <1>3, PendingSound, SoundStep DEF RegisterPending
<1>4. ASSUME NEW t \in Task, ReceiveResult(t) \/ UnregisterPending(t) PROVE IInv'
  <2>1. /\ store' = [store EXCEPT !.pending[t] = "none"]
        /\ UNCHANGED << issued, overdue >>
    BY <1>4 DEF ReceiveResult, UnregisterPending
  <2>2. SoundIn(store', issued)
    BY <1>1, <2>1, PendingSound
  <2>3. QED
    BY <2>1, <2>2, SoundStep
<1>5. ASSUME NEW t \in Task, CancelPending(t) PROVE IInv'
  BY <1>1, <1>5, CancelPendingSound, SoundStep DEF CancelPending
<1>6. ASSUME NEW t \in Task, EnqueueCancel(t) PROVE IInv'
  BY <1>1, <1>6, EnqueueCancelSound, SoundStep DEF EnqueueCancel
<1>7. ASSUME NEW t \in Task, NEW w \in Worker, NEW d \in Delivery,
             NEW r \in {"running"} \cup Outcome, ApplyResult(t, w, d, r)
      PROVE  IInv'
  <2>1. PICK s \in Reaped(store, w) :
          store' = IF Verdict(s, t, w, d, r) = "ok" THEN Applied(s, t, w, d, r) ELSE s
    BY <1>7 DEF ApplyResult
  <2>2. SoundIn(s, issued)
    BY <1>1, ReapSound
  <2>3. SoundIn(store', issued)
    BY <1>1, <2>1, <2>2, ReportSound
  <2>4. QED
    BY <1>7, <2>3, SoundStep DEF ApplyResult
<1>8. ASSUME NEW w \in Worker, NEW n \in Limit, Claim(w, n) PROVE IInv'
  BY <1>8, ClaimStep
<1>9. ASSUME NEW w \in Worker, RecoverWorker(w) PROVE IInv'
  <2>1. PICK order \in Orders(Open(store, w) \ Doomed(store, w)) :
          store' = SignalWaiters(Recovered(store, w, order), w)
    BY <1>9 DEF RecoverWorker
  <2>2. SoundIn(Recovered(store, w, order), issued)
    BY <1>1, RecoverSound
  <2>3. store' \in Store /\ SameJobs(store', Recovered(store, w, order))
    BY <2>1, <2>2, SignalFields DEF SoundIn
  <2>4. SoundIn(store', issued)
    BY <2>2, <2>3, SameJobsSound
  <2>5. QED
    BY <1>9, <2>4, SoundStep DEF RecoverWorker
<1>10. ASSUME NEW w \in Worker, BlockWorker(w) PROVE IInv'
  <2> DEFINE z == [store EXCEPT !.blockedWorkers = @ \cup {w}]
  <2>1. z \in Store /\ SameJobs(z, store)
    BY <1>1 DEF Store, SameJobs
  <2>2. store' = SignalWaiters(z, w)
    BY <1>10 DEF BlockWorker
  <2> HIDE DEF z
  <2>3. store' \in Store /\ SameJobs(store', store)
    BY <2>1, <2>2, SignalFields DEF SameJobs
  <2>4. SoundIn(store', issued)
    BY <1>1, <2>3, SameJobsSound
  <2>5. QED
    BY <1>10, <2>4, SoundStep DEF BlockWorker
<1>11. ASSUME NEW w \in Worker, UnblockWorker(w) PROVE IInv'
  <2>1. store' \in Store /\ SameJobs(store', store)
    BY <1>1, <1>11 DEF UnblockWorker, Store, SameJobs
  <2>2. SoundIn(store', issued)
    BY <1>1, <2>1, SameJobsSound
  <2>3. QED
    BY <1>11, <2>2, SoundStep DEF UnblockWorker
<1>12. ASSUME NEW c \in Chan, NEW w \in Worker, AddWaiter(c, w) \/ RemoveWaiter(c, w) PROVE IInv'
  <2> DEFINE tokens == IF store.workQueues[w] # << >> \/ store.cancelQ[w] # << >>
                       THEN store.notify \cup {c} ELSE store.notify
             more == store.waiters[w] \cup {c}
             less == store.waiters[w] \ {c}
  <2>1. /\ tokens \in SUBSET Chan /\ store.notify \ {c} \in SUBSET Chan
        /\ more \in SUBSET Chan /\ less \in SUBSET Chan
    BY <1>1 DEF Store
  <2>2. store' \in Store /\ SameJobs(store', store)
    <3>1. CASE AddWaiter(c, w)
      <4>1. store' = [store EXCEPT !.waiters[w] = more, !.notify = tokens]
        BY <3>1 DEF AddWaiter
      <4> HIDE DEF tokens, more
      <4>2. QED
        BY <1>1, <2>1, <4>1 DEF Store, SameJobs
    <3>2. CASE RemoveWaiter(c, w)
      <4>1. store' = [store EXCEPT !.waiters[w] = less, !.notify = store.notify \ {c}]
        BY <3>2 DEF RemoveWaiter
      <4> HIDE DEF less
      <4>2. QED
        BY <1>1, <2>1, <4>1 DEF Store, SameJobs
    <3>3. QED
      BY <1>12, <3>1, <3>2
  <2>3. SoundIn(store', issued)
    BY <1>1, <2>2, SameJobsSound
  <2>4. QED
    BY <1>12, <2>3, SoundStep DEF AddWaiter, RemoveWaiter
<1>13. ASSUME NEW c \in Chan, TakeToken(c) PROVE IInv'
  <2>1. store' \in Store /\ SameJobs(store', store)
    BY <1>1, <1>13 DEF TakeToken, Store, SameJobs
  <2>2. SoundIn(store', issued)
    BY <1>1, <2>1, SameJobsSound
  <2>3. QED
    BY <1>13, <2>2, SoundStep DEF TakeToken
<1>14. ASSUME LeaseTimePasses PROVE IInv'
  BY <1>1, <1>14 DEF IInv, LeaseTimePasses
<1>15. ASSUME UNCHANGED vars PROVE IInv'
  BY <1>1, <1>15, SoundStep DEF vars
<1>16. QED
  BY <1>2, <1>3, <1>4, <1>5, <1>6, <1>7, <1>8, <1>9, <1>10, <1>11, <1>12, <1>13, <1>14, <1>15
     DEF Next

-----------------------------------------------------------------------------
(* What a call does to one task: it stays as it is but for a lease that    *)
(* runs out, it is queued, offered, started, ended, returned to the queue  *)
(* or dropped.  No call forgets a cancel request of a task that goes on.   *)

Stays(r, s, t) ==
  /\ r.status[t] = s.status[t] /\ r.deliveries[t] = s.deliveries[t]
  /\ r.taskLeases[t] \in {s.taskLeases[t], NoLease}

Queued(r, s, t) ==
  /\ s.status[t] = "absent" /\ r.status[t] = "pending"
  /\ r.deliveries[t] = s.deliveries[t] /\ r.taskLeases[t] = s.taskLeases[t]

Offered(r, s, t, last, upto) ==
  /\ s.status[t] = "pending" /\ r.status[t] = "pending"
  /\ r.deliveries[t] = s.deliveries[t]
  /\ r.taskLeases[t] \in [id : (last + 1) .. upto, worker : {Target[t]}]

Started(r, s, t, w, d) ==
  /\ s.status[t] = "pending" /\ r.status[t] = "running"
  /\ s.taskLeases[t] = [id |-> d, worker |-> w] /\ Target[t] = w /\ d > overdue
  /\ r.taskLeases[t] = NoLease /\ r.deliveries[t] = d

Ended(r, s, t, w, d, o) ==
  /\ s.status[t] = "running" /\ r.status[t] = o
  /\ s.deliveries[t] = d /\ Target[t] = w
  /\ r.taskLeases[t] = NoLease /\ r.deliveries[t] = d

Returned(r, s, t) ==
  /\ s.status[t] \in {"pending", "running"} /\ r.status[t] \in {"pending", "canceled"}
  /\ r.taskLeases[t] = NoLease /\ r.deliveries[t] = 0

Remembers(r, s, t) ==
  HasCancelIntent(s, Target[t], t) => HasCancelIntent(r, Target[t], t) \/ r.status[t] \in Terminal

Moved(r, s, t, last, upto) ==
  /\ \/ Stays(r, s, t) \/ Queued(r, s, t) \/ Offered(r, s, t, last, upto) \/ Returned(r, s, t)
     \/ \E d \in Delivery : Started(r, s, t, Target[t], d)
     \/ \E d \in Delivery, o \in Terminal : Ended(r, s, t, Target[t], d, o)
  /\ Remembers(r, s, t)

(* An accepted report either repeats what is known, or comes from the delivery  *)
(* that may start the task or may end it.                                       *)
LEMMA VerdictOk ==
  ASSUME NEW s \in Store, NEW t \in Task, NEW w \in Worker, NEW d \in Delivery,
         NEW o \in {"running"} \cup Outcome, Verdict(s, t, w, d, o) = "ok"
  PROVE  /\ Target[t] = w
         /\ \/ s.status[t] = o /\ s.deliveries[t] = d
            \/ /\ s.status[t] = "pending" /\ o = "running"
               /\ s.taskLeases[t] = [id |-> d, worker |-> w]
            \/ s.status[t] = "running" /\ o \in Outcome /\ s.deliveries[t] = d
<1>1. s.status[t] \in Status
  BY DEF Store
<1>2. QED
  BY <1>1 DEF Verdict, Status, Terminal

(* The reaping of w's leases, seen from one task. *)
LEMMA ReapMoves ==
  ASSUME NEW s, NEW last, SoundIn(s, last), NEW w \in Worker, NEW r \in Reaped(s, w),
         NEW t \in Task
  PROVE  Stays(r, s, t) /\ Remembers(r, s, t)
BY ReapTasks DEF Stays, Remembers

(* A report moves at most the task it is about, and only the delivery that is   *)
(* on offer, or the one that runs, moves it.                                    *)
LEMMA ReportMoves ==
  ASSUME NEW s, NEW last \in Nat, SoundIn(s, last), overdue \in Nat,
         NEW t \in Task, NEW w \in Worker, NEW d \in Delivery,
         NEW o \in {"running"} \cup Outcome, NEW m \in Reaped(s, w),
         NEW r, r = IF Verdict(m, t, w, d, o) = "ok" THEN Applied(m, t, w, d, o) ELSE m,
         NEW u \in Task
  PROVE  /\ \/ Stays(r, s, u)
            \/ u = t /\ o = "running" /\ Started(r, s, t, w, d)
            \/ u = t /\ o \in Outcome /\ Ended(r, s, t, w, d, o)
         /\ Remembers(r, s, u)
<1>1. SoundIn(m, last) /\ m \in Store /\ d \in Nat /\ Outcome \subseteq Terminal
  BY ReapSound, OutcomeAssumption DEF SoundIn, Delivery
<1>2. /\ m.status[u] = s.status[u] /\ m.deliveries[u] = s.deliveries[u]
      /\ m.taskLeases[u] = IF u \in Expired(s.taskLeases, w) THEN NoLease ELSE s.taskLeases[u]
      /\ HasCancelIntent(s, Target[u], u) => HasCancelIntent(m, Target[u], u)
  BY ReapTasks
<1>3. CASE r = m
  BY <1>2, <1>3 DEF Stays, Remembers
<1>4. CASE r # m /\ o = "running"
  <2>1. Verdict(m, t, w, d, o) = "ok" /\ r = Applied(m, t, w, d, o)
    BY <1>4
  <2>2. Target[t] = w /\ m.status[t] = "pending" /\ m.taskLeases[t] = [id |-> d, worker |-> w]
    BY <1>1, <1>4, <2>1, VerdictOk DEF Applied, Terminal
  <2>3. r = RemoveWork([m EXCEPT !.status[t] = "running", !.taskLeases[t] = NoLease,
                                 !.deliveries[t] = d], w, {t})
    BY <1>4, <2>1, <2>2 DEF Applied
  <2>4. /\ r.status = [m.status EXCEPT ![t] = "running"]
        /\ r.taskLeases = [m.taskLeases EXCEPT ![t] = NoLease]
        /\ r.deliveries = [m.deliveries EXCEPT ![t] = d]
        /\ r.cancelSet = m.cancelSet /\ r.cancelLeases = m.cancelLeases
    <3>1. Fields(r, [m.status EXCEPT ![t] = "running"], m.pending,
                 [m.workQueues EXCEPT ![w] = Without(m.workQueues[w], {t})], m.cancelQ,
                 m.cancelSet, [m.taskLeases EXCEPT ![t] = NoLease], m.cancelLeases,
                 [m.deliveries EXCEPT ![t] = d])
      BY <1>1, <2>3, StartFields
    <3>2. QED
      BY <3>1 DEF Fields
  <2>5. /\ r.status[u] = IF u = t THEN "running" ELSE m.status[u]
        /\ r.taskLeases[u] = IF u = t THEN NoLease ELSE m.taskLeases[u]
        /\ r.deliveries[u] = IF u = t THEN d ELSE m.deliveries[u]
        /\ HasCancelIntent(m, Target[u], u) => HasCancelIntent(r, Target[u], u)
    BY <1>1, <2>4 DEF Store, HasCancelIntent
  <2>6. CASE u = t
    <3>1. s.taskLeases[t] = [id |-> d, worker |-> w] /\ t \notin Expired(s.taskLeases, w)
      BY <1>1, <1>2, <2>2, <2>6 DEF NoLease, Delivery
    <3>2. d > overdue
      BY <1>1, <3>1 DEF Expired
    <3>3. QED
      BY <1>2, <1>4, <2>2, <2>5, <2>6, <3>1, <3>2 DEF Started, Remembers
  <2>7. CASE u # t
    BY <1>2, <2>5, <2>7 DEF Stays, Remembers
  <2>8. QED
    BY <2>6, <2>7
<1>5. CASE r # m /\ o # "running"
  <2>1. Verdict(m, t, w, d, o) = "ok" /\ r = Applied(m, t, w, d, o) /\ o \in Outcome
    BY <1>5
  <2>2. Target[t] = w /\ m.status[t] = "running" /\ m.deliveries[t] = d
    <3>1. m.status[t] # o
      BY <1>5, <2>1 DEF Applied
    <3>2. /\ Target[t] = w
          /\ \/ m.status[t] = o /\ m.deliveries[t] = d
             \/ /\ m.status[t] = "pending" /\ o = "running"
                /\ m.taskLeases[t] = [id |-> d, worker |-> w]
             \/ m.status[t] = "running" /\ o \in Outcome /\ m.deliveries[t] = d
      BY <1>1, <2>1, VerdictOk
    <3>3. QED
      BY <1>5, <3>1, <3>2
  <2>3. r = NotifyResult(RemoveCancel([m EXCEPT !.status[t] = o, !.taskLeases[t] = NoLease],
                                      w, {t}), t, o)
    BY <1>5, <2>1, <2>2 DEF Applied
  <2>4. /\ r.status = [m.status EXCEPT ![t] = o]
        /\ r.taskLeases = [m.taskLeases EXCEPT ![t] = NoLease]
        /\ r.deliveries = m.deliveries
        /\ r.cancelSet = [m.cancelSet EXCEPT ![w] = m.cancelSet[w] \ {t}]
        /\ r.cancelLeases = Revoke(m.cancelLeases, {t})
    <3>1. o \in Terminal
      BY <1>1, <2>1
    <3>2. Fields(r, [m.status EXCEPT ![t] = o],
                 [m.pending EXCEPT ![t] = IF m.pending[t] = "empty" THEN o ELSE m.pending[t]],
                 m.workQueues,
                 [m.cancelQ EXCEPT ![w] = Without(m.cancelQ[w], {t})],
                 [m.cancelSet EXCEPT ![w] = m.cancelSet[w] \ {t}],
                 [m.taskLeases EXCEPT ![t] = NoLease], Revoke(m.cancelLeases, {t}), m.deliveries)
      BY <1>1, <2>3, <3>1, EndFields
    <3>3. QED
      BY <3>2 DEF Fields
  <2>5. Target[u] \in Worker
    BY TargetAssumption
  <2>6. /\ r.status[u] = IF u = t THEN o ELSE m.status[u]
        /\ r.taskLeases[u] = IF u = t THEN NoLease ELSE m.taskLeases[u]
        /\ r.deliveries[u] = m.deliveries[u]
        /\ u # t => (HasCancelIntent(m, Target[u], u) => HasCancelIntent(r, Target[u], u))
    <3>1. /\ r.status[u] = IF u = t THEN o ELSE m.status[u]
          /\ r.taskLeases[u] = IF u = t THEN NoLease ELSE m.taskLeases[u]
          /\ r.cancelSet[Target[u]] = IF Target[u] = w THEN m.cancelSet[w] \ {t}
                                                      ELSE m.cancelSet[Target[u]]
      BY <1>1, <2>4, <2>5 DEF Store
    <3>2. u # t => r.cancelLeases[u] = m.cancelLeases[u]
      BY <2>4 DEF Revoke
    <3>3. QED
      BY <2>4, <3>1, <3>2 DEF HasCancelIntent
  <2>7. CASE u = t
    BY <1>1, <1>2, <2>1, <2>2, <2>6, <2>7 DEF Ended, Remembers
  <2>8. CASE u # t
    BY <1>2, <2>6, <2>8 DEF Stays, Remembers
  <2>9. QED
    BY <2>7, <2>8
<1>6. QED
  BY <1>3, <1>4, <1>5

(* A claim offers tasks of w under numbers not used before. *)
LEMMA ClaimMoves ==
  ASSUME IInv, NEW w \in Worker, NEW n \in Limit, Claim(w, n), NEW t \in Task
  PROVE  /\ Stays(store', store, t) \/ Offered(store', store, t, issued, issued')
         /\ Remembers(store', store, t)
<1>1. PICK s \in Reaped(store, w) : HandedOut(store', s, w, issued, issued')
  BY ClaimStep
<1>2. SoundIn(store, issued)
  BY DEF IInv
<1>3. /\ s.status[t] = store.status[t] /\ s.deliveries[t] = store.deliveries[t]
      /\ s.taskLeases[t] \in {store.taskLeases[t], NoLease}
      /\ HasCancelIntent(store, Target[t], t) => HasCancelIntent(s, Target[t], t)
  BY <1>2, ReapTasks
<1>4. /\ store'.status[t] = s.status[t] /\ store'.deliveries[t] = s.deliveries[t]
      /\ \/ store'.taskLeases[t] = s.taskLeases[t]
         \/ /\ store'.taskLeases[t] \in [id : (issued + 1) .. issued', worker : {Target[t]}]
            /\ s.status[t] = "pending"
      /\ HasCancelIntent(s, Target[t], t) => HasCancelIntent(store', Target[t], t)
  BY <1>1 DEF HandedOut
<1>5. QED
  BY <1>3, <1>4 DEF Stays, Offered, Remembers

(* Recovery returns the open tasks of w, and cancels those whose end was asked for. *)
LEMMA RecoverMoves ==
  ASSUME NEW s, NEW last \in Nat, SoundIn(s, last), NEW w \in Worker,
         NEW order \in Orders(Open(s, w) \ Doomed(s, w)),
         NEW r, r = SignalWaiters(Recovered(s, w, order), w), NEW t \in Task
  PROVE  /\ IF t \in Open(s, w) THEN Returned(r, s, t) ELSE Stays(r, s, t)
         /\ Remembers(r, s, t)
<1> DEFINE m == Recovered(s, w, order)
<1>1. s \in Store /\ Target[t] \in Worker
  BY TargetAssumption DEF SoundIn
<1>2. order \in Seq(Task)
  <2>1. Open(s, w) \ Doomed(s, w) \in SUBSET Task /\ IsFiniteSet(Open(s, w) \ Doomed(s, w))
    <3>1. Open(s, w) \ Doomed(s, w) \subseteq Task
      BY DEF Open
    <3>2. QED
      BY <3>1, TaskAssumption, FS_Subset
  <2>2. QED
    BY <2>1, OrdersFacts
<1>3. Fields(m,
           [u \in Task |-> CASE u \in Doomed(s, w) -> "canceled"
                             [] u \in Open(s, w) \ Doomed(s, w) -> "pending"
                             [] u \notin Open(s, w) -> s.status[u]],
           [u \in Task |-> IF u \in Doomed(s, w) /\ s.pending[u] = "empty"
                           THEN "canceled" ELSE s.pending[u]],
           [s.workQueues EXCEPT ![w] = Without(s.workQueues[w], Open(s, w)) \o order],
           [s.cancelQ EXCEPT ![w] = Without(s.cancelQ[w], Open(s, w))],
           [s.cancelSet EXCEPT ![w] = s.cancelSet[w] \ Open(s, w)],
           Revoke(s.taskLeases, Open(s, w)), Revoke(s.cancelLeases, Open(s, w)),
           [u \in Task |-> IF u \in Open(s, w) THEN 0 ELSE s.deliveries[u]])
  BY <1>1, <1>2, RecoverFields
<1> HIDE DEF m
<1>4. Doomed(s, w) \subseteq Open(s, w)
  BY DEF Doomed
<1>5. /\ m \in Store
      /\ m.status[t] = IF t \in Doomed(s, w) THEN "canceled"
                       ELSE IF t \in Open(s, w) THEN "pending" ELSE s.status[t]
      /\ m.deliveries[t] = IF t \in Open(s, w) THEN 0 ELSE s.deliveries[t]
      /\ m.taskLeases[t] = IF t \in Open(s, w) THEN NoLease ELSE s.taskLeases[t]
      /\ m.cancelLeases[t] = IF t \in Open(s, w) THEN NoLease ELSE s.cancelLeases[t]
      /\ t \notin Open(s, w) => (t \in s.cancelSet[Target[t]] => t \in m.cancelSet[Target[t]])
  <2>1. /\ m \in Store
        /\ m.status[t] = IF t \in Doomed(s, w) THEN "canceled"
                         ELSE IF t \in Open(s, w) THEN "pending" ELSE s.status[t]
        /\ m.deliveries[t] = IF t \in Open(s, w) THEN 0 ELSE s.deliveries[t]
    BY <1>3, <1>4 DEF Fields
  <2>2. /\ m.taskLeases[t] = IF t \in Open(s, w) THEN NoLease ELSE s.taskLeases[t]
        /\ m.cancelLeases[t] = IF t \in Open(s, w) THEN NoLease ELSE s.cancelLeases[t]
    <3>1. /\ m.taskLeases = Revoke(s.taskLeases, Open(s, w))
          /\ m.cancelLeases = Revoke(s.cancelLeases, Open(s, w))
      BY <1>3 DEF Fields
    <3>2. QED
      BY <3>1 DEF Revoke
  <2>3. t \notin Open(s, w) => (t \in s.cancelSet[Target[t]] => t \in m.cancelSet[Target[t]])
    <3>1. m.cancelSet = [s.cancelSet EXCEPT ![w] = s.cancelSet[w] \ Open(s, w)]
      BY <1>3 DEF Fields
    <3>2. QED
      BY <1>1, <3>1 DEF Store
  <2>4. QED
    BY <2>1, <2>2, <2>3
<1>6. SameJobs(r, m)
  BY <1>5, SignalFields DEF m
<1>7. CASE t \in Open(s, w)
  <2>1. Target[t] = w /\ s.status[t] \in {"pending", "running"}
    BY <1>7 DEF Open
  <2>2. HasCancelIntent(s, Target[t], t) => t \in Doomed(s, w)
    BY <1>7, <2>1 DEF Doomed
  <2>3. QED
    BY <1>5, <1>6, <1>7, <2>1, <2>2 DEF SameJobs, Returned, Remembers, Terminal
<1>8. CASE t \notin Open(s, w)
  BY <1>4, <1>5, <1>6, <1>8 DEF SameJobs, Stays, Remembers, HasCancelIntent
<1>9. QED
  BY <1>7, <1>8

(* Canceling a pending task drops its lease and touches no other task. *)
LEMMA CancelPendingMoves ==
  ASSUME NEW s, NEW last \in Nat, SoundIn(s, last), NEW t \in Task, s.status[t] = "pending",
         NEW r, r = NotifyResult(RemoveWork([s EXCEPT !.status[t] = "canceled",
                                                      !.taskLeases[t] = NoLease,
                                                      !.deliveries[t] = 0], Target[t], {t}),
                                 t, "canceled"),
         NEW u \in Task
  PROVE  /\ IF u = t THEN Returned(r, s, u) ELSE Stays(r, s, u)
         /\ Remembers(r, s, u)
<1>1. s \in Store /\ Target[t] \in Worker
  BY TargetAssumption DEF SoundIn
<1>2. /\ r.status = [s.status EXCEPT ![t] = "canceled"]
      /\ r.taskLeases = [s.taskLeases EXCEPT ![t] = NoLease]
      /\ r.deliveries = [s.deliveries EXCEPT ![t] = 0]
      /\ r.cancelSet = s.cancelSet /\ r.cancelLeases = s.cancelLeases
  <2>1. Fields(r, [s.status EXCEPT ![t] = "canceled"],
               [s.pending EXCEPT ![t] = IF s.pending[t] = "empty" THEN "canceled" ELSE s.pending[t]],
               [s.workQueues EXCEPT ![Target[t]] = Without(s.workQueues[Target[t]], {t})],
               s.cancelQ, s.cancelSet, [s.taskLeases EXCEPT ![t] = NoLease], s.cancelLeases,
               [s.deliveries EXCEPT ![t] = 0])
    BY <1>1, CancelPendingFields
  <2>2. QED
    BY <2>1 DEF Fields
<1>3. /\ r.status[u] = IF u = t THEN "canceled" ELSE s.status[u]
      /\ r.taskLeases[u] = IF u = t THEN NoLease ELSE s.taskLeases[u]
      /\ r.deliveries[u] = IF u = t THEN 0 ELSE s.deliveries[u]
      /\ HasCancelIntent(s, Target[u], u) => HasCancelIntent(r, Target[u], u)
  BY <1>1, <1>2 DEF Store, HasCancelIntent
<1>4. QED
  BY <1>3 DEF Returned, Stays, Remembers

(* Tokens, wait lists, blocks and result channels move no task. *)
LEMMA SameMoves ==
  ASSUME NEW s, NEW r, r.status = s.status, r.taskLeases = s.taskLeases,
         r.deliveries = s.deliveries, r.cancelSet = s.cancelSet,
         r.cancelLeases = s.cancelLeases, NEW t \in Task
  PROVE  Stays(r, s, t) /\ Remembers(r, s, t)
BY DEF Stays, Remembers, HasCancelIntent

(* A dispatch queues one task. *)
LEMMA EnqueueMoves ==
  ASSUME store \in Store, NEW t \in Task, EnqueuePending(t), NEW u \in Task
  PROVE  /\ issued' = issued
         /\ Stays(store', store, u) \/ Queued(store', store, u)
         /\ Remembers(store', store, u)
<1> DEFINE wq == Append(store.workQueues[Target[t]], t)
           z == [store EXCEPT !.status[t] = "pending", !.workQueues[Target[t]] = wq]
<1>1. Target[t] \in Worker /\ wq \in Seq(Task)
  BY TargetAssumption DEF Store
<1>2. store' = SignalWaiters(z, Target[t]) /\ issued' = issued /\ store.status[t] = "absent"
  BY DEF EnqueuePending
<1> HIDE DEF wq
<1>3. /\ z \in Store /\ z.status = [store.status EXCEPT ![t] = "pending"]
      /\ z.deliveries = store.deliveries /\ z.taskLeases = store.taskLeases
      /\ z.cancelLeases = store.cancelLeases /\ z.cancelSet = store.cancelSet
  BY <1>1 DEF Store, Status
<1> HIDE DEF z
<1>4. SameJobs(store', z)
  BY <1>1, <1>2, <1>3, SignalFields
<1>5. /\ store'.status[u] = IF u = t THEN "pending" ELSE store.status[u]
      /\ store'.deliveries = store.deliveries /\ store'.taskLeases = store.taskLeases
      /\ store'.cancelLeases = store.cancelLeases /\ store'.cancelSet = store.cancelSet
  BY <1>3, <1>4 DEF SameJobs, Store
<1>6. QED
  BY <1>2, <1>5 DEF Queued, Stays, Remembers, HasCancelIntent

(* A cancel job for a running task moves no task. *)
LEMMA EnqueueCancelMoves ==
  ASSUME store \in Store, NEW t \in Task, EnqueueCancel(t), NEW u \in Task
  PROVE  issued' = issued /\ Stays(store', store, u) /\ Remembers(store', store, u)
<1> DEFINE cs == store.cancelSet[Target[t]] \cup {t}
           cq == Append(store.cancelQ[Target[t]], t)
           z == [store EXCEPT !.cancelSet[Target[t]] = cs, !.cancelQ[Target[t]] = cq]
<1>1. /\ Target[t] \in Worker /\ cs \in SUBSET Task /\ cq \in Seq(Task)
      /\ store.cancelSet[Target[t]] \subseteq cs /\ Target[u] \in Worker
  BY TargetAssumption DEF Store
<1>2. store' = SignalWaiters(z, Target[t]) /\ issued' = issued
  BY DEF EnqueueCancel
<1> HIDE DEF cs, cq
<1>3. /\ z \in Store /\ z.status = store.status /\ z.deliveries = store.deliveries
      /\ z.taskLeases = store.taskLeases /\ z.cancelLeases = store.cancelLeases
      /\ \A v \in Worker : store.cancelSet[v] \subseteq z.cancelSet[v]
  BY <1>1 DEF Store
<1> HIDE DEF z
<1>4. SameJobs(store', z)
  BY <1>1, <1>2, <1>3, SignalFields
<1>5. QED
  BY <1>1, <1>2, <1>3, <1>4 DEF SameJobs, Stays, Remembers, HasCancelIntent

(* Every step of the store moves each task in one of the ways listed above. *)
LEMMA StepMoves ==
  ASSUME IInv, [Next]_vars
  PROVE  /\ issued \in Nat /\ issued' \in Nat /\ issued <= issued' /\ overdue \in Nat
         /\ \A t \in Task : Moved(store', store, t, issued, issued')
<1>1. /\ SoundIn(store, issued) /\ store \in Store
      /\ issued \in Nat /\ overdue \in Nat
  BY MaxDeliveryAssumption DEF IInv, SoundIn
<1>2. ASSUME issued' = issued,
             \A t \in Task : Stays(store', store, t) /\ Remembers(store', store, t)
      PROVE  /\ issued' \in Nat /\ issued <= issued'
             /\ \A t \in Task : Moved(store', store, t, issued, issued')
  BY <1>1, <1>2 DEF Moved
<1>3. ASSUME NEW t \in Task, EnqueuePending(t)
      PROVE  /\ issued' \in Nat /\ issued <= issued'
             /\ \A u \in Task : Moved(store', store, u, issued, issued')
  BY <1>1, <1>3, EnqueueMoves DEF Moved
<1>4. ASSUME NEW t \in Task, RegisterPending(t) \/ ReceiveResult(t) \/ UnregisterPending(t)
      PROVE  issued' = issued /\ \A u \in Task : Stays(store', store, u) /\ Remembers(store', store, u)
  <2>1. /\ store'.status = store.status /\ store'.taskLeases = store.taskLeases
        /\ store'.deliveries = store.deliveries /\ store'.cancelSet = store.cancelSet
        /\ store'.cancelLeases = store.cancelLeases /\ issued' = issued
    BY <1>1, <1>4 DEF RegisterPending, ReceiveResult, UnregisterPending, Store
  <2>2. QED
    BY <2>1, SameMoves
<1>5. ASSUME NEW t \in Task, CancelPending(t)
      PROVE  /\ issued' \in Nat /\ issued <= issued'
             /\ \A u \in Task : Moved(store', store, u, issued, issued')
  <2>1. \A u \in Task : /\ IF u = t THEN Returned(store', store, u) ELSE Stays(store', store, u)
                        /\ Remembers(store', store, u)
    BY <1>1, <1>5, CancelPendingMoves DEF CancelPending
  <2>2. QED
    BY <1>1, <1>5, <2>1 DEF CancelPending, Moved
<1>6. ASSUME NEW t \in Task, EnqueueCancel(t)
      PROVE  issued' = issued /\ \A u \in Task : Stays(store', store, u) /\ Remembers(store', store, u)
  BY <1>1, <1>6, EnqueueCancelMoves
<1>7. ASSUME NEW t \in Task, NEW w \in Worker, NEW d \in Delivery,
             NEW o \in {"running"} \cup Outcome, ApplyResult(t, w, d, o)
      PROVE  /\ issued' \in Nat /\ issued <= issued'
             /\ \A u \in Task : Moved(store', store, u, issued, issued')
  <2>1. PICK m \in Reaped(store, w) :
          store' = IF Verdict(m, t, w, d, o) = "ok" THEN Applied(m, t, w, d, o) ELSE m
    BY <1>7 DEF ApplyResult
  <2>2. ASSUME NEW u \in Task
        PROVE  /\ \/ Stays(store', store, u)
                  \/ u = t /\ o = "running" /\ Started(store', store, t, w, d)
                  \/ u = t /\ o \in Outcome /\ Ended(store', store, t, w, d, o)
               /\ Remembers(store', store, u)
    BY <1>1, <2>1, ReportMoves
  <2>3. \A u \in Task : Moved(store', store, u, issued, issued')
    BY <2>2, OutcomeAssumption DEF Moved, Started, Ended
  <2>4. QED
    BY <1>1, <1>7, <2>3 DEF ApplyResult
<1>8. ASSUME NEW w \in Worker, NEW n \in Limit, Claim(w, n)
      PROVE  /\ issued' \in Nat /\ issued <= issued'
             /\ \A u \in Task : Moved(store', store, u, issued, issued')
  BY <1>8, ClaimStep, ClaimMoves DEF Moved
<1>9. ASSUME NEW w \in Worker, RecoverWorker(w)
      PROVE  /\ issued' \in Nat /\ issued <= issued'
             /\ \A u \in Task : Moved(store', store, u, issued, issued')
  <2>1. PICK order \in Orders(Open(store, w) \ Doomed(store, w)) :
          store' = SignalWaiters(Recovered(store, w, order), w)
    BY <1>9 DEF RecoverWorker
  <2>2. \A u \in Task :
          /\ IF u \in Open(store, w) THEN Returned(store', store, u) ELSE Stays(store', store, u)
          /\ Remembers(store', store, u)
    BY <1>1, <2>1, RecoverMoves
  <2>3. QED
    BY <1>1, <1>9, <2>2 DEF RecoverWorker, Moved
<1>10. ASSUME NEW w \in Worker, BlockWorker(w) \/ UnblockWorker(w)
       PROVE  issued' = issued /\ \A u \in Task : Stays(store', store, u) /\ Remembers(store', store, u)
  <2>1. /\ store'.status = store.status /\ store'.taskLeases = store.taskLeases
        /\ store'.deliveries = store.deliveries /\ store'.cancelSet = store.cancelSet
        /\ store'.cancelLeases = store.cancelLeases /\ issued' = issued
    BY <1>1, <1>10 DEF BlockWorker, UnblockWorker, SignalWaiters, Store
  <2>2. QED
    BY <2>1, SameMoves
<1>11. ASSUME NEW c \in Chan, NEW w \in Worker, AddWaiter(c, w) \/ RemoveWaiter(c, w)
       PROVE  issued' = issued /\ \A u \in Task : Stays(store', store, u) /\ Remembers(store', store, u)
  <2>1. /\ store'.status = store.status /\ store'.taskLeases = store.taskLeases
        /\ store'.deliveries = store.deliveries /\ store'.cancelSet = store.cancelSet
        /\ store'.cancelLeases = store.cancelLeases /\ issued' = issued
    BY <1>1, <1>11 DEF AddWaiter, RemoveWaiter, Store
  <2>2. QED
    BY <2>1, SameMoves
<1>12. ASSUME LeaseTimePasses \/ UNCHANGED vars
       PROVE  issued' = issued /\ \A u \in Task : Stays(store', store, u) /\ Remembers(store', store, u)
  BY <1>12, SameMoves DEF LeaseTimePasses, vars
<1>13. ASSUME NEW c \in Chan, TakeToken(c)
       PROVE  issued' = issued /\ \A u \in Task : Stays(store', store, u) /\ Remembers(store', store, u)
  <2>1. /\ store'.status = store.status /\ store'.taskLeases = store.taskLeases
        /\ store'.deliveries = store.deliveries /\ store'.cancelSet = store.cancelSet
        /\ store'.cancelLeases = store.cancelLeases /\ issued' = issued
    BY <1>1, <1>13 DEF TakeToken, Store
  <2>2. QED
    BY <2>1, SameMoves
<1>14. QED
  BY <1>1, <1>2, <1>3, <1>4, <1>5, <1>6, <1>7, <1>8, <1>9, <1>10, <1>11, <1>12, <1>13 DEF Next

-----------------------------------------------------------------------------
(* Theorems. *)

(* The store is sound in every state: the invariant the following ones rest on. *)
THEOREM StoreIsSound == Spec => []IInv
<1>1. Init => IInv
  BY InitSound
<1>2. IInv /\ [Next]_vars => IInv'
  BY StepSound
<1>3. QED
  BY <1>1, <1>2, PTL DEF Spec

(* The Store struct keeps the shape of its declaration. *)
THEOREM TypeCorrect == Spec => []TypeOK
<1>1. IInv => TypeOK
  BY DEF IInv, SoundIn, TypeOK
<1>2. QED
  BY <1>1, StoreIsSound, PTL

(* No pending task is lost or handed out twice, whichever methods are called. *)
THEOREM NoTaskIsLost == Spec => []PendingIsPlaced
<1>1. IInv => PendingIsPlaced
  BY DEF IInv, SoundIn, PendingIsPlaced
<1>2. QED
  BY <1>1, StoreIsSound, PTL

(* A cancel job exists only for a running task, once, at the task's Worker. *)
THEOREM CancelJobsAreSound == Spec => []CancelIsPlaced
<1>1. IInv => CancelIsPlaced
  BY DEF IInv, SoundIn, CancelIsPlaced
<1>2. QED
  BY <1>1, StoreIsSound, PTL

(* No two tasks share a delivery number. *)
THEOREM DeliveriesIdentifyTasks == Spec => []DeliveriesDistinct
<1>1. IInv => DeliveriesDistinct
  BY DEF IInv, SoundIn, DeliveriesDistinct
<1>2. QED
  BY <1>1, StoreIsSound, PTL

(* A dispatcher that waits on a channel finds the result of an ended task in it. *)
THEOREM NoDispatcherWaitsInVain == Spec => []ResultsReachWaiters
<1>1. IInv => ResultsReachWaiters
  BY DEF IInv, SoundIn, ResultsReachWaiters
<1>2. QED
  BY <1>1, StoreIsSound, PTL

(* A cancel request on record stays on record until its task has ended, through *)
(* lost leases, claims and recovery.                                            *)
THEOREM CancelRequestsStick == Spec => CancelSticks
<1>1. IInv /\ [Next]_vars =>
        [\A t \in Task : HasCancelIntent(store, Target[t], t)
           => HasCancelIntent(store, Target[t], t)' \/ store.status'[t] \in Terminal]_vars
  <2> SUFFICES ASSUME IInv, [Next]_vars, NEW t \in Task, HasCancelIntent(store, Target[t], t)
               PROVE  HasCancelIntent(store, Target[t], t)' \/ store.status'[t] \in Terminal
    OBVIOUS
  <2>1. Remembers(store', store, t)
    BY StepMoves DEF Moved
  <2>2. QED
    BY <2>1 DEF Remembers, HasCancelIntent
<1>2. QED
  BY <1>1, StoreIsSound, PTL DEF Spec, CancelSticks

(* A running report whose lease has run out does not start the task, whether or *)
(* not the lease has been reaped.                                               *)
THEOREM LateReportsLose == Spec => LateNeverConfirms
<1>1. IInv /\ [Next]_vars =>
        [\A t \in Task : store.status[t] = "pending" /\ store.status'[t] = "running"
           => store.deliveries'[t] = store.taskLeases[t].id /\ store.deliveries'[t] > overdue]_vars
  <2> SUFFICES ASSUME IInv, [Next]_vars, NEW t \in Task,
                      store.status[t] = "pending", store.status'[t] = "running"
               PROVE  /\ store.deliveries'[t] = store.taskLeases[t].id
                      /\ store.deliveries'[t] > overdue
    OBVIOUS
  <2>1. PICK d \in Delivery : Started(store', store, t, Target[t], d)
    BY StepMoves DEF Moved, Stays, Queued, Offered, Returned, Ended, Terminal
  <2>2. QED
    BY <2>1 DEF Started
<1>2. QED
  BY <1>1, StoreIsSound, PTL DEF Spec, LateNeverConfirms

(* The store implements TaskLifecycle: each of its steps is a step of the life  *)
(* cycle or leaves it alone.                                                    *)
THEOREM StoreKeepsLifecycle == Spec => KeepsLifecycle
<1> DEFINE offer == [t \in Task |-> store.taskLeases[t].id]
<1>1. Init => Lifecycle!Init
  BY DEF Init, NewStore, NoLease, Lifecycle!Init
<1>2. ASSUME IInv, IInv', [Next]_vars, NEW t \in Task PROVE Lifecycle!Move(t)
  <2>1. /\ issued \in Nat /\ issued' \in Nat /\ issued <= issued'
        /\ Moved(store', store, t, issued, issued')
    BY <1>2, StepMoves
  <2>2. /\ TaskLeasesIn(store, issued) /\ DeliveriesIn(store, issued)
        /\ TaskLeasesIn(store', issued') /\ DeliveriesIn(store', issued')
    BY <1>2 DEF IInv, SoundIn
  <2>3. /\ offer[t] = store.taskLeases[t].id
        /\ offer'[t] = store'.taskLeases[t].id
    OBVIOUS
  <2>4. CASE Stays(store', store, t)
    <3>1. CASE store'.taskLeases[t] = store.taskLeases[t]
      BY <2>4, <3>1 DEF Stays, Lifecycle!Move, Lifecycle!Stay
    <3>2. CASE store'.taskLeases[t] # store.taskLeases[t]
      <4>1. store'.taskLeases[t].id = 0 /\ store.status[t] = "pending" /\ store.deliveries[t] = 0
        BY <2>2, <2>4, <3>2 DEF Stays, NoLease, TaskLeasesIn, DeliveriesIn
      <4>2. QED
        BY <2>4, <4>1 DEF Stays, Lifecycle!Move, Lifecycle!Withdraw
    <3>3. QED
      BY <3>1, <3>2
  <2>5. CASE Queued(store', store, t)
    <3>1. store.taskLeases[t].id = 0 /\ store.deliveries[t] = 0
      BY <2>2, <2>5 DEF Queued, TaskLeasesIn, DeliveriesIn, NoLease
    <3>2. QED
      BY <2>5, <3>1 DEF Queued, Lifecycle!Move, Lifecycle!Submit
  <2>6. CASE Offered(store', store, t, issued, issued')
    <3>1. store.deliveries[t] = 0 /\ store'.taskLeases[t].id \in (issued + 1) .. issued'
      BY <2>2, <2>6 DEF Offered, DeliveriesIn
    <3>2. \A u \in Task \ {t} : store'.taskLeases[u].id # store'.taskLeases[t].id
      BY <2>1, <2>2, <3>1 DEF DeliveriesIn, Numbers
    <3>3. QED
      BY <2>6, <3>1, <3>2 DEF Offered, Lifecycle!Move, Lifecycle!Offer
  <2>7. CASE Returned(store', store, t)
    BY <2>7 DEF Returned, NoLease, Lifecycle!Move, Lifecycle!Withdraw, Lifecycle!Cancel
  <2>8. CASE \E d \in Delivery : Started(store', store, t, Target[t], d)
    BY <2>8 DEF Started, Delivery, NoLease, Lifecycle!Move, Lifecycle!Confirm
  <2>9. CASE \E d \in Delivery, o \in Terminal : Ended(store', store, t, Target[t], d, o)
    BY <2>9 DEF Ended, NoLease, Terminal, Lifecycle!Move, Lifecycle!Finish, Lifecycle!Ended
  <2>10. QED
    BY <2>1, <2>4, <2>5, <2>6, <2>7, <2>8, <2>9 DEF Moved
<1>3. IInv /\ IInv' /\ [Next]_vars => [Lifecycle!Next]_(Lifecycle!lifecycle)
  <2> SUFFICES ASSUME IInv, IInv', [Next]_vars PROVE Lifecycle!Next
    OBVIOUS
  <2>1. issued' >= issued
    BY StepMoves
  <2>2. QED
    BY <1>2, <2>1 DEF Lifecycle!Next
<1>4. QED
  BY <1>1, <1>3, StoreIsSound, PTL DEF Spec, KeepsLifecycle, Lifecycle!Spec
=============================================================================
