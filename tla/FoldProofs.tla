----------------------------- MODULE FoldProofs ------------------------------
(***************************************************************************)
(* What the folds of the community modules compute.  A recursive function  *)
(* stands for a CHOOSE; here is shown that there is such a function, and   *)
(* how to reason by induction about it.                                    *)
(***************************************************************************)
EXTENDS Integers, Sequences, SequencesExt, FiniteSetsExt, Functions, Folds,
        FiniteSetTheorems, FunctionTheorems, SequenceTheorems, NaturalsInduction,
        WellFoundedInduction, TLAPS

-----------------------------------------------------------------------------
\* Least and greatest numbers.

\* Some number of a nonempty set is the least.
LEMMA Least ==
  ASSUME NEW T, T \subseteq Nat, T # {}
  PROVE  \E x \in T : \A y \in T : x <= y
<1> DEFINE Less == {ss \in Nat \X Nat : ss[1] < ss[2]}
<1>1. IsWellFoundedOn(Less, Nat)
  BY NatLessThanWellFounded DEF OpToRel
<1> HIDE DEF Less
<1>2. PICK x \in T : \A y \in T : <<y, x>> \notin Less
  BY <1>1, WFMin
<1>3. ASSUME NEW y \in T PROVE x <= y
  <2>1. <<y, x>> \in Nat \X Nat /\ <<y, x>>[1] = y /\ <<y, x>>[2] = x
    OBVIOUS
  <2>2. ~(y < x)
    BY <1>2, <2>1 DEF Less
  <2> QED
    BY <2>2
<1> QED
  BY <1>3

\* A set of numbers up to some n has a greatest one.
LEMMA Greatest ==
  ASSUME NEW n \in Nat, NEW T, T \subseteq 0..n, T # {}
  PROVE  \E x \in T : \A y \in T : y <= x
<1> DEFINE U == {n - x : x \in T}
<1>1. U \subseteq Nat /\ U # {}
  <2>1. \A x \in T : n - x \in Nat
    OBVIOUS
  <2>2. PICK x \in T : TRUE
    OBVIOUS
  <2>3. n - x \in U
    OBVIOUS
  <2> QED
    BY <2>1, <2>3
<1>2. PICK u \in U : \A v \in U : u <= v
  BY <1>1, Least
<1>3. PICK x \in T : u = n - x
  OBVIOUS
<1>4. \A y \in T : n - x <= n - y
  BY <1>2, <1>3
<1> QED
  BY <1>4

\* Min and Max of a set of numbers are its least and greatest.
LEMMA MinIsLeast ==
  ASSUME NEW T, T \subseteq Nat, T # {}
  PROVE  Min(T) \in T /\ \A y \in T : Min(T) <= y
<1>1. \E x \in T : \A y \in T : x <= y
  BY Least
<1> QED
  BY <1>1, Zenon DEF Min

LEMMA MaxIsGreatest ==
  ASSUME NEW n \in Nat, NEW T, T \subseteq 0..n, T # {}
  PROVE  Max(T) \in T /\ \A y \in T : y <= Max(T)
<1>1. \E x \in T : \A y \in T : x >= y
  <2>1. PICK x \in T : \A y \in T : y <= x
    BY Greatest
  <2> QED
    BY <2>1
<1>2. Max(T) \in T /\ \A y \in T : Max(T) >= y
  BY <1>1, Zenon DEF Max
<1> QED
  BY <1>2

-----------------------------------------------------------------------------
\* Recursion over the subsets of a finite set, one element less each time.

\* f folds the subsets of S: c takes an element, G adds it to the rest.
Folding(f, S, b, c, G) ==
  \A s \in SUBSET S : f[s] = IF s = {} THEN b ELSE G[<<c[s], f[s \ {c[s]}]>>]

\* There is such a function.
LEMMA RecursionExists ==
  ASSUME NEW S, IsFiniteSet(S), NEW T, NEW b \in T, NEW c, \A s \in SUBSET S : s # {} => c[s] \in s,
         NEW G \in [S \X T -> T]
  PROVE  \E f \in [SUBSET S -> T] : Folding(f, S, b, c, G)
<1> DEFINE D(n) == {s \in SUBSET S : Cardinality(s) <= n}
           Meets(f, n) == \A s \in D(n) : f[s] = IF s = {} THEN b ELSE G[<<c[s], f[s \ {c[s]}]>>]
           Good == {n \in Nat : \E f \in [D(n) -> T] : Meets(f, n)}
<1>1. \A s \in SUBSET S : /\ IsFiniteSet(s) /\ Cardinality(s) \in Nat
                          /\ Cardinality(s) <= Cardinality(S)
                          /\ Cardinality(s) = 0 <=> s = {}
  BY FS_Subset, FS_CardinalityType, FS_EmptySet
<1>2. \A s \in SUBSET S : s # {} => /\ s \ {c[s]} \in SUBSET S /\ c[s] \in S
                                    /\ Cardinality(s \ {c[s]}) = Cardinality(s) - 1
  <2> SUFFICES ASSUME NEW s \in SUBSET S, s # {}
               PROVE  /\ s \ {c[s]} \in SUBSET S /\ c[s] \in S
                      /\ Cardinality(s \ {c[s]}) = Cardinality(s) - 1
    OBVIOUS
  <2>1. c[s] \in s /\ IsFiniteSet(s)
    BY <1>1
  <2> QED
    BY <2>1, FS_RemoveElement
<1>3. 0 \in Good
  <2> DEFINE f == [s \in D(0) |-> b]
  <2>1. \A s \in D(0) : s = {}
    BY <1>1
  <2>2. f \in [D(0) -> T] /\ Meets(f, 0)
    BY <2>1
  <2> HIDE DEF f, Meets, D
  <2> QED
    BY <2>2
<1>4. ASSUME NEW n \in Nat, n \in Good PROVE n + 1 \in Good
  <2>1. PICK f \in [D(n) -> T] : Meets(f, n)
    BY <1>4
  <2> DEFINE g == [s \in D(n + 1) |-> IF s = {} THEN b ELSE G[<<c[s], f[s \ {c[s]}]>>]]
  <2>2. \A s \in D(n + 1) : s # {} => s \ {c[s]} \in D(n) /\ c[s] \in S
    BY <1>1, <1>2
  <2>3. g \in [D(n + 1) -> T]
    <3>1. \A s \in D(n + 1) : s # {} => f[s \ {c[s]}] \in T
      BY <2>1, <2>2
    <3>2. \A s \in D(n + 1) : s # {} => G[<<c[s], f[s \ {c[s]}]>>] \in T
      BY <2>2, <3>1
    <3> HIDE DEF D
    <3> QED
      BY <3>2
  <2>4. \A s \in D(n) : s \in D(n + 1) /\ g[s] = f[s]
    <3>1. \A s \in D(n) : s \in D(n + 1)
      BY <1>1
    <3>2. \A s \in D(n) : f[s] = IF s = {} THEN b ELSE G[<<c[s], f[s \ {c[s]}]>>]
      BY <2>1
    <3> HIDE DEF D
    <3> QED
      BY <3>1, <3>2
  <2>5. Meets(g, n + 1)
    <3> SUFFICES ASSUME NEW s \in D(n + 1)
                 PROVE  g[s] = IF s = {} THEN b ELSE G[<<c[s], g[s \ {c[s]}]>>]
      OBVIOUS
    <3>1. s # {} => g[s \ {c[s]}] = f[s \ {c[s]}]
      BY <2>2, <2>4
    <3> HIDE DEF D
    <3> QED
      BY <3>1
  <2> HIDE DEF Meets, D, g
  <2> QED
    BY <2>3, <2>5
<1>5. Good = Nat
  <2> DEFINE Bad == Nat \ Good
  <2> SUFFICES ASSUME Bad # {} PROVE FALSE
    OBVIOUS
  <2> HIDE DEF Good
  <2>1. PICK n \in Bad : \A m \in Bad : n <= m
    BY Least
  <2>2. n # 0 /\ n \in Nat
    BY <1>3, <2>1
  <2>3. n - 1 \in Nat /\ n - 1 \in Good /\ n = n - 1 + 1
    BY <2>1, <2>2
  <2> QED
    BY <1>4, <2>1, <2>3
<1>6. Cardinality(S) \in Nat /\ D(Cardinality(S)) = SUBSET S
  <2>1. S \in SUBSET S
    OBVIOUS
  <2> QED
    BY <1>1, <2>1
<1>7. PICK f \in [D(Cardinality(S)) -> T] : Meets(f, Cardinality(S))
  BY <1>5, <1>6
<1> QED
  BY <1>6, <1>7 DEF Folding

\* P has the empty set, and a set if it has that set without the element taken.
Grows(P, S, c) ==
  {} \in P /\ \A s \in SUBSET S : s # {} => c[s] \in s /\ (s \ {c[s]} \in P => s \in P)

\* Then it has every set.
LEMMA SubsetInduction ==
  ASSUME NEW S, IsFiniteSet(S), NEW P, NEW c, Grows(P, S, c)
  PROVE  SUBSET S \subseteq P
<1> DEFINE Bad == {s \in SUBSET S : s \notin P}
           N == {Cardinality(s) : s \in Bad}
<1> SUFFICES ASSUME Bad # {} PROVE FALSE
  OBVIOUS
<1>1. \A s \in SUBSET S : IsFiniteSet(s) /\ Cardinality(s) \in Nat
  BY FS_Subset, FS_CardinalityType
<1>2. N \subseteq Nat /\ N # {}
  BY <1>1
<1>3. PICK n \in N : \A m \in N : n <= m
  <2> HIDE DEF N
  <2> QED
    BY <1>2, Least
<1>4. PICK s \in Bad : n = Cardinality(s)
  OBVIOUS
<1>5. s # {} /\ c[s] \in s /\ s \ {c[s]} \in SUBSET S
  BY <1>4 DEF Grows
<1>6. Cardinality(s \ {c[s]}) = Cardinality(s) - 1 /\ Cardinality(s) \in Nat
  BY <1>1, <1>4, <1>5, FS_RemoveElement
<1>7. s \ {c[s]} \in P
  <2>1. s \ {c[s]} \in Bad => Cardinality(s \ {c[s]}) \in N
    OBVIOUS
  <2> HIDE DEF N
  <2> QED
    BY <1>3, <1>4, <1>5, <1>6, <2>1
<1> QED
  BY <1>4, <1>5, <1>7 DEF Grows

-----------------------------------------------------------------------------
\* Recursion over numbers.

\* A set that has 0, and with a number the next one, has all of them.
LEMMA NumberInduction ==
  ASSUME NEW P, 0 \in P, \A n \in Nat : n \in P => n + 1 \in P
  PROVE  Nat \subseteq P
<1> DEFINE Bad == Nat \ P
<1> SUFFICES ASSUME Bad # {} PROVE FALSE
  OBVIOUS
<1>1. PICK n \in Bad : \A m \in Bad : n <= m
  BY Least
<1>2. n # 0 /\ n \in Nat
  BY <1>1
<1>3. n - 1 \in Nat /\ n - 1 \in P /\ n = n - 1 + 1
  BY <1>1, <1>2
<1> QED
  BY <1>1, <1>3

\* f has b, and then each value is made from the one before.
Steps(f, n, b, G) == f[0] = b /\ \A i \in 1..n : f[i] = G[<<i, f[i - 1]>>]

\* There is such a function.
LEMMA StepsExist ==
  ASSUME NEW n \in Nat, NEW T, NEW b \in T, NEW G \in [Nat \X T -> T]
  PROVE  \E f \in [0..n -> T] : Steps(f, n, b, G)
<1> DEFINE Meets(f, m) == f[0] = b /\ \A i \in 1..m : f[i] = G[<<i, f[i - 1]>>]
           Good == {m \in Nat : \E f \in [0..m -> T] : Meets(f, m)}
<1>1. 0 \in Good
  <2> DEFINE f == [i \in 0..0 |-> b]
  <2>1. f \in [0..0 -> T] /\ Meets(f, 0)
    OBVIOUS
  <2> HIDE DEF f, Meets
  <2> QED
    BY <2>1
<1>2. ASSUME NEW m \in Nat, m \in Good PROVE m + 1 \in Good
  <2>1. PICK f \in [0..m -> T] : Meets(f, m)
    BY <1>2
  <2> DEFINE x == G[<<m + 1, f[m]>>]
             g == [i \in 0..(m + 1) |-> IF i = m + 1 THEN x ELSE f[i]]
  <2>2. x \in T
    <3>1. <<m + 1, f[m]>> \in Nat \X T
      BY <2>1
    <3> QED
      BY <3>1
  <2>3. g \in [0..(m + 1) -> T]
    <3> HIDE DEF x
    <3> QED
      BY <2>1, <2>2
  <2>4. g[0] = b /\ g[m + 1] = x /\ g[m] = f[m] /\ \A i \in 1..m : g[i] = f[i] /\ g[i - 1] = f[i - 1]
    <3> HIDE DEF x
    <3> QED
      BY <2>1
  <2>5. \A i \in 1..m : g[i] = G[<<i, g[i - 1]>>]
    BY <2>1, <2>4
  <2>6. g[m + 1] = G[<<m + 1, g[m + 1 - 1]>>]
    <3>1. m + 1 - 1 = m
      OBVIOUS
    <3> HIDE DEF g
    <3> QED
      BY <2>4, <3>1
  <2> HIDE DEF g, x
  <2>7. Meets(g, m + 1)
    BY <2>4, <2>5, <2>6
  <2> HIDE DEF Meets
  <2> QED
    BY <2>3, <2>7
<1> HIDE DEF Good
<1>3. Nat \subseteq Good
  BY <1>1, <1>2, NumberInduction
<1>4. \E f \in [0..n -> T] : Meets(f, n)
  BY <1>3 DEF Good
<1>5. \A f : Meets(f, n) = Steps(f, n, b, G)
  BY DEF Steps
<1> HIDE DEF Meets
<1> QED
  BY <1>4, <1>5

\* f[i] is the first i of the sequences one after the other.
Appending(f, n, q) == f[1] = q[1] /\ \A i \in 2..n : f[i] = f[i - 1] \o q[i]

\* There is such a function.
LEMMA Appended ==
  ASSUME NEW n \in Nat, n >= 1, NEW S, NEW q \in [1..n -> Seq(S)]
  PROVE  \E f \in [1..n -> Seq(S)] : Appending(f, n, q)
<1> DEFINE T == Seq(S)
           G == [p \in Nat \X T |-> IF p[1] \in 1..n THEN p[2] \o q[p[1]] ELSE p[2]]
<1>1. <<>> \in T /\ G \in [Nat \X T -> T]
  <2>1. <<>> \in T
    OBVIOUS
  <2>2. ASSUME NEW p \in Nat \X T, p[1] \in 1..n PROVE p[2] \o q[p[1]] \in T
    BY <2>2, ConcatProperties
  <2> QED
    BY <2>1, <2>2
<1>2. ASSUME NEW i \in 1..n, NEW t \in T PROVE G[<<i, t>>] = t \o q[i]
  <2>1. <<i, t>> \in Nat \X T /\ <<i, t>>[1] = i /\ <<i, t>>[2] = t
    OBVIOUS
  <2> QED
    BY <2>1
<1>3. \A t \in T : <<>> \o t = t
  BY ConcatEmptySeq
<1> HIDE DEF G, T
<1>4. PICK g \in [0..n -> T] : g[0] = <<>> /\ \A i \in 1..n : g[i] = G[<<i, g[i - 1]>>]
  <2>1. PICK g \in [0..n -> T] : Steps(g, n, <<>>, G)
    BY <1>1, StepsExist
  <2> QED
    BY <2>1 DEF Steps
<1>5. ASSUME NEW i \in 1..n PROVE g[i] = g[i - 1] \o q[i] /\ g[i] \in T
  <2>1. i \in 0..n /\ i - 1 \in 0..n
    OBVIOUS
  <2>2. g[i] \in T /\ g[i - 1] \in T
    BY <1>4, <2>1
  <2> QED
    BY <1>2, <1>4, <2>2
<1> DEFINE f == [i \in 1..n |-> g[i]]
<1>6. 1 \in 1..n /\ 1 - 1 = 0
  OBVIOUS
<1>7. f[1] = q[1]
  <2>1. g[1] = <<>> \o q[1]
    BY <1>4, <1>5, <1>6
  <2>2. q[1] \in T
    BY <1>6 DEF T
  <2> QED
    BY <1>3, <1>6, <2>1, <2>2
<1>8. ASSUME NEW i \in 2..n PROVE f[i] = f[i - 1] \o q[i]
  <2>1. i \in 1..n /\ i - 1 \in 1..n
    OBVIOUS
  <2> QED
    BY <1>5, <2>1
<1>9. f \in [1..n -> Seq(S)]
  BY <1>5 DEF T
<1> HIDE DEF f
<1>10. Appending(f, n, q)
  BY <1>7, <1>8 DEF Appending
<1> QED
  BY <1>9, <1>10

\* FlattenSeq appends one sequence after the other.
LEMMA FlattenSteps ==
  ASSUME NEW S, NEW seqs \in Seq(Seq(S)), Len(seqs) > 0
  PROVE  \E f \in [1..Len(seqs) -> Seq(S)] :
           Appending(f, Len(seqs), seqs) /\ FlattenSeq(seqs) = f[Len(seqs)]
<1> DEFINE n == Len(seqs)
           Eq(h) == h = [i \in 1..n |-> IF i = 1 THEN seqs[i] ELSE h[i - 1] \o seqs[i]]
           h == CHOOSE h : Eq(h)
<1>1. n \in Nat /\ n >= 1 /\ seqs \in [1..n -> Seq(S)]
  OBVIOUS
<1>2. FlattenSeq(seqs) = h[n]
  BY <1>1 DEF FlattenSeq
<1> HIDE DEF n
<1>3. PICK f \in [1..n -> Seq(S)] : f[1] = seqs[1] /\ \A i \in 2..n : f[i] = f[i - 1] \o seqs[i]
  <2>1. PICK f \in [1..n -> Seq(S)] : Appending(f, n, seqs)
    BY <1>1, Appended
  <2> QED
    BY <2>1 DEF Appending
<1>4. f = [i \in 1..n |-> IF i = 1 THEN seqs[i] ELSE f[i - 1] \o seqs[i]]
  <2> DEFINE r == [i \in 1..n |-> IF i = 1 THEN seqs[i] ELSE f[i - 1] \o seqs[i]]
  <2>1. ASSUME NEW i \in 1..n PROVE f[i] = r[i]
    <3>1. i # 1 => i \in 2..n
      BY <1>1
    <3> QED
      BY <1>3, <3>1
  <2> QED
    BY <2>1
<1>5. Eq(h)
  <2>1. Eq(f)
    BY <1>4
  <2> HIDE DEF Eq
  <2> QED
    BY <2>1
<1>6. h = [i \in 1..n |-> IF i = 1 THEN seqs[i] ELSE h[i - 1] \o seqs[i]]
  BY <1>5
<1> HIDE DEF h
<1>7. h[1] = seqs[1]
  <2>1. 1 \in 1..n
    BY <1>1
  <2> QED
    BY <1>6, <2>1
<1>8. ASSUME NEW i \in 2..n PROVE h[i] = h[i - 1] \o seqs[i]
  <2>1. i \in 1..n /\ i # 1
    BY <1>1
  <2> QED
    BY <1>6, <2>1
<1> DEFINE P == {m \in Nat : m + 1 \in 1..n => h[m + 1] \in Seq(S)}
<1>9. Nat \subseteq P
  <2>1. 0 \in P
    BY <1>1, <1>7
  <2>2. ASSUME NEW m \in Nat, m \in P PROVE m + 1 \in P
    <3> SUFFICES ASSUME m + 1 + 1 \in 1..n PROVE h[m + 1 + 1] \in Seq(S)
      OBVIOUS
    <3> DEFINE k == m + 1 + 1
    <3>1. m + 1 \in 1..n /\ k \in 1..n /\ k \in 2..n /\ k - 1 = m + 1
      BY <1>1
    <3>2. h[m + 1] \in Seq(S)
      BY <2>2, <3>1
    <3> HIDE DEF k
    <3>3. seqs[k] \in Seq(S) /\ h[k] = h[m + 1] \o seqs[k]
      BY <1>1, <1>8, <3>1
    <3>4. h[k] \in Seq(S)
      BY <3>2, <3>3, ConcatProperties
    <3> QED
      BY <3>4 DEF k
  <2> HIDE DEF P
  <2> QED
    BY <2>1, <2>2, NumberInduction
<1>10. ASSUME NEW i \in 1..n PROVE h[i] \in Seq(S)
  <2>1. i - 1 \in Nat /\ i - 1 + 1 = i
    BY <1>1
  <2>2. i - 1 \in P
    BY <1>9, <2>1
  <2> QED
    BY <2>1, <2>2
<1>11. h \in [1..n -> Seq(S)]
  BY <1>6, <1>10
<1>12. Appending(h, n, seqs)
  BY <1>7, <1>8 DEF Appending
<1> QED
  BY <1>2, <1>11, <1>12 DEF n

\* What is flattened has the elements of what it was made of.
LEMMA FlattenType ==
  ASSUME NEW S, NEW seqs \in Seq(Seq(S))
  PROVE  FlattenSeq(seqs) \in Seq(S)
<1>1. CASE Len(seqs) = 0
  <2>1. seqs = <<>> /\ <<>> \in Seq(S)
    BY <1>1, EmptySeq
  <2> QED
    BY <1>1, <2>1 DEF FlattenSeq
<1>2. CASE Len(seqs) # 0
  <2>1. Len(seqs) \in Nat /\ Len(seqs) > 0 /\ Len(seqs) \in 1..Len(seqs)
    BY <1>2, LenProperties
  <2>2. PICK f \in [1..Len(seqs) -> Seq(S)] : FlattenSeq(seqs) = f[Len(seqs)]
    BY <2>1, FlattenSteps
  <2> QED
    BY <2>1, <2>2
<1> QED
  BY <1>1, <1>2

-----------------------------------------------------------------------------
\* Folds from the left.

\* h folds a sequence of n items, the last one last: the value for a set of places is made
\* of the greatest one and the value for the rest.
FoldsUp(h, n, b, T, G) ==
  /\ h[{}] = b
  /\ \A s \in SUBSET (1..n) :
       s # {} /\ h[s \ {Max(s)}] \in T => h[s] = G[<<Max(s), h[s \ {Max(s)}]>>]

\* The greatest of the places up to k.
LEMMA LastPlace ==
  ASSUME NEW n \in Nat
  PROVE  /\ \A s \in SUBSET (1..n) : s # {} => Max(s) \in s
         /\ \A k \in 1..n : /\ 1..k \in SUBSET (1..n) /\ 1..k # {} /\ Max(1..k) = k
                            /\ (1..k) \ {k} = 1..(k - 1)
<1>1. \A s \in SUBSET (1..n) : s # {} => Max(s) \in s
  <2>1. \A s \in SUBSET (1..n) : s \subseteq 0..n
    OBVIOUS
  <2> QED
    BY <2>1, MaxIsGreatest
<1>2. ASSUME NEW k \in 1..n
      PROVE  /\ 1..k \in SUBSET (1..n) /\ 1..k # {} /\ Max(1..k) = k /\ (1..k) \ {k} = 1..(k - 1)
  <2>1. /\ k \in Nat /\ 1..k \subseteq 1..n /\ 1..k # {} /\ k \in 1..k
        /\ 1..k \subseteq 0..k
    OBVIOUS
  <2>2. (1..k) \ {k} = 1..(k - 1)
    <3>1. \A x : x \in (1..k) \ {k} <=> x \in 1..(k - 1)
      OBVIOUS
    <3> QED
      BY <3>1
  <2>3. Max(1..k) \in 1..k /\ \A y \in 1..k : y <= Max(1..k)
    BY <2>1, MaxIsGreatest
  <2>4. Max(1..k) = k
    BY <2>1, <2>3
  <2> QED
    BY <2>1, <2>2, <2>4
<1> QED
  BY <1>1, <1>2

\* There is such a fold.
LEMMA FoldExists ==
  ASSUME NEW n \in Nat, NEW T, NEW b \in T, NEW G \in [(1..n) \X T -> T]
  PROVE  \E f \in [SUBSET (1..n) -> T] : FoldsUp(f, n, b, T, G)
<1> DEFINE D == 1..n
           c == [s \in SUBSET D |-> Max(s)]
<1>1. IsFiniteSet(D) /\ G \in [D \X T -> T]
  BY FS_Interval
<1>2. \A s \in SUBSET D : s # {} => c[s] \in s /\ c[s] = Max(s)
  BY LastPlace
<1> HIDE DEF D, c
<1>3. PICK f \in [SUBSET D -> T] : Folding(f, D, b, c, G)
  BY <1>1, <1>2, RecursionExists
<1>4. f[{}] = b
  BY <1>3 DEF Folding
<1>5. \A s \in SUBSET D : s # {} => f[s] = G[<<Max(s), f[s \ {Max(s)}]>>]
  BY <1>2, <1>3 DEF Folding
<1>6. FoldsUp(f, n, b, T, G)
  BY <1>4, <1>5 DEF FoldsUp, D
<1> QED
  BY <1>3, <1>6 DEF D

\* It goes step by step.
LEMMA FoldSteps ==
  ASSUME NEW n \in Nat, NEW T, NEW b \in T, NEW G \in [(1..n) \X T -> T],
         NEW h, FoldsUp(h, n, b, T, G)
  PROVE  \E m \in [0..n -> T] : m[n] = h[1..n] /\ Steps(m, n, b, G)
<1> DEFINE m == [k \in 0..n |-> h[1..k]]
<1>1. m[0] = b /\ m[n] = h[1..n]
  <2>1. 1..0 = {} /\ 0 \in 0..n /\ n \in 0..n
    OBVIOUS
  <2> QED
    BY <2>1 DEF FoldsUp
<1>2. ASSUME NEW k \in 1..n, m[k - 1] \in T PROVE m[k] = G[<<k, m[k - 1]>>] /\ m[k] \in T
  <2>1. k - 1 \in 0..n /\ k \in 0..n /\ k \in 1..n
    OBVIOUS
  <2>2. m[k] = h[1..k] /\ m[k - 1] = h[1..(k - 1)]
    BY <2>1
  <2> HIDE DEF m
  <2>3. m[k] = G[<<k, m[k - 1]>>]
    <3> DEFINE s == 1..k
    <3>1. s \in SUBSET (1..n) /\ s # {} /\ Max(s) = k /\ s \ {Max(s)} = 1..(k - 1)
      BY LastPlace
    <3> HIDE DEF s
    <3>2. h[s \ {Max(s)}] \in T => h[s] = G[<<Max(s), h[s \ {Max(s)}]>>]
      BY <3>1 DEF FoldsUp
    <3> QED
      BY <1>2, <2>2, <3>1, <3>2 DEF s
  <2>4. <<k, m[k - 1]>> \in (1..n) \X T
    BY <1>2
  <2> QED
    BY <2>3, <2>4
<1> DEFINE P == {k \in Nat : k \in 0..n => m[k] \in T}
<1> HIDE DEF m
<1>3. 0 \in P
  BY <1>1
<1>4. ASSUME NEW k \in Nat, k \in P PROVE k + 1 \in P
  <2> SUFFICES ASSUME k + 1 \in 0..n PROVE m[k + 1] \in T
    OBVIOUS
  <2>1. PICK j \in 1..n : j = k + 1 /\ j - 1 = k /\ k \in 0..n
    OBVIOUS
  <2>2. m[j - 1] \in T
    BY <1>4, <2>1
  <2> QED
    BY <1>2, <2>1, <2>2
<1> HIDE DEF P
<1>5. Nat \subseteq P
  BY <1>3, <1>4, NumberInduction
<1>6. \A k \in 0..n : m[k] \in T
  <2>1. \A k \in 0..n : k \in Nat
    OBVIOUS
  <2> QED
    BY <1>5, <2>1 DEF P
<1>7. \A k \in 1..n : m[k] = G[<<k, m[k - 1]>>]
  <2> SUFFICES ASSUME NEW k \in 1..n PROVE m[k] = G[<<k, m[k - 1]>>]
    OBVIOUS
  <2>1. k - 1 \in 0..n
    OBVIOUS
  <2> QED
    BY <1>2, <1>6, <2>1
<1>8. m \in [0..n -> T]
  BY <1>6 DEF m
<1> QED
  BY <1>1, <1>7, <1>8 DEF Steps

-----------------------------------------------------------------------------
\* Parts of sequences.

\* What is inside a part of a sequence.
LEMMA PartOf ==
  ASSUME NEW S, NEW s \in Seq(S), NEW i \in 1..Len(s), NEW k \in i..Len(s)
  PROVE  /\ SubSeq(s, i, k) \in Seq(S) /\ Len(SubSeq(s, i, k)) = k - i + 1
         /\ \A j \in 1..(k - i + 1) : SubSeq(s, i, k)[j] = s[i + j - 1]
<1>1. i \in Int /\ k \in Int /\ \A j \in i..k : s[j] \in S
  OBVIOUS
<1> QED
  BY <1>1, SubSeqProperties

\* What is a prefix, element by element.
LEMMA PrefixByElement ==
  ASSUME NEW S, NEW a \in Seq(S), NEW b \in Seq(S)
  PROVE  IsPrefix(a, b) <=> Len(a) <= Len(b) /\ \A i \in 1..Len(a) : a[i] = b[i]
<1> DEFINE m == Len(a)
<1>1. m \in Nat /\ Len(b) \in Nat
  BY LenProperties
<1>2. ASSUME m <= Len(b)
      PROVE  SubSeq(a, 1, m) = SubSeq(b, 1, m) <=> \A i \in 1..m : a[i] = b[i]
  <2>1. \A i \in 1..m : a[i] \in S /\ b[i] \in S
    BY <1>1, <1>2, ElementOfSeq
  <2>2. m \in Int /\ 1 \in Int /\ m - 1 + 1 = m
    BY <1>1
  <2> HIDE DEF m
  <2>3. /\ SubSeq(a, 1, m) \in Seq(S) /\ Len(SubSeq(a, 1, m)) = (IF 1 <= m THEN m - 1 + 1 ELSE 0)
        /\ \A i \in 1..(m - 1 + 1) : SubSeq(a, 1, m)[i] = a[1 + i - 1]
    BY <2>1, <2>2, SubSeqProperties
  <2>4. /\ SubSeq(b, 1, m) \in Seq(S) /\ Len(SubSeq(b, 1, m)) = (IF 1 <= m THEN m - 1 + 1 ELSE 0)
        /\ \A i \in 1..(m - 1 + 1) : SubSeq(b, 1, m)[i] = b[1 + i - 1]
    BY <2>1, <2>2, SubSeqProperties
  <2>5. Len(SubSeq(a, 1, m)) = m /\ Len(SubSeq(b, 1, m)) = m
    BY <1>1, <2>3, <2>4
  <2>6. \A i \in 1..m : SubSeq(a, 1, m)[i] = a[i] /\ SubSeq(b, 1, m)[i] = b[i]
    BY <1>1, <2>3, <2>4
  <2>7. (\A i \in 1..m : a[i] = b[i]) => SubSeq(a, 1, m) = SubSeq(b, 1, m)
    BY <2>3, <2>4, <2>5, <2>6, SeqEqual
  <2> QED
    BY <2>6, <2>7
<1> QED
  BY <1>1, <1>2 DEF IsPrefix

\* A prefix of a prefix is a prefix.
LEMMA PrefixOfPrefix ==
  ASSUME NEW S, NEW a \in Seq(S), NEW b \in Seq(S), NEW c \in Seq(S), IsPrefix(a, b), IsPrefix(b, c)
  PROVE  IsPrefix(a, c)
<1>1. /\ Len(a) \in Nat /\ Len(b) \in Nat /\ Len(c) \in Nat
      /\ Len(a) <= Len(b) /\ Len(b) <= Len(c)
      /\ \A i \in 1..Len(a) : a[i] = b[i]
      /\ \A i \in 1..Len(b) : b[i] = c[i]
  BY PrefixByElement, LenProperties
<1>2. Len(a) <= Len(c) /\ \A i \in 1..Len(a) : a[i] = c[i]
  BY <1>1
<1> QED
  BY <1>2, PrefixByElement

\* The first lines of a sequence.
LEMMA FirstLines ==
  ASSUME NEW S, NEW lines \in Seq(S), NEW k \in 0..Len(lines)
  PROVE  /\ SubSeq(lines, 1, k) \in Seq(S) /\ Len(SubSeq(lines, 1, k)) = k
         /\ IsPrefix(SubSeq(lines, 1, k), lines)
         /\ k = Len(lines) => SubSeq(lines, 1, k) = lines
<1> DEFINE part == SubSeq(lines, 1, k)
<1>1. Len(lines) \in Nat /\ k \in Nat /\ k <= Len(lines) /\ \A i \in 1..k : lines[i] \in S
  BY LenProperties, ElementOfSeq
<1>2. /\ part \in Seq(S) /\ Len(part) = k
      /\ \A i \in 1..k : part[i] = lines[i]
  <2>1. CASE k = 0
    BY <2>1, SubSeqProperties, EmptySeq
  <2>2. CASE k # 0
    <3>1. 1 \in 1..Len(lines) /\ k \in 1..Len(lines) /\ k - 1 + 1 = k
      BY <1>1, <2>2
    <3>2. /\ part \in Seq(S) /\ Len(part) = k - 1 + 1
          /\ \A j \in 1..(k - 1 + 1) : part[j] = lines[1 + j - 1]
      BY <3>1, PartOf
    <3> QED
      BY <3>1, <3>2
  <2> QED
    BY <2>1, <2>2
<1> HIDE DEF part
<1>3. IsPrefix(part, lines)
  BY <1>1, <1>2, PrefixByElement
<1>4. k = Len(lines) => part = lines
  BY <1>2, SeqEqual
<1> QED
  BY <1>2, <1>3, <1>4 DEF part
=============================================================================
