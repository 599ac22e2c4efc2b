----------------------------- MODULE DataLemmas -----------------------------
(***************************************************************************)
(* Lemmas about data that the proofs of several components rest on.        *)
(* Induction over the naturals, stated with sets where an operator would   *)
(* be the parameter, and by it what the recursive operators of the         *)
(* community modules return: FlattenSeq and MapThenSumSet.  Then what the  *)
(* pieces of a sequence are and join to, and at the end the operations of  *)
(* the circular buffer, for every number of slots.  A component with no    *)
(* circular buffer has the others through an INSTANCE.                     *)
(***************************************************************************)
EXTENDS CircularBufferOps, SequencesExt, FiniteSetTheorems,
        SequenceTheorems, WellFoundedInduction, TLAPS

(* Intervals that start at 1 are ordered by inclusion as their ends are,   *)
(* and inclusion of finite sets is well-founded.                           *)
LEMMA LeastNatural ==
  ASSUME NEW N \in SUBSET Nat, N # {}
  PROVE  \E m \in N : \A n \in N : m <= n
<1> DEFINE Below == {1 .. n : n \in N}
<1>1. Below # {}
  OBVIOUS
<1>2. Below \subseteq FiniteSubsetsOf(Nat)
  <2>1. \A n \in N : IsFiniteSet(1 .. n) /\ 1 .. n \subseteq Nat
    BY FS_Interval
  <2> QED
    BY <2>1 DEF FiniteSubsetsOf
<1>3. PICK b \in Below :
        \A o \in Below : ~ (<<o, b>> \in StrictSubsetOrdering(Nat))
  <2> HIDE DEF Below
  <2> QED
    BY <1>1, <1>2, WFMin, FS_StrictSubsetOrderingWellFounded
<1>4. PICK m \in N : b = 1 .. m
  OBVIOUS
<1>5. ASSUME NEW n \in N, n < m PROVE FALSE
  <2>1. 1 .. n \subseteq 1 .. m /\ 1 .. n # 1 .. m
    BY <1>5
  <2>2. 1 .. n \in SUBSET Nat /\ 1 .. m \in SUBSET Nat
    BY <1>5
  <2> QED
    BY <2>1, <2>2, <1>3, <1>4 DEF StrictSubsetOrdering
<1> QED
  BY <1>5

LEMMA SetInduction ==
  ASSUME NEW T, 0 \in T, \A n \in Nat : n \in T => n + 1 \in T
  PROVE  Nat \subseteq T
<1> SUFFICES ASSUME Nat \ T # {} PROVE FALSE
  OBVIOUS
<1>1. PICK m \in Nat \ T : \A n \in Nat \ T : m <= n
  BY LeastNatural
<1>2. m # 0 /\ m - 1 \in Nat /\ m - 1 \in T
  BY <1>1
<1> QED
  BY <1>2

-----------------------------------------------------------------------------
(* The recursive function inside FlattenSeq.                               *)
Flattens(f, s) ==
  f = [i \in 1 .. Len(s) |-> IF i = 1 THEN s[i] ELSE f[i - 1] \o s[i]]

LEMMA FlattensAt ==
  ASSUME NEW f, NEW s, Len(s) \in Nat, Flattens(f, s), NEW i \in 1 .. Len(s)
  PROVE  f[i] = IF i = 1 THEN s[i] ELSE f[i - 1] \o s[i]
<1> DEFINE w(h) == [j \in 1 .. Len(s) |->
                     IF j = 1 THEN s[j] ELSE h[j - 1] \o s[j]]
<1>1. f = w(f)
  BY DEF Flattens
<1>2. w(f)[i] = IF i = 1 THEN s[i] ELSE f[i - 1] \o s[i]
  OBVIOUS
<1> QED
  BY <1>1, <1>2

(* A function like it, as far as n.                                        *)
FlattensTo(f, s, n, S) ==
  /\ f \in [1 .. n -> Seq(S)]
  /\ \A i \in 1 .. n : f[i] = IF i = 1 THEN s[i] ELSE f[i - 1] \o s[i]

LEMMA FlattensFurther ==
  ASSUME NEW S, NEW s \in Seq(Seq(S)), NEW n \in Nat, n + 1 <= Len(s),
         NEW f, FlattensTo(f, s, n, S)
  PROVE  \E g : FlattensTo(g, s, n + 1, S)
<1> DEFINE e == IF n + 1 = 1 THEN s[n + 1] ELSE f[n] \o s[n + 1]
           g == [i \in 1 .. n + 1 |-> IF i <= n THEN f[i] ELSE e]
<1>1. e \in Seq(S)
  <2>1. s[n + 1] \in Seq(S)
    OBVIOUS
  <2>2. n # 0 => f[n] \in Seq(S)
    BY DEF FlattensTo
  <2> QED
    BY <2>1, <2>2
<1>2. g \in [1 .. n + 1 -> Seq(S)]
  <2> HIDE DEF e
  <2> QED
    BY <1>1 DEF FlattensTo
<1>3. ASSUME NEW i \in 1 .. n + 1
      PROVE  g[i] = IF i = 1 THEN s[i] ELSE g[i - 1] \o s[i]
  <2>1. CASE i = n + 1
    BY <2>1
  <2>2. CASE i <= n
    <3>1. g[i] = f[i] /\ (i # 1 => g[i - 1] = f[i - 1])
      BY <2>2
    <3>2. f[i] = IF i = 1 THEN s[i] ELSE f[i - 1] \o s[i]
      <4>1. i \in 1 .. n
        BY <2>2
      <4> QED
        BY <4>1, Zenon DEF FlattensTo
    <3> HIDE DEF g
    <3> QED
      BY <3>1, <3>2
  <2> QED
    BY <2>1, <2>2
<1> HIDE DEF g
<1> QED
  BY <1>2, <1>3 DEF FlattensTo

LEMMA FlattensExists ==
  ASSUME NEW S, NEW s \in Seq(Seq(S))
  PROVE  \E f : Flattens(f, s)
<1> DEFINE T == {n \in Nat : n <= Len(s) => \E f : FlattensTo(f, s, n, S)}
<1>1. 0 \in T
  <2>1. FlattensTo([i \in 1 .. 0 |-> <<>>], s, 0, S)
    BY DEF FlattensTo
  <2> QED
    BY <2>1
<1>2. ASSUME NEW n \in Nat, n \in T PROVE n + 1 \in T
  <2> SUFFICES ASSUME n + 1 <= Len(s)
               PROVE  \E f : FlattensTo(f, s, n + 1, S)
    OBVIOUS
  <2>1. Len(s) \in Nat
    OBVIOUS
  <2>2. \E f : FlattensTo(f, s, n, S)
    BY <1>2, <2>1
  <2> QED
    BY <2>2, FlattensFurther
<1>3. Nat \subseteq T
  <2> HIDE DEF T
  <2> QED
    BY <1>1, <1>2, SetInduction
<1>4. Len(s) \in Nat
  OBVIOUS
<1>5. PICK f : FlattensTo(f, s, Len(s), S)
  BY <1>3, <1>4
<1>6. Flattens(f, s)
  BY <1>5 DEF Flattens, FlattensTo
<1> QED
  BY <1>6

LEMMA FlattensType ==
  ASSUME NEW S, NEW s \in Seq(Seq(S)), NEW f, Flattens(f, s)
  PROVE  \A i \in 1 .. Len(s) : f[i] \in Seq(S)
<1> DEFINE T == {n \in Nat : n \in 1 .. Len(s) => f[n] \in Seq(S)}
<1>1. 0 \in T
  OBVIOUS
<1>2. ASSUME NEW n \in Nat, n \in T PROVE n + 1 \in T
  <2> SUFFICES ASSUME n + 1 \in 1 .. Len(s) PROVE f[n + 1] \in Seq(S)
    OBVIOUS
  <2>1. f[n + 1] = IF n + 1 = 1 THEN s[n + 1] ELSE f[n] \o s[n + 1]
    <3>1. Len(s) \in Nat /\ (n + 1) - 1 = n
      OBVIOUS
    <3> QED
      BY <3>1, FlattensAt
  <2>2. s[n + 1] \in Seq(S)
    OBVIOUS
  <2>3. n # 0 => f[n] \in Seq(S)
    BY <1>2
  <2> QED
    BY <2>1, <2>2, <2>3
<1>3. Nat \subseteq T
  <2> HIDE DEF T
  <2> QED
    BY <1>1, <1>2, SetInduction
<1> QED
  BY <1>3

LEMMA FlattenUnfolds ==
  ASSUME NEW S, NEW s \in Seq(Seq(S)), s # <<>>
  PROVE  \E f : Flattens(f, s) /\ FlattenSeq(s) = f[Len(s)]
<1> DEFINE F == CHOOSE f : Flattens(f, s)
<1>1. Flattens(F, s)
  <2>1. \E f : Flattens(f, s)
    BY FlattensExists
  <2> QED
    BY <2>1
<1>2. FlattenSeq(s) = F[Len(s)]
  BY DEF FlattenSeq, Flattens
<1> QED
  BY <1>1, <1>2

LEMMA FlattenType ==
  ASSUME NEW S, NEW s \in Seq(Seq(S))
  PROVE  FlattenSeq(s) \in Seq(S)
<1>1. CASE s = <<>>
  BY <1>1 DEF FlattenSeq
<1>2. CASE s # <<>>
  BY <1>2, FlattenUnfolds, FlattensType
<1> QED
  BY <1>1, <1>2

LEMMA FlattenEmpty == FlattenSeq(<<>>) = <<>>
BY DEF FlattenSeq

LEMMA FlattenAppend ==
  ASSUME NEW S, NEW s \in Seq(Seq(S)), NEW e \in Seq(S)
  PROVE  FlattenSeq(Append(s, e)) = FlattenSeq(s) \o e
<1> DEFINE t == Append(s, e)
<1>0. /\ t \in Seq(Seq(S)) /\ t # <<>>
      /\ Len(s) \in Nat /\ Len(t) = Len(s) + 1
      /\ t[Len(t)] = e /\ \A i \in 1 .. Len(s) : t[i] = s[i]
  <2> DEFINE X == Seq(S)
  <2>1. s \in Seq(X) /\ e \in X
    OBVIOUS
  <2> HIDE DEF X
  <2>2. /\ t \in Seq(X) /\ t # <<>>
        /\ Len(s) \in Nat /\ Len(t) = Len(s) + 1
        /\ t[Len(t)] = e /\ \A i \in 1 .. Len(s) : t[i] = s[i]
    BY <2>1
  <2> QED
    BY <2>2 DEF X
<1> HIDE DEF t
<1>1. /\ t \in Seq(Seq(S)) /\ t # <<>>
      /\ Len(s) \in Nat /\ Len(t) = Len(s) + 1
      /\ t[Len(t)] = e /\ \A i \in 1 .. Len(s) : t[i] = s[i]
  BY <1>0
<1>2. PICK g : Flattens(g, t) /\ FlattenSeq(t) = g[Len(t)]
  BY <1>1, FlattenUnfolds
<1>3. CASE s = <<>>
  <2>1. g[1] = t[1] /\ Len(t) = 1
    BY <1>1, <1>2, <1>3, FlattensAt
  <2> QED
    BY <1>1, <1>2, <1>3, <2>1, FlattenEmpty DEF t
<1>4. CASE s # <<>>
  <2>1. PICK f : Flattens(f, s) /\ FlattenSeq(s) = f[Len(s)]
    BY <1>4, FlattenUnfolds
  <2> DEFINE T == {n \in Nat : n \in 1 .. Len(s) => f[n] = g[n]}
  <2> HIDE DEF t
  <2>2. 0 \in T
    OBVIOUS
  <2>3. ASSUME NEW n \in Nat, n \in T PROVE n + 1 \in T
    <3> SUFFICES ASSUME n + 1 \in 1 .. Len(s) PROVE f[n + 1] = g[n + 1]
      OBVIOUS
    <3>1. (n + 1) - 1 = n /\ n + 1 \in 1 .. Len(t) /\ t[n + 1] = s[n + 1]
          /\ Len(t) \in Nat
      BY <1>1
    <3>2. f[n + 1] = IF n + 1 = 1 THEN s[n + 1] ELSE f[n] \o s[n + 1]
      BY <2>1, <1>1, <3>1, FlattensAt
    <3>3. g[n + 1] = IF n + 1 = 1 THEN t[n + 1] ELSE g[n] \o t[n + 1]
      BY <1>2, <3>1, FlattensAt
    <3>4. n # 0 => f[n] = g[n]
      BY <2>3, <1>1
    <3> QED
      BY <3>1, <3>2, <3>3, <3>4
  <2>4. Nat \subseteq T
    <3> HIDE DEF T
    <3> QED
      BY <2>2, <2>3, SetInduction
  <2>5. f[Len(s)] = g[Len(s)] /\ Len(s) # 0
    BY <2>4, <1>4, <1>1
  <2>6. g[Len(t)] = g[Len(s)] \o e
    <3>1. /\ Len(t) \in Nat /\ Len(t) \in 1 .. Len(t)
          /\ Len(t) # 1 /\ Len(t) - 1 = Len(s)
      BY <1>1, <2>5
    <3>2. g[Len(t)] = IF Len(t) = 1 THEN t[Len(t)]
                      ELSE g[Len(t) - 1] \o t[Len(t)]
      BY <1>2, <3>1, FlattensAt
    <3> QED
      BY <1>1, <3>1, <3>2
  <2> QED
    BY <2>1, <2>5, <2>6, <1>2 DEF t
<1> QED
  BY <1>3, <1>4

(* The first k of the sequences, flattened.                                *)
LEMMA FlattenFirst ==
  ASSUME NEW S, NEW s \in Seq(Seq(S)), NEW k \in 1 .. Len(s)
  PROVE  /\ SubSeq(s, 1, k) \in Seq(Seq(S)) /\ SubSeq(s, 1, k - 1) \in Seq(Seq(S))
         /\ FlattenSeq(SubSeq(s, 1, k)) = FlattenSeq(SubSeq(s, 1, k - 1)) \o s[k]
<1> DEFINE X == Seq(S)
<1>1. s \in Seq(X) /\ k \in 1 .. Len(s)
  OBVIOUS
<1> HIDE DEF X
<1>2. /\ SubSeq(s, 1, k) \in Seq(X) /\ SubSeq(s, 1, k - 1) \in Seq(X)
      /\ s[k] \in X
      /\ SubSeq(s, 1, k) = Append(SubSeq(s, 1, k - 1), s[k])
  BY <1>1
<1>3. SubSeq(s, 1, k - 1) \in Seq(Seq(S)) /\ s[k] \in Seq(S)
  BY <1>2 DEF X
<1>4. FlattenSeq(Append(SubSeq(s, 1, k - 1), s[k])) =
        FlattenSeq(SubSeq(s, 1, k - 1)) \o s[k]
  BY <1>3, FlattenAppend
<1> QED
  BY <1>2, <1>4 DEF X

LEMMA ConcatPlaces ==
  ASSUME NEW S, NEW s \in Seq(S), NEW t \in Seq(S)
  PROVE  /\ \A i \in 1 .. Len(s) :
              i \in 1 .. Len(s \o t) /\ (s \o t)[i] = s[i]
         /\ \A i \in 1 .. Len(t) : /\ Len(s) + i \in 1 .. Len(s \o t)
                                   /\ (s \o t)[Len(s) + i] = t[i]
OBVIOUS

(* Where the j-th element of the k-th sequence is.                         *)
LEMMA FlattenPlace ==
  ASSUME NEW S, NEW s \in Seq(Seq(S)), NEW k \in 1 .. Len(s),
         NEW j \in 1 .. Len(s[k])
  PROVE  LET at == Len(FlattenSeq(SubSeq(s, 1, k - 1))) + j
         IN  at \in 1 .. Len(FlattenSeq(s)) /\ FlattenSeq(s)[at] = s[k][j]
<1> DEFINE F(n) == FlattenSeq(SubSeq(s, 1, n))
           at   == Len(F(k - 1)) + j
           T    == {d \in Nat : k + d <= Len(s) =>
                      at \in 1 .. Len(F(k + d)) /\ F(k + d)[at] = s[k][j]}
<1>1. \A n \in 1 .. Len(s) :
        F(n) = F(n - 1) \o s[n] /\ F(n - 1) \in Seq(S) /\ s[n] \in Seq(S)
  <2> TAKE n \in 1 .. Len(s)
  <2>1. s[n] \in Seq(S)
    OBVIOUS
  <2> QED
    BY <2>1, FlattenFirst, FlattenType
<1>2. Len(s) \in Nat /\ Len(s[k]) \in Nat /\ k \in 1 .. Len(s)
  BY <1>1
<1> HIDE DEF F
<1>3. 0 \in T
  <2>1. F(k) = F(k - 1) \o s[k] /\ F(k - 1) \in Seq(S) /\ s[k] \in Seq(S)
    BY <1>1
  <2>2. at \in 1 .. Len(F(k)) /\ F(k)[at] = s[k][j]
    <3>1. /\ Len(F(k - 1)) + j \in 1 .. Len(F(k - 1) \o s[k])
          /\ (F(k - 1) \o s[k])[Len(F(k - 1)) + j] = s[k][j]
      BY <2>1, ConcatPlaces
    <3> QED
      BY <2>1, <3>1
  <2>3. k + 0 = k
    BY <1>2
  <2> HIDE DEF at
  <2> QED
    BY <2>2, <2>3
<1>4. ASSUME NEW d \in Nat, d \in T PROVE d + 1 \in T
  <2> HIDE DEF at
  <2> SUFFICES ASSUME k + (d + 1) <= Len(s)
               PROVE  /\ at \in 1 .. Len(F(k + (d + 1)))
                      /\ F(k + (d + 1))[at] = s[k][j]
    OBVIOUS
  <2> DEFINE n == k + (d + 1)
  <2>1. n \in 1 .. Len(s) /\ n - 1 = k + d /\ k + d <= Len(s)
    BY <1>2
  <2> HIDE DEF n
  <2>2. F(n) = F(k + d) \o s[n] /\ F(k + d) \in Seq(S) /\ s[n] \in Seq(S)
    BY <1>1, <2>1
  <2>3. at \in 1 .. Len(F(k + d)) /\ F(k + d)[at] = s[k][j]
    BY <1>4, <2>1
  <2>4. at \in 1 .. Len(F(n)) /\ F(n)[at] = s[k][j]
    <3>1. /\ at \in 1 .. Len(F(k + d) \o s[n])
          /\ (F(k + d) \o s[n])[at] = F(k + d)[at]
      <4> DEFINE u == F(k + d)
                 v == s[n]
      <4>1. u \in Seq(S) /\ v \in Seq(S) /\ at \in 1 .. Len(u)
        BY <2>2, <2>3
      <4> HIDE DEF u, v
      <4>2. at \in 1 .. Len(u \o v) /\ (u \o v)[at] = u[at]
        BY <4>1
      <4> QED
        BY <4>2 DEF u, v
    <3> QED
      BY <2>2, <2>3, <3>1
  <2> QED
    BY <2>4 DEF n
<1>5. Nat \subseteq T
  <2> HIDE DEF T
  <2> QED
    BY <1>3, <1>4, SetInduction
<1>6. at \in 1 .. Len(F(Len(s))) /\ F(Len(s))[at] = s[k][j]
  <2>1. PICK d \in Nat : k + d = Len(s)
    <3>1. Len(s) - k \in Nat /\ k + (Len(s) - k) = Len(s)
      BY <1>2
    <3> QED
      BY <3>1
  <2>2. k + d <= Len(s) => at \in 1 .. Len(F(k + d)) /\ F(k + d)[at] = s[k][j]
    BY <1>5
  <2>3. k + d <= Len(s)
    BY <1>2, <2>1
  <2> HIDE DEF at
  <2> QED
    BY <2>1, <2>2, <2>3
<1>7. SubSeq(s, 1, Len(s)) = s
  <2> DEFINE X == Seq(S)
  <2>1. s \in Seq(X)
    OBVIOUS
  <2> HIDE DEF X
  <2> QED
    BY <2>1
<1> QED
  BY <1>6, <1>7 DEF F

-----------------------------------------------------------------------------
LEMMA EndOfConcat ==
  ASSUME NEW S, NEW s \in Seq(S), NEW t \in Seq(S)
  PROVE  IsSuffix(t, s \o t)
<1>1. s \o t \in Seq(S) /\ Len(s \o t) = Len(s) + Len(t)
  OBVIOUS
<1>2. /\ Reverse(t) \in Seq(S) /\ Len(Reverse(t)) = Len(t)
      /\ Reverse(s \o t) \in Seq(S) /\ Len(Reverse(s \o t)) = Len(s \o t)
  BY <1>1 DEF Reverse
<1>3. \A i \in 1 .. Len(t) : Reverse(t)[i] = Reverse(s \o t)[i]
  BY <1>1 DEF Reverse
<1> QED
  BY <1>1, <1>2, <1>3 DEF IsSuffix, IsPrefix

-----------------------------------------------------------------------------
(* The recursive function inside MapThenSumSet, with the summands as a     *)
(* function.                                                               *)
Pick(s) == CHOOSE x \in s : TRUE

Sums(g, w, S) ==
  g = [s \in SUBSET S |->
         IF s = {} THEN 0 ELSE w[Pick(s)] + g[s \ {Pick(s)}]]

LEMMA PickIn == ASSUME NEW s, s # {} PROVE Pick(s) \in s
BY DEF Pick

LEMMA SumsAt ==
  ASSUME NEW g, NEW w, NEW S, Sums(g, w, S), NEW s \in SUBSET S
  PROVE  g[s] = IF s = {} THEN 0 ELSE w[Pick(s)] + g[s \ {Pick(s)}]
<1> DEFINE step(h) == [r \in SUBSET S |->
                         IF r = {} THEN 0 ELSE w[Pick(r)] + h[r \ {Pick(r)}]]
<1>1. g = step(g)
  BY DEF Sums
<1>2. step(g)[s] = IF s = {} THEN 0 ELSE w[Pick(s)] + g[s \ {Pick(s)}]
  OBVIOUS
<1> QED
  BY <1>1, <1>2

LEMMA SumsEmpty == ASSUME NEW g, NEW w, NEW S, Sums(g, w, S) PROVE g[{}] = 0
<1>1. {} \in SUBSET S
  OBVIOUS
<1>2. g[{}] = IF {} = {} THEN 0 ELSE w[Pick({})] + g[{} \ {Pick({})}]
  BY <1>1, SumsAt, Zenon
<1> QED
  BY <1>2

LEMMA SumsPick ==
  ASSUME NEW g, NEW w, NEW S, Sums(g, w, S), NEW s \in SUBSET S, s # {}
  PROVE  g[s] = w[Pick(s)] + g[s \ {Pick(s)}]
BY SumsAt, Zenon

LEMMA OneLess ==
  ASSUME NEW S, IsFiniteSet(S), NEW s \in SUBSET S, NEW x \in s
  PROVE  /\ s \ {x} \in SUBSET S
         /\ Cardinality(s) \in Nat \ {0}
         /\ Cardinality(s \ {x}) = Cardinality(s) - 1
<1>1. IsFiniteSet(s)
  BY FS_Subset
<1> QED
  BY <1>1, FS_RemoveElement, FS_CardinalityType, FS_EmptySet

(* A function like it on the sets of at most n elements.                   *)
SumsTo(g, w, S, n) ==
  /\ g \in [SUBSET S -> Nat]
  /\ \A s \in SUBSET S :
       Cardinality(s) <= n =>
         g[s] = IF s = {} THEN 0 ELSE w[Pick(s)] + g[s \ {Pick(s)}]

LEMMA SumsFurther ==
  ASSUME NEW S, IsFiniteSet(S), NEW w \in [S -> Nat], NEW n \in Nat,
         NEW g, SumsTo(g, w, S, n)
  PROVE  \E h : SumsTo(h, w, S, n + 1)
<1> DEFINE h == [s \in SUBSET S |->
                   IF s = {} THEN 0 ELSE w[Pick(s)] + g[s \ {Pick(s)}]]
<1>1. h \in [SUBSET S -> Nat]
  <2>1. ASSUME NEW s \in SUBSET S, s # {}
        PROVE  w[Pick(s)] + g[s \ {Pick(s)}] \in Nat
    <3>1. Pick(s) \in S /\ s \ {Pick(s)} \in SUBSET S
      BY <2>1, PickIn
    <3> QED
      BY <3>1 DEF SumsTo
  <2> QED
    BY <2>1
<1>2. ASSUME NEW s \in SUBSET S, Cardinality(s) <= n PROVE h[s] = g[s]
  BY <1>2 DEF SumsTo
<1>3. ASSUME NEW s \in SUBSET S, Cardinality(s) <= n + 1, s # {}
      PROVE  h[s] = w[Pick(s)] + h[s \ {Pick(s)}]
  <2> DEFINE r == s \ {Pick(s)}
  <2>1. r \in SUBSET S /\ Cardinality(r) <= n
    BY <1>3, PickIn, OneLess
  <2>2. h[r] = g[r]
    BY <2>1, <1>2
  <2> QED
    BY <2>2, <1>3
<1>4. h[{}] = 0
  OBVIOUS
<1> HIDE DEF h
<1>5. SumsTo(h, w, S, n + 1)
  BY <1>1, <1>3, <1>4 DEF SumsTo
<1> QED
  BY <1>5

LEMMA SumsExists ==
  ASSUME NEW S, IsFiniteSet(S), NEW w \in [S -> Nat]
  PROVE  \E g : Sums(g, w, S)
<1> DEFINE T == {n \in Nat : \E g : SumsTo(g, w, S, n)}
<1>1. 0 \in T
  <2>1. SumsTo([s \in SUBSET S |-> 0], w, S, 0)
    <3>1. \A s \in SUBSET S : Cardinality(s) <= 0 => s = {}
      BY FS_Subset, FS_EmptySet, FS_CardinalityType
    <3> QED
      BY <3>1 DEF SumsTo
  <2> QED
    BY <2>1
<1>2. ASSUME NEW n \in Nat, n \in T PROVE n + 1 \in T
  BY <1>2, SumsFurther
<1>3. Nat \subseteq T
  <2> HIDE DEF T
  <2> QED
    BY <1>1, <1>2, SetInduction
<1>4. Cardinality(S) \in Nat
  BY FS_CardinalityType
<1>5. PICK g : SumsTo(g, w, S, Cardinality(S))
  BY <1>3, <1>4
<1>6. \A s \in SUBSET S : Cardinality(s) <= Cardinality(S)
  BY FS_Subset
<1>7. Sums(g, w, S)
  BY <1>5, <1>6 DEF Sums, SumsTo
<1> QED
  BY <1>7

(* The summands may be taken away one by one in any order.                 *)
AnyOrder(g, w, s) ==
  /\ g[s] \in Nat
  /\ \A y \in s : g[s] = w[y] + g[s \ {y}]

LEMMA AnyOrderStep ==
  ASSUME NEW S, IsFiniteSet(S), NEW w \in [S -> Nat], NEW g, Sums(g, w, S),
         NEW r \in SUBSET S, r # {},
         \A q \in SUBSET S :
           Cardinality(q) <= Cardinality(r) - 1 => AnyOrder(g, w, q)
  PROVE  AnyOrder(g, w, r)
<1> DEFINE x == Pick(r)
<1>1. /\ x \in r /\ x \in S /\ r \ {x} \in SUBSET S
      /\ Cardinality(r \ {x}) = Cardinality(r) - 1
      /\ Cardinality(r) \in Nat
  BY PickIn, OneLess
<1>2. g[r] = w[x] + g[r \ {x}]
  BY SumsPick, Zenon
<1> HIDE DEF x
<1>3. AnyOrder(g, w, r \ {x})
  BY <1>1
<1>4. g[r] \in Nat /\ w[x] \in Nat /\ g[r \ {x}] \in Nat
  BY <1>1, <1>2, <1>3 DEF AnyOrder
<1>5. ASSUME NEW y \in r, y # x PROVE g[r] = w[y] + g[r \ {y}]
  <2> DEFINE q == (r \ {x}) \ {y}
  <2>1. /\ y \in S /\ r \ {y} \in SUBSET S
        /\ Cardinality(r \ {y}) = Cardinality(r) - 1
    BY OneLess
  <2>2. AnyOrder(g, w, r \ {y})
    BY <1>1, <2>1
  <2>3. g[r \ {x}] = w[y] + g[q]
    BY <1>3, <1>5 DEF AnyOrder
  <2>4. g[r \ {y}] = w[x] + g[q]
    <3>1. q = (r \ {y}) \ {x}
      OBVIOUS
    <3> QED
      BY <3>1, <2>2, <1>1, <1>5 DEF AnyOrder
  <2>5. q \in SUBSET S /\ Cardinality(q) <= Cardinality(r) - 1
    <3>1. /\ y \in r \ {x}
          /\ q \in SUBSET S
          /\ Cardinality(q) = Cardinality(r \ {x}) - 1
      BY <1>1, <1>5, OneLess
    <3> QED
      BY <3>1, <1>1
  <2>6. AnyOrder(g, w, q)
    BY <2>5
  <2>7. g[q] \in Nat /\ w[y] \in Nat
    BY <2>1, <2>6 DEF AnyOrder
  <2> HIDE DEF q
  <2> QED
    BY <1>2, <1>4, <2>3, <2>4, <2>7
<1> QED
  BY <1>2, <1>4, <1>5 DEF AnyOrder

LEMMA SumsAnyOrder ==
  ASSUME NEW S, IsFiniteSet(S), NEW w \in [S -> Nat], NEW g, Sums(g, w, S)
  PROVE  \A s \in SUBSET S : AnyOrder(g, w, s)
<1> DEFINE T == {n \in Nat : \A r \in SUBSET S :
                               Cardinality(r) <= n => AnyOrder(g, w, r)}
<1>1. AnyOrder(g, w, {})
  BY SumsEmpty DEF AnyOrder
<1>2. \A r \in SUBSET S : Cardinality(r) \in Nat /\ (Cardinality(r) = 0 => r = {})
  BY FS_Subset, FS_CardinalityType, FS_EmptySet
<1>3. 0 \in T
  BY <1>1, <1>2
<1>4. ASSUME NEW n \in Nat, n \in T PROVE n + 1 \in T
  <2> SUFFICES ASSUME NEW r \in SUBSET S, Cardinality(r) <= n + 1
               PROVE  AnyOrder(g, w, r)
    OBVIOUS
  <2>1. \A q \in SUBSET S :
          Cardinality(q) <= Cardinality(r) - 1 => AnyOrder(g, w, q)
    BY <1>2, <1>4
  <2> QED
    BY <1>1, <2>1, AnyOrderStep
<1>5. Nat \subseteq T
  <2> HIDE DEF T
  <2> QED
    BY <1>3, <1>4, SetInduction
<1> QED
  BY <1>2, <1>5

(* Sums over a larger set agree with it on its subsets.                    *)
LEMMA SumsAgree ==
  ASSUME NEW S, IsFiniteSet(S), NEW w \in [S -> Nat], NEW g, Sums(g, w, S),
         NEW R \in SUBSET S, NEW v \in [R -> Nat], NEW h, Sums(h, v, R),
         \A x \in R : v[x] = w[x]
  PROVE  \A s \in SUBSET R : g[s] = h[s]
<1> DEFINE T == {n \in Nat : \A s \in SUBSET R :
                               Cardinality(s) <= n => g[s] = h[s]}
<1>1. IsFiniteSet(R)
  BY FS_Subset
<1>2. g[{}] = h[{}]
  BY SumsEmpty
<1>3. \A r \in SUBSET R : Cardinality(r) \in Nat /\ (Cardinality(r) = 0 => r = {})
  BY <1>1, FS_Subset, FS_CardinalityType, FS_EmptySet
<1>4. 0 \in T
  BY <1>2, <1>3
<1>5. ASSUME NEW s \in SUBSET R, s # {}
      PROVE  g[s] = w[Pick(s)] + g[s \ {Pick(s)}]
  <2>1. s \in SUBSET S
    OBVIOUS
  <2> QED
    BY <1>5, <2>1, SumsPick
<1>6. ASSUME NEW s \in SUBSET R, s # {}
      PROVE  h[s] = v[Pick(s)] + h[s \ {Pick(s)}]
  BY <1>6, SumsPick
<1>7. ASSUME NEW n \in Nat, n \in T PROVE n + 1 \in T
  <2> SUFFICES ASSUME NEW s \in SUBSET R, Cardinality(s) <= n + 1
               PROVE  g[s] = h[s]
    OBVIOUS
  <2> SUFFICES ASSUME s # {} PROVE g[s] = h[s]
    BY <1>2
  <2>1. /\ Pick(s) \in s /\ s \ {Pick(s)} \in SUBSET R
        /\ Cardinality(s \ {Pick(s)}) <= n
    BY <1>1, PickIn, OneLess
  <2>2. g[s \ {Pick(s)}] = h[s \ {Pick(s)}]
    BY <1>7, <2>1
  <2>3. g[s] = w[Pick(s)] + g[s \ {Pick(s)}]
    BY <1>5
  <2>4. h[s] = v[Pick(s)] + h[s \ {Pick(s)}]
    BY <1>6
  <2> QED
    BY <2>1, <2>2, <2>3, <2>4
<1>8. Nat \subseteq T
  <2> HIDE DEF T
  <2> QED
    BY <1>4, <1>7, SetInduction
<1> QED
  BY <1>3, <1>8

-----------------------------------------------------------------------------
(* Pieces of a sequence.                                                   *)

(* A function on 1 .. n is a sequence of length n.                         *)
LEMMA FunctionIsSeq ==
  ASSUME NEW S, NEW n \in Nat, NEW f \in [1 .. n -> S]
  PROVE  f \in Seq(S) /\ Len(f) = n
<1>1. [1 .. n -> S] \in {[1 .. m -> S] : m \in Nat}
  OBVIOUS
<1>2. f \in UNION {[1 .. m -> S] : m \in Nat}
  BY <1>1, Zenon
<1>3. Seq(S) = UNION {[1 .. m -> S] : m \in Nat}
  BY SeqDef, Zenon
<1>4. f \in Seq(S)
  BY <1>2, <1>3, Zenon
<1>5. Len(f) \in Nat /\ DOMAIN f = 1 .. Len(f)
  BY <1>4, LenProperties, Zenon
<1>6. 1 .. Len(f) = 1 .. n
  BY <1>5
<1> QED
  BY <1>4, <1>5, <1>6

LEMMA PieceOf ==
  ASSUME NEW S, NEW s \in Seq(S), NEW i \in Nat, NEW j \in i .. Len(s)
  PROVE  /\ SubSeq(s, i + 1, j) \in Seq(S)
         /\ Len(SubSeq(s, i + 1, j)) = j - i
         /\ \A n \in 1 .. j - i : SubSeq(s, i + 1, j)[n] = s[i + n]
<1>1. /\ i + 1 \in Int /\ j \in Int /\ j <= Len(s) /\ i <= j /\ 1 <= i + 1
      /\ Len(s) \in Nat
  OBVIOUS
<1>2. /\ SubSeq(s, i + 1, j) \in Seq(S)
      /\ Len(SubSeq(s, i + 1, j)) = IF i + 1 <= j THEN j - (i + 1) + 1 ELSE 0
  BY <1>1
<1>3. \A n \in 1 .. j - i : SubSeq(s, i + 1, j)[n] = s[i + n]
  BY <1>1
<1> QED
  BY <1>1, <1>2, <1>3

(* Two pieces side by side are one.                                        *)
LEMMA PiecesJoin ==
  ASSUME NEW S, NEW s \in Seq(S),
         NEW i \in Nat, NEW j \in i .. Len(s), NEW k \in j .. Len(s)
  PROVE  SubSeq(s, i + 1, j) \o SubSeq(s, j + 1, k) = SubSeq(s, i + 1, k)
<1> DEFINE u == SubSeq(s, i + 1, j)
           v == SubSeq(s, j + 1, k)
           w == SubSeq(s, i + 1, k)
<1>1. /\ u \in Seq(S) /\ Len(u) = j - i
      /\ \A n \in 1 .. j - i : u[n] = s[i + n]
  BY PieceOf
<1>2. /\ v \in Seq(S) /\ Len(v) = k - j
      /\ \A n \in 1 .. k - j : v[n] = s[j + n]
  <2>1. j \in Nat
    OBVIOUS
  <2> QED
    BY <2>1, PieceOf
<1>3. /\ w \in Seq(S) /\ Len(w) = k - i
      /\ \A n \in 1 .. k - i : w[n] = s[i + n]
  <2>1. k \in i .. Len(s)
    OBVIOUS
  <2> QED
    BY <2>1, PieceOf
<1> HIDE DEF u, v, w
<1>4. u \o v \in Seq(S) /\ Len(u \o v) = k - i
  BY <1>1, <1>2
<1>5. ASSUME NEW n \in 1 .. k - i PROVE (u \o v)[n] = w[n]
  <2>0. n \in Nat /\ i \in Nat /\ j \in Nat /\ k \in Nat
    OBVIOUS
  <2>1. CASE n <= j - i
    <3>1. n \in 1 .. Len(u) /\ n \in 1 .. j - i
      BY <1>1, <2>0, <2>1
    <3>2. (u \o v)[n] = u[n]
      BY <1>1, <1>2, <3>1, ConcatPlaces
    <3> QED
      BY <1>1, <1>3, <3>1, <3>2
  <2>2. CASE n > j - i
    <3>1. n - (j - i) \in 1 .. k - j /\ j + (n - (j - i)) = i + n
          /\ n \in 1 .. Len(u) + Len(v) /\ n > Len(u)
      BY <1>1, <1>2, <2>2
    <3>2. (u \o v)[n] = v[n - Len(u)]
      BY <1>1, <1>2, <3>1
    <3> QED
      BY <1>1, <1>2, <1>3, <3>1, <3>2
  <2>3. n <= j - i \/ n > j - i
    BY <2>0
  <2> QED
    BY <2>1, <2>2, <2>3, Zenon
<1> QED
  BY <1>3, <1>4, <1>5

(* A sequence that holds what the piece holds is the piece.                *)
LEMMA PieceIs ==
  ASSUME NEW S, NEW s \in Seq(S), NEW i \in Nat, NEW j \in i .. Len(s),
         NEW t \in Seq(S), Len(t) = j - i,
         \A n \in 1 .. j - i : t[n] = s[i + n]
  PROVE  t = SubSeq(s, i + 1, j)
<1> DEFINE w == SubSeq(s, i + 1, j)
<1>1. /\ w \in Seq(S) /\ Len(w) = j - i
      /\ \A n \in 1 .. j - i : w[n] = s[i + n]
  BY PieceOf
<1> HIDE DEF w
<1>2. t = w
  BY <1>1
<1> QED
  BY <1>2 DEF w

LEMMA MinOfTwo ==
  ASSUME NEW m \in Int, NEW n \in Int
  PROVE  Min({m, n}) = IF m <= n THEN m ELSE n
<1>1. \E x \in {m, n} : \A y \in {m, n} : x <= y
  OBVIOUS
<1>2. Min({m, n}) \in {m, n} /\ \A y \in {m, n} : Min({m, n}) <= y
  BY <1>1 DEF Min
<1> QED
  BY <1>2

-----------------------------------------------------------------------------
(* The operations of the circular buffer.                                  *)

(* Stepping an index stays inside the array and wraps at its end.          *)
LEMMA AdvanceSlot ==
  ASSUME NEW i \in Slots
  PROVE  /\ Advance(i) \in Slots
         /\ Advance(i) = IF i = MaxOps - 1 THEN 0 ELSE i + 1
BY MaxOpsAssumption, SMT DEF Advance, Slots

(* memset leaves a buffer of the right type and shape.                     *)
LEMMA EmptyBufferGood ==
  ASSUME NEW Pointer
  PROVE  /\ EmptyBuffer \in BufferType(Pointer)
         /\ WellFormed(EmptyBuffer)
BY MaxOpsAssumption, SMT
   DEF EmptyBuffer, EmptyEntry, BufferType, WellFormed, Used, Slots

(* aesd_circular_buffer_add_entry keeps the type of the structure.         *)
LEMMA AddEntryType ==
  ASSUME NEW Pointer,
         NEW b \in BufferType(Pointer),
         NEW e \in [buffptr : Pointer \cup {NULL}, size : Nat]
  PROVE  AddEntry(b, e) \in BufferType(Pointer)
<1>1. Advance(b.in_offs) \in Slots /\ Advance(b.out_offs) \in Slots
  BY AdvanceSlot DEF BufferType
<1>2. [b.entry EXCEPT ![b.in_offs] = e]
        \in [Slots -> [buffptr : Pointer \cup {NULL}, size : Nat]]
  BY DEF BufferType
<1> QED
  BY <1>1, <1>2 DEF AddEntry, BufferType

(* It keeps the agreement of in_offs, out_offs and full, and fills the     *)
(* slots in order.                                                         *)
LEMMA AddEntryWellFormed ==
  ASSUME NEW Pointer,
         NEW b \in BufferType(Pointer),
         NEW e \in [buffptr : Pointer \cup {NULL}, size : Nat],
         e.buffptr # NULL,
         WellFormed(b)
  PROVE  WellFormed(AddEntry(b, e))
<1> DEFINE c == AddEntry(b, e)
<1>1. /\ b.in_offs \in Slots /\ b.out_offs \in Slots /\ b.full \in BOOLEAN
      /\ b.entry \in [Slots -> [buffptr : Pointer \cup {NULL}, size : Nat]]
  BY DEF BufferType
<1>2. /\ c.entry = [b.entry EXCEPT ![b.in_offs] = e]
      /\ c.in_offs = Advance(b.in_offs)
      /\ c.out_offs = IF b.full THEN Advance(b.out_offs) ELSE b.out_offs
      /\ c.full = (c.in_offs = c.out_offs)
  BY DEF AddEntry
<1>3. \A i \in Slots : c.entry[i] = IF i = b.in_offs THEN e ELSE b.entry[i]
  BY <1>1, <1>2
<1>4. CASE b.full
  <2>1. b.in_offs = b.out_offs /\ c.full
    BY <1>2, <1>4 DEF WellFormed
  <2>2. \A i \in Slots : b.entry[i].buffptr # NULL
    BY <1>4 DEF WellFormed, Used
  <2> QED
    BY <1>2, <1>3, <2>1, <2>2 DEF WellFormed, Used
<1>5. CASE ~b.full
  <2>1. b.out_offs = 0 /\ c.out_offs = 0
    BY <1>2, <1>5 DEF WellFormed
  <2>2. \A i \in Slots : IF i < b.in_offs THEN b.entry[i].buffptr # NULL
                                          ELSE b.entry[i] = EmptyEntry
    BY <1>5 DEF WellFormed, Used
  <2>3. CASE b.in_offs = MaxOps - 1
    <3>1. c.in_offs = 0 /\ c.full
      BY <1>1, <1>2, <2>1, <2>3, AdvanceSlot
    <3>2. \A i \in Slots : c.entry[i].buffptr # NULL
      BY <1>1, <1>3, <2>2, <2>3, MaxOpsAssumption DEF Slots
    <3> QED
      BY <1>2, <3>1, <3>2 DEF WellFormed, Used
  <2>4. CASE b.in_offs # MaxOps - 1
    <3>1. c.in_offs = b.in_offs + 1 /\ ~c.full
      BY <1>1, <1>2, <2>1, <2>4, AdvanceSlot DEF Slots
    <3>2. \A i \in Slots : IF i < c.in_offs THEN c.entry[i].buffptr # NULL
                                            ELSE c.entry[i] = EmptyEntry
      BY <1>1, <1>3, <2>2, <3>1 DEF Slots
    <3> QED
      BY <2>1, <3>1, <3>2 DEF WellFormed, Used
  <2> QED
    BY <2>3, <2>4
<1> QED
  BY <1>1, <1>4, <1>5

(* The k-th slot behind out_offs, without the modulo.                      *)
LEMMA SlotValue ==
  ASSUME NEW Pointer,
         NEW b \in BufferType(Pointer),
         NEW k \in Slots
  PROVE  /\ Slot(b, k) \in Slots
         /\ Slot(b, k) = IF b.out_offs + k < MaxOps
                         THEN b.out_offs + k
                         ELSE b.out_offs + k - MaxOps
<1>1. b.out_offs \in Slots
  BY DEF BufferType
<1> QED
  BY <1>1, MaxOpsAssumption, SMT DEF Slot, Slots

LEMMA CountRange ==
  ASSUME NEW Pointer,
         NEW b \in BufferType(Pointer),
         WellFormed(b)
  PROVE  /\ Count(b) \in 0 .. MaxOps
         /\ b.full => Count(b) = MaxOps
         /\ ~b.full => Count(b) = b.in_offs /\ Count(b) < MaxOps
<1>1. b.in_offs \in Slots /\ b.out_offs \in Slots /\ b.full \in BOOLEAN
  BY DEF BufferType
<1>2. ~b.full => b.out_offs = 0
  BY DEF WellFormed
<1> QED
  BY <1>1, <1>2, MaxOpsAssumption DEF Count, Slots

(* An add to a buffer that is not full leaves the order of the slots as it *)
(* is and puts the new entry behind them.                                  *)
LEMMA AddEntryOrderNotFull ==
  ASSUME NEW Pointer,
         NEW b \in BufferType(Pointer),
         NEW e \in [buffptr : Pointer \cup {NULL}, size : Nat],
         e.buffptr # NULL,
         WellFormed(b),
         ~b.full
  PROVE  /\ Count(AddEntry(b, e)) = Count(b) + 1
         /\ \A k \in 0 .. Count(b) - 1 : /\ Slot(AddEntry(b, e), k) = Slot(b, k)
                                         /\ Slot(b, k) # b.in_offs
         /\ Slot(AddEntry(b, e), Count(b)) = b.in_offs
<1> DEFINE c == AddEntry(b, e)
<1>1. b.in_offs \in Slots /\ b.out_offs = 0 /\ Count(b) = b.in_offs
  BY CountRange DEF BufferType, WellFormed
<1>2. c \in BufferType(Pointer) /\ WellFormed(c)
  BY AddEntryType, AddEntryWellFormed
<1>3. /\ c.in_offs = Advance(b.in_offs)
      /\ c.out_offs = 0
      /\ c.full = (c.in_offs = c.out_offs)
  BY <1>1 DEF AddEntry
<1>4. Count(c) = Count(b) + 1
  <2>0. c.in_offs = IF b.in_offs = MaxOps - 1 THEN 0 ELSE b.in_offs + 1
    BY <1>1, <1>3, AdvanceSlot
  <2>1. CASE b.in_offs = MaxOps - 1
    <3>1. c.full
      BY <1>3, <2>0, <2>1
    <3> QED
      BY <1>1, <1>2, <2>1, <3>1, CountRange, MaxOpsAssumption
  <2>2. CASE b.in_offs # MaxOps - 1
    <3>1. c.in_offs = b.in_offs + 1
      BY <2>0, <2>2
    <3>2. c.in_offs # 0
      BY <1>1, <3>1 DEF Slots
    <3>3. ~c.full
      BY <1>3, <3>2
    <3> QED
      BY <1>1, <1>2, <3>1, <3>3, CountRange
  <2> QED
    BY <2>1, <2>2
<1>5. \A k \in 0 .. Count(b) : k \in Slots /\ Slot(b, k) = k /\ Slot(c, k) = k
  <2>1. \A k \in 0 .. Count(b) : k \in Slots
    BY <1>1, MaxOpsAssumption DEF Slots
  <2> QED
    BY <1>1, <1>2, <1>3, <2>1, SlotValue, MaxOpsAssumption DEF Slots
<1> QED
  BY <1>1, <1>4, <1>5, MaxOpsAssumption DEF Slots

(* An add to a full buffer moves every entry one place towards the oldest, *)
(* whose slot the new entry takes.                                         *)
LEMMA AddEntryOrderFull ==
  ASSUME NEW Pointer,
         NEW b \in BufferType(Pointer),
         NEW e \in [buffptr : Pointer \cup {NULL}, size : Nat],
         e.buffptr # NULL,
         WellFormed(b),
         b.full
  PROVE  /\ Count(AddEntry(b, e)) = MaxOps
         /\ \A k \in 0 .. MaxOps - 2 :
              /\ Slot(AddEntry(b, e), k) = Slot(b, k + 1)
              /\ Slot(b, k + 1) # b.in_offs
         /\ Slot(AddEntry(b, e), MaxOps - 1) = b.in_offs
<1> DEFINE c == AddEntry(b, e)
<1>1. b.in_offs \in Slots /\ b.out_offs = b.in_offs
  BY DEF BufferType, WellFormed
<1>2. c \in BufferType(Pointer) /\ WellFormed(c)
  BY AddEntryType, AddEntryWellFormed
<1>3. c.out_offs = Advance(b.in_offs) /\ c.full
  BY <1>1 DEF AddEntry
<1>4. c.out_offs = IF b.in_offs = MaxOps - 1 THEN 0 ELSE b.in_offs + 1
  BY <1>1, <1>3, AdvanceSlot
<1>5. Count(c) = MaxOps
  BY <1>2, <1>3, CountRange
<1>6. ASSUME NEW k \in 0 .. MaxOps - 2
      PROVE  Slot(c, k) = Slot(b, k + 1) /\ Slot(b, k + 1) # b.in_offs
  <2>1. k \in Slots /\ k + 1 \in Slots
    BY MaxOpsAssumption DEF Slots
  <2>2. /\ Slot(c, k) = IF c.out_offs + k < MaxOps
                        THEN c.out_offs + k ELSE c.out_offs + k - MaxOps
        /\ Slot(b, k + 1) = IF b.out_offs + (k + 1) < MaxOps
                            THEN b.out_offs + (k + 1)
                            ELSE b.out_offs + (k + 1) - MaxOps
    BY <1>2, <2>1, SlotValue
  <2> QED
    BY <1>1, <1>4, <2>1, <2>2, MaxOpsAssumption DEF Slots
<1>7. Slot(c, MaxOps - 1) = b.in_offs
  <2>1. MaxOps - 1 \in Slots
    BY MaxOpsAssumption DEF Slots
  <2>2. Slot(c, MaxOps - 1) = IF c.out_offs + (MaxOps - 1) < MaxOps
                              THEN c.out_offs + (MaxOps - 1)
                              ELSE c.out_offs + (MaxOps - 1) - MaxOps
    BY <1>2, <2>1, SlotValue
  <2> QED
    BY <1>1, <1>4, <2>2, MaxOpsAssumption DEF Slots
<1> QED
  BY <1>5, <1>6, <1>7

-----------------------------------------------------------------------------
(* What is kept beside the slots, f[i] for slot i, oldest command first.   *)
InOrder(b, f) == [k \in 1 .. Count(b) |-> f[Slot(b, k - 1)]]

(* The type of struct aesd_buffer_entry.                                   *)
EntryType(Pointer) == [buffptr : Pointer \cup {NULL}, size : Nat]

(* A log of at most MaxOps elements that one more has joined.              *)
LastOps(s) == IF Len(s) > MaxOps THEN Tail(s) ELSE s

LEMMA InOrderSeq ==
  ASSUME NEW Pointer,
         NEW b \in BufferType(Pointer),
         WellFormed(b),
         NEW S, NEW f \in [Slots -> S]
  PROVE  /\ InOrder(b, f) \in Seq(S)
         /\ Len(InOrder(b, f)) = Count(b)
         /\ \A k \in 1 .. Count(b) :
              Slot(b, k - 1) \in Slots /\ InOrder(b, f)[k] = f[Slot(b, k - 1)]
<1>1. Count(b) \in 0 .. MaxOps
  BY CountRange
<1>2. \A k \in 1 .. Count(b) : k - 1 \in Slots
  BY <1>1, MaxOpsAssumption DEF Slots
<1>3. \A k \in 1 .. Count(b) : Slot(b, k - 1) \in Slots
  BY <1>2, SlotValue
<1>4. InOrder(b, f) \in [1 .. Count(b) -> S]
  BY <1>3 DEF InOrder
<1>5. Count(b) \in Nat
  BY <1>1
<1>6. InOrder(b, f) \in Seq(S) /\ Len(InOrder(b, f)) = Count(b)
  BY <1>4, <1>5, FunctionIsSeq, Zenon
<1> QED
  BY <1>3, <1>6 DEF InOrder

(* aesd_circular_buffer_add_entry appends to the commands and drops the    *)
(* oldest when there were MaxOps, whatever x goes with the new entry.      *)
LEMMA AddEntryAppends ==
  ASSUME NEW Pointer,
         NEW b \in BufferType(Pointer),
         NEW e \in EntryType(Pointer),
         e.buffptr # NULL,
         WellFormed(b),
         NEW S, NEW x \in S,
         NEW f \in [Slots -> S], NEW g \in [Slots -> S],
         \A i \in Slots : g[i] = IF i = b.in_offs THEN x ELSE f[i]
  PROVE  InOrder(AddEntry(b, e), g) = LastOps(Append(InOrder(b, f), x))
<1> DEFINE c == AddEntry(b, e)
           old == InOrder(b, f)
           new == InOrder(c, g)
           l == Append(old, x)
<1> USE DEF EntryType
<1>1. /\ c \in BufferType(Pointer) /\ WellFormed(c)
      /\ b.in_offs \in Slots /\ b.full \in BOOLEAN
  BY AddEntryType, AddEntryWellFormed DEF BufferType
<1>2. /\ old \in Seq(S) /\ Len(old) = Count(b)
      /\ \A k \in 1 .. Count(b) :
           Slot(b, k - 1) \in Slots /\ old[k] = f[Slot(b, k - 1)]
  BY InOrderSeq
<1>3. /\ new \in Seq(S) /\ Len(new) = Count(c)
      /\ \A k \in 1 .. Count(c) :
           Slot(c, k - 1) \in Slots /\ new[k] = g[Slot(c, k - 1)]
  BY <1>1, InOrderSeq
<1>4. /\ Count(b) \in 0 .. MaxOps
      /\ b.full => Count(b) = MaxOps
      /\ ~b.full => Count(b) < MaxOps
  BY CountRange
<1>5. /\ l \in Seq(S) /\ Len(l) = Count(b) + 1
      /\ \A k \in 1 .. Count(b) : l[k] = f[Slot(b, k - 1)]
      /\ l[Count(b) + 1] = x
  BY <1>2, <1>4
<1> HIDE DEF c, old, new, l
<1>6. CASE ~b.full
  <2>1. /\ Count(c) = Count(b) + 1
        /\ \A k \in 0 .. Count(b) - 1 : Slot(c, k) = Slot(b, k)
                                        /\ Slot(b, k) # b.in_offs
        /\ Slot(c, Count(b)) = b.in_offs
    BY <1>6, AddEntryOrderNotFull DEF c
  <2>2. LastOps(l) = l
    BY <1>4, <1>5, <1>6, MaxOpsAssumption DEF LastOps
  <2>3. ASSUME NEW k \in 1 .. Count(c)
        PROVE  new[k] = l[k]
    <3>1. CASE k = Count(b) + 1
      BY <1>1, <1>3, <1>4, <1>5, <2>1, <3>1
    <3>2. CASE k # Count(b) + 1
      <4>1. k \in 1 .. Count(b) /\ k - 1 \in 0 .. Count(b) - 1
        BY <1>4, <2>1, <3>2
      <4> QED
        BY <1>3, <1>5, <2>1, <4>1
    <3> QED
      BY <3>1, <3>2
  <2>4. new = l
    BY <1>3, <1>4, <1>5, <2>1, <2>3
  <2> QED
    BY <2>2, <2>4 DEF c, old, new, l
<1>7. CASE b.full
  <2>1. /\ Count(c) = MaxOps
        /\ \A k \in 0 .. MaxOps - 2 : Slot(c, k) = Slot(b, k + 1)
                                      /\ Slot(b, k + 1) # b.in_offs
        /\ Slot(c, MaxOps - 1) = b.in_offs
    BY <1>7, AddEntryOrderFull DEF c
  <2>2. LastOps(l) = Tail(l)
    BY <1>4, <1>5, <1>7, MaxOpsAssumption DEF LastOps
  <2>3. /\ Tail(l) \in Seq(S) /\ Len(Tail(l)) = MaxOps
        /\ \A k \in 1 .. MaxOps : Tail(l)[k] = l[k + 1]
    BY <1>4, <1>5, <1>7, MaxOpsAssumption
  <2>4. ASSUME NEW k \in 1 .. MaxOps
        PROVE  new[k] = l[k + 1]
    <3>1. CASE k = MaxOps
      BY <1>1, <1>3, <1>4, <1>5, <1>7, <2>1, <3>1
    <3>2. CASE k # MaxOps
      <4>1. k - 1 \in 0 .. MaxOps - 2 /\ k + 1 \in 1 .. MaxOps
            /\ (k - 1) + 1 = k /\ (k + 1) - 1 = k
        BY <3>2, MaxOpsAssumption
      <4>2. Slot(c, k - 1) = Slot(b, k) /\ Slot(b, k) # b.in_offs
        BY <2>1, <4>1
      <4>3. l[k + 1] = f[Slot(b, k)]
        BY <1>4, <1>5, <1>7, <4>1
      <4> QED
        BY <1>3, <2>1, <4>2, <4>3
    <3> QED
      BY <3>1, <3>2
  <2>5. new = Tail(l)
    BY <1>3, <2>1, <2>3, <2>4
  <2> QED
    BY <2>2, <2>5 DEF c, old, new, l
<1> QED
  BY <1>1, <1>6, <1>7

-----------------------------------------------------------------------------
(* The sums over the slots.                                                *)

(* The sizes of the k slots that follow out_offs.                          *)
SizesFrom(b, k) == [j \in 0 .. k - 1 |-> b.entry[Slot(b, j)].size]

LEMMA OffsetSums ==
  ASSUME NEW Pointer, NEW b \in BufferType(Pointer), NEW k \in 0 .. MaxOps
  PROVE  /\ SizesFrom(b, k) \in [0 .. k - 1 -> Nat]
         /\ \E g : /\ Sums(g, SizesFrom(b, k), 0 .. k - 1)
                   /\ Offset(b, k) = g[0 .. k - 1]
<1> DEFINE S == 0 .. k - 1
           Iter(g) ==
             g = [s \in SUBSET S |->
                    IF s = {} THEN 0
                    ELSE b.entry[Slot(b, Pick(s))].size + g[s \ {Pick(s)}]]
<1>1. SizesFrom(b, k) \in [S -> Nat]
  <2>1. \A j \in S : Slot(b, j) \in Slots
    BY SlotValue, MaxOpsAssumption DEF Slots
  <2> QED
    BY <2>1 DEF SizesFrom, BufferType
<1>2. \A g : Sums(g, SizesFrom(b, k), S) <=> Iter(g)
  <2>1. \A s \in SUBSET S :
          s # {} => SizesFrom(b, k)[Pick(s)] = b.entry[Slot(b, Pick(s))].size
    BY PickIn DEF SizesFrom
  <2> QED
    BY <2>1 DEF Sums
<1>3. Offset(b, k) = (CHOOSE g : Iter(g))[S]
  BY DEF Offset, MapThenSumSet, MapThenFoldSet, Pick
<1>4. PICK g : Sums(g, SizesFrom(b, k), S)
  <2>1. IsFiniteSet(S)
    BY MaxOpsAssumption, FS_Interval
  <2> HIDE DEF S
  <2> QED
    BY <1>1, <2>1, SumsExists
<1>5. Iter(CHOOSE f : Iter(f))
  BY <1>2, <1>4, Zenon
<1> QED
  BY <1>1, <1>2, <1>3, <1>5

(* Each command adds its size to the offset of the next.                   *)
LEMMA OffsetStep ==
  ASSUME NEW Pointer, NEW b \in BufferType(Pointer)
  PROVE  /\ Offset(b, 0) = 0
         /\ \A k \in 0 .. MaxOps : Offset(b, k) \in Nat
         /\ \A k \in Slots :
              Offset(b, k + 1) = Offset(b, k) + b.entry[Slot(b, k)].size
<1>1. ASSUME NEW k \in 0 .. MaxOps
      PROVE  Offset(b, k) \in Nat /\ (k = 0 => Offset(b, k) = 0)
  <2> DEFINE S == 0 .. k - 1
  <2>1. PICK g : Sums(g, SizesFrom(b, k), S) /\ Offset(b, k) = g[S]
    BY OffsetSums
  <2>2. IsFiniteSet(S) /\ SizesFrom(b, k) \in [S -> Nat] /\ S \in SUBSET S
    BY MaxOpsAssumption, FS_Interval, OffsetSums
  <2>3. k = 0 => S = {}
    OBVIOUS
  <2> HIDE DEF S
  <2>4. AnyOrder(g, SizesFrom(b, k), S)
    BY <2>1, <2>2, SumsAnyOrder
  <2> QED
    BY <2>1, <2>3, <2>4, SumsEmpty DEF AnyOrder
<1>2. ASSUME NEW k \in Slots
      PROVE  Offset(b, k + 1) = Offset(b, k) + b.entry[Slot(b, k)].size
  <2> DEFINE S == 0 .. k
             R == 0 .. k - 1
             w == SizesFrom(b, k + 1)
             v == SizesFrom(b, k)
  <2>1. k \in 0 .. MaxOps /\ k + 1 \in 0 .. MaxOps /\ 0 .. (k + 1) - 1 = S
    BY MaxOpsAssumption DEF Slots
  <2>2. PICK h : Sums(h, v, R) /\ Offset(b, k) = h[R]
    BY <2>1, OffsetSums
  <2>3. PICK g : Sums(g, w, S) /\ Offset(b, k + 1) = g[S]
    BY <2>1, OffsetSums
  <2>4. w \in [S -> Nat] /\ v \in [R -> Nat]
    BY <2>1, OffsetSums
  <2>5. IsFiniteSet(S) /\ R \in SUBSET S /\ S \in SUBSET S
        /\ k \in S /\ S \ {k} = R
    <3>1. k \in Nat
      BY MaxOpsAssumption DEF Slots
    <3>2. IsFiniteSet(S)
      BY <3>1, FS_Interval
    <3> QED
      BY <3>1, <3>2
  <2>6. w[k] = b.entry[Slot(b, k)].size /\ \A j \in R : v[j] = w[j]
    BY <2>1 DEF SizesFrom
  <2> HIDE DEF S, R, w, v
  <2>7. g[S] = w[k] + g[R]
    BY <2>3, <2>4, <2>5, SumsAnyOrder DEF AnyOrder
  <2>8. g[R] = h[R]
    BY <2>2, <2>3, <2>4, <2>5, <2>6, SumsAgree
  <2>9. Offset(b, k) \in Nat /\ b.entry[Slot(b, k)].size \in Nat
    <3>1. Slot(b, k) \in Slots
      BY SlotValue
    <3> QED
      BY <1>1, <2>1, <3>1 DEF BufferType
  <2> QED
    BY <2>2, <2>3, <2>6, <2>7, <2>8, <2>9
<1> QED
  BY <1>1, <1>2, MaxOpsAssumption

SizesOf(b) == [i \in Slots |-> b.entry[i].size]

LEMMA SizeSums ==
  ASSUME NEW Pointer, NEW b \in BufferType(Pointer)
  PROVE  /\ SizesOf(b) \in [Slots -> Nat]
         /\ IsFiniteSet(Slots)
         /\ \E g : Sums(g, SizesOf(b), Slots) /\ Size(b) = g[Slots]
<1> DEFINE Iter(g) ==
             g = [s \in SUBSET Slots |->
                    IF s = {} THEN 0
                    ELSE b.entry[Pick(s)].size + g[s \ {Pick(s)}]]
<1>1. SizesOf(b) \in [Slots -> Nat]
  BY DEF SizesOf, BufferType
<1>2. \A g : Sums(g, SizesOf(b), Slots) <=> Iter(g)
  <2>1. \A s \in SUBSET Slots :
          s # {} => SizesOf(b)[Pick(s)] = b.entry[Pick(s)].size
    BY PickIn DEF SizesOf
  <2> QED
    BY <2>1 DEF Sums
<1>3. Size(b) = (CHOOSE g : Iter(g))[Slots]
  BY DEF Size, MapThenSumSet, MapThenFoldSet, Pick
<1>4. IsFiniteSet(Slots)
  BY MaxOpsAssumption, FS_Interval DEF Slots
<1>5. PICK g : Sums(g, SizesOf(b), Slots)
  BY <1>1, <1>4, SumsExists
<1>6. Iter(CHOOSE f : Iter(f))
  BY <1>2, <1>5, Zenon
<1> QED
  BY <1>1, <1>2, <1>3, <1>4, <1>6

(* Every slot follows out_offs at one distance.                            *)
LEMMA SlotsFollow ==
  ASSUME NEW Pointer, NEW b \in BufferType(Pointer)
  PROVE  /\ \A j, k \in Slots : Slot(b, j) = Slot(b, k) => j = k
         /\ \A i \in Slots : \E k \in Slots : Slot(b, k) = i
<1>1. b.out_offs \in Slots
  BY DEF BufferType
<1>2. \A j, k \in Slots : Slot(b, j) = Slot(b, k) => j = k
  BY <1>1, SlotValue, MaxOpsAssumption DEF Slots
<1>3. ASSUME NEW i \in Slots PROVE \E k \in Slots : Slot(b, k) = i
  <2> DEFINE k == IF i >= b.out_offs THEN i - b.out_offs
                  ELSE i + MaxOps - b.out_offs
  <2>1. k \in Slots
    BY <1>1, MaxOpsAssumption DEF Slots
  <2>2. Slot(b, k) = i
    <3>1. Slot(b, k) = IF b.out_offs + k < MaxOps THEN b.out_offs + k
                       ELSE b.out_offs + k - MaxOps
      <4> HIDE DEF k
      <4> QED
        BY <2>1, SlotValue
    <3> QED
      BY <1>1, <3>1, MaxOpsAssumption DEF Slots
  <2> QED
    BY <2>1, <2>2
<1> QED
  BY <1>2, <1>3

(* aesd_circular_buffer_size adds up the slots in another order than the   *)
(* search does.                                                            *)
LEMMA SizeIsOffset ==
  ASSUME NEW Pointer, NEW b \in BufferType(Pointer)
  PROVE  Size(b) = Offset(b, MaxOps)
<1>1. PICK g : Sums(g, SizesOf(b), Slots) /\ Size(b) = g[Slots]
  BY SizeSums
<1>2. \A s \in SUBSET Slots : AnyOrder(g, SizesOf(b), s)
  BY <1>1, SizeSums, SumsAnyOrder
<1> DEFINE First(k) == {Slot(b, j) : j \in 0 .. k - 1}
           T == {k \in Nat : k \in 0 .. MaxOps => g[First(k)] = Offset(b, k)}
<1>3. 0 \in T
  <2>1. First(0) = {}
    OBVIOUS
  <2> QED
    BY <1>1, <2>1, SumsEmpty, OffsetStep
<1>4. ASSUME NEW k \in Nat, k \in T PROVE k + 1 \in T
  <2> SUFFICES ASSUME k + 1 \in 0 .. MaxOps
               PROVE  g[First(k + 1)] = Offset(b, k + 1)
    OBVIOUS
  <2>1. k \in Slots /\ k \in 0 .. MaxOps /\ 0 .. (k + 1) - 1 = (0 .. k - 1) \cup {k}
        /\ 0 .. k - 1 \subseteq Slots \ {k}
    BY MaxOpsAssumption DEF Slots
  <2>2. Slot(b, k) \in Slots /\ \A j \in 0 .. k - 1 : Slot(b, j) \in Slots
    BY <2>1, SlotValue
  <2>3. Slot(b, k) \notin First(k)
    BY <2>1, SlotsFollow
  <2>4. First(k + 1) = First(k) \cup {Slot(b, k)}
    BY <2>1
  <2>5. First(k + 1) \in SUBSET Slots /\ Slot(b, k) \in First(k + 1)
        /\ First(k + 1) \ {Slot(b, k)} = First(k)
    BY <2>2, <2>3, <2>4
  <2> HIDE DEF First
  <2>6. g[First(k + 1)] = SizesOf(b)[Slot(b, k)] + g[First(k)]
    BY <1>2, <2>5 DEF AnyOrder
  <2>7. SizesOf(b)[Slot(b, k)] = b.entry[Slot(b, k)].size
        /\ SizesOf(b)[Slot(b, k)] \in Nat
    BY <2>2, SizeSums DEF SizesOf
  <2>8. g[First(k)] = Offset(b, k)
    BY <1>4, <2>1
  <2> QED
    BY <2>1, <2>6, <2>7, <2>8, OffsetStep
<1>5. Nat \subseteq T
  <2> HIDE DEF T
  <2> QED
    BY <1>3, <1>4, SetInduction
<1>6. First(MaxOps) = Slots
  <2>1. 0 .. MaxOps - 1 = Slots
    BY DEF Slots
  <2>2. \A i \in Slots : \E k \in Slots : Slot(b, k) = i
    BY SlotsFollow
  <2>3. \A k \in Slots : Slot(b, k) \in Slots
    BY SlotValue
  <2>4. {Slot(b, j) : j \in Slots} = Slots
    BY <2>2, <2>3
  <2> QED
    BY <2>1, <2>4
<1> QED
  BY <1>1, <1>5, <1>6, MaxOpsAssumption

(* Slots never used are empty, so the search may stop behind the commands. *)
LEMMA OffsetEnds ==
  ASSUME NEW Pointer, NEW b \in BufferType(Pointer), WellFormed(b)
  PROVE  Offset(b, MaxOps) = Offset(b, Count(b))
<1> DEFINE T == {k \in Nat : Count(b) + k <= MaxOps =>
                               Offset(b, Count(b) + k) = Offset(b, Count(b))}
<1>1. Count(b) \in 0 .. MaxOps
  BY CountRange
<1>2. 0 \in T
  BY <1>1
<1>3. ASSUME NEW k \in Nat, k \in T PROVE k + 1 \in T
  <2> SUFFICES ASSUME Count(b) + (k + 1) <= MaxOps
               PROVE  Offset(b, Count(b) + (k + 1)) = Offset(b, Count(b))
    OBVIOUS
  <2> DEFINE n == Count(b) + k
  <2>1. n \in Slots /\ n \in 0 .. MaxOps /\ Count(b) + (k + 1) = n + 1
        /\ Count(b) # MaxOps /\ n >= Count(b)
    BY <1>1, MaxOpsAssumption DEF Slots
  <2>2. ~b.full /\ Count(b) = b.in_offs /\ b.out_offs = 0
    BY <2>1, CountRange DEF WellFormed, BufferType
  <2>3. Slot(b, n) = n
    BY <2>1, <2>2, SlotValue, MaxOpsAssumption DEF Slots
  <2>4. b.entry[n] = EmptyEntry
    BY <1>1, <2>1, <2>2 DEF WellFormed, Used, Slots
  <2>5. Offset(b, n) = Offset(b, Count(b))
    BY <1>1, <1>3, <2>1 DEF Slots
  <2> HIDE DEF n
  <2> QED
    BY <2>1, <2>3, <2>4, <2>5, OffsetStep DEF EmptyEntry
<1>4. Nat \subseteq T
  <2> HIDE DEF T
  <2> QED
    BY <1>2, <1>3, SetInduction
<1>5. MaxOps - Count(b) \in Nat /\ Count(b) + (MaxOps - Count(b)) = MaxOps
  BY <1>1, MaxOpsAssumption
<1>6. \A k \in Nat : Count(b) + k <= MaxOps =>
                        Offset(b, Count(b) + k) = Offset(b, Count(b))
  BY <1>4
<1>7. MaxOps <= MaxOps
  BY MaxOpsAssumption
<1> QED
  BY <1>5, <1>6, <1>7

(* The more commands, the more bytes.                                      *)
LEMMA OffsetsGrow ==
  ASSUME NEW Pointer, NEW b \in BufferType(Pointer),
         NEW j \in 0 .. MaxOps, NEW k \in j .. MaxOps
  PROVE  Offset(b, j) <= Offset(b, k)
<1> DEFINE T == {d \in Nat : j + d <= MaxOps => Offset(b, j) <= Offset(b, j + d)}
<1>1. \A i \in 0 .. MaxOps : Offset(b, i) \in Nat
  BY OffsetStep
<1>2. 0 \in T
  BY <1>1
<1>3. ASSUME NEW d \in Nat, d \in T PROVE d + 1 \in T
  <2> SUFFICES ASSUME j + (d + 1) <= MaxOps
               PROVE  Offset(b, j) <= Offset(b, j + (d + 1))
    OBVIOUS
  <2> DEFINE n == j + d
  <2>1. n \in Slots /\ n \in 0 .. MaxOps /\ j + (d + 1) = n + 1
    BY MaxOpsAssumption DEF Slots
  <2>2. Offset(b, j) <= Offset(b, n)
    BY <1>3, <2>1, MaxOpsAssumption DEF Slots
  <2> HIDE DEF n
  <2>3. b.entry[Slot(b, n)].size \in Nat
    BY <2>1, SlotValue DEF BufferType
  <2>4. Offset(b, n + 1) = Offset(b, n) + b.entry[Slot(b, n)].size
    BY <2>1, OffsetStep
  <2> QED
    BY <1>1, <2>1, <2>2, <2>3, <2>4
<1>4. Nat \subseteq T
  <2> HIDE DEF T
  <2> QED
    BY <1>2, <1>3, SetInduction
<1>5. k - j \in Nat /\ j + (k - j) = k /\ k <= MaxOps
  BY MaxOpsAssumption
<1>6. \A d \in Nat : j + d <= MaxOps => Offset(b, j) <= Offset(b, j + d)
  BY <1>4
<1> QED
  BY <1>5, <1>6

(* aesd_circular_buffer_find_entry_offset_for_fpos finds the command whose *)
(* bytes surround char_offset, and none behind the last byte.              *)
LEMMA FindEntryFinds ==
  ASSUME NEW Pointer, NEW b \in BufferType(Pointer), WellFormed(b),
         NEW n \in Nat
  PROVE  /\ n < Offset(b, Count(b)) =>
              \E k \in 0 .. Count(b) - 1 :
                /\ Offset(b, k) <= n /\ n < Offset(b, k + 1)
                /\ FindEntry(b, n) = [slot         |-> Slot(b, k),
                                      entry_offset |-> n - Offset(b, k)]
         /\ Offset(b, Count(b)) <= n => FindEntry(b, n) = NotFound
<1> DEFINE behind == {k \in 0 .. Count(b) - 1 : n < Offset(b, k + 1)}
<1>1. /\ Count(b) \in 0 .. MaxOps
      /\ Offset(b, 0) = 0
      /\ \A i \in 0 .. MaxOps : Offset(b, i) \in Nat
  BY CountRange, OffsetStep
<1>2. ASSUME n < Offset(b, Count(b))
      PROVE  \E k \in 0 .. Count(b) - 1 :
                /\ Offset(b, k) <= n /\ n < Offset(b, k + 1)
                /\ FindEntry(b, n) = [slot         |-> Slot(b, k),
                                      entry_offset |-> n - Offset(b, k)]
  <2>1. Count(b) # 0
    BY <1>1, <1>2
  <2>2. Count(b) - 1 \in 0 .. Count(b) - 1 /\ (Count(b) - 1) + 1 = Count(b)
    BY <1>1, <2>1
  <2>3. Count(b) - 1 \in behind
    BY <1>2, <2>2
  <2>4. behind \in SUBSET Nat /\ behind # {}
    BY <2>3, <1>1
  <2>5. \E m \in behind : \A i \in behind : m <= i
    <3> HIDE DEF behind
    <3> QED
      BY <2>4, LeastNatural
  <2> DEFINE k == Min(behind)
  <2>6. k \in behind /\ \A i \in behind : k <= i
    <3> HIDE DEF behind
    <3> QED
      BY <2>5 DEF Min
  <2>7. FindEntry(b, n) = [slot         |-> Slot(b, k),
                           entry_offset |-> n - Offset(b, k)]
    BY <2>4 DEF FindEntry
  <2>8. k \in 0 .. Count(b) - 1 /\ n < Offset(b, k + 1)
    <3> HIDE DEF k
    <3> QED
      BY <2>6
  <2>9. Offset(b, k) <= n
    <3> SUFFICES ASSUME ~(Offset(b, k) <= n) PROVE FALSE
      OBVIOUS
    <3> HIDE DEF k
    <3>1. k # 0
      BY <1>1
    <3>2. k - 1 \in 0 .. Count(b) - 1 /\ (k - 1) + 1 = k /\ k \in 0 .. MaxOps
      BY <1>1, <2>8, <3>1, MaxOpsAssumption
    <3>3. Offset(b, k) \in Nat /\ n < Offset(b, k)
      BY <1>1, <3>2
    <3>4. k - 1 \in behind
      BY <3>2, <3>3
    <3>5. k <= k - 1
      BY <2>6, <3>4
    <3> QED
      BY <3>2, <3>5
  <2> HIDE DEF k
  <2> QED
    BY <2>7, <2>8, <2>9
<1>3. ASSUME Offset(b, Count(b)) <= n
      PROVE  FindEntry(b, n) = NotFound
  <2>1. ASSUME NEW k \in 0 .. Count(b) - 1
        PROVE  ~(n < Offset(b, k + 1))
    <3>1. k + 1 \in 0 .. MaxOps /\ Count(b) \in (k + 1) .. MaxOps
      BY <1>1, MaxOpsAssumption
    <3>2. Offset(b, k + 1) <= Offset(b, Count(b))
      BY <3>1, OffsetsGrow
    <3> QED
      BY <1>1, <1>3, <3>1, <3>2
  <2>2. behind = {}
    BY <2>1
  <2> QED
    BY <2>2 DEF FindEntry
<1> QED
  BY <1>2, <1>3

(* Where the commands begin when their bytes are laid end to end.          *)
LEMMA OffsetIsLength ==
  ASSUME NEW Pointer, NEW b \in BufferType(Pointer), WellFormed(b),
         NEW S, NEW s \in Seq(Seq(S)), Len(s) = Count(b),
         \A i \in 1 .. Len(s) : Len(s[i]) = b.entry[Slot(b, i - 1)].size,
         NEW k \in 0 .. Count(b)
  PROVE  Len(FlattenSeq(SubSeq(s, 1, k))) = Offset(b, k)
<1> DEFINE F(m) == FlattenSeq(SubSeq(s, 1, m))
           T == {m \in Nat : m <= Count(b) => /\ F(m) \in Seq(S)
                                             /\ Len(F(m)) = Offset(b, m)}
<1>1. Count(b) \in 0 .. MaxOps
  BY CountRange
<1>2. 0 \in T
  <2>1. SubSeq(s, 1, 0) = <<>>
    OBVIOUS
  <2>2. F(0) = <<>>
    BY <2>1, FlattenEmpty, Zenon
  <2>3. Offset(b, 0) = 0
    BY OffsetStep
  <2>4. F(0) \in Seq(S) /\ Len(F(0)) = 0
    <3>1. <<>> \in Seq(S) /\ Len(<<>>) = 0
      OBVIOUS
    <3> QED
      BY <2>2, <3>1, Zenon
  <2> HIDE DEF F
  <2> QED
    BY <2>3, <2>4
<1>3. ASSUME NEW m \in Nat, m \in T PROVE m + 1 \in T
  <2> SUFFICES ASSUME m + 1 <= Count(b)
               PROVE  F(m + 1) \in Seq(S) /\ Len(F(m + 1)) = Offset(b, m + 1)
    OBVIOUS
  <2>1. m + 1 \in 1 .. Len(s) /\ (m + 1) - 1 = m /\ m \in Slots
    BY <1>1, MaxOpsAssumption DEF Slots
  <2>2. F(m + 1) = F(m) \o s[m + 1]
    BY <2>1, FlattenFirst
  <2>3. F(m) \in Seq(S) /\ Len(F(m)) = Offset(b, m)
    BY <1>1, <1>3
  <2>4. s[m + 1] \in Seq(S) /\ Len(s[m + 1]) = b.entry[Slot(b, m)].size
    BY <2>1
  <2> HIDE DEF F, T
  <2>5. F(m + 1) \in Seq(S) /\ Len(F(m + 1)) = Offset(b, m)
                                               + b.entry[Slot(b, m)].size
    <3> DEFINE u == F(m)
               v == s[m + 1]
    <3>1. u \in Seq(S) /\ v \in Seq(S) /\ F(m + 1) = u \o v
      BY <2>2, <2>3, <2>4, Zenon
    <3> HIDE DEF u, v
    <3>2. u \o v \in Seq(S) /\ Len(u \o v) = Len(u) + Len(v)
      BY <3>1
    <3> QED
      BY <2>3, <2>4, <3>1, <3>2 DEF u, v
  <2> QED
    BY <2>1, <2>5, OffsetStep
<1>4. Nat \subseteq T
  <2> HIDE DEF T
  <2> QED
    BY <1>2, <1>3, SetInduction
<1>5. k \in Nat /\ k <= Count(b)
  BY <1>1
<1>6. \A m \in Nat : m <= Count(b) => Len(F(m)) = Offset(b, m)
  BY <1>4
<1> QED
  BY <1>5, <1>6
=============================================================================
