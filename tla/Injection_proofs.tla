--------------------------- MODULE Injection_proofs ---------------------------
(***************************************************************************)
(* For every fault file, every number of threads and cores, and every      *)
(* interleaving: a fault strikes no more often than its occurrence field   *)
(* says, the state keeps its type, and the counters of all cores and of    *)
(* all threads are the sums of the others; the queues stay in the order of *)
(* the file, a fault that none before it can hide is never missed, and so  *)
(* it strikes at every instruction it is due at.                           *)
(***************************************************************************)
EXTENDS Injection, WellFoundedInduction, FiniteSetTheorems, TLAPS

(* A set of natural numbers that is not empty has a least element.         *)
LEMMA NatMin ==
    ASSUME NEW S \in SUBSET Nat, S # {}
    PROVE  \E m \in S : \A k \in S : m <= k
<1>1. /\ IsWellFoundedOn(OpToRel(<, Nat), Nat)
      /\ \A k, m \in Nat : k < m => <<k, m>> \in OpToRel(<, Nat)
  BY NatLessThanWellFounded DEF OpToRel
<1>2. PICK R : /\ IsWellFoundedOn(R, Nat)
               /\ \A k, m \in Nat : k < m => <<k, m>> \in R
  BY <1>1, Zenon
<1>3. PICK m \in S : \A k \in S : ~ (<<k, m>> \in R)
  <2>1. IsWellFoundedOn(R, Nat) /\ S \subseteq Nat
    BY <1>2
  <2> QED
    BY <2>1, WFMin, Zenon
<1>4. \A k \in S : ~ (k < m)
  BY <1>2, <1>3, Zenon
<1>5. \A k \in S : m <= k
  BY <1>4
<1> QED
  BY <1>5

(* A set that holds 0 and, with every number below n, its successor, holds *)
(* all numbers up to n.                                                    *)
LEMMA UpTo ==
    ASSUME NEW n \in Nat, NEW S, 0 \in S,
           \A i \in Nat : i < n /\ i \in S => i + 1 \in S
    PROVE  \A i \in 0..n : i \in S
<1> DEFINE Bad == {i \in Nat : i <= n /\ i \notin S}
<1>1. SUFFICES ASSUME Bad # {} PROVE FALSE
  OBVIOUS
<1>2. PICK m \in Bad : \A k \in Bad : m <= k
  <2>1. Bad \in SUBSET Nat
    OBVIOUS
  <2> HIDE DEF Bad
  <2> QED
    BY <1>1, <2>1, NatMin
<1>3. m \in Nat /\ m # 0 /\ m - 1 \in Nat /\ m <= n /\ m \notin S
  BY <1>2
<1>4. m - 1 \in S
  BY <1>2, <1>3
<1>5. (m - 1) + 1 \in S
  BY <1>3, <1>4
<1> QED
  BY <1>3, <1>5

---------------------------------------------------------------------------
(* The element that the definition of a fold takes out first. *)
Pick(s) == CHOOSE x \in s : TRUE

(* h gives the sum of g over the sets of D, by taking out one element. *)
Adds(h, g, D) ==
    \A s \in D : h[s] = IF s = {} THEN 0 ELSE g[Pick(s)] + h[s \ {Pick(s)}]
Sums(h, g, D) == h \in [D -> Int] /\ Adds(h, g, D)

(* e is g with d added at a. *)
Shifted(e, g, C, a, d) == \A c \in C : e[c] = g[c] + IF c = a THEN d ELSE 0

(* The definition of SumFunction, unfolded. *)
LEMMA SumDef ==
    ASSUME NEW g
    PROVE  SumFunction(g) =
             (CHOOSE h : h = [s \in SUBSET DOMAIN g |->
                IF s = {} THEN 0 ELSE g[CHOOSE x \in s : TRUE] + h[s \ {CHOOSE x \in s : TRUE}]])[DOMAIN g]
  BY DEF SumFunction, SumFunctionOnSet, FoldFunctionOnSet, MapThenFoldSet

(* Taking the chosen element out leaves a smaller set. *)
LEMMA PickFacts ==
    ASSUME NEW s, IsFiniteSet(s), s # {}
    PROVE  /\ Pick(s) \in s /\ IsFiniteSet(s \ {Pick(s)})
           /\ Cardinality(s) \in Nat /\ Cardinality(s) >= 1
           /\ Cardinality(s \ {Pick(s)}) = Cardinality(s) - 1
  <1>1. Pick(s) \in s
    BY DEF Pick
  <1>2. Cardinality(s) \in Nat /\ Cardinality(s \ {Pick(s)}) \in Nat
    BY FS_CardinalityType, FS_RemoveElement
  <1>3. Cardinality(s \ {Pick(s)}) = Cardinality(s) - 1 /\ IsFiniteSet(s \ {Pick(s)})
    BY <1>1, FS_RemoveElement
  <1> QED BY <1>1, <1>2, <1>3

LEMMA SumExists ==
    ASSUME NEW C, IsFiniteSet(C), NEW g \in [C -> Int]
    PROVE  \E h : Sums(h, g, SUBSET C)
  <1> DEFINE D(n) == {s \in SUBSET C : Cardinality(s) <= n}
             S == {n \in Nat : \E h : Sums(h, g, D(n))}
  <1>1. \A s \in SUBSET C : IsFiniteSet(s) /\ Cardinality(s) \in Nat /\ Cardinality(s) <= Cardinality(C)
    BY FS_Subset, FS_CardinalityType
  <1>2. 0 \in S
    <2> DEFINE h == [s \in D(0) |-> 0]
    <2>1. \A s \in D(0) : s = {}
      BY <1>1, FS_EmptySet
    <2>2. Sums(h, g, D(0))
      BY <2>1 DEF Sums, Adds
    <2> QED BY <2>2, Zenon
  <1>3. ASSUME NEW n \in Nat, n \in S PROVE n + 1 \in S
    <2>1. PICK h : Sums(h, g, D(n))
      BY <1>3
    <2> DEFINE e == [s \in D(n + 1) |-> IF s = {} THEN 0 ELSE g[Pick(s)] + h[s \ {Pick(s)}]]
    <2>2. ASSUME NEW s \in D(n + 1), s # {}
          PROVE  s \ {Pick(s)} \in D(n) /\ s \ {Pick(s)} \in D(n + 1) /\ Pick(s) \in C
      <3>1. IsFiniteSet(s) /\ s \in SUBSET C
        BY <1>1
      <3>2. /\ Pick(s) \in s /\ Cardinality(s) \in Nat
            /\ Cardinality(s \ {Pick(s)}) = Cardinality(s) - 1
        BY <2>2, <3>1, PickFacts, Zenon
      <3> QED BY <3>1, <3>2
    <2>3. \A s \in D(n) : s \in D(n + 1) /\ e[s] = h[s]
      <3>1. \A s \in D(n) : s \in D(n + 1)
        BY <1>1
      <3> HIDE DEF D
      <3> QED BY <2>1, <3>1, Zenon DEF Sums, Adds
    <2> HIDE DEF D
    <2>4. e \in [D(n + 1) -> Int]
      BY <2>1, <2>2 DEF Sums, Adds
    <2>5. \A s \in D(n + 1) : s # {} => e[s \ {Pick(s)}] = h[s \ {Pick(s)}]
      BY <2>2, <2>3, Zenon
    <2>6. \A s \in D(n + 1) : e[s] = IF s = {} THEN 0 ELSE g[Pick(s)] + e[s \ {Pick(s)}]
      BY <2>5, Zenon
    <2> HIDE DEF e
    <2>7. Sums(e, g, D(n + 1))
      BY <2>4, <2>6 DEF Sums, Adds
    <2> QED BY <2>7
  <1> HIDE DEF S
  <1>4. Cardinality(C) \in Nat
    BY FS_CardinalityType
  <1>5. Cardinality(C) \in S
    <2> DEFINE c == Cardinality(C)
    <2>1. c \in Nat
      BY <1>4
    <2> HIDE DEF c
    <2>2. \A i \in 0..c : i \in S
      BY <1>2, <1>3, <2>1, UpTo
    <2> QED BY <2>1, <2>2 DEF c
  <1>6. D(Cardinality(C)) = SUBSET C
    BY <1>1
  <1> QED BY <1>5, <1>6, Zenon DEF S

(* Two sums whose terms differ at a only differ by as much. *)
LEMMA SumCompare ==
    ASSUME NEW C, IsFiniteSet(C), NEW g \in [C -> Int], NEW e \in [C -> Int], NEW a, NEW d \in Int,
           Shifted(e, g, C, a, d), NEW h, Sums(h, g, SUBSET C), NEW k, Adds(k, e, SUBSET C)
    PROVE  \A s \in SUBSET C : k[s] = h[s] + IF a \in s THEN d ELSE 0
  <1> DEFINE P(s) == k[s] = h[s] + IF a \in s THEN d ELSE 0
             S == {n \in Nat : \A s \in SUBSET C : Cardinality(s) = n => P(s)}
  <1>1. \A s \in SUBSET C : IsFiniteSet(s) /\ Cardinality(s) \in Nat /\ Cardinality(s) <= Cardinality(C)
    BY FS_Subset, FS_CardinalityType
  <1>2. 0 \in S
    <2>1. \A s \in SUBSET C : Cardinality(s) = 0 => s = {}
      BY <1>1, FS_EmptySet
    <2>2. k[{}] = 0 /\ h[{}] = 0
      BY Zenon DEF Sums, Adds
    <2>3. P({})
      BY <2>2
    <2> QED BY <2>1, <2>3, Zenon
  <1>3. ASSUME NEW n \in Nat, n \in S PROVE n + 1 \in S
    <2> SUFFICES ASSUME NEW s \in SUBSET C, Cardinality(s) = n + 1 PROVE P(s)
      OBVIOUS
    <2> DEFINE x == Pick(s)
               r == s \ {x}
    <2>1. IsFiniteSet(s) /\ s # {}
      BY <1>1, FS_EmptySet
    <2>2. x \in s /\ Cardinality(r) = n
      <3>1. x \in s /\ Cardinality(r) = Cardinality(s) - 1
        BY <2>1, PickFacts, Zenon
      <3> HIDE DEF r
      <3> QED BY <3>1
    <2>3. r \in SUBSET C /\ x \in C
      BY <2>2
    <2>4. P(r)
      BY <1>3, <2>2, <2>3
    <2>5. k[s] = e[x] + k[r] /\ h[s] = g[x] + h[r]
      BY <2>1, Zenon DEF Sums, Adds
    <2>6. e[x] = g[x] + (IF x = a THEN d ELSE 0) /\ g[x] \in Int /\ h[r] \in Int
      BY <2>3 DEF Sums, Shifted
    <2>7. a \in s <=> a \in r \/ a = x
      BY <2>2
    <2>8. a \in r => a # x
      OBVIOUS
    <2> HIDE DEF x, r
    <2> QED BY <2>4, <2>5, <2>6, <2>7, <2>8
  <1>4. Cardinality(C) \in Nat
    BY FS_CardinalityType
  <1>5. \A n \in 0..Cardinality(C) : n \in S
    <2> HIDE DEF S
    <2> DEFINE c == Cardinality(C)
    <2>1. c \in Nat
      BY <1>4
    <2> HIDE DEF c
    <2>2. \A i \in 0..c : i \in S
      BY <1>2, <1>3, <2>1, UpTo
    <2> QED BY <2>2 DEF c
  <1> QED
    <2> TAKE s \in SUBSET C
    <2>1. Cardinality(s) \in 0..Cardinality(C)
      BY <1>1, <1>4
    <2> QED BY <1>5, <2>1

LEMMA SumIs ==
    ASSUME NEW C, IsFiniteSet(C), NEW g \in [C -> Int], NEW h, Sums(h, g, SUBSET C)
    PROVE  SumFunction(g) = h[C]
  <1> DEFINE Eq(k) == k = [s \in SUBSET C |->
                IF s = {} THEN 0 ELSE g[CHOOSE x \in s : TRUE] + k[s \ {CHOOSE x \in s : TRUE}]]
  <1>1. Eq(h)
    BY DEF Sums, Adds, Pick
  <1>2. Eq(CHOOSE k : Eq(k))
    BY <1>1, Zenon
  <1>3. SumFunction(g) = (CHOOSE k : Eq(k))[C]
    BY SumDef, Zenon
  <1>4. PICK k : Eq(k) /\ SumFunction(g) = k[C]
    BY <1>2, <1>3, Zenon
  <1>5. Adds(k, g, SUBSET C)
    BY <1>4 DEF Pick, Adds
  <1> HIDE DEF Eq
  <1>6. Shifted(g, g, C, C, 0)
    BY DEF Shifted
  <1>7. \A s \in SUBSET C : k[s] = h[s] + IF C \in s THEN 0 ELSE 0
    BY <1>5, <1>6, SumCompare
  <1>8. k[C] = h[C] + 0 /\ h[C] \in Int
    BY <1>7 DEF Sums, Adds
  <1> QED BY <1>4, <1>8

(* A sum is a number, and follows a change of one of its terms. *)
LEMMA SumChange ==
    ASSUME NEW C, IsFiniteSet(C), NEW g \in [C -> Int], NEW e \in [C -> Int], NEW a \in C,
           NEW d \in Int, Shifted(e, g, C, a, d)
    PROVE  SumFunction(g) \in Int /\ SumFunction(e) = SumFunction(g) + d
  <1>1. PICK h : Sums(h, g, SUBSET C)
    BY SumExists, Zenon
  <1>2. PICK k : Sums(k, e, SUBSET C)
    BY SumExists
  <1>3. k[C] = h[C] + IF a \in C THEN d ELSE 0
    <2>1. Adds(k, e, SUBSET C)
      BY <1>2 DEF Sums
    <2>2. \A s \in SUBSET C : k[s] = h[s] + IF a \in s THEN d ELSE 0
      BY <1>1, <2>1, SumCompare
    <2> QED BY <2>2
  <1>4. SumFunction(g) = h[C] /\ SumFunction(e) = k[C]
    BY <1>1, <1>2, SumIs
  <1> QED BY <1>1, <1>3, <1>4 DEF Sums, Adds

LEMMA SumZero ==
    ASSUME NEW C, IsFiniteSet(C)
    PROVE  SumFunction([c \in C |-> 0]) = 0
  <1> DEFINE g == [c \in C |-> 0]
             h == [s \in SUBSET C |-> 0]
  <1>1. \A s \in SUBSET C : s # {} => Pick(s) \in C
    BY DEF Pick
  <1>2. Sums(h, g, SUBSET C)
    BY <1>1 DEF Sums, Adds
  <1>3. g \in [C -> Int] /\ h[C] = 0
    OBVIOUS
  <1> HIDE DEF g, h
  <1>4. SumFunction(g) = 0
    BY <1>2, <1>3, SumIs
  <1> QED BY <1>4 DEF g

---------------------------------------------------------------------------
(* A queue holds faults of its stage only, and none of them twice. *)
Own(q, s) ==
    /\ q \in Seq(Faults)
    /\ \A i \in 1..Len(q) : file[q[i]].stage = s
    /\ \A i, j \in 1..Len(q) : q[i] = q[j] => i = j

(* The strikes a fault has had and the ones _occurrence still grants it    *)
(* add up to the number in the file; it is queued while some are left.     *)
Balance(f) ==
    IF f \in Range(queue[file[f].stage])
    THEN occ[f] >= 1 /\ occ[f] + strikes[f] = file[f].occ
    ELSE strikes[f] = file[f].occ

(* The inductive invariant. *)
OccInv ==
    /\ setup \in Setups
    /\ DOMAIN queue = Stages /\ \A s \in Stages : Own(queue[s], s)
    /\ occ \in [Faults -> Int] /\ strikes \in [Faults -> Nat]
    /\ \A f \in Faults : file[f].occ >= 1 => Balance(f)

---------------------------------------------------------------------------
(* What is known of the file. *)
LEMMA FileFacts ==
    ASSUME setup \in Setups, NEW f \in Faults
    PROVE  /\ file[f].stage \in Stages /\ file[f].occ \in Int
           /\ file[f].occ <= MaxStrikes /\ MaxStrikes \in Nat
  BY InjectionAssumption DEF file, MaxStrikes

(* What is known of a queue. *)
LEMMA OwnFacts ==
    ASSUME NEW s, NEW q, Own(q, s)
    PROVE  /\ DOMAIN q = 1..Len(q)
           /\ \A i \in DOMAIN q : q[i] \in Faults /\ file[q[i]].stage = s
  BY DEF Own

LEMMA Squeezed ==
    ASSUME NEW a \in Nat, NEW b \in Nat, a <= b, a >= b
    PROVE  a = b
  OBVIOUS

LEMMA SummandBelow ==
    ASSUME NEW a \in Nat, NEW b \in Nat, NEW c \in Nat, a + b < c
    PROVE  b < c
  OBVIOUS

LEMMA Overtaken ==
    ASSUME NEW a \in Nat, NEW b \in Nat, NEW m \in Nat, a >= m, b <= m
    PROVE  ~(b > a)
  OBVIOUS

LEMMA SmallNat == 1 \in Nat /\ 0 \in Nat /\ ~(1 <= 0)
  OBVIOUS

LEMMA PositionNat ==
    ASSUME NEW n, NEW i \in 1..n
    PROVE  i \in Nat
  OBVIOUS

LEMMA EarlierPosition ==
    ASSUME NEW n \in Nat, NEW i \in 1..n, NEW a \in 1..n, i <= a, NEW j \in 1..(i - 1)
    PROVE  j \in 1..n /\ j <= a /\ ~(i <= j)
  OBVIOUS

LEMMA RiseTogether ==
    ASSUME NEW a \in Nat, NEW b \in Nat, NEW c \in Nat, a = b + c
    PROVE  a + 1 = b + (c + 1)
  OBVIOUS

LEMMA StillBelow ==
    ASSUME NEW a \in Nat, NEW m \in Nat, a <= m
    PROVE  a <= m + 1 /\ a + 1 <= m + 1
  OBVIOUS

LEMMA StaysSpent ==
    ASSUME NEW n \in Int, n <= 0
    PROVE  (IF n = -2 THEN -1 ELSE n - 1) <= 0
  OBVIOUS

LEMMA PlusZero ==
    ASSUME NEW a \in Nat
    PROVE  a = a + 0 /\ a + 1 \in Nat
  OBVIOUS

(* The strikes due at the m-th instruction for a fault with timing T and   *)
(* occurrence n: at m the fault lacks a strike just when its next          *)
(* instruction is m, and it never lacks more than one.                     *)
DueBy(T, n, m) ==
    IF m < T THEN 0 ELSE IF n >= 1 /\ m - T + 1 > n THEN n ELSE m - T + 1

LacksOne(T, n, x, m) == x = DueBy(T, n, m - 1) /\ x + 1 = DueBy(T, n, m)

LEMMA DueNotLate ==
    ASSUME NEW T \in Nat, T >= 1, NEW n \in Int, NEW x \in Nat, NEW m \in Nat,
           x = DueBy(T, n, m - 1) \/ x = DueBy(T, n, m), n <= 0 \/ x < n
    PROVE  T + x >= m
  BY DEF DueBy

LEMMA DueNow ==
    ASSUME NEW T \in Nat, T >= 1, NEW n \in Int, NEW x \in Nat, NEW m \in Nat,
           x = DueBy(T, n, m - 1) \/ x = DueBy(T, n, m), n <= 0 \/ x < n, m = T + x
    PROVE  LacksOne(T, n, x, m)
  BY DEF DueBy, LacksOne

LEMMA DueLacks ==
    ASSUME NEW T \in Nat, T >= 1, NEW n \in Int, NEW x \in Nat, NEW m \in Nat,
           x = DueBy(T, n, m - 1) \/ x = DueBy(T, n, m), x # DueBy(T, n, m)
    PROVE  (n <= 0 \/ x < n) /\ m = T + x /\ m # 0
  BY DEF DueBy

LEMMA ConcatIndex ==
    ASSUME NEW S, NEW u \in Seq(S), NEW v \in Seq(S), NEW k \in 1..(Len(u) + Len(v)), k > Len(u)
    PROVE  (u \o v)[k] = v[k - Len(u)]
  OBVIOUS

LEMMA AfterGap ==
    ASSUME NEW l \in Nat, NEW i \in 1..l, NEW k \in 1..(l - 1), k >= i
    PROVE  k \in 1..((i - 1) + (l - i)) /\ k > i - 1
  OBVIOUS

(* erase: the faults after position i move up by one. *)
LEMMA RemovePositions ==
    ASSUME NEW S, NEW q \in Seq(S), NEW i \in 1..Len(q)
    PROVE  /\ Removed(q, i) \in Seq(S) /\ Len(Removed(q, i)) = Len(q) - 1
           /\ \A k \in 1..(Len(q) - 1) :
                  Removed(q, i)[k] = q[IF k < i THEN k ELSE k + 1]
  <1> DEFINE r == Removed(q, i)
             u == SubSeq(q, 1, i - 1)
             v == SubSeq(q, i + 1, Len(q))
  <1>1. u \in Seq(S) /\ Len(u) = i - 1 /\ \A k \in 1..(i - 1) : u[k] = q[k]
    OBVIOUS
  <1>2. v \in Seq(S) /\ Len(v) = Len(q) - i /\ \A k \in 1..(Len(q) - i) : v[k] = q[i + k]
    OBVIOUS
  <1>3. r = u \o v
    BY DEF Removed
  <1> HIDE DEF u, v, r
  <1>4. r \in Seq(S) /\ Len(r) = Len(q) - 1
    <2>1. u \in Seq(S) /\ v \in Seq(S)
      BY <1>1, <1>2
    <2>2. r \in Seq(S)
      BY <1>3, <2>1
    <2>3. Len(r) = Len(u) + Len(v)
      BY <1>3, <2>1
    <2> QED BY <1>1, <1>2, <2>2, <2>3
  <1>5. ASSUME NEW k \in 1..(Len(q) - 1) PROVE r[k] = q[IF k < i THEN k ELSE k + 1]
    <2>1. CASE k < i
      BY <1>1, <1>2, <1>3, <2>1
    <2>2. CASE k >= i
      <3>0. Len(q) \in Nat
        OBVIOUS
      <3>1. r[k] = v[k - (i - 1)]
        <4>1. k \in 1..(Len(u) + Len(v)) /\ k > Len(u)
          BY <1>1, <1>2, <2>2, <3>0, AfterGap, Zenon
        <4>2. (u \o v)[k] = v[k - Len(u)]
          BY <1>1, <1>2, <4>1, ConcatIndex, Zenon
        <4> QED BY <1>1, <1>3, <4>2, Zenon
      <3>2. k - (i - 1) \in 1..(Len(q) - i) /\ i + (k - (i - 1)) = k + 1
        BY <2>2
      <3> QED BY <1>2, <2>2, <3>1, <3>2
    <2> QED BY <2>1, <2>2
  <1> QED BY <1>4, <1>5 DEF r

(* erase: taking out position i takes out the fault that stood there, and  *)
(* no other.                                                               *)
LEMMA RemoveFacts ==
    ASSUME NEW S, NEW q \in Seq(S), NEW i \in 1..Len(q),
           \A a, b \in 1..Len(q) : q[a] = q[b] => a = b
    PROVE  /\ Removed(q, i) \in Seq(S)
           /\ \A a, b \in 1..Len(Removed(q, i)) :
                  Removed(q, i)[a] = Removed(q, i)[b] => a = b
           /\ Range(Removed(q, i)) = Range(q) \ {q[i]}
  <1> DEFINE r == Removed(q, i)
             At(k) == IF k < i THEN k ELSE k + 1
  <1>1. /\ r \in Seq(S) /\ Len(r) = Len(q) - 1
        /\ \A k \in 1..(Len(q) - 1) : r[k] = q[At(k)]
    BY RemovePositions
  <1> HIDE DEF r
  <1>2. ASSUME NEW a \in 1..Len(r), NEW b \in 1..Len(r), r[a] = r[b] PROVE a = b
    <2>1. At(a) \in 1..Len(q) /\ At(b) \in 1..Len(q) /\ (At(a) = At(b) => a = b)
      BY <1>1
    <2>2. a \in 1..(Len(q) - 1) /\ b \in 1..(Len(q) - 1)
      BY <1>1
    <2> HIDE DEF At
    <2>3. q[At(a)] = q[At(b)]
      BY <1>1, <1>2, <2>2
    <2> QED BY <2>1, <2>3
  <1>3. Range(q) = {q[k] : k \in 1..Len(q)} /\ Range(r) = {r[k] : k \in 1..Len(r)}
    BY <1>1 DEF Range
  <1>4. ASSUME NEW x \in Range(r) PROVE x \in Range(q) /\ x # q[i]
    <2>1. PICK k \in 1..Len(r) : x = r[k]
      BY <1>3, <1>4
    <2>2. At(k) \in 1..Len(q) /\ At(k) # i /\ x = q[At(k)]
      BY <1>1, <2>1
    <2> QED BY <1>3, <2>2
  <1>5. ASSUME NEW x \in Range(q), x # q[i] PROVE x \in Range(r)
    <2>1. PICK k \in 1..Len(q) : x = q[k]
      BY <1>3, <1>5
    <2> DEFINE m == IF k < i THEN k ELSE k - 1
    <2>2. m \in 1..Len(r) /\ At(m) = k
      BY <1>1, <1>5, <2>1
    <2>3. r[m] = x
      BY <1>1, <2>1, <2>2, ZenonT(30)
    <2> QED BY <1>3, <2>2, <2>3
  <1>6. Range(r) = Range(q) \ {q[i]}
    BY <1>4, <1>5
  <1> QED BY <1>1, <1>2, <1>6 DEF r

(* What insert leaves in a queue: every fault of the stage, once. *)
LEMMA FilledFacts ==
    ASSUME setup \in Setups, NEW s \in Stages, NEW q \in Sorted(s)
    PROVE  Own(q, s) /\ Range(q) = {f \in Faults : file[f].stage = s}
  <1> DEFINE T == {f \in Faults : file[f].stage = s}
             n == Cardinality(T)
  <1>1. IsFiniteSet(T) /\ n \in Nat
    BY InjectionAssumption, FS_Subset, FS_CardinalityType
  <1>2. q \in [1..n -> T] /\ \A i, j \in 1..n : q[i] = q[j] => i = j
    BY DEF Sorted, Bijection, Injection, IsInjective
  <1>3. \A t \in T : \E i \in 1..n : q[i] = t
    BY DEF Sorted, Bijection, Surjection
  <1> HIDE DEF n, T
  <1>4. T = {q[i] : i \in 1..n} /\ DOMAIN q = 1..n
    BY <1>2, <1>3
  <1>5. q \in Seq(Faults) /\ Len(q) = n
    BY <1>1, <1>2 DEF T
  <1>6. Own(q, s)
    BY <1>2, <1>5 DEF Own, T
  <1> QED BY <1>4, <1>6 DEF Range, T

LEMMA OccInit == Init => OccInv
  <1> SUFFICES ASSUME Init PROVE OccInv
    OBVIOUS
  <1>1. setup \in Setups /\ DOMAIN queue = Stages
    BY DEF Init
  <1>2. \A s \in Stages : Own(queue[s], s) /\ Range(queue[s]) = {f \in Faults : file[f].stage = s}
    BY <1>1, FilledFacts DEF Init
  <1>3. occ \in [Faults -> Int] /\ strikes \in [Faults -> Nat]
    BY <1>1, FileFacts DEF Init
  <1>4. ASSUME NEW f \in Faults, file[f].occ >= 1 PROVE Balance(f)
    <2>1. file[f].stage \in Stages /\ file[f].occ \in Int
      BY <1>1, FileFacts
    <2>2. f \in Range(queue[file[f].stage])
      BY <1>2, <2>1
    <2>3. occ[f] = file[f].occ /\ strikes[f] = 0
      BY DEF Init
    <2> QED BY <1>4, <2>1, <2>2, <2>3 DEF Balance
  <1> QED BY <1>1, <1>2, <1>3, <1>4 DEF OccInv

---------------------------------------------------------------------------
(* Every step but an injection leaves the queues and the faults alone. *)
LEMMA OccQuiet ==
    ASSUME OccInv, UNCHANGED <<setup, queue, occ, strikes>>
    PROVE  OccInv'
  <1>1. file' = file
    BY DEF file
  <1>2. \A s \in Stages : Own(queue[s], s)'
    BY <1>1 DEF OccInv, Own
  <1>3. \A f \in Faults : file'[f].occ >= 1 => Balance(f)'
    BY <1>1 DEF OccInv, Balance
  <1> QED BY <1>2, <1>3 DEF OccInv

(* An injection: the fault that scan returned is struck once more, and     *)
(* either leaves the queue or has one occurrence less.                     *)
LEMMA OccProcess ==
    ASSUME OccInv, NEW s \in Stages, Process(s)
    PROVE  OccInv'
  <1>1. PICK i \in Found(s) :
          LET f == queue[s][i] IN
          /\ strikes' = [strikes EXCEPT ![f] = IF @ < MaxStrikes THEN @ + 1 ELSE @]
          /\ IF LastOccurrence(f)
             THEN /\ queue' = [queue EXCEPT ![s] = Removed(@, i)]
                  /\ UNCHANGED <<timing, occ>>
             ELSE /\ timing' = [timing EXCEPT ![f] = Rescheduled(f)]
                  /\ occ' = [occ EXCEPT ![f] = IF @ = -2 THEN -1 ELSE @ - 1]
                  /\ UNCHANGED queue
          /\ UNCHANGED setup
    BY Zenon DEF Process
  <1> DEFINE q == queue[s]
             f == q[i]
  <1>2. setup' = setup /\ file' = file /\ setup \in Setups
    BY <1>1 DEF OccInv, file
  <1>3. Own(q, s) /\ i \in 1..Len(q)
    <2>1. Own(q, s)
      BY DEF OccInv
    <2>2. i \in DOMAIN q
      BY DEF Found
    <2>3. DOMAIN q = 1..Len(q)
      BY <2>1 DEF Own
    <2> QED BY <2>1, <2>2, <2>3
  <1>4. f \in Faults /\ file[f].stage = s /\ f \in Range(q)
    BY <1>3 DEF Own, Range
  <1>5. strikes[f] \in Nat /\ occ[f] \in Int /\ MaxStrikes \in Nat
        /\ file[f].occ \in Int /\ file[f].occ <= MaxStrikes
    BY <1>2, <1>4, FileFacts, ZenonT(30) DEF OccInv
  <1>6. file[f].occ >= 1 => occ[f] >= 1 /\ occ[f] + strikes[f] = file[f].occ
    BY <1>4, ZenonT(30) DEF OccInv, Balance
  <1>7. strikes' \in [Faults -> Nat] /\ \A g \in Faults : g # f => strikes'[g] = strikes[g]
    BY <1>1, <1>4, <1>5 DEF OccInv
  <1>8. file[f].occ >= 1 => strikes'[f] = strikes[f] + 1
    BY <1>1, <1>4, <1>5, <1>6 DEF OccInv
  <1> HIDE DEF q, f
  <1>9. CASE LastOccurrence(f)
    <2>1. occ' = occ /\ occ[f] = 1 /\ queue' = [queue EXCEPT ![s] = Removed(q, i)]
      BY <1>1, <1>9, ZenonT(30) DEF LastOccurrence, q, f
    <2>2. /\ Removed(q, i) \in Seq(Faults)
          /\ \A a, b \in 1..Len(Removed(q, i)) :
                 Removed(q, i)[a] = Removed(q, i)[b] => a = b
          /\ Range(Removed(q, i)) = Range(q) \ {f}
      BY <1>3, RemoveFacts DEF Own, f
    <2>3. \A k \in 1..Len(Removed(q, i)) : file[Removed(q, i)[k]].stage = s
      <3> TAKE k \in 1..Len(Removed(q, i))
      <3>1. Removed(q, i)[k] \in Range(Removed(q, i))
        <4> DEFINE r == Removed(q, i)
        <4>1. r \in Seq(Faults) /\ k \in 1..Len(r)
          BY <2>2
        <4> HIDE DEF r
        <4>2. r[k] \in Range(r)
          BY <4>1 DEF Range
        <4> QED BY <4>2 DEF r
      <3>2. Removed(q, i)[k] \in Range(q)
        BY <2>2, <3>1
      <3> QED BY <1>3, <3>2 DEF Own, Range
    <2>4. DOMAIN queue' = Stages /\ queue'[s] = Removed(q, i)
          /\ \A t \in Stages : t # s => queue'[t] = queue[t]
      BY <2>1 DEF OccInv
    <2>5. \A t \in Stages : Own(queue[t], t)
      BY DEF OccInv
    <2>6. \A t \in Stages : Own(queue[t], t)'
      BY <1>2, <2>2, <2>3, <2>4, <2>5 DEF Own
    <2>7. ASSUME NEW g \in Faults, file[g].occ >= 1 PROVE Balance(g)'
      <3>1. file[g].stage \in Stages /\ Balance(g)
        BY <1>2, <2>7, FileFacts DEF OccInv
      <3>2. CASE g = f
        <4>1. strikes'[f] = file[f].occ
          <5>1. file[f].occ >= 1
            BY <2>7, <3>2
          <5> QED BY <1>5, <1>6, <1>8, <2>1, <5>1
        <4>2. f \notin Range(queue'[file[f].stage])
          BY <1>4, <2>2, <2>4, ZenonT(30)
        <4> QED BY <1>2, <3>2, <4>1, <4>2 DEF Balance
      <3>3. CASE g # f
        <4>1. g \in Range(queue'[file[g].stage]) <=> g \in Range(queue[file[g].stage])
          <5>1. CASE file[g].stage = s
            BY <2>2, <2>4, <3>3, <5>1 DEF q
          <5>2. CASE file[g].stage # s
            BY <2>4, <3>1, <5>2, ZenonT(30)
          <5> QED BY <5>1, <5>2
        <4> QED BY <1>2, <1>7, <2>1, <3>1, <3>3, <4>1, ZenonT(30) DEF Balance
      <3> QED BY <3>2, <3>3
    <2> QED BY <1>2, <1>7, <2>1, <2>4, <2>6, <2>7, ZenonT(30) DEF OccInv
  <1>10. CASE ~LastOccurrence(f)
    <2>1. queue' = queue /\ occ' = [occ EXCEPT ![f] = IF @ = -2 THEN -1 ELSE @ - 1]
      BY <1>1, <1>10 DEF q, f
    <2>2. occ[f] # 1
      BY <1>10 DEF LastOccurrence
    <2>3. occ' \in [Faults -> Int] /\ \A g \in Faults : g # f => occ'[g] = occ[g]
      BY <1>4, <1>5, <2>1 DEF OccInv
    <2>4. occ[f] >= 1 => occ'[f] = occ[f] - 1
      BY <1>4, <1>5, <2>1 DEF OccInv
    <2>5. \A t \in Stages : Own(queue[t], t)'
      BY <1>2, <2>1 DEF OccInv, Own
    <2>6. ASSUME NEW g \in Faults, file[g].occ >= 1 PROVE Balance(g)'
      <3>1. Balance(g)
        BY <2>6 DEF OccInv
      <3>2. CASE g = f
        <4>1. occ'[f] >= 1 /\ occ'[f] + strikes'[f] = file[f].occ
          BY <1>5, <1>6, <1>8, <2>2, <2>4, <2>6, <3>2
        <4> QED BY <1>2, <1>4, <2>1, <3>2, <4>1 DEF Balance, q
      <3>3. CASE g # f
        BY <1>2, <1>7, <2>1, <2>3, <3>1, <3>3 DEF Balance
      <3> QED BY <3>2, <3>3
    <2> QED BY <1>2, <1>7, <2>1, <2>3, <2>5, <2>6, ZenonT(30) DEF OccInv
  <1> QED BY <1>9, <1>10

LEMMA OccStep == OccInv /\ [Next]_vars => OccInv'
  <1> SUFFICES ASSUME OccInv, [Next]_vars PROVE OccInv'
    OBVIOUS
  <1>1. ASSUME NEW s \in Stages, NEW a, NEW k, Hook(s, a, k) PROVE OccInv'
    BY <1>1, OccProcess, OccQuiet DEF Hook
  <1>2. CASE \E t \in setup.threads, c \in setup.cores : Start(t, c) \/ Begin(t, c)
    BY <1>2, OccQuiet DEF Start, Begin
  <1>3. CASE CountTicks \/ End
    BY <1>3, OccQuiet DEF CountTicks, End
  <1>4. CASE MainFault
    BY <1>1, <1>4 DEF MainFault, Stages
  <1>5. CASE FetchFault
    BY <1>1, <1>5 DEF FetchFault, Stages
  <1>6. CASE DecodeFault
    BY <1>1, <1>6 DEF DecodeFault, Stages
  <1>7. CASE IewFault
    BY <1>1, <1>7 DEF IewFault, Stages
  <1>8. CASE LdsFault
    BY <1>1, <1>8 DEF LdsFault, Stages
  <1>9. CASE UNCHANGED vars
    BY <1>9, OccQuiet DEF vars
  <1> QED BY <1>2, <1>3, <1>4, <1>5, <1>6, <1>7, <1>8, <1>9 DEF Next, Run

(* AtMostOccurrences for every fault file, every number of threads and     *)
(* cores and every interleaving: check4reschedule grants a fault of        *)
(* occurrence n its n strikes and takes it out of its queue with the last. *)
THEOREM OccurrencesKept == Spec => []AtMostOccurrences
  <1>1. ASSUME OccInv PROVE AtMostOccurrences
    <2> SUFFICES ASSUME NEW f \in Faults, file[f].occ >= 1
                 PROVE  /\ strikes[f] <= file[f].occ
                        /\ strikes[f] = file[f].occ <=> f \notin Range(queue[file[f].stage])
      BY DEF AtMostOccurrences
    <2>1. Balance(f) /\ strikes[f] \in Nat /\ occ[f] \in Int /\ file[f].occ \in Int
      BY <1>1, FileFacts DEF OccInv
    <2> QED BY <2>1 DEF Balance
  <1> QED BY <1>1, OccInit, OccStep, PTL DEF Spec

---------------------------------------------------------------------------
(* The rest of the state, and that the core of the instruction in progress *)
(* is known to its counters once ticks were counted.                       *)
Shape ==
    /\ timing \in [Faults -> Nat]
    /\ started \subseteq Threads /\ \A t \in Threads : t \in started <=> known[t] # {}
    /\ known \in [Objects -> SUBSET Cores]
    /\ count \in [Counters -> [Objects -> [Slots -> Nat]]]
    /\ now \in 0..setup.instrs
    /\ stage \in Stages \cup {"idle", "ticks", "end"}
    /\ stage # "idle" => now < setup.instrs /\ cur.thread \in started /\ cur.core \in Cores
    /\ stage \notin {"idle", "ticks"} =>
        cur.core \in known[cur.thread] /\ cur.core \in known["allthreads"]

(* No counter of instructions is ahead of the instructions run. *)
Counted(k) == stage = "end" \/ (k = "fetched" /\ stage \in Stages \ {"main"})
NotAhead ==
    \A k \in Counters \ {"ticks"}, o \in Objects, s \in Slots :
        count[k][o][s] <= IF Counted(k) THEN now + 1 ELSE now

Queued(f) == f \in Range(queue[file[f].stage])

---------------------------------------------------------------------------
(* More of what is known of the file. *)
LEMMA TimingFacts ==
    ASSUME setup \in Setups, NEW f \in Faults
    PROVE  /\ file[f].timing \in Nat /\ file[f].where \in Slots
           /\ file[f].type \in {"Inst", "Tick", "Addr"}
           /\ setup.instrs \in Nat /\ setup.ticks \in Nat
  BY InjectionAssumption DEF file

(* What the increase methods do to the counters. *)
LEMMA IncreasedFacts ==
    ASSUME setup.ticks \in Nat, count \in [Counters -> [Objects -> [Slots -> Nat]]],
           NEW k \in Counters, NEW n \in Nat
    PROVE  /\ Increased(k, n) \in [Counters -> [Objects -> [Slots -> Nat]]]
           /\ \A j \in Counters : j # k => Increased(k, n)[j] = count[j]
           /\ k # "ticks" => \A o \in Objects, s \in Slots :
                  Increased(k, n)[k][o][s] =
                      IF o \in {cur.thread, "allthreads"}
                         /\ (s = "all" \/ (s = cur.core /\ s \in known[o]))
                      THEN count[k][o][s] + n ELSE count[k][o][s]
  <1>1. \A o \in Objects, s \in Slots :
            count[k][o][s] \in Nat /\ Capped(k, count[k][o][s] + n) \in Nat
            /\ (k # "ticks" => Capped(k, count[k][o][s] + n) = count[k][o][s] + n)
    BY DEF Capped
  <1>2. Increased(k, n)[k] = [o \in Objects |-> [s \in Slots |->
            IF o \in {cur.thread, "allthreads"} /\ (s = "all" \/ (s = cur.core /\ s \in known[o]))
            THEN Capped(k, count[k][o][s] + n) ELSE count[k][o][s]]]
    BY DEF Increased
  <1>3. Increased(k, n)[k] \in [Objects -> [Slots -> Nat]]
    BY <1>1, <1>2
  <1>4. /\ DOMAIN Increased(k, n) = Counters
        /\ Increased(k, n) = [j \in Counters |-> Increased(k, n)[j]]
        /\ \A j \in Counters : j # k => Increased(k, n)[j] = count[j]
    BY Zenon DEF Increased
  <1>5. \A j \in Counters : Increased(k, n)[j] \in [Objects -> [Slots -> Nat]]
    BY <1>3, <1>4, Zenon
  <1> QED BY <1>1, <1>2, <1>4, <1>5

LEMMA OthersKept ==
    ASSUME setup.ticks \in Nat, count \in [Counters -> [Objects -> [Slots -> Nat]]],
           NEW k \in Counters, NEW n \in Nat, NEW j \in Counters, j # k
    PROVE  Increased(k, n)[j] = count[j]
  BY Zenon DEF Increased

(* An injection: the fault that scan returned, and what becomes of it. *)
LEMMA StrikeFacts ==
    ASSUME OccInv, NEW s \in Stages, Process(s)
    PROVE  \E i \in 1..Len(queue[s]), f \in Faults :
             /\ f = queue[s][i] /\ file[f].stage = s /\ Queued(f) /\ Matches(f, s)
             /\ strikes' = [strikes EXCEPT ![f] = IF @ < MaxStrikes THEN @ + 1 ELSE @]
             /\ \/ /\ occ[f] = 1 /\ UNCHANGED <<timing, occ>>
                   /\ queue' = [queue EXCEPT ![s] = Removed(@, i)]
                \/ /\ occ[f] # 1 /\ UNCHANGED queue
                   /\ timing' = [timing EXCEPT ![f] = Rescheduled(f)]
                   /\ occ' = [occ EXCEPT ![f] = IF @ = -2 THEN -1 ELSE @ - 1]
             /\ UNCHANGED <<setup, started, known, count, now, cur, stage>>
  <1>1. PICK i \in Found(s) :
          LET f == queue[s][i] IN
          /\ strikes' = [strikes EXCEPT ![f] = IF @ < MaxStrikes THEN @ + 1 ELSE @]
          /\ IF LastOccurrence(f)
             THEN /\ queue' = [queue EXCEPT ![s] = Removed(@, i)]
                  /\ UNCHANGED <<timing, occ>>
             ELSE /\ timing' = [timing EXCEPT ![f] = Rescheduled(f)]
                  /\ occ' = [occ EXCEPT ![f] = IF @ = -2 THEN -1 ELSE @ - 1]
                  /\ UNCHANGED queue
          /\ UNCHANGED <<setup, started, known, count, now, cur, stage>>
    BY Zenon DEF Process
  <1>2. Own(queue[s], s) /\ DOMAIN queue[s] = 1..Len(queue[s])
    BY SMTT(30) DEF OccInv, Own
  <1>3. i \in 1..Len(queue[s]) /\ Matches(queue[s][i], s)
    BY <1>2 DEF Found
  <1>4. PICK f \in Faults : f = queue[s][i]
    BY <1>2, <1>3, OwnFacts, Zenon
  <1>5. file[f].stage = s /\ Queued(f)
    BY <1>2, <1>3, <1>4, ZenonT(30) DEF Own, Queued, Range
  <1>6. /\ strikes' = [strikes EXCEPT ![f] = IF @ < MaxStrikes THEN @ + 1 ELSE @]
        /\ \/ /\ occ[f] = 1 /\ UNCHANGED <<timing, occ>>
              /\ queue' = [queue EXCEPT ![s] = Removed(@, i)]
           \/ /\ occ[f] # 1 /\ UNCHANGED queue
              /\ timing' = [timing EXCEPT ![f] = Rescheduled(f)]
              /\ occ' = [occ EXCEPT ![f] = IF @ = -2 THEN -1 ELSE @ - 1]
        /\ UNCHANGED <<setup, started, known, count, now, cur, stage>>
    BY <1>1, <1>4, ZenonT(30) DEF LastOccurrence
  <1> QED BY <1>3, <1>4, <1>5, <1>6, Zenon

(* A hook that finds no fault hands over to the next, and counts. *)
Leave ==
    /\ stage \in Stages /\ Found(stage) = {}
    /\ \/ stage = "main" /\ stage' = "end" /\ count' = count
       \/ stage = "main" /\ stage' = "fetch" /\ count' = Increased("fetched", 1)
       \/ stage = "fetch" /\ stage' = "decode" /\ count' = count
       \/ stage = "decode" /\ stage' \in {"iew", "loadstore", "end"} /\ count' = count
       \/ stage = "iew" /\ stage' = "end" /\ count' = Increased("executed", 1)
       \/ stage = "loadstore" /\ stage' = "end" /\ count' = Increased("loadstore", 1)
    /\ UNCHANGED <<setup, queue, timing, occ, started, known, now, cur, strikes>>

(* The steps by what they do, for the case distinctions. *)
LEMMA StepKinds ==
    ASSUME [Next]_vars
    PROVE  \/ \E t \in setup.threads, c \in setup.cores : Start(t, c)
           \/ \E t \in setup.threads, c \in setup.cores : Begin(t, c)
           \/ CountTicks \/ End \/ UNCHANGED vars
           \/ stage \in Stages /\ Process(stage)
           \/ Leave
  <1>1. CASE MainFault
    BY <1>1 DEF MainFault, Hook, Leave, Stages
  <1>2. CASE FetchFault
    BY <1>2 DEF FetchFault, Hook, Leave, Stages
  <1>3. CASE DecodeFault
    BY <1>3 DEF DecodeFault, Hook, Leave, Stages
  <1>4. CASE IewFault
    BY <1>4 DEF IewFault, Hook, Leave, Stages
  <1>5. CASE LdsFault
    BY <1>5 DEF LdsFault, Hook, Leave, Stages
  <1> QED BY <1>1, <1>2, <1>3, <1>4, <1>5, ZenonT(30) DEF Next, Run

LEMMA ShapeInit == Init => Shape /\ NotAhead
  <1> SUFFICES ASSUME Init PROVE Shape /\ NotAhead
    OBVIOUS
  <1>1. setup \in Setups /\ setup.instrs \in Nat
    BY InjectionAssumption DEF Init
  <1>2. timing \in [Faults -> Nat]
    BY <1>1, TimingFacts DEF Init
  <1>3. count \in [Counters -> [Objects -> [Slots -> Nat]]]
    BY DEF Init
  <1>4. known \in [Objects -> SUBSET Cores] /\ \A t \in Threads : t \in started <=> known[t] # {}
    BY DEF Init, Objects
  <1>5. /\ started = {} /\ now \in 0..setup.instrs /\ stage = "idle"
    BY <1>1 DEF Init
  <1>6. Shape
    BY <1>2, <1>3, <1>4, <1>5 DEF Shape
  <1>7. NotAhead
    BY DEF NotAhead, Init, Counted
  <1> QED BY <1>6, <1>7

LEMMA ShapeStep ==
    ASSUME OccInv, Shape, [Next]_vars
    PROVE  Shape'
  <1>0. /\ setup \in Setups /\ setup.instrs \in Nat /\ setup.ticks \in Nat
        /\ setup.threads \subseteq Threads /\ setup.cores \subseteq Cores
        /\ "allthreads" \notin Threads
    BY InjectionAssumption DEF OccInv
  <1>1. ASSUME NEW t \in setup.threads, NEW c \in setup.cores, Start(t, c) PROVE Shape'
    <2>1. /\ t \in Threads /\ c \in Cores /\ stage = "idle" /\ t \notin started
          /\ started' = started \cup {t}
          /\ known' = [known EXCEPT ![t] = {c},
                              !["allthreads"] = IF started = {} THEN {c} ELSE @]
          /\ UNCHANGED <<setup, timing, count, now, cur, stage>>
      BY <1>0, <1>1 DEF Start
    <2>2. known' \in [Objects -> SUBSET Cores]
      BY <2>1 DEF Shape, Objects
    <2>3. \A u \in Threads : u \in started' <=> known'[u] # {}
      BY <1>0, <2>1, Zenon DEF Shape, Objects
    <2> QED BY <2>1, <2>2, <2>3, Zenon DEF Shape
  <1>2. ASSUME NEW t \in setup.threads, NEW c \in setup.cores, Begin(t, c) PROVE Shape'
    <2>1. /\ c \in Cores /\ t \in started /\ now < setup.instrs /\ stage' = "ticks"
          /\ cur'.thread = t /\ cur'.core = c
          /\ UNCHANGED <<setup, timing, started, known, count, now>>
      BY <1>0, <1>2 DEF Begin
    <2> QED BY <2>1 DEF Shape
  <1>3. CASE CountTicks
    <2>1. /\ stage = "ticks" /\ stage' = "main" /\ count' = Increased("ticks", now + 1)
          /\ known' = MeetCore(cur.thread, cur.core)
          /\ UNCHANGED <<setup, timing, started, now, cur>>
      BY <1>3, ZenonT(30) DEF CountTicks
    <2>2. count' \in [Counters -> [Objects -> [Slots -> Nat]]]
      BY <1>0, <2>1, IncreasedFacts DEF Shape, Counters
    <2>3. cur.thread \in started /\ cur.thread \in Threads /\ cur.core \in Cores /\ now < setup.instrs
      BY <2>1 DEF Shape
    <2>4. known' \in [Objects -> SUBSET Cores]
          /\ cur.core \in known'[cur.thread] /\ cur.core \in known'["allthreads"]
          /\ \A u \in Threads : u # cur.thread => known'[u] = known[u]
      BY <1>0, <2>1, <2>3 DEF Shape, Objects, MeetCore
    <2>5. \A u \in Threads : u \in started' <=> known'[u] # {}
      BY <2>1, <2>3, <2>4 DEF Shape
    <2> QED BY <2>1, <2>2, <2>3, <2>4, <2>5 DEF Shape, Stages
  <1>4. CASE End
    <2>1. /\ stage = "end" /\ stage' = "idle" /\ count' = Increased("ticks", 1) /\ now' = now + 1
          /\ UNCHANGED <<setup, timing, started, known>>
      BY <1>4 DEF End
    <2>2. count' \in [Counters -> [Objects -> [Slots -> Nat]]]
      BY <1>0, <2>1, IncreasedFacts, ZenonT(30) DEF Shape, Counters
    <2>3. now' \in 0..setup.instrs
      BY <1>0, <2>1 DEF Shape
    <2> QED BY <2>1, <2>2, <2>3 DEF Shape
  <1>5. CASE stage \in Stages /\ Process(stage)
    <2>1. PICK f \in Faults :
            /\ timing' = timing \/ timing' = [timing EXCEPT ![f] = Rescheduled(f)]
            /\ UNCHANGED <<setup, started, known, count, now, cur, stage>>
      BY <1>5, StrikeFacts
    <2>2. Rescheduled(f) \in Nat
      <3>1. timing[f] \in Nat /\ now \in Nat /\ file[f].type \in {"Inst", "Tick", "Addr"}
        BY <1>0, TimingFacts DEF Shape
      <3> QED BY <3>1 DEF Rescheduled
    <2>3. timing' \in [Faults -> Nat]
      BY <2>1, <2>2 DEF Shape
    <2> QED BY <2>1, <2>3, ZenonT(30) DEF Shape
  <1>6. CASE Leave
    <2>1. /\ UNCHANGED <<setup, timing, started, known, now, cur>>
          /\ stage \in Stages /\ stage' \in Stages \cup {"end"}
          /\ count' = count \/ \E k \in Counters : count' = Increased(k, 1)
      BY <1>6 DEF Leave, Stages, Counters
    <2>2. count' \in [Counters -> [Objects -> [Slots -> Nat]]]
      BY <1>0, <2>1, IncreasedFacts DEF Shape
    <2> QED BY <2>1, <2>2 DEF Shape, Stages
  <1>7. CASE UNCHANGED vars
    BY <1>7, ZenonT(30) DEF Shape, vars
  <1> QED BY <1>1, <1>2, <1>3, <1>4, <1>5, <1>6, <1>7, StepKinds, ZenonT(30)

(* Counting an instruction adds one to a counter of the running thread and *)
(* of allthreads, on "all" and on the running core.                        *)
LEMMA CountOne ==
    ASSUME OccInv, Shape, stage \in Stages, NEW k \in Counters \ {"ticks"},
           count' = Increased(k, 1), NEW o \in Objects, NEW s \in Slots
    PROVE  /\ count[k][o][s] \in Nat
           /\ count'[k][o][s] = count[k][o][s] +
                IF o \in {cur.thread, "allthreads"} /\ s \in {"all", cur.core} THEN 1 ELSE 0
  <1>1. setup.ticks \in Nat /\ count \in [Counters -> [Objects -> [Slots -> Nat]]] /\ 1 \in Nat
    BY InjectionAssumption DEF OccInv, Shape
  <1>2. cur.core \in known[cur.thread] /\ cur.core \in known["allthreads"]
    BY DEF Shape, Stages
  <1>3. Increased(k, 1)[k][o][s] =
            IF o \in {cur.thread, "allthreads"} /\ (s = "all" \/ (s = cur.core /\ s \in known[o]))
            THEN count[k][o][s] + 1 ELSE count[k][o][s]
    BY <1>1, IncreasedFacts
  <1>4. count[k][o][s] \in Nat
    BY <1>1
  <1> QED BY <1>2, <1>3, <1>4

LEMMA NotAheadStep ==
    ASSUME OccInv, Shape, NotAhead, [Next]_vars
    PROVE  NotAhead'
  <1>0. now \in Nat /\ setup.ticks \in Nat /\ count \in [Counters -> [Objects -> [Slots -> Nat]]]
    BY InjectionAssumption DEF OccInv, Shape
  <1> SUFFICES ASSUME NEW k \in Counters \ {"ticks"}, NEW o \in Objects, NEW s \in Slots
               PROVE  count'[k][o][s] <= IF Counted(k)' THEN now' + 1 ELSE now'
    BY DEF NotAhead
  <1>1. count[k][o][s] \in Nat /\ count[k][o][s] <= IF Counted(k) THEN now + 1 ELSE now
    BY <1>0 DEF NotAhead
  <1>2. ASSUME count'[k] = count[k], now' = now, Counted(k) => Counted(k)'
        PROVE  count'[k][o][s] <= IF Counted(k)' THEN now' + 1 ELSE now'
    BY <1>0, <1>1, <1>2
  <1>3. CASE \E t \in setup.threads, c \in setup.cores : Start(t, c)
    BY <1>2, <1>3, ZenonT(30) DEF Start, Counted
  <1>4. CASE \E t \in setup.threads, c \in setup.cores : Begin(t, c)
    BY <1>2, <1>4 DEF Begin, Counted, Stages
  <1>5. ASSUME NEW n \in Nat, count' = Increased("ticks", n) PROVE count'[k] = count[k]
    <2>1. "ticks" \in Counters /\ k \in Counters /\ k # "ticks"
      BY DEF Counters
    <2> QED BY <1>0, <1>5, <2>1, IncreasedFacts
  <1>6. CASE CountTicks
    <2>1. count'[k] = count[k]
      BY <1>0, <1>5, <1>6 DEF CountTicks
    <2> QED BY <1>2, <1>6, <2>1, ZenonT(30) DEF CountTicks, Counted, Stages
  <1>7. CASE End
    <2>1. count'[k] = count[k] /\ now' = now + 1
      BY <1>5, <1>7 DEF End
    <2> QED BY <1>0, <1>1, <2>1
  <1>8. CASE stage \in Stages /\ Process(stage)
    <2>1. UNCHANGED <<count, now, stage>>
      BY <1>8, StrikeFacts
    <2> QED BY <1>2, <2>1, ZenonT(30) DEF Counted
  <1>9. CASE Leave
    <2>1. now' = now /\ (Counted(k) => Counted(k)')
      BY <1>9 DEF Leave, Counted, Stages
    <2>2. count'[k] = count[k] \/ (count' = Increased(k, 1) /\ ~Counted(k) /\ Counted(k)')
      <3>1. ASSUME NEW j \in Counters, count' = Increased(j, 1), j # k PROVE count'[k] = count[k]
        BY <1>0, <3>1, IncreasedFacts
      <3>2. \/ count' = count
            \/ \E j \in Counters : count' = Increased(j, 1) /\ ~Counted(j) /\ Counted(j)'
        BY <1>9 DEF Leave, Counted, Stages, Counters
      <3> QED BY <3>1, <3>2
    <2>3. CASE count' = Increased(k, 1) /\ ~Counted(k) /\ Counted(k)'
      <3>1. count'[k][o][s] <= count[k][o][s] + 1
        <4>1. stage \in Stages
          BY <1>9 DEF Leave
        <4> QED BY <1>1, <2>3, <4>1, CountOne
      <3>2. count'[k][o][s] \in Nat
        BY <1>0, <2>3, IncreasedFacts
      <3> QED BY <1>0, <1>1, <2>1, <2>3, <3>1, <3>2
    <2> QED BY <1>2, <2>1, <2>2, <2>3
  <1>10. CASE UNCHANGED vars
    BY <1>2, <1>10 DEF vars, Counted
  <1> QED BY <1>3, <1>4, <1>6, <1>7, <1>8, <1>9, <1>10, StepKinds, ZenonT(30)

LEMMA Shaped == Spec => [](OccInv /\ Shape /\ NotAhead)
  <1>1. Init => OccInv /\ Shape /\ NotAhead
    BY OccInit, ShapeInit
  <1>2. OccInv /\ Shape /\ NotAhead /\ [Next]_vars => (OccInv /\ Shape /\ NotAhead)'
    BY OccStep, ShapeStep, NotAheadStep
  <1> QED BY <1>1, <1>2, PTL DEF Spec

---------------------------------------------------------------------------
(* TypeOK: among the rest, that a queue only ever holds faults of its own  *)
(* stage, and that a thread has a core from its activation on.             *)
THEOREM TypeCorrect == Spec => []TypeOK
  <1>1. ASSUME OccInv, Shape PROVE TypeOK
    <2>1. Shape /\ occ \in [Faults -> Int] /\ strikes \in [Faults -> Nat]
      BY <1>1 DEF OccInv
    <2>2. ASSUME NEW s \in Stages, NEW f \in Range(queue[s])
          PROVE  f \in Faults /\ file[f].stage = s
      <3>1. Own(queue[s], s)
        BY <1>1, Zenon DEF OccInv
      <3>2. PICK i \in DOMAIN queue[s] : f = queue[s][i]
        BY <2>2, Zenon DEF Range
      <3> QED BY <3>1, <3>2, OwnFacts, Zenon
    <2> QED BY <2>1, <2>2 DEF TypeOK, Shape
  <1> QED BY <1>1, Shaped, PTL

---------------------------------------------------------------------------
LEMMA TotalsInit == Init => TotalsAgree
  <1> SUFFICES ASSUME Init, NEW k \in Counters \ {"ticks"}
               PROVE  /\ \A o \in Objects :
                            count[k][o]["all"] = SumFunction([c \in Cores |-> count[k][o][c]])
                      /\ \A s \in Slots : count[k]["allthreads"][s] =
                            SumFunction([t \in Threads |-> count[k][t][s]])
    BY DEF TotalsAgree
  <1>1. \A o \in Objects, s \in Slots : count[k][o][s] = 0
    BY DEF Init
  <1>2. SumFunction([c \in Cores |-> 0]) = 0 /\ SumFunction([t \in Threads |-> 0]) = 0
    BY SumZero, InjectionAssumption
  <1>3. ASSUME NEW o \in Objects
        PROVE  count[k][o]["all"] = SumFunction([c \in Cores |-> count[k][o][c]])
    <2>1. [c \in Cores |-> count[k][o][c]] = [c \in Cores |-> 0]
      BY <1>1 DEF Slots
    <2> QED BY <1>1, <1>2, <2>1 DEF Slots
  <1>4. ASSUME NEW s \in Slots
        PROVE  count[k]["allthreads"][s] = SumFunction([t \in Threads |-> count[k][t][s]])
    <2>1. [t \in Threads |-> count[k][t][s]] = [t \in Threads |-> 0]
      BY <1>1, ZenonT(30) DEF Objects
    <2> QED BY <1>1, <1>2, <2>1 DEF Objects
  <1> QED BY <1>3, <1>4

LEMMA TotalsStep ==
    ASSUME OccInv, Shape, TotalsAgree, [Next]_vars
    PROVE  TotalsAgree'
  <1>0. /\ setup.ticks \in Nat /\ count \in [Counters -> [Objects -> [Slots -> Nat]]] /\ now \in Nat
        /\ "all" \notin Cores /\ "allthreads" \notin Threads
        /\ IsFiniteSet(Threads) /\ IsFiniteSet(Cores)
    BY InjectionAssumption DEF Shape, OccInv
  <1> SUFFICES ASSUME NEW k \in Counters \ {"ticks"}
               PROVE  /\ \A o \in Objects :
                            count'[k][o]["all"] = SumFunction([c \in Cores |-> count'[k][o][c]])
                      /\ \A s \in Slots : count'[k]["allthreads"][s] =
                            SumFunction([t \in Threads |-> count'[k][t][s]])
    BY DEF TotalsAgree
  <1>1. /\ \A o \in Objects : count[k][o]["all"] = SumFunction([c \in Cores |-> count[k][o][c]])
        /\ \A s \in Slots :
               count[k]["allthreads"][s] = SumFunction([t \in Threads |-> count[k][t][s]])
    BY DEF TotalsAgree
  <1>2. CASE count'[k] = count[k]
    BY <1>1, <1>2
  <1>3. CASE stage \in Stages /\ count' = Increased(k, 1)
    <2>0. cur.thread \in Threads /\ cur.core \in Cores
      BY <1>3 DEF Shape, Stages
    <2>1. \A o \in Objects, s \in Slots :
            /\ count[k][o][s] \in Nat
            /\ count'[k][o][s] = count[k][o][s] +
                IF o \in {cur.thread, "allthreads"} /\ s \in {"all", cur.core} THEN 1 ELSE 0
      BY <1>3, CountOne, ZenonT(30)
    <2>2. ASSUME NEW o \in Objects
          PROVE  count'[k][o]["all"] = SumFunction([c \in Cores |-> count'[k][o][c]])
      <3> DEFINE g == [c \in Cores |-> count[k][o][c]]
                 e == [c \in Cores |-> count'[k][o][c]]
                 d == IF o \in {cur.thread, "allthreads"} THEN 1 ELSE 0
      <3>1. \A c \in Cores : c \in Slots /\ c # "all"
        BY <1>0 DEF Slots
      <3>2. g \in [Cores -> Int] /\ e \in [Cores -> Int]
        BY <2>1, <3>1
      <3>3. Shifted(e, g, Cores, cur.core, d)
        BY <2>1, <3>1 DEF Shifted
      <3>4. count'[k][o]["all"] = count[k][o]["all"] + d /\ d \in Int
        BY <2>1 DEF Slots
      <3> HIDE DEF g, e, d
      <3>5. SumFunction(e) = SumFunction(g) + d
        <4>1. PICK a \in Cores : a = cur.core
          BY <2>0, ZenonT(30)
        <4>2. IsFiniteSet(Cores) /\ d \in Int /\ Shifted(e, g, Cores, a, d)
          BY <1>0, <3>3, <3>4, <4>1, ZenonT(30)
        <4> QED BY <3>2, <4>2, SumChange
      <3> QED BY <1>1, <3>4, <3>5 DEF g, e
    <2>3. ASSUME NEW s \in Slots
          PROVE  count'[k]["allthreads"][s] = SumFunction([t \in Threads |-> count'[k][t][s]])
      <3> DEFINE g == [t \in Threads |-> count[k][t][s]]
                 e == [t \in Threads |-> count'[k][t][s]]
                 d == IF s \in {"all", cur.core} THEN 1 ELSE 0
      <3>1. \A t \in Threads : t \in Objects /\ t # "allthreads"
        BY <1>0 DEF Objects
      <3>2. g \in [Threads -> Int] /\ e \in [Threads -> Int]
        BY <2>1, <3>1
      <3>3. Shifted(e, g, Threads, cur.thread, d)
        BY <2>1, <3>1 DEF Shifted
      <3>4. count'[k]["allthreads"][s] = count[k]["allthreads"][s] + d /\ d \in Int
        BY <2>1 DEF Objects
      <3> HIDE DEF g, e, d
      <3>5. SumFunction(e) = SumFunction(g) + d
        <4>1. PICK a \in Threads : a = cur.thread
          BY <2>0, ZenonT(30)
        <4>2. IsFiniteSet(Threads) /\ d \in Int /\ Shifted(e, g, Threads, a, d)
          BY <1>0, <3>3, <3>4, <4>1, ZenonT(30)
        <4> QED BY <3>2, <4>2, SumChange
      <3> QED BY <1>1, <3>4, <3>5 DEF g, e
    <2> QED BY <2>2, <2>3
  <1>4. ASSUME NEW j \in Counters, NEW n \in Nat, j # k, count' = Increased(j, n)
        PROVE  count'[k] = count[k]
    BY <1>0, <1>4, IncreasedFacts
  <1>5. CASE Leave
    <2>1. count' = count \/ \E j \in Counters : count' = Increased(j, 1) /\ stage \in Stages
      BY <1>5 DEF Leave, Counters
    <2> QED BY <1>2, <1>3, <1>4, <2>1
  <1>6. CASE CountTicks \/ End
    <2>1. "ticks" \in Counters
      BY DEF Counters
    <2>2. \E n \in Nat : count' = Increased("ticks", n)
      <3>1. 1 \in Nat /\ now + 1 \in Nat
        BY <1>0, SmallNat, PlusZero, Zenon
      <3> QED BY <1>6, <3>1, Zenon DEF CountTicks, End
    <2> QED BY <1>2, <1>4, <2>1, <2>2
  <1>7. CASE stage \in Stages /\ Process(stage)
    BY <1>2, <1>7, StrikeFacts
  <1> QED BY <1>2, <1>5, <1>6, <1>7, StepKinds, ZenonT(30) DEF Start, Begin, vars

(* TotalsAgree for every number of threads and cores and every migration:  *)
(* a thread's counter for all cores is the sum of its counters per core,   *)
(* and the counter of allthreads the sum over the threads.                 *)
THEOREM CountersAgree == Spec => []TotalsAgree
  <1>1. TotalsAgree /\ (OccInv /\ Shape /\ NotAhead) /\ [Next]_vars => TotalsAgree'
    BY TotalsStep
  <1> QED BY <1>1, TotalsInit, Shaped, PTL DEF Spec
---------------------------------------------------------------------------
(* Rescheduling leaves the queues in the order of the file's timings. *)
InOrder ==
    \A s \in Stages : \A i, j \in 1..Len(queue[s]) :
        i <= j => file[queue[s][i]].timing <= file[queue[s][j]].timing

Regular(f) == file[f].type = "Inst" /\ Unhidden(f)

(* A fault that may strike again has the timing of its next strike. *)
NextDue ==
    \A f \in Faults :
        /\ file[f].occ <= 0 => occ[f] <= 0 /\ Queued(f)
        /\ Regular(f) /\ Queued(f) => timing[f] = file[f].timing + strikes[f]

(* The strikes due when the clock shows n. *)
DueAt(f, n) ==
    IF n < file[f].timing THEN 0
    ELSE IF file[f].occ >= 1 /\ n - file[f].timing + 1 > file[f].occ THEN file[f].occ
    ELSE n - file[f].timing + 1

(* The clock of the instruction in progress, the foremost clock. *)
Owner(f) == IF file[f].thread = "all" THEN "allthreads" ELSE cur.thread
Shown(f, o) == count[Counter(file[f].stage)][o][file[f].where]
Foremost(f, m) ==
    /\ \A o \in Owners(f) : Shown(f, o) <= m
    /\ m = 0 \/ \E o \in Owners(f) : Shown(f, o) = m
Leads(f, m) == Concerns(f) /\ Shown(f, Owner(f)) = m

(* A hook that counts before it scans lags behind its clock until it has   *)
(* scanned; one that scans before it counts is ahead until it has counted; *)
(* the main hook does not count at all.                                    *)
OnTime(f) == \E m \in Nat :
    /\ Foremost(f, m)
    /\ strikes[f] \in {DueAt(f, m - 1), DueAt(f, m)}
    /\ \/ strikes[f] = DueAt(f, m)
       \/ file[f].stage \notin {"fetch", "decode"}
       \/ stage \in {"fetch", file[f].stage} /\ Leads(f, m)
    /\ \/ strikes[f] = DueAt(f, m - 1)
       \/ file[f].stage \notin {"iew", "loadstore"}
       \/ stage = file[f].stage /\ Leads(f, m)

ScheduleInv ==
    Shape /\ NotAhead /\ InOrder /\ NextDue /\ \A f \in Faults : Regular(f) => OnTime(f)

---------------------------------------------------------------------------
(* Neighbours in order, all in order. *)
LEMMA SortedOrder ==
    ASSUME setup \in Setups, NEW s \in Stages, NEW q \in Sorted(s)
    PROVE  \A i, j \in 1..Len(q) : i <= j => file[q[i]].timing <= file[q[j]].timing
  <1> DEFINE T(i) == file[q[i]].timing
             n == Len(q)
  <1>1. n \in Nat /\ \A i \in 1..n : q[i] \in Faults
    BY FilledFacts DEF Own
  <1>2. \A i \in 1..n : T(i) \in Nat
    BY <1>1, TimingFacts
  <1>3. \A i \in 2..n : T(i - 1) <= T(i)
    BY DEF Sorted
  <1> HIDE DEF T, n
  <1>4. ASSUME NEW i \in 1..n PROVE \A j \in 1..n : i <= j => T(i) <= T(j)
    <2> DEFINE S == {d \in Nat : i + d <= n => T(i) <= T(i + d)}
    <2>1. 0 \in S
      BY <1>1, <1>2
    <2>2. ASSUME NEW d \in Nat, d \in S PROVE d + 1 \in S
      <3> SUFFICES ASSUME i + (d + 1) <= n PROVE T(i) <= T(i + (d + 1))
        OBVIOUS
      <3>1. i + d \in 1..n /\ i + (d + 1) \in 2..n /\ (i + (d + 1)) - 1 = i + d
        BY <1>1
      <3>2. T(i) <= T(i + d)
        BY <2>2, <3>1
      <3>3. T(i + d) <= T(i + (d + 1))
        BY <1>3, <3>1
      <3>4. T(i) \in Nat /\ T(i + d) \in Nat /\ T(i + (d + 1)) \in Nat
        BY <1>1, <1>2, <3>1
      <3> QED BY <3>2, <3>3, <3>4
    <2> HIDE DEF S
    <2>3. \A d \in 0..n : d \in S
      BY <1>1, <2>1, <2>2, UpTo
    <2>4. ASSUME NEW j \in 1..n, i <= j PROVE T(i) <= T(j)
      <3>1. j - i \in 0..n /\ i + (j - i) = j
        BY <1>1, <2>4
      <3>2. i + (j - i) <= n => T(i) <= T(i + (j - i))
        BY <2>3, <3>1, SMTT(30) DEF S
      <3> QED BY <1>1, <3>1, <3>2
    <2> QED BY <2>4
  <1> QED BY <1>4 DEF T, n

LEMMA InOrderStep ==
    ASSUME OccInv, InOrder, [Next]_vars
    PROVE  InOrder'
  <1>1. CASE UNCHANGED <<setup, queue>>
    BY <1>1 DEF InOrder, file
  <1>2. CASE stage \in Stages /\ Process(stage)
    <2>1. PICK i \in 1..Len(queue[stage]) :
            /\ queue' = queue \/ queue' = [queue EXCEPT ![stage] = Removed(@, i)]
            /\ UNCHANGED setup
      BY <1>2, StrikeFacts, ZenonT(30)
    <2>2. CASE queue' = [queue EXCEPT ![stage] = Removed(@, i)]
      <3> DEFINE q == queue[stage]
                 r == Removed(q, i)
      <3>1. q \in Seq(Faults) /\ DOMAIN queue = Stages
        BY <1>2 DEF OccInv, Own
      <3>2. /\ Len(r) = Len(q) - 1 /\ Len(q) \in Nat
            /\ \A k \in 1..(Len(q) - 1) : r[k] = q[IF k < i THEN k ELSE k + 1]
        <4>1. Len(q) \in Nat /\ i \in 1..Len(q)
          BY <3>1
        <4> HIDE DEF q
        <4> QED BY <3>1, <4>1, RemovePositions, Zenon
      <3>3. queue'[stage] = r /\ file' = file
            /\ \A t \in Stages : t # stage => queue'[t] = queue[t]
        BY <1>2, <2>1, <2>2, <3>1, ZenonT(30) DEF file
      <3>4. \A a, b \in 1..Len(q) : a <= b => file[q[a]].timing <= file[q[b]].timing
        BY <1>2, ZenonT(30) DEF InOrder
      <3> HIDE DEF q, r
      <3>5. ASSUME NEW a \in 1..Len(r), NEW b \in 1..Len(r), a <= b
            PROVE  file[r[a]].timing <= file[r[b]].timing
        <4> DEFINE At(k) == IF k < i THEN k ELSE k + 1
        <4>1. At(a) \in 1..Len(q) /\ At(b) \in 1..Len(q) /\ At(a) <= At(b)
          BY <3>2, <3>5
        <4>2. r[a] = q[At(a)] /\ r[b] = q[At(b)]
          BY <3>2
        <4> HIDE DEF At
        <4> QED BY <3>4, <4>1, <4>2
      <3>6. ASSUME NEW t \in Stages, t # stage, NEW a \in 1..Len(queue'[t]),
                   NEW b \in 1..Len(queue'[t]), a <= b
            PROVE  file'[queue'[t][a]].timing <= file'[queue'[t][b]].timing
        BY <3>3, <3>6 DEF InOrder
      <3> QED BY <3>3, <3>5, <3>6, Zenon DEF InOrder
    <2> QED BY <1>1, <2>1, <2>2, SMTT(30)
  <1> QED BY <1>1, <1>2, StepKinds, Zenon DEF Start, Begin, CountTicks, End, Leave, vars

---------------------------------------------------------------------------
(* Whether a fault is regular depends on the file only. *)
LEMMA RegularKept ==
    ASSUME setup' = setup, NEW f \in Faults
    PROVE  Regular(f)' <=> Regular(f)
  BY DEF Regular, Unhidden, Punctual, file

LEMMA RegularFacts ==
    ASSUME OccInv, NEW f \in Faults, Regular(f)
    PROVE  /\ file[f].type = "Inst" /\ file[f].timing \in Nat /\ file[f].timing >= 1
           /\ file[f].occ \in Int /\ strikes[f] \in Nat
           /\ file[f].stage \in Stages /\ Counter(file[f].stage) \in Counters \ {"ticks"}
           /\ file[f].where \in Slots
  <1>1. setup \in Setups /\ strikes[f] \in Nat
    BY ZenonT(30) DEF OccInv
  <1>2. /\ file[f].timing \in Nat /\ file[f].occ \in Int
        /\ file[f].stage \in Stages /\ file[f].where \in Slots
    BY <1>1, FileFacts, TimingFacts, ZenonT(30)
  <1>3. Punctual(f) /\ file[f].type = "Inst"
    BY <1>2 DEF Regular, Unhidden
  <1> QED BY <1>1, <1>2, <1>3, ZenonT(30) DEF Punctual, Counter, Counters

(* Which faults an injection leaves in the queue. *)
LEMMA QueuedAfter ==
    ASSUME OccInv, NEW s \in Stages, NEW i \in 1..Len(queue[s]), NEW f \in Faults,
           f = queue[s][i], file[f].stage = s, setup' = setup,
           queue' = [queue EXCEPT ![s] = Removed(@, i)], NEW g \in Faults
    PROVE  Queued(g)' <=> Queued(g) /\ g # f
  <1> DEFINE q == queue[s]
  <1>1. Own(q, s) /\ DOMAIN queue = Stages /\ file' = file /\ file[g].stage \in Stages
    BY FileFacts, ZenonT(30) DEF OccInv, file
  <1>2. Range(Removed(q, i)) = Range(q) \ {f}
    BY <1>1, RemoveFacts, ZenonT(30) DEF Own
  <1>3. queue'[s] = Removed(q, i) /\ \A t \in Stages : t # s => queue'[t] = queue[t]
    BY <1>1
  <1> HIDE DEF q
  <1>4. CASE file[g].stage = s
    BY <1>1, <1>2, <1>3, <1>4, ZenonT(30) DEF Queued, q
  <1>5. CASE file[g].stage # s
    BY <1>1, <1>3, <1>5 DEF Queued
  <1> QED BY <1>4, <1>5, ZenonT(30)

(* The clock a fault is compared with. *)
LEMMA ClockFacts ==
    ASSUME OccInv, Shape, NotAhead, stage \in Stages, NEW f \in Faults, Regular(f)
    PROVE  /\ Clock(f, Counter(file[f].stage)) = Shown(f, Owner(f))
           /\ Owner(f) \in Objects
           /\ Shown(f, Owner(f)) \in Nat /\ Shown(f, Owner(f)) < MaxStrikes
           /\ Concerns(f) => Owner(f) \in Owners(f)
  <1>1. cur.thread \in Threads /\ now \in Nat /\ now < setup.instrs /\ setup.instrs \in Nat
    <2>1. setup \in Setups /\ setup.instrs \in Nat
      BY InjectionAssumption, Zenon DEF OccInv
    <2>2. stage # "idle"
      BY DEF Stages
    <2>3. now \in 0..setup.instrs /\ now < setup.instrs /\ cur.thread \in started
          /\ started \subseteq Threads
      BY <2>2, Zenon DEF Shape
    <2> QED BY <2>1, <2>3
  <1>2. Owner(f) \in Objects
    BY <1>1, ZenonT(30) DEF Owner, Objects
  <1>3. Counter(file[f].stage) \in Counters \ {"ticks"} /\ file[f].where \in Slots
    BY RegularFacts, ZenonT(30)
  <1>4. Shown(f, Owner(f)) \in Nat
    <2>1. count \in [Counters -> [Objects -> [Slots -> Nat]]]
      BY Zenon DEF Shape
    <2>2. count[Counter(file[f].stage)] \in [Objects -> [Slots -> Nat]]
      BY <1>3, <2>1, Zenon
    <2>3. count[Counter(file[f].stage)][Owner(f)] \in [Slots -> Nat]
      BY <1>2, <2>2, Zenon
    <2> QED BY <1>3, <2>3, Zenon DEF Shown
  <1>5. Shown(f, Owner(f)) <= now \/ Shown(f, Owner(f)) <= now + 1
    BY <1>2, <1>3 DEF NotAhead, Shown
  <1>6. Shown(f, Owner(f)) < MaxStrikes
    BY <1>1, <1>4, <1>5 DEF MaxStrikes
  <1>7. Concerns(f) => Owner(f) \in Owners(f)
    BY <1>1 DEF Concerns, Owner, Owners
  <1>8. Clock(f, Counter(file[f].stage)) = Shown(f, Owner(f))
    BY ZenonT(30) DEF Clock, Shown, Owner
  <1> QED BY <1>2, <1>4, <1>6, <1>7, <1>8, ZenonT(30)

(* What a match and a miss are for such a fault. *)
LEMMA MatchFacts ==
    ASSUME OccInv, Shape, NotAhead, stage \in Stages, NEW f \in Faults, Regular(f),
           file[f].stage = stage
    PROVE  /\ Matches(f, stage) => Concerns(f) /\ Shown(f, Owner(f)) = timing[f]
           /\ Missed(f, stage) => Concerns(f) /\ Shown(f, Owner(f)) > timing[f]
           /\ Concerns(f) /\ Shown(f, Owner(f)) # 0 /\ Shown(f, Owner(f)) = timing[f]
                  => Matches(f, stage)
  <1>1. file[f].type = "Inst" /\ Clock(f, Counter(stage)) = Shown(f, Owner(f))
    BY RegularFacts, ClockFacts
  <1>2. Reading(f, stage) = Shown(f, Owner(f))
    BY <1>1 DEF Reading
  <1> QED BY <1>1, <1>2, ZenonT(30) DEF Matches, Missed, Considered

LEMMA NextDueInit == Init => NextDue
  <1> SUFFICES ASSUME Init, NEW f \in Faults
               PROVE  /\ file[f].occ <= 0 => occ[f] <= 0 /\ Queued(f)
                      /\ timing[f] = file[f].timing + strikes[f]
    BY DEF NextDue
  <1>1. setup \in Setups /\ queue[file[f].stage] \in Sorted(file[f].stage)
        /\ file[f].stage \in Stages /\ file[f].timing \in Nat
    BY FileFacts, TimingFacts DEF Init
  <1>2. Queued(f)
    BY <1>1, FilledFacts, ZenonT(30) DEF Queued
  <1>3. timing[f] = file[f].timing /\ strikes[f] = 0 /\ occ[f] = file[f].occ
    BY Zenon DEF Init
  <1> QED BY <1>1, <1>2, <1>3, PlusZero, Zenon

LEMMA NextDueStep ==
    ASSUME OccInv, Shape, NotAhead, NextDue, [Next]_vars
    PROVE  NextDue'
  <1>1. CASE UNCHANGED <<setup, queue, timing, occ, strikes>>
    BY <1>1, RegularKept, Zenon DEF NextDue, Queued, file
  <1>2. CASE stage \in Stages /\ Process(stage)
    <2>1. PICK i \in 1..Len(queue[stage]), f \in Faults :
             /\ f = queue[stage][i] /\ file[f].stage = stage /\ Queued(f) /\ Matches(f, stage)
             /\ strikes' = [strikes EXCEPT ![f] = IF @ < MaxStrikes THEN @ + 1 ELSE @]
             /\ \/ /\ occ[f] = 1 /\ UNCHANGED <<timing, occ>>
                   /\ queue' = [queue EXCEPT ![stage] = Removed(@, i)]
                \/ /\ occ[f] # 1 /\ UNCHANGED queue
                   /\ timing' = [timing EXCEPT ![f] = Rescheduled(f)]
                   /\ occ' = [occ EXCEPT ![f] = IF @ = -2 THEN -1 ELSE @ - 1]
             /\ UNCHANGED setup
      BY <1>2, StrikeFacts, ZenonT(60)
    <2>2. file' = file /\ occ \in [Faults -> Int] /\ strikes \in [Faults -> Nat]
          /\ timing \in [Faults -> Nat] /\ \A g \in Faults : file[g].occ \in Int
      BY <2>1, FileFacts, ZenonT(30) DEF file, OccInv, Shape
    <2> SUFFICES ASSUME NEW g \in Faults
                 PROVE  /\ file[g].occ <= 0 => occ'[g] <= 0 /\ Queued(g)'
                        /\ Regular(g)' /\ Queued(g)' => timing'[g] = file[g].timing + strikes'[g]
      BY <2>2, Zenon DEF NextDue
    <2>3. /\ file[g].occ <= 0 => occ[g] <= 0 /\ Queued(g)
          /\ Regular(g) /\ Queued(g) => timing[g] = file[g].timing + strikes[g]
      BY SMTT(30) DEF NextDue
    <2>4. Regular(g)' <=> Regular(g)
      BY <2>1, RegularKept, ZenonT(60)
    <2>5. Queued(g)' => Queued(g)
      BY <1>2, <2>1, <2>2, QueuedAfter, ZenonT(30) DEF Queued
    <2>6. CASE g # f
      <3>1. occ'[g] = occ[g] /\ strikes'[g] = strikes[g] /\ timing'[g] = timing[g]
        BY <2>1, <2>2, <2>6, ZenonT(30)
      <3>2. Queued(g)' <=> Queued(g)
        BY <1>2, <2>1, <2>2, <2>6, QueuedAfter, ZenonT(30) DEF Queued
      <3> QED BY <2>3, <2>4, <3>1, <3>2, ZenonT(30)
    <2>7. CASE g = f
      <3>1. CASE occ[f] = 1
        <4>1. ~Queued(g)'
          BY <1>2, <2>1, <2>7, <3>1, QueuedAfter, ZenonT(30)
        <4> QED BY <2>3, <2>7, <3>1, <4>1, SmallNat, Zenon
      <3>2. CASE occ[f] # 1
        <4>1. queue' = queue /\ timing'[f] = Rescheduled(f)
              /\ occ'[f] = IF occ[f] = -2 THEN -1 ELSE occ[f] - 1
          BY <2>1, <2>2, <3>2, ZenonT(30)
        <4>2. ASSUME file[g].occ <= 0 PROVE occ'[g] <= 0 /\ Queued(g)'
          <5>1. occ[f] <= 0 /\ occ[f] \in Int /\ Queued(g)
            BY <2>2, <2>3, <2>7, <4>2, Zenon
          <5>2. (IF occ[f] = -2 THEN -1 ELSE occ[f] - 1) <= 0
            BY <5>1, StaysSpent, Zenon
          <5>3. Queued(g)'
            BY <2>2, <4>1, <5>1, Zenon DEF Queued
          <5> QED BY <2>7, <4>1, <5>2, <5>3, Zenon
        <4>3. ASSUME Regular(f) PROVE timing'[f] = file[f].timing + strikes'[f]
          <5>1. timing[f] = file[f].timing + strikes[f]
            BY <2>1, <2>3, <2>7, <4>3, ZenonT(30)
          <5>2. strikes[f] < MaxStrikes /\ MaxStrikes \in Nat
            <6>1. Shown(f, Owner(f)) = timing[f] /\ Shown(f, Owner(f)) < MaxStrikes
              BY <1>2, <2>1, <4>3, MatchFacts, ClockFacts, ZenonT(30)
            <6>2. MaxStrikes \in Nat /\ file[f].timing \in Nat /\ strikes[f] \in Nat
              BY <4>3, FileFacts, RegularFacts, ZenonT(30) DEF OccInv
            <6> QED BY <5>1, <6>1, <6>2, SMTT(30)
          <5>3. strikes'[f] = strikes[f] + 1
            BY <2>1, <2>2, <5>2
          <5>4. Rescheduled(f) = timing[f] + 1
            BY <4>3, RegularFacts, ZenonT(30) DEF Rescheduled
          <5>5. file[f].timing \in Nat /\ strikes[f] \in Nat
            BY <4>3, RegularFacts
          <5>6. timing[f] \in Nat
            BY <2>2, Zenon
          <5>7. timing[f] + 1 = file[f].timing + (strikes[f] + 1)
            BY <5>1, <5>5, <5>6, RiseTogether, Zenon
          <5> QED BY <4>1, <5>3, <5>4, <5>7, Zenon
        <4> QED BY <2>4, <2>7, <4>2, <4>3, ZenonT(30)
      <3> QED BY <3>1, <3>2, ZenonT(30)
    <2> QED BY <2>6, <2>7, ZenonT(60)
  <1> QED BY <1>1, <1>2, StepKinds, ZenonT(30) DEF Start, Begin, CountTicks, End, Leave, vars

---------------------------------------------------------------------------
(* A queued fault has strikes left. *)
LEMMA RoomFacts ==
    ASSUME OccInv, NextDue, NEW f \in Faults
    PROVE  Queued(f) <=> file[f].occ <= 0 \/ strikes[f] < file[f].occ
  <1>1. file[f].occ \in Int /\ occ[f] \in Int /\ strikes[f] \in Nat
    BY FileFacts DEF OccInv
  <1>2. CASE file[f].occ <= 0
    BY <1>2, ZenonT(30) DEF NextDue
  <1>3. CASE file[f].occ >= 1
    <2>1. Balance(f)
      BY <1>3 DEF OccInv
    <2> QED BY <1>1, <1>3, <2>1 DEF Balance, Queued
  <1> QED BY <1>1, <1>2, <1>3

(* It is due no earlier than the foremost clock shows: no clock has gone   *)
(* past it.                                                                *)
LEMMA NotLate ==
    ASSUME OccInv, NextDue, NEW f \in Faults, Regular(f), Queued(f), NEW m \in Nat,
           strikes[f] \in {DueAt(f, m - 1), DueAt(f, m)}
    PROVE  timing[f] >= m
  <1>1. /\ file[f].timing \in Nat /\ file[f].timing >= 1
        /\ file[f].occ \in Int /\ strikes[f] \in Nat
    BY RegularFacts, ZenonT(30)
  <1>2. file[f].occ <= 0 \/ strikes[f] < file[f].occ
    BY RoomFacts
  <1>3. timing[f] = file[f].timing + strikes[f]
    BY ZenonT(30) DEF NextDue
  <1>4. \/ strikes[f] = DueBy(file[f].timing, file[f].occ, m - 1)
        \/ strikes[f] = DueBy(file[f].timing, file[f].occ, m)
    BY Zenon DEF DueAt, DueBy
  <1>5. file[f].timing + strikes[f] >= m
    BY <1>1, <1>2, <1>4, DueNotLate, Zenon
  <1> QED BY <1>3, <1>5, Zenon

(* When the thread that leads has been scanned and scan finds the fault no *)
(* more, its strikes are those due; when scan finds it, it lacks one.      *)
LEMMA Settled ==
    ASSUME OccInv, Shape, NotAhead, NextDue, stage \in Stages,
           NEW f \in Faults, Regular(f), file[f].stage = stage,
           NEW m \in Nat, Leads(f, m), strikes[f] \in {DueAt(f, m - 1), DueAt(f, m)}
    PROVE  /\ Queued(f) /\ Matches(f, stage) =>
                strikes[f] = DueAt(f, m - 1) /\ strikes[f] + 1 = DueAt(f, m)
           /\ ~(Queued(f) /\ Matches(f, stage)) => strikes[f] = DueAt(f, m)
  <1>1. /\ file[f].timing \in Nat /\ file[f].timing >= 1
        /\ file[f].occ \in Int /\ strikes[f] \in Nat
    BY RegularFacts, ZenonT(30)
  <1>2. Queued(f) <=> file[f].occ <= 0 \/ strikes[f] < file[f].occ
    BY RoomFacts
  <1>3. Queued(f) => timing[f] = file[f].timing + strikes[f]
    BY ZenonT(30) DEF NextDue
  <1>4. /\ Matches(f, stage) => m = timing[f]
        /\ m # 0 /\ m = timing[f] => Matches(f, stage)
    BY MatchFacts, ZenonT(30) DEF Leads
  <1> DEFINE T == file[f].timing
             n == file[f].occ
             x == strikes[f]
             D == DueBy(T, n, m)
             E == DueBy(T, n, m - 1)
  <1>5. DueAt(f, m) = D /\ DueAt(f, m - 1) = E
    BY Zenon DEF DueAt, DueBy
  <1>6. (x = E \/ x = D) /\ T \in Nat /\ T >= 1 /\ n \in Int /\ x \in Nat
    BY <1>1, <1>5, Zenon
  <1>7. ASSUME Queued(f), Matches(f, stage) PROVE x = E /\ x + 1 = D
    <2>1. (n <= 0 \/ x < n) /\ m = T + x
      BY <1>2, <1>3, <1>4, <1>7, Zenon
    <2>2. LacksOne(T, n, x, m)
      BY <1>6, <2>1, DueNow, Zenon
    <2> QED BY <2>2, Zenon DEF LacksOne
  <1>8. ASSUME x # D PROVE Queued(f) /\ Matches(f, stage)
    <2>1. (n <= 0 \/ x < n) /\ m = T + x /\ m # 0
      BY <1>6, <1>8, DueLacks, Zenon
    <2> QED BY <1>2, <1>3, <1>4, <2>1, Zenon
  <1> HIDE DEF D, E
  <1> QED BY <1>5, <1>7, <1>8, ZenonT(30)

(* No regular fault is missed. *)
LEMMA NeverMissed ==
    ASSUME OccInv, Shape, NotAhead, NextDue, stage \in Stages,
           NEW f \in Faults, Regular(f), file[f].stage = stage, Queued(f), OnTime(f)
    PROVE  ~Missed(f, stage)
  <1> SUFFICES ASSUME Missed(f, stage) PROVE FALSE
    BY ZenonT(30)
  <1>1. PICK m \in Nat : Foremost(f, m) /\ strikes[f] \in {DueAt(f, m - 1), DueAt(f, m)}
    BY ZenonT(30) DEF OnTime
  <1>2. timing[f] >= m
    BY <1>1, NotLate, SMTT(30)
  <1>3. Concerns(f) /\ Shown(f, Owner(f)) > timing[f]
    BY MatchFacts, ZenonT(30)
  <1>4. Shown(f, Owner(f)) <= m /\ Shown(f, Owner(f)) \in Nat
    BY <1>1, <1>3, ClockFacts, Zenon DEF Foremost
  <1>5. timing[f] \in Nat
    BY ZenonT(30) DEF Shape
  <1> QED BY <1>2, <1>3, <1>4, <1>5, Overtaken, Zenon

(* scan returns NULL only when no unhidden fault matches. *)
LEMMA NoneFound ==
    ASSUME OccInv, ScheduleInv, stage \in Stages, Found(stage) = {},
           NEW f \in Faults, Unhidden(f), file[f].stage = stage, Queued(f)
    PROVE  ~Matches(f, stage)
  <1> SUFFICES ASSUME Matches(f, stage) PROVE FALSE
    BY ZenonT(30)
  <1> DEFINE q == queue[stage]
             S == {i \in 1..Len(q) : Matches(q[i], stage)}
  <1>1. Own(q, stage) /\ Len(q) \in Nat /\ DOMAIN q = 1..Len(q)
    BY SMTT(30) DEF OccInv, Own
  <1>2. PICK a \in 1..Len(q) : q[a] = f
    BY <1>1, ZenonT(30) DEF Queued, Range
  <1>3. S \in SUBSET Nat /\ a \in S
    BY <1>2, PositionNat, Zenon
  <1>4. PICK i \in S : \A k \in S : i <= k
    BY <1>3, NatMin, Zenon
  <1>5. i \in 1..Len(q) /\ Matches(q[i], stage) /\ i <= a
    BY <1>3, <1>4, ZenonT(30)
  <1>6. PICK j \in 1..(i - 1) : Matches(q[j], stage) \/ Missed(q[j], stage)
    BY <1>1, <1>5, ZenonT(30) DEF Found
  <1>7. j \in 1..Len(q) /\ j <= a /\ ~(i <= j)
    BY <1>1, <1>2, <1>5, EarlierPosition, Zenon
  <1>8. Missed(q[j], stage)
    <2>1. j \notin S
      BY <1>4, <1>7, Zenon
    <2> QED BY <1>6, <1>7, <2>1, ZenonT(30)
  <1>9. file[q[j]].timing <= file[f].timing
    BY <1>2, <1>7, ZenonT(30) DEF ScheduleInv, InOrder
  <1>10. PICK g \in Faults : g = q[j]
    BY <1>1, <1>7, OwnFacts, Zenon
  <1>11. file[g].stage = stage /\ Queued(g)
    BY <1>1, <1>7, <1>10, Zenon DEF Own, Queued, Range
  <1>12. Unhidden(g) /\ Punctual(g)
    <2>1. \A h \in Faults : file[h].timing \in Nat
      BY TimingFacts, ZenonT(30) DEF OccInv
    <2>2. \A h \in Faults : file[h].timing <= file[g].timing => file[h].timing <= file[f].timing
      BY <1>9, <1>10, <2>1, SMTT(30)
    <2> QED BY <1>9, <1>10, <1>11, <2>1, <2>2, ZenonT(30) DEF Unhidden
  <1>13. Regular(g)
    BY <1>8, <1>10, <1>12, ZenonT(30) DEF Regular, Punctual, Missed
  <1>14. ~Missed(g, stage)
    BY <1>11, <1>13, NeverMissed, ZenonT(30) DEF ScheduleInv
  <1> QED BY <1>8, <1>10, <1>14, ZenonT(30)

---------------------------------------------------------------------------
(* A step that neither moves the clocks of a fault nor strikes it, and     *)
(* does not leave the stages in which it may be out of step.               *)
LEMMA OnTimeQuiet ==
    ASSUME NEW f \in Faults, OnTime(f), setup' = setup, strikes'[f] = strikes[f],
           count'[Counter(file[f].stage)] = count[Counter(file[f].stage)],
           \/ UNCHANGED <<stage, cur>>
           \/ UNCHANGED cur /\ stage = "fetch" /\ stage' = "decode" /\ file[f].stage = "decode"
           \/ /\ file[f].stage \in {"fetch", "decode"} => stage \notin {"fetch", file[f].stage}
              /\ file[f].stage \in {"iew", "loadstore"} => stage # file[f].stage
    PROVE  OnTime(f)'
  <1>1. file' = file /\ Owners(f)' = Owners(f)
    BY ZenonT(30) DEF file, Owners
  <1>2. \A n : DueAt(f, n)' = DueAt(f, n)
    BY <1>1, ZenonT(30) DEF DueAt
  <1>3. \A o : Shown(f, o)' = Shown(f, o)
    BY <1>1, SMTT(30) DEF Shown
  <1>4. PICK m \in Nat :
          /\ Foremost(f, m)
          /\ strikes[f] \in {DueAt(f, m - 1), DueAt(f, m)}
          /\ \/ strikes[f] = DueAt(f, m)
             \/ file[f].stage \notin {"fetch", "decode"}
             \/ stage \in {"fetch", file[f].stage} /\ Leads(f, m)
          /\ \/ strikes[f] = DueAt(f, m - 1)
             \/ file[f].stage \notin {"iew", "loadstore"}
             \/ stage = file[f].stage /\ Leads(f, m)
    BY ZenonT(30) DEF OnTime
  <1>5. Foremost(f, m)'
    BY <1>1, <1>3, <1>4, ZenonT(30) DEF Foremost
  <1>6. UNCHANGED cur /\ Leads(f, m) => Leads(f, m)'
    BY <1>1, <1>3, ZenonT(30) DEF Leads, Concerns, Owner, Shown
  <1>7. /\ strikes'[f] \in {DueAt(f, m - 1)', DueAt(f, m)'}
        /\ \/ strikes'[f] = DueAt(f, m)'
           \/ file'[f].stage \notin {"fetch", "decode"}
           \/ stage' \in {"fetch", file'[f].stage} /\ Leads(f, m)'
        /\ \/ strikes'[f] = DueAt(f, m - 1)'
           \/ file'[f].stage \notin {"iew", "loadstore"}
           \/ stage' = file'[f].stage /\ Leads(f, m)'
    BY <1>1, <1>2, <1>4, <1>6, ZenonT(30)
  <1> QED BY <1>5, <1>7, ZenonT(30) DEF OnTime

(* The hooks of the fetch and decode stages end with every strike done. *)
LEMMA OnTimeSettle ==
    ASSUME OccInv, ScheduleInv, stage \in {"fetch", "decode"}, Found(stage) = {},
           NEW f \in Faults, Regular(f), file[f].stage = stage,
           UNCHANGED <<setup, strikes, count>>
    PROVE  OnTime(f)'
  <1>1. file' = file /\ Owners(f)' = Owners(f)
    BY ZenonT(30) DEF file, Owners
  <1>2. \A n : DueAt(f, n)' = DueAt(f, n)
    BY <1>1, Zenon DEF DueAt
  <1>3. stage \in Stages /\ Shape /\ NotAhead /\ NextDue /\ OnTime(f)
    BY ZenonT(30) DEF ScheduleInv, Stages
  <1>4. PICK m \in Nat :
          /\ Foremost(f, m)
          /\ strikes[f] \in {DueAt(f, m - 1), DueAt(f, m)}
          /\ \/ strikes[f] = DueAt(f, m)
             \/ file[f].stage \notin {"fetch", "decode"}
             \/ stage \in {"fetch", file[f].stage} /\ Leads(f, m)
    BY <1>3, ZenonT(30) DEF OnTime
  <1>5. ~(Queued(f) /\ Matches(f, stage))
    BY <1>3, NoneFound, SMTT(30) DEF Regular
  <1>6. strikes[f] = DueAt(f, m)
    BY <1>3, <1>4, <1>5, Settled, ZenonT(30)
  <1>7. Foremost(f, m)'
    BY <1>1, <1>4, Zenon DEF Foremost, Shown
  <1> QED BY <1>1, <1>2, <1>6, <1>7, ZenonT(30) DEF OnTime

(* Counting an instruction moves the clock of the faults it concerns. *)
LEMMA ClockMoves ==
    ASSUME OccInv, Shape, NotAhead, stage \in Stages, NEW f \in Faults, Regular(f),
           UNCHANGED <<setup, cur>>, count' = Increased(Counter(file[f].stage), 1)
    PROVE  \A o \in Owners(f) :
             /\ Shown(f, o) \in Nat
             /\ Shown(f, o)' = IF Concerns(f) /\ o = Owner(f) THEN Shown(f, o) + 1
                               ELSE Shown(f, o)
  <1> DEFINE k == Counter(file[f].stage)
             w == file[f].where
  <1>1. k \in Counters /\ k # "ticks" /\ w \in Slots /\ 1 \in Nat
    BY RegularFacts, SMTT(30)
  <1>2. setup.ticks \in Nat /\ count \in [Counters -> [Objects -> [Slots -> Nat]]]
        /\ "all" \notin Cores /\ "allthreads" \notin Threads
    BY InjectionAssumption, Zenon DEF OccInv, Shape
  <1>3. /\ cur.thread \in Threads /\ cur.core \in Cores
        /\ cur.core \in known[cur.thread] /\ cur.core \in known["allthreads"]
    BY DEF Shape, Stages
  <1> TAKE o \in Owners(f)
  <1>4. o \in Objects
    BY DEF Owners, Objects
  <1>5. Shown(f, o) \in Nat
    BY <1>1, <1>2, <1>4 DEF Shown
  <1>6. Shown(f, o)' = count'[k][o][w]
    BY ZenonT(30) DEF Shown, file
  <1> HIDE DEF k, w
  <1>7. Increased(k, 1)[k][o][w] =
            IF o \in {cur.thread, "allthreads"} /\ (w = "all" \/ (w = cur.core /\ w \in known[o]))
            THEN count[k][o][w] + 1 ELSE count[k][o][w]
    BY <1>1, <1>2, <1>4, IncreasedFacts, SMTT(30)
  <1>8. Concerns(f) /\ o = Owner(f) <=>
            o \in {cur.thread, "allthreads"} /\ (w = "all" \/ (w = cur.core /\ w \in known[o]))
    <2>1. CASE file[f].thread = "all"
      <3>1. o = "allthreads" /\ Owner(f) = "allthreads"
        BY <2>1, ZenonT(30) DEF Owners, Owner
      <3> QED BY <1>3, <2>1, <3>1, ZenonT(30) DEF Concerns, w
    <2>2. CASE file[f].thread # "all"
      <3>1. o \in Threads /\ ThreadId[o] = file[f].thread /\ Owner(f) = cur.thread
        BY <2>2, ZenonT(30) DEF Owners, Owner
      <3> QED BY <1>2, <1>3, <2>2, <3>1, ZenonT(30) DEF Concerns, w
    <2> QED BY <2>1, <2>2, ZenonT(30)
  <1>9. count'[k][o][w] = Increased(k, 1)[k][o][w] /\ Shown(f, o) = count[k][o][w]
    BY SMTT(30) DEF k, w, Shown
  <1>10. Shown(f, o)' = IF Concerns(f) /\ o = Owner(f) THEN Shown(f, o) + 1 ELSE Shown(f, o)
    BY <1>6, <1>7, <1>8, <1>9, Zenon
  <1> QED BY <1>5, <1>10, ZenonT(30)

LEMMA ForemostMoves ==
    ASSUME OccInv, Shape, NotAhead, stage \in Stages, NEW f \in Faults, Regular(f),
           UNCHANGED <<setup, cur>>, count' = Increased(Counter(file[f].stage), 1),
           NEW m \in Nat, Foremost(f, m)
    PROVE  /\ Leads(f, m) => Foremost(f, m + 1)' /\ Leads(f, m + 1)'
           /\ ~Leads(f, m) => Foremost(f, m)'
  <1>1. Owners(f)' = Owners(f) /\ (Concerns(f)' <=> Concerns(f)) /\ Owner(f)' = Owner(f)
    BY DEF Owners, Concerns, Owner, file
  <1>2. \A o \in Owners(f) :
             /\ Shown(f, o) \in Nat
             /\ Shown(f, o)' = IF Concerns(f) /\ o = Owner(f) THEN Shown(f, o) + 1
                               ELSE Shown(f, o)
    BY ClockMoves
  <1>3. Concerns(f) => Owner(f) \in Owners(f)
    BY ClockFacts
  <1>4. /\ \A o \in Owners(f) : Shown(f, o) <= m
        /\ m = 0 \/ \E o \in Owners(f) : Shown(f, o) = m
    BY DEF Foremost
  <1>5. ASSUME Leads(f, m) PROVE Foremost(f, m + 1)' /\ Leads(f, m + 1)'
    <2>1. Concerns(f) /\ Shown(f, Owner(f)) = m /\ Owner(f) \in Owners(f)
      BY <1>3, <1>5 DEF Leads
    <2>2. PICK o \in Owners(f) : o = Owner(f)
      BY <2>1
    <2>3. Shown(f, o)' = m + 1
      BY <1>2, <2>1, <2>2, ZenonT(30)
    <2>4. \A p \in Owners(f) : Shown(f, p)' <= m + 1
      BY <1>2, <1>4, StillBelow, Zenon
    <2>5. Shown(f, Owner(f))' = m + 1
      BY <1>1, <2>2, <2>3, ZenonT(30) DEF Shown
    <2> QED BY <1>1, <2>1, <2>2, <2>3, <2>4, <2>5, ZenonT(30) DEF Foremost, Leads
  <1>6. ASSUME ~Leads(f, m) PROVE Foremost(f, m)'
    <2>1. \A o \in Owners(f) : Concerns(f) /\ o = Owner(f) => Shown(f, o) # m
      BY <1>6 DEF Leads
    <2>2. \A o \in Owners(f) : Shown(f, o)' <= m
      BY <1>2, <1>4, <2>1
    <2>3. \A o \in Owners(f) : Shown(f, o) = m => Shown(f, o)' = m
      BY <1>2, <2>1, ZenonT(30)
    <2> QED BY <1>1, <1>4, <2>2, <2>3, ZenonT(30) DEF Foremost
  <1> QED BY <1>5, <1>6, ZenonT(30)

(* A hook that counts: main_fault's successor before it scans, iew_fault   *)
(* and lds_fault after they have.                                          *)
LEMMA OnTimeCount ==
    ASSUME OccInv, ScheduleInv, Found(stage) = {}, NEW f \in Faults, Regular(f),
           \/ stage = "main" /\ stage' = "fetch" /\ file[f].stage \in {"main", "fetch", "decode"}
           \/ stage \in {"iew", "loadstore"} /\ file[f].stage = stage,
           UNCHANGED <<setup, cur, strikes>>, count' = Increased(Counter(file[f].stage), 1)
    PROVE  OnTime(f)'
  <1>1. file' = file /\ \A n : DueAt(f, n)' = DueAt(f, n)
    BY ZenonT(30) DEF file, DueAt
  <1>2. stage \in Stages /\ Shape /\ NotAhead /\ NextDue /\ OnTime(f)
    BY SMTT(30) DEF ScheduleInv, Stages
  <1>3. PICK m \in Nat :
          /\ Foremost(f, m)
          /\ strikes[f] \in {DueAt(f, m - 1), DueAt(f, m)}
          /\ \/ strikes[f] = DueAt(f, m)
             \/ file[f].stage \notin {"fetch", "decode"}
             \/ stage \in {"fetch", file[f].stage} /\ Leads(f, m)
          /\ \/ strikes[f] = DueAt(f, m - 1)
             \/ file[f].stage \notin {"iew", "loadstore"}
             \/ stage = file[f].stage /\ Leads(f, m)
    BY <1>2, ZenonT(30) DEF OnTime
  <1>4. CASE Leads(f, m)
    <2>1. strikes[f] = DueAt(f, m)
      <3>1. CASE file[f].stage = stage
        <4>1. ~(Queued(f) /\ Matches(f, stage))
          BY <1>2, <3>1, NoneFound, ZenonT(30) DEF Regular
        <4> QED BY <1>2, <1>3, <1>4, <3>1, <4>1, Settled, ZenonT(30)
      <3>2. CASE file[f].stage # stage
        BY <1>3, <3>2, ZenonT(30)
      <3> QED BY <3>1, <3>2, ZenonT(30)
    <2>2. Foremost(f, m + 1)' /\ Leads(f, m + 1)'
      BY <1>2, <1>3, <1>4, ForemostMoves, ZenonT(30)
    <2>3. m + 1 \in Nat /\ (m + 1) - 1 = m
      BY SMTT(30)
    <2>4. PICK n \in Nat : n = m + 1 /\ n - 1 = m
      BY <2>3, ZenonT(30)
    <2>5. Foremost(f, n)' /\ Leads(f, n)' /\ strikes'[f] = DueAt(f, n - 1)'
      BY <1>1, <2>1, <2>2, <2>4, ZenonT(30)
    <2>6. file'[f].stage \in {"fetch", "decode"} => stage' = "fetch"
      BY <1>1, ZenonT(30)
    <2> QED BY <2>5, <2>6, ZenonT(30) DEF OnTime
  <1>5. CASE ~Leads(f, m)
    <2>1. Foremost(f, m)'
      BY <1>2, <1>3, <1>5, ForemostMoves, ZenonT(30)
    <2>2. /\ strikes'[f] \in {DueAt(f, m - 1)', DueAt(f, m)'}
          /\ strikes'[f] = DueAt(f, m)' \/ file'[f].stage \notin {"fetch", "decode"}
          /\ strikes'[f] = DueAt(f, m - 1)' \/ file'[f].stage \notin {"iew", "loadstore"}
      BY <1>1, <1>3, <1>5, ZenonT(30)
    <2> QED BY <2>1, <2>2, SMTT(30) DEF OnTime
  <1> QED BY <1>4, <1>5, ZenonT(30)

(* An injection strikes a regular fault when the clock that leads shows    *)
(* the timing of its next strike.                                          *)
LEMMA OnTimeStrike ==
    ASSUME OccInv, ScheduleInv, stage \in Stages, NEW f \in Faults, Regular(f),
           file[f].stage = stage, Queued(f), Matches(f, stage),
           strikes' = [strikes EXCEPT ![f] = IF @ < MaxStrikes THEN @ + 1 ELSE @],
           UNCHANGED <<setup, count, cur, stage>>
    PROVE  OnTime(f)'
  <1>1. file' = file /\ \A n : DueAt(f, n)' = DueAt(f, n)
    BY Zenon DEF file, DueAt
  <1>2. Shape /\ NotAhead /\ NextDue /\ OnTime(f)
    BY SMTT(30) DEF ScheduleInv
  <1>3. PICK m \in Nat : Foremost(f, m) /\ strikes[f] \in {DueAt(f, m - 1), DueAt(f, m)}
    BY <1>2, ZenonT(30) DEF OnTime
  <1>4. Concerns(f) /\ Shown(f, Owner(f)) = timing[f]
    BY <1>2, MatchFacts, ZenonT(30)
  <1>5. Shown(f, Owner(f)) <= m /\ Shown(f, Owner(f)) \in Nat /\ Shown(f, Owner(f)) < MaxStrikes
    BY <1>2, <1>3, <1>4, ClockFacts, ZenonT(30) DEF Foremost
  <1>6. timing[f] >= m
    BY <1>2, <1>3, NotLate, ZenonT(30)
  <1>7. Leads(f, m)
    <2>1. Shown(f, Owner(f)) >= m
      BY <1>4, <1>6, Zenon
    <2>2. Shown(f, Owner(f)) = m
      BY <1>5, <2>1, Squeezed, Zenon
    <2> QED BY <1>4, <2>2, Zenon DEF Leads
  <1>8. strikes[f] + 1 = DueAt(f, m)
    BY <1>2, <1>3, <1>7, Settled, ZenonT(30)
  <1>9. strikes'[f] = strikes[f] + 1
    <2>1. timing[f] = file[f].timing + strikes[f]
      BY <1>2, ZenonT(60) DEF NextDue
    <2>2. file[f].timing \in Nat /\ strikes[f] \in Nat /\ MaxStrikes \in Nat
      BY RegularFacts, FileFacts, ZenonT(30) DEF OccInv
    <2>3. strikes[f] < MaxStrikes
      <3>1. file[f].timing + strikes[f] < MaxStrikes
        BY <1>4, <1>5, <2>1, Zenon
      <3> QED BY <2>2, <3>1, SummandBelow, Zenon
    <2> QED BY <2>3, ZenonT(30) DEF OccInv
  <1>10. Foremost(f, m)' /\ Leads(f, m)' /\ stage' = file'[f].stage
    BY <1>1, <1>3, <1>7, ZenonT(30) DEF Foremost, Leads, Owners, Shown, Concerns, Owner
  <1> QED BY <1>1, <1>8, <1>9, <1>10, ZenonT(30) DEF OnTime

LEMMA OnTimeStep ==
    ASSUME OccInv, ScheduleInv, [Next]_vars, NEW f \in Faults, Regular(f)
    PROVE  OnTime(f)'
  <1>0. /\ OnTime(f) /\ file[f].stage \in Stages /\ Counter(file[f].stage) \in Counters \ {"ticks"}
        /\ setup.ticks \in Nat /\ count \in [Counters -> [Objects -> [Slots -> Nat]]] /\ now \in Nat
    <2>1. setup \in Setups /\ setup.instrs \in Nat /\ setup.ticks \in Nat
      BY InjectionAssumption, Zenon DEF OccInv
    <2>2. file[f].stage \in Stages /\ Counter(file[f].stage) \in Counters \ {"ticks"}
      BY RegularFacts, Zenon
    <2>3. /\ OnTime(f) /\ count \in [Counters -> [Objects -> [Slots -> Nat]]]
          /\ now \in 0..setup.instrs
      BY Zenon DEF ScheduleInv, Shape
    <2>4. now \in Nat
      BY <2>1, <2>3
    <2> QED BY <2>1, <2>2, <2>3, <2>4, Zenon
  <1> DEFINE k == Counter(file[f].stage)
  <1>1. ASSUME NEW n \in Nat, count' = Increased("ticks", n) PROVE count'[k] = count[k]
    <2>1. "ticks" \in Counters /\ k \in Counters /\ k # "ticks"
      BY <1>0, ZenonT(30) DEF Counters
    <2>2. \A j \in Counters : j # "ticks" => Increased("ticks", n)[j] = count[j]
      BY <1>0, <2>1, IncreasedFacts
    <2> QED BY <1>1, <2>1, <2>2
  <1>2. CASE \E t \in setup.threads, c \in setup.cores : Start(t, c)
    BY <1>0, <1>2, OnTimeQuiet, ZenonT(30) DEF Start
  <1>3. CASE \E t \in setup.threads, c \in setup.cores : Begin(t, c)
    <2>1. stage \notin Stages /\ UNCHANGED <<setup, strikes, count>>
      BY <1>3, SMTT(30) DEF Begin, Stages
    <2> QED BY <1>0, <2>1, OnTimeQuiet, ZenonT(30) DEF Stages
  <1>4. CASE CountTicks \/ End
    <2>1. stage \notin Stages /\ UNCHANGED <<setup, strikes>> /\ count'[k] = count[k]
      BY <1>0, <1>1, <1>4 DEF CountTicks, End, Stages
    <2> QED BY <1>0, <2>1, OnTimeQuiet, ZenonT(30) DEF Stages
  <1>5. CASE stage \in Stages /\ Process(stage)
    <2>1. PICK g \in Faults :
             /\ file[g].stage = stage /\ Queued(g) /\ Matches(g, stage)
             /\ strikes' = [strikes EXCEPT ![g] = IF @ < MaxStrikes THEN @ + 1 ELSE @]
             /\ UNCHANGED <<setup, count, cur, stage>>
      BY <1>5, StrikeFacts, Zenon
    <2>2. CASE g = f
      BY <1>5, <2>1, <2>2, OnTimeStrike, ZenonT(30)
    <2>3. CASE g # f
      <3>1. strikes'[f] = strikes[f]
        BY <2>1, <2>3, Zenon DEF OccInv
      <3> QED BY <1>0, <2>1, <3>1, OnTimeQuiet, Zenon
    <2> QED BY <2>2, <2>3, SMTT(30)
  <1>6. CASE Leave
    <2>0. stage \in Stages /\ Found(stage) = {} /\ UNCHANGED <<setup, cur, strikes>>
      BY <1>6, ZenonT(30) DEF Leave
    <2>1. ASSUME NEW j \in Counters, count' = Increased(j, 1), j # k PROVE count'[k] = count[k]
      <3>1. k \in Counters
        BY <1>0, Zenon
      <3>2. Increased(j, 1)[k] = count[k]
        BY <1>0, <2>1, <3>1, SmallNat, OthersKept, Zenon
      <3> QED BY <2>1, <3>2, Zenon
    <2>2. CASE stage = "main" /\ stage' = "end" /\ count' = count
      BY <1>0, <2>0, <2>2, OnTimeQuiet, ZenonT(30) DEF Stages
    <2>3. CASE stage = "main" /\ stage' = "fetch" /\ count' = Increased("fetched", 1)
      <3>1. CASE file[f].stage \in {"main", "fetch", "decode"}
        <4>1. Counter(file[f].stage) = "fetched"
          BY <3>1, ZenonT(30) DEF Counter
        <4> QED BY <2>0, <2>3, <3>1, <4>1, OnTimeCount, ZenonT(30)
      <3>2. CASE file[f].stage \in {"iew", "loadstore"}
        <4>1. k # "fetched" /\ "fetched" \in Counters
          BY <3>2, ZenonT(30) DEF Counter, Counters
        <4>2. count'[k] = count[k]
          BY <2>1, <2>3, <4>1, ZenonT(30)
        <4> QED BY <1>0, <2>0, <2>3, <3>2, <4>2, OnTimeQuiet, ZenonT(30)
      <3> QED BY <1>0, <3>1, <3>2, ZenonT(30) DEF Stages
    <2>4. CASE stage = "fetch" /\ stage' = "decode" /\ count' = count
      <3>1. CASE file[f].stage = "fetch"
        BY <2>0, <2>4, <3>1, OnTimeSettle, ZenonT(30)
      <3>2. CASE file[f].stage # "fetch"
        BY <1>0, <2>0, <2>4, <3>2, OnTimeQuiet, ZenonT(30)
      <3> QED BY <3>1, <3>2
    <2>5. CASE stage = "decode" /\ stage' \in {"iew", "loadstore", "end"} /\ count' = count
      <3>1. CASE file[f].stage = "decode"
        BY <2>0, <2>5, <3>1, OnTimeSettle, ZenonT(30)
      <3>2. CASE file[f].stage # "decode"
        BY <1>0, <2>0, <2>5, <3>2, OnTimeQuiet, ZenonT(30)
      <3> QED BY <3>1, <3>2, ZenonT(30)
    <2>6. ASSUME stage \in {"iew", "loadstore"}, count' = Increased(Counter(stage), 1)
          PROVE  OnTime(f)'
      <3>1. CASE file[f].stage = stage
        BY <2>0, <2>6, <3>1, OnTimeCount, ZenonT(30)
      <3>2. CASE file[f].stage # stage
        <4>1. Counter(stage) # k /\ Counter(stage) \in Counters
          BY <2>6, <3>2, ZenonT(30) DEF Counter, Counters
        <4>2. count'[k] = count[k]
          BY <2>1, <2>6, <4>1
        <4> QED BY <1>0, <2>0, <2>6, <3>2, <4>2, OnTimeQuiet, ZenonT(30)
      <3> QED BY <3>1, <3>2, SMTT(30)
    <2>7. CASE stage = "iew" /\ stage' = "end" /\ count' = Increased("executed", 1)
      BY <2>6, <2>7 DEF Counter
    <2>8. CASE stage = "loadstore" /\ stage' = "end" /\ count' = Increased("loadstore", 1)
      BY <2>6, <2>8, ZenonT(30) DEF Counter
    <2> QED BY <1>6, <2>2, <2>3, <2>4, <2>5, <2>7, <2>8, ZenonT(30) DEF Leave
  <1>7. CASE UNCHANGED vars
    BY <1>0, <1>7, OnTimeQuiet, ZenonT(30) DEF vars
  <1> QED BY <1>2, <1>3, <1>4, <1>5, <1>6, <1>7, StepKinds, ZenonT(30)

LEMMA ScheduleInit == Init => ScheduleInv
  <1> SUFFICES ASSUME Init PROVE ScheduleInv
    OBVIOUS
  <1>1. Shape /\ NotAhead /\ NextDue
    BY ShapeInit, NextDueInit
  <1>2. InOrder
    BY SortedOrder, ZenonT(30) DEF InOrder, Init
  <1>3. ASSUME NEW f \in Faults, Regular(f) PROVE OnTime(f)
    <2>1. OccInv
      BY OccInit, ZenonT(30)
    <2>2. file[f].timing \in Nat /\ file[f].timing >= 1 /\ file[f].where \in Slots
          /\ Counter(file[f].stage) \in Counters
      BY <1>3, <2>1, RegularFacts, ZenonT(30)
    <2>3. \A o \in Owners(f) : Shown(f, o) = 0
      BY <2>2 DEF Init, Shown, Owners, Objects
    <2>4. Foremost(f, 0)
      BY <2>3 DEF Foremost
    <2>5. DueAt(f, 0) = 0 /\ DueAt(f, 0 - 1) = 0 /\ strikes[f] = 0
      BY <2>2 DEF DueAt, Init
    <2> QED BY <2>4, <2>5 DEF OnTime
  <1> QED BY <1>1, <1>2, <1>3 DEF ScheduleInv

LEMMA ScheduleStep ==
    ASSUME OccInv, ScheduleInv, [Next]_vars
    PROVE  ScheduleInv'
  <1>1. Shape /\ NotAhead /\ InOrder /\ NextDue
    BY DEF ScheduleInv
  <1>2. Shape' /\ NotAhead' /\ InOrder' /\ NextDue'
    BY <1>1, ShapeStep, NotAheadStep, InOrderStep, NextDueStep, ZenonT(30)
  <1>3. setup' = setup
    <2>1. CASE stage \in Stages /\ Process(stage)
      BY <2>1, StrikeFacts, Zenon
    <2> QED BY <2>1, StepKinds, ZenonT(30) DEF Start, Begin, CountTicks, End, Leave, vars
  <1>4. ASSUME NEW f \in Faults, Regular(f)' PROVE OnTime(f)'
    BY <1>3, <1>4, RegularKept, OnTimeStep
  <1> QED BY <1>2, <1>4 DEF ScheduleInv

LEMMA Scheduled == Spec => [](OccInv /\ ScheduleInv)
  <1>1. Init => OccInv /\ ScheduleInv
    BY OccInit, ScheduleInit
  <1>2. OccInv /\ ScheduleInv /\ [Next]_vars => (OccInv /\ ScheduleInv)'
    BY OccStep, ScheduleStep
  <1> QED BY <1>1, <1>2, PTL DEF Spec

---------------------------------------------------------------------------
(* HiddenByMissed for every fault file: scan returns NULL although a       *)
(* queued fault matches only behind a tick-timed fault or one due at       *)
(* instruction 0 that the file puts no later in the same queue.            *)
THEOREM ScansMissNothing == Spec => []HiddenByMissed
  <1>1. ASSUME OccInv, ScheduleInv PROVE HiddenByMissed
    <2> SUFFICES ASSUME stage \in Stages, Found(stage) = {}, NEW i \in DOMAIN queue[stage],
                        Matches(queue[stage][i], stage), Unhidden(queue[stage][i])
                 PROVE  FALSE
      BY ZenonT(30) DEF HiddenByMissed
    <2>1. Own(queue[stage], stage)
      BY <1>1, Zenon DEF OccInv
    <2> DEFINE f == queue[stage][i]
    <2>2. f \in Faults /\ file[f].stage = stage
      BY <2>1, OwnFacts
    <2>3. file[f].stage = stage /\ Queued(f)
      BY <2>2, Zenon DEF Queued, Range
    <2> QED BY <1>1, <2>2, <2>3, NoneFound, ZenonT(30)
  <1> QED BY <1>1, Scheduled, PTL

(* The closed form of Due. *)
LEMMA DueClosed ==
    ASSUME setup \in Setups, NEW f \in Faults, NEW n \in Int
    PROVE  Due(f, n) = DueAt(f, n)
  <1> DEFINE T == file[f].timing
             k == file[f].occ
             b == IF k >= 1 /\ T + k - 1 < n THEN T + k - 1 ELSE n
             S == {v \in T..n : k >= 1 => v < T + k}
  <1>1. T \in Nat /\ k \in Int
    BY FileFacts, TimingFacts, ZenonT(30)
  <1>2. Due(f, n) = Cardinality(S)
    BY DEF Due
  <1>3. b \in Int /\ DueAt(f, n) = IF T > b THEN 0 ELSE b - T + 1
    <2>1. DueAt(f, n) = IF n < T THEN 0 ELSE IF k >= 1 /\ n - T + 1 > k THEN k ELSE n - T + 1
      BY DEF DueAt
    <2> HIDE DEF T, k
    <2> QED BY <1>1, <2>1
  <1> HIDE DEF T, k
  <1>4. S = T..b
    <2>1. ASSUME NEW v \in Int PROVE v \in S <=> v \in T..b
      BY <1>1
    <2>2. S \subseteq Int /\ T..b \subseteq Int
      OBVIOUS
    <2> HIDE DEF S, b
    <2> QED BY <2>1, <2>2, Zenon
  <1> HIDE DEF S, b
  <1>5. Cardinality(T..b) = IF T > b THEN 0 ELSE b - T + 1
    BY <1>1, <1>3, FS_Interval
  <1> QED BY <1>2, <1>3, <1>4, <1>5, ZenonT(30)

(* The foremost clock is the one that Elapsed names. *)
LEMMA ElapsedIs ==
    ASSUME OccInv, Shape, NEW f \in Faults, Regular(f), NEW m \in Nat, Foremost(f, m)
    PROVE  Elapsed(f) = m
  <1> DEFINE S == {0} \cup {Shown(f, o) : o \in Owners(f)}
  <1>1. Elapsed(f) = CHOOSE x \in S : \A y \in S : x >= y
    BY ZenonT(30) DEF Elapsed, Shown
  <1>2. file[f].where \in Slots /\ Counter(file[f].stage) \in Counters
    BY RegularFacts, ZenonT(30)
  <1>3. \A o \in Owners(f) : Shown(f, o) \in Nat
    BY <1>2 DEF Shape, Shown, Owners, Objects
  <1>4. S \subseteq Nat /\ m \in S /\ \A y \in S : m >= y
    BY <1>3 DEF Foremost
  <1> HIDE DEF S
  <1>5. \A x \in S : (\A y \in S : x >= y) => x = m
    BY <1>4, SMTT(30)
  <1> QED BY <1>1, <1>4, <1>5, Zenon

(* StruckOnSchedule for every fault file, every number of threads and      *)
(* cores, and every interleaving and migration: between instructions an    *)
(* instruction-timed fault that nothing can hide has been injected once    *)
(* for every occurrence of it that has come up.                            *)
THEOREM StrikesOnSchedule == Spec => []StruckOnSchedule
  <1>1. ASSUME OccInv, ScheduleInv PROVE StruckOnSchedule
    <2> SUFFICES ASSUME stage = "idle", NEW f \in Faults, Regular(f)
                 PROVE  IF file[f].stage \in {"fetch", "decode"}
                        THEN strikes[f] = Due(f, Elapsed(f))
                        ELSE IF file[f].stage = "main"
                             THEN strikes[f] \in {Due(f, Elapsed(f) - 1), Due(f, Elapsed(f))}
                        ELSE strikes[f] = Due(f, Elapsed(f) - 1)
      BY DEF StruckOnSchedule, Regular
    <2>1. file[f].stage \in Stages /\ stage \notin Stages /\ "fetch" \in Stages
      BY <1>1, RegularFacts, ZenonT(30) DEF Stages
    <2>2. PICK m \in Nat :
            /\ Foremost(f, m)
            /\ strikes[f] \in {DueAt(f, m - 1), DueAt(f, m)}
            /\ strikes[f] = DueAt(f, m) \/ file[f].stage \notin {"fetch", "decode"}
            /\ strikes[f] = DueAt(f, m - 1) \/ file[f].stage \notin {"iew", "loadstore"}
      BY <1>1, <2>1 DEF ScheduleInv, OnTime
    <2>3. Elapsed(f) = m
      BY <1>1, <2>2, ElapsedIs, ZenonT(30) DEF ScheduleInv
    <2>4. setup \in Setups /\ m \in Int /\ m - 1 \in Int
      BY <1>1 DEF OccInv
    <2>5. DueAt(f, m) = Due(f, m) /\ DueAt(f, m - 1) = Due(f, m - 1)
      BY <2>4, DueClosed, ZenonT(30)
    <2>6. file[f].stage \in {"main", "fetch", "decode", "iew", "loadstore"}
      BY <2>1 DEF Stages
    <2> QED BY <2>2, <2>3, <2>5, <2>6, ZenonT(30)
  <1> QED BY <1>1, Scheduled, PTL

=============================================================================
