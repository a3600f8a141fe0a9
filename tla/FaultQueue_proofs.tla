-------------------------- MODULE FaultQueue_proofs --------------------------
(***************************************************************************)
(* For every set of faults and all timings: when the memory of a new fault *)
(* is zeroed, the linked list is the list it promises to be.               *)
(***************************************************************************)
EXTENDS FaultQueue, WellFoundedInduction, FiniteSetTheorems, SequenceTheorems, TLAPS

(* A set of natural numbers that is not empty has a least element.         *)
LEMMA NatMin ==
    ASSUME NEW S \in SUBSET Nat, S # {}
    PROVE  \E m \in S : \A k \in S : m <= k
<1>1. /\ IsWellFoundedOn(OpToRel(<, Nat), Nat)
      /\ \A k, m \in Nat : k < m => <<k, m>> \in OpToRel(<, Nat)
  BY NatLessThanWellFounded DEF OpToRel
<1>2. PICK R : /\ IsWellFoundedOn(R, Nat)
               /\ \A k, m \in Nat : k < m => <<k, m>> \in R
  BY <1>1, Zenon
<1>3. PICK m \in S : \A k \in S : ~ (<<k, m>> \in R)
  <2>1. IsWellFoundedOn(R, Nat) /\ S \subseteq Nat
    BY <1>2
  <2> QED
    BY <2>1, WFMin, Zenon
<1>4. \A k \in S : ~ (k < m)
  BY <1>2, <1>3, Zenon
<1>5. \A k \in S : m <= k
  BY <1>4
<1> QED
  BY <1>5

(* A set that holds 0 and, with every number below n, its successor, holds *)
(* all numbers up to n.                                                    *)
LEMMA UpTo ==
    ASSUME NEW n \in Nat, NEW S, 0 \in S,
           \A i \in Nat : i < n /\ i \in S => i + 1 \in S
    PROVE  \A i \in 0..n : i \in S
<1> DEFINE Bad == {i \in Nat : i <= n /\ i \notin S}
<1>1. SUFFICES ASSUME Bad # {} PROVE FALSE
  OBVIOUS
<1>2. PICK m \in Bad : \A k \in Bad : m <= k
  <2>1. Bad \in SUBSET Nat
    OBVIOUS
  <2> HIDE DEF Bad
  <2> QED
    BY <1>1, <2>1, NatMin
<1>3. m \in Nat /\ m # 0 /\ m - 1 \in Nat /\ m <= n /\ m \notin S
  BY <1>2
<1>4. m - 1 \in S
  BY <1>2, <1>3
<1>5. (m - 1) + 1 \in S
  BY <1>3, <1>4
<1> QED
  BY <1>3, <1>5

---------------------------------------------------------------------------
(* h, t, n and p, the values of head, tail, nxt and prv, chain up the      *)
(* faults of q, from its first to its last and back.                       *)
Chain(q, h, t, n, p) ==
    /\ q \in Seq(Faults)
    /\ \A i, j \in 1..Len(q) : q[i] = q[j] => i = j
    /\ Len(q) = 0 => h = NULL /\ t = NULL
    /\ Len(q) # 0 => h = q[1] /\ t = q[Len(q)]
    /\ \A i \in 1..Len(q) : n[q[i]] = IF i = Len(q) THEN NULL ELSE q[i + 1]
    /\ \A i \in 1..Len(q) : p[q[i]] = IF i = 1 THEN NULL ELSE q[i - 1]

Ascending(q, when) == \A i \in 2..Len(q) : when[q[i - 1]] <= when[q[i]]

Holds(q) ==
    /\ Chain(q, head, tail, nxt, prv)
    /\ phase = "load" => Ascending(q, timing)

QueueInv == TypeOK /\ ~crashed /\ \E q \in Seq(Faults) : Holds(q)

(* The pointer that a traversal of q holds after i steps. *)
At(q, i) == IF i < Len(q) THEN q[i + 1] ELSE NULL

LEMMA AtFacts ==
    ASSUME NEW q \in Seq(Faults)
    PROVE  /\ \A i \in Nat : i < Len(q) => At(q, i) = q[i + 1] /\ At(q, i) \in Faults
           /\ \A i \in Nat : i >= Len(q) => At(q, i) = NULL /\ At(q, i) \notin Faults
<1>1. Len(q) \in Nat /\ \A i \in 1..Len(q) : q[i] \in Faults
  OBVIOUS
<1> QED
  BY <1>1, QueueAssumption DEF At

LEMMA Fits ==
    ASSUME NEW q \in Seq(Faults), \A i, j \in 1..Len(q) : q[i] = q[j] => i = j
    PROVE  Cardinality(Faults) \in Nat /\ Len(q) \in Nat /\ Len(q) <= Cardinality(Faults)
<1>1. Len(q) \in Nat /\ q \in [1..Len(q) -> Faults]
  OBVIOUS
<1>2. q \in Injection(1..Len(q), Faults)
  BY <1>1 DEF Injection, IsInjective
<1>3. IsFiniteSet(Faults) /\ Cardinality(Faults) \in Nat
  BY QueueAssumption, FS_CardinalityType
<1>4. Cardinality(1..Len(q)) <= Cardinality(Faults)
  BY <1>2, <1>3, FS_Injection
<1>5. Cardinality(1..Len(q)) = Len(q)
  BY <1>1, FS_Interval
<1> QED
  BY <1>1, <1>3, <1>4, <1>5

(* p = head; p = p->nxt; ... goes through q. *)
LEMMA VisitIs ==
    ASSUME NEW q, Chain(q, head, tail, nxt, prv)
    PROVE  /\ DOMAIN Visit = 0..Cardinality(Faults)
           /\ \A i \in 0..Cardinality(Faults) : Visit[i] = At(q, i)
<1> DEFINE N == Cardinality(Faults)
           Step(v, i) == IF i = 0 THEN head
                         ELSE IF v[i - 1] \in Faults THEN nxt[v[i - 1]] ELSE v[i - 1]
           g == [i \in 0..N |-> At(q, i)]
<1>1. q \in Seq(Faults) /\ N \in Nat /\ Len(q) \in Nat /\ Len(q) <= N
  BY Fits DEF Chain
<1>2. \A i \in 0..N : At(q, i) = Step(g, i)
  <2> TAKE i \in 0..N
  <2>1. CASE i = 0
    BY <1>1, <2>1 DEF Chain, At
  <2>2. CASE i # 0 /\ i - 1 < Len(q)
    <3>1. g[i - 1] = q[i] /\ q[i] \in Faults /\ i \in 1..Len(q)
      BY <1>1, <2>2, AtFacts
    <3>2. nxt[q[i]] = At(q, i)
      BY <1>1, <3>1 DEF Chain, At
    <3> QED
      BY <2>2, <3>1, <3>2
  <2>3. CASE i # 0 /\ i - 1 >= Len(q)
    <3>1. g[i - 1] = NULL /\ NULL \notin Faults /\ At(q, i) = NULL
      BY <1>1, <2>3, AtFacts, QueueAssumption
    <3> QED
      BY <2>3, <3>1
  <2> QED
    BY <1>1, <2>1, <2>2, <2>3
<1>3. g = [i \in 0..N |-> Step(g, i)]
  BY <1>2, ZenonT(30)
<1>4. Visit = [i \in 0..N |-> Step(Visit, i)]
  BY <1>3, Zenon DEF Visit
<1>5. DOMAIN Visit = 0..N
  BY <1>4
<1>6. \A i \in 0..N : Visit[i] = Step(Visit, i)
  BY <1>4, Zenon
<1> DEFINE S == {i \in 0..N : Visit[i] = At(q, i)}
<1>7. 0 \in S
  <2>1. 0 \in 0..N /\ Step(Visit, 0) = head /\ Step(g, 0) = head
    BY <1>1
  <2>2. Visit[0] = At(q, 0)
    BY <1>2, <1>6, <2>1, Zenon
  <2> QED
    BY <2>1, <2>2
<1>8. \A i \in Nat : i < N /\ i \in S => i + 1 \in S
  <2> TAKE i \in Nat
  <2> HAVE i < N /\ i \in S
  <2>1. i + 1 \in 0..N /\ i + 1 # 0 /\ (i + 1) - 1 = i /\ Visit[i] = At(q, i) /\ i \in 0..N
    BY <1>1
  <2>2. Step(Visit, i + 1) = IF Visit[i] \in Faults THEN nxt[Visit[i]] ELSE Visit[i]
    BY <2>1
  <2>3. Step(g, i + 1) = IF g[i] \in Faults THEN nxt[g[i]] ELSE g[i]
    BY <2>1
  <2>4. g[i] = Visit[i]
    BY <2>1
  <2> QED
    BY <1>2, <1>6, <2>1, <2>2, <2>3, <2>4, Zenon
<1>9. \A i \in 0..N : i \in S
  <2> HIDE DEF S
  <2> QED
    BY <1>1, <1>7, <1>8, UpTo, ZenonT(30)
<1> QED
  BY <1>5, <1>9

(* Where a traversal of q stops that goes on while p points into S: at the *)
(* first fault of q outside S.                                             *)
LEMMA SeekIs ==
    ASSUME NEW q, Chain(q, head, tail, nxt, prv), NEW S \in SUBSET Faults,
           NEW k \in 0..Len(q), \A i \in 1..k : q[i] \in S,
           k < Len(q) => q[k + 1] \notin S
    PROVE  Seek(S) = At(q, k)
<1> DEFINE N == Cardinality(Faults)
           First(n) == Visit[n] \notin S /\ \A m \in 0..(n - 1) : Visit[m] \in S
<1>1. q \in Seq(Faults) /\ N \in Nat /\ Len(q) \in Nat /\ Len(q) <= N
  BY Fits, Zenon DEF Chain
<1>2. DOMAIN Visit = 0..N /\ \A i \in 0..N : Visit[i] = At(q, i)
  BY VisitIs
<1>3. k \in 0..N /\ First(k)
  <2>1. At(q, k) \notin S
    BY <1>1, AtFacts
  <2>2. \A m \in 0..(k - 1) : At(q, m) \in S
    BY <1>1, AtFacts
  <2> QED
    BY <1>1, <1>2, <2>1, <2>2
<1>4. ASSUME NEW n \in 0..N, First(n) PROVE n = k
  <2>1. ~ (n < k) /\ ~ (k < n)
    BY <1>1, <1>3, <1>4
  <2> QED
    BY <1>1, <2>1
<1>5. (CHOOSE n \in 0..N : First(n)) = k
  <2> HIDE DEF First
  <2> QED
    BY <1>3, <1>4
<1> QED
  BY <1>2, <1>3, <1>5, ZenonT(30) DEF Seek

LEMMA ContentsIs ==
    ASSUME NEW q, Chain(q, head, tail, nxt, prv)
    PROVE  Length = Len(q) /\ Contents = q
<1> DEFINE N == Cardinality(Faults)
           First(n) == Visit[n] \notin Faults /\ \A m \in 0..(n - 1) : Visit[m] \in Faults
<1>1. q \in Seq(Faults) /\ N \in Nat /\ Len(q) \in Nat /\ Len(q) <= N
  BY Fits DEF Chain
<1>2. DOMAIN Visit = 0..N /\ \A i \in 0..N : Visit[i] = At(q, i)
  BY VisitIs
<1>3. Len(q) \in 0..N /\ First(Len(q))
  <2>1. At(q, Len(q)) \notin Faults
    BY <1>1, AtFacts
  <2>2. \A m \in 0..(Len(q) - 1) : At(q, m) \in Faults
    BY <1>1, AtFacts
  <2> QED
    BY <1>1, <1>2, <2>1, <2>2
<1>4. ASSUME NEW n \in 0..N, First(n) PROVE n = Len(q)
  <2>1. ~ (n < Len(q)) /\ ~ (Len(q) < n)
    BY <1>1, <1>3, <1>4
  <2> QED
    BY <1>1, <2>1
<1>5. Length = Len(q)
  <2>1. (CHOOSE n \in 0..N : First(n)) = Len(q)
    <3> HIDE DEF First
    <3> QED
      BY <1>3, <1>4
  <2> QED
    BY <1>2, <2>1 DEF Length
<1>6. \A i \in 1..Len(q) : Visit[i - 1] = q[i]
  BY <1>1, <1>2, AtFacts
<1>7. Contents = [i \in 1..Len(q) |-> q[i]]
  BY <1>5, <1>6 DEF Contents
<1> QED
  BY <1>1, <1>5, <1>7

---------------------------------------------------------------------------
(* q with f behind its first k faults, and q without its k-th one. *)
Ins(q, k, f) ==
    [i \in 1..(Len(q) + 1) |-> IF i <= k THEN q[i] ELSE IF i = k + 1 THEN f ELSE q[i - 1]]
Del(q, k) == [i \in 1..(Len(q) - 1) |-> IF i < k THEN q[i] ELSE q[i + 1]]

(* What r = Ins(q, k, f) holds, position by position. *)
Inserted(r, q, k, f) ==
    /\ r \in Seq(Faults) /\ Len(r) = Len(q) + 1 /\ Len(q) \in Nat
    /\ \A i \in 1..k : r[i] = q[i]
    /\ r[k + 1] = f
    /\ \A i \in 1..(Len(q) + 1) : i > k + 1 => i - 1 \in 1..Len(q) /\ r[i] = q[i - 1]

LEMMA InsFacts ==
    ASSUME NEW q \in Seq(Faults), NEW k \in 0..Len(q), NEW f \in Faults
    PROVE  Inserted(Ins(q, k, f), q, k, f)
<1>1. Len(q) \in Nat /\ \A i \in 1..Len(q) : q[i] \in Faults
  OBVIOUS
<1>2. \A i \in 1..(Len(q) + 1) :
        (IF i <= k THEN q[i] ELSE IF i = k + 1 THEN f ELSE q[i - 1]) \in Faults
  BY <1>1
<1>3. Ins(q, k, f) \in Seq(Faults) /\ Len(Ins(q, k, f)) = Len(q) + 1
  BY <1>1, <1>2 DEF Ins
<1>4. \A i \in 1..(Len(q) + 1) :
        Ins(q, k, f)[i] = IF i <= k THEN q[i] ELSE IF i = k + 1 THEN f ELSE q[i - 1]
  BY DEF Ins
<1> QED
  BY <1>1, <1>3, <1>4 DEF Inserted

LEMMA DelFacts ==
    ASSUME NEW q \in Seq(Faults), NEW k \in 1..Len(q)
    PROVE  /\ Del(q, k) \in Seq(Faults) /\ Len(Del(q, k)) = Len(q) - 1
           /\ Len(q) \in Nat
           /\ \A i \in 1..(k - 1) : Del(q, k)[i] = q[i]
           /\ \A i \in k..(Len(q) - 1) : Del(q, k)[i] = q[i + 1]
<1>1. Len(q) \in Nat /\ Len(q) - 1 \in Nat /\ \A i \in 1..Len(q) : q[i] \in Faults
  OBVIOUS
<1>2. \A i \in 1..(Len(q) - 1) : (IF i < k THEN q[i] ELSE q[i + 1]) \in Faults
  BY <1>1
<1>3. Del(q, k) \in Seq(Faults) /\ Len(Del(q, k)) = Len(q) - 1
  BY <1>1, <1>2 DEF Del
<1>4. \A i \in 1..(Len(q) - 1) : Del(q, k)[i] = IF i < k THEN q[i] ELSE q[i + 1]
  BY DEF Del
<1> QED
  BY <1>1, <1>3, <1>4

(* hh, tt, nn and pp put f between the k-th fault of q and the next one. *)
PutIn(q, k, f, h, t, n, p, hh, tt, nn, pp) ==
    /\ \A i \in 1..Len(q) : q[i] # f
    /\ hh = IF k = 0 THEN f ELSE h
    /\ tt = IF k = Len(q) THEN f ELSE t
    /\ nn[f] = At(q, k)
    /\ pp[f] = IF k = 0 THEN NULL ELSE q[k]
    /\ \A i \in 1..Len(q) : nn[q[i]] = IF i = k THEN f ELSE n[q[i]]
    /\ \A i \in 1..Len(q) : pp[q[i]] = IF i = k + 1 THEN f ELSE p[q[i]]

LEMMA InsChain ==
    ASSUME NEW q, NEW h, NEW t, NEW n, NEW p, Chain(q, h, t, n, p),
           NEW k \in 0..Len(q), NEW f \in Faults, NEW hh, NEW tt, NEW nn, NEW pp,
           PutIn(q, k, f, h, t, n, p, hh, tt, nn, pp)
    PROVE  Chain(Ins(q, k, f), hh, tt, nn, pp)
<1> USE DEF PutIn
<1> DEFINE r == Ins(q, k, f)
<1>1. q \in Seq(Faults)
  BY DEF Chain
<1>2. /\ r \in Seq(Faults) /\ Len(r) = Len(q) + 1 /\ Len(q) \in Nat
      /\ \A i \in 1..k : r[i] = q[i]
      /\ r[k + 1] = f
      /\ \A i \in 1..Len(r) : i > k + 1 => i - 1 \in 1..Len(q) /\ r[i] = q[i - 1]
  <2>1. Inserted(r, q, k, f)
    BY <1>1, InsFacts, Zenon
  <2> HIDE DEF r
  <2>2. /\ r \in Seq(Faults) /\ Len(r) = Len(q) + 1 /\ Len(q) \in Nat
        /\ \A i \in 1..k : r[i] = q[i]
        /\ r[k + 1] = f
        /\ \A i \in 1..(Len(q) + 1) : i > k + 1 => i - 1 \in 1..Len(q) /\ r[i] = q[i - 1]
    BY <2>1, Zenon DEF Inserted
  <2> QED
    BY <2>2, Zenon
<1> HIDE DEF r
<1>3. \A i, j \in 1..Len(r) : r[i] = r[j] => i = j
  <2> TAKE i, j \in 1..Len(r)
  <2>1. \A a, b \in 1..Len(q) : q[a] = q[b] => a = b
    BY DEF Chain
  <2>2. \A a \in 1..Len(r) :
            \/ a <= k /\ a \in 1..Len(q) /\ r[a] = q[a]
            \/ a = k + 1 /\ r[a] = f
            \/ a > k + 1 /\ a - 1 \in 1..Len(q) /\ r[a] = q[a - 1]
    <3> TAKE a \in 1..Len(r)
    <3>1. CASE a <= k
      BY <1>2, <3>1
    <3>2. CASE a = k + 1
      BY <1>2, <3>2
    <3>3. CASE a > k + 1
      BY <1>2, <3>3
    <3> QED
      BY <1>2, <3>1, <3>2, <3>3
  <2>3. CASE i = k + 1
    <3>1. r[i] = f /\ (j = k + 1 \/ \E b \in 1..Len(q) : r[j] = q[b])
      BY <1>2, <2>2, <2>3
    <3> QED
      BY <2>3, <3>1
  <2>4. CASE j = k + 1
    <3>1. r[j] = f /\ (i = k + 1 \/ \E b \in 1..Len(q) : r[i] = q[b])
      BY <1>2, <2>2, <2>4
    <3> QED
      BY <2>4, <3>1
  <2>5. CASE i # k + 1 /\ j # k + 1
    <3>1. PICK a, b \in 1..Len(q) : /\ r[i] = q[a] /\ i = IF a <= k THEN a ELSE a + 1
                                   /\ r[j] = q[b] /\ j = IF b <= k THEN b ELSE b + 1
      BY <1>2, <2>2, <2>5
    <3> QED
      BY <2>1, <3>1
  <2> QED
    BY <2>3, <2>4, <2>5
<1>4. Len(r) # 0 /\ hh = r[1] /\ tt = r[Len(r)]
  <2>1. hh = r[1]
    BY <1>2 DEF Chain
  <2>2. tt = r[Len(r)]
    BY <1>2 DEF Chain
  <2> QED
    BY <1>2, <2>1, <2>2
<1>5. ASSUME NEW i \in 1..Len(r)
      PROVE  /\ nn[r[i]] = IF i = Len(r) THEN NULL ELSE r[i + 1]
             /\ pp[r[i]] = IF i = 1 THEN NULL ELSE r[i - 1]
  <2>1. \A a \in 1..Len(q) :
            /\ n[q[a]] = IF a = Len(q) THEN NULL ELSE q[a + 1]
            /\ p[q[a]] = IF a = 1 THEN NULL ELSE q[a - 1]
    BY ZenonT(30) DEF Chain
  <2>2. CASE i < k
    <3>1. /\ i \in 1..Len(q) /\ i # Len(q) /\ i # k /\ i # k + 1 /\ r[i] = q[i]
          /\ r[i + 1] = q[i + 1]
          /\ i # 1 => r[i - 1] = q[i - 1]
      BY <1>2, <2>2
    <3> QED
      BY <1>2, <2>1, <3>1
  <2>3. CASE i = k
    <3>1. /\ i \in 1..Len(q) /\ i # k + 1 /\ r[i] = q[i] /\ i # Len(r)
          /\ r[i + 1] = f
      BY <1>2, <2>3
    <3>2. i # 1 => r[i - 1] = q[i - 1]
      BY <1>2, <2>3
    <3> QED
      BY <1>2, <2>1, <2>3, <3>1, <3>2, ZenonT(30)
  <2>4. CASE i = k + 1
    <3>1. nn[f] = IF i = Len(r) THEN NULL ELSE r[i + 1]
      BY <1>2, <2>4 DEF At
    <3>2. pp[f] = IF i = 1 THEN NULL ELSE r[i - 1]
      BY <1>2, <2>4
    <3> QED
      BY <1>2, <2>4, <3>1, <3>2, ZenonT(30)
  <2>5. CASE i > k + 1
    <3>1. i - 1 \in 1..Len(q) /\ i - 1 # k /\ r[i] = q[i - 1]
      BY <1>2, <2>5
    <3>2. nn[r[i]] = IF i = Len(r) THEN NULL ELSE r[i + 1]
      <4>1. nn[r[i]] = IF i - 1 = Len(q) THEN NULL ELSE q[(i - 1) + 1]
        BY <2>1, <3>1
      <4>2. i # Len(r) => r[i + 1] = q[i]
        BY <1>2, <2>5
      <4> QED
        BY <1>2, <4>1, <4>2
    <3>3. CASE i = k + 2
      <4>1. pp[r[i]] = f /\ r[i - 1] = f /\ i # 1
        BY <1>2, <3>1, <3>3
      <4> QED
        BY <3>2, <4>1
    <3>4. CASE i # k + 2
      <4>1. pp[r[i]] = p[q[i - 1]] /\ i - 1 # 1 /\ i # 1 /\ r[i - 1] = q[i - 2]
        BY <1>2, <2>5, <3>1, <3>4
      <4> QED
        BY <2>1, <3>1, <3>2, <4>1
    <3> QED
      BY <3>2, <3>3, <3>4
  <2> QED
    BY <1>2, <2>2, <2>3, <2>4, <2>5
<1>6. Chain(r, hh, tt, nn, pp)
  BY <1>2, <1>3, <1>4, <1>5 DEF Chain
<1> QED
  BY <1>6 DEF r

(* hh, tt, nn and pp pass over the k-th fault of q. *)
PassOver(q, k, h, t, n, p, hh, tt, nn, pp) ==
    /\ hh = IF k = 1 THEN At(q, k) ELSE h
    /\ tt = IF k # Len(q) THEN t ELSE IF k = 1 THEN NULL ELSE q[k - 1]
    /\ \A i \in 1..Len(q) : i # k => nn[q[i]] = IF i = k - 1 THEN n[q[k]] ELSE n[q[i]]
    /\ \A i \in 1..Len(q) : i # k => pp[q[i]] = IF i = k + 1 THEN p[q[k]] ELSE p[q[i]]

LEMMA DelChain ==
    ASSUME NEW q, NEW h, NEW t, NEW n, NEW p, Chain(q, h, t, n, p),
           NEW k \in 1..Len(q), NEW hh, NEW tt, NEW nn, NEW pp,
           PassOver(q, k, h, t, n, p, hh, tt, nn, pp)
    PROVE  Chain(Del(q, k), hh, tt, nn, pp)
<1> USE DEF PassOver
<1> DEFINE r == Del(q, k)
<1>1. q \in Seq(Faults)
  BY DEF Chain
<1>2. /\ r \in Seq(Faults) /\ Len(r) = Len(q) - 1 /\ Len(q) \in Nat
      /\ \A i \in 1..(k - 1) : r[i] = q[i]
      /\ \A i \in k..(Len(q) - 1) : r[i] = q[i + 1]
  BY <1>1, DelFacts
<1> HIDE DEF r
<1>3. \A a \in 1..Len(r) :
        \/ a < k /\ a \in 1..Len(q) /\ r[a] = q[a]
        \/ a >= k /\ a + 1 \in 1..Len(q) /\ r[a] = q[a + 1]
  BY <1>2
<1>4. \A i, j \in 1..Len(r) : r[i] = r[j] => i = j
  <2> TAKE i, j \in 1..Len(r)
  <2>1. \A a, b \in 1..Len(q) : q[a] = q[b] => a = b
    BY DEF Chain
  <2>2. PICK a, b \in 1..Len(q) : /\ r[i] = q[a] /\ a = IF i < k THEN i ELSE i + 1
                                 /\ r[j] = q[b] /\ b = IF j < k THEN j ELSE j + 1
    BY <1>2, <1>3
  <2> QED
    BY <1>2, <2>1, <2>2
<1>5. /\ Len(r) = 0 => hh = NULL /\ tt = NULL
      /\ Len(r) # 0 => hh = r[1] /\ tt = r[Len(r)]
  <2>1. CASE Len(q) = 1
    BY <1>2, <2>1 DEF At
  <2>2. CASE Len(q) # 1
    <3>1. hh = r[1]
      BY <1>2, <2>2 DEF Chain, At
    <3>2. tt = r[Len(r)]
      BY <1>2, <2>2 DEF Chain
    <3> QED
      BY <1>2, <2>2, <3>1, <3>2
  <2> QED
    BY <2>1, <2>2
<1>6. ASSUME NEW i \in 1..Len(r)
      PROVE  /\ nn[r[i]] = IF i = Len(r) THEN NULL ELSE r[i + 1]
             /\ pp[r[i]] = IF i = 1 THEN NULL ELSE r[i - 1]
  <2>1. \A a \in 1..Len(q) :
            /\ n[q[a]] = IF a = Len(q) THEN NULL ELSE q[a + 1]
            /\ p[q[a]] = IF a = 1 THEN NULL ELSE q[a - 1]
    BY ZenonT(30) DEF Chain
  <2>2. CASE i < k - 1
    <3>1. /\ i \in 1..Len(q) /\ i # Len(q) /\ i # k /\ i # k + 1 /\ i # k - 1
          /\ r[i] = q[i] /\ r[i + 1] = q[i + 1] /\ i # Len(r)
          /\ i # 1 => r[i - 1] = q[i - 1]
      BY <1>2, <2>2
    <3> QED
      BY <1>2, <2>1, <3>1, ZenonT(30)
  <2>3. CASE i = k - 1
    <3>1. /\ i \in 1..Len(q) /\ i # k /\ i # k + 1 /\ r[i] = q[i]
          /\ i # Len(r) => r[i + 1] = q[k + 1]
          /\ i = Len(r) <=> k = Len(q)
      <4>1. /\ i \in 1..Len(q) /\ i # k /\ i # k + 1 /\ i \in 1..(k - 1) /\ i + 1 = k
            /\ (i = Len(r) <=> k = Len(q))
        BY <1>2, <2>3
      <4>2. i # Len(r) => k \in k..(Len(q) - 1)
        BY <1>2, <2>3
      <4>3. r[i] = q[i] /\ (i # Len(r) => r[k] = q[k + 1])
        BY <1>2, <4>1, <4>2, Zenon
      <4> QED BY <4>1, <4>3, Zenon
    <3>2. i # 1 => r[i - 1] = q[i - 1]
      BY <1>2, <2>3
    <3> QED
      BY <1>2, <2>1, <2>3, <3>1, <3>2
  <2>4. CASE i >= k
    <3>1. /\ i + 1 \in 1..Len(q) /\ i + 1 # k /\ i + 1 # k - 1 /\ r[i] = q[i + 1]
          /\ i = Len(r) <=> i + 1 = Len(q)
          /\ i # Len(r) => r[i + 1] = q[i + 2]
      <4>1. /\ i + 1 \in 1..Len(q) /\ i + 1 # k /\ i + 1 # k - 1 /\ i \in k..(Len(q) - 1)
            /\ (i = Len(r) <=> i + 1 = Len(q))
        BY <1>2, <2>4
      <4>2. i # Len(r) => i + 1 \in k..(Len(q) - 1) /\ (i + 1) + 1 = i + 2
        BY <1>2, <2>4
      <4>3. r[i] = q[i + 1] /\ (i # Len(r) => r[i + 1] = q[(i + 1) + 1])
        BY <1>2, <4>1, <4>2, Zenon
      <4> QED BY <4>1, <4>2, <4>3, Zenon
    <3>2. nn[r[i]] = IF i = Len(r) THEN NULL ELSE r[i + 1]
      <4>1. nn[r[i]] = IF i + 1 = Len(q) THEN NULL ELSE q[(i + 1) + 1]
        <5>1. nn[q[i + 1]] = n[q[i + 1]]
          BY <3>1, Zenon
        <5>2. n[q[i + 1]] = IF i + 1 = Len(q) THEN NULL ELSE q[(i + 1) + 1]
          BY <2>1, <3>1, Zenon
        <5> QED BY <3>1, <5>1, <5>2, Zenon
      <4> QED
        BY <1>2, <3>1, <4>1
    <3>3. CASE i = k
      <4>1. pp[r[i]] = IF k = 1 THEN NULL ELSE q[k - 1]
        <5>1. pp[r[i]] = p[q[k]]
          BY <3>1, <3>3
        <5> QED
          BY <2>1, <5>1, ZenonT(30)
      <4>2. k # 1 => r[k - 1] = q[k - 1]
        BY <1>2
      <4> QED
        BY <3>2, <3>3, <4>1, <4>2
    <3>4. CASE i # k
      <4>1. pp[r[i]] = p[q[i + 1]] /\ i + 1 # 1 /\ i # 1 /\ r[i - 1] = q[i]
        <5>1. i + 1 # k + 1 /\ i + 1 # 1 /\ i # 1 /\ i - 1 \in k..(Len(q) - 1)
          BY <1>2, <2>4, <3>4
        <5>2. r[i - 1] = q[(i - 1) + 1]
          BY <1>2, <5>1, ZenonT(30)
        <5>3. pp[q[i + 1]] = p[q[i + 1]]
          BY <3>1, <5>1
        <5> QED
          BY <1>2, <3>1, <5>1, <5>2, <5>3
      <4>2. p[q[i + 1]] = q[(i + 1) - 1]
        BY <2>1, <3>1, <4>1
      <4> QED
        BY <1>2, <3>2, <4>1, <4>2
    <3> QED
      BY <3>3, <3>4
  <2> QED
    BY <1>2, <2>2, <2>3, <2>4
<1>7. Chain(r, hh, tt, nn, pp)
  BY <1>2, <1>4, <1>5, <1>6 DEF Chain
<1> QED
  BY <1>7 DEF r

---------------------------------------------------------------------------
(* The faults at the front of q that belong to S. *)
Front(q, S, k) ==
    /\ k \in 0..Len(q)
    /\ \A i \in 1..k : q[i] \in S
    /\ k < Len(q) => q[k + 1] \notin S

LEMMA FrontExists ==
    ASSUME NEW q \in Seq(Faults), NEW S
    PROVE  \E k \in 0..Len(q) : Front(q, S, k)
<1> DEFINE Stops == {i \in Nat : i <= Len(q) /\ (i < Len(q) => q[i + 1] \notin S)}
<1>1. Len(q) \in Nat
  OBVIOUS
<1>2. Stops \in SUBSET Nat /\ Len(q) \in Stops
  BY <1>1
<1>3. PICK k \in Stops : \A m \in Stops : k <= m
  <2> HIDE DEF Stops
  <2> QED
    BY <1>2, NatMin
<1>4. \A i \in 1..k : q[i] \in S
  <2> TAKE i \in 1..k
  <2>1. i - 1 \in Nat /\ i - 1 < k /\ i - 1 < Len(q) /\ (i - 1) + 1 = i
    BY <1>1, <1>3
  <2>2. i - 1 \notin Stops
    BY <1>3, <2>1
  <2> QED
    BY <2>1, <2>2
<1>5. k \in 0..Len(q) /\ (k < Len(q) => q[k + 1] \notin S)
  BY <1>1, <1>3
<1> QED
  BY <1>4, <1>5 DEF Front

(* insert() puts f behind the faults at the front that are due before t. *)
LEMMA InsertStep ==
    ASSUME Fresh = {NULL}, TypeOK, NEW q, Chain(q, head, tail, nxt, prv),
           NEW f \in Faults, NEW t \in Timings, Insert(f, t)
    PROVE  /\ TypeOK' /\ crashed' = FALSE
           /\ \A i \in 1..Len(q) : q[i] # f
           /\ \E k \in 0..Len(q) : /\ Front(q, Passed(t), k)
                                   /\ Chain(Ins(q, k, f), head', tail', nxt', prv')
<1>1. q \in Seq(Faults) /\ Len(q) \in Nat /\ \A i \in 1..Len(q) : q[i] \in Faults
  BY DEF Chain
<1>2. \A i \in 1..Len(q) : q[i] # f
  <2>1. Length = Len(q) /\ Contents = q /\ ~ Queued(f)
    BY ContentsIs DEF Insert
  <2> QED
    BY <2>1 DEF Queued
<1>3. PICK k \in 0..Len(q) : Front(q, Passed(t), k)
  BY <1>1, FrontExists
<1>4. Passed(t) \in SUBSET Faults
  BY DEF Passed
<1>5. Seek(Passed(t)) = At(q, k)
  BY <1>3, <1>4, SeekIs DEF Front
<1>6. At(q, k) # Wild /\ tail # Wild
  BY <1>1, QueueAssumption DEF At, Chain
<1>7. /\ phase = "load" /\ phase' = phase
      /\ timing' = [timing EXCEPT ![f] = t]
      /\ crashed' = FALSE
      /\ \/ Empty /\ InsertFirst(f)
         \/ ~Empty /\ At(q, k) = NULL /\ InsertAtEnd(f, NULL)
         \/ ~Empty /\ At(q, k) = head /\ InsertAtHead(f, NULL)
         \/ At(q, k) \in Faults \ {head} /\ InsertBetween(f, At(q, k))
  BY <1>5, <1>6 DEF Insert
<1>8. /\ nxt \in [Faults -> Pointers] /\ prv \in [Faults -> Pointers]
      /\ head \in Pointers /\ tail \in Pointers /\ f \in Pointers /\ NULL \in Pointers
      /\ \A i \in 1..Len(q) : q[i] \in Pointers
  BY <1>1 DEF TypeOK, Pointers
<1> DEFINE Linked == /\ head' \in Pointers /\ tail' \in Pointers
                     /\ nxt' \in [Faults -> Pointers] /\ prv' \in [Faults -> Pointers]
                     /\ Chain(Ins(q, k, f), head', tail', nxt', prv')
<1>9. ASSUME Empty, InsertFirst(f) PROVE Linked
  <2>1. Len(q) = 0
    BY <1>1, <1>9, QueueAssumption DEF Empty, Chain
  <2>2. /\ head' = f /\ tail' = f /\ nxt'[f] = NULL /\ prv'[f] = NULL
        /\ nxt' \in [Faults -> Pointers] /\ prv' \in [Faults -> Pointers]
    BY <1>8, <1>9 DEF InsertFirst
  <2>3. k = 0 /\ k = Len(q) /\ At(q, k) = NULL
    BY <1>1, <2>1 DEF At
  <2> HIDE DEF Linked
  <2>4. Chain(Ins(q, k, f), head', tail', nxt', prv')
    <3>1. PutIn(q, k, f, head, tail, nxt, prv, head', tail', nxt', prv')
      BY <1>2, <2>1, <2>2, <2>3 DEF PutIn
    <3> QED BY <3>1, InsChain, Zenon
  <2> QED
    BY <1>8, <2>2, <2>4, ZenonT(30) DEF Linked
<1>10. \A i, j \in 1..Len(q) : q[i] = q[j] => i = j
  BY DEF Chain
<1>11. ASSUME ~Empty, At(q, k) = NULL, InsertAtEnd(f, NULL) PROVE Linked
  <2>1. k = Len(q) /\ Len(q) # 0 /\ tail = q[Len(q)] /\ tail \in Faults /\ tail # f
    BY <1>1, <1>2, <1>11, QueueAssumption DEF Empty, Chain, At
  <2>2. /\ head' = head /\ tail' = f /\ nxt'[f] = NULL /\ prv'[f] = q[k]
        /\ nxt' \in [Faults -> Pointers] /\ prv' \in [Faults -> Pointers]
    BY <1>8, <1>11, <2>1 DEF InsertAtEnd
  <2>3. \A i \in 1..Len(q) : nxt'[q[i]] = IF i = k THEN f ELSE nxt[q[i]]
    BY <1>1, <1>2, <1>8, <1>10, <1>11, <2>1 DEF InsertAtEnd
  <2>4. \A i \in 1..Len(q) : prv'[q[i]] = prv[q[i]] /\ i # k + 1
    <3>1. prv' = [prv EXCEPT ![f] = tail] /\ DOMAIN prv = Faults
      BY <1>8, <1>11, Zenon DEF InsertAtEnd
    <3>2. \A i \in 1..Len(q) : i # k + 1
      BY <1>1, <2>1
    <3> QED BY <1>1, <1>2, <3>1, <3>2, Zenon
  <2> HIDE DEF Linked
  <2>5. Chain(Ins(q, k, f), head', tail', nxt', prv')
    <3>1. PutIn(q, k, f, head, tail, nxt, prv, head', tail', nxt', prv')
      BY <1>2, <1>11, <2>1, <2>2, <2>3, <2>4 DEF PutIn
    <3> QED BY <3>1, InsChain, Zenon
  <2> QED
    BY <1>8, <2>2, <2>5 DEF Linked
<1>12. ASSUME ~Empty, At(q, k) = head, InsertAtHead(f, NULL) PROVE Linked
  <2>1. Len(q) # 0 /\ head = q[1] /\ head \in Faults /\ head # f
    BY <1>1, <1>2, <1>12 DEF Empty, Chain
  <2>2. k < Len(q) /\ q[k + 1] = q[1]
    BY <1>1, <1>12, <2>1, QueueAssumption DEF At
  <2>3. k = 0
    BY <1>1, <1>10, <2>2
  <2>4. /\ head' = f /\ tail' = tail /\ nxt'[f] = head /\ prv'[f] = NULL
        /\ nxt' \in [Faults -> Pointers] /\ prv' \in [Faults -> Pointers]
    BY <1>8, <1>12, <2>1 DEF InsertAtHead
  <2>5. \A i \in 1..Len(q) : nxt'[q[i]] = nxt[q[i]] /\ i # k
    BY <1>1, <1>2, <1>8, <1>12, <2>3 DEF InsertAtHead
  <2>6. \A i \in 1..Len(q) : prv'[q[i]] = IF i = k + 1 THEN f ELSE prv[q[i]]
    <3>1. prv' = [prv EXCEPT ![f] = NULL, ![head] = f] /\ DOMAIN prv = Faults
      BY <1>8, <1>12, Zenon DEF InsertAtHead
    <3>2. prv'[head] = f /\ \A x \in Faults : x # head /\ x # f => prv'[x] = prv[x]
      BY <2>1, <3>1, Zenon
    <3>3. 1 \in 1..Len(q) /\ k + 1 = 1
      BY <1>1, <2>1, <2>3
    <3>4. ASSUME NEW i \in 1..Len(q) PROVE prv'[q[i]] = IF i = 1 THEN f ELSE prv[q[i]]
      <4>1. q[i] \in Faults /\ q[i] # f /\ (i # 1 => q[i] # head)
        BY <1>1, <1>2, <1>10, <2>1, <3>3, Zenon
      <4> QED BY <2>1, <3>2, <4>1, Zenon
    <3> QED BY <3>3, <3>4, Zenon
  <2> HIDE DEF Linked
  <2>7. Chain(Ins(q, k, f), head', tail', nxt', prv')
    <3>1. PutIn(q, k, f, head, tail, nxt, prv, head', tail', nxt', prv')
      BY <1>2, <1>12, <2>2, <2>3, <2>4, <2>5, <2>6 DEF PutIn
    <3> QED BY <3>1, InsChain, Zenon
  <2> QED
    BY <1>8, <2>4, <2>7 DEF Linked
<1>13. ASSUME At(q, k) \in Faults \ {head}, InsertBetween(f, At(q, k)) PROVE Linked
  <2>1. k < Len(q) /\ At(q, k) = q[k + 1]
    BY <1>1, <1>13, QueueAssumption, ZenonT(30) DEF At
  <2>2. k # 0 /\ k \in 1..Len(q) /\ k + 1 \in 1..Len(q)
    BY <1>1, <1>13, <2>1 DEF Chain
  <2>3. prv[q[k + 1]] = q[k] /\ q[k] \in Faults /\ q[k + 1] \in Faults
    BY <1>1, <2>2 DEF Chain
  <2>4. /\ nxt' = [nxt EXCEPT ![q[k]] = f, ![f] = q[k + 1]]
        /\ prv' = [prv EXCEPT ![f] = q[k], ![q[k + 1]] = f]
        /\ head' = head /\ tail' = tail
    BY <1>13, <2>1, <2>3, ZenonT(30) DEF InsertBetween
  <2>5. /\ nxt'[f] = q[k + 1] /\ prv'[f] = q[k]
        /\ nxt' \in [Faults -> Pointers] /\ prv' \in [Faults -> Pointers]
    BY <1>2, <1>8, <2>2, <2>3, <2>4, ZenonT(30)
  <2>6. \A i \in 1..Len(q) : nxt'[q[i]] = IF i = k THEN f ELSE nxt[q[i]]
    BY <1>1, <1>2, <1>8, <1>10, <2>2, <2>4, ZenonT(30)
  <2>7. \A i \in 1..Len(q) : prv'[q[i]] = IF i = k + 1 THEN f ELSE prv[q[i]]
    BY <1>1, <1>2, <1>8, <1>10, <2>2, <2>4, ZenonT(30)
  <2> HIDE DEF Linked
  <2>8. Chain(Ins(q, k, f), head', tail', nxt', prv')
    <3>1. k # 0 /\ k # Len(q) /\ head' = head /\ tail' = tail
      BY <1>1, <2>1, <2>2, <2>4
    <3>2. nxt'[f] = At(q, k) /\ prv'[f] = q[k]
      BY <2>1, <2>5
    <3>3. PutIn(q, k, f, head, tail, nxt, prv, head', tail', nxt', prv')
      BY <1>2, <2>6, <2>7, <3>1, <3>2, Zenon DEF PutIn
    <3> QED BY <3>3, InsChain, Zenon
  <2> QED
    BY <1>8, <2>4, <2>5, <2>8, ZenonT(30) DEF Linked
<1>14. Linked
  <2> HIDE DEF Linked
  <2> QED
    BY <1>7, <1>9, <1>11, <1>12, <1>13, ZenonT(30)
<1>15. timing' \in [Faults -> Timings]
  BY <1>7 DEF TypeOK
<1>16. TypeOK'
  BY <1>7, <1>14, <1>15, Zenon DEF TypeOK
<1> QED
  BY <1>2, <1>3, <1>7, <1>14, <1>16, ZenonT(30)

(* remove() of the k-th fault takes it out of q. *)
LEMMA RemoveStep ==
    ASSUME TypeOK, NEW q, Chain(q, head, tail, nxt, prv),
           NEW k \in 1..Len(q), Remove(q[k])
    PROVE  /\ head' \in Pointers /\ tail' \in Pointers
           /\ nxt' \in [Faults -> Pointers] /\ prv' \in [Faults -> Pointers]
           /\ timing' = timing /\ crashed' = FALSE
           /\ Chain(Del(q, k), head', tail', nxt', prv')
<1> DEFINE f == q[k]
<1>1. q \in Seq(Faults) /\ Len(q) \in Nat /\ \A i \in 1..Len(q) : q[i] \in Faults
  BY DEF Chain
<1>2. \A i, j \in 1..Len(q) : q[i] = q[j] => i = j
  BY DEF Chain
<1>3. Seek(Faults \ {f}) = f
  <2>1. k - 1 \in 0..Len(q) /\ k - 1 < Len(q) /\ (k - 1) + 1 = k
    BY <1>1
  <2>2. \A i \in 1..(k - 1) : q[i] \in Faults \ {f}
    BY <1>1, <1>2
  <2>3. Faults \ {f} \in SUBSET Faults /\ q[(k - 1) + 1] \notin Faults \ {f}
    BY <2>1
  <2>4. Seek(Faults \ {f}) = At(q, k - 1)
    BY <2>1, <2>2, <2>3, SeekIs, ZenonT(30)
  <2> QED
    BY <1>1, <2>1, <2>4, AtFacts
<1>4. nxt[f] = At(q, k) /\ prv[f] = IF k = 1 THEN NULL ELSE q[k - 1]
  BY <1>1 DEF Chain, At
<1>5. At(q, k) # Wild /\ NULL # Wild /\ NULL \notin Faults /\ Wild \notin Faults
  BY <1>1, QueueAssumption DEF At
<1>6. Wild \notin {nxt[f], prv[f]}
  BY <1>1, <1>4, <1>5
<1>7. Unlink(f) /\ crashed' = FALSE /\ timing' = timing
  BY <1>1, <1>3, <1>6 DEF Remove
<1>8. /\ nxt \in [Faults -> Pointers] /\ prv \in [Faults -> Pointers]
      /\ head \in Pointers /\ tail \in Pointers /\ f \in Faults
  BY <1>1 DEF TypeOK
<1>9. /\ head' \in Pointers /\ tail' \in Pointers
      /\ nxt' \in [Faults -> Pointers] /\ prv' \in [Faults -> Pointers]
  BY <1>7, <1>8, Zenon DEF Unlink
<1>10. prv[f] = NULL <=> k = 1
  BY <1>1, <1>4, <1>5
<1>11. nxt[f] = NULL <=> k = Len(q)
  BY <1>1, <1>4, <1>5 DEF At
<1>12. head' = IF k = 1 THEN At(q, k) ELSE head
  BY <1>4, <1>7, <1>10, ZenonT(30) DEF Unlink
<1>13. tail' = IF k # Len(q) THEN tail ELSE IF k = 1 THEN NULL ELSE q[k - 1]
  BY <1>4, <1>7, <1>11, ZenonT(30) DEF Unlink
<1>14. ASSUME NEW i \in 1..Len(q), i # k
       PROVE  nxt'[q[i]] = IF i = k - 1 THEN nxt[f] ELSE nxt[q[i]]
  <2>1. CASE k = 1
    BY <1>1, <1>7, <1>10, <2>1 DEF Unlink
  <2>2. CASE k # 1
    <3>1. nxt' = [nxt EXCEPT ![q[k - 1]] = nxt[f]] /\ k - 1 \in 1..Len(q)
      BY <1>1, <1>4, <1>7, <1>10, <2>2 DEF Unlink
    <3>2. q[i] = q[k - 1] <=> i = k - 1
      BY <1>2, <3>1, ZenonT(30)
    <3> QED
      BY <1>1, <1>8, <3>1, <3>2, ZenonT(30)
  <2> QED
    BY <2>1, <2>2, ZenonT(30)
<1>15. ASSUME NEW i \in 1..Len(q), i # k
       PROVE  prv'[q[i]] = IF i = k + 1 THEN prv[f] ELSE prv[q[i]]
  <2>1. CASE k = Len(q)
    BY <1>1, <1>7, <1>11, <2>1 DEF Unlink
  <2>2. CASE k # Len(q)
    <3>1. prv' = [prv EXCEPT ![q[k + 1]] = prv[f]] /\ k + 1 \in 1..Len(q)
      <4>1. nxt[f] = q[k + 1] /\ nxt[f] # NULL /\ k + 1 \in 1..Len(q)
        BY <1>1, <1>4, <1>11, <2>2 DEF At
      <4> QED
        BY <1>7, <4>1, ZenonT(30) DEF Unlink
    <3>2. q[i] = q[k + 1] <=> i = k + 1
      BY <1>2, <3>1, ZenonT(30)
    <3> QED
      BY <1>1, <1>8, <3>1, <3>2, ZenonT(30)
  <2> QED
    BY <2>1, <2>2, ZenonT(30)
<1>16. Chain(Del(q, k), head', tail', nxt', prv')
  <2>1. \A i \in 1..Len(q) : i # k =>
            nxt'[q[i]] = IF i = k - 1 THEN nxt[q[k]] ELSE nxt[q[i]]
    BY <1>14
  <2>2. \A i \in 1..Len(q) : i # k =>
            prv'[q[i]] = IF i = k + 1 THEN prv[q[k]] ELSE prv[q[i]]
    BY <1>15, ZenonT(30)
  <2>3. PassOver(q, k, head, tail, nxt, prv, head', tail', nxt', prv')
    BY <1>12, <1>13, <2>1, <2>2, ZenonT(30) DEF PassOver
  <2> QED
    BY <2>3, DelChain, ZenonT(30)
<1> QED
  BY <1>7, <1>9, <1>16

LEMMA InsAscending ==
    ASSUME TypeOK, NEW q \in Seq(Faults), Ascending(q, timing),
           NEW f \in Faults, \A i \in 1..Len(q) : q[i] # f,
           NEW t \in Timings, timing' = [timing EXCEPT ![f] = t],
           NEW k \in 0..Len(q), Front(q, Passed(t), k)
    PROVE  Ascending(Ins(q, k, f), timing')
<1> DEFINE r == Ins(q, k, f)
<1>1. /\ r \in Seq(Faults) /\ Len(r) = Len(q) + 1 /\ Len(q) \in Nat
      /\ \A i \in 1..k : r[i] = q[i]
      /\ r[k + 1] = f
      /\ \A i \in 1..(Len(q) + 1) : i > k + 1 => i - 1 \in 1..Len(q) /\ r[i] = q[i - 1]
  <2>1. Inserted(r, q, k, f)
    BY InsFacts, Zenon
  <2> HIDE DEF r
  <2> QED BY <2>1, Zenon DEF Inserted
<1> HIDE DEF r
<1>2. /\ timing'[f] = t /\ t \in Nat
      /\ \A i \in 1..Len(q) : timing'[q[i]] = timing[q[i]] /\ timing[q[i]] \in Nat
  BY DEF TypeOK, Timings
<1>3. /\ \A i \in 1..k : timing[q[i]] < t
      /\ k < Len(q) => t <= timing[q[k + 1]]
  BY <1>1, <1>2 DEF Front, Passed
<1>4. ASSUME NEW i \in 2..Len(r) PROVE timing'[r[i - 1]] <= timing'[r[i]]
  <2>1. CASE i <= k
    <3>1. r[i] = q[i] /\ r[i - 1] = q[i - 1] /\ i \in 2..Len(q) /\ i - 1 \in 1..Len(q)
      BY <1>1, <2>1
    <3> QED
      BY <1>2, <3>1 DEF Ascending
  <2>2. CASE i = k + 1
    <3>1. r[i] = f /\ r[i - 1] = q[k] /\ k \in 1..k /\ k \in 1..Len(q)
      BY <1>1, <2>2
    <3> QED
      BY <1>2, <1>3, <3>1
  <2>3. CASE i = k + 2
    <3>1. r[i] = q[k + 1] /\ r[i - 1] = f /\ k + 1 \in 1..Len(q) /\ k < Len(q)
      BY <1>1, <2>3
    <3> QED
      BY <1>2, <1>3, <3>1, ZenonT(30)
  <2>4. CASE i > k + 2
    <3>1. /\ r[i] = q[i - 1] /\ r[i - 1] = q[(i - 1) - 1]
          /\ i - 1 \in 2..Len(q) /\ (i - 1) - 1 \in 1..Len(q) /\ i - 1 \in 1..Len(q)
      BY <1>1, <2>4
    <3> QED
      BY <1>2, <3>1, ZenonT(30) DEF Ascending
  <2> QED
    BY <1>1, <2>1, <2>2, <2>3, <2>4
<1>5. Ascending(r, timing')
  BY <1>4 DEF Ascending
<1> QED
  BY <1>5, ZenonT(30) DEF r

---------------------------------------------------------------------------
LEMMA QueueInit == Init => TypeOK /\ ~crashed /\ Holds(<<>>)
<1>1. SUFFICES ASSUME Init PROVE TypeOK /\ ~crashed /\ Holds(<<>>)
  OBVIOUS
<1>2. 0 \in Timings /\ {0} \subseteq Timings /\ NULL \in Pointers
  BY QueueAssumption DEF Timings, Pointers
<1>3. TypeOK /\ ~crashed
  BY <1>1, <1>2, Zenon DEF Init, TypeOK
<1>4. << >> \in Seq(Faults) /\ Len(<< >>) = 0
  OBVIOUS
<1> QED
  BY <1>1, <1>3, <1>4 DEF Init, Holds, Chain, Ascending

(* What remove() and a reschedule do to the queue, in one place: the step  *)
(* of a fault that struck.                                                 *)
LEMMA StrikeStep ==
    ASSUME TypeOK, ~crashed, NEW q, Holds(q), NEW f \in Faults, Strike(f)
    PROVE  /\ TypeOK' /\ ~crashed'
           /\ \E k \in 1..Len(q) :
                /\ q[k] = f
                /\ \/ Holds(Del(q, k))' /\ timing' = timing
                   \/ /\ Holds(q)'
                      /\ \E t \in Timings : t > timing[f] /\ timing' = [timing EXCEPT ![f] = t]
<1>1. Chain(q, head, tail, nxt, prv) /\ q \in Seq(Faults)
  BY DEF Holds, Chain
<1>2. PICK k \in 1..Len(q) : q[k] = f
  <2>1. Length = Len(q) /\ Contents = q /\ Queued(f)
    BY <1>1, ContentsIs DEF Strike
  <2> QED
    BY <2>1 DEF Queued
<1>3. phase = "run" /\ phase' = phase
  BY DEF Strike
<1>4. CASE Remove(f)
  <2>1. /\ head' \in Pointers /\ tail' \in Pointers
        /\ nxt' \in [Faults -> Pointers] /\ prv' \in [Faults -> Pointers]
        /\ timing' = timing /\ crashed' = FALSE
        /\ Chain(Del(q, k), head', tail', nxt', prv')
    BY <1>1, <1>2, <1>4, RemoveStep, Zenon
  <2>2. TypeOK'
    BY <1>3, <2>1, Zenon DEF TypeOK
  <2> QED
    BY <1>2, <1>3, <2>1, <2>2, ZenonT(30) DEF Holds
<1>5. CASE /\ \E t \in Timings : t > timing[f] /\ timing' = [timing EXCEPT ![f] = t]
           /\ UNCHANGED <<head, tail, nxt, prv, crashed>>
  <2>1. TypeOK'
    BY <1>3, <1>5 DEF TypeOK
  <2>2. Holds(q)'
    BY <1>1, <1>3, <1>5 DEF Holds
  <2> QED
    BY <1>2, <1>5, <2>1, <2>2, Zenon
<1> QED
  BY <1>4, <1>5 DEF Strike

LEMMA DeleteStep ==
    ASSUME TypeOK, ~crashed, NEW q, Holds(q), DeleteFaults
    PROVE  /\ TypeOK' /\ ~crashed' /\ timing' = timing
           /\ \/ Holds(q)'
              \/ 1 \in 1..Len(q) /\ Holds(Del(q, 1))'
<1>1. Chain(q, head, tail, nxt, prv) /\ q \in Seq(Faults) /\ Len(q) \in Nat
  BY DEF Holds, Chain
<1>2. Empty <=> Len(q) = 0
  BY <1>1, QueueAssumption DEF Empty, Chain
<1>3. phase = "clear"
  BY DEF DeleteFaults
<1>4. CASE ~Empty /\ Remove(head) /\ UNCHANGED phase
  <2>1. 1 \in 1..Len(q) /\ head = q[1]
    BY <1>1, <1>2, <1>4 DEF Chain
  <2>2. Remove(q[1])
    BY <1>4, <2>1
  <2>3. /\ head' \in Pointers /\ tail' \in Pointers
        /\ nxt' \in [Faults -> Pointers] /\ prv' \in [Faults -> Pointers]
        /\ timing' = timing /\ crashed' = FALSE
        /\ Chain(Del(q, 1), head', tail', nxt', prv')
    BY <1>1, <2>1, <2>2, RemoveStep, Zenon
  <2>4. TypeOK'
    BY <1>4, <2>3, Zenon DEF TypeOK
  <2> QED
    BY <1>3, <1>4, <2>1, <2>3, <2>4, ZenonT(30) DEF Holds
<1>5. CASE /\ Empty /\ phase' = "load"
           /\ UNCHANGED <<head, tail, nxt, prv, timing, crashed>>
  <2>1. TypeOK'
    BY <1>5 DEF TypeOK
  <2>2. Ascending(q, timing)'
    BY <1>1, <1>2, <1>5 DEF Ascending
  <2> QED
    BY <1>1, <1>5, <2>1, <2>2 DEF Holds
<1> QED
  BY <1>4, <1>5, ZenonT(30) DEF DeleteFaults

(* Scan, Loaded, Reset and a stuttering step leave the queue alone. *)
LEMMA QuietStep ==
    ASSUME TypeOK, ~crashed, NEW q, Holds(q),
           Scan \/ Loaded \/ Reset \/ UNCHANGED vars
    PROVE  TypeOK' /\ ~crashed' /\ Holds(q)' /\ timing' = timing
<1>1. Chain(q, head, tail, nxt, prv) /\ q \in Seq(Faults) /\ Len(q) \in Nat
  BY DEF Holds, Chain
<1>2. CASE Scan
  <2>1. Seek(Faults) = At(q, Len(q))
    BY <1>1, SeekIs
  <2>2. Seek(Faults) # Wild
    BY <1>1, <2>1, AtFacts, QueueAssumption
  <2>3. crashed' = FALSE /\ UNCHANGED <<head, tail, nxt, prv, timing, phase>>
    BY <1>2, <2>2, Zenon DEF Scan
  <2> QED
    BY <2>3, Zenon DEF TypeOK, Holds
<1>3. CASE Loaded
  BY <1>3 DEF Loaded, TypeOK, Holds
<1>4. CASE Reset
  BY <1>4 DEF Reset, TypeOK, Holds
<1>5. CASE UNCHANGED vars
  BY <1>5 DEF vars, TypeOK, Holds
<1> QED
  BY <1>2, <1>3, <1>4, <1>5, ZenonT(30)

LEMMA InsertKeeps ==
    ASSUME Fresh = {NULL}, TypeOK, ~crashed, NEW q, Holds(q),
           NEW f \in Faults, NEW t \in Timings, Insert(f, t)
    PROVE  /\ TypeOK' /\ ~crashed'
           /\ \A i \in 1..Len(q) : q[i] # f
           /\ \E k \in 0..Len(q) : Front(q, Passed(t), k) /\ Holds(Ins(q, k, f))'
<1>1. Chain(q, head, tail, nxt, prv) /\ q \in Seq(Faults) /\ Len(q) \in Nat
  BY DEF Holds, Chain
<1>2. /\ TypeOK' /\ crashed' = FALSE
      /\ \A i \in 1..Len(q) : q[i] # f
  BY <1>1, InsertStep, Zenon
<1>3. PICK k \in 0..Len(q) : /\ Front(q, Passed(t), k)
                             /\ Chain(Ins(q, k, f), head', tail', nxt', prv')
  BY <1>1, InsertStep, ZenonT(30)
<1>4. phase = "load" /\ timing' = [timing EXCEPT ![f] = t]
  BY DEF Insert
<1>5. Ascending(Ins(q, k, f), timing')
  BY <1>1, <1>2, <1>3, <1>4, InsAscending, Zenon DEF Holds
<1> QED
  BY <1>2, <1>3, <1>5, ZenonT(30) DEF Holds

LEMMA QueueStep ==
    ASSUME Fresh = {NULL}, QueueInv, [Next]_vars
    PROVE  QueueInv'
<1>1. TypeOK /\ ~crashed
  BY DEF QueueInv
<1>2. PICK q \in Seq(Faults) : Holds(q)
  BY DEF QueueInv
<1>3. ASSUME TypeOK', ~crashed', NEW r, Holds(r)' PROVE QueueInv'
  BY <1>3 DEF QueueInv, Holds, Chain
<1>4. ASSUME NEW f \in Faults, NEW t \in Timings, Insert(f, t) PROVE QueueInv'
  <2>1. TypeOK' /\ ~crashed' /\ \E k \in 0..Len(q) : Holds(Ins(q, k, f))'
    BY <1>1, <1>2, <1>4, InsertKeeps, ZenonT(30)
  <2> QED
    BY <1>3, <2>1
<1>5. ASSUME NEW f \in Faults, Strike(f) PROVE QueueInv'
  <2>1. TypeOK' /\ ~crashed' /\ \E k \in 1..Len(q) : Holds(Del(q, k))' \/ Holds(q)'
    BY <1>1, <1>2, <1>5, StrikeStep, ZenonT(30)
  <2> QED
    BY <1>3, <2>1
<1>6. CASE DeleteFaults
  <2>1. TypeOK' /\ ~crashed' /\ (Holds(q)' \/ Holds(Del(q, 1))')
    BY <1>1, <1>2, <1>6, DeleteStep, ZenonT(30)
  <2> QED
    BY <1>3, <2>1
<1>7. CASE Scan \/ Loaded \/ Reset \/ UNCHANGED vars
  BY <1>1, <1>2, <1>3, <1>7, QuietStep
<1> QED
  BY <1>4, <1>5, <1>6, <1>7 DEF Next

LEMMA QueueInvariance == ASSUME Fresh = {NULL} PROVE Spec => []QueueInv
<1>1. Init => QueueInv
  BY QueueInit, Zenon DEF QueueInv, Holds, Chain
<1>2. QueueInv /\ [Next]_vars => QueueInv'
  BY QueueStep
<1> QED
  BY <1>1, <1>2, PTL DEF Spec

LEMMA ContentsOf ==
    \A q : Chain(q, head, tail, nxt, prv) => Length = Len(q) /\ Contents = q
  BY ContentsIs

(* With zeroed memory no traversal of insert, remove or scan follows a     *)
(* wild pointer, and remove finds every fault it is given: for every set   *)
(* of faults, not only for three of them.                                  *)
THEOREM Unbroken == ASSUME Fresh = {NULL} PROVE Spec => []NeverCrashes
<1>1. QueueInv => NeverCrashes
  BY DEF QueueInv, NeverCrashes
<1> QED
  BY <1>1, QueueInvariance, PTL

(* Head, tail and both directions of the links agree after every insert    *)
(* and remove.                                                             *)
THEOREM Doubly == ASSUME Fresh = {NULL} PROVE Spec => []LinksAgree
<1>1. QueueInv => LinksAgree
  <2>1. SUFFICES ASSUME QueueInv PROVE LinksAgree
    OBVIOUS
  <2>2. PICK q \in Seq(Faults) : Chain(q, head, tail, nxt, prv)
    BY <2>1 DEF QueueInv, Holds
  <2>3. Length = Len(q) /\ Contents = q /\ Len(q) \in Nat /\ TypeOK
    BY <2>1, <2>2, ContentsIs DEF QueueInv
  <2>4. q = << >> => Empty
    BY <2>2 DEF Chain, Empty
  <2>5. ASSUME q # << >>
        PROVE  /\ head = q[1] /\ tail = q[Len(q)]
               /\ prv[head] = NULL /\ nxt[tail] = NULL
               /\ \A i \in 2..Len(q) : prv[q[i]] = q[i - 1]
    <3>1. Len(q) # 0
      BY <2>5
    <3>2. head = q[1] /\ tail = q[Len(q)] /\ 1 \in 1..Len(q) /\ Len(q) \in 1..Len(q)
      BY <2>2, <2>3, <3>1 DEF Chain
    <3>3. prv[head] = NULL /\ nxt[tail] = NULL
      BY <2>2, <3>2, ZenonT(30) DEF Chain
    <3>4. \A i \in 2..Len(q) : prv[q[i]] = q[i - 1]
      BY <2>2, <2>3 DEF Chain
    <3> QED
      BY <3>2, <3>3, <3>4
  <2> QED
    BY <2>3, <2>4, <2>5 DEF LinksAgree
<1> QED
  BY <1>1, QueueInvariance, PTL

(* "The faults are entered in a ascending order based on their timing      *)
(* value."                                                                 *)
THEOREM Ordered == ASSUME Fresh = {NULL} PROVE Spec => []EnteredAscending
<1>1. QueueInv => EnteredAscending
  <2>1. SUFFICES ASSUME QueueInv, phase = "load"
                 PROVE  \A i \in 2..Length : timing[Contents[i - 1]] <= timing[Contents[i]]
    BY DEF EnteredAscending
  <2>2. PICK q \in Seq(Faults) : Chain(q, head, tail, nxt, prv) /\ Ascending(q, timing)
    BY <2>1 DEF QueueInv, Holds
  <2>3. Length = Len(q) /\ Contents = q
    BY <2>2, ContentsIs
  <2> QED
    BY <2>2, <2>3 DEF Ascending
<1> QED
  BY <1>1, QueueInvariance, PTL

---------------------------------------------------------------------------
LEMMA Suffix ==
    ASSUME NEW q \in Seq(Faults), NEW k \in 0..Len(q)
    PROVE  /\ SubSeq(q, k + 1, Len(q)) \in Seq(Faults)
           /\ Len(SubSeq(q, k + 1, Len(q))) = Len(q) - k
           /\ \A i \in 1..(Len(q) - k) : SubSeq(q, k + 1, Len(q))[i] = q[k + i]
  OBVIOUS

LEMMA SeqIsFunction ==
    ASSUME NEW S, NEW c \in Seq(S)
    PROVE  c = [i \in 1..Len(c) |-> c[i]]
OBVIOUS

(* Ins and Del as the abstract list writes them. *)
LEMMA AbstractIns ==
    ASSUME NEW q \in Seq(Faults), NEW k \in 0..Len(q), NEW f \in Faults
    PROVE  Ins(q, k, f) = SubSeq(q, 1, k) \o <<f>> \o SubSeq(q, k + 1, Len(q))
<1> DEFINE a == SubSeq(q, 1, k)
           b == SubSeq(q, k + 1, Len(q))
<1>1. Len(q) \in Nat /\ k \in Nat /\ (k + 1) - 1 = k
  OBVIOUS
<1>2. a \in Seq(Faults) /\ Len(a) = k /\ \A i \in 1..k : a[i] = q[i]
  BY <1>1
<1>3. b \in Seq(Faults) /\ Len(b) = Len(q) - k /\ \A i \in 1..(Len(q) - k) : b[i] = q[k + i]
  BY <1>1, Suffix
<1> HIDE DEF a, b
<1>4. /\ a \o <<f>> \in Seq(Faults) /\ Len(a \o <<f>>) = k + 1
      /\ \A i \in 1..k : (a \o <<f>>)[i] = q[i]
      /\ (a \o <<f>>)[k + 1] = f
  BY <1>1, <1>2
<1> DEFINE s == a \o <<f>>
<1>5. /\ s \o b \in Seq(Faults) /\ Len(s \o b) = Len(q) + 1
      /\ \A i \in 1..(Len(q) + 1) : (s \o b)[i] = IF i <= k + 1 THEN s[i] ELSE b[i - (k + 1)]
  <2> HIDE DEF s
  <2> QED
    BY <1>1, <1>3, <1>4 DEF s
<1>6. ASSUME NEW i \in 1..(Len(q) + 1)
      PROVE  (s \o b)[i] = IF i <= k THEN q[i] ELSE IF i = k + 1 THEN f ELSE q[i - 1]
  <2>1. CASE i <= k + 1
    BY <1>1, <1>4, <1>5, <2>1
  <2>2. CASE i > k + 1
    <3>1. (s \o b)[i] = b[i - (k + 1)]
      BY <1>1, <1>5, <2>2
    <3>2. i - (k + 1) \in 1..(Len(q) - k) /\ k + (i - (k + 1)) = i - 1
      BY <1>1, <2>2
    <3>3. b[i - (k + 1)] = q[k + (i - (k + 1))]
      BY <1>3, <3>2
    <3>4. ~ (i <= k) /\ i # k + 1
      BY <1>1, <2>2
    <3> QED
      BY <3>1, <3>2, <3>3, <3>4, Zenon
  <2>3. i <= k + 1 \/ i > k + 1
    BY <1>1
  <2> QED
    BY <2>1, <2>2, <2>3, Zenon
<1>7. s \o b = Ins(q, k, f)
  <2> HIDE DEF s
  <2>1. s \o b = [i \in 1..Len(s \o b) |-> (s \o b)[i]]
    BY <1>5, SeqIsFunction, Zenon
  <2> QED
    BY <1>5, <1>6, <2>1, Zenon DEF Ins
<1> QED
  BY <1>1, <1>7, Zenon DEF a, b

LEMMA AbstractDel ==
    ASSUME NEW q \in Seq(Faults), NEW k \in 1..Len(q)
    PROVE  Del(q, k) = SubSeq(q, 1, k - 1) \o SubSeq(q, k + 1, Len(q))
<1> DEFINE a == SubSeq(q, 1, k - 1)
           b == SubSeq(q, k + 1, Len(q))
<1>1. Len(q) \in Nat /\ k \in Nat /\ k - 1 \in Nat /\ Len(q) - k \in Nat
  OBVIOUS
<1>2. a \in Seq(Faults) /\ Len(a) = k - 1 /\ \A i \in 1..(k - 1) : a[i] = q[i]
  BY <1>1
<1>3. b \in Seq(Faults) /\ Len(b) = Len(q) - k /\ \A i \in 1..(Len(q) - k) : b[i] = q[k + i]
  BY <1>1, Suffix
<1> HIDE DEF a, b
<1>4. /\ a \o b \in Seq(Faults) /\ Len(a \o b) = Len(q) - 1
      /\ \A i \in 1..(Len(q) - 1) : (a \o b)[i] = IF i <= k - 1 THEN a[i] ELSE b[i - (k - 1)]
  <2>1. Len(a) + Len(b) = Len(q) - 1
    BY <1>1, <1>2, <1>3
  <2>2. /\ a \o b \in Seq(Faults) /\ Len(a \o b) = Len(a) + Len(b)
        /\ \A i \in 1..(Len(a) + Len(b)) : (a \o b)[i] = IF i <= Len(a) THEN a[i] ELSE b[i - Len(a)]
    BY <1>2, <1>3, ConcatProperties, ZenonT(30)
  <2> QED
    BY <1>2, <2>1, <2>2
<1>5. ASSUME NEW i \in 1..(Len(q) - 1)
      PROVE  (a \o b)[i] = IF i < k THEN q[i] ELSE q[i + 1]
  <2>1. CASE i < k
    BY <1>1, <1>2, <1>4, <2>1
  <2>2. CASE i >= k
    <3>1. (a \o b)[i] = b[i - (k - 1)]
      BY <1>1, <1>4, <2>2
    <3>2. i - (k - 1) \in 1..(Len(q) - k) /\ k + (i - (k - 1)) = i + 1
      BY <1>1, <2>2
    <3>3. b[i - (k - 1)] = q[k + (i - (k - 1))]
      BY <1>3, <3>2
    <3>4. ~ (i < k)
      BY <1>1, <2>2
    <3> QED
      BY <3>1, <3>2, <3>3, <3>4
  <2>3. i < k \/ i >= k
    BY <1>1
  <2> QED
    BY <2>1, <2>2, <2>3, Zenon
<1>6. /\ Del(q, k) \in Seq(Faults) /\ Len(Del(q, k)) = Len(q) - 1
      /\ \A i \in 1..(Len(q) - 1) : Del(q, k)[i] = IF i < k THEN q[i] ELSE q[i + 1]
  BY DelFacts DEF Del
<1>7. \A i \in 1..Len(a \o b) : (a \o b)[i] = Del(q, k)[i]
  BY <1>4, <1>5, <1>6, Zenon
<1>8. a \o b = Del(q, k)
  BY <1>4, <1>6, <1>7, SeqEqual, Zenon
<1> QED
  BY <1>8, Zenon DEF a, b

(* The faults that the abstract list counts as earlier are the front of q. *)
LEMMA Earlier ==
    ASSUME NEW q \in Seq(Faults), NEW t, NEW k \in 0..Len(q), Front(q, Passed(t), k)
    PROVE  Cardinality({i \in DOMAIN q : \A j \in 1..i : timing[q[j]] < t}) = k
<1>1. Len(q) \in Nat /\ k \in Nat /\ DOMAIN q = 1..Len(q) /\ \A i \in 1..Len(q) : q[i] \in Faults
  OBVIOUS
<1>2. \A i \in 1..k : timing[q[i]] < t
  BY DEF Front, Passed
<1>3. k < Len(q) => ~ (timing[q[k + 1]] < t)
  BY <1>1 DEF Front, Passed
<1>4. {i \in DOMAIN q : \A j \in 1..i : timing[q[j]] < t} = 1..k
  <2>1. ASSUME NEW i \in 1..Len(q), \A j \in 1..i : timing[q[j]] < t PROVE i \in 1..k
    <3>1. i > k => k < Len(q) /\ k + 1 \in 1..i
      BY <1>1
    <3>2. ~ (i > k)
      BY <1>3, <2>1, <3>1
    <3> QED
      BY <1>1, <3>2
  <2>2. ASSUME NEW i \in 1..k PROVE i \in 1..Len(q) /\ \A j \in 1..i : timing[q[j]] < t
    BY <1>1, <1>2
  <2> QED
    BY <1>1, <2>1, <2>2
<1>5. Cardinality(1..k) = k
  BY <1>1, FS_Interval
<1> QED
  BY <1>4, <1>5, Zenon

LEMMA ListInitially ==
    ASSUME Init PROVE Abstract!ListInit
<1>1. Contents = << >>
  BY QueueInit, ContentsOf DEF Holds
<1>2. timing \in [Faults -> Timings]
  BY QueueAssumption DEF Init, Timings
<1> QED
  BY <1>1, <1>2 DEF Abstract!ListInit

(* Every step of the linked list is a step of the abstract list or leaves  *)
(* it alone.                                                               *)
LEMMA ListStep ==
    ASSUME Fresh = {NULL}, QueueInv, [Next]_vars,
           (\A q : Chain(q, head, tail, nxt, prv) => Length = Len(q) /\ Contents = q)'
    PROVE  [Abstract!ListNext]_<<Contents, timing>>
<1>1. TypeOK /\ ~crashed
  BY DEF QueueInv
<1>2. PICK q \in Seq(Faults) : Holds(q)
  BY DEF QueueInv
<1>3. Contents = q /\ DOMAIN q = 1..Len(q)
  BY <1>2, ContentsOf DEF Holds
<1>4. ASSUME NEW r, Holds(r)' PROVE Contents' = r
  BY <1>4 DEF Holds
<1> HIDE DEF Contents
<1>5. ASSUME NEW f \in Faults, NEW t \in Timings, Insert(f, t) PROVE Abstract!ListNext
  <2>1. PICK k \in 0..Len(q) : Front(q, Passed(t), k) /\ Holds(Ins(q, k, f))'
    BY <1>1, <1>2, <1>5, InsertKeeps
  <2>2. Contents' = Ins(q, k, f)
    BY <1>4, <2>1
  <2>3. Cardinality({i \in DOMAIN q : \A j \in 1..i : timing[q[j]] < t}) = k
    BY <2>1, Earlier
  <2>4. Contents' = SubSeq(q, 1, k) \o <<f>> \o SubSeq(q, k + 1, Len(q))
    BY <2>2, AbstractIns, Zenon
  <2>5. \A i \in DOMAIN q : q[i] # f
    BY <1>1, <1>2, <1>3, <1>5, InsertKeeps
  <2>6. timing' = [timing EXCEPT ![f] = t]
    BY <1>5 DEF Insert
  <2>7. f \notin Abstract!Queued
    BY <1>3, <2>5 DEF Abstract!Queued
  <2>8. Contents' = SubSeq(Contents, 1, k) \o <<f>> \o SubSeq(Contents, k + 1, Len(Contents))
    BY <1>3, <2>4, ZenonT(30)
  <2>9. Abstract!Enter(f, t)
    <3>1. Cardinality({i \in DOMAIN Contents : \A j \in 1..i : timing[Contents[j]] < t}) = k
      BY <1>3, <2>3
    <3>2. Abstract!Cardinality({i \in DOMAIN Contents : \A j \in 1..i : timing[Contents[j]] < t})
            = k
      BY <3>1 DEF Cardinality, Abstract!Cardinality
    <3> QED
      BY <2>6, <2>7, <2>8, <3>2, Zenon DEF Abstract!Enter
  <2> QED
    BY <2>9 DEF Abstract!ListNext
<1>6. ASSUME NEW k \in 1..Len(q), Holds(Del(q, k))', timing' = timing
      PROVE  Abstract!ListNext
  <2>1. Contents' = Del(q, k)
    BY <1>4, <1>6
  <2>2. Contents' = SubSeq(Contents, 1, k - 1) \o SubSeq(Contents, k + 1, Len(Contents))
    BY <1>3, <2>1, AbstractDel, Zenon
  <2>3. k \in DOMAIN Contents /\ Contents[k] = q[k] /\ q[k] \in Faults
    BY <1>3
  <2>4. Abstract!Take(q[k])
    BY <1>6, <2>2, <2>3, Zenon DEF Abstract!Take
  <2> QED
    BY <2>3, <2>4 DEF Abstract!ListNext
<1>7. ASSUME NEW f \in Faults, Strike(f) PROVE Abstract!ListNext
  <2>1. PICK k \in 1..Len(q) :
            /\ q[k] = f
            /\ \/ Holds(Del(q, k))' /\ timing' = timing
               \/ /\ Holds(q)'
                  /\ \E t \in Timings : t > timing[f] /\ timing' = [timing EXCEPT ![f] = t]
    BY <1>1, <1>2, <1>7, StrikeStep
  <2>2. CASE Holds(Del(q, k))' /\ timing' = timing
    BY <1>6, <2>2
  <2>3. CASE /\ Holds(q)'
             /\ \E t \in Timings : t > timing[f] /\ timing' = [timing EXCEPT ![f] = t]
    <3>1. Contents' = Contents
      BY <1>3, <1>4, <2>3, ZenonT(30)
    <3>2. f \in Abstract!Queued
      BY <1>3, <2>1 DEF Abstract!Queued
    <3>3. Abstract!Reschedule(f)
      BY <2>3, <3>1, <3>2, Zenon DEF Abstract!Reschedule
    <3> QED
      BY <3>3 DEF Abstract!ListNext
  <2> QED
    BY <2>1, <2>2, <2>3
<1>8. ASSUME DeleteFaults PROVE Abstract!ListNext \/ UNCHANGED <<Contents, timing>>
  <2>1. timing' = timing /\ (Holds(q)' \/ (1 \in 1..Len(q) /\ Holds(Del(q, 1))'))
    BY <1>1, <1>2, <1>8, DeleteStep
  <2> QED
    BY <1>3, <1>4, <1>6, <2>1
<1>9. ASSUME Scan \/ Loaded \/ Reset \/ UNCHANGED vars PROVE UNCHANGED <<Contents, timing>>
  <2>1. timing' = timing /\ Holds(q)'
    BY <1>1, <1>2, <1>9, QuietStep
  <2> QED
    BY <1>3, <1>4, <2>1
<1> QED
  BY <1>5, <1>7, <1>8, <1>9 DEF Next

(* The queue keeps its promise: the linked list, with the null pointers    *)
(* that insert relies on, implements the list of faults in which a new     *)
(* fault goes before the first one not due earlier, a fault that was used  *)
(* up is taken out and a rescheduled one keeps its place.                  *)
THEOREM Refinement == ASSUME Fresh = {NULL} PROVE Spec => ImplementsList
<1>1. Init => Abstract!ListInit
  BY ListInitially
<1>2. ASSUME QueueInv, [Next]_vars,
             (\A q : Chain(q, head, tail, nxt, prv) => Length = Len(q) /\ Contents = q)'
      PROVE  [Abstract!ListNext]_<<Contents, timing>>
  BY <1>2, ListStep
<1> QED
  BY <1>1, <1>2, QueueInvariance, ContentsOf, PTL DEF Spec, ImplementsList, Abstract!ListSpec

=============================================================================
