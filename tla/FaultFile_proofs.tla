--------------------------- MODULE FaultFile_proofs ---------------------------
(***************************************************************************)
(* What getFromFile makes of the lines of a fault file: what it extracts   *)
(* from a line, the fault it makes of it and the words it passes over, for *)
(* every file of the writers.                                              *)
(***************************************************************************)
EXTENDS FaultFile, Integers, TLAPS
LOCAL INSTANCE WellFoundedInduction

(* A set of natural numbers that is not empty has a least element.         *)
LEMMA NatMin ==
    ASSUME NEW S \in SUBSET Nat, S # {}
    PROVE  \E m \in S : \A k \in S : m <= k
<1>1. /\ IsWellFoundedOn(OpToRel(<, Nat), Nat)
      /\ \A k, m \in Nat : k < m => <<k, m>> \in OpToRel(<, Nat)
  BY NatLessThanWellFounded DEF OpToRel
<1>2. PICK R : /\ IsWellFoundedOn(R, Nat)
               /\ \A k, m \in Nat : k < m => <<k, m>> \in R
  BY <1>1, Zenon
<1>3. PICK m \in S : \A k \in S : ~ (<<k, m>> \in R)
  <2>1. IsWellFoundedOn(R, Nat) /\ S \subseteq Nat
    BY <1>2
  <2> QED
    BY <2>1, WFMin, Zenon
<1>4. \A k \in S : ~ (k < m)
  BY <1>2, <1>3, Zenon
<1>5. \A k \in S : m <= k
  BY <1>4
<1> QED
  BY <1>5

(* A set that holds 0 and, with every number below n, its successor, holds *)
(* all numbers up to n.                                                    *)
LEMMA UpTo ==
    ASSUME NEW n \in Nat, NEW S, 0 \in S,
           \A i \in Nat : i < n /\ i \in S => i + 1 \in S
    PROVE  \A i \in 0..n : i \in S
<1> DEFINE Bad == {i \in Nat : i <= n /\ i \notin S}
<1>1. SUFFICES ASSUME Bad # {} PROVE FALSE
  OBVIOUS
<1>2. PICK m \in Bad : \A k \in Bad : m <= k
  <2>1. Bad \in SUBSET Nat
    OBVIOUS
  <2> HIDE DEF Bad
  <2> QED
    BY <1>1, <2>1, NatMin
<1>3. m \in Nat /\ m # 0 /\ m - 1 \in Nat /\ m <= n /\ m \notin S
  BY <1>2
<1>4. m - 1 \in S
  BY <1>2, <1>3
<1>5. (m - 1) + 1 \in S
  BY <1>3, <1>4
<1> QED
  BY <1>3, <1>5
---------------------------------------------------------------------------
LEMMA SixWords ==
    ASSUME NEW S, NEW l \in Seq(S), Len(l) = 6
    PROVE  l # <<>> /\ Head(l) = l[1]
OBVIOUS

(* What the recursive functions of FaultFile are. *)
(* h is the history of getting values of these types from the stream. *)
Gets(h, stream, types) ==
    h = [n \in 0..Len(types) |-> IF n = 0 THEN stream ELSE Get(h[n - 1], types[n])]

LEMMA GetAllIs ==
    ASSUME NEW stream, NEW types, Len(types) \in Nat, NEW h, Gets(h, stream, types)
    PROVE  GetAll(stream, types) = h[Len(types)]
<1> DEFINE N == Len(types)
           Eq(g) == g = [n \in 0..N |-> IF n = 0 THEN stream ELSE Get(g[n - 1], types[n])]
           c == CHOOSE g : Eq(g)
<1>1. Eq(h)
  BY Zenon DEF Gets
<1>2. Eq(c)
  BY <1>1, ZenonT(30)
<1>3. GetAll(stream, types) = c[N]
  BY DEF GetAll
<1> HIDE DEF N, c
<1>4. N \in Nat
  BY DEF N
<1> DEFINE S == {n \in Nat : n <= N => c[n] = h[n]}
<1>5. 0 \in S
  BY <1>1, <1>2, <1>4
<1>6. ASSUME NEW n \in Nat, n < N, n \in S PROVE n + 1 \in S
  <2>1. n + 1 \in 0..N /\ n + 1 # 0 /\ (n + 1) - 1 = n /\ c[n] = h[n]
    BY <1>4, <1>6
  <2>2. c[n + 1] = Get(c[n], types[n + 1]) /\ h[n + 1] = Get(h[n], types[n + 1])
    BY <1>1, <1>2, <2>1, Zenon
  <2> QED BY <2>1, <2>2
<1> HIDE DEF S
<1>7. N \in S
  <2>1. \A n \in 0..N : n \in S
    BY <1>4, <1>5, <1>6, UpTo, Zenon
  <2> QED BY <1>4, <2>1
<1> QED BY <1>3, <1>4, <1>7 DEF N, S

LEMMA MeantIs ==
    ASSUME NEW fs, Len(fs) \in Nat
    PROVE  /\ Meant(fs)[0] = <<>>
           /\ \A n \in 1..Len(fs) : Meant(fs)[n] =
                IF fs[n].class \in Queueing THEN Append(Meant(fs)[n - 1], fs[n])
                ELSE Meant(fs)[n - 1]
<1> DEFINE N == Len(fs)
           Then(s, n) == IF fs[n].class \in Queueing THEN Append(s, fs[n]) ELSE s
           Eq(g, m) == g = [n \in 0..m |-> IF n = 0 THEN <<>> ELSE Then(g[n - 1], n)]
           S == {m \in Nat : \E g : Eq(g, m)}
<1>1. 0 \in S
  <2>1. Eq([n \in 0..0 |-> <<>>], 0)
    OBVIOUS
  <2> QED BY <2>1, Zenon
<1>2. ASSUME NEW m \in Nat, m < N, m \in S PROVE m + 1 \in S
  <2>1. PICK g : Eq(g, m)
    BY <1>2, Zenon
  <2> DEFINE e == [n \in 0..(m + 1) |-> IF n = m + 1 THEN Then(g[m], n) ELSE g[n]]
  <2> HIDE DEF Then
  <2>2. \A n \in 0..(m + 1) : e[n] = IF n = 0 THEN <<>> ELSE Then(e[n - 1], n)
    <3> SUFFICES ASSUME NEW n \in 0..(m + 1)
                 PROVE  e[n] = IF n = 0 THEN <<>> ELSE Then(e[n - 1], n)
      BY Zenon
    <3>1. CASE n = m + 1
      BY <3>1
    <3>2. CASE n \in 0..m
      <4>1. e[n] = g[n] /\ n # m + 1
        BY <3>2
      <4>2. n # 0 => e[n - 1] = g[n - 1]
        BY <3>2
      <4> QED BY <2>1, <3>2, <4>1, <4>2
    <3> QED BY <3>1, <3>2
  <2>3. Eq(e, m + 1)
    BY <2>2
  <2> HIDE DEF Eq, e
  <2> QED BY <2>3
<1> HIDE DEF S
<1>3. \E g : Eq(g, N)
  <2>1. \A m \in 0..N : m \in S
    BY <1>1, <1>2, UpTo, Zenon
  <2>2. N \in S
    BY <2>1
  <2> HIDE DEF Eq
  <2> QED BY <2>2 DEF S
<1>4. Meant(fs) = CHOOSE g : Eq(g, N)
  BY DEF Meant
<1>5. Eq(Meant(fs), N)
  BY <1>3, <1>4, Zenon
<1> HIDE DEF Then
<1>6. Meant(fs)[0] = <<>> /\ \A n \in 1..N : Meant(fs)[n] = Then(Meant(fs)[n - 1], n)
  BY <1>5
<1> QED BY <1>6 DEF Then

LEMMA TextIs ==
    ASSUME NEW fs, Len(fs) \in Nat
    PROVE  /\ Text(fs)[Len(fs) + 1] = <<>>
           /\ \A n \in 1..Len(fs) : Text(fs)[n] = PrintFault(fs[n]) \o Text(fs)[n + 1]
<1> DEFINE N == Len(fs)
           Then(s, n) == PrintFault(fs[n]) \o s
           Eq(g, m) == g = [n \in (N + 1 - m)..(N + 1) |->
                                IF n > N THEN <<>> ELSE Then(g[n + 1], n)]
           S == {m \in Nat : \E g : Eq(g, m)}
<1> HIDE DEF Then
<1>1. 0 \in S
  <2> DEFINE e == [n \in (N + 1 - 0)..(N + 1) |-> <<>>]
  <2>1. \A n \in (N + 1 - 0)..(N + 1) : n > N
    OBVIOUS
  <2>2. Eq(e, 0)
    BY <2>1
  <2> HIDE DEF Eq, e
  <2> QED BY <2>2
<1>2. ASSUME NEW m \in Nat, m < N, m \in S PROVE m + 1 \in S
  <2>1. PICK g : Eq(g, m)
    BY <1>2
  <2> DEFINE a == N + 1 - (m + 1)
             e == [n \in a..(N + 1) |-> IF n = a THEN Then(g[a + 1], a) ELSE g[n]]
  <2>2. a \in Nat /\ a >= 1 /\ a <= N /\ a + 1 = N + 1 - m
    BY <1>2
  <2> HIDE DEF a
  <2>3. \A n \in a..(N + 1) : e[n] = IF n > N THEN <<>> ELSE Then(e[n + 1], n)
    <3> SUFFICES ASSUME NEW n \in a..(N + 1)
                 PROVE  e[n] = IF n > N THEN <<>> ELSE Then(e[n + 1], n)
      BY Zenon
    <3>1. CASE n = a
      <4>1. e[a + 1] = g[a + 1]
        BY <2>2
      <4> QED BY <2>2, <3>1, <4>1
    <3>2. CASE n # a
      <4>1. n \in (N + 1 - m)..(N + 1) /\ e[n] = g[n]
        BY <2>2, <3>2
      <4>2. ~(n > N) => e[n + 1] = g[n + 1]
        BY <2>2, <3>2
      <4> QED BY <2>1, <4>1, <4>2, Zenon
    <3> QED BY <3>1, <3>2
  <2>4. Eq(e, m + 1)
    BY <2>3 DEF a
  <2> HIDE DEF Eq, e
  <2> QED BY <2>4
<1> HIDE DEF S
<1>3. \E g : Eq(g, N)
  <2>1. \A m \in 0..N : m \in S
    BY <1>1, <1>2, UpTo, Zenon
  <2>2. N \in S
    BY <2>1
  <2> HIDE DEF Eq
  <2> QED BY <2>2 DEF S
<1>4. Text(fs) = CHOOSE g : Eq(g, N)
  <2>1. N + 1 - N = 1
    OBVIOUS
  <2> QED BY <2>1, Zenon DEF Text, Then
<1>5. Eq(Text(fs), N)
  BY <1>3, <1>4
<1>6. Text(fs)[N + 1] = <<>> /\ \A n \in 1..N : Text(fs)[n] = Then(Text(fs)[n + 1], n)
  BY <1>5
<1> QED BY <1>6, Zenon DEF Then

---------------------------------------------------------------------------
(* The stream after i tokens of r were read, all of the kind asked for. *)
After(r, i) ==
    [rest |-> SubSeq(r, i + 1, Len(r)), good |-> (i = 0 \/ i < Len(r) \/ input.newline),
     vals |-> SubSeq(r, 1, i)]

LEMMA GetOne ==
    ASSUME input.newline \in BOOLEAN, NEW R, NEW r \in Seq(R), NEW i \in Nat, i < Len(r),
           NEW type, type = "int" => r[i + 1].kind = "num"
    PROVE  Get(After(r, i), type) = After(r, i + 1)
<1> DEFINE s == After(r, i)
<1>1. s.good /\ s.rest = SubSeq(r, i + 1, Len(r)) /\ s.vals = SubSeq(r, 1, i)
  BY Zenon DEF After
<1>2. s.rest \in Seq(R) /\ Len(s.rest) = Len(r) - i /\ s.rest # <<>>
  <2>1. SubSeq(r, i + 1, Len(r)) \in Seq(R)
    OBVIOUS
  <2>2. Len(SubSeq(r, i + 1, Len(r))) = Len(r) - i
    OBVIOUS
  <2>3. \A t \in Seq(R) : Len(t) = Len(r) - i => t # <<>>
    OBVIOUS
  <2> HIDE DEF s
  <2> QED BY <1>1, <2>1, <2>2, <2>3, Zenon
<1>3. Head(s.rest) = r[i + 1]
  BY <1>1, <1>2, SMTT(30)
<1>4. Tail(s.rest) = SubSeq(r, (i + 1) + 1, Len(r))
  BY <1>1, <1>2
<1>5. Append(s.vals, Head(s.rest)) = SubSeq(r, 1, i + 1)
  <2>1. s.vals \in Seq(R) /\ Len(s.vals) = i /\ \A k \in 1..i : s.vals[k] = r[k]
    BY <1>1
  <2>2. r[i + 1] \in R /\ SubSeq(r, 1, i + 1) \in Seq(R) /\ Len(SubSeq(r, 1, i + 1)) = i + 1
    OBVIOUS
  <2>3. \A k \in 1..(i + 1) : SubSeq(r, 1, i + 1)[k] = r[k]
    OBVIOUS
  <2>4. Append(s.vals, r[i + 1]) \in Seq(R) /\ Len(Append(s.vals, r[i + 1])) = i + 1
        /\ \A k \in 1..(i + 1) : Append(s.vals, r[i + 1])[k] = r[k]
    BY <2>1, <2>2
  <2> QED BY <1>3, <2>2, <2>3, <2>4
<1>6. (Len(s.rest) > 1 \/ input.newline) = (i + 1 = 0 \/ i + 1 < Len(r) \/ input.newline)
  BY <1>2
<1> HIDE DEF s
<1>7. Get(s, type) = [rest |-> Tail(s.rest), good |-> Len(s.rest) > 1 \/ input.newline,
                      vals |-> Append(s.vals, Head(s.rest))]
  BY <1>1, <1>2, <1>3, Zenon DEF Get
<1> QED BY <1>4, <1>5, <1>6, <1>7, Zenon DEF After, s

(* A constructor whose fields are all there. *)
LEMMA GetAllThere ==
    ASSUME input.newline \in BOOLEAN, NEW R, NEW r \in Seq(R), NEW types, Len(types) \in Nat,
           Len(types) <= Len(r),
           \A n \in 1..Len(types) : types[n] = "int" => r[n].kind = "num"
    PROVE  GetAll(After(r, 0), types) = After(r, Len(types))
<1> DEFINE h == [n \in 0..Len(types) |-> After(r, n)]
<1>1. ASSUME NEW n \in 0..Len(types)
      PROVE  h[n] = IF n = 0 THEN After(r, 0) ELSE Get(h[n - 1], types[n])
  <2>1. CASE n = 0
    BY <2>1
  <2>2. CASE n # 0
    <3>1. n - 1 \in Nat /\ n - 1 < Len(r) /\ (n - 1) + 1 = n /\ n \in 1..Len(types)
      BY <2>2
    <3>2. Get(After(r, n - 1), types[n]) = After(r, (n - 1) + 1)
      BY <3>1, GetOne
    <3>3. h[n] = After(r, n) /\ h[n - 1] = After(r, n - 1)
      BY <3>1
    <3> QED BY <2>2, <3>1, <3>2, <3>3
  <2> QED BY <2>1, <2>2
<1>2. h = [n \in 0..Len(types) |->
             IF n = 0 THEN After(r, 0) ELSE Get(h[n - 1], types[n])]
  BY <1>1
<1>3. h[Len(types)] = After(r, Len(types))
  OBVIOUS
<1> HIDE DEF h
<1>4. Gets(h, After(r, 0), types)
  BY <1>2, Zenon DEF Gets
<1>5. GetAll(After(r, 0), types) = h[Len(types)]
  BY <1>4, GetAllIs, Zenon
<1> QED BY <1>3, <1>5, Zenon

(* One whose last field the file ends before. *)
LEMMA GetAllBut ==
    ASSUME input.newline \in BOOLEAN, NEW R, NEW r \in Seq(R), NEW types,
           Len(types) = Len(r) + 1,
           \A n \in 1..Len(r) : types[n] = "int" => r[n].kind = "num"
    PROVE  GetAll(After(r, 0), types) =
             [rest |-> <<>>, good |-> FALSE, vals |-> Append(r, Unread)]
<1> DEFINE last == [rest |-> <<>>, good |-> FALSE, vals |-> Append(r, Unread)]
           h == [n \in 0..Len(types) |-> IF n <= Len(r) THEN After(r, n) ELSE last]
<1>1. After(r, Len(r)).rest = <<>> /\ After(r, Len(r)).vals = r
  BY DEF After
<1>2. Get(After(r, Len(r)), types[Len(types)]) = last
  <2> DEFINE s == After(r, Len(r))
  <2>1. Get(s, types[Len(types)]) =
          [rest |-> s.rest, good |-> FALSE, vals |-> Append(s.vals, Unread)]
    BY <1>1 DEF Get
  <2> HIDE DEF s
  <2> QED BY <1>1, <2>1 DEF s
<1> HIDE DEF last
<1>3. ASSUME NEW n \in 0..Len(types)
      PROVE  h[n] = IF n = 0 THEN After(r, 0) ELSE Get(h[n - 1], types[n])
  <2>1. CASE n = 0
    BY <2>1
  <2>2. CASE n \in 1..Len(r)
    <3>1. n - 1 \in Nat /\ n - 1 < Len(r) /\ (n - 1) + 1 = n
      BY <2>2
    <3>2. Get(After(r, n - 1), types[n]) = After(r, (n - 1) + 1)
      BY <2>2, <3>1, GetOne
    <3>3. h[n] = After(r, n) /\ h[n - 1] = After(r, n - 1)
      BY <2>2, <3>1
    <3> QED BY <2>2, <3>1, <3>2, <3>3
  <2>3. CASE n = Len(types)
    <3>1. n # 0 /\ n - 1 = Len(r) /\ h[n] = last /\ h[n - 1] = After(r, Len(r))
      BY <2>3
    <3> QED BY <1>2, <2>3, <3>1
  <2> QED BY <2>1, <2>2, <2>3
<1>4. h = [n \in 0..Len(types) |->
             IF n = 0 THEN After(r, 0) ELSE Get(h[n - 1], types[n])]
  BY <1>3
<1>5. h[Len(types)] = last /\ Len(types) \in Nat
  OBVIOUS
<1> HIDE DEF h
<1>6. GetAll(After(r, 0), types) = h[Len(types)]
  <2>1. Gets(h, After(r, 0), types)
    BY <1>4, Zenon DEF Gets
  <2> QED BY <1>5, <2>1, GetAllIs, Zenon
<1> QED BY <1>5, <1>6 DEF last

---------------------------------------------------------------------------
Extra(f) ==
    CASE f.class = "RegisterInjectedFault" ->
            <<Token("regtype", f.extra.kind), Token("num", f.extra.reg)>>
      [] f.class = "RegisterDecodingInjectedFault" -> <<Token("regdec", f.extra)>>
      [] OTHER -> <<>>

LEMMA ConcatFacts ==
    ASSUME NEW T, NEW s \in Seq(T), NEW t \in Seq(T)
    PROVE  /\ s \o t \in Seq(T) /\ Len(s \o t) = Len(s) + Len(t)
           /\ \A i \in 1..Len(s) : (s \o t)[i] = s[i]
           /\ \A i \in 1..Len(t) : (s \o t)[Len(s) + i] = t[i]
<1>1. s \o t \in Seq(T)
  OBVIOUS
<1>2. Len(s \o t) = Len(s) + Len(t)
  OBVIOUS
<1>3. \A i \in 1..Len(s) : (s \o t)[i] = s[i]
  OBVIOUS
<1>4. \A i \in 1..Len(t) : (s \o t)[Len(s) + i] = t[i]
  OBVIOUS
<1> QED BY <1>1, <1>2, <1>3, <1>4

(* The tokens of a line. *)
LEMMA LineFacts ==
    ASSUME NEW f
    PROVE  LET P == PrintFault(f) IN
           /\ P \in Seq(Range(P)) /\ Len(P) = 7 + Len(Extra(f)) /\ Len(Extra(f)) \in 0..2
           /\ P[1] = Token("word", f.class)
           /\ P[2] = Token("when", [type |-> f.type, at |-> f.timing])
           /\ P[3] = Token("what", [type |-> f.what, value |-> f.value])
           /\ P[4] = Token("word", f.thread) /\ P[5] = Token("word", f.where)
           /\ P[6] = Token("num", f.occ) /\ P[7] = Token("num", f.tcontext)
           /\ \A i \in 1..Len(Extra(f)) : P[7 + i] = Extra(f)[i]
<1> DEFINE P == PrintFault(f)
           L == Line(f)
           C == <<Token("num", f.tcontext)>>
           X == Extra(f)
           T == Range(L) \cup Range(C) \cup Range(X)
<1>1. /\ L \in Seq(Range(L)) /\ Len(L) = 6
      /\ L[1] = Token("word", f.class)
      /\ L[2] = Token("when", [type |-> f.type, at |-> f.timing])
      /\ L[3] = Token("what", [type |-> f.what, value |-> f.value])
      /\ L[4] = Token("word", f.thread) /\ L[5] = Token("word", f.where)
      /\ L[6] = Token("num", f.occ)
  BY DEF Line, Range
<1>2. C \in Seq(Range(C)) /\ Len(C) = 1 /\ C[1] = Token("num", f.tcontext)
  BY DEF Range
<1>3. X \in Seq(Range(X)) /\ Len(X) \in 0..2
  <2>1. CASE f.class = "RegisterInjectedFault"
    <3> DEFINE a == Token("regtype", f.extra.kind)
               b == Token("num", f.extra.reg)
    <3>1. X = <<a, b>>
      BY <2>1 DEF Extra
    <3> HIDE DEF a, b, X
    <3> QED BY <3>1 DEF Range
  <2>2. CASE f.class = "RegisterDecodingInjectedFault"
    <3>1. X = <<Token("regdec", f.extra)>>
      BY <2>2 DEF Extra
    <3> QED BY <3>1 DEF Range
  <2>3. CASE f.class \notin {"RegisterInjectedFault", "RegisterDecodingInjectedFault"}
    <3>1. X = <<>>
      BY <2>3 DEF Extra
    <3> QED BY <3>1 DEF Range
  <2> QED BY <2>1, <2>2, <2>3
<1>4. P = (L \o C) \o X
  BY DEF PrintFault, Extra
<1> HIDE DEF P, L, C, X
<1>5. L \in Seq(T) /\ C \in Seq(T) /\ X \in Seq(T)
  BY <1>1, <1>2, <1>3
<1>6. Len(L) = 6 /\ Len(C) = 1 /\ Len(X) \in 0..2
  BY <1>1, <1>2, <1>3
<1> HIDE DEF T
<1>7. L \o C \in Seq(T) /\ Len(L \o C) = 7
  <2>1. L \o C \in Seq(T) /\ Len(L \o C) = Len(L) + Len(C)
    BY <1>5, ConcatFacts
  <2> QED BY <1>6, <2>1
<1>8. (\A i \in 1..6 : (L \o C)[i] = L[i]) /\ (L \o C)[7] = C[1]
  <2>1. \A i \in 1..Len(C) : (L \o C)[Len(L) + i] = C[i]
    BY <1>5, ConcatFacts
  <2>2. 1 \in 1..Len(C) /\ Len(L) + 1 = 7
    BY <1>6
  <2>3. (L \o C)[7] = C[1]
    BY <2>1, <2>2
  <2>4. \A i \in 1..Len(L) : (L \o C)[i] = L[i]
    BY <1>5, ConcatFacts
  <2> QED BY <1>6, <2>3, <2>4, Zenon
<1> DEFINE Q == L \o C
<1>9. Q \in Seq(T) /\ Len(Q) = 7 /\ P = Q \o X
  BY <1>4, <1>7
<1>10. (\A i \in 1..6 : Q[i] = L[i]) /\ Q[7] = C[1]
  BY <1>8, Zenon
<1> HIDE DEF Q
<1>11. /\ P \in Seq(T) /\ Len(P) = 7 + Len(X)
       /\ (\A i \in 1..7 : P[i] = Q[i]) /\ \A i \in 1..Len(X) : P[7 + i] = X[i]
  <2>1. /\ P \in Seq(T) /\ Len(P) = Len(Q) + Len(X)
        /\ (\A i \in 1..Len(Q) : P[i] = Q[i])
        /\ \A i \in 1..Len(X) : P[Len(Q) + i] = X[i]
    <3>1. Q \in Seq(T) /\ X \in Seq(T)
      BY <1>5, <1>9
    <3>2. Q \o X \in Seq(T) /\ Len(Q \o X) = Len(Q) + Len(X)
      BY <3>1, ConcatFacts
    <3>3. \A i \in 1..Len(Q) : (Q \o X)[i] = Q[i]
      BY <3>1, ConcatFacts
    <3>4. \A i \in 1..Len(X) : (Q \o X)[Len(Q) + i] = X[i]
      BY <3>1, ConcatFacts
    <3> QED BY <1>9, <3>2, <3>3, <3>4
  <2> QED BY <1>9, <2>1
<1>12. P \in Seq(Range(P))
  <2>1. P \in [1..Len(P) -> T] /\ Len(P) \in Nat
    BY <1>11
  <2>2. P \in [1..Len(P) -> Range(P)]
    BY <2>1 DEF Range
  <2> QED BY <2>1, <2>2
<1>13. \A i \in 1..6 : P[i] = L[i]
  BY <1>10, <1>11
<1>14. P[7] = C[1]
  BY <1>10, <1>11
<1>15. /\ P[1] = L[1] /\ P[2] = L[2] /\ P[3] = L[3]
       /\ P[4] = L[4] /\ P[5] = L[5] /\ P[6] = L[6]
  BY <1>13
<1> QED BY <1>1, <1>2, <1>6, <1>11, <1>12, <1>14, <1>15 DEF P, X
LEMMA SameSeq ==
    ASSUME NEW T, NEW s \in Seq(T), NEW t \in Seq(T), Len(s) = Len(t),
           \A i \in 1..Len(s) : s[i] = t[i]
    PROVE  s = t
  OBVIOUS

LEMMA Suffix ==
    ASSUME NEW T, NEW s \in Seq(T), NEW c \in 0..Len(s)
    PROVE  LET e == SubSeq(s, c + 1, Len(s)) IN
           /\ e \in Seq(T) /\ Len(e) = Len(s) - c
           /\ \A i \in 1..(Len(s) - c) : e[i] = s[c + i]
<1>1. SubSeq(s, c + 1, Len(s)) \in Seq(T)
  OBVIOUS
<1>2. Len(SubSeq(s, c + 1, Len(s))) = Len(s) - c
  OBVIOUS
<1>3. \A i \in 1..(Len(s) - c) : SubSeq(s, c + 1, Len(s))[i] = s[c + i]
  OBVIOUS
<1> QED BY <1>1, <1>2, <1>3

LEMMA Longer ==
    ASSUME NEW T, NEW s \in Seq(T), NEW e
    PROVE  (\A i \in 1..Len(s) : Append(s, e)[i] = s[i]) /\ Append(s, e)[Len(s) + 1] = e
<1>1. s \in Seq(T \cup {e}) /\ e \in T \cup {e}
  OBVIOUS
<1> QED BY <1>1

(* What is left of two sequences when the first tokens of the one are taken. *)
LEMMA Drop ==
    ASSUME NEW T, NEW s \in Seq(T), NEW t \in Seq(T), NEW c \in 0..Len(s)
    PROVE  SubSeq(s \o t, c + 1, Len(s \o t)) = SubSeq(s, c + 1, Len(s)) \o t
<1> DEFINE u == s \o t
           a == SubSeq(u, c + 1, Len(u))
           d == SubSeq(s, c + 1, Len(s))
           b == d \o t
<1>1. u \in Seq(T) /\ Len(u) = Len(s) + Len(t)
  BY ConcatFacts
<1>2. (\A i \in 1..Len(s) : u[i] = s[i]) /\ \A i \in 1..Len(t) : u[Len(s) + i] = t[i]
  BY ConcatFacts
<1>3. d \in Seq(T) /\ Len(d) = Len(s) - c /\ \A i \in 1..(Len(s) - c) : d[i] = s[c + i]
  OBVIOUS
<1> HIDE DEF u, d
<1>4. a \in Seq(T) /\ Len(a) = Len(u) - c /\ \A i \in 1..(Len(u) - c) : a[i] = u[c + i]
  BY <1>1
<1>5. b \in Seq(T) /\ Len(b) = Len(d) + Len(t)
  BY <1>3, ConcatFacts, Zenon
<1>6. (\A i \in 1..Len(d) : b[i] = d[i]) /\ \A i \in 1..Len(t) : b[Len(d) + i] = t[i]
  BY <1>3, ConcatFacts, SMTT(30)
<1> HIDE DEF a, b
<1>7. Len(a) = Len(b) /\ Len(a) = (Len(s) - c) + Len(t)
  BY <1>1, <1>3, <1>4, <1>5
<1>8. ASSUME NEW i \in 1..Len(a) PROVE a[i] = b[i]
  <2>1. a[i] = u[c + i]
    BY <1>4
  <2>2. CASE i <= Len(s) - c
    <3>1. c + i \in 1..Len(s) /\ i \in 1..Len(d)
      BY <1>3, <2>2
    <3> QED BY <1>2, <1>3, <1>6, <2>1, <2>2, <3>1
  <2>3. CASE ~(i <= Len(s) - c)
    <3> DEFINE k == i - (Len(s) - c)
    <3>1. k \in 1..Len(t) /\ c + i = Len(s) + k /\ i = Len(d) + k
      BY <1>3, <1>7, <2>3
    <3> HIDE DEF k
    <3>2. u[c + i] = t[k] /\ b[i] = t[k]
      BY <1>2, <1>6, <3>1
    <3> QED BY <2>1, <3>2
  <2> QED BY <2>2, <2>3
<1>9. a = b
  BY <1>4, <1>5, <1>7, <1>8, SameSeq, Zenon
<1> QED BY <1>9, Zenon DEF a, b, u, d

(* F is the field list of a class: the common fields, then x, then y. *)
FieldsAre(F, x, y) ==
    /\ Len(F) = 5 + Len(x) + Len(y)
    /\ \A i \in 1..4 : F[i] = "string"
    /\ \A i \in 1..Len(x) : F[5 + i] = x[i]
    /\ \A i \in 1..Len(y) : F[5 + Len(x) + i] = y[i]

LEMMA FieldsOf ==
    ASSUME NEW x \in Seq({"string", "int"}), NEW y \in Seq({"string", "int"})
    PROVE  FieldsAre((Common \o x) \o y, x, y)
<1> DEFINE T == {"string", "int"}
           C == Common
           D == C \o x
           G == D \o y
<1>1. C \in Seq(T) /\ Len(C) = 5 /\ \A i \in 1..4 : C[i] = "string"
  BY DEF Common
<1> HIDE DEF T, C
<1>2. C \in Seq(T) /\ x \in Seq(T) /\ y \in Seq(T)
  BY <1>1 DEF T
<1>3. D \in Seq(T) /\ Len(D) = Len(C) + Len(x)
  BY <1>2, ConcatFacts
<1>4. \A i \in 1..Len(C) : D[i] = C[i]
  BY <1>2, ConcatFacts
<1>5. \A i \in 1..Len(x) : D[Len(C) + i] = x[i]
  BY <1>2, ConcatFacts
<1> HIDE DEF D
<1>6. Len(G) = Len(D) + Len(y)
  BY <1>2, <1>3, ConcatFacts, Zenon
<1>7. \A i \in 1..Len(D) : G[i] = D[i]
  BY <1>2, <1>3, ConcatFacts
<1>8. \A i \in 1..Len(y) : G[Len(D) + i] = y[i]
  BY <1>2, <1>3, ConcatFacts
<1>0. G = (Common \o x) \o y
  BY DEF D, C
<1> HIDE DEF G
<1>9. Len(D) = 5 + Len(x) /\ Len(x) \in Nat /\ Len(y) \in Nat
  BY <1>1, <1>2, <1>3
<1>10. \A i \in 1..4 : G[i] = "string"
  BY <1>1, <1>4, <1>7, <1>9
<1>11. \A i \in 1..Len(x) : G[5 + i] = x[i]
  BY <1>1, <1>5, <1>7, <1>9
<1>12. \A i \in 1..Len(y) : G[5 + Len(x) + i] = y[i]
  BY <1>8, <1>9
<1> QED BY <1>0, <1>6, <1>9, <1>10, <1>11, <1>12, ZenonT(30) DEF FieldsAre

(* The fields the constructors read are the tokens print_faults wrote, but *)
(* that the base class's leaves the last one in the stream.                *)
LEMMA FieldsFacts ==
    ASSUME NEW f, f.class \in Classes
    PROVE  /\ Len(Fields(f.class)) =
                IF f.class = "InjectedFault" THEN 5 ELSE 6 + Len(Extra(f))
           /\ \A i \in 1..Len(Fields(f.class)) : Fields(f.class)[i] = "int" =>
                PrintFault(f)[i + 1].kind = "num"
<1> DEFINE F == Fields(f.class)
           P == PrintFault(f)
           X == Extra(f)
           T == {"string", "int"}
<1>1. P[6].kind = "num" /\ P[7].kind = "num" /\ \A i \in 1..Len(X) : P[7 + i] = X[i]
  <2>1. P[6] = Token("num", f.occ) /\ P[7] = Token("num", f.tcontext)
    BY LineFacts, Zenon
  <2>2. \A i \in 1..Len(X) : P[7 + i] = X[i]
    BY LineFacts, Zenon
  <2> HIDE DEF P, X
  <2>3. P[6].kind = "num" /\ P[7].kind = "num"
    BY <2>1 DEF Token
  <2> QED BY <2>2, <2>3
<1>2. <<>> \in Seq(T) /\ <<"int">> \in Seq(T) /\ <<"string">> \in Seq(T)
      /\ <<"string", "int">> \in Seq(T)
  OBVIOUS
<1>3. CASE f.class = "InjectedFault"
  <2> DEFINE y == <<>>
  <2>1. F = (Common \o y) \o y
    BY <1>3 DEF Fields
  <2>2. y \in Seq(T) /\ Len(y) = 0
    OBVIOUS
  <2> HIDE DEF F, P, y
  <2>3. Len(F) = 5 + Len(y) + Len(y) /\ \A i \in 1..4 : F[i] = "string"
    <3>1. FieldsAre(F, y, y)
      BY <2>1, <2>2, FieldsOf, Zenon
    <3> QED BY <3>1 DEF FieldsAre
  <2>4. Len(F) = 5
    BY <2>2, <2>3
  <2>5. ASSUME NEW i \in 1..Len(F), F[i] = "int" PROVE P[i + 1].kind = "num"
    <3>1. i = 5
      <4>1. ~(i \in 1..4)
        BY <2>3, <2>5
      <4>2. i \in 1..5
        BY <2>4
      <4> QED BY <4>1, <4>2
    <3>2. i + 1 = 6
      BY <3>1
    <3> QED BY <1>1, <3>2
  <2> QED BY <1>3, <2>4, <2>5 DEF F, P
<1>4. CASE f.class # "InjectedFault"
  <2>1. \E y \in Seq(T) :
            /\ F = (Common \o <<"int">>) \o y
            /\ Len(y) = Len(X) /\ Len(y) \in 0..2
            /\ \A i \in 1..Len(y) : y[i] = "int" => X[i].kind = "num"
    <3>1. CASE f.class = "RegisterInjectedFault"
      <4>1. F = (Common \o <<"int">>) \o <<"string", "int">>
        BY <3>1 DEF Fields
      <4>2. X = <<Token("regtype", f.extra.kind), Token("num", f.extra.reg)>>
        BY <3>1 DEF Extra
      <4>3. Len(X) = 2 /\ X[2].kind = "num"
        BY <4>2 DEF Token
      <4> DEFINE y == <<"string", "int">>
      <4>4. y \in Seq(T) /\ Len(y) = 2 /\ y[1] = "string"
        OBVIOUS
      <4>5. F = (Common \o <<"int">>) \o y
        BY <4>1
      <4> HIDE DEF y, F, X
      <4>6. \A i \in 1..Len(y) : y[i] = "int" => X[i].kind = "num"
        BY <4>3, <4>4
      <4> y \in Seq(T)
        BY <4>4
      <4> WITNESS y \in Seq(T)
      <4> QED BY <4>3, <4>4, <4>5, <4>6
    <3>2. CASE f.class = "RegisterDecodingInjectedFault"
      <4>1. F = (Common \o <<"int">>) \o <<"string">>
        BY <3>2 DEF Fields
      <4>2. X = <<Token("regdec", f.extra)>>
        BY <3>2 DEF Extra
      <4>3. Len(X) = 1
        BY <4>2
      <4> DEFINE y == <<"string">>
      <4>4. y \in Seq(T) /\ Len(y) = 1 /\ y[1] = "string"
        OBVIOUS
      <4>5. F = (Common \o <<"int">>) \o y
        BY <4>1
      <4> HIDE DEF y, F, X
      <4>6. \A i \in 1..Len(y) : y[i] = "int" => X[i].kind = "num"
        BY <4>3, <4>4
      <4> y \in Seq(T)
        BY <4>4
      <4> WITNESS y \in Seq(T)
      <4> QED BY <4>3, <4>4, <4>5, <4>6
    <3>3. CASE f.class \notin {"RegisterInjectedFault", "RegisterDecodingInjectedFault"}
      <4> DEFINE y == <<>>
      <4>1. F = (Common \o <<"int">>) \o y
        BY <1>4, <3>3 DEF Fields
      <4>2. X = <<>>
        BY <3>3 DEF Extra
      <4>3. y \in Seq(T) /\ Len(y) = 0 /\ Len(X) = 0
        BY <4>2
      <4> HIDE DEF y, F, X
      <4> y \in Seq(T)
        BY <4>3
      <4> WITNESS y \in Seq(T)
      <4> QED BY <4>1, <4>3
    <3> QED BY <3>1, <3>2, <3>3, Zenon
  <2>2. PICK y \in Seq(T) :
            /\ F = (Common \o <<"int">>) \o y
            /\ Len(y) = Len(X) /\ Len(y) \in 0..2
            /\ \A i \in 1..Len(y) : y[i] = "int" => X[i].kind = "num"
    BY <2>1, Zenon
  <2> DEFINE x == <<"int">>
  <2>3. x \in Seq(T) /\ Len(x) = 1 /\ F = (Common \o x) \o y
    BY <2>2
  <2> HIDE DEF F, P, X, x
  <2>4. /\ Len(F) = 5 + Len(x) + Len(y) /\ (\A i \in 1..4 : F[i] = "string")
        /\ \A i \in 1..Len(y) : F[5 + Len(x) + i] = y[i]
    <3>1. FieldsAre(F, x, y)
      BY <2>2, <2>3, FieldsOf, Zenon
    <3> QED BY <3>1 DEF FieldsAre
  <2>5. Len(F) = 6 + Len(y) /\ \A i \in 1..Len(y) : F[6 + i] = y[i]
    BY <2>2, <2>3, <2>4
  <2>6. ASSUME NEW i \in 1..Len(F), F[i] = "int" PROVE P[i + 1].kind = "num"
    <3>1. CASE i \in 1..6
      BY <1>1, <2>4, <2>6, <3>1
    <3>2. CASE ~(i \in 1..6)
      <4> DEFINE k == i - 6
      <4>1. k \in 1..Len(y) /\ i = 6 + k /\ i + 1 = 7 + k
        BY <2>2, <2>5, <3>2
      <4> HIDE DEF k
      <4>2. y[k] = "int" /\ P[7 + k] = X[k]
        BY <1>1, <2>2, <2>5, <2>6, <4>1
      <4> QED BY <2>2, <4>1, <4>2, ZenonT(30)
    <3> QED BY <3>1, <3>2
  <2> QED BY <1>4, <2>2, <2>5, <2>6 DEF F, P, X
<1> QED BY <1>3, <1>4
---------------------------------------------------------------------------
(* The fault the reader makes of a line. *)
Made(f, c) ==
    [class |-> f.class, type |-> f.type, timing |-> f.timing, what |-> f.what,
     value |-> f.value, thread |-> f.thread, where |-> f.where, occ |-> f.occ,
     tcontext |-> c,
     extra |-> IF f.class = "RegisterDecodingInjectedFault"
               THEN [side |-> f.extra.side, operand |-> ParseOperand(f.extra.operand),
                     reg |-> f.extra.reg]
               ELSE f.extra]

(* The tokens extracted are those of f, with c in place of the context. *)
Carries(vals, f, c) ==
    /\ vals[1] = Token("when", [type |-> f.type, at |-> f.timing])
    /\ vals[2] = Token("what", [type |-> f.what, value |-> f.value])
    /\ vals[3] = Token("word", f.thread) /\ vals[4] = Token("word", f.where)
    /\ vals[5] = Token("num", f.occ) /\ vals[6] = c
    /\ \A i \in 1..Len(Extra(f)) : vals[6 + i] = Extra(f)[i]

LEMMA ConstructIs ==
    ASSUME NEW f, WellFormed(f), NEW c, NEW vals, Carries(vals, f, c)
    PROVE  /\ ~Rejects(f.class, vals)
           /\ Construct(f.class, vals) = Made(f, c)
<1> DEFINE X == Extra(f)
           extra == Made(f, c).extra
<1> USE DEF Carries
<1>1. vals[1].kind = "when" /\ vals[2].kind = "what"
  BY DEF Token
<1>2. /\ vals[1].val.type = f.type /\ vals[1].val.at = f.timing
      /\ vals[2].val.type = f.what /\ vals[2].val.value = f.value
      /\ vals[3].val = f.thread /\ vals[4].val = f.where /\ vals[5].val = f.occ
  BY DEF Token
<1>3. ASSUME NEW e, e = extra,
             Construct(f.class, vals) =
                [class |-> f.class,
                 type |-> vals[1].val.type, timing |-> vals[1].val.at,
                 what |-> vals[2].val.type, value |-> vals[2].val.value,
                 thread |-> vals[3].val, where |-> vals[4].val, occ |-> vals[5].val,
                 tcontext |-> vals[6], extra |-> e]
      PROVE  Construct(f.class, vals) = Made(f, c)
  BY <1>2, <1>3 DEF Made
<1>4. CASE f.class = "RegisterInjectedFault"
  <2>1. X = <<Token("regtype", f.extra.kind), Token("num", f.extra.reg)>>
    BY <1>4 DEF Extra
  <2>2. Len(X) = 2 /\ X[1] = Token("regtype", f.extra.kind) /\ X[2] = Token("num", f.extra.reg)
    BY <2>1
  <2> HIDE DEF X
  <2>3. \A i \in 1..Len(X) : vals[6 + i] = X[i]
    BY DEF X
  <2>4. vals[7] = Token("regtype", f.extra.kind) /\ vals[8] = Token("num", f.extra.reg)
    BY <2>2, <2>3
  <2>5. vals[7].kind = "regtype" /\ vals[7].val = f.extra.kind /\ vals[8].val = f.extra.reg
    BY <2>4 DEF Token
  <2>6. ~Rejects(f.class, vals)
    BY <1>1, <1>4, <2>5 DEF Rejects
  <2> DEFINE e == [kind |-> vals[7].val, reg |-> vals[8].val]
  <2>7. e = extra
    <3>1. extra = f.extra /\ f.extra \in [kind : {"int", "float"}, reg : Nat]
      BY <1>4 DEF Made, WellFormed
    <3>2. f.extra = [kind |-> f.extra.kind, reg |-> f.extra.reg]
      BY <3>1
    <3> QED BY <2>5, <3>1, <3>2
  <2>8. Construct(f.class, vals) = Made(f, c)
    BY <1>3, <1>4, <2>7 DEF Construct
  <2> QED BY <2>6, <2>8
<1>5. CASE f.class = "RegisterDecodingInjectedFault"
  <2>1. X = <<Token("regdec", f.extra)>>
    BY <1>5 DEF Extra
  <2>2. Len(X) = 1 /\ X[1] = Token("regdec", f.extra)
    BY <2>1
  <2> HIDE DEF X
  <2>3. \A i \in 1..Len(X) : vals[6 + i] = X[i]
    BY DEF X
  <2>4. vals[7] = Token("regdec", f.extra)
    BY <2>2, <2>3
  <2>5. vals[7].kind = "regdec" /\ vals[7].val = f.extra
    BY <2>4 DEF Token
  <2>6. ~Rejects(f.class, vals)
    BY <1>1, <1>5, <2>5 DEF Rejects
  <2> DEFINE x == vals[7].val
             e == [x EXCEPT !.operand = ParseOperand(@)]
  <2>7. e = extra
    <3>1. f.extra \in [side : {"Src", "Dst"}, operand : Nat, reg : Nat]
      BY <1>5 DEF WellFormed
    <3>2. extra = [side |-> f.extra.side, operand |-> ParseOperand(f.extra.operand),
                   reg |-> f.extra.reg]
      BY <1>5 DEF Made
    <3>3. e = [f.extra EXCEPT !.operand = ParseOperand(f.extra.operand)]
      BY <2>5
    <3> HIDE DEF e, extra
    <3> QED BY <3>1, <3>2, <3>3
  <2>8. Construct(f.class, vals) = Made(f, c)
    BY <1>3, <1>5, <2>7 DEF Construct
  <2> QED BY <2>6, <2>8
<1>6. CASE f.class \notin {"RegisterInjectedFault", "RegisterDecodingInjectedFault"}
  <2>1. ~Rejects(f.class, vals)
    BY <1>1, <1>6 DEF Rejects
  <2>2. extra = 0
    BY <1>6 DEF Made, WellFormed
  <2>3. Construct(f.class, vals) = Made(f, c)
    BY <1>3, <1>6, <2>2 DEF Construct
  <2> QED BY <2>1, <2>3
<1> QED BY <1>4, <1>5, <1>6

(* What getFromFile takes for the name of a class: the first token of a    *)
(* line may be one, no other token of a line is.                           *)
Names(t) == t.kind = "word" /\ t.val \in Classes

LEMMA LineNames ==
    ASSUME NEW f, WellFormed(f), NEW i \in 2..Len(PrintFault(f))
    PROVE  ~Names(PrintFault(f)[i])
<1> DEFINE P == PrintFault(f)
           X == Extra(f)
<1>1. /\ P[2].kind = "when" /\ P[3].kind = "what" /\ P[6].kind = "num" /\ P[7].kind = "num"
      /\ P[4].val = f.thread /\ P[5].val = f.where
  <2>1. /\ P[2] = Token("when", [type |-> f.type, at |-> f.timing])
        /\ P[3] = Token("what", [type |-> f.what, value |-> f.value])
        /\ P[4] = Token("word", f.thread) /\ P[5] = Token("word", f.where)
        /\ P[6] = Token("num", f.occ) /\ P[7] = Token("num", f.tcontext)
    BY LineFacts
  <2> HIDE DEF P
  <2> QED BY <2>1 DEF Token
<1>2. Len(P) = 7 + Len(X) /\ Len(X) \in 0..2 /\ \A k \in 1..Len(X) : P[7 + k] = X[k]
  BY LineFacts, Zenon
<1>3. \A k \in 1..Len(X) : X[k].kind # "word"
  <2>1. CASE f.class = "RegisterInjectedFault"
    <3>1. X = <<Token("regtype", f.extra.kind), Token("num", f.extra.reg)>>
      BY <2>1 DEF Extra
    <3>2. Len(X) = 2 /\ X[1].kind = "regtype" /\ X[2].kind = "num"
      BY <3>1 DEF Token
    <3> HIDE DEF X
    <3> QED BY <3>2
  <2>2. CASE f.class = "RegisterDecodingInjectedFault"
    <3>1. X = <<Token("regdec", f.extra)>>
      BY <2>2 DEF Extra
    <3>2. Len(X) = 1 /\ X[1].kind = "regdec"
      BY <3>1 DEF Token
    <3> HIDE DEF X
    <3> QED BY <3>2
  <2>3. CASE f.class \notin {"RegisterInjectedFault", "RegisterDecodingInjectedFault"}
    <3>1. X = <<>>
      BY <2>3 DEF Extra
    <3> QED BY <3>1
  <2> QED BY <2>1, <2>2, <2>3
<1>4. f.thread \notin Classes /\ f.where \notin Classes
  BY DEF WellFormed
<1> HIDE DEF P, X
<1>5. i \in 2..Len(P)
  BY DEF P
<1>6. CASE i \in 2..7
  BY <1>1, <1>4, <1>6 DEF Names, P
<1>7. CASE ~(i \in 2..7)
  <2> DEFINE k == i - 7
  <2>1. k \in 1..Len(X) /\ i = 7 + k
    BY <1>2, <1>5, <1>7
  <2> HIDE DEF k
  <2>2. P[i].kind # "word"
    BY <1>2, <1>3, <2>1
  <2> QED BY <2>2 DEF Names, P
<1> QED BY <1>6, <1>7
---------------------------------------------------------------------------
(* The first read of a round. *)
LEMMA FirstRead ==
    ASSUME NEW R, NEW r \in Seq(R), r # <<>>, input.newline \in BOOLEAN
    PROVE  LET first == Get([rest |-> r, good |-> TRUE, vals |-> <<>>], "string")
           IN first.rest = SubSeq(r, 2, Len(r)) /\ first.good = (Len(r) > 1 \/ input.newline)
<1> DEFINE s == [rest |-> r, good |-> TRUE, vals |-> <<>>]
<1>1. Get(s, "string") = [rest |-> Tail(s.rest), good |-> Len(s.rest) > 1 \/ input.newline,
                          vals |-> Append(s.vals, Head(s.rest))]
  BY DEF Get
<1>2. Tail(r) = SubSeq(r, 2, Len(r))
  OBVIOUS
<1>3. s.rest = r
  OBVIOUS
<1> HIDE DEF s
<1> DEFINE b == Len(s.rest) > 1 \/ input.newline
           t == Tail(s.rest)
           v == Append(s.vals, Head(s.rest))
           g == Get(s, "string")
<1>4. g = [rest |-> t, good |-> b, vals |-> v]
  BY <1>1
<1> HIDE DEF g, b, t, v
<1>5. g.rest = t /\ g.good = b
  BY <1>4
<1>6. t = SubSeq(r, 2, Len(r)) /\ b = (Len(r) > 1 \/ input.newline)
  BY <1>2, <1>3 DEF t, b
<1> QED BY <1>5, <1>6, Zenon DEF g, s

(* A round that finds no class name takes one token from the stream. *)
LEMMA RoundSkip ==
    ASSUME NEW R, rest \in Seq(R), rest # <<>>, input.newline \in BOOLEAN, good = TRUE,
           ~Names(Head(rest)), ReadFault
    PROVE  /\ rest' = SubSeq(rest, 2, Len(rest)) /\ good' = (Len(rest) > 1 \/ input.newline)
           /\ UNCHANGED <<faults, rejected, input>>
<1> DEFINE first == Get([rest |-> rest, good |-> good, vals |-> <<>>], "string")
<1>1. check' \notin Classes
  BY DEF ReadFault, Names, Classes, CpuClasses, BaseClasses, O3Classes
<1>2. rest' = first.rest /\ good' = first.good /\ UNCHANGED <<faults, rejected, input>>
  BY <1>1 DEF ReadFault
<1>3. first.rest = SubSeq(rest, 2, Len(rest)) /\ first.good = (Len(rest) > 1 \/ input.newline)
  BY FirstRead
<1> HIDE DEF first
<1> QED BY <1>2, <1>3

LEMMA FieldsFit ==
    ASSUME NEW x \in 0..2, NEW d, d = 6 + x, NEW m \in Nat, NEW r, r = d + m,
           NEW n, n = 5 \/ n = d
    PROVE  n \in 5..8 /\ n <= d /\ n <= r /\ n # 0
  OBVIOUS

(* A round that finds one, with the whole line in the stream. *)
LEMMA RoundClass ==
    ASSUME NEW R, NEW f, WellFormed(f), f.class \in Classes, PrintFault(f) \in Seq(R),
           NEW more \in Seq(R), rest = PrintFault(f) \o more,
           input.newline \in BOOLEAN, good = TRUE, ReadFault
    PROVE  LET D == SubSeq(PrintFault(f), 2, Len(PrintFault(f)))
               n == Len(Fields(f.class))
           IN /\ rest' = SubSeq(D, n + 1, Len(D)) \o more
              /\ good' = (n < Len(D) + Len(more) \/ input.newline)
              /\ ~rejected' /\ UNCHANGED input
              /\ faults' = IF f.class \in BaseClasses THEN faults
                           ELSE Append(faults, Made(f, Token("num", f.tcontext)))
<1> DEFINE P == PrintFault(f)
           X == Extra(f)
           D == SubSeq(P, 2, Len(P))
           F == Fields(f.class)
           n == Len(F)
           r == D \o more
           first == Get([rest |-> rest, good |-> good, vals |-> <<>>], "string")
           s == GetAll([rest |-> first.rest, good |-> first.good, vals |-> <<>>], F)
<1>1. P \in Seq(R) /\ Len(P) = 7 + Len(X) /\ Len(X) \in 0..2
  BY LineFacts, Zenon
<1>2. n = IF f.class = "InjectedFault" THEN 5 ELSE 6 + Len(X)
  BY FieldsFacts
<1>3. \A i \in 1..n : F[i] = "int" => P[i + 1].kind = "num"
  BY FieldsFacts
<1>4. P[1] = Token("word", f.class)
  BY LineFacts, Zenon
<1>5. rest = P \o more /\ more \in Seq(R)
  OBVIOUS
<1> HIDE DEF P, X, F
<1>6. rest \in Seq(R) /\ Len(rest) = Len(P) + Len(more) /\ rest[1] = P[1]
  <2>1. rest \in Seq(R) /\ Len(rest) = Len(P) + Len(more)
    BY <1>1, <1>5, ConcatFacts, Zenon
  <2>2. \A i \in 1..Len(P) : rest[i] = P[i]
    BY <1>1, <1>5, ConcatFacts
  <2>3. 1 \in 1..Len(P)
    BY <1>1
  <2> QED BY <2>1, <2>2, <2>3
<1>7. rest # <<>> /\ Head(rest) = P[1] /\ Len(rest) > 1
  BY <1>1, <1>6
<1>8. check' = f.class
  <2>1. Head(rest).kind = "word" /\ Head(rest).val = f.class
    BY <1>4, <1>7 DEF Token
  <2> QED BY <1>7, <2>1 DEF ReadFault
<1>9. D \in Seq(R) /\ Len(D) = 6 + Len(X) /\ \A i \in 1..Len(D) : D[i] = P[i + 1]
  BY <1>1
<1>10. SubSeq(rest, 2, Len(rest)) = r
  <2>1. 1 \in 0..Len(P) /\ 1 + 1 = 2
    BY <1>1
  <2>2. SubSeq(P \o more, 1 + 1, Len(P \o more)) = SubSeq(P, 1 + 1, Len(P)) \o more
    BY <1>1, <2>1, Drop, Zenon
  <2> QED BY <1>5, <2>1, <2>2
<1> HIDE DEF D
<1>11. r \in Seq(R) /\ Len(r) = Len(D) + Len(more)
  BY <1>9, ConcatFacts, Zenon
<1>12. \A i \in 1..Len(D) : r[i] = D[i]
  BY <1>9, ConcatFacts
<1> HIDE DEF n, r
<1>13. n \in 5..8 /\ n <= Len(D) /\ n <= Len(r) /\ n # 0
  <2>1. Len(X) \in 0..2 /\ Len(D) = 6 + Len(X) /\ Len(r) = Len(D) + Len(more)
        /\ Len(more) \in Nat
    BY <1>1, <1>9, <1>11
  <2>2. n = 5 \/ n = Len(D)
    <3>1. CASE f.class = "InjectedFault"
      BY <1>2, <3>1 DEF n
    <3>2. CASE f.class # "InjectedFault"
      BY <1>2, <2>1, <3>2 DEF n
    <3> QED BY <3>1, <3>2
  <2> QED BY <2>1, <2>2, FieldsFit, Zenon
<1>14. \A i \in 1..n : r[i] = P[i + 1]
  <2> SUFFICES ASSUME NEW i \in 1..n PROVE r[i] = P[i + 1]
    OBVIOUS
  <2>1. i \in 1..Len(D)
    BY <1>9, <1>13
  <2> QED BY <1>9, <1>12, <2>1
<1>15. first.rest = r /\ first.good = TRUE
  <2>1. first.rest = SubSeq(rest, 2, Len(rest)) /\ first.good = (Len(rest) > 1 \/ input.newline)
    BY <1>6, <1>7, FirstRead, Zenon
  <2> HIDE DEF first
  <2> QED BY <1>7, <1>10, <2>1, Zenon
<1> HIDE DEF first
<1>16. [rest |-> first.rest, good |-> first.good, vals |-> <<>>] = After(r, 0)
  <2>1. SubSeq(r, 0 + 1, Len(r)) = r
    BY <1>11
  <2>2. SubSeq(r, 1, 0) = <<>>
    BY <1>11
  <2> QED BY <1>15, <2>1, <2>2, Zenon DEF After
<1>17. s = After(r, n)
  <2>1. \A i \in 1..Len(F) : F[i] = "int" => r[i].kind = "num"
    BY <1>3, <1>14, Zenon DEF n
  <2>2. Len(F) \in Nat /\ Len(F) <= Len(r) /\ r \in Seq(R)
    BY <1>11, <1>13 DEF n
  <2>3. GetAll(After(r, 0), F) = After(r, Len(F))
    BY <2>1, <2>2, GetAllThere
  <2> QED BY <1>16, <2>3 DEF n
<1>18. s.rest = SubSeq(r, n + 1, Len(r)) /\ s.vals = SubSeq(r, 1, n)
       /\ s.good = (n < Len(r) \/ input.newline)
  BY <1>13, <1>17 DEF After
<1> HIDE DEF s
<1>19. \A i \in 1..n : s.vals[i] = P[i + 1]
  <2>1. \A i \in 1..n : SubSeq(r, 1, n)[i] = r[i]
    BY <1>11, <1>13
  <2> QED BY <1>18, <1>14, <2>1, Zenon
<1>20. SubSeq(r, n + 1, Len(r)) = SubSeq(D, n + 1, Len(D)) \o more
  <2>1. n \in 0..Len(D) /\ D \in Seq(R)
    BY <1>9, <1>13
  <2> QED BY <2>1, Drop, Zenon DEF r
<1>21. /\ rest' = s.rest /\ good' = s.good /\ rejected' = Rejects(f.class, s.vals)
       /\ faults' = IF rejected' \/ f.class \in BaseClasses THEN faults
                    ELSE Append(faults, Construct(f.class, s.vals))
       /\ UNCHANGED input
  BY <1>8, Zenon DEF ReadFault, s, first, F
<1>22. /\ ~Rejects(f.class, s.vals)
       /\ f.class \notin BaseClasses =>
            Construct(f.class, s.vals) = Made(f, Token("num", f.tcontext))
  <2>1. /\ P[2] = Token("when", [type |-> f.type, at |-> f.timing])
        /\ P[3] = Token("what", [type |-> f.what, value |-> f.value])
        /\ P[4] = Token("word", f.thread) /\ P[5] = Token("word", f.where)
        /\ P[6] = Token("num", f.occ) /\ P[7] = Token("num", f.tcontext)
    BY LineFacts DEF P
  <2>2. \A i \in 1..Len(X) : P[7 + i] = X[i]
    BY LineFacts, Zenon DEF P, X
  <2>3. /\ s.vals[1] = P[2] /\ s.vals[2] = P[3] /\ s.vals[3] = P[4]
        /\ s.vals[4] = P[5] /\ s.vals[5] = P[6]
    BY <1>13, <1>19
  <2>4. CASE f.class = "InjectedFault"
    <3>1. s.vals[1].kind = "when" /\ s.vals[2].kind = "what"
      BY <2>1, <2>3 DEF Token
    <3> QED BY <2>4, <3>1 DEF Rejects, BaseClasses
  <2>5. CASE f.class # "InjectedFault"
    <3>1. n = 6 + Len(X)
      BY <1>2, <2>5 DEF n
    <3>2. s.vals[6] = P[7]
      BY <1>1, <1>19, <3>1
    <3>3. ASSUME NEW i \in 1..Len(X) PROVE s.vals[6 + i] = X[i]
      <4>1. 6 + i \in 1..n /\ (6 + i) + 1 = 7 + i
        BY <1>1, <3>1
      <4> QED BY <1>19, <2>2, <4>1
    <3> DEFINE vals == s.vals
               c == Token("num", f.tcontext)
    <3>4. /\ vals[1] = Token("when", [type |-> f.type, at |-> f.timing])
          /\ vals[2] = Token("what", [type |-> f.what, value |-> f.value])
          /\ vals[3] = Token("word", f.thread) /\ vals[4] = Token("word", f.where)
          /\ vals[5] = Token("num", f.occ) /\ vals[6] = c
      BY <2>1, <2>3, <3>2
    <3>5. \A i \in 1..Len(Extra(f)) : vals[6 + i] = Extra(f)[i]
      BY <3>3, SMTT(30) DEF X
    <3> HIDE DEF vals, c
    <3>6. ~Rejects(f.class, vals) /\ Construct(f.class, vals) = Made(f, c)
      <4>1. Carries(vals, f, c)
        BY <3>4, <3>5 DEF Carries
      <4> QED BY <4>1, ConstructIs, Zenon
    <3> QED BY <3>6 DEF vals, c
  <2> QED BY <2>4, <2>5
<1>23. /\ rest' = SubSeq(D, n + 1, Len(D)) \o more
       /\ good' = (n < Len(D) + Len(more) \/ input.newline)
       /\ ~rejected' /\ UNCHANGED input
  BY <1>11, <1>18, <1>20, <1>21, <1>22, Zenon
<1>24. faults' = IF f.class \in BaseClasses THEN faults
                 ELSE Append(faults, Made(f, Token("num", f.tcontext)))
  BY <1>21, <1>22
<1> QED BY <1>23, <1>24 DEF P, D, n, F
---------------------------------------------------------------------------
(* The words of a file. *)
Vocabulary(fs) == UNION {Range(PrintFault(fs[i])) : i \in 1..Len(fs)}

LEMMA TextType ==
    ASSUME NEW fs, Len(fs) \in Nat
    PROVE  /\ \A n \in 1..(Len(fs) + 1) : Text(fs)[n] \in Seq(Vocabulary(fs))
           /\ \A n \in 1..Len(fs) : PrintFault(fs[n]) \in Seq(Vocabulary(fs))
<1> DEFINE N == Len(fs)
           V == Vocabulary(fs)
           S == {m \in Nat : m <= N => Text(fs)[N + 1 - m] \in Seq(V)}
<1>1. ASSUME NEW n \in 1..N PROVE PrintFault(fs[n]) \in Seq(V)
  <2> DEFINE P == PrintFault(fs[n])
  <2>1. P \in Seq(Range(P))
    BY LineFacts, Zenon
  <2>2. Range(P) \subseteq V
    BY DEF Vocabulary
  <2> HIDE DEF P, V
  <2>3. P \in [1..Len(P) -> Range(P)] /\ Len(P) \in Nat
    BY <2>1
  <2>4. P \in [1..Len(P) -> V]
    BY <2>2, <2>3
  <2>5. P \in Seq(V)
    BY <2>3, <2>4
  <2> QED BY <2>5 DEF P, V
<1>2. 0 \in S
  <2>1. Text(fs)[N + 1] = <<>>
    BY TextIs, Zenon
  <2>2. N + 1 - 0 = N + 1
    OBVIOUS
  <2>3. Text(fs)[N + 1 - 0] = <<>>
    BY <2>1, <2>2, Zenon
  <2>4. <<>> \in Seq(V)
    OBVIOUS
  <2> HIDE DEF N, V
  <2>5. Text(fs)[N + 1 - 0] \in Seq(V)
    BY <2>3, <2>4, Zenon
  <2> QED BY <2>5
<1>3. ASSUME NEW m \in Nat, m < N, m \in S PROVE m + 1 \in S
  <2> DEFINE n == N + 1 - (m + 1)
  <2>1. n \in 1..N /\ n + 1 = N + 1 - m /\ m <= N
    BY <1>3
  <2> HIDE DEF n
  <2>2. Text(fs)[n] = PrintFault(fs[n]) \o Text(fs)[n + 1]
    BY <2>1, TextIs, Zenon
  <2>3. Text(fs)[n + 1] \in Seq(V) /\ PrintFault(fs[n]) \in Seq(V)
    BY <1>1, <1>3, <2>1
  <2>4. Text(fs)[n] \in Seq(V)
    BY <2>2, <2>3
  <2> QED BY <2>4 DEF n
<1> HIDE DEF S
<1>4. \A m \in 0..N : m \in S
  BY <1>2, <1>3, UpTo, Zenon
<1>5. ASSUME NEW n \in 1..(N + 1) PROVE Text(fs)[n] \in Seq(V)
  <2>1. N + 1 - n \in 0..N /\ N + 1 - (N + 1 - n) = n
    OBVIOUS
  <2>2. N + 1 - n \in S
    BY <1>4, <2>1
  <2> QED BY <2>1, <2>2 DEF S
<1> QED BY <1>1, <1>5

(* The faults made of the lines meant. *)
MadeAll(fs) == [i \in 1..Len(fs) |-> Made(fs[i], Token("num", fs[i].tcontext))]

LEMMA MadeOne ==
    ASSUME NEW T, NEW fs \in Seq(T), NEW f \in T
    PROVE  MadeAll(Append(fs, f)) = Append(MadeAll(fs), Made(f, Token("num", f.tcontext)))
<1> DEFINE M(g) == Made(g, Token("num", g.tcontext))
           gs == Append(fs, f)
           a == MadeAll(gs)
           b == MadeAll(fs)
           U == {M(g) : g \in T}
<1>1. a = [i \in 1..Len(gs) |-> M(gs[i])] /\ b = [i \in 1..Len(fs) |-> M(fs[i])]
  BY DEF MadeAll
<1>2. gs \in Seq(T) /\ Len(gs) = Len(fs) + 1 /\ gs[Len(fs) + 1] = f
      /\ \A i \in 1..Len(fs) : gs[i] = fs[i]
  OBVIOUS
<1> HIDE DEF gs, M, a, b
<1>3. \A g \in T : M(g) \in U
  OBVIOUS
<1> HIDE DEF U
<1>4. a \in Seq(U) /\ Len(a) = Len(fs) + 1
  BY <1>1, <1>2, <1>3
<1>5. b \in Seq(U) /\ Len(b) = Len(fs)
  BY <1>1, <1>3
<1>6. Append(b, M(f)) \in Seq(U) /\ Len(Append(b, M(f))) = Len(fs) + 1
  BY <1>3, <1>5
<1>7. ASSUME NEW i \in 1..(Len(fs) + 1) PROVE a[i] = Append(b, M(f))[i]
  <2>1. CASE i = Len(fs) + 1
    BY <1>1, <1>2, <1>5, <2>1
  <2>2. CASE i \in 1..Len(fs)
    BY <1>1, <1>2, <1>5, <2>2
  <2>3. i = Len(fs) + 1 \/ i \in 1..Len(fs)
    OBVIOUS
  <2> QED BY <2>1, <2>2, <2>3, Zenon
<1>8. a = Append(b, M(f))
  BY <1>4, <1>6, <1>7, SameSeq
<1> QED BY <1>8 DEF a, b, gs, M
LEMMA MeantType ==
    ASSUME NEW T, NEW fs \in Seq(T), NEW j \in 0..Len(fs)
    PROVE  /\ Meant(fs)[j] \in Seq(T)
           /\ \A i \in 1..Len(Meant(fs)[j]) : Meant(fs)[j][i].class \in Queueing
<1> DEFINE N == Len(fs)
           Q == {f \in T : f.class \in Queueing}
           S == {n \in Nat : n <= N => Meant(fs)[n] \in Seq(Q)}
<1>1. N \in Nat
  OBVIOUS
<1>2. 0 \in S
  <2>1. Meant(fs)[0] = <<>>
    BY <1>1, MeantIs, Zenon
  <2>2. <<>> \in Seq(Q)
    OBVIOUS
  <2> HIDE DEF Q
  <2>3. Meant(fs)[0] \in Seq(Q)
    BY <2>1, <2>2, Zenon
  <2> QED BY <2>3
<1>3. ASSUME NEW n \in Nat, n < N, n \in S PROVE n + 1 \in S
  <2>1. n + 1 \in 1..N /\ (n + 1) - 1 = n /\ fs[n + 1] \in T /\ n <= N
    BY <1>3
  <2>2. Meant(fs)[n + 1] = IF fs[n + 1].class \in Queueing
                           THEN Append(Meant(fs)[n], fs[n + 1]) ELSE Meant(fs)[n]
    BY <1>1, <2>1, MeantIs
  <2>3. fs[n + 1].class \in Queueing => fs[n + 1] \in Q
    BY <2>1
  <2> HIDE DEF Q
  <2>4. Meant(fs)[n] \in Seq(Q)
    BY <1>3, <2>1
  <2>5. Meant(fs)[n + 1] \in Seq(Q)
    BY <2>2, <2>3, <2>4
  <2> QED BY <2>5
<1> HIDE DEF S
<1>4. \A n \in 0..N : n \in S
  BY <1>1, <1>2, <1>3, UpTo, Zenon
<1>5. j \in S
  BY <1>4
<1> DEFINE M == Meant(fs)[j]
<1>6. M \in Seq(Q)
  BY <1>5 DEF S
<1> HIDE DEF M
<1>7. \A i \in 1..Len(M) : M[i] \in Q
  <2> HIDE DEF Q
  <2> QED BY <1>6
<1>8. M \in Seq(T)
  <2>1. Q \subseteq T
    OBVIOUS
  <2> HIDE DEF Q
  <2> QED BY <1>6, <2>1
<1> QED BY <1>7, <1>8 DEF M

(* When the stream is empty every line was taken. *)
LEMMA TextEmpty ==
    ASSUME NEW fs, Len(fs) \in Nat, NEW j \in 0..Len(fs), NEW d \in Seq(Vocabulary(fs)),
           Len(d \o Text(fs)[j + 1]) = 0
    PROVE  j = Len(fs)
<1> DEFINE V == Vocabulary(fs)
           A == Text(fs)[j + 1]
<1> SUFFICES ASSUME j # Len(fs) PROVE FALSE
  OBVIOUS
<1>1. j + 1 \in 1..Len(fs) /\ j + 1 \in 1..(Len(fs) + 1) /\ (j + 1) + 1 \in 1..(Len(fs) + 1)
  OBVIOUS
<1> DEFINE P == PrintFault(fs[j + 1])
           B == Text(fs)[(j + 1) + 1]
<1>2. A = P \o B
  BY <1>1, TextIs, Zenon
<1>3. A \in Seq(V) /\ B \in Seq(V) /\ P \in Seq(V)
  BY <1>1, TextType
<1>4. Len(P) = 7 + Len(Extra(fs[j + 1])) /\ Len(Extra(fs[j + 1])) \in 0..2
  BY LineFacts, Zenon
<1>5. Len(d \o A) = Len(d) + Len(A)
  BY <1>3, ConcatFacts
<1>6. Len(d \o A) = 0
  OBVIOUS
<1> HIDE DEF A, B, P, V
<1>7. Len(A) = Len(P) + Len(B)
  BY <1>2, <1>3, ConcatFacts
<1>8. Len(d) \in Nat /\ Len(A) \in Nat /\ Len(B) \in Nat
  BY <1>3
<1>9. Len(P) \in Nat /\ Len(P) >= 7
  BY <1>4
<1>10. Len(A) = 0
  BY <1>5, <1>6, <1>8
<1>11. \A a, p, b \in Nat : p >= 7 /\ a = p + b => a # 0
  OBVIOUS
<1> QED BY <1>7, <1>8, <1>9, <1>10, <1>11, Zenon

LEMMA NoLength ==
    ASSUME NEW T, NEW s \in Seq(T)
    PROVE  Len(s) \in Nat /\ (s = <<>> <=> Len(s) = 0)
  OBVIOUS

---------------------------------------------------------------------------
(* Between two rounds the rest of a file of run.sh is what a constructor   *)
(* left of a line, which names no class, and the lines that follow; and    *)
(* the faults are those of the lines before.                               *)
At(fs, j, d) ==
    /\ rest = d \o Text(fs)[j + 1]
    /\ \A i \in 1..Len(d) : ~Names(d[i])
    /\ faults = MadeAll(Meant(fs)[j])

Reading(fs) ==
    /\ \E j \in 0..Len(fs), d \in Seq(Vocabulary(fs)) : At(fs, j, d)
    /\ rest = <<>> => check = "none"

(* After a round the stream is good as long as it has tokens left. *)
LEMMA Advance ==
    ASSUME NEW fs, Len(fs) \in Nat, NEW j \in 0..Len(fs), NEW d \in Seq(Vocabulary(fs)),
           At(fs, j, d)', good' <=> Len(rest') > 0
    PROVE  /\ good' => Reading(fs)'
           /\ ~good' => faults' = MadeAll(Meant(fs)[Len(fs)])
<1> DEFINE V == Vocabulary(fs)
           A == Text(fs)[j + 1]
<1>1. A \in Seq(V)
  BY TextType
<1>2. rest' = d \o A
  BY DEF At
<1>3. Len(rest') = Len(d \o A) /\ Len(rest') \in Nat /\ (rest' = <<>> <=> Len(rest') = 0)
  <2>1. d \o A \in Seq(V)
    BY <1>1, ConcatFacts, SMTT(30)
  <2> HIDE DEF V, A
  <2> QED BY <1>2, <2>1, NoLength
<1>4. CASE good'
  <2>1. rest' # <<>>
    BY <1>3, <1>4
  <2> QED BY <1>4, <2>1, Zenon DEF Reading, At, Meant, Text
<1>5. CASE ~good'
  <2>1. Len(d \o A) = 0
    BY <1>3, <1>5
  <2>2. j = Len(fs)
    BY <2>1, TextEmpty
  <2> QED BY <1>5, <2>2 DEF At
<1> QED BY <1>4, <1>5
(* A round on a file of run.sh. *)
LEMMA ReadHanded ==
    ASSUME NEW fs \in Handouts, input = Handed(fs), Reading(fs), good = TRUE, ReadFault
    PROVE  /\ ~rejected' /\ good' \in BOOLEAN /\ input' = input
           /\ good' => Reading(fs)'
           /\ ~good' => faults' = MadeAll(Meant(fs)[Len(fs)])
<1> DEFINE T == Range(fs)
           V == Vocabulary(fs)
           N == Len(fs)
<1>1. fs \in Seq(T) /\ N \in Nat /\ \A i \in 1..N : fs[i] \in T /\ WellFormed(fs[i])
  <2>1. fs \in Seq(T) /\ \A i \in DOMAIN fs : WellFormed(fs[i])
    BY FileAssumption
  <2> HIDE DEF T
  <2> QED BY <2>1
<1>2. input.newline = FALSE /\ input.newline \in BOOLEAN
  BY DEF Handed
<1>3. PICK j \in 0..N, d \in Seq(V) : At(fs, j, d)
  BY DEF Reading
<1>4. input' = input /\ ~rejected
  BY DEF ReadFault
<1> DEFINE A == Text(fs)[j + 1]
<1>5. A \in Seq(V)
  BY <1>1, TextType
<1>6. rest = d \o A /\ faults = MadeAll(Meant(fs)[j]) /\ \A i \in 1..Len(d) : ~Names(d[i])
  BY <1>3 DEF At
<1> HIDE DEF T, V, A
<1>7. rest \in Seq(V) /\ Len(rest) = Len(d) + Len(A) /\ Len(rest) \in Nat
      /\ Len(d) \in Nat /\ Len(A) \in Nat
  <2>1. rest \in Seq(V) /\ Len(rest) = Len(d) + Len(A)
    BY <1>5, <1>6, ConcatFacts
  <2> QED BY <1>5, <2>1, NoLength
(* What a round that takes one token leaves. *)
<1>8. ASSUME rest # <<>>, ~Names(Head(rest))
      PROVE  /\ rest' = SubSeq(rest, 2, Len(rest)) /\ (good' <=> Len(rest) > 1)
             /\ good' \in BOOLEAN /\ ~rejected' /\ faults' = faults
  <2>1. /\ rest' = SubSeq(rest, 2, Len(rest)) /\ good' = (Len(rest) > 1 \/ input.newline)
        /\ UNCHANGED <<faults, rejected, input>>
    BY <1>2, <1>7, <1>8, RoundSkip
  <2> QED BY <1>2, <1>4, <2>1, Zenon
<1>9. ASSUME NEW k \in 0..N, NEW e \in Seq(V), At(fs, k, e)', good' \in BOOLEAN, ~rejected',
             good' <=> Len(rest') > 0
      PROVE  /\ ~rejected' /\ good' \in BOOLEAN /\ input' = input
             /\ good' => Reading(fs)'
             /\ ~good' => faults' = MadeAll(Meant(fs)[N])
  BY <1>1, <1>4, <1>9, Advance DEF V
<1>10. CASE d # <<>>
  <2> DEFINE e == SubSeq(d, 2, Len(d))
  <2>1. Len(d) >= 1
    BY <1>10
  <2>2. rest # <<>> /\ Head(rest) = d[1]
    <3>1. \A i \in 1..Len(d) : (d \o A)[i] = d[i]
      BY <1>5, ConcatFacts
    <3>2. rest[1] = d[1]
      BY <1>6, <2>1, <3>1
    <3> QED BY <1>7, <2>1, <3>2
  <2>3. ~Names(Head(rest))
    BY <1>6, <2>1, <2>2
  <2>4. SubSeq(rest, 2, Len(rest)) = e \o A
    <3>1. 1 \in 0..Len(d) /\ 1 + 1 = 2
      BY <2>1
    <3>2. SubSeq(d \o A, 1 + 1, Len(d \o A)) = SubSeq(d, 1 + 1, Len(d)) \o A
      BY <1>5, <3>1, Drop
    <3> QED BY <1>6, <3>1, <3>2, ZenonT(30)
  <2>5. e \in Seq(V) /\ Len(e) = Len(d) - 1 /\ \A i \in 1..Len(e) : e[i] = d[i + 1]
    <3>1. e \in Seq(V)
      BY <2>1
    <3>2. Len(e) = Len(d) - 1
      <4>1. 1 \in 0..Len(d) /\ 1 + 1 = 2
        BY <2>1
      <4>2. Len(SubSeq(d, 1 + 1, Len(d))) = Len(d) - 1
        BY <4>1, Suffix, Zenon
      <4> QED BY <4>1, <4>2
    <3>3. \A i \in 1..(Len(d) - 1) : e[i] = d[i + 1]
      BY <2>1
    <3> HIDE DEF e
    <3> QED BY <3>1, <3>2, <3>3
  <2> HIDE DEF e
  <2>6. rest' = e \o A /\ faults' = faults /\ ~rejected' /\ good' \in BOOLEAN
        /\ (good' <=> Len(rest) > 1)
    BY <1>8, <2>2, <2>3, <2>4, ZenonT(30)
  <2>7. \A i \in 1..Len(e) : ~Names(e[i])
    <3> SUFFICES ASSUME NEW i \in 1..Len(e) PROVE ~Names(e[i])
      OBVIOUS
    <3>1. i + 1 \in 1..Len(d)
      BY <1>7, <2>5
    <3> QED BY <1>6, <2>5, <3>1
  <2>8. At(fs, j, e)'
    BY <1>6, <2>6, <2>7 DEF At, A, Names
  <2>9. Len(rest') = Len(rest) - 1
    <3>1. Len(e \o A) = Len(e) + Len(A)
      BY <1>5, <2>5, ConcatFacts, Zenon
    <3> QED BY <1>7, <2>5, <2>6, <3>1
  <2>10. good' <=> Len(rest') > 0
    BY <1>7, <2>6, <2>9
  <2> QED BY <1>9, <2>5, <2>6, <2>8, <2>10
<1>11. CASE d = <<>> /\ j = N
  <2>1. A = <<>>
    BY <1>1, <1>11, TextIs, Zenon DEF A
  <2>2. rest = <<>>
    <3>1. Len(d) = 0 /\ Len(A) = 0
      BY <1>11, <2>1
    <3> QED BY <1>7, <3>1
  <2>3. check' = check /\ check = "none"
    BY <2>2 DEF ReadFault, Reading
  <2>4. check' \notin Classes
    BY <2>3 DEF Classes, CpuClasses, BaseClasses, O3Classes
  <2> DEFINE s == [rest |-> rest, good |-> good, vals |-> <<>>]
             first == Get(s, "string")
  <2>5. good' = first.good /\ faults' = faults /\ rejected' = rejected
    BY <2>4 DEF ReadFault
  <2>6. s.rest = <<>>
    BY <2>2
  <2> HIDE DEF s
  <2>7. first = [rest |-> s.rest, good |-> FALSE, vals |-> Append(s.vals, Unread)]
    BY <2>6 DEF Get
  <2> HIDE DEF first
  <2>8. first.good = FALSE
    BY <2>7
  <2> QED BY <1>4, <1>6, <1>11, <2>5, <2>8, Zenon
<1>12. CASE d = <<>> /\ j # N
  <2> DEFINE n == j + 1
             f == fs[n]
             P == PrintFault(f)
             D == SubSeq(P, 2, Len(P))
             B == Text(fs)[n + 1]
             X == Extra(f)
  <2>1. n \in 1..N /\ n - 1 = j /\ n \in 0..N /\ n + 1 \in 1..(N + 1)
    BY <1>1, <1>12
  <2>2. WellFormed(f) /\ f \in T
    BY <1>1, <2>1
  <2>3. A = P \o B /\ P \in Seq(V) /\ B \in Seq(V)
    BY <1>1, <2>1, TextIs, TextType, Zenon DEF A, V
  <2>4. rest = P \o B
    <3>1. Len(d) = 0
      BY <1>12
    <3>2. <<>> \o A = A
      BY <1>5
    <3> QED BY <1>6, <1>12, <2>3, <3>2
  <2>5. Len(P) = 7 + Len(X) /\ Len(X) \in 0..2 /\ P[1] = Token("word", f.class)
    BY LineFacts, Zenon
  <2>6. Meant(fs)[n] = IF f.class \in Queueing THEN Append(Meant(fs)[j], f)
                       ELSE Meant(fs)[j]
    BY <1>1, <2>1, MeantIs
  <2>7. \A i \in 2..Len(P) : ~Names(P[i])
    BY <2>2, LineNames
  <2> HIDE DEF n, f, P, B, X
  <2>8. D \in Seq(V) /\ Len(D) = 6 + Len(X) /\ \A i \in 1..Len(D) : D[i] = P[i + 1]
    BY <2>3, <2>5
  <2> HIDE DEF D
  <2>9. ASSUME NEW k \in 0..Len(D)
        PROVE  LET e == SubSeq(D, k + 1, Len(D)) IN
               /\ e \in Seq(V) /\ Len(e) = Len(D) - k /\ \A i \in 1..Len(e) : ~Names(e[i])
               /\ Len(e \o B) = (Len(D) - k) + Len(B)
    <3> DEFINE e == SubSeq(D, k + 1, Len(D))
    <3>1. e \in Seq(V) /\ Len(e) = Len(D) - k /\ \A i \in 1..Len(e) : e[i] = D[k + i]
      BY <2>8
    <3> HIDE DEF e
    <3>2. ASSUME NEW i \in 1..Len(e) PROVE ~Names(e[i])
      <4>1. k + i \in 1..Len(D) /\ (k + i) + 1 \in 2..Len(P)
        BY <2>5, <2>8, <3>1
      <4>2. e[i] = P[(k + i) + 1]
        BY <2>8, <3>1, <4>1, Zenon
      <4> QED BY <2>7, <4>1, <4>2
    <3>3. Len(e \o B) = Len(e) + Len(B)
      BY <2>3, <3>1, ConcatFacts, Zenon
    <3> QED BY <3>1, <3>2, <3>3 DEF e
  <2>10. CASE f.class \notin Classes
    <3> DEFINE e == SubSeq(D, 0 + 1, Len(D))
    <3>1. rest # <<>> /\ Head(rest) = P[1] /\ Len(rest) = Len(P) + Len(B)
      <4>1. Len(rest) = Len(P) + Len(B) /\ \A i \in 1..Len(P) : rest[i] = P[i]
        BY <2>3, <2>4, ConcatFacts
      <4>2. Len(B) \in Nat /\ 1 \in 1..Len(P) /\ Len(P) \in Nat /\ Len(P) > 0
        BY <2>3, <2>5
      <4>3. Len(rest) > 0
        BY <4>1, <4>2
      <4> QED BY <1>7, <4>1, <4>2, <4>3
    <3>2. ~Names(Head(rest))
      BY <2>5, <2>10, <3>1 DEF Names, Token
    <3>3. SubSeq(rest, 2, Len(rest)) = D \o B
      <4>1. 1 \in 0..Len(P) /\ 1 + 1 = 2
        BY <2>5
      <4>2. SubSeq(P \o B, 1 + 1, Len(P \o B)) = SubSeq(P, 1 + 1, Len(P)) \o B
        BY <2>3, <4>1, Drop, Zenon
      <4> QED BY <2>4, <4>1, <4>2, ZenonT(30) DEF D
    <3>4. e = D
      BY <2>8
    <3>5. /\ e \in Seq(V) /\ Len(e) = Len(D) - 0 /\ \A i \in 1..Len(e) : ~Names(e[i])
          /\ Len(e \o B) = (Len(D) - 0) + Len(B)
      BY <2>8, <2>9
    <3> HIDE DEF e
    <3>6. rest' = e \o B /\ faults' = faults /\ ~rejected' /\ good' \in BOOLEAN
          /\ (good' <=> Len(rest) > 1)
      BY <1>8, <3>1, <3>2, <3>3, <3>4, ZenonT(30)
    <3>7. faults' = MadeAll(Meant(fs)[n])
      <4>1. f.class \notin Queueing
        BY <2>10 DEF Queueing, Classes
      <4> QED BY <1>6, <2>6, <3>6, <4>1
    <3>8. At(fs, n, e)'
      BY <3>5, <3>6, <3>7 DEF At, B, Names
    <3>9. good' <=> Len(rest') > 0
      <4>1. Len(rest') = (Len(D) - 0) + Len(B)
        BY <3>5, <3>6
      <4>2. Len(B) \in Nat /\ Len(D) \in Nat /\ Len(P) = Len(D) + 1 /\ Len(D) > 0
        BY <2>3, <2>5, <2>8, SMTT(30)
      <4> QED BY <3>1, <3>6, <4>1, <4>2
    <3> QED BY <1>9, <2>1, <3>5, <3>6, <3>8, <3>9
  <2>11. CASE f.class \in Classes
    <3> DEFINE k == Len(Fields(f.class))
               e == SubSeq(D, k + 1, Len(D))
    <3>1. k \in 0..Len(D)
      BY <2>5, <2>8, <2>11, FieldsFacts DEF X
    <3>2. /\ rest' = e \o B /\ good' = (k < Len(D) + Len(B) \/ input.newline)
          /\ ~rejected'
          /\ faults' = IF f.class \in BaseClasses THEN faults
                       ELSE Append(faults, Made(f, Token("num", f.tcontext)))
      BY <1>2, <2>2, <2>3, <2>4, <2>11, RoundClass, Zenon DEF D, P
    <3>3. /\ e \in Seq(V) /\ Len(e) = Len(D) - k /\ \A i \in 1..Len(e) : ~Names(e[i])
          /\ Len(e \o B) = (Len(D) - k) + Len(B)
      BY <2>9, <3>1, Zenon
    <3> HIDE DEF k, e
    <3>4. good' \in BOOLEAN /\ (good' <=> k < Len(D) + Len(B))
      BY <1>2, <3>2, Zenon
    <3>5. faults' = MadeAll(Meant(fs)[n])
      <4>1. CASE f.class \in BaseClasses
        <5>1. f.class \notin Queueing
          BY <4>1 DEF Queueing, BaseClasses, CpuClasses, O3Classes
        <5> QED BY <1>6, <2>6, <3>2, <4>1, <5>1
      <4>2. CASE f.class \notin BaseClasses
        <5>1. f.class \in Queueing
          BY <2>11, <4>2 DEF Queueing, Classes
        <5>2. Meant(fs)[j] \in Seq(T)
          BY <1>1, MeantType
        <5>3. MadeAll(Append(Meant(fs)[j], f)) =
                Append(MadeAll(Meant(fs)[j]), Made(f, Token("num", f.tcontext)))
          BY <2>2, <5>2, MadeOne
        <5> QED BY <1>6, <2>6, <3>2, <4>2, <5>1, <5>3
      <4> QED BY <4>1, <4>2
    <3>6. At(fs, n, e)'
      BY <3>2, <3>3, <3>5, Zenon DEF At, B, Names
    <3>7. good' <=> Len(rest') > 0
      <4>1. Len(rest') = (Len(D) - k) + Len(B)
        BY <3>2, <3>3
      <4>2. Len(B) \in Nat /\ Len(D) \in Nat
        BY <2>3, <2>8
      <4> QED BY <3>1, <3>4, <4>1, <4>2
    <3> QED BY <1>9, <2>1, <3>2, <3>3, <3>4, <3>6, <3>7, SMTT(30)
  <2> QED BY <2>10, <2>11
<1> QED BY <1>10, <1>11, <1>12

LEMMA PythonWellFormed ==
    ASSUME NEW f \in PythonFaults(PythonBits)
    PROVE  /\ WellFormed(f) /\ f.class = "GeneralFetchInjectedFault" /\ f.occ = 1
           /\ f.extra = 0 /\ f.tcontext = 0
<1>1. PICK bit \in 0..(PythonBits - 1) : f = PythonFault(bit, 1)
  BY DEF PythonFaults
<1>2. bit \in Nat
  BY FileAssumption
<1>3. "all" \notin Classes
  BY DEF Classes, CpuClasses, BaseClasses, O3Classes
<1>4. /\ f.class = "GeneralFetchInjectedFault" /\ f.what = "Flip" /\ f.value = bit
      /\ f.occ = 1 /\ f.thread = "all" /\ f.where = "all" /\ f.extra = 0 /\ f.tcontext = 0
      /\ f = [class |-> f.class, type |-> f.type, timing |-> f.timing, what |-> f.what,
              value |-> f.value, thread |-> f.thread, where |-> f.where, occ |-> f.occ,
              tcontext |-> f.tcontext, extra |-> f.extra]
  BY <1>1 DEF PythonFault
<1> QED BY <1>2, <1>3, <1>4 DEF WellFormed

(* The one round on a file of the Python generator. *)
LEMMA ReadPython ==
    ASSUME NEW f \in PythonFaults(PythonBits), input = PythonFile(f), rest = Line(f),
           faults = <<>>, good = TRUE, ReadFault
    PROVE  ~rejected' /\ good' = FALSE /\ input' = input /\ faults' = <<Made(f, Unread)>>
<1> DEFINE L == Line(f)
           R == Range(L)
           r == SubSeq(L, 2, Len(L))
           F == Fields(f.class)
           X == Extra(f)
           first == Get([rest |-> rest, good |-> good, vals |-> <<>>], "string")
           s == GetAll([rest |-> first.rest, good |-> first.good, vals |-> <<>>], F)
<1>1. WellFormed(f) /\ f.class = "GeneralFetchInjectedFault"
  BY PythonWellFormed
<1>2. input.newline = TRUE /\ input.newline \in BOOLEAN
  BY SMTT(30) DEF PythonFile
<1>3. L \in Seq(R) /\ Len(L) = 6
  BY SMTT(30) DEF Line, Range
<1>4. /\ L[1] = Token("word", f.class)
      /\ L[2] = Token("when", [type |-> f.type, at |-> f.timing])
      /\ L[3] = Token("what", [type |-> f.what, value |-> f.value])
      /\ L[4] = Token("word", f.thread) /\ L[5] = Token("word", f.where)
      /\ L[6] = Token("num", f.occ)
  BY DEF Line
<1>5. f.class \in Classes /\ f.class \notin BaseClasses
  BY <1>1 DEF Classes, O3Classes, BaseClasses
<1>6. X = <<>>
  BY <1>1 DEF Extra
<1>7. Len(X) = 0
  BY <1>6
<1>8. rest = L
  OBVIOUS
<1> HIDE DEF L, R, X
<1>9. rest # <<>> /\ Head(rest) = L[1]
  <2>1. L # <<>> /\ Head(L) = L[1]
    BY <1>3, SixWords, Zenon
  <2> QED BY <1>8, <2>1, Zenon
<1>10. check' = f.class
  <2>1. Head(rest).kind = "word" /\ Head(rest).val = f.class
    BY <1>4, <1>9 DEF Token
  <2> QED BY <1>9, <2>1, SMTT(30) DEF ReadFault
<1>11. r \in Seq(R) /\ Len(r) = 5
  <2>1. 1 \in 0..Len(L) /\ 1 + 1 = 2
    BY <1>3
  <2>2. SubSeq(L, 1 + 1, Len(L)) \in Seq(R) /\ Len(SubSeq(L, 1 + 1, Len(L))) = Len(L) - 1
    BY <1>3, <2>1, Suffix, Zenon
  <2> QED BY <1>3, <2>1, <2>2
<1>12. \A i \in 1..5 : r[i] = L[i + 1]
  BY <1>3
<1>13. first.rest = r /\ first.good = TRUE
  <2>1. first.rest = SubSeq(rest, 2, Len(rest)) /\ first.good = (Len(rest) > 1 \/ input.newline)
    BY <1>2, <1>3, <1>8, <1>9, FirstRead
  <2> HIDE DEF first
  <2> QED BY <1>2, <1>8, <2>1
<1> HIDE DEF first, r
<1>14. [rest |-> first.rest, good |-> first.good, vals |-> <<>>] = After(r, 0)
  <2>1. SubSeq(r, 0 + 1, Len(r)) = r
    BY <1>11
  <2>2. SubSeq(r, 1, 0) = <<>>
    BY <1>11
  <2> QED BY <1>13, <2>1, <2>2, Zenon DEF After
<1>15. Len(F) = 6
  <2>1. Len(F) = IF f.class = "InjectedFault" THEN 5 ELSE 6 + Len(X)
    BY <1>5, FieldsFacts DEF X
  <2>2. f.class # "InjectedFault"
    BY <1>1
  <2> QED BY <1>7, <2>1, <2>2
<1>16. \A i \in 1..5 : F[i] = "int" => r[i].kind = "num"
  <2> DEFINE none == <<>>
             one == <<"int">>
  <2>1. F = (Common \o one) \o none
    BY <1>1 DEF Fields
  <2>2. one \in Seq({"string", "int"}) /\ none \in Seq({"string", "int"})
    OBVIOUS
  <2> HIDE DEF F, none, one
  <2>3. \A i \in 1..4 : F[i] = "string"
    <3>1. FieldsAre(F, one, none)
      BY <2>1, <2>2, FieldsOf, Zenon
    <3> QED BY <3>1 DEF FieldsAre
  <2>4. r[5].kind = "num"
    BY <1>4, <1>12 DEF Token
  <2> SUFFICES ASSUME NEW i \in 1..5, F[i] = "int" PROVE r[i].kind = "num"
    OBVIOUS
  <2>5. ~(i \in 1..4)
    BY <2>3
  <2>6. i = 5
    BY <2>5, SMTT(30)
  <2> QED BY <2>4, <2>6
<1> HIDE DEF F
<1>17. s = [rest |-> <<>>, good |-> FALSE, vals |-> Append(r, Unread)]
  <2>1. Len(F) = Len(r) + 1
    BY <1>11, <1>15
  <2>2. \A i \in 1..Len(r) : F[i] = "int" => r[i].kind = "num"
    BY <1>11, <1>16
  <2>3. GetAll(After(r, 0), F) = [rest |-> <<>>, good |-> FALSE, vals |-> Append(r, Unread)]
    BY <1>2, <1>11, <2>1, <2>2, GetAllBut, Zenon
  <2> QED BY <1>14, <2>3, Zenon
<1> HIDE DEF s
<1> DEFINE vals == Append(r, Unread)
<1>18. s.good = FALSE /\ s.vals = vals
  BY <1>17
<1>19. (\A i \in 1..5 : vals[i] = L[i + 1]) /\ vals[6] = Unread
  <2>1. (\A i \in 1..Len(r) : vals[i] = r[i]) /\ vals[Len(r) + 1] = Unread
    BY <1>11, Longer, Zenon
  <2> HIDE DEF vals
  <2>2. 1..Len(r) = 1..5 /\ Len(r) + 1 = 6
    BY <1>11
  <2>3. (\A i \in 1..5 : vals[i] = r[i]) /\ vals[6] = Unread
    BY <2>1, <2>2
  <2> QED BY <1>12, <2>3
<1> HIDE DEF vals
<1>20. ~Rejects(f.class, vals) /\ Construct(f.class, vals) = Made(f, Unread)
  <2>1. /\ vals[1] = L[2] /\ vals[2] = L[3] /\ vals[3] = L[4]
        /\ vals[4] = L[5] /\ vals[5] = L[6]
    BY <1>19
  <2>2. /\ vals[1] = Token("when", [type |-> f.type, at |-> f.timing])
        /\ vals[2] = Token("what", [type |-> f.what, value |-> f.value])
        /\ vals[3] = Token("word", f.thread) /\ vals[4] = Token("word", f.where)
        /\ vals[5] = Token("num", f.occ) /\ vals[6] = Unread
    BY <1>4, <1>19, <2>1
  <2>3. Len(Extra(f)) = 0
    BY <1>7 DEF X
  <2>4. \A i \in 1..Len(Extra(f)) : vals[6 + i] = Extra(f)[i]
    BY <2>3
  <2>5. Carries(vals, f, Unread)
    BY <2>2, <2>4 DEF Carries
  <2> QED BY <1>1, <2>5, ConstructIs, Zenon
<1>21. /\ good' = s.good /\ rejected' = Rejects(f.class, s.vals)
       /\ faults' = IF rejected' \/ f.class \in BaseClasses THEN faults
                    ELSE Append(faults, Construct(f.class, s.vals))
       /\ input' = input
  BY <1>5, <1>10, Zenon DEF ReadFault, s, first, F
<1>22. ~rejected' /\ good' = FALSE /\ input' = input
  BY <1>18, <1>20, <1>21
<1>23. faults' = Append(<<>>, Made(f, Unread))
  BY <1>5, <1>18, <1>20, <1>21
<1> QED BY <1>22, <1>23

=============================================================================
