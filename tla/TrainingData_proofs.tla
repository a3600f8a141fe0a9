------------------------- MODULE TrainingData_proofs -------------------------
(* The heading of the csv file and the labels of its rows, for any number  *)
(* of simulations, whatever they write and however they are timed.         *)
EXTENDS TrainingData, Integers, WellFoundedInduction, TLAPS

(* A set of natural numbers that is not empty has a least element.         *)
LEMMA NatMin ==
    ASSUME NEW S \in SUBSET Nat, S # {}
    PROVE  \E m \in S : \A k \in S : m <= k
<1>1. /\ IsWellFoundedOn(OpToRel(<, Nat), Nat)
      /\ \A k, m \in Nat : k < m => <<k, m>> \in OpToRel(<, Nat)
  BY NatLessThanWellFounded DEF OpToRel
<1>2. PICK R : /\ IsWellFoundedOn(R, Nat)
               /\ \A k, m \in Nat : k < m => <<k, m>> \in R
  BY <1>1, Zenon
<1>3. PICK m \in S : \A k \in S : ~ (<<k, m>> \in R)
  <2>1. IsWellFoundedOn(R, Nat) /\ S \subseteq Nat
    BY <1>2
  <2> QED
    BY <2>1, WFMin, Zenon
<1>4. \A k \in S : ~ (k < m)
  BY <1>2, <1>3, Zenon
<1>5. \A k \in S : m <= k
  BY <1>4
<1> QED
  BY <1>5

LEMMA NotBelow ==
    ASSUME NEW a \in Nat, NEW b \in Nat, a > b
    PROVE  ~(a <= b)
OBVIOUS

LEMMA Within ==
    ASSUME NEW l \in Nat, NEW n \in 0..(l - 1)
    PROVE  n + 1 \in 1..l /\ \A b \in 2..n : b \in 1..l /\ b \in 2..(n + 1)
OBVIOUS

LEMMA IndexNat ==
    ASSUME NEW l, NEW n \in 0..l
    PROVE  n \in Nat
OBVIOUS

LEMMA NotLess ==
    ASSUME NEW a \in Nat
    PROVE  a <= a /\ a <= a + 1
OBVIOUS

LEMMA LongerIndex ==
    ASSUME NEW l \in Nat, NEW m \in Nat, l <= m, NEW k \in 1..l
    PROVE  k \in 1..m
OBVIOUS

LEMMA LastOrEarlier ==
    ASSUME NEW n \in Nat, NEW k \in 1..(n + 1)
    PROVE  k \in 1..n \/ k = n + 1
OBVIOUS

LEMMA SectionStart ==
    ASSUME NEW l \in Nat, NEW n \in Nat, n + 1 \in 1..l, NEW b \in 1..(n + 1), 1 < b, b < n + 1
    PROVE  b \in 2..l /\ b - 1 \in 1..n
OBVIOUS

LEMMA PositiveIndex ==
    ASSUME NEW l, NEW k \in 1..l
    PROVE  k # 0
OBVIOUS

LEMMA OneFurther ==
    ASSUME NEW l \in Nat, NEW k \in 0..l, k < l
    PROVE  k + 1 \in 0..l
OBVIOUS

LEMMA LastOrInside ==
    ASSUME NEW a \in Nat, NEW n \in Nat, NEW k \in (a + 1)..(n + 1)
    PROVE  k \in (a + 1)..n \/ k = n + 1
OBVIOUS

LEMMA LenNat ==
    ASSUME NEW S, NEW s \in Seq(S)
    PROVE  Len(s) \in Nat
OBVIOUS

(* A set that holds 0 and, with every number below n, its successor, holds *)
(* all numbers up to n.                                                    *)
LEMMA UpTo ==
    ASSUME NEW n \in Nat, NEW S, 0 \in S,
           \A k \in Nat : k < n /\ k \in S => k + 1 \in S
    PROVE  \A k \in 0..n : k \in S
<1> DEFINE Bad == {k \in Nat : k <= n /\ k \notin S}
<1>1. SUFFICES ASSUME Bad # {} PROVE FALSE
  OBVIOUS
<1>2. PICK m \in Bad : \A k \in Bad : m <= k
  <2>1. Bad \in SUBSET Nat
    OBVIOUS
  <2> HIDE DEF Bad
  <2> QED
    BY <1>1, <2>1, NatMin
<1>3. m \in Nat /\ m # 0 /\ m - 1 \in Nat /\ m <= n /\ m \notin S
  BY <1>2
<1>4. m - 1 \in S
  BY <1>2, <1>3
<1>5. (m - 1) + 1 \in S
  BY <1>3, <1>4
<1> QED
  BY <1>3, <1>5
---------------------------------------------------------------------------
(* What Text is: what a line adds to the text, line by line.               *)
Add(t, l) ==
    IF l.kind = "stat" /\ l.key \notin skip_features /\ l.val # NoNumber
    THEN t \o l.key \o l.val ELSE t

Spells(h, s, b, e) == h = [k \in b..e |-> IF k = b THEN <<>> ELSE Add(h[k - 1], s[k])]

LEMMA Spelt ==
    ASSUME NEW s, NEW b \in Nat, NEW e \in Nat, b <= e
    PROVE  \E h : Spells(h, s, b, e)
<1> DEFINE S == {n \in Nat : \E h : Spells(h, s, b, b + n)}
<1>1. 0 \in S
  <2>1. Spells([k \in b..(b + 0) |-> <<>>], s, b, b + 0)
    BY DEF Spells
  <2> QED BY <2>1
<1>2. ASSUME NEW n \in Nat, n < e - b, n \in S PROVE n + 1 \in S
  <2>1. PICK g : Spells(g, s, b, b + n)
    BY <1>2
  <2> DEFINE m == b + n
             h == [k \in b..(m + 1) |-> IF k = m + 1 THEN Add(g[m], s[k]) ELSE g[k]]
  <2>2. m \in Nat /\ b <= m /\ b + (n + 1) = m + 1
    OBVIOUS
  <2>3. g = [k \in b..m |-> IF k = b THEN <<>> ELSE Add(g[k - 1], s[k])]
    BY <2>1 DEF Spells
  <2> HIDE DEF m
  <2>4. \A k \in b..(m + 1) : h[k] = IF k = b THEN <<>> ELSE Add(h[k - 1], s[k])
    <3> SUFFICES ASSUME NEW k \in b..(m + 1)
                 PROVE  h[k] = IF k = b THEN <<>> ELSE Add(h[k - 1], s[k])
      BY Zenon
    <3>1. CASE k = m + 1
      BY <2>2, <3>1
    <3>2. CASE k \in b..m
      <4>1. h[k] = g[k] /\ k # m + 1
        BY <2>2, <3>2
      <4>2. k # b => h[k - 1] = g[k - 1]
        BY <2>2, <3>2
      <4> QED BY <2>3, <3>2, <4>1, <4>2, Zenon
    <3> QED BY <2>2, <3>1, <3>2
  <2>5. Spells(h, s, b, m + 1)
    BY <2>4 DEF Spells
  <2> HIDE DEF h
  <2> QED BY <2>2, <2>5
<1>3. \A n \in 0..(e - b) : n \in S
  <2>1. e - b \in Nat
    OBVIOUS
  <2> HIDE DEF S
  <2> QED BY <1>1, <1>2, <2>1, UpTo
<1>4. e - b \in 0..(e - b) /\ b + (e - b) = e
  OBVIOUS
<1> QED BY <1>3, <1>4

LEMMA TextIs ==
    ASSUME NEW s, NEW b \in Nat, NEW e \in Nat, b <= e, NEW h, Spells(h, s, b, e)
    PROVE  Text(s, b, e) = h[e]
<1> DEFINE Eq(g) == g = [k \in b..e |->
               IF k = b THEN <<>>
               ELSE IF k \in Kept(s, b, e) THEN g[k - 1] \o s[k].key \o s[k].val ELSE g[k - 1]]
           c == CHOOSE g : Eq(g)
<1>1. ASSUME NEW g PROVE Eq(g) <=> Spells(g, s, b, e)
  <2>1. \A k \in b..e :
          (IF k = b THEN <<>> ELSE Add(g[k - 1], s[k])) =
          (IF k = b THEN <<>>
           ELSE IF k \in Kept(s, b, e) THEN g[k - 1] \o s[k].key \o s[k].val ELSE g[k - 1])
    BY DEF Add, Kept
  <2>2. [k \in b..e |-> IF k = b THEN <<>> ELSE Add(g[k - 1], s[k])] =
        [k \in b..e |-> IF k = b THEN <<>>
           ELSE IF k \in Kept(s, b, e) THEN g[k - 1] \o s[k].key \o s[k].val ELSE g[k - 1]]
    BY <2>1, Zenon
  <2> QED BY <2>2, Zenon DEF Spells
<1>2. Eq(h)
  BY <1>1, Zenon
<1>3. Eq(c)
  BY <1>2, Zenon
<1>4. Spells(c, s, b, e)
  BY <1>1, <1>3, Zenon
<1>5. Text(s, b, e) = c[e]
  BY DEF Text
<1> HIDE DEF c
<1> DEFINE S == {n \in Nat : n <= e - b => c[b + n] = h[b + n]}
<1>6. 0 \in S
  BY <1>4 DEF Spells
<1>7. ASSUME NEW n \in Nat, n < e - b, n \in S PROVE n + 1 \in S
  <2> DEFINE k == b + (n + 1)
  <2>1. k \in b..e /\ k # b /\ k - 1 = b + n /\ c[b + n] = h[b + n]
    BY <1>7
  <2> HIDE DEF k
  <2>2. c[k] = Add(c[k - 1], s[k]) /\ h[k] = Add(h[k - 1], s[k])
    BY <1>4, <2>1, Zenon DEF Spells
  <2>3. c[k] = h[k]
    BY <2>1, <2>2
  <2> QED BY <2>3 DEF k
<1>8. \A n \in 0..(e - b) : n \in S
  <2>1. e - b \in Nat
    OBVIOUS
  <2> HIDE DEF S
  <2> QED BY <1>6, <1>7, <2>1, UpTo, ZenonT(30)
<1>9. e - b \in 0..(e - b) /\ b + (e - b) = e
  OBVIOUS
<1> QED BY <1>5, <1>8, <1>9

(* The text of a section as it is read, line by line. *)
LEMMA TextFirst ==
    ASSUME NEW s, NEW b \in Nat
    PROVE  Text(s, b, b) = <<>>
<1>1. PICK h : Spells(h, s, b, b)
  BY Spelt
<1>2. Text(s, b, b) = h[b]
  BY <1>1, TextIs
<1> QED BY <1>1, <1>2 DEF Spells

LEMMA TextNext ==
    ASSUME NEW s, NEW b \in Nat, NEW e \in Nat, b <= e
    PROVE  Text(s, b, e + 1) = Add(Text(s, b, e), s[e + 1])
<1>1. PICK h : Spells(h, s, b, e + 1)
  BY Spelt
<1> DEFINE g == [k \in b..e |-> h[k]]
<1>2. \A k \in b..(e + 1) : h[k] = IF k = b THEN <<>> ELSE Add(h[k - 1], s[k])
  BY <1>1, Zenon DEF Spells
<1>3. \A k \in b..e : g[k] = IF k = b THEN <<>> ELSE Add(g[k - 1], s[k])
  <2> SUFFICES ASSUME NEW k \in b..e
               PROVE  g[k] = IF k = b THEN <<>> ELSE Add(g[k - 1], s[k])
    BY Zenon
  <2>1. k \in b..(e + 1) /\ g[k] = h[k] /\ (k # b => g[k - 1] = h[k - 1])
    OBVIOUS
  <2> HIDE DEF g
  <2> QED BY <1>2, <2>1
<1>4. Spells(g, s, b, e)
  BY <1>3 DEF Spells
<1>5. g[e] = h[e] /\ e + 1 \in b..(e + 1) /\ e + 1 # b /\ (e + 1) - 1 = e
  OBVIOUS
<1>6. Text(s, b, e) = g[e]
  <2> HIDE DEF g
  <2> QED BY <1>4, TextIs
<1>7. Text(s, b, e + 1) = h[e + 1]
  BY <1>1, TextIs
<1>8. h[e + 1] = Add(h[(e + 1) - 1], s[e + 1])
  BY <1>2, <1>5, Zenon
<1> HIDE DEF g
<1> QED BY <1>5, <1>6, <1>7, <1>8

(* Lines that are the same make the same text. *)
LEMMA TextSame ==
    ASSUME NEW s, NEW t, NEW b \in Nat, NEW e \in Nat, b <= e,
           \A k \in b..e : s[k] = t[k]
    PROVE  Text(s, b, e) = Text(t, b, e)
<1>1. PICK h : Spells(h, s, b, e)
  BY Spelt
<1>2. [k \in b..e |-> IF k = b THEN <<>> ELSE Add(h[k - 1], s[k])] =
      [k \in b..e |-> IF k = b THEN <<>> ELSE Add(h[k - 1], t[k])]
  <2>1. \A k \in b..e : (IF k = b THEN <<>> ELSE Add(h[k - 1], s[k])) =
                        (IF k = b THEN <<>> ELSE Add(h[k - 1], t[k]))
    BY Zenon
  <2> QED BY <2>1, Zenon
<1>3. Spells(h, t, b, e)
  BY <1>1, <1>2, Zenon DEF Spells
<1> QED BY <1>1, <1>3, TextIs

---------------------------------------------------------------------------
(* Rows that have the shared feature and all of the features common; there *)
(* are common features as soon as there are rows.                          *)
Covers(rows, common) ==
    /\ \E S : rows \in Seq(S)
    /\ \A r \in DOMAIN rows : Shared \in DOMAIN rows[r].feat /\ common \subseteq DOMAIN rows[r].feat
    /\ rows # <<>> => Shared \in common
    /\ common # {} => Shared \in common

(* The inductive invariant: where the simulations and the reader are, ...  *)
PlaceInv ==
    /\ setup \in Setups
    /\ DOMAIN written = Dirs /\ \A d \in Dirs : written[d] \in 0..Len(setup.sims[d].flush)
    /\ unread \subseteq Dirs
    /\ phase \in {"label", "load", "lines"} => cur \in Dirs
    /\ lines \in Seq(Lines) /\ WellFormed(lines)
    /\ pos \in 1..(Len(lines) + 1)

(* ... that feat has the shared feature within a section, ...              *)
FeatInv ==
    skipped_warmup /\ pos > 1 /\ ~Begins(lines, pos - 1) /\ ~Ends(lines, pos - 1)
        => Shared \in DOMAIN feat

(* ... and that the rows have the common features. *)
HeadingInv ==
    /\ PlaceInv /\ FeatInv
    /\ Covers(data, one_stat) /\ Covers(all_data, common_features)
    /\ HeadingComplete

LEMMA CoversEmpty == Covers(<<>>, {})
BY DEF Covers

(* A row that has the shared feature is added, as at the end of a section. *)
LEMMA CoversAppend ==
    ASSUME NEW rows, NEW common, Covers(rows, common), NEW row, Shared \in DOMAIN row.feat
    PROVE  Covers(Append(rows, row),
                  IF common = {} THEN DOMAIN row.feat ELSE common \cap DOMAIN row.feat)
<1> DEFINE new == IF common = {} THEN DOMAIN row.feat ELSE common \cap DOMAIN row.feat
           all == Append(rows, row)
<1>1. PICK S : rows \in Seq(S)
  BY DEF Covers
<1>2. rows \in Seq(S \cup {row}) /\ row \in S \cup {row}
  BY <1>1
<1>3. /\ all \in Seq(S \cup {row})
      /\ DOMAIN all = 1..(Len(rows) + 1)
      /\ all[Len(rows) + 1] = row
      /\ \A r \in 1..Len(rows) : all[r] = rows[r]
      /\ Len(rows) \in Nat /\ DOMAIN rows = 1..Len(rows)
  BY <1>2
<1>4. Shared \in new
  BY DEF Covers
<1>5. common = {} => rows = <<>>
  BY DEF Covers
<1>6. \A r \in DOMAIN all : Shared \in DOMAIN all[r].feat /\ new \subseteq DOMAIN all[r].feat
  <2> SUFFICES ASSUME NEW r \in DOMAIN all
               PROVE  Shared \in DOMAIN all[r].feat /\ new \subseteq DOMAIN all[r].feat
    OBVIOUS
  <2>1. CASE r = Len(rows) + 1
    BY <1>3, <2>1
  <2>2. CASE r \in 1..Len(rows)
    <3>1. rows # <<>>
      BY <1>3, <2>2
    <3>2. all[r] = rows[r] /\ r \in DOMAIN rows
      BY <1>3, <2>2
    <3>3. Shared \in DOMAIN rows[r].feat /\ common \subseteq DOMAIN rows[r].feat
      BY <3>2 DEF Covers
    <3>4. new \subseteq common
      BY <1>5, <3>1
    <3> QED BY <3>2, <3>3, <3>4
  <2> QED BY <1>3, <2>1, <2>2
<1>7. \E T : all \in Seq(T)
  BY <1>3
<1> QED BY <1>4, <1>6, <1>7 DEF Covers

(* The rows of a file are added, as at its end. *)
LEMMA CoversConcat ==
    ASSUME NEW rows, NEW common, Covers(rows, common), NEW more, NEW one, Covers(more, one)
    PROVE  Covers(rows \o more, IF common = {} THEN one
                                ELSE IF one = {} THEN common ELSE common \cap one)
<1> DEFINE new == IF common = {} THEN one ELSE IF one = {} THEN common ELSE common \cap one
           all == rows \o more
<1>1. PICK S, T : rows \in Seq(S) /\ more \in Seq(T)
  BY DEF Covers
<1>2. rows \in Seq(S \cup T) /\ more \in Seq(S \cup T)
  BY <1>1
<1>3. /\ all \in Seq(S \cup T)
      /\ Len(rows) \in Nat /\ Len(more) \in Nat
      /\ DOMAIN rows = 1..Len(rows) /\ DOMAIN more = 1..Len(more)
      /\ DOMAIN all = 1..(Len(rows) + Len(more))
      /\ \A r \in 1..Len(rows) : all[r] = rows[r]
      /\ \A r \in (Len(rows) + 1)..(Len(rows) + Len(more)) : all[r] = more[r - Len(rows)]
  BY <1>2
<1>4. /\ common = {} => rows = <<>>
      /\ one = {} => more = <<>>
      /\ new # {} => Shared \in new
  BY DEF Covers
<1>5. \A r \in DOMAIN all : Shared \in DOMAIN all[r].feat /\ new \subseteq DOMAIN all[r].feat
  <2> SUFFICES ASSUME NEW r \in DOMAIN all
               PROVE  Shared \in DOMAIN all[r].feat /\ new \subseteq DOMAIN all[r].feat
    OBVIOUS
  <2>1. CASE r \in 1..Len(rows)
    <3>1. rows # <<>> /\ all[r] = rows[r] /\ r \in DOMAIN rows
      BY <1>3, <2>1
    <3>2. Shared \in DOMAIN rows[r].feat /\ common \subseteq DOMAIN rows[r].feat
      BY <3>1 DEF Covers
    <3>3. new \subseteq common
      BY <1>4, <3>1
    <3> QED BY <3>1, <3>2, <3>3
  <2>2. CASE r \in (Len(rows) + 1)..(Len(rows) + Len(more))
    <3>1. more # <<>> /\ all[r] = more[r - Len(rows)] /\ r - Len(rows) \in DOMAIN more
      BY <1>3, <2>2
    <3>2. /\ Shared \in DOMAIN more[r - Len(rows)].feat
          /\ one \subseteq DOMAIN more[r - Len(rows)].feat
      BY <3>1 DEF Covers
    <3>3. new \subseteq one
      BY <1>4, <3>1
    <3> QED BY <3>1, <3>2, <3>3
  <2> QED BY <1>3, <2>1, <2>2
<1>6. all # <<>> => Shared \in new
  <2> HAVE all # <<>>
  <2>1. rows # <<>> \/ more # <<>>
    BY <1>1
  <2> QED BY <2>1 DEF Covers
<1>7. \E U : all \in Seq(U)
  BY <1>3
<1> QED BY <1>4, <1>5, <1>6, <1>7 DEF Covers

(* What is on disk is a beginning of what the simulation writes. *)
Before(s, t) == Len(s) <= Len(t) /\ \A k \in 1..Len(s) : s[k] = t[k]

LEMMA StatsWellFormed ==
    ASSUME PlaceInv, NEW d \in Dirs
    PROVE  /\ Stats(d) \in Seq(Lines) /\ WellFormed(Stats(d))
           /\ Before(Stats(d), setup.sims[d].lines)
<1> DEFINE m == setup.sims[d]
           n == m.flush[written[d]].lines
<1>1. CASE written[d] = 0
  <2>1. Stats(d) = <<>> /\ m.lines \in Seq(Lines)
    BY <1>1, TrainingAssumption DEF Stats, PlaceInv, Dirs
  <2>2. Len(<<>>) = 0 /\ Len(m.lines) \in Nat
    BY <2>1
  <2> HIDE DEF m
  <2>3. WellFormed(<<>>) /\ Before(<<>>, m.lines)
    BY <2>2 DEF WellFormed, Before
  <2> QED BY <2>1, <2>3 DEF m
<1>2. CASE written[d] # 0
  <2>1. m.lines \in Seq(Lines) /\ WellFormed(m.lines) /\ n \in 0..Len(m.lines)
    BY <1>2, TrainingAssumption DEF PlaceInv, Dirs
  <2>2. Stats(d) = SubSeq(m.lines, 1, n)
    BY <1>2, Zenon DEF Stats
  <2> HIDE DEF m, n
  <2>3. /\ SubSeq(m.lines, 1, n) \in Seq(Lines)
        /\ Len(SubSeq(m.lines, 1, n)) = n
        /\ \A k \in 1..n : SubSeq(m.lines, 1, n)[k] = m.lines[k]
    BY <2>1
  <2>4. WellFormed(SubSeq(m.lines, 1, n))
    <3> DEFINE t == SubSeq(m.lines, 1, n)
    <3>1. Len(t) = n /\ n \in Nat /\ n <= Len(m.lines) /\ Len(m.lines) \in Nat
          /\ \A k \in 1..n : t[k] = m.lines[k]
      BY <2>1, <2>3
    <3>2. t # <<>> => n >= 1
      BY <2>3
    <3> HIDE DEF t
    <3>3. t # <<>> => Begins(t, 1)
      BY <2>1, <3>1, <3>2 DEF WellFormed, Begins
    <3>4. ASSUME NEW k \in 1..(Len(t) - 1)
          PROVE  /\ Begins(t, k) => /\ t[k + 1].kind = "stat" /\ t[k + 1].key = Shared
                                    /\ t[k + 1].val # NoNumber
                 /\ Begins(t, k + 1) <=> Ends(t, k)
      <4>1. k \in 1..(Len(m.lines) - 1) /\ t[k] = m.lines[k] /\ t[k + 1] = m.lines[k + 1]
        BY <3>1
      <4> QED BY <2>1, <4>1 DEF WellFormed, Begins, Ends
    <3>5. ASSUME NEW j \in 1..Len(t), NEW k \in 1..Len(t), j < k,
                 t[j].kind = "stat" /\ t[k].kind = "stat" /\ t[j].key = t[k].key
          PROVE  \E e \in j..k : Ends(t, e)
      <4>1. j \in 1..Len(m.lines) /\ k \in 1..Len(m.lines)
            /\ t[j] = m.lines[j] /\ t[k] = m.lines[k]
        BY <3>1
      <4>2. PICK e \in j..k : Ends(m.lines, e)
        BY <2>1, <3>5, <4>1 DEF WellFormed
      <4>3. t[e] = m.lines[e]
        BY <3>1
      <4> QED BY <4>2, <4>3 DEF Ends
    <3>6. WellFormed(t)
      BY <3>3, <3>4, <3>5 DEF WellFormed
    <3> QED BY <3>6 DEF t
  <2>5. Before(SubSeq(m.lines, 1, n), m.lines)
    BY <2>1, <2>3 DEF Before
  <2> QED BY <2>2, <2>3, <2>4, <2>5, ZenonT(30) DEF m
<1> QED BY <1>1, <1>2

(* The actions of the runner and of the simulations leave the rest alone.  *)
LEMMA OthersKeepHeading ==
    ASSUME HeadingInv,
           \/ Runner \/ read_faults \/ NextDirectory \/ ReadTerminal
           \/ \E d \in Dirs : Simulation(d)
    PROVE  HeadingInv'
<1>1. /\ UNCHANGED <<setup, lines, pos, skipped_warmup, feat, data, one_stat, all_data,
                     common_features>>
      /\ phase' # "KeyError"
  BY ZenonT(30) DEF HeadingInv, HeadingComplete, Runner, Launch, Return, Timeout, TimesOut, read_faults,
         NextDirectory, ReadTerminal, Simulation, Write, Exit, fileVars, lineVars, setVars
<1>2. FeatInv' /\ Covers(data, one_stat)' /\ Covers(all_data, common_features)'
      /\ HeadingComplete'
  BY <1>1 DEF HeadingInv, FeatInv, Covers, HeadingComplete, Begins, Ends
<1>3. PlaceInv'
  <2> USE DEF HeadingInv, PlaceInv, Dirs
  <2>1. setup' \in Setups /\ lines' \in Seq(Lines) /\ pos' \in 1..(Len(lines') + 1)
    BY <1>1
  <2>2. WellFormed(lines)'
    BY <1>1 DEF WellFormed, Begins, Ends
  <2>3. DOMAIN written' = Dirs' /\ \A d \in Dirs' : written'[d] \in 0..Len(setup'.sims[d].flush)
    <3>1. CASE UNCHANGED written
      BY <1>1, <3>1
    <3>2. ASSUME NEW d \in Dirs, Write(d)
          PROVE  /\ DOMAIN written' = Dirs'
                 /\ \A e \in Dirs' : written'[e] \in 0..Len(setup'.sims[e].flush)
      <4>1. Len(setup.sims[d].flush) \in Nat
        BY TrainingAssumption, ZenonT(30)
      <4>2. written[d] \in 0..Len(setup.sims[d].flush) /\ written[d] < Len(setup.sims[d].flush)
        BY <1>1, <3>2, Zenon DEF Write
      <4>3. written[d] + 1 \in 0..Len(setup.sims[d].flush)
        BY <4>1, <4>2, OneFurther, Zenon
      <4>4. setup' = setup /\ DOMAIN written = Dirs /\ written' = [written EXCEPT ![d] = @ + 1]
        BY <1>1, <3>2, Zenon DEF Write
      <4> QED BY <1>1, <4>3, <4>4, ZenonT(30)
    <3> QED BY <3>1, <3>2, ZenonT(30) DEF Runner, Launch, Return, Timeout, read_faults, NextDirectory,
                              ReadTerminal, Simulation, Exit
  <2>4. unread' \subseteq Dirs' /\ (phase' \in {"label", "load", "lines"} => cur' \in Dirs')
    BY <1>1 DEF Runner, Launch, Return, Timeout, read_faults, NextDirectory, Candidates,
                ReadTerminal, Simulation, Write, Exit, fileVars
  <2> QED BY <2>1, <2>2, <2>3, <2>4
<1> QED BY <1>2, <1>3, ZenonT(30) DEF HeadingInv

LEMMA ReadContentsKeepsHeading ==
    ASSUME HeadingInv, ReadContents
    PROVE  HeadingInv'
<1> USE DEF HeadingInv
<1>1. cur \in Dirs
  BY DEF PlaceInv, ReadContents
<1>2. lines' \in Seq(Lines) /\ WellFormed(lines') /\ pos' = 1
  BY <1>1, StatsWellFormed, ZenonT(30) DEF ReadContents
<1>3. PlaceInv'
  BY <1>1, <1>2 DEF PlaceInv, ReadContents, Dirs, WellFormed, Begins, Ends
<1>4. FeatInv'
  BY <1>2 DEF FeatInv
<1>5. Covers(data, one_stat)'
  BY CoversEmpty DEF ReadContents
<1>6. Covers(all_data, common_features)' /\ HeadingComplete'
  BY DEF ReadContents, setVars, Covers, HeadingComplete
<1> QED BY <1>3, <1>4, <1>5, <1>6

(* What is before a line that is no mark: the begin of a section, which    *)
(* makes it the shared statistic, or another line of the section.          *)
LEMMA LineBefore ==
    ASSUME HeadingInv, pos <= Len(lines), ~Begins(lines, pos)
    PROVE  /\ pos > 1 /\ ~Ends(lines, pos - 1)
           /\ Begins(lines, pos - 1) => /\ lines[pos].kind = "stat"
                                        /\ lines[pos].key = Shared
                                        /\ lines[pos].val # NoNumber
<1>1. lines \in Seq(Lines) /\ pos \in 1..Len(lines) /\ WellFormed(lines) /\ lines # <<>>
  BY DEF HeadingInv, PlaceInv
<1>2. pos # 1
  BY <1>1 DEF WellFormed
<1>3. pos - 1 \in 1..(Len(lines) - 1) /\ (pos - 1) + 1 = pos
  BY <1>1, <1>2
<1>4. /\ Begins(lines, pos - 1) => /\ lines[(pos - 1) + 1].kind = "stat"
                                   /\ lines[(pos - 1) + 1].key = Shared
                                   /\ lines[(pos - 1) + 1].val # NoNumber
      /\ Begins(lines, (pos - 1) + 1) <=> Ends(lines, pos - 1)
  BY <1>1, <1>3 DEF WellFormed
<1> QED BY <1>1, <1>2, <1>3, <1>4

LEMMA LinesKeepHeading ==
    ASSUME HeadingInv, BeginLine \/ StatLine \/ ShortLine \/ EndLine
    PROVE  HeadingInv'
<1> USE DEF HeadingInv
<1>1. PICK kind \in {"begin", "stat", "short", "end"} : AtLine(kind)
  BY Zenon DEF BeginLine, StatLine, ShortLine, EndLine
<1>2. /\ pos' = pos + 1 /\ pos <= Len(lines) /\ lines[pos].kind = kind
      /\ UNCHANGED <<setup, written, phase, unread, cur, lines, all_data, common_features>>
  BY <1>1, ZenonT(30) DEF AtLine
<1>3. PlaceInv' /\ pos' - 1 = pos /\ pos' > 1
  <2>1. pos' \in 1..(Len(lines') + 1) /\ pos' - 1 = pos /\ pos' > 1
    BY <1>2 DEF PlaceInv
  <2> QED BY <1>2, <2>1 DEF PlaceInv, Dirs, WellFormed, Begins, Ends
<1>4. Covers(all_data, common_features)' /\ HeadingComplete'
  BY <1>2 DEF Covers, HeadingComplete
<1>5. CASE BeginLine
  <2>1. FeatInv'
    <3>1. lines[pos].kind = "begin"
      BY <1>5 DEF BeginLine, AtLine
    <3> QED BY <1>2, <1>3, <3>1 DEF FeatInv, Begins
  <2>2. Covers(data, one_stat)'
    BY <1>5, SMTT(30) DEF BeginLine, Covers
  <2> QED BY <1>3, <1>4, <2>1, <2>2
<1>6. CASE StatLine \/ ShortLine
  <2>1. ~Begins(lines, pos) /\ UNCHANGED <<skipped_warmup, data, one_stat>>
    BY <1>6, Zenon DEF StatLine, ShortLine, AtLine, Begins
  <2>2. DOMAIN feat \subseteq DOMAIN feat'
    BY <1>6, ZenonT(30) DEF StatLine, ShortLine, Extend
  <2>3. skipped_warmup /\ Begins(lines, pos - 1) => Shared \in DOMAIN feat'
    <3> HAVE skipped_warmup /\ Begins(lines, pos - 1)
    <3>1. lines[pos].kind = "stat" /\ lines[pos].key = Shared /\ lines[pos].val # NoNumber
      BY <1>2, <2>1, LineBefore
    <3>2. StatLine
      BY <1>6, <3>1 DEF ShortLine, AtLine
    <3>3. feat' = Extend(feat, Shared, lines[pos].val)
      BY <3>1, <3>2, TrainingAssumption, Zenon DEF StatLine
    <3> QED BY <3>3 DEF Extend
  <2>4. skipped_warmup /\ ~Begins(lines, pos - 1) => Shared \in DOMAIN feat
    BY <1>2, <2>1, LineBefore DEF FeatInv
  <2>5. FeatInv'
    BY <2>1, <2>2, <2>3, <2>4 DEF FeatInv
  <2>6. Covers(data, one_stat)'
    BY <2>1 DEF Covers
  <2> QED BY <1>3, <1>4, <2>5, <2>6
<1>7. CASE EndLine
  <2>1. lines[pos].kind = "end" /\ ~Begins(lines, pos) /\ Ends(lines, pos)
    BY <1>7 DEF EndLine, AtLine, Begins, Ends
  <2>2. FeatInv'
    <3>1. Ends(lines', pos' - 1)
      BY <1>2, <1>3, <2>1 DEF Ends
    <3> QED BY <3>1 DEF FeatInv
  <2>3. Covers(data, one_stat)'
    <3>1. CASE UNCHANGED <<data, one_stat>>
      BY <3>1 DEF Covers
    <3>2. CASE skipped_warmup /\ NewRow
      <4>1. Shared \in DOMAIN feat
        BY <1>2, <2>1, <3>2, LineBefore DEF FeatInv
      <4>2. Row.feat = feat
        BY DEF Row
      <4>3. /\ data' = Append(data, Row)
            /\ one_stat' = IF one_stat = {} THEN DOMAIN Row.feat ELSE one_stat \cap DOMAIN Row.feat
        BY <3>2, <4>2, ZenonT(30) DEF NewRow
      <4>4. Covers(Append(data, Row), IF one_stat = {} THEN DOMAIN Row.feat
                                      ELSE one_stat \cap DOMAIN Row.feat)
        BY <4>1, <4>2, CoversAppend
      <4> QED BY <4>3, <4>4
    <3> QED BY <1>7, <3>1, <3>2 DEF EndLine
  <2> QED BY <1>3, <1>4, <2>2, <2>3
<1> QED BY <1>5, <1>6, <1>7

LEMMA EndOfFileKeepsHeading ==
    ASSUME HeadingInv, EndOfFile
    PROVE  HeadingInv'
<1> USE DEF HeadingInv
<1>1. UNCHANGED <<setup, written, unread, cur, lines, pos, skipped_warmup, feat, data, one_stat>>
      /\ phase' = "next"
  BY ZenonT(30) DEF EndOfFile, fileVars, lineVars
<1>2. PlaceInv' /\ FeatInv' /\ Covers(data, one_stat)' /\ HeadingComplete'
  BY <1>1 DEF PlaceInv, FeatInv, Covers, HeadingComplete, Dirs, WellFormed, Begins, Ends
<1>3. Covers(all_data, common_features)'
  BY CoversConcat, Zenon DEF EndOfFile
<1> QED BY <1>2, <1>3

LEMMA WriteCsvKeepsHeading ==
    ASSUME HeadingInv, WriteCsv
    PROVE  HeadingInv'
<1> USE DEF HeadingInv
<1>1. \A r \in DOMAIN all_data : common_features \subseteq DOMAIN all_data[r].feat
  BY DEF Covers
<1>2. phase' = "csv"
  BY <1>1 DEF WriteCsv
<1> QED BY <1>2 DEF WriteCsv, fileVars, lineVars, setVars, PlaceInv, FeatInv, Covers,
                    HeadingComplete, Dirs, WellFormed, Begins, Ends

LEMMA HeadingInit ==
    ASSUME Init
    PROVE  HeadingInv
<1>1. PlaceInv
  <2>1. \A d \in Dirs : Len(setup.sims[d].flush) \in Nat
    BY TrainingAssumption DEF Init, Dirs
  <2> QED BY <2>1 DEF Init, PlaceInv, WellFormed
<1>2. FeatInv /\ HeadingComplete
  BY DEF Init, FeatInv, HeadingComplete
<1> QED BY <1>1, <1>2, CoversEmpty DEF Init, HeadingInv

LEMMA HeadingStep ==
    ASSUME HeadingInv, [Next]_vars
    PROVE  HeadingInv'
<1>1. CASE Next
  BY <1>1, OthersKeepHeading, ReadContentsKeepsHeading, LinesKeepHeading,
     EndOfFileKeepsHeading, WriteCsvKeepsHeading, SMTT(30) DEF Next, Processor
<1>2. CASE UNCHANGED vars
  <2>1. /\ UNCHANGED <<setup, written, unread, phase, cur, lines, pos, skipped_warmup, feat>>
        /\ UNCHANGED <<data, one_stat, all_data, common_features>>
    BY <1>2, Zenon DEF vars, fileVars, lineVars, setVars
  <2>2. PlaceInv'
    <3>1. PlaceInv
      BY DEF HeadingInv
    <3>2. Dirs' = Dirs
      BY <2>1 DEF Dirs
    <3>3. WellFormed(lines)'
      BY <2>1, <3>1 DEF PlaceInv, WellFormed, Begins, Ends
    <3> QED BY <2>1, <3>1, <3>2, <3>3 DEF PlaceInv
  <2>3. FeatInv'
    BY <2>1, Zenon DEF HeadingInv, FeatInv, Begins, Ends
  <2>4. Covers(data, one_stat)' /\ Covers(all_data, common_features)'
    BY <2>1, Zenon DEF HeadingInv, Covers
  <2>5. HeadingComplete'
    BY <1>2, Zenon DEF HeadingInv, HeadingComplete, vars, fileVars, lineVars, setVars
  <2> QED BY <2>2, <2>3, <2>4, <2>5, Zenon DEF HeadingInv
<1> QED BY <1>1, <1>2

(* read_faults never looks up a feature of the heading in a row that lacks *)
(* it, if every section begins with the same statistic, as gem5 writes     *)
(* them: whatever else the sections have, and whichever files add no row.  *)
THEOREM NoKeyError == Spec => []HeadingComplete
<1>1. HeadingInv => HeadingComplete
  BY DEF HeadingInv
<1> QED BY <1>1, HeadingInit, HeadingStep, PTL DEF Spec

---------------------------------------------------------------------------
(* The labels.  When the processor runs, the simulations are over but for  *)
(* the orphans; a row's label is right or it comes from an orphan.         *)
Escaped(d) == sim[d] \in {"orphan", "gone"}
Right(l, d) == (l = 0 <=> IsTrue(d)) \/ Escaped(d)
RightRows(rows) ==
    \A r \in DOMAIN rows : rows[r].from \in Dirs /\ Right(rows[r].label, rows[r].from)

LabelInv ==
    /\ HeadingInv
    /\ DOMAIN sim = Dirs /\ i \in Nat
    /\ \A d \in Dirs : d < i \/ phase # "run" => sim[d] = "ended" \/ Escaped(d)
    /\ i # 0 /\ label \in Nat
    /\ phase = "run" => all_data = <<>>
    /\ phase \in {"load", "lines"} => Right(label, cur)
    /\ phase = "lines" => RightRows(data)
    /\ RightRows(all_data)

(* While the processor runs, only orphans write. *)
LEMMA OnlyOrphansWrite ==
    ASSUME LabelInv, Next, phase # "run", NEW d \in Dirs
    PROVE  /\ Escaped(d) => Escaped(d)'
           /\ Escaped(d) \/ (IsTrue(d)' <=> IsTrue(d))
<1>1. CASE UNCHANGED <<setup, sim, written>>
  BY <1>1 DEF IsTrue, Terminal, Escaped
<1>2. ASSUME NEW e \in Dirs, Write(e)
      PROVE  /\ Escaped(d) => Escaped(d)'
             /\ Escaped(d) \/ (IsTrue(d)' <=> IsTrue(d))
  <2>1. UNCHANGED <<setup, sim>> /\ written' = [written EXCEPT ![e] = @ + 1]
    BY <1>2 DEF Write, runVars
  <2>2. CASE d = e
    BY <1>2, <2>1, <2>2, ZenonT(30) DEF LabelInv, Write, Escaped
  <2>3. CASE d # e
    <3>1. written'[d] = written[d]
      BY <2>1, <2>3 DEF LabelInv, HeadingInv, PlaceInv
    <3> QED BY <2>1, <3>1 DEF IsTrue, Terminal, Escaped
  <2> QED BY <2>2, <2>3
<1>3. ASSUME NEW e \in Dirs, Exit(e)
      PROVE  /\ Escaped(d) => Escaped(d)'
             /\ Escaped(d) \/ (IsTrue(d)' <=> IsTrue(d))
  <2>1. /\ UNCHANGED <<setup, written>> /\ sim[e] \in {"running", "orphan"}
        /\ sim' = [sim EXCEPT ![e] = IF @ = "orphan" THEN "gone" ELSE "ended"]
    BY <1>3 DEF Exit
  <2>2. sim[e] = "orphan"
    BY <2>1 DEF LabelInv, Escaped
  <2>3. Escaped(d) => Escaped(d)'
    BY <2>1, <2>2 DEF LabelInv, Escaped
  <2>4. IsTrue(d)' <=> IsTrue(d)
    BY <2>1, SMTT(30) DEF IsTrue, Terminal
  <2> QED BY <2>3, <2>4
<1> QED BY <1>1, <1>2, <1>3, Zenon DEF Next, Runner, Launch, Return, Timeout, TimesOut, Processor,
           read_faults, NextDirectory, ReadTerminal, ReadContents, BeginLine, StatLine,
           ShortLine, EndLine, AtLine, EndOfFile, WriteCsv, Simulation, runVars

LEMMA SetupStays ==
    ASSUME Next
    PROVE  setup' = setup /\ Dirs' = Dirs
BY ZenonT(30) DEF Next, Runner, Launch, Return, Timeout, Processor, read_faults, NextDirectory,
       ReadTerminal, ReadContents, BeginLine, StatLine, ShortLine, EndLine, AtLine,
       EndOfFile, WriteCsv, Simulation, Write, Exit, Dirs

(* When the processor starts, every simulation has been waited for. *)
LEMMA LifeStays ==
    ASSUME LabelInv, Next
    PROVE  /\ DOMAIN sim' = Dirs' /\ i' \in Nat /\ i' # 0
           /\ \A d \in Dirs' : d < i' \/ phase' # "run" => sim'[d] = "ended" \/ Escaped(d)'
<1> USE DEF LabelInv, Escaped
<1>1. Dirs' = Dirs
  BY SetupStays, SMTT(30)
<1>2. Dirs = 1..Len(setup.sims) /\ Len(setup.sims) \in Nat
  BY TrainingAssumption, Zenon DEF HeadingInv, PlaceInv, Dirs
<1>3. CASE UNCHANGED <<i, sim>> /\ (phase' = phase \/ phase # "run")
  BY <1>1, <1>3
<1>4. CASE Launch \/ Return \/ Timeout
  <2>1. i \in Dirs /\ phase = "run" /\ phase' = "run" /\ (i' = i \/ i' = i + 1)
    BY <1>4 DEF Launch, Return, Timeout, TimesOut
  <2>2. DOMAIN sim' = Dirs
    BY <1>4, ZenonT(30) DEF Launch, Return, Timeout
  <2>3. \A d \in Dirs : d # i => sim'[d] = sim[d]
    BY <1>4 DEF Launch, Return, Timeout
  <2>4. i' = i + 1 => sim'[i] \in {"ended", "orphan"}
    <3>1. CASE Launch
      BY <1>2, <2>1, <3>1 DEF Launch
    <3>2. CASE Return
      BY <2>1, <3>2 DEF Return
    <3>3. CASE Timeout
      BY <2>1, <3>3 DEF Timeout
    <3> QED BY <1>4, <3>1, <3>2, <3>3
  <2> QED BY <1>1, <1>2, <2>1, <2>2, <2>3, <2>4
<1>5. CASE read_faults
  <2>1. i \notin Dirs /\ UNCHANGED <<i, sim>>
    BY <1>5 DEF read_faults, runVars
  <2>2. \A d \in Dirs : d < i
    BY <1>2, <2>1
  <2> QED BY <1>1, <2>1, <2>2
<1>6. ASSUME NEW e \in Dirs, Exit(e)
      PROVE  /\ DOMAIN sim' = Dirs' /\ i' \in Nat /\ i' # 0
             /\ \A d \in Dirs' : d < i' \/ phase' # "run" => sim'[d] = "ended" \/ Escaped(d)'
  BY <1>1, <1>6 DEF Exit
<1> QED BY <1>3, <1>4, <1>5, <1>6, Zenon DEF Next, Runner, Processor, NextDirectory, ReadTerminal,
           ReadContents, BeginLine, StatLine, ShortLine, EndLine, AtLine, EndOfFile, WriteCsv,
           Simulation, Write, runVars

LEMMA LabelMeans ==
    ASSUME NEW d, setup.sims[d].fault \in 1..4
    PROVE  Label(d) \in Nat /\ (Label(d) = 0 <=> IsTrue(d))
BY DEF Label

LEMMA RowMeans ==
    ASSUME label \in Nat
    PROVE  Row.from = cur /\ (Row.label = 0 <=> label = 0)
BY DEF Row

LEMMA AppendRows ==
    ASSUME NEW S, NEW rows \in Seq(S), NEW row
    PROVE  \A r \in DOMAIN Append(rows, row) :
             \/ Append(rows, row)[r] = row
             \/ r \in DOMAIN rows /\ Append(rows, row)[r] = rows[r]
<1>1. rows \in Seq(S \cup {row})
  OBVIOUS
<1> QED BY <1>1

LEMMA ConcatRows ==
    ASSUME NEW S, NEW rows \in Seq(S), NEW T, NEW more \in Seq(T),
           NEW r \in DOMAIN (rows \o more)
    PROVE  \/ r \in DOMAIN rows /\ (rows \o more)[r] = rows[r]
           \/ \E q \in DOMAIN more : (rows \o more)[r] = more[q]
<1>1. rows \in Seq(S \cup T) /\ more \in Seq(S \cup T)
  OBVIOUS
<1>2. /\ r \in 1..(Len(rows) + Len(more))
      /\ Len(rows) \in Nat /\ Len(more) \in Nat
      /\ DOMAIN rows = 1..Len(rows) /\ DOMAIN more = 1..Len(more)
  BY <1>1
<1>3. CASE r <= Len(rows)
  BY <1>1, <1>2, <1>3
<1>4. CASE r > Len(rows)
  <2>1. r - Len(rows) \in DOMAIN more
    BY <1>2, <1>4
  <2>2. (rows \o more)[r] = more[r - Len(rows)]
    BY <1>1, <1>2, <1>4
  <2> QED BY <2>1, <2>2
<1> QED BY <1>2, <1>3, <1>4

Joins(new, rows, more) ==
    \A r \in DOMAIN new : \/ r \in DOMAIN rows /\ new[r] = rows[r]
                          \/ \E q \in DOMAIN more : new[r] = more[q]

LEMMA ConcatAll ==
    ASSUME NEW S, NEW rows \in Seq(S), NEW T, NEW more \in Seq(T)
    PROVE  Joins(rows \o more, rows, more)
<1> SUFFICES ASSUME NEW r \in DOMAIN (rows \o more)
             PROVE  \/ r \in DOMAIN rows /\ (rows \o more)[r] = rows[r]
                    \/ \E q \in DOMAIN more : (rows \o more)[r] = more[q]
  BY Zenon DEF Joins
<1> QED BY ConcatRows

LEMMA LabelsStay ==
    ASSUME LabelInv, HeadingInv', Next
    PROVE  LabelInv'
<1>1. Dirs' = Dirs /\ setup' = setup
  BY SetupStays
<1>2. /\ DOMAIN sim' = Dirs' /\ i' \in Nat /\ i' # 0
      /\ \A d \in Dirs' : d < i' \/ phase' # "run" => sim'[d] = "ended" \/ Escaped(d)'
  BY LifeStays
<1>3. CASE phase = "run"
  <2>1. UNCHANGED <<label, all_data>> /\ phase' \in {"run", "next"}
    BY <1>3, Zenon DEF Next, Runner, Launch, Return, Timeout, Processor, read_faults, NextDirectory,
         ReadTerminal, ReadContents, BeginLine, StatLine, ShortLine, EndLine, AtLine,
         EndOfFile, WriteCsv, Simulation, Write, Exit, fileVars, setVars
  <2> QED BY <1>2, <1>3, <2>1, SMTT(30) DEF LabelInv, RightRows
<1>4. CASE phase # "run"
  <2>1. \A d \in Dirs : /\ Escaped(d) => Escaped(d)'
                        /\ Escaped(d) \/ (IsTrue(d)' <=> IsTrue(d))
    BY <1>4, OnlyOrphansWrite, SMTT(30)
  <2>2. phase' # "run"
    BY <1>4, ZenonT(30) DEF Next, Runner, Launch, Return, Timeout, TimesOut, Processor, read_faults,
         NextDirectory, ReadTerminal, ReadContents, BeginLine, StatLine, ShortLine, EndLine,
         AtLine, EndOfFile, WriteCsv, Simulation, Write, Exit
  <2>3. label' \in Nat /\ (phase' \in {"load", "lines"} => Right(label, cur)')
    <3>1. CASE ReadTerminal
      <4>1. cur \in Dirs /\ setup.sims[cur].fault \in 1..4
        BY <3>1, TrainingAssumption, Zenon DEF ReadTerminal, LabelInv, HeadingInv, PlaceInv, Dirs
      <4>2. /\ label' = Label(cur)
            /\ UNCHANGED <<setup, sim, written, cur>>
        BY <3>1 DEF ReadTerminal, runVars
      <4>3. label' \in Nat /\ (label' = 0 <=> IsTrue(cur))
        BY <4>1, <4>2, LabelMeans, ZenonT(30)
      <4> QED BY <4>2, <4>3, SMTT(30) DEF Right, IsTrue, Terminal
    <3>2. CASE UNCHANGED <<label, cur>> /\ (phase' \in {"load", "lines"} => phase \in {"load", "lines"})
      <4>1. phase \in {"load", "lines"} => cur \in Dirs /\ Right(label, cur)
        BY DEF LabelInv, HeadingInv, PlaceInv
      <4> QED BY <1>1, <2>1, <3>2, <4>1, Zenon DEF LabelInv, Right, IsTrue, Terminal, Escaped
    <3>3. CASE NextDirectory
      BY <3>3, SMTT(30) DEF NextDirectory, LabelInv
    <3> QED BY <1>4, <3>1, <3>2, <3>3, Zenon DEF Next, Runner, Launch, Return, Timeout, TimesOut,
         Processor, read_faults, ReadContents, BeginLine, StatLine, ShortLine, EndLine, AtLine,
         EndOfFile, WriteCsv, Simulation, Write, Exit, fileVars
  <2>4. phase' = "lines" => RightRows(data)'
    <3>1. CASE ReadContents
      BY <3>1, SMTT(30) DEF ReadContents, RightRows
    <3>2. CASE data' = data /\ (phase' = "lines" => phase = "lines")
      BY <1>1, <2>1, <3>2, ZenonT(30) DEF LabelInv, RightRows, Right, IsTrue, Terminal, Escaped
    <3>3. CASE EndLine /\ data' = Append(data, Row)
      <4>1. /\ phase = "lines" /\ UNCHANGED <<setup, sim, written, cur, label>>
            /\ cur \in Dirs /\ label \in Nat /\ Right(label, cur) /\ RightRows(data)
        BY <3>3, ZenonT(30) DEF EndLine, AtLine, runVars, LabelInv, HeadingInv, PlaceInv
      <4>2. Row.from = cur /\ (Row.label = 0 <=> label = 0)
        BY <4>1, RowMeans
      <4>3. PICK S : data \in Seq(S)
        BY DEF LabelInv, HeadingInv, Covers
      <4>4. \A r \in DOMAIN data' : data'[r] = Row \/ (r \in DOMAIN data /\ data'[r] = data[r])
        BY <3>3, <4>3, AppendRows
      <4>5. Row.from \in Dirs /\ Right(Row.label, Row.from)
        BY <4>1, <4>2, ZenonT(30) DEF Right
      <4>6. \A r \in DOMAIN data' :
                data'[r].from \in Dirs /\ Right(data'[r].label, data'[r].from)
        BY <4>1, <4>4, <4>5, ZenonT(30) DEF RightRows
      <4> QED BY <1>1, <4>1, <4>6, ZenonT(30) DEF RightRows, Right, IsTrue, Terminal, Escaped
    <3> QED BY <1>4, <3>1, <3>2, <3>3, Zenon DEF Next, Runner, Launch, Return, Timeout, TimesOut,
         Processor, read_faults, NextDirectory, ReadTerminal, BeginLine, StatLine, ShortLine,
         EndLine, NewRow, AtLine, EndOfFile, WriteCsv, Simulation, Write, Exit, fileVars, lineVars
  <2>5. RightRows(all_data)'
    <3>1. CASE all_data' = all_data
      BY <1>1, <2>1, <3>1, ZenonT(30) DEF LabelInv, RightRows, Right, IsTrue, Terminal, Escaped
    <3>2. CASE EndOfFile
      <4>0. UNCHANGED <<setup, sim, written>>
        BY <3>2 DEF EndOfFile, runVars
      <4>1. all_data' = all_data \o data /\ RightRows(all_data) /\ RightRows(data)
        BY <3>2 DEF EndOfFile, runVars, LabelInv
      <4>2. PICK S, T : all_data \in Seq(S) /\ data \in Seq(T)
        BY DEF LabelInv, HeadingInv, Covers
      <4>3. \A r \in DOMAIN all_data' :
                \/ r \in DOMAIN all_data /\ all_data'[r] = all_data[r]
                \/ \E q \in DOMAIN data : all_data'[r] = data[q]
        BY <4>1, <4>2, ConcatRows
      <4>4. \A r \in DOMAIN all_data' :
                all_data'[r].from \in Dirs /\ Right(all_data'[r].label, all_data'[r].from)
        BY <4>1, <4>3 DEF RightRows
      <4> QED BY <1>1, <4>0, <4>4, ZenonT(30) DEF RightRows, Right, IsTrue, Terminal, Escaped
    <3> QED BY <3>1, <3>2, ZenonT(30) DEF Next, Runner, Launch, Return, Timeout, Processor, read_faults,
         NextDirectory, ReadTerminal, ReadContents, BeginLine, StatLine, ShortLine, EndLine,
         AtLine, WriteCsv, Simulation, Write, Exit, setVars
  <2> QED BY <1>2, <1>4, <2>2, <2>3, <2>4, <2>5 DEF LabelInv
<1> QED BY <1>3, <1>4

LEMMA LabelInit ==
    ASSUME Init
    PROVE  LabelInv
<1>1. Dirs = 1..Len(setup.sims)
  BY TrainingAssumption, ZenonT(30) DEF Init, Dirs
<1>2. \A d \in Dirs : ~(d < i \/ phase # "run")
  BY <1>1, TrainingAssumption DEF Init
<1>3. RightRows(<<>>)
  BY DEF RightRows
<1>4. /\ DOMAIN sim = Dirs /\ i = 1 /\ label = 0
      /\ phase = "run" /\ all_data = <<>>
  BY DEF Init
<1>5. RightRows(all_data)
  BY <1>3, <1>4
<1>6. HeadingInv
  BY HeadingInit
<1> QED BY <1>2, <1>4, <1>5, <1>6, SMTT(30) DEF LabelInv

LEMMA LabelStep ==
    ASSUME LabelInv, [Next]_vars
    PROVE  LabelInv'
<1>1. HeadingInv'
  BY HeadingStep DEF LabelInv
<1>2. CASE Next
  BY <1>1, <1>2, LabelsStay, SMTT(30)
<1>3. CASE UNCHANGED vars
  BY <1>1, <1>3, ZenonT(30) DEF vars, runVars, fileVars, lineVars, setVars, LabelInv, RightRows, Right,
                    IsTrue, Terminal, Escaped, Dirs
<1> QED BY <1>2, <1>3

(* The label read_stats gives a directory is right for good, although the  *)
(* terminal output and the statistics are read at different times, unless  *)
(* its simulation outlived a timeout of run_experiment_timeout.py.         *)
THEOREM LabelsRight == Spec => []LabelsCurrent
<1>1. LabelInv => LabelsCurrent
  BY DEF LabelInv, RightRows, Right, Escaped, LabelsCurrent, Rows
<1> QED BY <1>1, LabelInit, LabelStep, PTL DEF Spec

---------------------------------------------------------------------------
(* The sections.  What the reader knows after n lines of s: whether the    *)
(* warm-up is over (sk), whether a line was broken since (rm), what feat   *)
(* and feature_str hold of the section at hand (f and t), and what became  *)
(* of the sections before (H, the texts whose hashes are known).           *)
Open(s, b, n, f, t) ==
    /\ Begins(s, b) /\ \A k \in (b + 1)..n : ~Ends(s, k)
    /\ Graph(f) = Entries(s, b, n)
    /\ t = Text(s, b, n)

Treated(s, n, H) ==
    \A b, e \in 1..n : Section(s, b, e) => Text(s, b, e) \in H \/ Broken(s, e)

Scanned(s, n, sk, rm, f, t, H) ==
    /\ sk \in BOOLEAN /\ rm \in BOOLEAN
    /\ sk <=> \E w \in 1..n : Ends(s, w)
    /\ rm <=> Broken(s, n)
    /\ sk /\ ~Ends(s, n) => \E b \in 2..n : Open(s, b, n, f, t)
    /\ sk /\ Ends(s, n) => t = <<>>
    /\ Treated(s, n, H)

LEMMA MarksNext ==
    ASSUME NEW s, NEW n \in Nat
    PROVE  /\ (\E w \in 1..(n + 1) : Ends(s, w)) <=> (\E w \in 1..n : Ends(s, w)) \/ Ends(s, n + 1)
           /\ Broken(s, n + 1) <=> \/ Broken(s, n)
                                   \/ /\ s[n + 1].kind = "short"
                                      /\ \E w \in 1..n : Ends(s, w)
<1>1. 1..(n + 1) = 1..n \cup {n + 1}
  OBVIOUS
<1>2. (\E w \in 1..(n + 1) : Ends(s, w)) <=> (\E w \in 1..n : Ends(s, w)) \/ Ends(s, n + 1)
  BY <1>1, Zenon
<1>3. s[n + 1].kind = "short" => ~Ends(s, n + 1)
  BY Zenon DEF Ends
<1>4. (\E k \in 1..(n + 1) : s[k].kind = "short" /\ \E w \in 1..k : Ends(s, w))
      <=> \/ \E k \in 1..n : s[k].kind = "short" /\ \E w \in 1..k : Ends(s, w)
          \/ s[n + 1].kind = "short" /\ \E w \in 1..(n + 1) : Ends(s, w)
  BY <1>1, Zenon
<1> QED BY <1>2, <1>3, <1>4, Zenon DEF Broken

LEMMA EntriesNext ==
    ASSUME NEW s, NEW b \in Nat, NEW n \in Nat, b <= n
    PROVE  Entries(s, b, n + 1) =
             IF s[n + 1].kind = "stat" /\ s[n + 1].key \notin skip_features
                                       /\ s[n + 1].val # NoNumber
             THEN Entries(s, b, n) \cup {<<s[n + 1].key, s[n + 1].val>>}
             ELSE Entries(s, b, n)
<1> DEFINE P(k) == s[k].kind = "stat" /\ s[k].key \notin skip_features /\ s[k].val # NoNumber
<1>1. b..(n + 1) = b..n \cup {n + 1}
  OBVIOUS
<1> HIDE DEF P
<1>2. {k \in b..(n + 1) : P(k)} = IF P(n + 1) THEN {k \in b..n : P(k)} \cup {n + 1}
                                  ELSE {k \in b..n : P(k)}
  BY <1>1, ZenonT(30)
<1>3. Kept(s, b, n + 1) = IF P(n + 1) THEN Kept(s, b, n) \cup {n + 1} ELSE Kept(s, b, n)
  BY <1>2 DEF Kept, P
<1>4. CASE P(n + 1)
  <2>1. Kept(s, b, n + 1) = Kept(s, b, n) \cup {n + 1}
    BY <1>3, <1>4
  <2>2. Entries(s, b, n + 1) = Entries(s, b, n) \cup {<<s[n + 1].key, s[n + 1].val>>}
    BY <2>1 DEF Entries
  <2> QED BY <1>4, <2>2 DEF P
<1>5. CASE ~P(n + 1)
  <2>1. Entries(s, b, n + 1) = Entries(s, b, n)
    BY <1>3, <1>5 DEF Entries
  <2> QED BY <1>5, <2>1 DEF P
<1> QED BY <1>4, <1>5

LEMMA EntriesFirst ==
    ASSUME NEW s, NEW b \in Nat, Begins(s, b)
    PROVE  Entries(s, b, b) = {}
<1>1. b..b = {b}
  OBVIOUS
<1>2. Kept(s, b, b) = {}
  BY <1>1 DEF Kept, Begins
<1> QED BY <1>2 DEF Entries

LEMMA GraphExtend ==
    ASSUME NEW f, NEW k, NEW v, k \notin DOMAIN f
    PROVE  Graph(Extend(f, k, v)) = Graph(f) \cup {<<k, v>>}
<1> DEFINE g == Extend(f, k, v)
<1>1. DOMAIN g = DOMAIN f \cup {k} /\ g[k] = v /\ \A x \in DOMAIN f : g[x] = f[x]
  BY DEF Extend
<1> HIDE DEF g
<1>2. \A p : p \in Graph(g) <=> p \in Graph(f) \/ p = <<k, v>>
  BY <1>1, Zenon DEF Graph
<1> QED BY <1>2 DEF g

(* A begin ends the section before. *)
LEMMA OneBegin ==
    ASSUME NEW s \in Seq(Lines), WellFormed(s), NEW n \in 1..Len(s),
           NEW b \in 1..n, NEW c \in 1..n, Begins(s, b), Begins(s, c),
           \A k \in (b + 1)..(n - 1) : ~Ends(s, k),
           \A k \in (c + 1)..(n - 1) : ~Ends(s, k)
    PROVE  b = c
<1>1. ASSUME NEW x \in 1..n, NEW y \in 1..n, x < y, Begins(s, x), Begins(s, y),
             \A k \in (x + 1)..(n - 1) : ~Ends(s, k)
      PROVE  FALSE
  <2>1. y - 1 \in 1..(Len(s) - 1) /\ (y - 1) + 1 = y
    BY <1>1
  <2>2. Begins(s, (y - 1) + 1) <=> Ends(s, y - 1)
    BY <2>1 DEF WellFormed
  <2>3. Ends(s, y - 1)
    BY <1>1, <2>1, <2>2
  <2>4. y - 1 # x
    BY <1>1, <2>3 DEF Begins, Ends
  <2>5. y - 1 \in (x + 1)..(n - 1)
    BY <1>1, <2>4
  <2> QED BY <1>1, <2>3, <2>5
<1>2. ~(b < c) /\ ~(c < b)
  BY <1>1
<1> QED BY <1>2
(* What is no begin follows another line of its section. *)
LEMMA InsideSection ==
    ASSUME NEW s \in Seq(Lines), WellFormed(s), NEW n \in 0..(Len(s) - 1), ~Begins(s, n + 1)
    PROVE  n >= 1 /\ ~Ends(s, n)
<1>1. s # <<>> /\ Len(s) \in Nat
  OBVIOUS
<1>2. n # 0
  BY <1>1 DEF WellFormed
<1>3. n \in 1..(Len(s) - 1)
  BY <1>2
<1>4. Begins(s, n + 1) <=> Ends(s, n)
  BY <1>3 DEF WellFormed
<1> QED BY <1>3, <1>4

LEMMA EndBefore ==
    ASSUME NEW s \in Seq(Lines), WellFormed(s), NEW b \in 2..Len(s), Begins(s, b)
    PROVE  Ends(s, b - 1)
<1>1. b - 1 \in 1..(Len(s) - 1) /\ (b - 1) + 1 = b
  OBVIOUS
<1>2. Begins(s, (b - 1) + 1) <=> Ends(s, b - 1)
  BY <1>1 DEF WellFormed
<1> QED BY <1>1, <1>2

LEMMA TreatedNext ==
    ASSUME NEW s, NEW n \in Nat, NEW H, Treated(s, n, H), ~Ends(s, n + 1)
    PROVE  Treated(s, n + 1, H)
<1> SUFFICES ASSUME NEW b \in 1..(n + 1), NEW e \in 1..(n + 1), Section(s, b, e)
             PROVE  Text(s, b, e) \in H \/ Broken(s, e)
  BY DEF Treated
<1>1. b < e /\ e # n + 1
  BY DEF Section
<1>2. b \in 1..n /\ e \in 1..n
  BY <1>1, SMTT(30)
<1> QED BY <1>2 DEF Treated

(* BeginLine *)
LEMMA ScanBegin ==
    ASSUME NEW s \in Seq(Lines), WellFormed(s), NEW n \in 0..(Len(s) - 1),
           NEW sk, NEW rm, NEW f, NEW t, NEW H, Scanned(s, n, sk, rm, f, t, H),
           Begins(s, n + 1)
    PROVE  Scanned(s, n + 1, sk, rm, <<>>, t, H)
<1>1. s[n + 1].kind # "short" /\ ~Ends(s, n + 1) /\ n \in Nat
  BY SMTT(30) DEF Begins, Ends
<1>2. /\ sk \in BOOLEAN /\ rm \in BOOLEAN
      /\ sk <=> \E w \in 1..(n + 1) : Ends(s, w)
      /\ rm <=> Broken(s, n + 1)
  BY <1>1, MarksNext, ZenonT(30) DEF Scanned
<1>3. Treated(s, n + 1, H)
  BY <1>1, TreatedNext, Zenon DEF Scanned
<1>4. ASSUME sk PROVE \E b \in 2..(n + 1) : Open(s, b, n + 1, <<>>, t)
  <2>1. n >= 1
    BY <1>4 DEF Scanned
  <2>2. n + 1 \in 2..Len(s) /\ (n + 1) - 1 = n
    BY <2>1
  <2>3. Ends(s, n)
    BY <2>2, EndBefore
  <2>4. t = <<>>
    BY <1>4, <2>3, ZenonT(30) DEF Scanned
  <2>5. Text(s, n + 1, n + 1) = <<>> /\ Entries(s, n + 1, n + 1) = {} /\ n + 1 \in Nat
    BY <1>1, TextFirst, EntriesFirst
  <2>6. Graph(<<>>) = {}
    BY DEF Graph
  <2>7. \A k \in ((n + 1) + 1)..(n + 1) : ~Ends(s, k)
    BY <1>1
  <2>8. Open(s, n + 1, n + 1, <<>>, t)
    BY <2>4, <2>5, <2>6, <2>7, ZenonT(30) DEF Open
  <2> QED BY <2>2, <2>8
<1> QED BY <1>1, <1>2, <1>3, <1>4, Zenon DEF Scanned

(* StatLine and ShortLine: what becomes of removeStat, and of the section  *)
(* that is open.                                                           *)
Marked(s, n, sk, rm, r) == r \in BOOLEAN /\ (r <=> rm \/ (s[n + 1].kind = "short" /\ sk))
Carried(s, n, sk, f, t, g, u) ==
    \A b \in 2..n : sk /\ Open(s, b, n, f, t) => Open(s, b, n + 1, g, u)

LEMMA ScanInside ==
    ASSUME NEW s \in Seq(Lines), WellFormed(s), NEW n \in 0..(Len(s) - 1),
           NEW sk, NEW rm, NEW f, NEW t, NEW H, Scanned(s, n, sk, rm, f, t, H),
           ~Begins(s, n + 1), ~Ends(s, n + 1),
           NEW r, Marked(s, n, sk, rm, r), NEW g, NEW u, Carried(s, n, sk, f, t, g, u)
    PROVE  Scanned(s, n + 1, sk, r, g, u, H)
<1>0. /\ r \in BOOLEAN /\ (r <=> rm \/ (s[n + 1].kind = "short" /\ sk))
      /\ \A b \in 2..n : sk /\ Open(s, b, n, f, t) => Open(s, b, n + 1, g, u)
  BY Zenon DEF Marked, Carried
<1>1. n \in Nat /\ ~Ends(s, n)
  BY InsideSection, SMTT(30)
<1>2. sk \in BOOLEAN /\ (sk <=> \E w \in 1..(n + 1) : Ends(s, w))
  BY <1>1, MarksNext, ZenonT(30) DEF Scanned
<1>3. r <=> Broken(s, n + 1)
  BY <1>0, <1>1, MarksNext, ZenonT(30) DEF Scanned
<1>4. Treated(s, n + 1, H)
  BY <1>1, TreatedNext, ZenonT(30) DEF Scanned
<1>5. ASSUME sk PROVE \E b \in 2..(n + 1) : Open(s, b, n + 1, g, u)
  <2>1. PICK b \in 2..n : Open(s, b, n, f, t)
    BY <1>1, <1>5, ZenonT(30) DEF Scanned
  <2>2. b \in 2..(n + 1)
    BY LenNat, Within, Zenon
  <2>3. Open(s, b, n + 1, g, u)
    BY <1>0, <1>5, <2>1, Zenon
  <2> QED BY <2>2, <2>3, Zenon
<1> QED BY <1>0, <1>2, <1>3, <1>4, <1>5, Zenon DEF Scanned

LEMMA OpenKeeps ==
    ASSUME NEW s, NEW n \in Nat, NEW b \in 2..n, NEW f, NEW t, Open(s, b, n, f, t),
           ~Ends(s, n + 1),
           \/ s[n + 1].kind # "stat" \/ s[n + 1].key \in skip_features
           \/ s[n + 1].val = NoNumber
    PROVE  Open(s, b, n + 1, f, t)
<1>1. b \in Nat /\ b <= n
  OBVIOUS
<1>2. Text(s, b, n + 1) = Text(s, b, n)
  BY <1>1, TextNext DEF Add
<1>3. Entries(s, b, n + 1) = Entries(s, b, n)
  BY <1>1, EntriesNext, Zenon
<1>4. \A k \in (b + 1)..(n + 1) : ~Ends(s, k)
  BY DEF Open
<1> QED BY <1>2, <1>3, <1>4 DEF Open
(* No statistic of the section has been read before. *)
LEMMA KeyIsNew ==
    ASSUME NEW s \in Seq(Lines), WellFormed(s), NEW n \in 0..(Len(s) - 1), NEW b \in 2..n,
           NEW f, NEW t, Open(s, b, n, f, t), s[n + 1].kind = "stat"
    PROVE  s[n + 1].key \notin DOMAIN f
<1> DEFINE key == s[n + 1].key
<1> SUFFICES ASSUME key \in DOMAIN f PROVE FALSE
  OBVIOUS
<1>1. <<key, f[key]>> \in Entries(s, b, n)
  BY ZenonT(30) DEF Open, Graph
<1>2. PICK k \in Kept(s, b, n) : <<key, f[key]>> = <<s[k].key, s[k].val>>
  BY <1>1, ZenonT(30) DEF Entries
<1>3. k \in b..n /\ s[k].kind = "stat" /\ s[k].key = key
  BY <1>2 DEF Kept
<1>4. k # b
  BY <1>3, ZenonT(30) DEF Open, Begins
<1>5. k \in 1..Len(s) /\ n + 1 \in 1..Len(s) /\ k < n + 1
  BY <1>3
<1>6. PICK e \in k..(n + 1) : Ends(s, e)
  BY <1>3, <1>5, ZenonT(30) DEF WellFormed
<1>7. e # n + 1
  BY <1>6 DEF Ends
<1>8. e \in (b + 1)..n
  BY <1>3, <1>4, <1>7, SMTT(30)
<1> QED BY <1>6, <1>8 DEF Open

LEMMA OpenAdds ==
    ASSUME NEW s \in Seq(Lines), WellFormed(s), NEW n \in 0..(Len(s) - 1), NEW b \in 2..n,
           NEW f, NEW t, Open(s, b, n, f, t), s[n + 1].kind = "stat",
           s[n + 1].key \notin skip_features, s[n + 1].val # NoNumber
    PROVE  Open(s, b, n + 1, Extend(f, s[n + 1].key, s[n + 1].val),
                t \o s[n + 1].key \o s[n + 1].val)
<1>1. b \in Nat /\ n \in Nat /\ b <= n
  BY SMTT(30)
<1>2. Text(s, b, n + 1) = Text(s, b, n) \o s[n + 1].key \o s[n + 1].val
  BY <1>1, TextNext, ZenonT(30) DEF Add
<1>3. Entries(s, b, n + 1) = Entries(s, b, n) \cup {<<s[n + 1].key, s[n + 1].val>>}
  BY <1>1, EntriesNext, ZenonT(30)
<1>4. Graph(Extend(f, s[n + 1].key, s[n + 1].val)) =
        Graph(f) \cup {<<s[n + 1].key, s[n + 1].val>>}
  BY KeyIsNew, GraphExtend
<1>5. ~Ends(s, n + 1)
  BY ZenonT(30) DEF Ends
<1>6. \A k \in (b + 1)..(n + 1) : ~Ends(s, k)
  BY <1>1, <1>5, LastOrInside, Zenon DEF Open
<1> QED BY <1>2, <1>3, <1>4, <1>6, Zenon DEF Open

(* EndLine: the section that ends is the one feat and feature_str are of.  *)
Ended(s, b, n, f, t) ==
    /\ Section(s, b, n + 1) /\ Graph(f) = Entries(s, b, n + 1)
    /\ Text(s, b, n + 1) = t
    /\ Broken(s, n) \/ \A k \in b..(n + 1) : s[k].kind # "short"

LEMMA SectionEnds ==
    ASSUME NEW s \in Seq(Lines), WellFormed(s), NEW n \in 0..(Len(s) - 1),
           NEW sk, NEW rm, NEW f, NEW t, NEW H, Scanned(s, n, sk, rm, f, t, H),
           Ends(s, n + 1), \E w \in 1..n : Ends(s, w)
    PROVE  \E b \in 2..n : Ended(s, b, n, f, t)
<1>1. ~Begins(s, n + 1) /\ s[n + 1].kind # "stat" /\ s[n + 1].kind # "short"
  BY ZenonT(30) DEF Ends, Begins
<1>2. n \in Nat /\ ~Ends(s, n)
  BY <1>1, InsideSection
<1>3. PICK b \in 2..n : Open(s, b, n, f, t)
  BY <1>2 DEF Scanned
<1>4. b \in Nat /\ b <= n /\ b \in 2..Len(s) /\ (n + 1) - 1 = n
  BY SMTT(30)
<1>5. Text(s, b, n + 1) = Text(s, b, n)
  BY <1>1, <1>2, <1>4, TextNext, ZenonT(30) DEF Add
<1>6. Entries(s, b, n + 1) = Entries(s, b, n)
  BY <1>1, <1>2, <1>4, EntriesNext, Zenon
<1>7. Section(s, b, n + 1)
  BY <1>3, <1>4 DEF Section, Open
<1>8. Ends(s, b - 1)
  BY <1>3, <1>4, EndBefore, ZenonT(30) DEF Open
<1>9. ASSUME ~Broken(s, n), NEW k \in b..(n + 1) PROVE s[k].kind # "short"
  <2>2. CASE k = n + 1
    BY <1>1, <2>2, ZenonT(30)
  <2>3. CASE k \in b..n
    <3>1. k \in 1..n /\ b - 1 \in 1..k
      BY <1>4, <2>3, SMTT(30)
    <3> QED BY <1>8, <1>9, <3>1 DEF Broken
  <2> QED BY <2>2, <2>3
<1>10. Ended(s, b, n, f, t)
  BY <1>3, <1>5, <1>6, <1>7, <1>9, Zenon DEF Open, Ended
<1> QED BY <1>10, SMTT(30)

LEMMA ScanEnd ==
    ASSUME NEW s \in Seq(Lines), WellFormed(s), NEW n \in 0..(Len(s) - 1),
           NEW sk, NEW rm, NEW f, NEW t, NEW H, Scanned(s, n, sk, rm, f, t, H),
           Ends(s, n + 1), NEW G, H \subseteq G, sk /\ ~rm => t \in G
    PROVE  Scanned(s, n + 1, TRUE, rm, f, <<>>, G)
<1>1. s[n + 1].kind # "short" /\ n \in Nat /\ n + 1 \in 1..Len(s)
  BY SMTT(30) DEF Ends
<1>2. /\ \E w \in 1..(n + 1) : Ends(s, w)
      /\ rm \in BOOLEAN /\ (rm <=> Broken(s, n + 1))
  BY <1>1, MarksNext, ZenonT(30) DEF Scanned
<1>3. ASSUME NEW b \in 1..(n + 1), NEW e \in 1..(n + 1), Section(s, b, e)
      PROVE  Text(s, b, e) \in G \/ Broken(s, e)
  <2>1. 1 < b /\ b < e
    BY <1>3 DEF Section
  <2>2. CASE e # n + 1
    <3>1. b \in 1..n /\ e \in 1..n
      BY <2>1, <2>2
    <3>2. Text(s, b, e) \in H \/ Broken(s, e)
      BY <1>3, <3>1 DEF Scanned, Treated
    <3> QED BY <3>2
  <2>3. CASE e = n + 1
    <3>1. Begins(s, b) /\ b \in 2..Len(s) /\ b - 1 \in 1..n
      <4>1. Len(s) \in Nat /\ 1 < b /\ b < n + 1
        BY <2>1, <2>3, LenNat, Zenon
      <4>2. b \in 2..Len(s) /\ b - 1 \in 1..n
        BY <1>1, <4>1, SectionStart, Zenon
      <4> QED BY <1>3, <4>2, Zenon DEF Section
    <3>2. Ends(s, b - 1)
      BY <3>1, EndBefore, ZenonT(30)
    <3>3. sk /\ \E w \in 1..n : Ends(s, w)
      BY <3>1, <3>2 DEF Scanned
    <3>4. PICK c \in 2..n : Ended(s, c, n, f, t)
      BY <3>3, SectionEnds, Zenon
    <3>5. b = c
      <4>1. c \in 1..(n + 1) /\ b \in 1..(n + 1)
        BY SMTT(30)
      <4>2. Begins(s, c) /\ \A k \in (c + 1)..((n + 1) - 1) : ~Ends(s, k)
        BY <3>4, Zenon DEF Ended, Section
      <4>3. \A k \in (b + 1)..((n + 1) - 1) : ~Ends(s, k)
        BY <1>3, <2>3, ZenonT(30) DEF Section
      <4> QED BY <1>1, <3>1, <4>1, <4>2, <4>3, OneBegin, ZenonT(30)
    <3>6. CASE rm
      BY <1>2, <2>3, <3>6, SMTT(30)
    <3>7. CASE ~rm
      BY <2>3, <3>3, <3>4, <3>5, <3>7, Zenon DEF Ended
    <3> QED BY <3>6, <3>7, ZenonT(30)
  <2> QED BY <2>2, <2>3
<1>4. Treated(s, n + 1, G)
  BY <1>3, ZenonT(30) DEF Treated
<1> QED BY <1>2, <1>4, ZenonT(30) DEF Scanned

(* A broken line. *)
LEMMA ScanShort ==
    ASSUME NEW s \in Seq(Lines), WellFormed(s), NEW n \in 0..(Len(s) - 1),
           NEW sk, NEW rm, NEW f, NEW t, NEW H, Scanned(s, n, sk, rm, f, t, H),
           s[n + 1].kind = "short", NEW r, Marked(s, n, sk, rm, r)
    PROVE  Scanned(s, n + 1, sk, r, f, t, H)
<1>1. ~Begins(s, n + 1) /\ ~Ends(s, n + 1)
  BY DEF Begins, Ends
<1>2. n \in Nat
  BY IndexNat, Zenon
<1>3. \A b \in 2..n : sk /\ Open(s, b, n, f, t) => Open(s, b, n + 1, f, t)
  BY <1>1, <1>2, OpenKeeps, ZenonT(30)
<1>4. Carried(s, n, sk, f, t, f, t)
  BY <1>3, Zenon DEF Carried
<1> QED BY <1>1, <1>4, ScanInside, Zenon

LEMMA ScanStart ==
    ASSUME NEW s, NEW H
    PROVE  Scanned(s, 0, FALSE, FALSE, <<>>, <<>>, H)
<1>1. ~(\E w \in 1..0 : Ends(s, w)) /\ ~Broken(s, 0)
  BY DEF Broken
<1>2. Treated(s, 0, H)
  BY DEF Treated
<1> QED BY <1>1, <1>2, ZenonT(30) DEF Scanned

(* The inductive invariant of read_stats. *)
ScanInv ==
    Scanned(lines, pos - 1, skipped_warmup, remove_this_input, feat, feature_str, feature_hash)

LEMMA LinesKeepScan ==
    ASSUME HeadingInv, ScanInv, BeginLine \/ StatLine \/ ShortLine \/ EndLine
    PROVE  ScanInv'
<1> DEFINE n == pos - 1
<1>1. PICK kind \in {"begin", "stat", "short", "end"} : AtLine(kind)
  BY ZenonT(30) DEF BeginLine, StatLine, ShortLine, EndLine
<1>2. pos' = pos + 1 /\ pos <= Len(lines) /\ lines' = lines
  BY <1>1 DEF AtLine
<1>3. lines \in Seq(Lines) /\ WellFormed(lines) /\ pos \in 1..(Len(lines) + 1)
  BY DEF HeadingInv, PlaceInv
<1>4. n \in 0..(Len(lines) - 1) /\ n \in Nat /\ n + 1 = pos /\ pos' - 1 = n + 1
  BY <1>2, <1>3
<1>5. Scanned(lines, n, skipped_warmup, remove_this_input, feat, feature_str, feature_hash)
  BY DEF ScanInv
<1> HIDE DEF n
<1>6. CASE BeginLine
  <2>1. /\ feat' = <<>> /\ Begins(lines, n + 1)
        /\ UNCHANGED <<skipped_warmup, remove_this_input, feature_str, feature_hash>>
    BY <1>4, <1>6 DEF BeginLine, AtLine, Begins
  <2>2. Scanned(lines, n + 1, skipped_warmup, remove_this_input, <<>>, feature_str, feature_hash)
    BY <1>3, <1>4, <1>5, <2>1, ScanBegin, ZenonT(30)
  <2> QED BY <1>2, <1>4, <2>1, <2>2, ZenonT(30) DEF ScanInv
<1>7. CASE ShortLine
  <2>1. /\ lines[n + 1].kind = "short"
        /\ remove_this_input' = (remove_this_input \/ skipped_warmup)
        /\ UNCHANGED <<skipped_warmup, feat, feature_str, feature_hash>>
    BY <1>4, <1>7, ZenonT(30) DEF ShortLine, AtLine
  <2>2. Scanned(lines, n + 1, skipped_warmup, remove_this_input', feat, feature_str, feature_hash)
    <3>1. lines[n + 1].kind = "short"
      BY <2>1, Zenon
    <3>2. Marked(lines, n, skipped_warmup, remove_this_input, remove_this_input')
      BY <2>1, <3>1, Zenon DEF Marked
    <3> QED BY <1>3, <1>4, <1>5, <3>1, <3>2, ScanShort, Zenon
  <2> QED BY <1>2, <1>4, <2>1, <2>2, ZenonT(30) DEF ScanInv
<1>8. CASE StatLine
  <2> DEFINE key == lines[n + 1].key
             val == lines[n + 1].val
  <2>1. /\ lines[n + 1].kind = "stat"
        /\ UNCHANGED <<skipped_warmup, remove_this_input, feature_hash>>
        /\ \/ /\ skipped_warmup /\ key \notin skip_features /\ val # NoNumber
              /\ feat' = Extend(feat, key, val) /\ feature_str' = feature_str \o key \o val
           \/ /\ ~skipped_warmup \/ key \in skip_features \/ val = NoNumber
              /\ UNCHANGED <<feat, feature_str>>
    BY <1>4, <1>8, ZenonT(30) DEF StatLine, AtLine
  <2>2. ~Begins(lines, n + 1) /\ ~Ends(lines, n + 1)
    BY <2>1, ZenonT(30) DEF Begins, Ends
  <2>3. Marked(lines, n, skipped_warmup, remove_this_input, remove_this_input)
    BY <1>5, <2>1, Zenon DEF Scanned, Marked
  <2>4. ASSUME NEW b \in 2..n, skipped_warmup, Open(lines, b, n, feat, feature_str)
        PROVE  Open(lines, b, n + 1, feat', feature_str')
    <3>1. CASE key \notin skip_features /\ val # NoNumber
      <4>1. feat' = Extend(feat, key, val) /\ feature_str' = feature_str \o key \o val
        BY <2>1, <2>4, <3>1, ZenonT(30)
      <4> QED BY <1>3, <1>4, <2>1, <2>4, <3>1, <4>1, OpenAdds, ZenonT(30)
    <3>2. CASE key \in skip_features \/ val = NoNumber
      <4>1. UNCHANGED <<feat, feature_str>>
        BY <2>1, <3>2, Zenon
      <4> QED BY <1>4, <2>2, <2>4, <3>2, <4>1, OpenKeeps, ZenonT(30)
    <3> QED BY <3>1, <3>2, SMTT(30)
  <2>5. Carried(lines, n, skipped_warmup, feat, feature_str, feat', feature_str')
    BY <2>4, Zenon DEF Carried
  <2>6. Scanned(lines, n + 1, skipped_warmup, remove_this_input, feat', feature_str', feature_hash)
    BY <1>3, <1>4, <1>5, <2>2, <2>3, <2>5, ScanInside, Zenon
  <2> QED BY <1>2, <1>4, <2>1, <2>6, ZenonT(30) DEF ScanInv
<1>9. CASE EndLine
  <2>1. /\ Ends(lines, n + 1) /\ skipped_warmup' = TRUE /\ feature_str' = <<>>
        /\ UNCHANGED <<remove_this_input, feat>>
    BY <1>4, <1>9, ZenonT(30) DEF EndLine, AtLine, Ends
  <2>2. /\ feature_hash \subseteq feature_hash'
        /\ skipped_warmup /\ ~remove_this_input => feature_str \in feature_hash'
    BY <1>9 DEF EndLine, NewRow
  <2>3. Scanned(lines, n + 1, TRUE, remove_this_input, feat, <<>>, feature_hash')
    BY <1>3, <1>4, <1>5, <2>1, <2>2, ScanEnd, Zenon
  <2> QED BY <1>2, <1>4, <2>1, <2>3, Zenon DEF ScanInv
<1> QED BY <1>6, <1>7, <1>8, <1>9

LEMMA ScanStep ==
    ASSUME HeadingInv, ScanInv, [Next]_vars
    PROVE  ScanInv'
<1>1. CASE BeginLine \/ StatLine \/ ShortLine \/ EndLine
  BY <1>1, LinesKeepScan
<1>2. CASE ReadContents
  <2>1. /\ pos' - 1 = 0 /\ skipped_warmup' = FALSE /\ remove_this_input' = FALSE
        /\ feat' = <<>> /\ feature_str' = <<>>
    BY <1>2 DEF ReadContents
  <2> QED BY <2>1, ScanStart, Zenon DEF ScanInv
<1>3. CASE UNCHANGED <<lines, pos, skipped_warmup, remove_this_input, feat, feature_str, feature_hash>>
  BY <1>3 DEF ScanInv
<1> QED BY <1>1, <1>2, <1>3, Zenon DEF Next, Runner, Launch, Return, Timeout, TimesOut, Processor,
           read_faults, NextDirectory, ReadTerminal, EndOfFile, WriteCsv, Simulation, Write,
           Exit, fileVars, lineVars, setVars, vars
---------------------------------------------------------------------------
(* What is true of a section in the beginning of a file remains so. *)
LEMMA BeforeSame ==
    ASSUME NEW s, NEW t, Before(s, t), Len(s) \in Nat,
           NEW b \in 1..Len(s), NEW e \in 1..Len(s), Section(s, b, e)
    PROVE  /\ \A k \in b..e : t[k] = s[k]
           /\ Section(t, b, e)
           /\ Entries(t, b, e) = Entries(s, b, e) /\ Text(t, b, e) = Text(s, b, e)
<1>1. b \in Nat /\ e \in Nat /\ b < e
  BY DEF Section
<1>2. \A k \in b..e : t[k] = s[k]
  BY DEF Before
<1>3. Section(t, b, e)
  <2>1. t[b] = s[b] /\ t[e] = s[e] /\ \A k \in (b + 1)..(e - 1) : t[k] = s[k]
    BY <1>1, <1>2
  <2> QED BY <2>1, ZenonT(30) DEF Section, Begins, Ends
<1>4. Kept(t, b, e) = Kept(s, b, e) /\ \A k \in Kept(s, b, e) : t[k] = s[k]
  BY <1>2, ZenonT(30) DEF Kept
<1>5. Entries(t, b, e) = Entries(s, b, e)
  BY <1>4 DEF Entries
<1>6. Text(t, b, e) = Text(s, b, e)
  BY <1>1, <1>2, TextSame, SMTT(30)
<1> QED BY <1>2, <1>3, <1>5, <1>6, ZenonT(30)

(* A row has the features of a whole section of s, whose text is in H.     *)
FromSection(row, s, H) ==
    \E b, e \in 1..Len(s) :
        /\ Section(s, b, e) /\ Graph(row.feat) = Entries(s, b, e)
        /\ \A k \in b..e : s[k].kind # "short"
        /\ Text(s, b, e) \in H

LEMMA FromMore ==
    ASSUME NEW row, NEW s, NEW t, NEW H, NEW G, Len(s) \in Nat, Len(t) \in Nat, Before(s, t),
           H \subseteq G, FromSection(row, s, H)
    PROVE  FromSection(row, t, G)
<1>1. PICK b \in 1..Len(s), e \in 1..Len(s) :
        /\ Section(s, b, e) /\ Graph(row.feat) = Entries(s, b, e)
        /\ \A k \in b..e : s[k].kind # "short"
        /\ Text(s, b, e) \in H
  BY DEF FromSection
<1>2. b \in 1..Len(t) /\ e \in 1..Len(t)
  <2>1. Len(s) <= Len(t)
    BY Zenon DEF Before
  <2> QED BY <2>1, LongerIndex, Zenon
<1>3. /\ Section(t, b, e) /\ Graph(row.feat) = Entries(t, b, e)
      /\ \A k \in b..e : t[k].kind # "short"
      /\ Text(t, b, e) \in G
  BY <1>1, BeforeSame, SMTT(30)
<1> QED BY <1>2, <1>3, ZenonT(30) DEF FromSection

LEMMA BeforeTrans ==
    ASSUME NEW s, NEW t, NEW u, Len(s) \in Nat, Len(t) \in Nat, Len(u) \in Nat,
           Before(s, t), Before(t, u)
    PROVE  Before(s, u)
BY DEF Before

Prefix(s, x) == Len(s) \in Nat /\ Len(x) \in Nat /\ Before(s, x)
Part(s, b, e) == b \in 1..Len(s) /\ e \in 1..Len(s) /\ Section(s, b, e)

LEMMA PrefixPart ==
    ASSUME NEW s, NEW x, Prefix(s, x), NEW b, NEW e, Part(s, b, e)
    PROVE  Part(x, b, e) /\ Entries(x, b, e) = Entries(s, b, e) /\ Text(x, b, e) = Text(s, b, e)
<1>1. /\ Len(s) \in Nat /\ Len(x) \in Nat /\ Before(s, x) /\ Len(s) <= Len(x)
      /\ b \in 1..Len(s) /\ e \in 1..Len(s) /\ Section(s, b, e)
  BY Zenon DEF Prefix, Part, Before
<1>2. Section(x, b, e) /\ Entries(x, b, e) = Entries(s, b, e) /\ Text(x, b, e) = Text(s, b, e)
  BY <1>1, BeforeSame, Zenon
<1>3. b \in 1..Len(x) /\ e \in 1..Len(x)
  BY <1>1, LongerIndex, Zenon
<1> QED BY <1>2, <1>3, Zenon DEF Part

(* Their texts are the same if their statistics are. *)
Agree(s, b, e, t, c, f) ==
    Entries(s, b, e) = Entries(t, c, f) => Text(s, b, e) = Text(t, c, f)

LEMMA SameText ==
    ASSUME NEW s, NEW t, NEW x, NEW y, Prefix(s, x), Prefix(t, y), SameOrder(x, y),
           NEW b, NEW e, Part(s, b, e), NEW c, NEW f, Part(t, c, f)
    PROVE  Agree(s, b, e, t, c, f)
<1>1. Part(x, b, e) /\ Entries(x, b, e) = Entries(s, b, e) /\ Text(x, b, e) = Text(s, b, e)
  BY PrefixPart
<1>2. Part(y, c, f) /\ Entries(y, c, f) = Entries(t, c, f) /\ Text(y, c, f) = Text(t, c, f)
  BY PrefixPart
<1>3. Agree(x, b, e, y, c, f)
  BY <1>1, <1>2, Zenon DEF SameOrder, Part, Agree
<1> QED BY <1>1, <1>2, <1>3, ZenonT(30) DEF Agree

(* Sections of the same statistics have the same text, also in two files.  *)
LEMMA AlikeText ==
    ASSUME PlaceInv, NEW c \in Dirs, NEW d \in Dirs,
           NEW s, Len(s) \in Nat, Before(s, setup.sims[c].lines),
           NEW p, NEW q, Part(s, p, q),
           NEW t, Len(t) \in Nat, Before(t, setup.sims[d].lines), NEW b, NEW e, Part(t, b, e)
    PROVE  Agree(s, p, q, t, b, e)
<1> DEFINE x == setup.sims[c].lines
           y == setup.sims[d].lines
<1>1. setup \in Setups /\ c \in DOMAIN setup.sims /\ d \in DOMAIN setup.sims
  BY SMTT(30) DEF PlaceInv, Dirs
<1>2. SameOrder(x, y)
  BY <1>1, TrainingAssumption, ZenonT(30)
<1>3. x \in Seq(Lines) /\ y \in Seq(Lines)
  BY <1>1, TrainingAssumption, Zenon
<1>4. Len(x) \in Nat /\ Len(y) \in Nat
  BY <1>3, LenNat, Zenon
<1>5. Prefix(s, x) /\ Prefix(t, y)
  BY <1>4, Zenon DEF Prefix
<1> HIDE DEF x, y
<1> QED BY <1>2, <1>5, SameText, Zenon

(* A row of one file is not made again of another: its text is known. *)
LEMMA KnownRow ==
    ASSUME PlaceInv, NEW c \in Dirs, NEW d \in Dirs, NEW row, NEW H,
           NEW s, Len(s) \in Nat, Before(s, setup.sims[c].lines), FromSection(row, s, H),
           NEW t, Len(t) \in Nat, Before(t, setup.sims[d].lines),
           NEW b \in 1..Len(t), NEW e \in 1..Len(t), Section(t, b, e),
           Graph(row.feat) = Entries(t, b, e)
    PROVE  Text(t, b, e) \in H
<1>1. PICK p \in 1..Len(s), q \in 1..Len(s) :
        Section(s, p, q) /\ Graph(row.feat) = Entries(s, p, q) /\ Text(s, p, q) \in H
  BY Zenon DEF FromSection
<1>2. Entries(s, p, q) = Entries(t, b, e) /\ Section(s, p, q)
  BY <1>1, ZenonT(30)
<1>3. Text(s, p, q) = Text(t, b, e)
  <2>1. Part(s, p, q) /\ Part(t, b, e)
    BY <1>1, Zenon DEF Part
  <2>2. Agree(s, p, q, t, b, e)
    BY <2>1, AlikeText, Zenon
  <2> QED BY <1>2, <2>2, Zenon DEF Agree
<1> QED BY <1>1, <1>3, SMTT(30)

(* The files grow. *)
Cut(t, s, n) == n \in Nat /\ n <= Len(s) /\ Len(t) = n /\ \A k \in 1..n : t[k] = s[k]

LEMMA EmptyBefore ==
    ASSUME NEW s, NEW t, Len(s) = 0, Len(t) \in Nat
    PROVE  Before(s, t)
BY DEF Before

LEMMA CutFacts ==
    ASSUME NEW S, NEW s \in Seq(S), NEW n \in 0..Len(s)
    PROVE  Cut(SubSeq(s, 1, n), s, n)
BY DEF Cut

LEMMA StatsGrow ==
    ASSUME PlaceInv, PlaceInv', [Next]_vars, NEW d \in Dirs
    PROVE  /\ Len(Stats(d)) \in Nat /\ Len(Stats(d)') \in Nat
           /\ Before(Stats(d), Stats(d)')
<1> DEFINE m == setup.sims[d]
           S(w) == IF w = 0 THEN <<>> ELSE SubSeq(m.lines, 1, m.flush[w].lines)
<1>1. setup' = setup /\ Dirs' = Dirs
  BY SetupStays DEF vars, Dirs
<1>2. Stats(d) = S(written[d]) /\ Stats(d)' = S(written'[d])
  BY <1>1, SMTT(30) DEF Stats
<1>3. /\ written[d] \in 0..Len(m.flush) /\ written'[d] \in 0..Len(m.flush)
      /\ Len(m.flush) \in Nat /\ DOMAIN m.flush = 1..Len(m.flush) /\ m.lines \in Seq(Lines)
      /\ \A k \in 1..Len(m.flush) : m.flush[k].lines \in 0..Len(m.lines)
      /\ \A j, k \in 1..Len(m.flush) : j <= k => m.flush[j].lines <= m.flush[k].lines
  BY <1>1, TrainingAssumption, ZenonT(30) DEF PlaceInv, Dirs
<1>4. written[d] <= written'[d]
  <2>0. written[d] \in Nat
    BY <1>3, IndexNat, Zenon
  <2>1. CASE written' = written
    BY <2>0, <2>1, NotLess, Zenon
  <2>2. ASSUME NEW e \in Dirs, Write(e) PROVE written[d] <= written'[d]
    <3>1. DOMAIN written = Dirs /\ written' = [written EXCEPT ![e] = @ + 1]
      BY <2>2, Zenon DEF Write, PlaceInv
    <3>2. written'[d] = IF d = e THEN written[d] + 1 ELSE written[d]
      BY <3>1, ZenonT(30)
    <3> QED BY <2>0, <3>2, NotLess, Zenon
  <2> QED BY <2>1, <2>2, ZenonT(30) DEF Next, Runner, Launch, Return, Timeout, TimesOut, Processor,
           read_faults, NextDirectory, ReadTerminal, ReadContents, BeginLine, StatLine, ShortLine,
           EndLine, AtLine, EndOfFile, WriteCsv, Simulation, Exit, vars
<1> DEFINE ls == m.lines
           n(w) == m.flush[w].lines
<1>5. ASSUME NEW w \in 1..Len(m.flush)
      PROVE  /\ n(w) \in Nat /\ n(w) <= Len(ls)
             /\ Len(S(w)) = n(w) /\ \A k \in 1..n(w) : S(w)[k] = ls[k]
  <2>1. S(w) = SubSeq(ls, 1, n(w))
    BY PositiveIndex, Zenon
  <2>2. ls \in Seq(Lines) /\ n(w) \in 0..Len(ls)
    BY <1>3, Zenon
  <2> HIDE DEF S, ls, n
  <2>3. Cut(SubSeq(ls, 1, n(w)), ls, n(w))
    BY <2>2, CutFacts, Zenon
  <2> QED BY <2>1, <2>3, Zenon DEF Cut
<1>6. S(0) = <<>> /\ Len(<<>>) = 0
  OBVIOUS
<1>7. ASSUME NEW v \in 0..Len(m.flush), NEW w \in 0..Len(m.flush), v <= w
      PROVE  Len(S(v)) \in Nat /\ Len(S(w)) \in Nat /\ Before(S(v), S(w))
  <2> HIDE DEF S
  <2>1. CASE v = 0
    <3>1. Len(S(v)) = 0 /\ Len(S(v)) \in Nat /\ Len(S(w)) \in Nat
      BY <1>5, <1>6, <2>1
    <3> QED BY <3>1, EmptyBefore, Zenon
  <2>2. CASE v # 0
    <3>1. v \in 1..Len(m.flush) /\ w \in 1..Len(m.flush)
      BY <1>3, <1>7, <2>2, SMTT(30)
    <3>2. n(v) <= n(w) /\ n(v) \in Nat /\ n(w) \in Nat /\ Len(S(v)) = n(v) /\ Len(S(w)) = n(w)
      BY <1>3, <1>5, <1>7, <3>1, Zenon
    <3> HIDE DEF n
    <3>3. ASSUME NEW k \in 1..n(v) PROVE S(v)[k] = S(w)[k]
      <4>1. k \in 1..n(w)
        BY <3>2, LongerIndex, Zenon
      <4> QED BY <1>5, <3>1, <4>1, ZenonT(30)
    <3> QED BY <3>2, <3>3, ZenonT(30) DEF Before
  <2> QED BY <2>1, <2>2, ZenonT(30)
<1> HIDE DEF S, m
<1> QED BY <1>2, <1>3, <1>4, <1>7
---------------------------------------------------------------------------
(* The rows.  Each has the features of a section of its file, whose text   *)
(* the hash has; that makes them distinct.                                 *)
Distinct(rows) == \A q, r \in DOMAIN rows : rows[q].feat = rows[r].feat => q = r
Disjoint(rows, more) == \A q \in DOMAIN rows, r \in DOMAIN more : rows[q].feat # more[r].feat

FileInv ==
    /\ Before(lines, Stats(cur))
    /\ \A r \in DOMAIN data : data[r].from = cur /\ FromSection(data[r], lines, feature_hash)
    /\ Distinct(data) /\ Disjoint(all_data, data)

RowInv ==
    /\ phase = "lines" => FileInv
    /\ \A r \in DOMAIN all_data : FromSection(all_data[r], Stats(all_data[r].from), feature_hash)
    /\ Distinct(all_data)

LEMMA DistinctAppend ==
    ASSUME NEW S, NEW rows \in Seq(S), NEW row, Distinct(rows),
           \A r \in DOMAIN rows : rows[r].feat # row.feat
    PROVE  Distinct(Append(rows, row))
<1> DEFINE n == Len(rows)
           new == Append(rows, row)
<1>1. rows \in Seq(S \cup {row})
  OBVIOUS
<1>2. /\ n \in Nat /\ DOMAIN rows = 1..n /\ DOMAIN new = 1..(n + 1)
      /\ new[n + 1] = row /\ \A r \in 1..n : new[r] = rows[r]
  BY <1>1
<1> HIDE DEF n, new
<1>3. ASSUME NEW q \in DOMAIN new, NEW r \in DOMAIN new, new[q].feat = new[r].feat
      PROVE  q = r
  <2>1. CASE q \in 1..n /\ r \in 1..n
    BY <1>2, <1>3, <2>1, ZenonT(30) DEF Distinct
  <2>2. CASE q = n + 1 /\ r \in 1..n
    BY <1>2, <1>3, <2>2, ZenonT(30)
  <2>3. CASE r = n + 1 /\ q \in 1..n
    BY <1>2, <1>3, <2>3, ZenonT(30)
  <2>4. CASE q = n + 1 /\ r = n + 1
    BY <2>4, ZenonT(30)
  <2>5. (q \in 1..n \/ q = n + 1) /\ (r \in 1..n \/ r = n + 1)
    BY <1>2, LastOrEarlier, Zenon
  <2> QED BY <2>1, <2>2, <2>3, <2>4, <2>5, ZenonT(30)
<1> QED BY <1>3, ZenonT(30) DEF Distinct, new

LEMMA DistinctConcat ==
    ASSUME NEW S, NEW rows \in Seq(S), NEW T, NEW more \in Seq(T),
           Distinct(rows), Distinct(more), Disjoint(rows, more)
    PROVE  Distinct(rows \o more)
<1> DEFINE n == Len(rows)
           m == Len(more)
           new == rows \o more
<1>1. rows \in Seq(S \cup T) /\ more \in Seq(S \cup T)
  OBVIOUS
<1>2. /\ n \in Nat /\ m \in Nat /\ DOMAIN rows = 1..n /\ DOMAIN more = 1..m
      /\ DOMAIN new = 1..(n + m) /\ \A r \in 1..n : new[r] = rows[r]
  BY <1>1
<1>3. ASSUME NEW r \in 1..(n + m), r \notin 1..n
      PROVE  r - n \in 1..m /\ new[r] = more[r - n]
  BY <1>1, <1>2, <1>3
<1> HIDE DEF n, m, new
<1>4. ASSUME NEW q \in DOMAIN new, NEW r \in DOMAIN new, new[q].feat = new[r].feat
      PROVE  q = r
  <2>1. CASE q \in 1..n /\ r \in 1..n
    BY <1>2, <1>4, <2>1, ZenonT(30) DEF Distinct
  <2>2. CASE q \notin 1..n /\ r \in 1..n
    <3>1. q - n \in 1..m /\ new[q] = more[q - n] /\ new[r] = rows[r]
      BY <1>2, <1>3, <2>2, Zenon
    <3>2. rows[r].feat # more[q - n].feat
      BY <1>2, <2>2, <3>1, Zenon DEF Disjoint
    <3> QED BY <1>4, <3>1, <3>2, Zenon
  <2>3. CASE q \in 1..n /\ r \notin 1..n
    <3>1. r - n \in 1..m /\ new[r] = more[r - n] /\ new[q] = rows[q]
      BY <1>2, <1>3, <2>3, Zenon
    <3>2. rows[q].feat # more[r - n].feat
      BY <1>2, <2>3, <3>1, Zenon DEF Disjoint
    <3> QED BY <1>4, <3>1, <3>2, Zenon
  <2>4. CASE q \notin 1..n /\ r \notin 1..n
    <3>1. q - n \in 1..m /\ r - n \in 1..m /\ more[q - n].feat = more[r - n].feat
      BY <1>2, <1>3, <1>4, <2>4, ZenonT(30)
    <3>2. q - n = r - n
      BY <1>2, <3>1, SMTT(30) DEF Distinct
    <3> QED BY <1>2, <3>2
  <2> QED BY <2>1, <2>2, <2>3, <2>4, ZenonT(30)
<1> QED BY <1>4 DEF Distinct, new

(* The steps that matter to the rows. *)
Adds == EndLine /\ skipped_warmup /\ ~remove_this_input /\ NewRow
Quiet == /\ UNCHANGED <<data, all_data, feature_hash, lines>>
         /\ phase' = "lines" => phase = "lines" /\ cur' = cur

LEMMA RowSteps ==
    ASSUME [Next]_vars
    PROVE  ReadContents \/ EndOfFile \/ Adds \/ Quiet
BY ZenonT(30) DEF Next, Runner, Launch, Return, Timeout, TimesOut, Processor, read_faults, NextDirectory,
       ReadTerminal, BeginLine, StatLine, ShortLine, EndLine, AtLine, WriteCsv, Simulation,
       Write, Exit, fileVars, lineVars, setVars, vars, Adds, Quiet

(* A row that is added is a section of the file, and its text is new. *)
LEMMA AddsSection ==
    ASSUME HeadingInv, ScanInv, Adds
    PROVE  \E b, e \in 1..Len(lines) :
             /\ Section(lines, b, e) /\ Graph(feat) = Entries(lines, b, e)
             /\ \A k \in b..e : lines[k].kind # "short"
             /\ Text(lines, b, e) = feature_str
<1> DEFINE n == pos - 1
<1>1. lines \in Seq(Lines) /\ WellFormed(lines) /\ pos \in 1..Len(lines) /\ lines[pos].kind = "end"
  BY SMTT(30) DEF HeadingInv, PlaceInv, Adds, EndLine, AtLine
<1>2. n \in 0..(Len(lines) - 1) /\ n + 1 = pos /\ n \in Nat
  BY <1>1
<1>3. Scanned(lines, n, skipped_warmup, remove_this_input, feat, feature_str, feature_hash)
  BY ZenonT(30) DEF ScanInv
<1> HIDE DEF n
<1>4. Ends(lines, n + 1) /\ (\E w \in 1..n : Ends(lines, w)) /\ ~Broken(lines, n)
  BY <1>1, <1>2, <1>3, SMTT(30) DEF Ends, Adds, Scanned
<1>5. PICK b \in 2..n : Ended(lines, b, n, feat, feature_str)
  BY <1>1, <1>2, <1>3, <1>4, SectionEnds, Zenon
<1>6. b \in 1..Len(lines) /\ n + 1 \in 1..Len(lines)
  BY <1>1, <1>2, LenNat, Within, Zenon
<1> QED BY <1>4, <1>5, <1>6, ZenonT(30) DEF Ended
(* A row stays a section of its file, which only grows. *)
LEMMA RowStays ==
    ASSUME PlaceInv, PlaceInv', [Next]_vars, NEW row, row.from \in Dirs,
           FromSection(row, Stats(row.from), feature_hash), feature_hash \subseteq feature_hash'
    PROVE  \A d : d = row.from => FromSection(row, Stats(d)', feature_hash')
<1> TAKE d
<1> HAVE d = row.from
<1>1. d \in Dirs /\ FromSection(row, Stats(d), feature_hash)
  OBVIOUS
<1>2. Len(Stats(d)) \in Nat /\ Len(Stats(d)') \in Nat /\ Before(Stats(d), Stats(d)')
  BY <1>1, StatsGrow, SMTT(30)
<1> QED BY <1>1, <1>2, FromMore

(* A row that is added is new: one with the same features would have been  *)
(* made of a section with the same statistics, thus with the same text.    *)
LEMMA AddsFile ==
    ASSUME LabelInv, ScanInv, RowInv, Adds
    PROVE  FileInv'
<1>1. PlaceInv /\ phase = "lines" /\ cur \in Dirs /\ FileInv
  BY ZenonT(30) DEF LabelInv, HeadingInv, PlaceInv, RowInv, Adds, EndLine, AtLine
<1>2. /\ data' = Append(data, Row) /\ feature_hash' = feature_hash \cup {feature_str}
      /\ feature_str \notin feature_hash
      /\ UNCHANGED <<setup, written, lines, cur, all_data>>
  BY Zenon DEF Adds, NewRow, EndLine, AtLine
<1>3. Row.feat = feat /\ Row.from = cur
  BY DEF Row
<1>4. lines \in Seq(Lines) /\ Len(lines) \in Nat
  BY <1>1, SMTT(30) DEF PlaceInv
<1>5. PICK b \in 1..Len(lines), e \in 1..Len(lines) :
        /\ Section(lines, b, e) /\ Graph(feat) = Entries(lines, b, e)
        /\ \A k \in b..e : lines[k].kind # "short"
        /\ Text(lines, b, e) = feature_str
  BY AddsSection, ZenonT(30) DEF LabelInv
<1>6. FromSection(Row, lines, feature_hash')
  BY <1>2, <1>3, <1>5 DEF FromSection
<1>7. \A d \in Dirs : Len(Stats(d)) \in Nat /\ Before(Stats(d), setup.sims[d].lines)
  BY <1>1, StatsWellFormed, SMTT(30)
<1>8. Before(lines, setup.sims[cur].lines)
  <2>1. setup.sims[cur].lines \in Seq(Lines)
    BY <1>1, TrainingAssumption, Zenon DEF PlaceInv, Dirs
  <2>2. Len(setup.sims[cur].lines) \in Nat
    BY <2>1, SMTT(30)
  <2> QED BY <1>1, <1>4, <1>7, <2>2, BeforeTrans, ZenonT(30) DEF FileInv
<1>9. ASSUME NEW row, NEW c \in Dirs, NEW s, Len(s) \in Nat, Before(s, setup.sims[c].lines),
             FromSection(row, s, feature_hash)
      PROVE  row.feat # Row.feat
  <2> SUFFICES ASSUME row.feat = feat PROVE FALSE
    BY <1>3, SMTT(30)
  <2>1. Graph(row.feat) = Entries(lines, b, e) /\ Section(lines, b, e)
    BY <1>5, Zenon
  <2>2. Text(lines, b, e) \in feature_hash
    BY <1>1, <1>4, <1>8, <1>9, <2>1, KnownRow, ZenonT(30)
  <2> QED BY <1>2, <1>5, <2>2, Zenon
<1>10. \A r \in DOMAIN data : data[r].feat # Row.feat
  BY <1>1, <1>4, <1>8, <1>9, ZenonT(30) DEF FileInv
<1>11. \A q \in DOMAIN all_data : all_data[q].feat # Row.feat
  <2> TAKE q \in DOMAIN all_data
  <2>1. all_data[q].from \in Dirs
        /\ FromSection(all_data[q], Stats(all_data[q].from), feature_hash)
    BY DEF RowInv, LabelInv, RightRows
  <2> QED BY <1>7, <1>9, <2>1, ZenonT(30)
<1>12. PICK S : data \in Seq(S)
  BY SMTT(30) DEF LabelInv, HeadingInv, Covers
<1>13. Distinct(data')
  BY <1>1, <1>2, <1>10, <1>12, DistinctAppend, ZenonT(30) DEF FileInv
<1>14. \A r \in DOMAIN data' : data'[r] = Row \/ (r \in DOMAIN data /\ data'[r] = data[r])
  BY <1>2, <1>12, AppendRows, ZenonT(30)
<1>15. Disjoint(all_data, data')
  BY <1>1, <1>11, <1>14, ZenonT(30) DEF FileInv, Disjoint
<1>16. ASSUME NEW r \in DOMAIN data'
       PROVE  data'[r].from = cur /\ FromSection(data'[r], lines, feature_hash')
  <2>1. CASE data'[r] = Row
    BY <1>3, <1>6, <2>1, ZenonT(30)
  <2>2. CASE r \in DOMAIN data /\ data'[r] = data[r]
    <3>1. data[r].from = cur /\ FromSection(data[r], lines, feature_hash)
      BY <1>1, <2>2, Zenon DEF FileInv
    <3>2. Before(lines, lines) /\ feature_hash \subseteq feature_hash'
      BY <1>2, <1>4, SMTT(30) DEF Before
    <3> QED BY <1>4, <2>2, <3>1, <3>2, FromMore, ZenonT(30)
  <2> QED BY <1>14, <2>1, <2>2, ZenonT(30)
<1>17. Before(lines', Stats(cur)')
  BY <1>1, <1>2, ZenonT(30) DEF FileInv, Stats
<1> QED BY <1>2, <1>13, <1>15, <1>16, <1>17, ZenonT(30) DEF FileInv, Distinct, Disjoint

LEMMA RowsStay ==
    ASSUME LabelInv, ScanInv, RowInv, LabelInv', [Next]_vars
    PROVE  RowInv'
<1>1. PlaceInv /\ PlaceInv' /\ setup' = setup /\ Dirs' = Dirs
  BY SetupStays, Zenon DEF LabelInv, HeadingInv, vars, Dirs
<1>2. feature_hash \subseteq feature_hash'
  BY RowSteps, Zenon DEF ReadContents, EndOfFile, Adds, NewRow, Quiet, setVars
<1>3. ASSUME NEW r \in DOMAIN all_data
      PROVE  FromSection(all_data[r], Stats(all_data[r].from), feature_hash)
             /\ all_data[r].from \in Dirs
  BY Zenon DEF RowInv, LabelInv, RightRows
<1>4. \A r \in DOMAIN all_data : \A d : d = all_data[r].from =>
          FromSection(all_data[r], Stats(d)', feature_hash')
  BY <1>1, <1>2, <1>3, RowStays, ZenonT(30)
<1>5. phase = "lines" => cur \in Dirs /\ FileInv
  BY <1>1, ZenonT(30) DEF PlaceInv, RowInv
<1>6. lines \in Seq(Lines) /\ Len(lines) \in Nat
  BY <1>1 DEF PlaceInv
<1>7. CASE UNCHANGED all_data
  <2>1. \A r \in DOMAIN all_data' :
          FromSection(all_data'[r], Stats(all_data[r].from)', feature_hash')
    BY <1>4, <1>7 DEF Stats
  <2>2. Distinct(all_data)'
    BY <1>7 DEF RowInv, Distinct
  <2>3. phase' = "lines" => FileInv'
    <3>1. CASE Quiet
      <4> SUFFICES ASSUME phase' = "lines" PROVE FileInv'
        OBVIOUS
      <4>1. cur \in Dirs /\ FileInv /\ UNCHANGED <<data, all_data, feature_hash, lines, cur>>
        BY <1>5, <3>1 DEF Quiet
      <4>2. Len(Stats(cur)) \in Nat
        BY <1>1, <4>1, StatsGrow
      <4>3. \A d \in Dirs : /\ Len(Stats(d)) \in Nat /\ Len(Stats(d)') \in Nat
                            /\ Before(Stats(d), Stats(d)')
        BY <1>1, StatsGrow, ZenonT(30)
      <4>4. \A d \in Dirs : d = cur => Before(lines, Stats(d)')
        BY <1>6, <4>1, <4>3, BeforeTrans DEF FileInv
      <4>5. Before(lines', Stats(cur)')
        BY <4>1, <4>4, ZenonT(30) DEF Stats
      <4> QED BY <4>1, <4>5, Zenon DEF FileInv, Distinct, Disjoint
    <3>2. CASE ReadContents
      <4>1. lines' = Stats(cur) /\ data' = <<>> /\ UNCHANGED <<setup, written, cur>>
        BY <3>2, ZenonT(30) DEF ReadContents
      <4>2. Stats(cur)' = Stats(cur)
        BY <4>1 DEF Stats
      <4>3. Before(lines', Stats(cur)')
        <5>1. lines' \in Seq(Lines)
          BY <1>1 DEF PlaceInv
        <5>2. lines' = Stats(cur)' /\ Len(lines') \in Nat
          BY <4>1, <4>2, <5>1
        <5>3. Before(lines', lines')
          BY <5>2 DEF Before
        <5> QED BY <5>2, <5>3, ZenonT(30)
      <4> QED BY <4>1, <4>3, SMTT(30) DEF FileInv, Distinct, Disjoint
    <3>3. CASE Adds
      BY <3>3, AddsFile
    <3>4. CASE EndOfFile
      BY <3>4 DEF EndOfFile
    <3> QED BY <3>1, <3>2, <3>3, <3>4, RowSteps, SMTT(30)
  <2> QED BY <2>1, <2>2, <2>3, ZenonT(30) DEF RowInv
<1>8. CASE EndOfFile
  <2>1. /\ all_data' = all_data \o data /\ phase = "lines" /\ phase' = "next"
        /\ UNCHANGED <<setup, written, feature_hash>>
    BY <1>8, ZenonT(30) DEF EndOfFile
  <2>2. PICK S, T : all_data \in Seq(S) /\ data \in Seq(T)
    BY DEF LabelInv, HeadingInv, Covers
  <2>3. Distinct(all_data) /\ Distinct(data) /\ Disjoint(all_data, data) /\ cur \in Dirs
    BY <1>5, <2>1 DEF FileInv, RowInv
  <2>4. Distinct(all_data \o data)
    BY <2>2, <2>3, DistinctConcat, ZenonT(30)
  <2>5. Distinct(all_data)'
    BY <2>1, <2>4 DEF Distinct
  <2>6. \A r \in DOMAIN data : /\ data[r].from = cur
                               /\ FromSection(data[r], Stats(cur), feature_hash)
    <3>1. Before(lines, Stats(cur)) /\ Len(Stats(cur)) \in Nat
      BY <1>1, <1>5, <2>1, StatsGrow, ZenonT(30) DEF FileInv
    <3> QED BY <1>5, <1>6, <2>1, <3>1, FromMore, ZenonT(30) DEF FileInv
  <2>7. \A r \in DOMAIN all_data' :
          \/ r \in DOMAIN all_data /\ all_data'[r] = all_data[r]
          \/ \E q \in DOMAIN data : all_data'[r] = data[q]
    <3>1. Joins(all_data \o data, all_data, data)
      BY <2>2, ConcatAll, Zenon
    <3>2. Joins(all_data', all_data, data)
      BY <2>1, <3>1, Zenon
    <3> QED BY <3>2, Zenon DEF Joins
  <2>8. \A r \in DOMAIN all_data' :
          FromSection(all_data'[r], Stats(all_data'[r].from), feature_hash)
    BY <1>3, <2>6, <2>7, SMTT(30)
  <2>9. \A r \in DOMAIN all_data' :
          FromSection(all_data'[r], Stats(all_data[r].from)', feature_hash')
    BY <2>1, <2>8, ZenonT(30) DEF Stats
  <2> QED BY <2>1, <2>5, <2>9 DEF RowInv
<1> QED BY <1>7, <1>8, RowSteps, ZenonT(30) DEF Quiet, ReadContents, setVars, Adds, EndLine, AtLine
---------------------------------------------------------------------------
(* The correct runs.  Their files do not change any more; those that are   *)
(* neither to be read nor being read have the texts of their sections in   *)
(* the hash, and the other directories are read when that is all of them.  *)
Counts(d, b, e) ==
    Section(Stats(d), b, e) /\ ~Broken(Stats(d), e) /\ Len(Stats(d)) <= SizeLimit
Reading == phase \in {"label", "load", "lines"}
Known(d) == \A b, e \in 1..Len(Stats(d)) : Counts(d, b, e) => Text(Stats(d), b, e) \in feature_hash
Apart(row) ==
    \A d \in correct : \A b, e \in 1..Len(Stats(d)) :
        Counts(d, b, e) => Graph(row.feat) # Entries(Stats(d), b, e)
Proper(row) == IF row.from \in correct THEN row.label = 0 ELSE Apart(row)

FirstInv ==
    /\ phase = "run" => correct = {}
    /\ correct \subseteq Dirs /\ \A d \in correct : Complete(d) /\ IsTrue(d)
    /\ \A d \in correct : d \in unread \/ (Reading /\ cur = d) \/ Known(d)
    /\ Reading /\ cur \notin correct => unread \cap correct = {}
    /\ phase \in {"load", "lines"} /\ cur \in correct => label = 0
    /\ phase = "lines" /\ cur \in correct => lines = Stats(cur)
    /\ phase = "lines" => \A r \in DOMAIN data : Proper(data[r])
    /\ \A r \in DOMAIN all_data : Proper(all_data[r])

(* A complete run writes nothing more. *)
LEMMA CompleteStays ==
    ASSUME LabelInv, [Next]_vars, phase # "run", NEW d \in Dirs, Complete(d)
    PROVE  /\ Complete(d)' /\ (IsTrue(d)' <=> IsTrue(d)) /\ Stats(d)' = Stats(d)
<1>1. setup' = setup /\ DOMAIN sim = Dirs /\ DOMAIN written = Dirs
  BY SetupStays, ZenonT(30) DEF LabelInv, HeadingInv, PlaceInv, vars, Dirs
<1>2. sim'[d] = sim[d] /\ written'[d] = written[d]
  <2>1. CASE UNCHANGED <<sim, written>>
    BY <2>1
  <2>2. ASSUME NEW e \in Dirs, Write(e) PROVE sim'[d] = sim[d] /\ written'[d] = written[d]
    BY <1>1, <2>2, ZenonT(30) DEF Write, Complete, runVars
  <2>3. ASSUME NEW e \in Dirs, Exit(e) PROVE sim'[d] = sim[d] /\ written'[d] = written[d]
    BY <1>1, <2>3, ZenonT(30) DEF Exit, Complete
  <2> QED BY <2>1, <2>2, <2>3, ZenonT(30) DEF Next, Runner, Launch, Return, Timeout, TimesOut, Processor,
           read_faults, NextDirectory, ReadTerminal, ReadContents, BeginLine, StatLine, ShortLine,
           EndLine, AtLine, EndOfFile, WriteCsv, Simulation, vars, runVars
<1> QED BY <1>1, <1>2, SMTT(30) DEF Complete, IsTrue, Terminal, Stats

(* The steps that matter to them. *)
Rest == /\ UNCHANGED <<correct, unread, cur, label, lines, data, all_data, feature_hash>>
        /\ \/ phase' = phase
           \/ phase = "next" /\ phase' \in {"csv", "KeyError"}

LEMMA FirstSteps ==
    ASSUME [Next]_vars, phase # "run"
    PROVE  \/ NextDirectory \/ ReadTerminal \/ ReadContents \/ EndOfFile
           \/ Adds /\ UNCHANGED <<correct, unread, cur, label, lines, all_data, phase>>
           \/ Rest
BY ZenonT(30) DEF Next, Runner, Launch, Return, Timeout, TimesOut, Processor, read_faults,
       BeginLine, StatLine, ShortLine, EndLine, AtLine, WriteCsv, Simulation,
       Write, Exit, fileVars, lineVars, setVars, vars, Adds, Rest

(* What was found of a correct run stays true. *)
LEMMA ProperStays ==
    ASSUME LabelInv, FirstInv, [Next]_vars, phase # "run", correct' = correct,
           feature_hash \subseteq feature_hash'
    PROVE  /\ \A d \in correct : Known(d) => Known(d)'
           /\ \A d \in correct : Complete(d)' /\ IsTrue(d)' /\ Stats(d)' = Stats(d)
           /\ \A row : Proper(row) => Proper(row)'
<1>1. \A d \in correct : Complete(d)' /\ IsTrue(d)' /\ Stats(d)' = Stats(d)
  BY CompleteStays, Zenon DEF FirstInv
<1>2. \A d \in correct : Known(d) => Known(d)'
  BY <1>1, ZenonT(30) DEF Known, Counts
<1>3. \A row : Apart(row) => Apart(row)'
  BY <1>1 DEF Apart, Counts
<1> QED BY <1>1, <1>2, <1>3 DEF Proper
(* A row is labelled 0 if the run is a correct one, and otherwise has the  *)
(* statistics of no section of a correct run: its text would be known.     *)
LEMMA AddsProper ==
    ASSUME LabelInv, ScanInv, RowInv, FirstInv, Adds
    PROVE  Proper(Row)
<1>1. PlaceInv /\ phase = "lines" /\ cur \in Dirs /\ FileInv /\ feature_str \notin feature_hash
  BY Zenon DEF LabelInv, HeadingInv, PlaceInv, RowInv, Adds, EndLine, AtLine, NewRow
<1>2. Row.feat = feat /\ Row.from = cur /\ (Row.label = 0 <=> label = 0)
  BY RowMeans, SMTT(30) DEF Row, LabelInv
<1>3. CASE cur \in correct
  BY <1>1, <1>2, <1>3, Zenon DEF FirstInv, Proper
<1>4. CASE cur \notin correct
  <2>1. \A d \in correct : Known(d) /\ d \in Dirs
    BY <1>1, <1>4, Zenon DEF FirstInv, Reading
  <2>2. lines \in Seq(Lines) /\ Len(lines) \in Nat
    BY <1>1, LenNat, Zenon DEF PlaceInv
  <2>3. PICK p \in 1..Len(lines), q \in 1..Len(lines) :
          /\ Section(lines, p, q) /\ Graph(feat) = Entries(lines, p, q)
          /\ Text(lines, p, q) = feature_str
    BY AddsSection, Zenon DEF LabelInv
  <2>4. \A d \in Dirs : Len(Stats(d)) \in Nat /\ Before(Stats(d), setup.sims[d].lines)
    BY <1>1, StatsWellFormed, SMTT(30)
  <2>5. Before(lines, setup.sims[cur].lines)
    <3>1. setup.sims[cur].lines \in Seq(Lines)
      BY <1>1, TrainingAssumption, Zenon DEF PlaceInv, Dirs
    <3>2. Len(setup.sims[cur].lines) \in Nat
      BY <3>1
    <3> QED BY <1>1, <2>2, <2>4, <3>2, BeforeTrans, ZenonT(30) DEF FileInv
  <2>6. ASSUME NEW d \in correct, NEW b \in 1..Len(Stats(d)), NEW e \in 1..Len(Stats(d)),
               Counts(d, b, e), Graph(feat) = Entries(Stats(d), b, e)
        PROVE  FALSE
    <3>1. /\ Section(Stats(d), b, e) /\ Entries(lines, p, q) = Entries(Stats(d), b, e)
          /\ Section(lines, p, q) /\ d \in Dirs
      BY <2>1, <2>3, <2>6, ZenonT(30) DEF Counts
    <3>2. Text(lines, p, q) = Text(Stats(d), b, e)
      <4>1. Part(lines, p, q) /\ Part(Stats(d), b, e)
        BY <2>6, <3>1, Zenon DEF Part
      <4>2. Agree(lines, p, q, Stats(d), b, e)
        BY <1>1, <2>2, <2>4, <2>5, <3>1, <4>1, AlikeText, Zenon
      <4> QED BY <3>1, <4>2, Zenon DEF Agree
    <3>3. Text(Stats(d), b, e) \in feature_hash
      BY <2>1, <2>6 DEF Known
    <3> QED BY <1>1, <2>3, <3>2, <3>3, ZenonT(30)
  <2>7. Apart(Row)
    BY <1>2, <2>6 DEF Apart
  <2> QED BY <1>2, <1>4, <2>7, SMTT(30) DEF Proper
<1> QED BY <1>3, <1>4, SMTT(30)

(* At the end of its file, a correct run is known. *)
LEMMA EndKnows ==
    ASSUME HeadingInv, ScanInv, phase = "lines", pos > Len(lines), lines = Stats(cur)
    PROVE  Known(cur)
<1>1. lines \in Seq(Lines) /\ pos \in 1..(Len(lines) + 1)
  BY DEF HeadingInv, PlaceInv
<1>2. Len(lines) = pos - 1
  BY <1>1
<1>3. Treated(lines, Len(lines), feature_hash)
  BY <1>2 DEF ScanInv, Scanned
<1> QED BY <1>3 DEF Treated, Known, Counts

(* The correct ones are read first; one that is not read has no sections   *)
(* that count.                                                             *)
LEMMA NextFirst ==
    ASSUME LabelInv, FirstInv, NextDirectory
    PROVE  \E d \in unread :
             /\ unread' = unread \ {d}
             /\ d \notin correct => unread \cap correct = {}
             /\ \/ cur' = d /\ phase' = "label"
                \/ UNCHANGED <<cur, phase>> /\ Known(d)
<1>1. PICK d \in Candidates :
        /\ unread' = unread \ {d}
        /\ \/ cur' = d /\ phase' = "label"
           \/ UNCHANGED <<cur, phase>> /\ (written[d] = 0 \/ Len(Stats(d)) > SizeLimit)
  BY DEF NextDirectory
<1>2. d \in unread /\ (d \notin correct => unread \cap correct = {})
  BY DEF Candidates
<1>3. ASSUME written[d] = 0 \/ Len(Stats(d)) > SizeLimit PROVE Known(d)
  <2>1. CASE written[d] = 0
    <3>1. Stats(d) = <<>> /\ Len(<<>>) = 0
      BY <2>1 DEF Stats
    <3>2. \A b \in 1..Len(Stats(d)) : FALSE
      BY <3>1
    <3> QED BY <3>2 DEF Known
  <2>2. CASE Len(Stats(d)) > SizeLimit
    <3>1. d \in Dirs /\ PlaceInv
      BY <1>2 DEF LabelInv, HeadingInv, PlaceInv
    <3>2. Len(Stats(d)) \in Nat
      BY <3>1, StatsWellFormed, LenNat, Zenon
    <3>3. ~(Len(Stats(d)) <= SizeLimit)
      <4>1. SizeLimit \in Nat
        BY TrainingAssumption, Zenon
      <4> QED BY <2>2, <3>2, <4>1, NotBelow, Zenon
    <3> QED BY <3>3, ZenonT(30) DEF Known, Counts
  <2> QED BY <1>3, <2>1, <2>2, ZenonT(30)
<1> QED BY <1>1, <1>2, <1>3, ZenonT(30)
LEMMA FirstStays ==
    ASSUME LabelInv, ScanInv, RowInv, FirstInv, [Next]_vars
    PROVE  FirstInv'
<1>1. PlaceInv /\ setup' = setup /\ Dirs' = Dirs
  BY SetupStays, ZenonT(30) DEF LabelInv, HeadingInv, vars, Dirs
<1>2. CASE phase = "run"
  <2>1. correct = {} /\ all_data = <<>>
    BY <1>2, SMTT(30) DEF FirstInv, LabelInv
  <2>2. CASE read_faults
    <3>1. /\ correct' \subseteq {d \in Dirs : Complete(d) /\ IsTrue(d)}
          /\ unread' = Dirs /\ phase' = "next" /\ all_data' = <<>>
          /\ UNCHANGED <<setup, sim, written>>
      BY <2>1, <2>2, SMTT(30) DEF read_faults, runVars, setVars
    <3>2. \A d \in correct' : Complete(d)' /\ IsTrue(d)'
      BY <3>1, ZenonT(30) DEF Complete, IsTrue, Terminal
    <3>3. correct' \subseteq Dirs'
      BY <1>1, <3>1, Zenon
    <3>4. \A d \in correct' : d \in unread'
      BY <3>1, Zenon
    <3>5. phase' # "run" /\ ~Reading' /\ phase' \notin {"load", "lines"}
      BY <3>1 DEF Reading
    <3>6. DOMAIN all_data' = {}
      BY <3>1
    <3> QED BY <3>2, <3>3, <3>4, <3>5, <3>6, Zenon DEF FirstInv
  <2>3. CASE phase' = "run" /\ UNCHANGED <<correct, all_data>>
    BY <2>1, <2>3, SMTT(30) DEF FirstInv, Reading
  <2> QED BY <1>2, <2>2, <2>3, ZenonT(30) DEF Next, Runner, Launch, Return, Timeout, Processor, NextDirectory,
       ReadTerminal, ReadContents, BeginLine, StatLine, ShortLine, EndLine, AtLine,
       EndOfFile, WriteCsv, Simulation, Write, Exit, setVars, vars
<1>3. CASE phase # "run"
  <2>1. correct' = correct /\ feature_hash \subseteq feature_hash' /\ phase' # "run"
    BY <1>3, FirstSteps, Zenon DEF NextDirectory, ReadTerminal, ReadContents, EndOfFile, Adds, Rest,
       NewRow, setVars
  <2>2. /\ \A d \in correct : Known(d) => Known(d)'
        /\ \A d \in correct : Complete(d)' /\ IsTrue(d)' /\ Stats(d)' = Stats(d)
        /\ \A row : Proper(row) => Proper(row)'
    BY <1>3, <2>1, ProperStays, SMTT(30)
  <2>3. \A d \in correct' : d \in unread' \/ (Reading' /\ cur' = d) \/ Known(d)'
    <3>1. CASE NextDirectory
      BY <2>1, <2>2, <3>1, NextFirst, Zenon DEF FirstInv, Reading, NextDirectory
    <3>2. CASE EndOfFile
      <4>1. phase = "lines" /\ pos > Len(lines) /\ UNCHANGED unread
        BY <3>2, ZenonT(30) DEF EndOfFile
      <4>2. cur \in correct => Known(cur)
        BY <4>1, EndKnows, SMTT(30) DEF FirstInv, LabelInv
      <4> QED BY <2>1, <2>2, <4>1, <4>2, Zenon DEF FirstInv
    <3>3. CASE UNCHANGED <<unread, cur>> /\ (Reading => Reading')
      BY <2>1, <2>2, <3>3, ZenonT(30) DEF FirstInv
    <3> QED BY <1>3, <3>1, <3>2, <3>3, FirstSteps, ZenonT(30) DEF ReadTerminal, ReadContents, Rest, Reading
  <2>4. Reading' /\ cur' \notin correct' => unread' \cap correct' = {}
    <3>1. CASE NextDirectory
      <4>1. phase = "next"
        BY <3>1, ZenonT(30) DEF NextDirectory
      <4> QED BY <2>1, <3>1, <4>1, NextFirst, ZenonT(30) DEF Reading
    <3>2. CASE UNCHANGED <<unread, cur>> /\ (Reading' => Reading)
      BY <2>1, <3>2 DEF FirstInv
    <3>3. CASE EndOfFile
      BY <3>3, SMTT(30) DEF EndOfFile, Reading
    <3> QED BY <1>3, <3>1, <3>2, <3>3, FirstSteps, ZenonT(30) DEF ReadTerminal, ReadContents, Rest, Reading
  <2>5. phase' \in {"load", "lines"} /\ cur' \in correct' => label' = 0
    <3>1. CASE ReadTerminal
      <4>1. label' = Label(cur) /\ cur' = cur
        BY <3>1, ZenonT(30) DEF ReadTerminal
      <4>2. cur \in correct => IsTrue(cur)
        BY SMTT(30) DEF FirstInv
      <4> QED BY <2>1, <4>1, <4>2, ZenonT(30) DEF Label
    <3>2. CASE UNCHANGED <<label, cur>> /\ (phase' \in {"load", "lines"} => phase \in {"load", "lines"})
      BY <2>1, <3>2, ZenonT(30) DEF FirstInv
    <3>3. CASE NextDirectory \/ EndOfFile
      BY <3>3, Zenon DEF EndOfFile, NextDirectory
    <3> QED BY <1>3, <3>1, <3>2, <3>3, FirstSteps, Zenon DEF ReadContents, Rest
  <2>6. phase' = "lines" /\ cur' \in correct' => lines' = Stats(cur)'
    <3>1. CASE ReadContents
      <4>1. lines' = Stats(cur) /\ UNCHANGED <<setup, written, cur>>
        BY <3>1, ZenonT(30) DEF ReadContents
      <4> QED BY <4>1 DEF Stats
    <3>2. CASE UNCHANGED <<lines, cur>> /\ (phase' = "lines" => phase = "lines")
      <4> SUFFICES ASSUME phase' = "lines", cur \in correct PROVE lines' = Stats(cur)'
        BY <2>1, <3>2, SMTT(30)
      <4>1. lines = Stats(cur) /\ \A d \in correct : Stats(d)' = Stats(d)
        BY <2>2, <3>2, Zenon DEF FirstInv
      <4>2. \A d \in correct : d = cur => lines' = Stats(d)'
        BY <3>2, <4>1, SMTT(30)
      <4> QED BY <3>2, <4>2, ZenonT(30) DEF Stats
    <3>3. CASE NextDirectory \/ EndOfFile \/ ReadTerminal
      BY <3>3, ZenonT(30) DEF EndOfFile, NextDirectory, ReadTerminal
    <3> QED BY <1>3, <3>1, <3>2, <3>3, FirstSteps, ZenonT(30) DEF Rest
  <2>7. phase' = "lines" => \A r \in DOMAIN data' : \A row : row = data'[r] => Proper(row)'
    <3>1. CASE ReadContents
      BY <3>1, SMTT(30) DEF ReadContents
    <3>2. CASE UNCHANGED data /\ (phase' = "lines" => phase = "lines")
      BY <2>2, <3>2, ZenonT(30) DEF FirstInv
    <3>3. CASE Adds
      <4>1. phase = "lines" /\ data' = Append(data, Row)
        BY <3>3, ZenonT(30) DEF Adds, EndLine, AtLine, NewRow
      <4>2. PICK S : data \in Seq(S)
        BY ZenonT(30) DEF LabelInv, HeadingInv, Covers
      <4>3. \A r \in DOMAIN data' : data'[r] = Row \/ (r \in DOMAIN data /\ data'[r] = data[r])
        BY <4>1, <4>2, AppendRows, SMTT(30)
      <4>4. Proper(Row) /\ \A r \in DOMAIN data : Proper(data[r])
        BY <3>3, <4>1, AddsProper, ZenonT(30) DEF FirstInv
      <4> QED BY <2>2, <4>3, <4>4, ZenonT(30)
    <3>4. CASE NextDirectory \/ EndOfFile \/ ReadTerminal
      BY <3>4, ZenonT(30) DEF EndOfFile, NextDirectory, ReadTerminal
    <3> QED BY <1>3, <3>1, <3>2, <3>3, <3>4, FirstSteps, ZenonT(30) DEF Rest
  <2>8. \A r \in DOMAIN all_data' : \A row : row = all_data'[r] => Proper(row)'
    <3>1. CASE UNCHANGED all_data
      BY <2>2, <3>1, ZenonT(30) DEF FirstInv
    <3>2. CASE EndOfFile
      <4>1. phase = "lines" /\ all_data' = all_data \o data
        BY <3>2, ZenonT(30) DEF EndOfFile
      <4>2. PICK S, T : all_data \in Seq(S) /\ data \in Seq(T)
        BY DEF LabelInv, HeadingInv, Covers
      <4>3. \A r \in DOMAIN all_data' :
              \/ r \in DOMAIN all_data /\ all_data'[r] = all_data[r]
              \/ \E q \in DOMAIN data : all_data'[r] = data[q]
        <5>1. Joins(all_data \o data, all_data, data)
          BY <4>2, ConcatAll, Zenon
        <5>2. Joins(all_data', all_data, data)
          BY <4>1, <5>1, Zenon
        <5> QED BY <5>2, Zenon DEF Joins
      <4>4. /\ \A r \in DOMAIN all_data : Proper(all_data[r])
            /\ \A r \in DOMAIN data : Proper(data[r])
        BY <4>1, SMTT(30) DEF FirstInv
      <4> QED BY <2>2, <4>3, <4>4, Zenon
    <3> QED BY <1>3, <3>1, <3>2, FirstSteps, ZenonT(30) DEF Rest, NextDirectory, ReadTerminal, ReadContents, setVars
  <2>9. /\ phase' = "lines" => \A r \in DOMAIN data' : Proper(data[r])'
        /\ \A r \in DOMAIN all_data' : Proper(all_data[r])'
    BY <2>7, <2>8, ZenonT(30) DEF Proper, Apart, Counts
  <2>10. correct' \subseteq Dirs' /\ \A d \in correct' : Complete(d)' /\ IsTrue(d)'
    BY <1>1, <2>1, <2>2, Zenon DEF FirstInv
  <2> QED BY <2>1, <2>3, <2>4, <2>5, <2>6, <2>9, <2>10, ZenonT(30) DEF FirstInv
<1> QED BY <1>2, <1>3, ZenonT(30)
---------------------------------------------------------------------------
LEMMA FirstInit ==
    ASSUME Init
    PROVE  LabelInv /\ ScanInv /\ RowInv /\ FirstInv
<1>1. LabelInv
  BY LabelInit
<1>2. ScanInv
  <2>1. /\ pos - 1 = 0 /\ skipped_warmup = FALSE /\ remove_this_input = FALSE
        /\ feat = <<>> /\ feature_str = <<>>
    BY DEF Init
  <2> QED BY <2>1, ScanStart, Zenon DEF ScanInv
<1>3. phase = "run" /\ all_data = <<>> /\ correct = {}
  BY DEF Init
<1>4. DOMAIN all_data = {}
  BY <1>3
<1>5. RowInv
  BY <1>3, <1>4, ZenonT(30) DEF RowInv, Distinct
<1>6. FirstInv
  BY <1>3, <1>4 DEF FirstInv, Reading
<1> QED BY <1>1, <1>2, <1>5, <1>6, ZenonT(30)

LEMMA FirstStep ==
    ASSUME LabelInv, ScanInv, RowInv, FirstInv, [Next]_vars
    PROVE  (LabelInv /\ ScanInv /\ RowInv /\ FirstInv)'
<1>1. LabelInv'
  BY LabelStep
<1>2. ScanInv'
  BY ScanStep DEF LabelInv
<1>3. RowInv'
  BY <1>1, RowsStay
<1>4. FirstInv'
  BY FirstStays
<1> QED BY <1>1, <1>2, <1>3, <1>4

(* At the end of a file read_stats has made a row of every whole section   *)
(* after the warm-up whose text the hash did not have, but for those at or *)
(* after a broken line: the flags and the text it keeps from one line to   *)
(* the next lose no other section, also of a file that is still growing.   *)
THEOREM NoSectionLost == Spec => []NothingLost
<1>1. LabelInv /\ ScanInv => NothingLost
  <2> SUFFICES ASSUME LabelInv, ScanInv, pos > Len(lines)
               PROVE  \A b, e \in DOMAIN lines : Section(lines, b, e) =>
                        Text(lines, b, e) \in feature_hash \/ Broken(lines, e)
    BY DEF NothingLost
  <2>1. lines \in Seq(Lines) /\ pos \in 1..(Len(lines) + 1)
    BY DEF LabelInv, HeadingInv, PlaceInv
  <2>2. Len(lines) = pos - 1 /\ DOMAIN lines = 1..Len(lines)
    BY <2>1
  <2>3. Treated(lines, Len(lines), feature_hash)
    BY <2>2 DEF ScanInv, Scanned
  <2> QED BY <2>2, <2>3 DEF Treated
<1> QED BY <1>1, FirstInit, FirstStep, PTL DEF Spec

(* The features of a row of the csv file are those of one whole section of *)
(* the statistics of its directory, after the warm-up and without a broken *)
(* line, wherever the simulation is cut off and however long it goes on    *)
(* writing while read_stats reads.                                         *)
THEOREM RowsFromSections == Spec => []RowsAreSections
<1>1. LabelInv /\ RowInv => RowsAreSections
  <2> SUFFICES ASSUME LabelInv, RowInv, NEW r \in DOMAIN all_data
               PROVE  \E b, e \in DOMAIN Stats(all_data[r].from) :
                        /\ Section(Stats(all_data[r].from), b, e)
                        /\ Graph(all_data[r].feat) = Entries(Stats(all_data[r].from), b, e)
                        /\ \A k \in b..e : Stats(all_data[r].from)[k].kind # "short"
    BY ZenonT(30) DEF RowsAreSections, Rows
  <2>1. all_data[r].from \in Dirs /\ PlaceInv
    BY SMTT(30) DEF LabelInv, HeadingInv, RightRows
  <2>2. Stats(all_data[r].from) \in Seq(Lines)
    BY <2>1, StatsWellFormed, Zenon
  <2>3. DOMAIN Stats(all_data[r].from) = 1..Len(Stats(all_data[r].from))
    BY <2>2
  <2> QED BY <2>3, ZenonT(30) DEF RowInv, FromSection
<1> QED BY <1>1, FirstInit, FirstStep, PTL DEF Spec

(* No two rows of the csv file have the same features: the hash of the     *)
(* text, kept over all the directories and faults, is enough for that, as  *)
(* the simulator writes its statistics always in the same order.           *)
THEOREM RowsAllDistinct == Spec => []RowsDistinct
<1>1. RowInv => RowsDistinct
  BY DEF RowInv, Distinct, RowsDistinct
<1> QED BY <1>1, FirstInit, FirstStep, PTL DEF Spec

(* In the csv file, a row with the statistics of a correct run is labelled *)
(* 0, also when faulty runs have the same ones: the directories of the     *)
(* list of correct runs are read before the others.                        *)
THEOREM CorrectRunsFirst == Spec => []CorrectFirst
<1>1. LabelInv /\ FirstInv => CorrectFirst
  <2> SUFFICES ASSUME LabelInv, FirstInv, NEW d \in correct,
                      NEW b \in DOMAIN Stats(d), NEW e \in DOMAIN Stats(d),
                      Section(Stats(d), b, e), ~Broken(Stats(d), e), Len(Stats(d)) <= SizeLimit,
                      NEW r \in DOMAIN all_data,
                      Graph(all_data[r].feat) = Entries(Stats(d), b, e)
               PROVE  all_data[r].label = 0
    BY ZenonT(30) DEF CorrectFirst, Rows
  <2>1. d \in Dirs /\ PlaceInv
    BY DEF LabelInv, HeadingInv, FirstInv
  <2>2. Stats(d) \in Seq(Lines)
    BY <2>1, StatsWellFormed, ZenonT(30)
  <2>3. b \in 1..Len(Stats(d)) /\ e \in 1..Len(Stats(d)) /\ Counts(d, b, e)
    BY <2>2 DEF Counts
  <2>4. ~Apart(all_data[r])
    BY <2>3, SMTT(30) DEF Apart
  <2>5. Proper(all_data[r])
    BY Zenon DEF FirstInv
  <2> QED BY <2>4, <2>5, ZenonT(30) DEF Proper
<1> QED BY <1>1, FirstInit, FirstStep, PTL DEF Spec
(* The scripts and the simulations stay within their states: the runner    *)
(* goes one past the last experiment at most, no simulation makes more     *)
(* writes than it has, and the label is 0 or the number of a fault.        *)
THEOREM TypeCorrect == Spec => []TypeOK
<1> DEFINE States == {"unborn", "running", "ended", "orphan", "gone"}
           Phases == {"run", "next", "label", "load", "lines", "csv", "KeyError"}
           Ranges == /\ i \in 1..(Len(setup.sims) + 1) /\ sim \in [Dirs -> States]
                     /\ phase \in Phases /\ label \in 0..4
           Inv == LabelInv /\ ScanInv /\ RowInv /\ FirstInv
<1>1. Init => Ranges
  <2> SUFFICES ASSUME Init PROVE Ranges
    BY SMTT(30)
  <2>1. Len(setup.sims) \in Nat
    BY TrainingAssumption, Zenon DEF Init
  <2> QED BY <2>1 DEF Init
<1>2. Inv /\ Ranges /\ [Next]_vars => Ranges'
  <2> SUFFICES ASSUME LabelInv, Ranges, [Next]_vars PROVE Ranges'
    OBVIOUS
  <2>1. setup' = setup /\ Dirs' = Dirs
    BY SetupStays, SMTT(30) DEF vars, Dirs
  <2>2. Dirs = 1..Len(setup.sims) /\ Len(setup.sims) \in Nat
    BY TrainingAssumption, ZenonT(30) DEF LabelInv, HeadingInv, PlaceInv, Dirs
  <2>3. i' \in 1..(Len(setup.sims) + 1)
    <3>1. CASE i' = i
      BY <3>1
    <3>2. CASE i \in Dirs /\ i' = i + 1
      BY <2>2, <3>2, SMTT(30)
    <3> QED BY <3>1, <3>2, ZenonT(30) DEF Next, Runner, Launch, Return, Timeout, TimesOut, Processor,
         read_faults, NextDirectory, ReadTerminal, ReadContents, BeginLine, StatLine, ShortLine,
         EndLine, AtLine, EndOfFile, WriteCsv, Simulation, Write, Exit, runVars, vars
  <2>4. sim' \in [Dirs -> States]
    <3>1. CASE sim' = sim
      BY <3>1
    <3>2. CASE \E d \in Dirs, x \in States : sim' = [sim EXCEPT ![d] = x]
      BY <3>2, ZenonT(30)
    <3>3. CASE Launch \/ Timeout
      BY <3>2, <3>3, ZenonT(30) DEF Launch, Timeout, TimesOut
    <3>4. ASSUME NEW d \in Dirs, Exit(d) PROVE sim' \in [Dirs -> States]
      BY <3>2, <3>4, ZenonT(30) DEF Exit
    <3> QED BY <3>1, <3>3, <3>4, ZenonT(30) DEF Next, Runner, Return, Processor, read_faults, NextDirectory,
         ReadTerminal, ReadContents, BeginLine, StatLine, ShortLine, EndLine, AtLine, EndOfFile,
         WriteCsv, Simulation, Write, runVars, vars
  <2>5. phase' \in Phases
    BY ZenonT(60) DEF Next, Runner, Launch, Return, Timeout, Processor, read_faults, NextDirectory,
         ReadTerminal, ReadContents, BeginLine, StatLine, ShortLine, EndLine, AtLine, EndOfFile,
         WriteCsv, Simulation, Write, Exit, vars
  <2>6. label' \in 0..4
    <3>1. CASE ReadTerminal
      <4>1. setup.sims[cur].fault \in 1..4
        BY <3>1, TrainingAssumption, ZenonT(60) DEF ReadTerminal, LabelInv, HeadingInv, PlaceInv, Dirs
      <4>2. Label(cur) \in 0..4
        BY <4>1 DEF Label
      <4> QED BY <3>1, <4>2, ZenonT(30) DEF ReadTerminal
    <3>2. CASE UNCHANGED label
      BY <3>2, ZenonT(30)
    <3> QED BY <3>1, <3>2, ZenonT(60) DEF Next, Runner, Launch, Return, Timeout, Processor, read_faults,
         NextDirectory, ReadContents, BeginLine, StatLine, ShortLine, EndLine, AtLine, EndOfFile,
         WriteCsv, Simulation, Write, Exit, fileVars, vars
  <2> QED BY <2>1, <2>3, <2>4, <2>5, <2>6, ZenonT(30)
<1>3. Inv /\ Ranges => TypeOK
  BY DEF LabelInv, HeadingInv, PlaceInv, ScanInv, Scanned, FirstInv, TypeOK
<1>4. Init => Inv
  BY FirstInit
<1>5. Inv /\ [Next]_vars => Inv'
  BY FirstStep
<1> HIDE DEF Inv, Ranges
<1> QED BY <1>1, <1>2, <1>3, <1>4, <1>5, PTL DEF Spec

=============================================================================
