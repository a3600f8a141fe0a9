---------------------------- MODULE Effects_proofs ----------------------------
(***************************************************************************)
(* Manifest for values of every width; and what the reader makes of a      *)
(* fault file, what the queues hold and what a strike alters, for every    *)
(* program, ISA and fault file.                                            *)
(***************************************************************************)
EXTENDS Effects, FaultFile_proofs, TLAPS

(* Functions that agree everywhere are equal. *)
LEMMA SameFunction ==
    ASSUME NEW S, NEW T, NEW f \in [S -> T], NEW g \in [S -> T],
           \A x \in S : f[x] = g[x]
    PROVE  f = g
  OBVIOUS

LEMMA SameByte ==
    ASSUME NEW x \in Byte, NEW y \in Byte,
           \A k \in 0..(ByteBits - 1) : x[k] = y[k]
    PROVE  x = y
<1> DEFINE S == 0..(ByteBits - 1)
           T == {0, 1}
<1>1. x \in [S -> T] /\ y \in [S -> T] /\ \A k \in S : x[k] = y[k]
  BY DEF Byte
<1> HIDE DEF S, T
<1> QED BY <1>1, SameFunction

(* A bit number within the structure has its byte and bit in it. *)
LEMMA BitPlace ==
    ASSUME NEW n \in Nat, NEW out \in 1..Bits(n)
    PROVE  /\ (out - 1) \div ByteBits \in 0..(n - 1)
           /\ (out - 1) % ByteBits \in 0..(ByteBits - 1)
<1> DEFINE B == ByteBits
           q == (out - 1) \div B
           r == (out - 1) % B
<1>1. B \in Nat \ {0} /\ out - 1 \in Nat /\ out - 1 < n * B
  BY ManifestAssumption DEF Bits
<1>2. q \in Int /\ r \in 0..(B - 1) /\ out - 1 = B * q + r
  BY <1>1
<1>3. q >= 0
  BY <1>1, <1>2
<1>4. q < n
  BY <1>1, <1>2
<1> QED BY <1>2, <1>3, <1>4

(* FLIP inverts the bit it is given, counted from 1, and leaves every      *)
(* other bit of the structure as it was, for every width.                  *)
THEOREM FlipOneBit ==
    ASSUME NEW n \in Nat, NEW in \in Value(n), NEW out \in 1..Bits(n)
    PROVE  /\ FLIP(in, n, out) \in Value(n)
           /\ \A i \in 0..(n - 1), k \in 0..(ByteBits - 1) :
                FLIP(in, n, out)[i][k] =
                    IF i = (out - 1) \div ByteBits /\ k = (out - 1) % ByteBits
                    THEN 1 - in[i][k] ELSE in[i][k]
<1> DEFINE q == (out - 1) \div ByteBits
           r == (out - 1) % ByteBits
<1>1. q \in 0..(n - 1) /\ r \in 0..(ByteBits - 1)
  BY BitPlace
<1>2. out # 0 /\ ~(q > n - 1)
  BY <1>1, ManifestAssumption DEF Bits
<1>3. FLIP(in, n, out) = [in EXCEPT ![q][r] = 1 - @]
  BY <1>2 DEF FLIP
<1>4. in[q] \in Byte /\ in[q][r] \in {0, 1}
  BY <1>1, Zenon DEF Value, Byte
<1> HIDE DEF q, r
<1>5. [in[q] EXCEPT ![r] = 1 - @] \in Byte
  BY <1>1, <1>4 DEF Byte
<1>6. FLIP(in, n, out) \in Value(n)
  BY <1>1, <1>3, <1>5 DEF Value
<1>7. ASSUME NEW i \in 0..(n - 1), NEW k \in 0..(ByteBits - 1)
      PROVE  FLIP(in, n, out)[i][k] =
                IF i = q /\ k = r THEN 1 - in[i][k] ELSE in[i][k]
  <2> DEFINE byte == [in[q] EXCEPT ![r] = 1 - @]
  <2>1. FLIP(in, n, out)[i] = IF i = q THEN byte ELSE in[i]
    BY <1>1, <1>3 DEF Value
  <2>2. byte[k] = IF k = r THEN 1 - in[q][k] ELSE in[q][k]
    BY <1>1, <1>4, Zenon DEF Byte
  <2> HIDE DEF byte
  <2> QED BY <2>1, <2>2
<1> QED BY <1>6, <1>7 DEF q, r

(* A bit number beyond the structure, or 0, leaves it as it was. *)
THEOREM FlipOutside ==
    ASSUME NEW n \in Nat, NEW in \in Value(n), NEW out \in Nat,
           out = 0 \/ out > Bits(n)
    PROVE  FLIP(in, n, out) = in
<1> DEFINE q == (out - 1) \div ByteBits
<1>1. CASE out = 0
  BY <1>1 DEF FLIP
<1>2. CASE out > Bits(n)
  <2>1. ByteBits \in Nat \ {0} /\ out - 1 \in Nat /\ out - 1 >= n * ByteBits
    BY <1>2, ManifestAssumption DEF Bits
  <2>2. q \in Int /\ (out - 1) % ByteBits \in 0..(ByteBits - 1)
        /\ out - 1 = ByteBits * q + ((out - 1) % ByteBits)
    BY <2>1
  <2>3. q > n - 1
    BY <2>1, <2>2
  <2> QED BY <2>3 DEF FLIP
<1> QED BY <1>1, <1>2

(* Two strikes of one Flip fault on a value cancel out: an intermittent    *)
(* fault that meets the same value twice restores it.                      *)
THEOREM FlipTwice ==
    ASSUME NEW n \in Nat, NEW in \in Value(n), NEW out \in Nat
    PROVE  FLIP(FLIP(in, n, out), n, out) = in
<1>1. CASE out = 0 \/ out > Bits(n)
  BY <1>1, FlipOutside
<1>2. CASE out \in 1..Bits(n)
  <2> DEFINE once == FLIP(in, n, out)
             twice == FLIP(once, n, out)
  <2>1. once \in Value(n)
    BY <1>2, FlipOneBit
  <2>2. twice \in Value(n)
    BY <1>2, <2>1, FlipOneBit
  <2>3. ASSUME NEW i \in 0..(n - 1), NEW k \in 0..(ByteBits - 1)
        PROVE  twice[i][k] = in[i][k]
    <3>1. in[i][k] \in {0, 1}
      BY Zenon DEF Value, Byte
    <3>2. once[i][k] = IF i = (out - 1) \div ByteBits /\ k = (out - 1) % ByteBits
                       THEN 1 - in[i][k] ELSE in[i][k]
      BY <1>2, FlipOneBit
    <3>3. twice[i][k] = IF i = (out - 1) \div ByteBits /\ k = (out - 1) % ByteBits
                        THEN 1 - once[i][k] ELSE once[i][k]
      BY <1>2, <2>1, FlipOneBit
    <3> QED BY <3>1, <3>2, <3>3
  <2> HIDE DEF once, twice
  <2>4. ASSUME NEW i \in 0..(n - 1) PROVE twice[i] = in[i]
    <3>1. twice[i] \in Byte /\ in[i] \in Byte
      BY <2>2 DEF Value
    <3>2. \A k \in 0..(ByteBits - 1) : twice[i][k] = in[i][k]
      BY <2>3
    <3> QED BY <3>1, <3>2, SameByte, Zenon
  <2>5. twice = in
    BY <2>2, <2>4 DEF Value
  <2> QED BY <2>5 DEF once, twice
<1>3. Bits(n) \in Nat
  BY ManifestAssumption DEF Bits
<1> QED BY <1>1, <1>2, <1>3

---------------------------------------------------------------------------
(* The conjuncts of the inductive invariant: a decoded instruction has its *)
(* page, and the entries of instMap and of the history hits correspond.    *)
CacheShape ==
    /\ stage = "decoded" => cur.addr \in DOMAIN pages
    /\ DOMAIN hits = DOMAIN instMap
    /\ \A inst \in DOMAIN hits : hits[inst] \in Nat

(* BasicDecodeCache::decode hands an instruction that no decode fault has  *)
(* struck out as the ISA decodes it, whatever struck other instructions.   *)
UnstruckPristine ==
    \A inst \in DOMAIN instMap : hits[inst] = 0 => instMap[inst] = decodeInst(inst)

CacheInv == CacheShape /\ DecodesAsFetched /\ UnstruckPristine

LEMMA DecodeKeepsCache ==
    ASSUME CacheInv, Decode
    PROVE  CacheInv'
<1> USE DEF CacheInv, CacheShape, DecodesAsFetched, UnstruckPristine
<1>1. stage' = "decoded" /\ cur' = cur
  BY DEF Decode
<1>2. CASE PageHit(cur.addr, cur.inst)
  BY <1>1, <1>2 DEF Decode, PageHit
<1>3. CASE ~PageHit(cur.addr, cur.inst)
  <2>1. pages' = Extend(pages, cur.addr, cur.inst)
    BY <1>3 DEF Decode
  <2>2. cur'.addr \in DOMAIN pages' /\ pages'[cur'.addr] = cur'.inst
    <3>1. cur.addr \in DOMAIN pages' /\ pages'[cur.addr] = cur.inst
      BY <2>1 DEF Extend
    <3> QED BY <1>1, <3>1
  <2>3. CASE cur.inst \in DOMAIN instMap
    <3>1. UNCHANGED <<instMap, hits>>
      BY <1>3, <2>3 DEF Decode
    <3> QED BY <1>1, <2>2, <3>1 DEF decodeInst
  <2>4. CASE cur.inst \notin DOMAIN instMap
    <3>1. /\ instMap' = Extend(instMap, cur.inst, decodeInst(cur.inst))
          /\ hits' = Extend(hits, cur.inst, 0)
      BY <1>3, <2>4 DEF Decode
    <3>2. /\ DOMAIN instMap' = DOMAIN instMap \cup {cur.inst}
          /\ instMap'[cur.inst] = decodeInst(cur.inst)
          /\ \A y \in DOMAIN instMap : y # cur.inst => instMap'[y] = instMap[y]
      BY <3>1 DEF Extend
    <3>3. /\ DOMAIN hits' = DOMAIN hits \cup {cur.inst}
          /\ hits'[cur.inst] = 0
          /\ \A y \in DOMAIN hits : y # cur.inst => hits'[y] = hits[y]
      BY <3>1 DEF Extend
    <3>4. DOMAIN hits' = DOMAIN instMap' /\ \A y \in DOMAIN hits' : hits'[y] \in Nat
      BY <3>2, <3>3
    <3>5. \A y \in DOMAIN instMap' : hits'[y] = 0 => instMap'[y] = decodeInst(y)
      BY <2>4, <3>2, <3>3
    <3>6. UnstruckPristine'
      BY <3>5 DEF decodeInst
    <3> QED BY <1>1, <2>2, <3>4, <3>6
  <2> QED BY <2>3, <2>4
<1> QED BY <1>2, <1>3

LEMMA StrikeKeepsCache ==
    ASSUME CacheInv, NEW i \in DOMAIN faults, StrikeDecode(i)
    PROVE  CacheInv'
<1> DEFINE inst == pages[cur.addr]
           side == faults[i].extra.side
           regs == instMap[inst][side]
<1> USE DEF CacheInv, CacheShape, DecodesAsFetched, UnstruckPristine
<1>1. UNCHANGED <<stage, cur, pages>>
  BY Zenon DEF StrikeDecode
<1>2. CASE regs = <<>>
  <2>1. UNCHANGED <<instMap, hits>>
    BY <1>2 DEF StrikeDecode
  <2> QED BY <1>1, <2>1
<1>3. CASE regs # <<>>
  <2>1. PICK at, reg : instMap' = [instMap EXCEPT ![inst][side][at] = reg]
    BY <1>3, ZenonT(30) DEF StrikeDecode
  <2>2. hits' = [hits EXCEPT ![inst] = @ + 1]
    BY <1>3, Zenon DEF StrikeDecode
  <2>3. DOMAIN hits' = DOMAIN hits /\ DOMAIN instMap' = DOMAIN instMap
    BY <2>1, <2>2
  <2>4. \A x \in DOMAIN hits' : hits'[x] \in Nat /\ (x = inst => hits'[x] # 0)
    BY <2>2
  <2>5. \A x \in DOMAIN instMap' : x # inst => instMap'[x] = instMap[x] /\ hits'[x] = hits[x]
    BY <2>1, <2>2
  <2>6. UnstruckPristine'
    BY <2>3, <2>4, <2>5 DEF decodeInst
  <2> QED BY <1>1, <2>3, <2>4, <2>6, SMTT(30)
<1> QED BY <1>2, <1>3, SMTT(30)

LEMMA CacheInit == Init => CacheInv
  BY DEF Init, CacheInv, CacheShape, DecodesAsFetched, UnstruckPristine

LEMMA CacheStep ==
    ASSUME CacheInv, [Next]_vars
    PROVE  CacheInv'
<1>1. ASSUME UNCHANGED <<pages, instMap, hits>>,
             stage' # "decoded" \/ (stage' = stage /\ cur' = cur)
      PROVE  CacheInv'
  BY <1>1 DEF CacheInv, CacheShape, DecodesAsFetched, UnstruckPristine, decodeInst
<1>2. CASE (ReadFault /\ UNCHANGED cpuVars) \/ UNCHANGED vars
  BY <1>1, <1>2 DEF cpuVars, vars
<1>3. ASSUME NEW a \in DOMAIN Program, Fetch(a) PROVE CacheInv'
  BY <1>1, <1>3 DEF Fetch
<1>4. ASSUME NEW i \in DOMAIN faults, StrikeFetch(i) PROVE CacheInv'
  BY <1>1, <1>4 DEF StrikeFetch
<1>5. ASSUME NEW i \in DOMAIN faults, StrikeOperand(i) PROVE CacheInv'
  BY <1>1, <1>5 DEF StrikeOperand
<1>6. ASSUME NEW hook, NEW type, NEW x, Operand(hook, type, x) PROVE CacheInv'
  BY <1>1, <1>6 DEF Operand
<1>7. CASE Retire
  BY <1>1, <1>7 DEF Retire
<1> QED BY <1>2, <1>3, <1>4, <1>5, <1>6, <1>7, DecodeKeepsCache, StrikeKeepsCache DEF Next

(* The processor executes what was fetched: for every program, ISA and     *)
(* fault file, the decode cache never hands out the instruction an earlier *)
(* fetch fault left at the address; and a decode fault never alters an     *)
(* instruction other than the ones it strikes.                             *)
THEOREM CacheSound == Spec => [](DecodesAsFetched /\ UnstruckPristine)
<1>1. CacheInv => DecodesAsFetched /\ UnstruckPristine
  BY DEF CacheInv
<1> QED BY <1>1, CacheInit, CacheStep, PTL DEF Spec

---------------------------------------------------------------------------
LEMMA BytesType ==
    ASSUME NEW x \in Nat, NEW n \in Nat
    PROVE  Bytes(x, n) \in Value(n)
<1>1. \A k \in Nat : Bit(x, k) \in {0, 1}
  BY DEF Bit
<1>2. \A i \in 0..(n - 1), k \in 0..(ByteBits - 1) : Bits(i) + k \in Nat
  BY ManifestAssumption DEF Bits
<1> QED BY <1>1, <1>2 DEF Bytes, Value, Byte

(* Both loops of XOR and IMMD stay within the operand. *)
LEMMA PartnerIn ==
    ASSUME NEW n \in 0..WordBytes, NEW i \in 0..(n - 1)
    PROVE  Partner(i, n) \in 0..(WordBytes - 1)
  BY ManifestAssumption DEF Partner

(* The values faults carry: parseWhat asserts on any other. *)
Sound(f) ==
    /\ f.what \in {"Immd", "Mask", "Flip", "All"}
    /\ f.value \in Nat /\ (f.what = "All" => f.value \in {0, 1})

LEMMA FlipByte ==
    ASSUME NEW x \in Byte, NEW r
    PROVE  [x EXCEPT ![r] = 1 - @] \in Byte
<1>1. \A k \in 0..(ByteBits - 1) : x[k] \in {0, 1} /\ 1 - x[k] \in {0, 1}
  BY DEF Byte
<1>2. DOMAIN x = 0..(ByteBits - 1)
  BY DEF Byte
<1>3. [x EXCEPT ![r] = 1 - @] = [k \in 0..(ByteBits - 1) |-> IF k = r THEN 1 - x[k] ELSE x[k]]
  BY <1>2, Zenon
<1> QED BY <1>1, <1>3, Zenon DEF Byte

(* Whatever a fault does to a value of n bytes, it stays one. *)
LEMMA ManifestType ==
    ASSUME NEW n \in 0..WordBytes, NEW in \in Value(n), NEW f, Sound(f)
    PROVE  manifest(in, n, f.value, f.what) \in Value(n)
<1> DEFINE v == f.value
<1>1. v \in Nat
  BY DEF Sound
<1>2. Bytes(v, WordBytes) \in Value(WordBytes) /\ n \in Nat
  BY <1>1, BytesType, ManifestAssumption
<1>3. \A i \in 0..(n - 1) : Bytes(v, WordBytes)[Partner(i, n)] \in Byte
  BY <1>2, PartnerIn, Zenon DEF Value
<1>4. \A x, y \in Byte : XorByte(x, y) \in Byte
  BY DEF Byte, XorByte
<1>5. CASE f.what = "Immd"
  <2>1. IMMD(in, n, v) \in Value(n)
    BY <1>3 DEF IMMD, Value
  <2> QED BY <1>5, <2>1 DEF manifest
<1>6. CASE f.what = "Mask"
  <2>1. \A i \in 0..(n - 1) : in[i] \in Byte
    BY DEF Value
  <2>2. XOR(in, n, v) \in Value(n)
    BY <1>3, <1>4, <2>1 DEF XOR, Value
  <2> QED BY <1>6, <2>2 DEF manifest
<1>7. CASE f.what = "All"
  <2>1. v \in {0, 1}
    BY <1>7 DEF Sound
  <2>2. ALL(in, n, v) \in Value(n)
    BY <2>1 DEF ALL, Value, Byte
  <2> QED BY <1>7, <2>2 DEF manifest
<1>8. CASE f.what = "Flip"
  <2> DEFINE q == (v - 1) \div ByteBits
             r == (v - 1) % ByteBits
  <2>1. FLIP(in, n, v) \in {in, [in EXCEPT ![q][r] = 1 - @]}
    BY DEF FLIP
  <2>2. ASSUME NEW x \in Byte PROVE [x EXCEPT ![r] = 1 - @] \in Byte
    BY FlipByte
  <2> HIDE DEF q, r
  <2>3. [in EXCEPT ![q][r] = 1 - @] \in Value(n)
    BY <2>2, Zenon DEF Value
  <2> QED BY <1>8, <2>1, <2>3 DEF manifest
<1> QED BY <1>5, <1>6, <1>7, <1>8 DEF Sound

(* Where a bit of the value lies. *)
LEMMA FlatPlace ==
    ASSUME NEW n \in Nat, NEW k \in 0..(Bits(n) - 1)
    PROVE  /\ k \div ByteBits \in 0..(n - 1) /\ k % ByteBits \in 0..(ByteBits - 1)
           /\ k = Bits(k \div ByteBits) + (k % ByteBits)
<1>1. Bits(n) \in Nat
  BY ManifestAssumption DEF Bits
<1>2. k + 1 \in 1..Bits(n) /\ (k + 1) - 1 = k
  BY <1>1
<1>3. k \div ByteBits \in 0..(n - 1) /\ k % ByteBits \in 0..(ByteBits - 1)
  BY <1>2, BitPlace
<1>4. k = ByteBits * (k \div ByteBits) + (k % ByteBits)
  BY <1>1, ManifestAssumption
<1> QED BY <1>3, <1>4, ManifestAssumption DEF Bits

LEMMA FlipBit ==
    ASSUME NEW n \in Nat, NEW in \in Value(n), NEW v \in Nat, NEW k \in 0..(Bits(n) - 1)
    PROVE  FlatBit(FLIP(in, n, v), k) =
             IF k + 1 = v THEN 1 - FlatBit(in, k) ELSE FlatBit(in, k)
<1> DEFINE q == k \div ByteBits
           r == k % ByteBits
<1>1. q \in 0..(n - 1) /\ r \in 0..(ByteBits - 1) /\ k = Bits(q) + r
  BY FlatPlace
<1>2. Bits(n) \in Nat
  BY ManifestAssumption DEF Bits
<1>3. CASE v = 0 \/ v > Bits(n)
  <2>1. FLIP(in, n, v) = in /\ k + 1 # v
    BY <1>2, <1>3, FlipOutside
  <2> QED BY <2>1
<1>4. CASE v \in 1..Bits(n)
  <2>1. v - 1 \in 0..(Bits(n) - 1)
    BY <1>2, <1>4
  <2>2. v - 1 = Bits((v - 1) \div ByteBits) + ((v - 1) % ByteBits)
    BY <2>1, FlatPlace
  <2>3. FLIP(in, n, v)[q][r] = IF q = (v - 1) \div ByteBits /\ r = (v - 1) % ByteBits
                               THEN 1 - in[q][r] ELSE in[q][r]
    BY <1>1, <1>4, FlipOneBit
  <2>4. q = (v - 1) \div ByteBits /\ r = (v - 1) % ByteBits <=> k = v - 1
    BY <1>1, <2>2
  <2>5. k = v - 1 <=> k + 1 = v
    BY <1>2, <1>4
  <2> QED BY <2>3, <2>4, <2>5 DEF FlatBit
<1> QED BY <1>2, <1>3, <1>4

(* The bit of the operand that meets bit k of the value. *)
LEMMA OperandBit ==
    ASSUME NEW n \in 0..WordBytes, NEW v \in Nat, NEW k \in 0..(Bits(n) - 1)
    PROVE  Bytes(v, WordBytes)[Partner(k \div ByteBits, n)][k % ByteBits] =
             Bit(v, k + Bits(WordBytes - n))
<1> DEFINE q == k \div ByteBits
           r == k % ByteBits
<1>1. q \in 0..(n - 1) /\ r \in 0..(ByteBits - 1) /\ k = Bits(q) + r
  BY FlatPlace, ManifestAssumption
<1>2. Partner(q, n) \in 0..(WordBytes - 1)
  BY <1>1, PartnerIn
<1> HIDE DEF q, r
<1>3. Bytes(v, WordBytes)[Partner(q, n)][r] = Bit(v, Bits(Partner(q, n)) + r)
  BY <1>1, <1>2 DEF Bytes
<1>4. Bits(Partner(q, n)) + r = k + Bits(WordBytes - n)
  BY <1>1, ManifestAssumption, SMTT(30) DEF Partner, Bits
<1> QED BY <1>3, <1>4 DEF q, r

LEMMA ManifestBits ==
    ASSUME NEW n \in 0..WordBytes, NEW in \in Value(n), NEW f, Sound(f),
           NEW k \in 0..(Bits(n) - 1)
    PROVE  LET bit == FlatBit(in, k)
               other == Bit(f.value, k + Bits(WordBytes - n))
               after == FlatBit(manifest(in, n, f.value, f.what), k)
           IN /\ f.what = "Immd" => after = other
              /\ f.what = "Mask" => after = (bit + other) % 2
              /\ f.what = "All" => after = f.value
              /\ f.what = "Flip" => after = IF k + 1 = f.value THEN 1 - bit ELSE bit
<1> DEFINE v == f.value
           q == k \div ByteBits
           r == k % ByteBits
           other == Bit(v, k + Bits(WordBytes - n))
<1>1. v \in Nat /\ n \in Nat
  BY ManifestAssumption DEF Sound
<1>2. q \in 0..(n - 1) /\ r \in 0..(ByteBits - 1)
  BY <1>1, FlatPlace
<1>3. Bytes(v, WordBytes)[Partner(q, n)][r] = other
  BY <1>1, OperandBit
<1>4. other \in {0, 1}
  <2>1. Bytes(v, WordBytes) \in Value(WordBytes)
    BY <1>1, BytesType, ManifestAssumption
  <2>2. Partner(q, n) \in 0..(WordBytes - 1)
    BY <1>2, PartnerIn
  <2>3. Bytes(v, WordBytes)[Partner(q, n)] \in Byte
    BY <2>1, <2>2, Zenon DEF Value
  <2> QED BY <1>2, <1>3, <2>3, Zenon DEF Byte
<1>5. in[q] \in Byte /\ in[q][r] \in {0, 1} /\ DOMAIN in[q] = 0..(ByteBits - 1)
  BY <1>2, Zenon DEF Value, Byte
<1> HIDE DEF v, other
<1>6. CASE f.what = "Immd"
  <2>1. IMMD(in, n, v)[q][r] = other
    BY <1>2, <1>3 DEF IMMD
  <2> QED BY <1>6, <2>1 DEF manifest, FlatBit, v, other
<1>7. CASE f.what = "Mask"
  <2>1. XOR(in, n, v)[q] = XorByte(in[q], Bytes(v, WordBytes)[Partner(q, n)])
    BY <1>2 DEF XOR
  <2>2. XOR(in, n, v)[q][r] = IF in[q][r] = other THEN 0 ELSE 1
    BY <1>2, <1>3, <1>5, <2>1, SMTT(30) DEF XorByte
  <2>3. XOR(in, n, v)[q][r] = (in[q][r] + other) % 2
    BY <1>4, <1>5, <2>2
  <2> QED BY <1>7, <2>3 DEF manifest, FlatBit, v, other
<1>8. CASE f.what = "All"
  <2>1. ALL(in, n, v)[q][r] = v
    BY <1>2 DEF ALL
  <2> QED BY <1>8, <2>1 DEF manifest, FlatBit, v
<1>9. CASE f.what = "Flip"
  <2>1. FlatBit(FLIP(in, n, v), k) = IF k + 1 = v THEN 1 - FlatBit(in, k) ELSE FlatBit(in, k)
    BY <1>1, FlipBit
  <2> QED BY <1>9, <2>1 DEF manifest, v
<1> QED BY <1>6, <1>7, <1>8, <1>9 DEF Sound

---------------------------------------------------------------------------
(* What getFromFile has made of the file when it is done. *)
AsRead ==
    \/ \E fs \in Handouts :
        input = Handed(fs) /\ faults = MadeAll(Meant(fs)[Len(fs)])
    \/ \E f \in PythonFaults(PythonBits) :
        input = PythonFile(f) /\ faults = <<Made(f, Unread)>>

(* The inductive invariant of the reader. *)
ReaderInv ==
    /\ executed \in Nat /\ good \in BOOLEAN /\ ~rejected
    /\ good => /\ stage = "fetch" /\ executed = 0
               /\ \/ \E fs \in Handouts : input = Handed(fs) /\ Reading(fs)
                  \/ \E f \in PythonFaults(PythonBits) :
                        input = PythonFile(f) /\ rest = Line(f) /\ faults = <<>>
    /\ ~good /\ stage = "fetch" /\ executed = 0 => AsRead

LEMMA ReaderInit == Init => ReaderInv
<1> SUFFICES ASSUME Init PROVE ReaderInv
  OBVIOUS
<1>1. /\ executed = 0 /\ good = TRUE /\ rejected = FALSE /\ stage = "fetch"
      /\ faults = <<>> /\ rest = input.tokens /\ check = "none" /\ input \in Texts
  BY DEF Init, FileInit
<1>2. CASE \E fs \in Handouts : input = Handed(fs)
  <2>1. PICK fs \in Handouts : input = Handed(fs)
    BY <1>2
  <2> DEFINE V == Vocabulary(fs)
             d == <<>>
  <2>2. Len(fs) \in Nat
    BY FileAssumption
  <2>3. Text(fs)[1] \in Seq(V)
    BY <2>2, TextType
  <2>4. rest = Text(fs)[1]
    BY <1>1, <2>1 DEF Handed
  <2>5. Meant(fs)[0] = <<>>
    BY <2>2, MeantIs, Zenon
  <2>6. MadeAll(<<>>) = <<>>
    BY DEF MadeAll
  <2>7. At(fs, 0, d)
    <3>1. d \o Text(fs)[1] = Text(fs)[1]
      BY <2>3
    <3>2. rest = d \o Text(fs)[0 + 1]
      BY <2>4, <3>1
    <3>3. faults = MadeAll(Meant(fs)[0])
      BY <1>1, <2>5, <2>6
    <3>4. \A i \in 1..Len(d) : ~Names(d[i])
      OBVIOUS
    <3> QED BY <3>2, <3>3, <3>4 DEF At
  <2>8. 0 \in 0..Len(fs) /\ d \in Seq(V)
    BY <2>2
  <2> HIDE DEF d, V
  <2>9. Reading(fs)
    BY <1>1, <2>7, <2>8 DEF Reading, V
  <2> QED BY <1>1, <2>1, <2>9 DEF ReaderInv
<1>3. CASE \E f \in PythonFaults(PythonBits) : input = PythonFile(f)
  <2>1. PICK f \in PythonFaults(PythonBits) : input = PythonFile(f)
    BY <1>3
  <2>2. rest = Line(f)
    BY <1>1, <2>1 DEF PythonFile
  <2> QED BY <1>1, <2>1, <2>2 DEF ReaderInv
<1> QED BY <1>1, <1>2, <1>3 DEF Texts

LEMMA ReaderReads ==
    ASSUME ReaderInv, ReadFault, UNCHANGED cpuVars
    PROVE  ReaderInv'
<1>1. good = TRUE /\ stage = "fetch" /\ executed = 0
  BY DEF ReaderInv, ReadFault
<1>2. stage' = "fetch" /\ executed' = 0
  BY <1>1 DEF cpuVars
<1>3. ASSUME NEW fs \in Handouts, input = Handed(fs), Reading(fs) PROVE ReaderInv'
  <2>1. /\ ~rejected' /\ good' \in BOOLEAN /\ input' = input
        /\ good' => Reading(fs)'
        /\ ~good' => faults' = MadeAll(Meant(fs)[Len(fs)])
    BY <1>1, <1>3, ReadHanded
  <2>2. input' = Handed(fs)
    BY <1>3, <2>1, SMTT(30)
  <2>3. CASE good'
    <3>1. \E gs \in Handouts : input' = Handed(gs) /\ Reading(gs)'
      BY <2>1, <2>2, <2>3
    <3> QED BY <1>2, <2>1, <2>3, <3>1, Zenon DEF ReaderInv, Handed, Text, Meant, Reading
  <2>4. CASE ~good'
    <3>1. AsRead'
      <4>1. faults' = MadeAll(Meant(fs)[Len(fs)])
        BY <2>1, <2>4
      <4> QED BY <2>2, <4>1, Zenon DEF AsRead, Handed, MadeAll, Meant
    <3> QED BY <1>2, <2>1, <2>4, <3>1, SMTT(30) DEF ReaderInv
  <2> QED BY <2>3, <2>4
<1>4. ASSUME NEW f \in PythonFaults(PythonBits), input = PythonFile(f), rest = Line(f),
             faults = <<>>
      PROVE  ReaderInv'
  <2>1. ~rejected' /\ good' = FALSE /\ input' = input /\ faults' = <<Made(f, Unread)>>
    BY <1>1, <1>4, ReadPython, Zenon
  <2>2. AsRead'
    BY <1>4, <2>1, Zenon DEF AsRead, PythonFaults, PythonFile, Made
  <2> QED BY <1>2, <2>1, <2>2, Zenon DEF ReaderInv
<1> QED BY <1>1, <1>3, <1>4, ZenonT(30) DEF ReaderInv

(* Once the faults are read no step of the processor reads on. *)
LEMMA ReaderRest ==
    ASSUME ReaderInv, [Next]_vars, ~(ReadFault /\ UNCHANGED cpuVars)
    PROVE  ReaderInv' /\ good' = good /\ input' = input
<1>1. ASSUME ~good, good' = good, rejected' = rejected, input' = input,
             executed' \in Nat, stage' # "fetch" \/ executed' # 0
      PROVE  ReaderInv' /\ good' = good /\ input' = input
  BY <1>1 DEF ReaderInv
<1>2. executed \in Nat
  BY SMTT(30) DEF ReaderInv
<1>3. CASE UNCHANGED vars
  BY <1>3, Zenon DEF ReaderInv, AsRead, Reading, At, vars, fileVars, cpuVars
<1>4. ASSUME NEW a \in DOMAIN Program, Fetch(a)
      PROVE  ReaderInv' /\ good' = good /\ input' = input
  BY <1>1, <1>2, <1>4 DEF Fetch, Running, FileRead, fileVars
<1>5. CASE Decode
  BY <1>1, <1>2, <1>5 DEF Decode, Running, FileRead, fileVars
<1>6. ASSUME NEW i \in DOMAIN faults, StrikeFetch(i)
      PROVE  ReaderInv' /\ good' = good /\ input' = input
  BY <1>1, <1>2, <1>6, SMTT(30) DEF StrikeFetch, Running, FileRead, Keep
<1>7. ASSUME NEW i \in DOMAIN faults, StrikeDecode(i)
      PROVE  ReaderInv' /\ good' = good /\ input' = input
  BY <1>1, <1>2, <1>7, Zenon DEF StrikeDecode, Running, FileRead, Keep
<1>8. ASSUME NEW i \in DOMAIN faults, StrikeOperand(i)
      PROVE  ReaderInv' /\ good' = good /\ input' = input
  BY <1>1, <1>2, <1>8, ZenonT(30) DEF StrikeOperand, Running, FileRead, Keep
<1>9. ASSUME NEW hook, NEW type, NEW x, Operand(hook, type, x)
      PROVE  ReaderInv' /\ good' = good /\ input' = input
  BY <1>1, <1>2, <1>9 DEF Operand, Running, FileRead, fileVars
<1>10. CASE Retire
  BY <1>1, <1>2, <1>10 DEF Retire, Running, FileRead, Keep
<1> QED BY <1>3, <1>4, <1>5, <1>6, <1>7, <1>8, <1>9, <1>10, ZenonT(30) DEF Next

LEMMA ReaderStep ==
    ASSUME ReaderInv, [Next]_vars
    PROVE  ReaderInv'
  BY ReaderReads, ReaderRest

(* The fault made of a line is the one that was meant. *)
LEMMA MadeMatches ==
    ASSUME NEW f, WellFormed(f), NEW c
    PROVE  [Made(f, c) EXCEPT !.tcontext = 0] = Meaning(f)
<1>1. CASE f.class # "RegisterDecodingInjectedFault"
  <2>1. [Made(f, c) EXCEPT !.tcontext = 0] = [f EXCEPT !.tcontext = 0]
    BY <1>1 DEF Made, WellFormed
  <2> QED BY <1>1, <2>1 DEF Meaning
<1>2. CASE f.class = "RegisterDecodingInjectedFault"
  <2> DEFINE o == ParseOperand(f.extra.operand)
             x == [f.extra EXCEPT !.operand = o]
             y == [side |-> f.extra.side, operand |-> o, reg |-> f.extra.reg]
  <2>1. Meaning(f) = [f EXCEPT !.tcontext = 0, !.extra = x]
    BY <1>2 DEF Meaning
  <2>2. x = y
    <3>1. f.extra \in [side : {"Src", "Dst"}, operand : Nat, reg : Nat]
      BY <1>2 DEF WellFormed
    <3> HIDE DEF o
    <3> QED BY <3>1
  <2>3. Made(f, c).extra = y
    BY <1>2 DEF Made
  <2> HIDE DEF o, x, y
  <2>4. [f EXCEPT !.tcontext = 0, !.extra = y] =
            [class |-> f.class, type |-> f.type, timing |-> f.timing, what |-> f.what,
             value |-> f.value, thread |-> f.thread, where |-> f.where, occ |-> f.occ,
             tcontext |-> 0, extra |-> y]
    <3> DEFINE w == [class |-> f.class, type |-> f.type, timing |-> f.timing, what |-> f.what,
                     value |-> f.value, thread |-> f.thread, where |-> f.where, occ |-> f.occ,
                     tcontext |-> 0, extra |-> f.extra]
    <3>1. [f EXCEPT !.tcontext = 0] = w
      BY DEF WellFormed
    <3>2. [f EXCEPT !.tcontext = 0, !.extra = y] = [[f EXCEPT !.tcontext = 0] EXCEPT !.extra = y]
      OBVIOUS
    <3>3. [w EXCEPT !.extra = y] =
            [class |-> f.class, type |-> f.type, timing |-> f.timing, what |-> f.what,
             value |-> f.value, thread |-> f.thread, where |-> f.where, occ |-> f.occ,
             tcontext |-> 0, extra |-> y]
      OBVIOUS
    <3> HIDE DEF w
    <3> QED BY <3>1, <3>2, <3>3, Zenon
  <2>5. [Made(f, c) EXCEPT !.tcontext = 0] =
            [class |-> f.class, type |-> f.type, timing |-> f.timing, what |-> f.what,
             value |-> f.value, thread |-> f.thread, where |-> f.where, occ |-> f.occ,
             tcontext |-> 0, extra |-> Made(f, c).extra]
    BY DEF Made
  <2> QED BY <2>1, <2>2, <2>3, <2>4, <2>5
<1> QED BY <1>1, <1>2

(* The lines of a file of run.sh that are meant. *)
LEMMA HandedMeant ==
    ASSUME NEW fs \in Handouts, NEW M, M = Meant(fs)[Len(fs)]
    PROVE  /\ M \in Seq(Range(fs))
           /\ \A i \in 1..Len(M) : WellFormed(M[i]) /\ M[i].class \in Queueing
<1> DEFINE T == Range(fs)
<1>1. fs \in Seq(T) /\ \A x \in T : WellFormed(x)
  BY FileAssumption DEF Range
<1> HIDE DEF T
<1>2. Len(fs) \in 0..Len(fs)
  BY <1>1
<1>3. M \in Seq(T) /\ \A i \in 1..Len(M) : M[i].class \in Queueing
  BY <1>1, <1>2, MeantType, Zenon
<1>4. \A i \in 1..Len(M) : M[i] \in T
  BY <1>3
<1> QED BY <1>1, <1>3, <1>4 DEF T

LEMMA MadeAllIs ==
    ASSUME NEW T, NEW M \in Seq(T), NEW G, G = MadeAll(M)
    PROVE  /\ G \in Seq(Range(G)) /\ Len(G) = Len(M) /\ DOMAIN G = 1..Len(M)
           /\ \A i \in 1..Len(M) : G[i] = Made(M[i], Token("num", M[i].tcontext))
<1>1. Len(M) \in Nat
  OBVIOUS
<1>2. DOMAIN G = 1..Len(M) /\ \A i \in 1..Len(M) : G[i] = Made(M[i], Token("num", M[i].tcontext))
  BY DEF MadeAll
<1>3. G = [i \in 1..Len(M) |-> G[i]] /\ \A i \in 1..Len(M) : G[i] \in Range(G)
  BY <1>2 DEF MadeAll, Range
<1>4. G \in [1..Len(M) -> Range(G)]
  BY <1>3, ZenonT(30)
<1>5. G \in Seq(Range(G))
  BY <1>1, <1>4
<1>6. Len(G) = Len(M)
  BY <1>1, <1>2, <1>5, SMTT(30)
<1> QED BY <1>2, <1>5, <1>6

LEMMA AsReadMeant ==
    ASSUME AsRead
    PROVE  /\ faults \in Seq(Range(faults)) /\ Len(faults) = Len(input.meant)
           /\ DOMAIN faults = 1..Len(faults) /\ DOMAIN input.meant = DOMAIN faults
           /\ \A i \in DOMAIN faults : \E c :
                /\ faults[i] = Made(input.meant[i], c)
                /\ WellFormed(input.meant[i]) /\ input.meant[i].class \in Queueing
                /\ c = Unread => input.meant[i].occ = 1
<1>1. ASSUME NEW fs \in Handouts, input = Handed(fs), faults = MadeAll(Meant(fs)[Len(fs)])
      PROVE  /\ faults \in Seq(Range(faults)) /\ Len(faults) = Len(input.meant)
             /\ DOMAIN faults = 1..Len(faults) /\ DOMAIN input.meant = DOMAIN faults
             /\ \A i \in DOMAIN faults : \E c :
                  /\ faults[i] = Made(input.meant[i], c)
                  /\ WellFormed(input.meant[i]) /\ input.meant[i].class \in Queueing
                  /\ c = Unread => input.meant[i].occ = 1
  <2> DEFINE M == input.meant
             T == Range(fs)
  <2>1. M = Meant(fs)[Len(fs)]
    BY <1>1 DEF Handed
  <2>2. M \in Seq(T) /\ \A i \in 1..Len(M) : WellFormed(M[i]) /\ M[i].class \in Queueing
    BY <2>1, HandedMeant
  <2> HIDE DEF M, T
  <2>3. faults = MadeAll(M)
    BY <1>1, <2>1
  <2>4. /\ faults \in Seq(Range(faults)) /\ Len(faults) = Len(M) /\ DOMAIN faults = 1..Len(M)
        /\ \A i \in 1..Len(M) : faults[i] = Made(M[i], Token("num", M[i].tcontext))
    BY <2>2, <2>3, MadeAllIs
  <2>5. \A v : Token("num", v) # Unread
    BY DEF Token, Unread
  <2>6. ASSUME NEW i \in DOMAIN faults
        PROVE  \E c : /\ faults[i] = Made(M[i], c) /\ WellFormed(M[i])
                      /\ M[i].class \in Queueing /\ (c = Unread => M[i].occ = 1)
    BY <2>2, <2>4, <2>5
  <2>7. DOMAIN M = 1..Len(M)
    BY <2>2
  <2> QED BY <2>4, <2>6, <2>7 DEF M
<1>2. ASSUME NEW f \in PythonFaults(PythonBits), input = PythonFile(f),
             faults = <<Made(f, Unread)>>
      PROVE  /\ faults \in Seq(Range(faults)) /\ Len(faults) = Len(input.meant)
             /\ DOMAIN faults = 1..Len(faults) /\ DOMAIN input.meant = DOMAIN faults
             /\ \A i \in DOMAIN faults : \E c :
                  /\ faults[i] = Made(input.meant[i], c)
                  /\ WellFormed(input.meant[i]) /\ input.meant[i].class \in Queueing
                  /\ c = Unread => input.meant[i].occ = 1
  <2>1. WellFormed(f) /\ f.class \in Queueing /\ f.occ = 1
    BY PythonWellFormed DEF Queueing, O3Classes
  <2>2. input.meant = <<f>>
    BY <1>2 DEF PythonFile
  <2>3. faults \in Seq(Range(faults)) /\ Len(faults) = 1 /\ DOMAIN faults = 1..1
    BY <1>2 DEF Range
  <2>4. Len(input.meant) = 1 /\ DOMAIN input.meant = 1..1 /\ input.meant[1] = f
    BY <2>2
  <2>5. faults[1] = Made(f, Unread)
    BY <1>2
  <2> QED BY <2>1, <2>3, <2>4, <2>5
<1> QED BY <1>1, <1>2, SMTT(30) DEF AsRead

(* getFromFile makes of every file of run.sh and of the Python generator,  *)
(* whatever the faults of its lines, exactly the faults that were meant,   *)
(* and rejects none.                                                       *)
THEOREM EveryFileRead == Spec => []ReadsAsWritten
<1>1. ReaderInv => ReadsAsWritten
  <2> SUFFICES ASSUME ReaderInv PROVE ReadsAsWritten
    OBVIOUS
  <2>1. ASSUME FileRead, stage = "fetch", executed = 0
        PROVE  /\ Len(faults) = Len(input.meant)
               /\ \A i \in DOMAIN faults :
                    [faults[i] EXCEPT !.tcontext = 0] = Meaning(input.meant[i])
    <3>1. AsRead
      BY <2>1 DEF ReaderInv, FileRead
    <3> QED BY <3>1, AsReadMeant, MadeMatches
  <2> QED BY <2>1 DEF ReadsAsWritten, ReaderInv
<1> QED BY <1>1, ReaderInit, ReaderStep, PTL DEF Spec
---------------------------------------------------------------------------
(* A fault in a queue. *)
Queued(f) ==
    /\ f = [class |-> f.class, type |-> f.type, timing |-> f.timing, what |-> f.what,
            value |-> f.value, thread |-> f.thread, where |-> f.where, occ |-> f.occ,
            tcontext |-> f.tcontext, extra |-> f.extra]
    /\ f.class \in Queueing /\ f.occ \in Nat /\ Sound(f)
    /\ f.class = "RegisterDecodingInjectedFault" =>
        f.extra \in [side : {"Src", "Dst"}, operand : Nat, reg : Nat]
    /\ f.tcontext = Unread => f.occ = 1

AllTransient == \A i \in DOMAIN input.meant : Transient(input.meant[i])

Held(S) ==
    /\ faults \in Seq(S) /\ later \in Seq(S)
    /\ \A x \in S : Queued(x) /\ (AllTransient => Transient(x))

QueueInv == (good => later = <<>>) /\ (~good => \E S : Held(S))

LEMMA RegisterExtra ==
    ASSUME NEW s \in {"Src", "Dst"}, NEW o \in Nat, NEW r \in Nat,
           NEW x, x = [side |-> s, operand |-> o, reg |-> r]
    PROVE  x \in [side : {"Src", "Dst"}, operand : Nat, reg : Nat] /\ x.reg = r
  OBVIOUS

LEMMA MadeQueued ==
    ASSUME NEW f, WellFormed(f), f.class \in Queueing, NEW c, c = Unread => f.occ = 1
    PROVE  Queued(Made(f, c)) /\ (Transient(f) => Transient(Made(f, c)))
<1> DEFINE m == Made(f, c)
<1>1. /\ m.class = f.class /\ m.what = f.what /\ m.value = f.value /\ m.occ = f.occ
      /\ m.tcontext = c
      /\ m = [class |-> m.class, type |-> m.type, timing |-> m.timing, what |-> m.what,
              value |-> m.value, thread |-> m.thread, where |-> m.where, occ |-> m.occ,
              tcontext |-> m.tcontext, extra |-> m.extra]
  BY Zenon DEF Made
<1>2. ASSUME f.class = "RegisterDecodingInjectedFault"
      PROVE  m.extra \in [side : {"Src", "Dst"}, operand : Nat, reg : Nat]
             /\ m.extra.reg = f.extra.reg
  <2>1. f.extra \in [side : {"Src", "Dst"}, operand : Nat, reg : Nat]
    BY <1>2 DEF WellFormed
  <2>2. f.extra.operand \in Nat
    BY <2>1
  <2>3. ParseOperand(f.extra.operand) \in Nat
    BY <2>2, SMTT(30) DEF ParseOperand
  <2>4. m.extra = [side |-> f.extra.side, operand |-> ParseOperand(f.extra.operand),
                   reg |-> f.extra.reg]
    BY <1>2 DEF Made
  <2> HIDE DEF m
  <2>5. f.extra.side \in {"Src", "Dst"} /\ f.extra.reg \in Nat
    BY <2>1, ZenonT(30)
  <2> QED BY <2>3, <2>4, <2>5, RegisterExtra, SMTT(30)
<1> HIDE DEF m
<1>3. f.occ \in Nat /\ Sound(f)
  BY ZenonT(30) DEF WellFormed, Sound
<1>4. Queued(m)
  BY <1>1, <1>2, <1>3, ZenonT(30) DEF Queued, Sound
<1>5. Transient(f) => Transient(m)
  BY <1>1, <1>2 DEF Transient
<1> QED BY <1>4, <1>5, SMTT(30) DEF m

LEMMA AsReadHeld ==
    ASSUME AsRead, later = <<>>
    PROVE  \E S : Held(S)
<1> DEFINE S == Range(faults)
<1>1. faults \in Seq(S) /\ DOMAIN input.meant = DOMAIN faults
  BY AsReadMeant
<1>2. ASSUME NEW i \in DOMAIN faults
      PROVE  Queued(faults[i]) /\ (AllTransient => Transient(faults[i]))
  <2>1. PICK c : /\ faults[i] = Made(input.meant[i], c)
                 /\ WellFormed(input.meant[i]) /\ input.meant[i].class \in Queueing
                 /\ c = Unread => input.meant[i].occ = 1
    BY AsReadMeant, ZenonT(30)
  <2>2. /\ Queued(faults[i])
        /\ Transient(input.meant[i]) => Transient(faults[i])
    BY <2>1, MadeQueued
  <2>3. AllTransient => Transient(input.meant[i])
    BY <1>1 DEF AllTransient
  <2> QED BY <2>2, <2>3, ZenonT(30)
<1>3. \A x \in S : \E i \in DOMAIN faults : x = faults[i]
  BY DEF Range
<1>4. \A x \in S : Queued(x) /\ (AllTransient => Transient(x))
  BY <1>2, <1>3
<1>5. later \in Seq(S)
  OBVIOUS
<1>6. Held(S)
  BY <1>1, <1>4, <1>5, ZenonT(30) DEF Held
<1> QED BY <1>6, ZenonT(30)

(* check4reschedule puts back a fault that was in a queue, and looks a     *)
(* context up only for one whose context was read.                         *)
LEMMA RescheduleKeeps ==
    ASSUME NEW S, Held(S), NEW i \in DOMAIN faults, NEW f, Queued(f), f.occ = faults[i].occ,
           Reschedule(i, f), input' = input
    PROVE  failed' = "none" /\ \E S2 : Held(S2)'
<1>1. faults \in Seq(S) /\ later \in Seq(S)
      /\ \A x \in S : Queued(x) /\ (AllTransient => Transient(x))
  BY DEF Held
<1>2. AllTransient' <=> AllTransient
  BY DEF AllTransient
<1>3. faults' \in Seq(S)
  <2>1. faults' = SubSeq(faults, 1, i - 1) \o SubSeq(faults, i + 1, Len(faults))
    BY DEF Reschedule
  <2>2. i \in 1..Len(faults)
    BY <1>1
  <2>3. SubSeq(faults, 1, i - 1) \in Seq(S)
    BY <1>1, <2>2
  <2>4. SubSeq(faults, i + 1, Len(faults)) \in Seq(S)
    BY <1>1, <2>2
  <2> QED BY <2>1, <2>3, <2>4, SMTT(30)
<1>4. CASE f.occ = 1
  <2>1. failed' = "none" /\ later' = later
    BY <1>4 DEF Reschedule
  <2>2. Held(S)'
    BY <1>1, <1>2, <1>3, <2>1, ZenonT(30) DEF Held
  <2> QED BY <2>1, <2>2
<1>5. CASE f.occ # 1
  <2> DEFINE n == IF f.occ = 0 THEN 0 ELSE f.occ - 1
             g == [f EXCEPT !.occ = n]
             S2 == S \cup {g}
  <2>1. f.tcontext # Unread
    BY <1>5 DEF Queued
  <2>2. failed' = "none" /\ later' = Append(later, g)
    BY <1>5, <2>1, ZenonT(30) DEF Reschedule
  <2>3. n \in Nat
    BY DEF Queued
  <2> HIDE DEF n
  <2>4. g = [class |-> f.class, type |-> f.type, timing |-> f.timing, what |-> f.what,
             value |-> f.value, thread |-> f.thread, where |-> f.where, occ |-> n,
             tcontext |-> f.tcontext, extra |-> f.extra]
    BY SMTT(30) DEF Queued
  <2> HIDE DEF g
  <2>5. Queued(g)
    BY <2>1, <2>3, <2>4, ZenonT(30) DEF Queued, Sound
  <2>6. ~AllTransient
    <3>1. faults[i] \in S /\ faults[i].occ # 1
      BY <1>1, <1>5, SMTT(30)
    <3> QED BY <1>1, <3>1, ZenonT(30) DEF Transient
  <2>7. \A x \in S2 : Queued(x) /\ (AllTransient' => Transient(x))
    BY <1>1, <1>2, <2>5, <2>6, ZenonT(30)
  <2>8. faults' \in Seq(S2) /\ later' \in Seq(S2)
    <3>1. S \subseteq S2 /\ g \in S2
      OBVIOUS
    <3> HIDE DEF S2
    <3> QED BY <1>1, <1>3, <2>2, <3>1, SMTT(30)
  <2> HIDE DEF S2
  <2>9. Held(S2)'
    BY <2>7, <2>8 DEF Held
  <2> QED BY <2>2, <2>9, ZenonT(30)
<1> QED BY <1>4, <1>5
---------------------------------------------------------------------------
AllTypes == {"bool", "u8", "u32", "u64", "double"}

LEMMA WidthIn ==
    /\ InstBytes \in 1..WordBytes /\ Width("u32") = InstBytes /\ Width("bool") = 1
    /\ \A t \in AllTypes : Width(t) \in 1..WordBytes
<1>1. WordBytes \in Nat /\ WordBytes > 1
  BY ManifestAssumption, EffectsAssumption
<1>2. InstBytes \in 1..WordBytes
  BY <1>1 DEF InstBytes
<1>3. /\ Width("bool") = 1 /\ Width("u8") = 1 /\ Width("u32") = InstBytes
      /\ Width("u64") = WordBytes /\ Width("double") = WordBytes
  BY DEF Width
<1>4. \A t \in AllTypes : Width(t) \in 1..WordBytes
  BY <1>1, <1>2, <1>3 DEF AllTypes
<1> QED BY <1>2, <1>3, <1>4

LEMMA HookTypes ==
    ASSUME NEW hook \in DOMAIN Types, NEW type \in Types[hook]
    PROVE  hook \in {"main", "iew", "lds"} /\ type \in AllTypes
<1>1. hook \in {"main", "iew", "lds"}
  BY DEF Types
<1>2. CASE hook = "main"
  BY <1>2 DEF Types, AllTypes
<1>3. CASE hook = "iew"
  BY <1>3 DEF Types, AllTypes
<1>4. CASE hook = "lds"
  BY <1>4 DEF Types, AllTypes
<1> QED BY <1>1, <1>2, <1>3, <1>4, SMTT(30)

(* The correction of a bit number leaves a fault one that can be queued. *)
LEMMA CorrectedQueued ==
    ASSUME NEW f, Queued(f), NEW type \in AllTypes
    PROVE  LET g == Corrected(f, type) IN
           Queued(g) /\ g.occ = f.occ /\ g.class = f.class /\ g.what = f.what
<1> DEFINE bits == Bits(Width(type))
           v == (f.value % bits) + 1
           g == [f EXCEPT !.value = v]
<1>1. bits \in Nat \ {0}
  BY WidthIn, ManifestAssumption DEF Bits
<1>2. CASE f.what = "Flip" /\ f.value > bits /\ Corrects(f, type)
  <2>1. Corrected(f, type) = g
    BY <1>2, ZenonT(30) DEF Corrected
  <2>2. v \in Nat
    BY <1>1 DEF Queued, Sound
  <2> HIDE DEF v
  <2>3. g = [class |-> f.class, type |-> f.type, timing |-> f.timing, what |-> f.what,
             value |-> v, thread |-> f.thread, where |-> f.where, occ |-> f.occ,
             tcontext |-> f.tcontext, extra |-> f.extra]
    BY SMTT(30) DEF Queued
  <2> HIDE DEF g
  <2>4. Queued(g) /\ g.occ = f.occ /\ g.class = f.class /\ g.what = f.what
    BY <1>2, <2>2, <2>3 DEF Queued, Sound
  <2> QED BY <2>1, <2>4
<1>3. CASE ~(f.what = "Flip" /\ f.value > bits /\ Corrects(f, type))
  BY <1>3 DEF Corrected
<1> QED BY <1>2, <1>3

(* A value in the hands of a hook. *)
InHand(op) ==
    /\ op = [hook |-> op.hook, type |-> op.type, value |-> op.value]
    /\ op.hook \in {"main", "iew", "lds"}
    /\ op.type \in AllTypes /\ op.value \in Value(Width(op.type))

LEMMA AlteredType ==
    ASSUME NEW op, InHand(op), NEW f, Queued(f)
    PROVE  Altered(f, op) \in Value(Width(op.type))
<1> DEFINE n == Width(op.type)
           w == op.value
<1>1. n \in 1..WordBytes /\ w \in Value(n) /\ WordBytes \in Nat
  BY WidthIn, ManifestAssumption DEF InHand
<1>2. CASE op.hook = "iew" /\ op.type = "bool"
  <2>1. n = 1
    BY <1>2, WidthIn
  <2>2. w[0] \in Byte /\ w \in [0..0 -> Byte] /\ 0 \in 0..(ByteBits - 1)
    BY <1>1, <2>1, ManifestAssumption DEF Value
  <2> DEFINE b == [w[0] EXCEPT ![0] = 1 - @]
  <2>3. b \in Byte
    BY <2>2, FlipByte, Zenon
  <2>4. [w EXCEPT ![0][0] = 1 - @] = [w EXCEPT ![0] = b]
    OBVIOUS
  <2> HIDE DEF b
  <2>5. [w EXCEPT ![0] = b] \in [0..0 -> Byte]
    BY <2>2, <2>3, ZenonT(30)
  <2>6. [w EXCEPT ![0][0] = 1 - @] \in Value(n)
    BY <2>1, <2>4, <2>5 DEF Value
  <2> QED BY <1>2, <2>6 DEF Altered
<1>3. CASE ~(op.hook = "iew" /\ op.type = "bool") /\ op.hook = "lds" /\ arch = "x86"
  BY <1>1, <1>3 DEF Altered
<1>4. CASE ~(op.hook = "iew" /\ op.type = "bool") /\ ~(op.hook = "lds" /\ arch = "x86")
  <2>1. Altered(f, op) = manifest(w, n, f.value, f.what)
    BY <1>4, ZenonT(30) DEF Altered
  <2>2. n \in 0..WordBytes /\ Sound(f)
    BY <1>1, SMTT(30) DEF Queued
  <2> QED BY <1>1, <2>1, <2>2, ManifestType
<1> QED BY <1>2, <1>3, <1>4, ZenonT(30)
---------------------------------------------------------------------------
(* The state of the processor, with what its stages have done. *)
ExecInv ==
    /\ arch \in Archs /\ stage \in {"fetch", "fetched", "decoded", "operand"}
    /\ cur = [addr |-> cur.addr, inst |-> cur.inst] /\ cur.inst \in Value(InstBytes)
    /\ stage = "fetched" => cur.addr \in DOMAIN Program
    /\ DOMAIN pages \subseteq DOMAIN Program
    /\ executed \in 0..MaxExecuted /\ (stage # "fetch" => executed < MaxExecuted)
    /\ failed \in {"none", "division", "overload"}
    /\ stage = "operand" => operand.hook # "none"
    /\ operand.hook # "none" => InHand(operand)

LEMMA ExecInit == Init => ExecInv /\ QueueInv
<1> SUFFICES ASSUME Init PROVE ExecInv /\ QueueInv
  OBVIOUS
<1>1. Bytes(0, InstBytes) \in Value(InstBytes)
  BY WidthIn, BytesType, ManifestAssumption, SMTT(30)
<1>2. good
  BY DEF Init, FileInit
<1> QED BY <1>1, <1>2, EffectsAssumption DEF Init, ExecInv, QueueInv

LEMMA Picked ==
    ASSUME QueueInv, Running, NEW i \in DOMAIN faults
    PROVE  ~good /\ Queued(faults[i]) /\ \E S : Held(S)
<1>1. ~good
  BY DEF Running, FileRead
<1>2. PICK S : Held(S)
  BY <1>1 DEF QueueInv
<1>3. faults[i] \in S
  BY <1>2 DEF Held
<1> QED BY <1>1, <1>2, <1>3 DEF Held

LEMMA RescheduleQueues ==
    ASSUME QueueInv, Running, NEW i \in DOMAIN faults, NEW f, Queued(f),
           f.occ = faults[i].occ, Reschedule(i, f), Keep
    PROVE  failed' = "none" /\ QueueInv'
<1>1. ~good /\ ~good' /\ input' = input
  BY DEF Running, FileRead, Keep
<1>2. PICK S : Held(S)
  BY <1>1, ZenonT(30) DEF QueueInv
<1>3. failed' = "none" /\ \E S2 : Held(S2)'
  BY <1>1, <1>2, RescheduleKeeps
<1> QED BY <1>1, <1>3 DEF QueueInv

(* What no strike of the file's queue touches keeps the queues' state. *)
LEMMA QueuesStay ==
    ASSUME QueueInv, UNCHANGED <<faults, later, good, input>>
    PROVE  QueueInv'
<1>1. AllTransient' <=> AllTransient
  BY DEF AllTransient
<1>2. \A S : Held(S) => Held(S)'
  BY <1>1 DEF Held
<1> QED BY <1>2 DEF QueueInv

LEMMA FetchExec ==
    ASSUME ExecInv, QueueInv, NEW a \in DOMAIN Program, Fetch(a)
    PROVE  ExecInv' /\ QueueInv'
<1>1. Bytes(Program[a], InstBytes) \in Value(InstBytes)
  BY WidthIn, BytesType, EffectsAssumption, SMTT(30)
<1>2. cur' = [addr |-> a, inst |-> Bytes(Program[a], InstBytes)]
      /\ stage' = "fetched" /\ executed < MaxExecuted
      /\ UNCHANGED <<arch, pages, executed, failed, operand>>
  BY DEF Fetch
<1>3. UNCHANGED <<faults, later, good, input>>
  BY ZenonT(30) DEF Fetch, fileVars
<1>4. ExecInv'
  BY <1>1, <1>2 DEF ExecInv, InHand
<1> QED BY <1>3, <1>4, QueuesStay, ZenonT(30)

LEMMA DecodeExec ==
    ASSUME ExecInv, QueueInv, Decode
    PROVE  ExecInv' /\ QueueInv'
<1>1. stage = "fetched" /\ stage' = "decoded"
      /\ UNCHANGED <<arch, cur, executed, failed, operand>>
  BY SMTT(30) DEF Decode
<1>2. UNCHANGED <<faults, later, good, input>>
  BY SMTT(30) DEF Decode, fileVars
<1>3. pages' = pages \/ pages' = Extend(pages, cur.addr, cur.inst)
  BY DEF Decode
<1>4. DOMAIN pages' \subseteq DOMAIN Program
  BY <1>1, <1>3, ZenonT(30) DEF Extend, ExecInv
<1>5. ExecInv'
  BY <1>1, <1>4 DEF ExecInv, InHand
<1> QED BY <1>2, <1>5, QueuesStay, ZenonT(30)

LEMMA StrikeFetchExec ==
    ASSUME ExecInv, QueueInv, NEW i \in DOMAIN faults, StrikeFetch(i)
    PROVE  ExecInv' /\ QueueInv'
<1> DEFINE f == faults[i]
           inst == manifest(cur.inst, InstBytes, f.value, f.what)
<1>1. Running /\ stage = "fetched" /\ Reschedule(i, f) /\ Keep
      /\ cur' = [cur EXCEPT !.inst = inst]
      /\ UNCHANGED <<stage, pages, operand, executed>>
  BY DEF StrikeFetch
<1>2. Queued(f)
  BY <1>1, Picked
<1>3. failed' = "none" /\ QueueInv'
  BY <1>1, <1>2, RescheduleQueues, SMTT(30)
<1>4. inst \in Value(InstBytes)
  <2>1. InstBytes \in 0..WordBytes /\ Sound(f) /\ cur.inst \in Value(InstBytes)
    BY <1>2, WidthIn, ManifestAssumption DEF Queued, ExecInv
  <2> QED BY <2>1, ManifestType, ZenonT(30)
<1> HIDE DEF inst
<1>5. cur' = [addr |-> cur.addr, inst |-> inst]
  BY <1>1 DEF ExecInv
<1>6. arch' = arch
  BY <1>1 DEF Keep
<1>7. ExecInv'
  BY <1>1, <1>3, <1>4, <1>5, <1>6, ZenonT(30) DEF ExecInv, InHand
<1> QED BY <1>3, <1>7
(* The class whose constructor enters a fault in the queue of decode_fault.*)
LEMMA DecodeQueue ==
    ASSUME NEW f, Queued(f), Queue(f.class) = "decode"
    PROVE  /\ f.class = "RegisterDecodingInjectedFault"
           /\ f.extra \in [side : {"Src", "Dst"}, operand : Nat, reg : Nat]
           /\ \A reg : DestinationReg(f, reg) \in Nat
<1>1. f.class \in Queueing
  BY DEF Queued
<1>2. f.class = "RegisterDecodingInjectedFault"
  BY <1>1 DEF Queue, Queueing, O3Classes, CpuClasses
<1>3. f.extra \in [side : {"Src", "Dst"}, operand : Nat, reg : Nat]
  BY <1>2 DEF Queued
<1>4. f.extra.reg \in Nat
  BY <1>3
<1>5. \A reg : DestinationReg(f, reg) \in Nat
  BY <1>4, EffectsAssumption DEF DestinationReg
<1> QED BY <1>2, <1>3, <1>5, ZenonT(30)

LEMMA MovedQueued ==
    ASSUME NEW f, Queued(f), f.class = "RegisterDecodingInjectedFault", NEW reg \in Nat
    PROVE  LET g == [f EXCEPT !.extra.reg = reg] IN Queued(g) /\ g.occ = f.occ
<1> DEFINE x == [f.extra EXCEPT !.reg = reg]
           g == [f EXCEPT !.extra = x]
<1>1. [f EXCEPT !.extra.reg = reg] = g
  OBVIOUS
<1>2. x \in [side : {"Src", "Dst"}, operand : Nat, reg : Nat]
  BY DEF Queued
<1> HIDE DEF x
<1>3. g = [class |-> f.class, type |-> f.type, timing |-> f.timing, what |-> f.what,
           value |-> f.value, thread |-> f.thread, where |-> f.where, occ |-> f.occ,
           tcontext |-> f.tcontext, extra |-> x]
  BY SMTT(30) DEF Queued
<1> HIDE DEF g
<1>4. Queued(g) /\ g.occ = f.occ
  BY <1>2, <1>3 DEF Queued, Sound
<1> QED BY <1>1, <1>4

LEMMA StrikeDecodeExec ==
    ASSUME ExecInv, QueueInv, NEW i \in DOMAIN faults, StrikeDecode(i)
    PROVE  ExecInv' /\ QueueInv'
<1> DEFINE f == faults[i]
           regs == instMap[pages[cur.addr]][f.extra.side]
           reg == DestinationReg(f, regs[(f.extra.operand % Len(regs)) + 1])
<1>1. Running /\ stage = "decoded" /\ Queue(f.class) = "decode" /\ Keep
      /\ UNCHANGED <<stage, cur, pages, operand, executed>>
  BY Zenon DEF StrikeDecode
<1>2. Queued(f)
  BY <1>1, Picked, SMTT(30)
<1>3. f.class = "RegisterDecodingInjectedFault" /\ reg \in Nat
  BY <1>1, <1>2, DecodeQueue, ZenonT(30)
<1>4. QueueInv' /\ failed' \in {"none", "division"}
  <2>1. CASE regs = <<>>
    <3>1. failed' = "division" /\ UNCHANGED <<faults, later>>
      BY <2>1, SMTT(30) DEF StrikeDecode, Stop
    <3> QED BY <1>1, <3>1, QueuesStay, SMTT(30) DEF Keep
  <2>2. CASE regs # <<>>
    <3> DEFINE g == [f EXCEPT !.extra.reg = reg]
    <3>1. Reschedule(i, g)
      BY <2>2, ZenonT(30) DEF StrikeDecode
    <3>2. Queued(g) /\ g.occ = f.occ
      BY <1>2, <1>3, MovedQueued, Zenon
    <3> HIDE DEF g
    <3> QED BY <1>1, <3>1, <3>2, RescheduleQueues, SMTT(30)
  <2> QED BY <2>1, <2>2
<1>5. arch' = arch
  BY <1>1, ZenonT(30) DEF Keep
<1>6. ExecInv'
  BY <1>1, <1>4, <1>5, ZenonT(30) DEF ExecInv, InHand
<1> QED BY <1>4, <1>6, SMTT(30)

LEMMA OperandExec ==
    ASSUME ExecInv, QueueInv, NEW hook \in DOMAIN Types, NEW type \in Types[hook],
           NEW x \in Operands, Operand(hook, type, x)
    PROVE  ExecInv' /\ QueueInv'
<1> DEFINE y == IF type = "bool" THEN x % 2 ELSE x
<1>1. hook \in {"main", "iew", "lds"} /\ type \in AllTypes
  BY HookTypes, ZenonT(30)
<1>2. y \in Nat /\ Width(type) \in Nat
  BY <1>1, WidthIn, EffectsAssumption, ManifestAssumption, SMTT(30)
<1>3. Bytes(y, Width(type)) \in Value(Width(type))
  BY <1>2, BytesType, ZenonT(30)
<1>4. operand' = [hook |-> hook, type |-> type, value |-> Bytes(y, Width(type))]
      /\ stage' = "operand" /\ executed < MaxExecuted
      /\ UNCHANGED <<arch, cur, pages, executed, failed>>
  BY SMTT(30) DEF Operand
<1>5. UNCHANGED <<faults, later, good, input>>
  BY ZenonT(30) DEF Operand, fileVars
<1> HIDE DEF y
<1>6. InHand(operand')
  <2> DEFINE v == Bytes(y, Width(type))
             o == operand'
  <2>1. v \in Value(Width(type)) /\ o = [hook |-> hook, type |-> type, value |-> v]
    BY <1>3, <1>4, ZenonT(30)
  <2> HIDE DEF v, o
  <2>2. o.hook = hook /\ o.type = type /\ o.value = v
        /\ o = [hook |-> o.hook, type |-> o.type, value |-> o.value]
    BY <2>1
  <2>3. InHand(o)
    BY <1>1, <2>1, <2>2, Zenon DEF InHand
  <2> QED BY <2>3, ZenonT(30) DEF o
<1>7. operand'.hook # "none" /\ InHand(operand)'
  BY <1>6, ZenonT(30) DEF InHand
<1>8. ExecInv'
  BY <1>4, <1>7 DEF ExecInv
<1> QED BY <1>5, <1>8, QueuesStay, SMTT(30)
LEMMA StrikeOperandExec ==
    ASSUME ExecInv, QueueInv, NEW i \in DOMAIN faults, StrikeOperand(i)
    PROVE  ExecInv' /\ QueueInv'
<1> DEFINE type == IF operand.hook = "lds" /\ arch = "x86" THEN "u64" ELSE operand.type
           f == Corrected(faults[i], type)
<1>1. Running /\ stage = "operand" /\ Keep
      /\ UNCHANGED <<stage, cur, pages, executed>>
  BY DEF StrikeOperand
<1>2. Queued(faults[i])
  BY <1>1, Picked
<1>3. InHand(operand)
  BY <1>1 DEF ExecInv
<1>4. type \in AllTypes
  BY <1>3 DEF InHand, AllTypes
<1>5. Queued(f) /\ f.occ = faults[i].occ
  BY <1>2, <1>4, CorrectedQueued
<1>6. arch' = arch
  BY <1>1 DEF Keep
<1>7. CASE operand.hook = "lds" /\ arch = "alpha" /\ operand.type = "u32"
  <2>1. failed' = "overload" /\ UNCHANGED <<faults, later, operand>>
    BY <1>7 DEF StrikeOperand, Stop
  <2>2. QueueInv'
    BY <1>1, <2>1, QueuesStay, ZenonT(30) DEF Keep
  <2>3. ExecInv'
    BY <1>1, <1>6, <2>1, ZenonT(30) DEF ExecInv, InHand
  <2> QED BY <2>2, <2>3
<1>8. CASE ~(operand.hook = "lds" /\ arch = "alpha" /\ operand.type = "u32")
  <2> DEFINE w == Altered(f, operand)
  <2>1. operand' = [operand EXCEPT !.value = w] /\ Reschedule(i, f)
    BY <1>8, SMTT(30) DEF StrikeOperand
  <2>2. w \in Value(Width(operand.type))
    BY <1>3, <1>5, AlteredType, Zenon
  <2> HIDE DEF f, w
  <2>3. operand' = [hook |-> operand.hook, type |-> operand.type, value |-> w]
    BY <1>3, <2>1, SMTT(30) DEF InHand
  <2>4. InHand(operand')
    BY <1>3, <2>2, <2>3, SMTT(30) DEF InHand
  <2>5. InHand(operand)' /\ operand'.hook # "none"
    BY <2>4 DEF InHand
  <2>6. failed' = "none" /\ QueueInv'
    BY <1>1, <1>5, <2>1, RescheduleQueues, ZenonT(30)
  <2>7. ExecInv'
    BY <1>1, <1>6, <2>5, <2>6 DEF ExecInv
  <2> QED BY <2>6, <2>7
<1> QED BY <1>7, <1>8

LEMMA RetireExec ==
    ASSUME ExecInv, QueueInv, Retire
    PROVE  ExecInv' /\ QueueInv'
<1>1. Running /\ stage # "fetch" /\ stage' = "fetch" /\ executed' = executed + 1
      /\ operand' = [hook |-> "none"] /\ Keep /\ UNCHANGED <<cur, pages, failed>>
  BY DEF Retire
<1>2. faults' = faults \o later /\ later' = <<>>
  BY DEF Retire
<1>3. ~good /\ ~good' /\ (AllTransient' <=> AllTransient) /\ arch' = arch
  BY <1>1 DEF Running, FileRead, Keep, AllTransient
<1>4. PICK S : Held(S)
  BY <1>3 DEF QueueInv
<1>5. Held(S)'
  BY <1>2, <1>3, <1>4 DEF Held
<1>6. QueueInv'
  BY <1>3, <1>5, ZenonT(30) DEF QueueInv
<1>7. executed' \in 0..MaxExecuted
  BY <1>1, EffectsAssumption, SMTT(30) DEF ExecInv
<1>8. ExecInv'
  BY <1>1, <1>3, <1>7 DEF ExecInv
<1> QED BY <1>6, <1>8

LEMMA AsReadQueued == AsRead /\ later = <<>> /\ ~good => QueueInv
  BY AsReadHeld DEF QueueInv

LEMMA ReadExec ==
    ASSUME ReaderInv, ReaderInv', ExecInv, QueueInv, ReadFault, UNCHANGED cpuVars
    PROVE  ExecInv' /\ QueueInv'
<1>1. ExecInv'
  BY SMTT(30) DEF cpuVars, ExecInv, InHand
<1>2. good /\ later = <<>> /\ later' = <<>> /\ stage = "fetch" /\ executed = 0
  BY Zenon DEF ReadFault, ReaderInv, QueueInv, cpuVars
<1>3. CASE good'
  BY <1>1, <1>2, <1>3 DEF QueueInv
<1>4. CASE ~good'
  <2>1. AsRead' /\ (later = <<>>)' /\ (~good)'
    BY <1>2, <1>4 DEF ReaderInv, cpuVars
  <2>2. QueueInv'
    BY <2>1, AsReadQueued, PTL
  <2> QED BY <1>1, <2>2, ZenonT(30)
<1> QED BY <1>1, <1>3, <1>4, ZenonT(30)

LEMMA ExecStep ==
    ASSUME ReaderInv, ReaderInv', ExecInv, QueueInv, [Next]_vars
    PROVE  ExecInv' /\ QueueInv'
<1>1. CASE UNCHANGED vars
  <2>1. UNCHANGED <<faults, later, good, input>>
    BY <1>1, ZenonT(30) DEF vars, fileVars, cpuVars
  <2>2. ExecInv'
    BY <1>1 DEF vars, cpuVars, ExecInv, InHand
  <2> QED BY <2>1, <2>2, QueuesStay, SMTT(30)
<1> QED BY <1>1, ReadExec, FetchExec, DecodeExec, StrikeFetchExec, StrikeDecodeExec,
           StrikeOperandExec, OperandExec, RetireExec, ZenonT(30) DEF Next

(* The state keeps its type for every program, instruction set and fault   *)
(* file: no strike turns an instruction or operand into something of       *)
(* another width.                                                          *)
THEOREM TypeCorrect == Spec => []TypeOK
<1> DEFINE Inv == ReaderInv /\ CacheInv /\ ExecInv /\ QueueInv
<1>1. Init => Inv
  BY ReaderInit, ExecInit, CacheInit
<1>2. Inv /\ [Next]_vars => Inv'
  BY ReaderStep, ExecStep, CacheStep, ZenonT(30)
<1>3. Inv => TypeOK
  BY DEF TypeOK, CacheInv, CacheShape, ExecInv, InHand
<1> QED BY <1>1, <1>2, <1>3, PTL DEF Spec

(* check4reschedule never looks up the context that the Python writer left *)
(* out: a fault whose context was not read strikes once.                   *)
THEOREM ContextAlwaysRead == Spec => []ContextWasRead
<1> DEFINE Inv == ReaderInv /\ ExecInv /\ QueueInv
<1>1. Init => Inv
  BY ReaderInit, ExecInit
<1>2. Inv /\ [Next]_vars => Inv'
  BY ReaderStep, ExecStep
<1>3. Inv => ContextWasRead
  BY DEF ContextWasRead, ExecInv
<1> QED BY <1>1, <1>2, <1>3, PTL DEF Spec
---------------------------------------------------------------------------
(* What a fault, its bit number corrected, does to each bit of a value. *)
LEMMA StrikeBits ==
    ASSUME NEW type \in AllTypes, NEW f, Queued(f), NEW in \in Value(Width(type)),
           NEW g, g = Corrected(f, type), NEW k \in 0..(Bits(Width(type)) - 1)
    PROVE  FlatBit(manifest(in, Width(type), g.value, g.what), k) = Expected(f, type, in, k)
<1> DEFINE n == Width(type)
           bits == Bits(n)
           bit == FlatBit(in, k)
           other == Bit(g.value, k + Bits(WordBytes - n))
           after == FlatBit(manifest(in, n, g.value, g.what), k)
<1>1. n \in 0..WordBytes /\ bits \in Nat \ {0}
  BY WidthIn, ManifestAssumption DEF Bits
<1>2. Queued(g) /\ g.what = f.what
  BY CorrectedQueued, ZenonT(30)
<1>3. Sound(g) /\ Sound(f)
  BY <1>2, ZenonT(30) DEF Queued
<1>4. /\ g.what = "Immd" => after = other
      /\ g.what = "Mask" => after = (bit + other) % 2
      /\ g.what = "All" => after = g.value
      /\ g.what = "Flip" => after = IF k + 1 = g.value THEN 1 - bit ELSE bit
  BY <1>1, <1>3, ManifestBits, ZenonT(60)
<1>5. CASE f.what = "Flip"
  <2>1. after = IF k + 1 = g.value THEN 1 - bit ELSE bit
    BY <1>2, <1>4, <1>5
  <2>2. Expected(f, type, in, k) = IF k + 1 = Target(f, type) THEN 1 - bit ELSE bit
    BY <1>5, SMTT(30) DEF Expected
  <2>3. k + 1 = g.value <=> k + 1 = Target(f, type)
    <3>1. f.value \in Nat /\ k + 1 \in 1..bits
      BY <1>1, <1>3 DEF Sound
    <3>2. CASE f.value <= bits
      <4>1. g = f /\ Target(f, type) = f.value
        BY <1>1, <3>1, <3>2 DEF Corrected, Target
      <4> QED BY <4>1
    <3>3. CASE f.value > bits /\ Corrects(f, type)
      <4> DEFINE v == (f.value % bits) + 1
      <4>1. g = [f EXCEPT !.value = v] /\ Target(f, type) = v
        BY <1>1, <1>5, <3>1, <3>3 DEF Corrected, Target
      <4> HIDE DEF v
      <4>2. g.value = v
        BY <4>1 DEF Queued
      <4> QED BY <4>1, <4>2
    <3>4. CASE f.value > bits /\ ~Corrects(f, type)
      <4>1. g = f /\ Target(f, type) = 0
        BY <1>1, <3>1, <3>4 DEF Corrected, Target
      <4> QED BY <1>1, <3>1, <3>4, <4>1
    <3> QED BY <1>1, <3>1, <3>2, <3>3, <3>4, SMTT(30)
  <2> HIDE DEF after, bit
  <2> QED BY <2>1, <2>2, <2>3, ZenonT(30) DEF after
<1>6. CASE f.what # "Flip"
  <2>1. g = f
    BY <1>6 DEF Corrected
  <2> QED BY <1>3, <1>4, <1>6, <2>1, SMTT(30) DEF Expected, Sound
<1> QED BY <1>5, <1>6

(* A fetch fault is not corrected. *)
LEMMA FetchUncorrected ==
    ASSUME NEW f, Queued(f), Queue(f.class) = "fetch"
    PROVE  Corrected(f, "u32") = f
<1>1. f.class \in {"GeneralFetchInjectedFault", "OpCodeInjectedFault"}
  BY DEF Queue, Queued, Queueing, O3Classes, CpuClasses
<1> QED BY <1>1 DEF Corrected, Corrects

LEMMA ManifestedStays ==
    ASSUME Manifested, struck' = struck, arch' = arch
    PROVE  Manifested'
  BY DEF Manifested

LEMMA NothingStruck ==
    ASSUME struck' = NoStrike
    PROVE  Manifested'
  BY ZenonT(30) DEF Manifested, NoStrike
LEMMA ManifestedAfter ==
    ASSUME NEW h, NEW t, NEW f, NEW b, NEW a,
           struck' = [hook |-> h, type |-> t, fault |-> f, before |-> b, after |-> a],
           t # "bool" /\ ~(h = "lds" /\ arch' = "x86") =>
            \A k \in 0..(Bits(Width(t)) - 1) : FlatBit(a, k) = Expected(f, t, b, k)
    PROVE  Manifested'
<1>1. /\ struck'.hook = h /\ struck'.type = t /\ struck'.fault = f
      /\ struck'.before = b /\ struck'.after = a
  BY ZenonT(30)
<1>2. struck'.hook # "none" /\ struck'.type # "bool" /\ ~(struck'.hook = "lds" /\ arch' = "x86") =>
        \A k \in 0..(Bits(Width(struck'.type)) - 1) :
            FlatBit(struck'.after, k) = Expected(struck'.fault, struck'.type, struck'.before, k)
  BY <1>1, ZenonT(30)
<1> QED BY <1>2, ZenonT(30) DEF Manifested

LEMMA ManifestedStep ==
    ASSUME Manifested, ExecInv, QueueInv, [Next]_vars
    PROVE  Manifested'
<1>1. CASE (ReadFault /\ UNCHANGED cpuVars) \/ UNCHANGED vars
  BY <1>1, ManifestedStays, ZenonT(30) DEF vars, cpuVars
<1>2. ASSUME NEW a \in DOMAIN Program, Fetch(a) PROVE Manifested'
  BY <1>2, NothingStruck, ZenonT(30) DEF Fetch
<1>3. CASE Decode
  BY <1>3, NothingStruck DEF Decode
<1>4. ASSUME NEW i \in DOMAIN faults, StrikeFetch(i) PROVE Manifested'
  <2> DEFINE f == faults[i]
             inst == manifest(cur.inst, InstBytes, f.value, f.what)
  <2>1. Running /\ Queue(f.class) = "fetch" /\ cur' = [cur EXCEPT !.inst = inst]
        /\ struck' = [hook |-> "fetch", type |-> "u32", fault |-> f,
                      before |-> cur.inst, after |-> cur'.inst]
    BY <1>4 DEF StrikeFetch
  <2>2. Queued(f)
    BY <2>1, Picked
  <2>3. Corrected(f, "u32") = f
    BY <2>1, <2>2, FetchUncorrected, ZenonT(30)
  <2>4. Width("u32") = InstBytes /\ "u32" \in AllTypes /\ cur.inst \in Value(Width("u32"))
    BY WidthIn, SMTT(30) DEF AllTypes, ExecInv
  <2>5. \A k \in 0..(Bits(Width("u32")) - 1) : FlatBit(inst, k) = Expected(f, "u32", cur.inst, k)
    BY <2>2, <2>3, <2>4, StrikeBits
  <2> HIDE DEF inst
  <2>6. cur'.inst = inst
    BY <2>1, SMTT(30) DEF ExecInv
  <2> QED BY <2>1, <2>5, <2>6, ManifestedAfter
<1>5. ASSUME NEW i \in DOMAIN faults, StrikeDecode(i) PROVE Manifested'
  BY <1>5, ManifestedStays, Zenon DEF StrikeDecode, Keep
<1>6. ASSUME NEW i \in DOMAIN faults, StrikeOperand(i) PROVE Manifested'
  <2> DEFINE type == IF operand.hook = "lds" /\ arch = "x86" THEN "u64" ELSE operand.type
             f == Corrected(faults[i], type)
             w == Altered(f, operand)
  <2>1. Running /\ stage = "operand" /\ arch' = arch
    BY <1>6 DEF StrikeOperand, Keep
  <2>2. Queued(faults[i])
    BY <2>1, Picked, ZenonT(30)
  <2>3. InHand(operand)
    BY <2>1 DEF ExecInv
  <2>4. CASE operand.hook = "lds" /\ arch = "alpha" /\ operand.type = "u32"
    BY <1>6, <2>1, <2>4, ManifestedStays, ZenonT(30) DEF StrikeOperand
  <2>5. CASE ~(operand.hook = "lds" /\ arch = "alpha" /\ operand.type = "u32")
    <3>1. operand' = [operand EXCEPT !.value = w]
          /\ struck' = [hook |-> operand.hook, type |-> operand.type, fault |-> faults[i],
                        before |-> operand.value, after |-> operand'.value]
      BY <1>6, <2>5, ZenonT(30) DEF StrikeOperand
    <3>2. ASSUME operand.type # "bool", ~(operand.hook = "lds" /\ arch = "x86")
          PROVE  \A k \in 0..(Bits(Width(operand.type)) - 1) :
                    FlatBit(w, k) = Expected(faults[i], operand.type, operand.value, k)
      <4>1. type = operand.type /\ w = manifest(operand.value, Width(type), f.value, f.what)
        BY <3>2, ZenonT(30) DEF Altered
      <4>2. type \in AllTypes /\ operand.value \in Value(Width(type))
        BY <2>3, <4>1 DEF InHand
      <4> HIDE DEF type, w
      <4> QED BY <2>2, <4>1, <4>2, StrikeBits, ZenonT(60)
    <3> HIDE DEF w
    <3>3. operand'.value = w
      BY <2>3, <3>1, ZenonT(30) DEF InHand
    <3> QED BY <2>1, <3>1, <3>2, <3>3, ManifestedAfter, ZenonT(30)
  <2> QED BY <2>4, <2>5
<1>7. ASSUME NEW hook, NEW type, NEW x, Operand(hook, type, x) PROVE Manifested'
  BY <1>7, NothingStruck, ZenonT(30) DEF Operand
<1>8. CASE Retire
  BY <1>8, NothingStruck DEF Retire
<1> QED BY <1>1, <1>2, <1>3, <1>4, <1>5, <1>6, <1>7, <1>8, ZenonT(30) DEF Next

(* Every strike changes the bits the fault file says and no other one, for *)
(* every width of values, every program and every fault file.              *)
THEOREM StrikesManifest == Spec => []Manifested
<1> DEFINE Inv == ReaderInv /\ ExecInv /\ QueueInv /\ Manifested
<1>1. Init => Inv
  <2>1. Init => Manifested
    BY DEF Init, Manifested, NoStrike
  <2> QED BY <2>1, ReaderInit, ExecInit, ZenonT(30)
<1>2. Inv /\ [Next]_vars => Inv'
  BY ReaderStep, ExecStep, ManifestedStep
<1> QED BY <1>1, <1>2, PTL DEF Spec

=============================================================================
