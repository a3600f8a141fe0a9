-------------------------- MODULE DecodeCache_proofs --------------------------
(***************************************************************************)
(* What the decode faults do to the instructions the decode cache keeps,   *)
(* for every program, ISA and fault file.                                  *)
(***************************************************************************)
EXTENDS Effects_proofs, FiniteSetTheorems

Sides == {"Src", "Dst"}

(* The decode cache holds instructions with the operands of the ISA. *)
MapInv ==
    /\ DOMAIN instMap \subseteq Value(InstBytes)
    /\ \A a \in DOMAIN pages : pages[a] \in DOMAIN instMap
    /\ \A inst \in DOMAIN instMap : instMap[inst] \in [Sides -> Seq(Nat)]
    /\ \A inst \in DOMAIN instMap, side \in Sides :
        DOMAIN instMap[inst][side] = DOMAIN decodeInst(inst)[side]

LEMMA NonEmptyLen ==
    ASSUME NEW S, NEW l \in Seq(S), l # <<>>
    PROVE  Len(l) \in Nat \ {0} /\ DOMAIN l = 1..Len(l)
OBVIOUS

LEMMA DecodeType ==
    ASSUME NEW inst \in Value(InstBytes)
    PROVE  decodeInst(inst) \in [Sides -> Seq(Nat)]
<1> DEFINE low == Bits(InstBytes) - OpcodeBits
<1>1. InstBytes \in Nat /\ Bits(InstBytes) \in Nat /\ OpcodeBits \in Nat /\ low \in Nat
  <2>1. InstBytes \in Nat /\ ByteBits \in Nat
    BY WidthIn, ManifestAssumption
  <2>2. OpcodeBits \in 0..(ByteBits * InstBytes)
    BY EffectsAssumption DEF InstBytes
  <2> QED BY <2>1, <2>2 DEF Bits
<1>2. \A k \in 0..(OpcodeBits - 1) : low + k \in 0..(Bits(InstBytes) - 1)
  BY <1>1
<1>3. ASSUME NEW j \in 0..(Bits(InstBytes) - 1) PROVE FlatBit(inst, j) \in {0, 1}
  <2>1. j \div ByteBits \in 0..(InstBytes - 1) /\ j % ByteBits \in 0..(ByteBits - 1)
    BY <1>1, FlatPlace
  <2> QED BY <2>1, ZenonT(30) DEF FlatBit, Value, Byte
<1>4. \A k \in 0..(OpcodeBits - 1) : FlatBit(inst, low + k) \in {0, 1}
  BY <1>2, <1>3
<1>5. Opcode(inst) \in [0..(OpcodeBits - 1) -> {0, 1}]
  BY <1>4, ZenonT(30) DEF Opcode
<1> QED BY <1>5, EffectsAssumption DEF decodeInst, Sides

(* The step assigns one operand of one cached instruction to the register  *)
(* the fault f moves it to.                                                *)
Alters(f) ==
    \E inst \in DOMAIN instMap, side \in Sides :
        \E at \in DOMAIN instMap[inst][side] :
            LET reg == DestinationReg(f, instMap[inst][side][at]) IN
            /\ reg \in Nat
            /\ instMap' = [instMap EXCEPT ![inst][side][at] = reg]
            /\ hits' = [hits EXCEPT ![inst] = @ + 1]

(* What decode_fault does to the cached instruction. *)
LEMMA StrikeAlters ==
    ASSUME ExecInv, QueueInv, CacheInv, MapInv, NEW i \in DOMAIN faults, StrikeDecode(i)
    PROVE  UNCHANGED <<instMap, hits>> \/ Alters(faults[i])
<1> DEFINE f == faults[i]
           inst == pages[cur.addr]
           regs == instMap[inst][f.extra.side]
           at == (f.extra.operand % Len(regs)) + 1
           reg == DestinationReg(f, regs[at])
<1>1. Running /\ stage = "decoded" /\ Queue(f.class) = "decode"
  BY ZenonT(30) DEF StrikeDecode
<1>2. f.extra \in [side : Sides, operand : Nat, reg : Nat] /\ reg \in Nat
  BY <1>1, Picked, DecodeQueue, ZenonT(30) DEF Sides
<1>3. f.extra.side \in Sides /\ f.extra.operand \in Nat
  BY <1>2, Zenon
<1>4. inst \in DOMAIN instMap
  BY <1>1 DEF CacheInv, CacheShape, MapInv
<1>5. regs \in Seq(Nat)
  BY <1>3, <1>4 DEF MapInv
<1>6. CASE regs = <<>>
  BY <1>6, SMTT(30) DEF StrikeDecode
<1>7. CASE regs # <<>>
  <2>1. instMap' = [instMap EXCEPT ![inst][f.extra.side][at] = reg]
        /\ hits' = [hits EXCEPT ![inst] = @ + 1]
    BY <1>7, Zenon DEF StrikeDecode
  <2>2. at \in DOMAIN regs
    <3>1. Len(regs) \in Nat \ {0} /\ DOMAIN regs = 1..Len(regs)
      BY <1>5, <1>7, NonEmptyLen, Zenon
    <3> DEFINE n == Len(regs)
    <3> HIDE DEF n
    <3>2. n \in Nat \ {0} => (f.extra.operand % n) + 1 \in 1..n
      BY <1>3
    <3> QED BY <3>1, <3>2, ZenonT(30) DEF n
  <2> HIDE DEF inst, at
  <2> QED BY <1>2, <1>3, <1>4, <2>1, <2>2, ZenonT(30) DEF Alters
<1> QED BY <1>6, <1>7

(* Where an assignment to an operand reaches. *)
LEMMA Reaches ==
    ASSUME MapInv, NEW inst \in DOMAIN instMap, NEW side \in Sides,
           NEW at \in DOMAIN instMap[inst][side], NEW reg \in Nat,
           instMap' = [instMap EXCEPT ![inst][side][at] = reg]
    PROVE  /\ DOMAIN instMap' = DOMAIN instMap
           /\ instMap'[inst] \in [Sides -> Seq(Nat)]
           /\ \A x \in DOMAIN instMap : x # inst => instMap'[x] = instMap[x]
           /\ \A s \in Sides : s # side => instMap'[inst][s] = instMap[inst][s]
           /\ instMap'[inst][side][at] = reg
           /\ DOMAIN instMap'[inst][side] = DOMAIN instMap[inst][side]
           /\ \A k \in DOMAIN instMap[inst][side] :
                k # at => instMap'[inst][side][k] = instMap[inst][side][k]
<1> DEFINE old == instMap[inst]
           regs == old[side]
           new == [regs EXCEPT ![at] = reg]
           both == [old EXCEPT ![side] = new]
<1>1. old \in [Sides -> Seq(Nat)] /\ regs \in Seq(Nat)
  BY DEF MapInv
<1>2. instMap' = [instMap EXCEPT ![inst] = both]
  OBVIOUS
<1>3. new \in Seq(Nat) /\ new[at] = reg /\ DOMAIN new = DOMAIN regs
      /\ \A k \in DOMAIN regs : k # at => new[k] = regs[k]
  BY <1>1
<1> HIDE DEF new
<1>4. both \in [Sides -> Seq(Nat)] /\ both[side] = new
      /\ \A s \in Sides : s # side => both[s] = old[s]
  BY <1>1, <1>3, ZenonT(30)
<1> HIDE DEF both
<1>5. DOMAIN instMap' = DOMAIN instMap /\ instMap'[inst] = both
      /\ \A x \in DOMAIN instMap : x # inst => instMap'[x] = instMap[x]
  BY <1>2
<1> QED BY <1>3, <1>4, <1>5, Zenon
(* What BasicDecodeCache::decode adds to the cache. *)
LEMMA DecodeAdds ==
    ASSUME CacheInv, MapInv, Decode
    PROVE  /\ DOMAIN instMap' = DOMAIN instMap \cup {cur.inst}
           /\ \A x \in DOMAIN instMap : instMap'[x] = instMap[x] /\ hits'[x] = hits[x]
           /\ cur.inst \notin DOMAIN instMap =>
                instMap'[cur.inst] = decodeInst(cur.inst) /\ hits'[cur.inst] = 0
           /\ \A a \in DOMAIN pages' :
                pages'[a] = cur.inst \/ (a \in DOMAIN pages /\ pages'[a] = pages[a])
<1>1. CASE PageHit(cur.addr, cur.inst)
  <2>1. UNCHANGED <<pages, instMap, hits>>
    BY <1>1 DEF Decode
  <2>2. cur.inst \in DOMAIN instMap
    BY <1>1 DEF PageHit, MapInv
  <2> QED BY <2>1, <2>2, ZenonT(30)
<1>2. CASE ~PageHit(cur.addr, cur.inst)
  <2>1. pages' = Extend(pages, cur.addr, cur.inst)
    BY <1>2 DEF Decode
  <2>2. \A a \in DOMAIN pages' :
            pages'[a] = cur.inst \/ (a \in DOMAIN pages /\ pages'[a] = pages[a])
    BY <2>1 DEF Extend
  <2>3. CASE cur.inst \in DOMAIN instMap
    <3>1. UNCHANGED <<instMap, hits>>
      BY <1>2, <2>3, ZenonT(30) DEF Decode
    <3> QED BY <2>2, <2>3, <3>1, ZenonT(30)
  <2>4. CASE cur.inst \notin DOMAIN instMap
    <3>1. /\ instMap' = Extend(instMap, cur.inst, decodeInst(cur.inst))
          /\ hits' = Extend(hits, cur.inst, 0)
      BY <1>2, <2>4, SMTT(30) DEF Decode
    <3>2. DOMAIN hits = DOMAIN instMap
      BY DEF CacheInv, CacheShape
    <3>3. /\ DOMAIN instMap' = DOMAIN instMap \cup {cur.inst}
          /\ instMap'[cur.inst] = decodeInst(cur.inst)
          /\ \A x \in DOMAIN instMap : instMap'[x] = instMap[x]
      BY <2>4, <3>1, ZenonT(30) DEF Extend
    <3>4. hits'[cur.inst] = 0 /\ \A x \in DOMAIN instMap : hits'[x] = hits[x]
      BY <2>4, <3>1, <3>2, ZenonT(30) DEF Extend
    <3> QED BY <2>2, <3>3, <3>4, ZenonT(30)
  <2> QED BY <2>3, <2>4, ZenonT(30)
<1> QED BY <1>1, <1>2, ZenonT(30)

LEMMA DecodeMap ==
    ASSUME ExecInv, CacheInv, MapInv, Decode
    PROVE  MapInv'
<1> DEFINE c == cur.inst
<1>1. c \in Value(InstBytes)
  BY DEF ExecInv
<1>2. decodeInst(c) \in [Sides -> Seq(Nat)]
  BY <1>1, DecodeType, ZenonT(30)
<1>3. DOMAIN instMap' \subseteq Value(InstBytes) /\ \A a \in DOMAIN pages' : pages'[a] \in DOMAIN instMap'
  BY <1>1, DecodeAdds, ZenonT(30) DEF MapInv
<1>4. ASSUME NEW inst \in DOMAIN instMap'
      PROVE  /\ instMap'[inst] \in [Sides -> Seq(Nat)]
             /\ \A side \in Sides : DOMAIN instMap'[inst][side] = DOMAIN decodeInst(inst)[side]
  <2>1. CASE inst \in DOMAIN instMap
    <3>1. instMap'[inst] = instMap[inst]
      BY <2>1, DecodeAdds, ZenonT(30)
    <3> QED BY <2>1, <3>1, ZenonT(30) DEF MapInv
  <2>2. CASE inst \notin DOMAIN instMap
    <3>1. inst = c /\ instMap'[inst] = decodeInst(c)
      BY <2>2, DecodeAdds, SMTT(30)
    <3> QED BY <1>2, <3>1, ZenonT(30)
  <2> QED BY <2>1, <2>2, ZenonT(30)
<1> QED BY <1>3, <1>4, ZenonT(30) DEF MapInv

LEMMA StrikeMap ==
    ASSUME ExecInv, QueueInv, CacheInv, MapInv, NEW i \in DOMAIN faults, StrikeDecode(i)
    PROVE  MapInv'
<1>1. pages' = pages
  BY Zenon DEF StrikeDecode
<1>2. CASE UNCHANGED <<instMap, hits>>
  BY <1>1, <1>2, ZenonT(30) DEF MapInv
<1>3. ASSUME NEW inst \in DOMAIN instMap, NEW side \in Sides,
             NEW at \in DOMAIN instMap[inst][side], NEW reg \in Nat,
             instMap' = [instMap EXCEPT ![inst][side][at] = reg]
      PROVE  MapInv'
  <2>1. DOMAIN instMap' = DOMAIN instMap
    BY <1>3, Reaches, ZenonT(30)
  <2>2. ASSUME NEW x \in DOMAIN instMap
        PROVE  /\ instMap'[x] \in [Sides -> Seq(Nat)]
               /\ \A s \in Sides : DOMAIN instMap'[x][s] = DOMAIN decodeInst(x)[s]
    <3>1. CASE x # inst
      <4>1. instMap'[x] = instMap[x]
        BY <1>3, <3>1, Reaches, ZenonT(30)
      <4> QED BY <4>1, ZenonT(30) DEF MapInv
    <3>2. CASE x = inst
      <4>1. /\ instMap'[x] \in [Sides -> Seq(Nat)]
            /\ \A s \in Sides : DOMAIN instMap'[x][s] = DOMAIN instMap[x][s]
        BY <1>3, <3>2, Reaches, ZenonT(30)
      <4> QED BY <4>1, SMTT(30) DEF MapInv
    <3> QED BY <3>1, <3>2, ZenonT(30)
  <2> QED BY <1>1, <2>1, <2>2, ZenonT(30) DEF MapInv
<1> QED
  <2>1. UNCHANGED <<instMap, hits>> \/ Alters(faults[i])
    BY StrikeAlters, Zenon
  <2>2. CASE Alters(faults[i])
    <3>1. PICK inst \in DOMAIN instMap, side \in Sides :
            \E at \in DOMAIN instMap[inst][side] :
                LET reg == DestinationReg(faults[i], instMap[inst][side][at]) IN
                /\ reg \in Nat
                /\ instMap' = [instMap EXCEPT ![inst][side][at] = reg]
                /\ hits' = [hits EXCEPT ![inst] = @ + 1]
      BY <2>2, Zenon DEF Alters
    <3>2. PICK at \in DOMAIN instMap[inst][side] :
            LET reg == DestinationReg(faults[i], instMap[inst][side][at]) IN
            /\ reg \in Nat
            /\ instMap' = [instMap EXCEPT ![inst][side][at] = reg]
            /\ hits' = [hits EXCEPT ![inst] = @ + 1]
      BY <3>1, Zenon
    <3> QED BY <1>3, <3>2, ZenonT(30)
  <2> QED BY <1>2, <2>1, <2>2, Zenon
---------------------------------------------------------------------------
LEMMA OneMore ==
    ASSUME NEW A, IsFiniteSet(A), NEW x, NEW B, B \subseteq A \cup {x}
    PROVE  /\ Cardinality(A) \in Nat /\ Cardinality(B) \in Nat
           /\ Cardinality(B) <= Cardinality(A) + 1
<1> DEFINE C == A \cup {x}
<1>1. IsFiniteSet(C) /\ (Cardinality(C) = Cardinality(A) \/ Cardinality(C) = Cardinality(A) + 1)
  BY FS_AddElement
<1>2. IsFiniteSet(B) /\ Cardinality(B) <= Cardinality(C)
  BY <1>1, FS_Subset, ZenonT(30)
<1>3. Cardinality(A) \in Nat /\ Cardinality(B) \in Nat /\ Cardinality(C) \in Nat
  BY <1>1, <1>2, FS_CardinalityType, ZenonT(30)
<1> HIDE DEF C
<1> QED BY <1>1, <1>2, <1>3

LEMMA AlteredFinite ==
    ASSUME MapInv, NEW inst \in DOMAIN instMap, NEW side \in Sides
    PROVE  IsFiniteSet(Altered_Positions(inst, side))
<1> DEFINE n == Len(instMap[inst][side])
<1>1. n \in Nat /\ DOMAIN instMap[inst][side] = 1..n
  BY DEF MapInv
<1>2. Altered_Positions(inst, side) \subseteq 1..n
  BY <1>1 DEF Altered_Positions
<1> HIDE DEF n
<1>3. IsFiniteSet(1..n)
  BY <1>1, FS_Interval, SMTT(30)
<1> QED BY <1>2, <1>3, FS_Subset, Zenon

(* The damage to one instruction. *)
Damage(inst) ==
    Cardinality(Altered_Positions(inst, "Src")) + Cardinality(Altered_Positions(inst, "Dst"))

LEMMA DamageSame ==
    ASSUME NEW x, instMap'[x] = instMap[x]
    PROVE  Damage(x)' = Damage(x)
  BY DEF Damage, Altered_Positions

LEMMA DecodeDamage ==
    ASSUME CacheInv, MapInv, DamageContained, Decode
    PROVE  DamageContained'
<1> SUFFICES ASSUME NEW x \in DOMAIN instMap' PROVE Damage(x)' <= hits'[x]
  BY DEF DamageContained, Damage
<1>1. CASE x \in DOMAIN instMap
  <2>1. instMap'[x] = instMap[x] /\ hits'[x] = hits[x]
    BY <1>1, DecodeAdds, ZenonT(30)
  <2>2. Damage(x) <= hits[x]
    BY <1>1 DEF DamageContained, Damage
  <2> QED BY <2>1, <2>2, DamageSame, ZenonT(30)
<1>2. CASE x \notin DOMAIN instMap
  <2>1. instMap'[x] = decodeInst(x) /\ hits'[x] = 0
    BY <1>2, DecodeAdds, ZenonT(30)
  <2>2. Altered_Positions(x, "Src")' = {} /\ Altered_Positions(x, "Dst")' = {}
    BY <2>1 DEF Altered_Positions
  <2>3. Damage(x)' = Cardinality({}) + Cardinality({})
    BY <2>2 DEF Damage
  <2>4. Cardinality({}) = 0
    BY FS_EmptySet, SMTT(30)
  <2> QED BY <2>1, <2>3, <2>4, SMTT(30)
<1> QED BY <1>1, <1>2, ZenonT(30)

LEMMA StrikeDamage ==
    ASSUME ExecInv, QueueInv, CacheInv, MapInv, DamageContained,
           NEW i \in DOMAIN faults, StrikeDecode(i)
    PROVE  DamageContained'
<1>1. CASE UNCHANGED <<instMap, hits>>
  BY <1>1 DEF DamageContained, Altered_Positions
<1>2. ASSUME NEW inst \in DOMAIN instMap, NEW side \in Sides,
             NEW at \in DOMAIN instMap[inst][side], NEW reg \in Nat,
             instMap' = [instMap EXCEPT ![inst][side][at] = reg],
             hits' = [hits EXCEPT ![inst] = @ + 1]
      PROVE  DamageContained'
  <2> SUFFICES ASSUME NEW x \in DOMAIN instMap' PROVE Damage(x)' <= hits'[x]
    BY ZenonT(30) DEF DamageContained, Damage
  <2>1. x \in DOMAIN instMap /\ x \in DOMAIN hits /\ hits[x] \in Nat
    BY <1>2, Reaches, ZenonT(30) DEF CacheInv, CacheShape
  <2>2. Damage(x) <= hits[x]
    BY <2>1, ZenonT(30) DEF DamageContained, Damage
  <2>3. CASE x # inst
    <3>1. instMap'[x] = instMap[x] /\ hits'[x] = hits[x]
      BY <1>2, <2>1, <2>3, Reaches, ZenonT(30)
    <3> QED BY <2>2, <3>1, DamageSame, ZenonT(30)
  <2>4. CASE x = inst
    <3> DEFINE A(s) == Altered_Positions(inst, s)
               B(s) == Altered_Positions(inst, s)'
    <3>1. \A s \in Sides : s # side => B(s) = A(s)
      BY <1>2, Reaches, ZenonT(60) DEF Altered_Positions
    <3>2. B(side) \subseteq A(side) \cup {at}
      BY <1>2, Reaches, ZenonT(60) DEF Altered_Positions
    <3>3. \A s \in Sides : IsFiniteSet(A(s))
      BY AlteredFinite, ZenonT(30)
    <3>4. hits'[x] = hits[x] + 1
      BY <1>2, <2>1, <2>4, ZenonT(30)
    <3>5. Damage(x) = Cardinality(A("Src")) + Cardinality(A("Dst"))
          /\ Damage(x)' = Cardinality(B("Src")) + Cardinality(B("Dst"))
      BY <2>4 DEF Damage
    <3>6. \A s \in Sides : Cardinality(A(s)) \in Nat
      BY <3>3, FS_CardinalityType, ZenonT(30)
    <3> HIDE DEF A, B
    <3>7. Cardinality(B(side)) \in Nat /\ Cardinality(B(side)) <= Cardinality(A(side)) + 1
      BY <3>2, <3>3, OneMore, ZenonT(30)
    <3>8. CASE side = "Src"
      <4>1. Cardinality(B("Dst")) = Cardinality(A("Dst"))
        BY <3>1, <3>8, ZenonT(30) DEF Sides
      <4> QED BY <2>1, <2>2, <3>4, <3>5, <3>6, <3>7, <3>8, <4>1, SMTT(30) DEF Sides
    <3>9. CASE side = "Dst"
      <4>1. Cardinality(B("Src")) = Cardinality(A("Src"))
        BY <3>1, <3>9, ZenonT(30) DEF Sides
      <4> QED BY <2>1, <2>2, <3>4, <3>5, <3>6, <3>7, <3>9, <4>1, SMTT(30) DEF Sides
    <3> QED BY <3>8, <3>9, ZenonT(30) DEF Sides
  <2> QED BY <2>3, <2>4, ZenonT(30)
<1> QED
  <2>1. UNCHANGED <<instMap, hits>> \/ Alters(faults[i])
    BY StrikeAlters, Zenon
  <2>2. CASE Alters(faults[i])
    <3>1. PICK inst \in DOMAIN instMap, side \in Sides :
            \E at \in DOMAIN instMap[inst][side] :
                LET reg == DestinationReg(faults[i], instMap[inst][side][at]) IN
                /\ reg \in Nat
                /\ instMap' = [instMap EXCEPT ![inst][side][at] = reg]
                /\ hits' = [hits EXCEPT ![inst] = @ + 1]
      BY <2>2, Zenon DEF Alters
    <3>2. PICK at \in DOMAIN instMap[inst][side] :
            LET reg == DestinationReg(faults[i], instMap[inst][side][at]) IN
            /\ reg \in Nat
            /\ instMap' = [instMap EXCEPT ![inst][side][at] = reg]
            /\ hits' = [hits EXCEPT ![inst] = @ + 1]
      BY <3>1, Zenon
    <3> QED BY <1>2, <3>2, ZenonT(30)
  <2> QED BY <1>1, <2>1, <2>2, Zenon
---------------------------------------------------------------------------
(* Two registers of one kind. *)
SameKind(a, b) == a >= FP_Reg_Base <=> b >= FP_Reg_Base

(* The operands of an instruction have the kinds the ISA gives them. *)
KindsKept(inst) ==
    \A side \in Sides : \A k \in DOMAIN instMap[inst][side] :
        SameKind(instMap[inst][side][k], decodeInst(inst)[side][k])

LEMMA KindIs == RegisterKindKept <=> (AllTransient => \A inst \in DOMAIN instMap : KindsKept(inst))
  BY DEF RegisterKindKept, AllTransient, KindsKept, SameKind, Sides

(* A transient fault moves an operand to a register of its kind. *)
LEMMA KindMoved ==
    ASSUME NEW f, Queued(f), Queue(f.class) = "decode", Transient(f), NEW reg \in Nat
    PROVE  SameKind(DestinationReg(f, reg), reg)
<1>1. f.extra.reg \in Nat /\ f.extra.reg < FP_Reg_Base
  BY DecodeQueue DEF Transient
<1> QED BY <1>1, EffectsAssumption, SMTT(30) DEF SameKind, DestinationReg

LEMMA DecodeKind ==
    ASSUME CacheInv, MapInv, AllTransient => \A inst \in DOMAIN instMap : KindsKept(inst), Decode
    PROVE  AllTransient' => \A inst \in DOMAIN instMap' : KindsKept(inst)'
<1> SUFFICES ASSUME AllTransient', NEW x \in DOMAIN instMap' PROVE KindsKept(x)'
  OBVIOUS
<1>1. AllTransient
  BY DEF AllTransient, Decode, fileVars
<1>2. CASE x \in DOMAIN instMap
  <2>1. instMap'[x] = instMap[x] /\ KindsKept(x)
    BY <1>1, <1>2, DecodeAdds, ZenonT(30)
  <2> QED BY <2>1, ZenonT(30) DEF KindsKept
<1>3. CASE x \notin DOMAIN instMap
  <2>1. instMap'[x] = decodeInst(x)
    BY <1>3, DecodeAdds, ZenonT(30)
  <2> QED BY <2>1, ZenonT(30) DEF KindsKept, SameKind
<1> QED BY <1>2, <1>3, ZenonT(30)

LEMMA StrikeKind ==
    ASSUME ExecInv, QueueInv, CacheInv, MapInv,
           AllTransient => \A inst \in DOMAIN instMap : KindsKept(inst),
           NEW i \in DOMAIN faults, StrikeDecode(i)
    PROVE  AllTransient' => \A inst \in DOMAIN instMap' : KindsKept(inst)'
<1> SUFFICES ASSUME AllTransient', NEW x \in DOMAIN instMap' PROVE KindsKept(x)'
  OBVIOUS
<1> DEFINE f == faults[i]
<1>1. AllTransient
  BY ZenonT(30) DEF AllTransient, StrikeDecode, Keep
<1>2. Running /\ Queue(f.class) = "decode"
  BY Zenon DEF StrikeDecode
<1>3. Queued(f) /\ Transient(f)
  <2>1. PICK S : Held(S)
    BY <1>2, Picked, ZenonT(30)
  <2>2. f \in S
    BY <2>1, SMTT(30) DEF Held
  <2> QED BY <1>1, <2>1, <2>2, ZenonT(30) DEF Held
<1>4. CASE UNCHANGED <<instMap, hits>>
  BY <1>1, <1>4, ZenonT(30) DEF KindsKept
<1>5. ASSUME NEW inst \in DOMAIN instMap, NEW side \in Sides,
             NEW at \in DOMAIN instMap[inst][side], NEW reg \in Nat,
             reg = DestinationReg(f, instMap[inst][side][at]),
             instMap' = [instMap EXCEPT ![inst][side][at] = reg]
      PROVE  KindsKept(x)'
  <2>1. x \in DOMAIN instMap
    BY <1>5, Reaches, ZenonT(30)
  <2>2. KindsKept(x)
    BY <1>1, <2>1, ZenonT(30)
  <2>3. CASE x # inst
    <3>1. instMap'[x] = instMap[x]
      BY <1>5, <2>1, <2>3, Reaches, ZenonT(30)
    <3> QED BY <2>2, <3>1, ZenonT(30) DEF KindsKept
  <2>4. CASE x = inst
    <3> SUFFICES ASSUME NEW s \in Sides, NEW k \in DOMAIN instMap'[x][s]
                 PROVE  SameKind(instMap'[x][s][k], decodeInst(x)[s][k])
      BY ZenonT(30) DEF KindsKept
    <3>1. k \in DOMAIN instMap[x][s]
      BY <1>5, <2>4, Reaches, ZenonT(60)
    <3>2. SameKind(instMap[x][s][k], decodeInst(x)[s][k])
      BY <2>2, <3>1, ZenonT(30) DEF KindsKept
    <3>3. CASE s = side /\ k = at
      <4>1. instMap[inst][side][at] \in Nat
        BY DEF MapInv
      <4>2. SameKind(reg, instMap[inst][side][at])
        BY <1>2, <1>3, <1>5, <4>1, KindMoved, ZenonT(30)
      <4>3. instMap'[x][s][k] = reg
        BY <1>5, <2>4, <3>3, Reaches, ZenonT(30)
      <4> QED BY <2>4, <3>2, <3>3, <4>2, <4>3, ZenonT(30) DEF SameKind
    <3>4. CASE s # side \/ k # at
      <4>1. instMap'[x][s][k] = instMap[x][s][k]
        BY <1>5, <2>4, <3>1, <3>4, Reaches, ZenonT(30)
      <4> QED BY <3>2, <4>1
    <3> QED BY <3>3, <3>4, ZenonT(30)
  <2> QED BY <2>3, <2>4, ZenonT(30)
<1> QED
  <2>1. UNCHANGED <<instMap, hits>> \/ Alters(f)
    BY StrikeAlters, Zenon
  <2>2. CASE Alters(f)
    <3>1. PICK inst \in DOMAIN instMap, side \in Sides :
            \E at \in DOMAIN instMap[inst][side] :
                LET reg == DestinationReg(f, instMap[inst][side][at]) IN
                /\ reg \in Nat
                /\ instMap' = [instMap EXCEPT ![inst][side][at] = reg]
                /\ hits' = [hits EXCEPT ![inst] = @ + 1]
      BY <2>2, Zenon DEF Alters
    <3>2. PICK at \in DOMAIN instMap[inst][side] :
            LET reg == DestinationReg(f, instMap[inst][side][at]) IN
            /\ reg \in Nat
            /\ instMap' = [instMap EXCEPT ![inst][side][at] = reg]
            /\ hits' = [hits EXCEPT ![inst] = @ + 1]
      BY <3>1, Zenon
    <3> QED BY <1>5, <3>2, ZenonT(30)
  <2> QED BY <1>4, <2>1, <2>2, Zenon

(* What the cache keeps, from the queues and the stages. *)
KeptInv == MapInv /\ DamageContained /\ RegisterKindKept

LEMMA KeptInit == Init => KeptInv
  BY SMTT(30) DEF Init, KeptInv, MapInv, DamageContained, RegisterKindKept

LEMMA KeptStep ==
    ASSUME ExecInv, QueueInv, CacheInv, KeptInv, [Next]_vars
    PROVE  KeptInv'
<1>1. ASSUME UNCHANGED <<pages, instMap, hits, input>> PROVE KeptInv'
  BY <1>1, Zenon DEF KeptInv, MapInv, DamageContained, Altered_Positions, RegisterKindKept
<1>2. AllTransient => \A inst \in DOMAIN instMap : KindsKept(inst)
  BY KindIs, ZenonT(30) DEF KeptInv
<1>3. (AllTransient' => \A inst \in DOMAIN instMap' : KindsKept(inst)') => RegisterKindKept'
  BY DEF RegisterKindKept, AllTransient, KindsKept, SameKind, Sides
<1>4. CASE Decode
  BY <1>2, <1>3, <1>4, DecodeMap, DecodeDamage, DecodeKind, ZenonT(30) DEF KeptInv
<1>5. ASSUME NEW i \in DOMAIN faults, StrikeDecode(i) PROVE KeptInv'
  BY <1>2, <1>3, <1>5, StrikeMap, StrikeDamage, StrikeKind, ZenonT(30) DEF KeptInv
<1>6. CASE (ReadFault /\ UNCHANGED cpuVars) \/ UNCHANGED vars
  BY <1>1, <1>6, ZenonT(30) DEF ReadFault, vars, fileVars, cpuVars
<1>7. ASSUME NEW a \in DOMAIN Program, Fetch(a) PROVE KeptInv'
  BY <1>1, <1>7, ZenonT(30) DEF Fetch, fileVars
<1>8. ASSUME NEW i \in DOMAIN faults, StrikeFetch(i) \/ StrikeOperand(i) PROVE KeptInv'
  BY <1>1, <1>8, ZenonT(30) DEF StrikeFetch, StrikeOperand, Keep
<1>9. ASSUME NEW hook, NEW type, NEW x, Operand(hook, type, x) PROVE KeptInv'
  BY <1>1, <1>9, ZenonT(30) DEF Operand, fileVars
<1>10. CASE Retire
  BY <1>1, <1>10, ZenonT(30) DEF Retire, Keep
<1> QED BY <1>4, <1>5, <1>6, <1>7, <1>8, <1>9, <1>10, ZenonT(30) DEF Next

LEMMA CacheKept == Spec => []KeptInv
<1> DEFINE Inv == ReaderInv /\ CacheInv /\ ExecInv /\ QueueInv /\ KeptInv
<1>1. Init => Inv
  BY ReaderInit, CacheInit, ExecInit, KeptInit, ZenonT(30)
<1>2. Inv /\ [Next]_vars => Inv'
  BY ReaderStep, CacheStep, ExecStep, KeptStep, ZenonT(30)
<1> QED BY <1>1, <1>2, PTL DEF Spec

(* However many decode faults strike the entries of the cache that later   *)
(* executions share, in whatever order: each strike alters at most one     *)
(* operand of one instruction.                                             *)
THEOREM DamageBounded == Spec => []DamageContained
<1>1. KeptInv => DamageContained
  BY ZenonT(30) DEF KeptInv
<1> QED BY <1>1, CacheKept, PTL

(* Decode faults that strike once and name a register below FP_Reg_Base    *)
(* never turn an integer operand into a floating-point one or the reverse, *)
(* however many of them strike one instruction.                            *)
THEOREM KindsPreserved == Spec => []RegisterKindKept
<1>1. KeptInv => RegisterKindKept
  BY DEF KeptInv
<1> QED BY <1>1, CacheKept, PTL

=============================================================================
