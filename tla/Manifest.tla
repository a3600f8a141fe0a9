------------------------------ MODULE Manifest ------------------------------
(***************************************************************************)
(* How a fault alters a value: InjectedFault::manifest and the byte loops  *)
(* it calls.  A value of n bytes is a function on 0..n-1, the least        *)
(* significant byte first, as it lies in memory; a byte is a function from *)
(* the positions of its bits.  The operand of a fault is a uint64_t, a     *)
(* number below 2^(ByteBits * WordBytes).                                  *)
(***************************************************************************)
EXTENDS Integers

CONSTANTS
    ByteBits,  \* bits of a byte (8)
    WordBytes  \* bytes of a uint64_t (8)

ASSUME ManifestAssumption == ByteBits \in Nat \ {0} /\ WordBytes \in Nat \ {0}

Byte == [0..(ByteBits - 1) -> {0, 1}]
Value(n) == [0..(n - 1) -> Byte]

Bits(n) == n * ByteBits
Bit(x, k) == (x \div 2^k) % 2

(* The n low bytes of a number. *)
Bytes(x, n) ==
    [i \in 0..(n - 1) |-> [k \in 0..(ByteBits - 1) |-> Bit(x, Bits(i) + k)]]

XorByte_Sum(x, y) == [k \in DOMAIN x |-> x[k] + y[k]]

XorByte(x, y) == [k \in DOMAIN x |-> IF x[k] = y[k] THEN 0 ELSE 1]

(* The index j of the operand's byte that meets byte i of a value of n     *)
(* bytes: both loops count down from their last byte.                      *)
Partner(i, n) == i + WordBytes - n

XOR(in, n, out) ==
    [i \in 0..(n - 1) |-> XorByte(in[i], Bytes(out, WordBytes)[Partner(i, n)])]

IMMD(in, n, out) == [i \in 0..(n - 1) |-> Bytes(out, WordBytes)[Partner(i, n)]]

FLIP_FromZero(in, n, out) ==
    LET q == out \div ByteBits
        r == out % ByteBits
    IN IF q > n - 1 THEN in ELSE [in EXCEPT ![q][r] = 1 - @]

(* Bits are numbered from 1.  0 flips none, and so does a bit beyond the   *)
(* structure ("Structure is not affected by the fault").                   *)
FLIP(in, n, out) ==
    LET q == (out - 1) \div ByteBits
        r == (out - 1) % ByteBits
    IN IF out = 0 \/ q > n - 1 THEN in ELSE [in EXCEPT ![q][r] = 1 - @]

ALL(in, n, out) == [i \in 0..(n - 1) |-> [k \in 0..(ByteBits - 1) |-> out]]

manifest(in, n, out, type) ==
    CASE type = "Immd" -> IMMD(in, n, out)
      [] type = "Mask" -> XOR(in, n, out)
      [] type = "Flip" -> FLIP(in, n, out)
      [] type = "All" -> ALL(in, n, out)

=============================================================================
