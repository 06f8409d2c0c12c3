---------------------------- MODULE AddressBlocks ----------------------------
(***************************************************************************)
(* Blocks of addresses as the documentation writes them, prefix/bits, over *)
(* addresses that are functions from 0 .. n-1 to bytes.  A block is the    *)
(* leading bytes of its prefix, the rest being 0, and the number of bits   *)
(* that count.  And the order of addresses as numbers.                     *)
(***************************************************************************)
EXTENDS Integers, Sequences

Byte == 0 .. 255

Block(prefix, bits) == [prefix |-> prefix, bits |-> bits]

PrefixByte(b, k) == IF k < Len(b.prefix) THEN b.prefix[k + 1] ELSE 0

(* How many bits of byte k count. *)
BitsOf(b, k) ==
  IF b.bits >= 8 * (k + 1) THEN 8 ELSE IF b.bits <= 8 * k THEN 0 ELSE b.bits - 8 * k

(* How many values a byte has when its first bits are given. *)
Unit(bits) == <<256, 128, 64, 32, 16, 8, 4, 2, 1>>[bits + 1]

InBlock(a, b) ==
  \A k \in DOMAIN a :
    LET unit == Unit(BitsOf(b, k)) IN a[k] \div unit = PrefixByte(b, k) \div unit

(* The first and the last address of a block. *)
FirstIn(b, n) == [k \in 0 .. n - 1 |-> PrefixByte(b, k)]
LastIn(b, n) == [k \in 0 .. n - 1 |-> PrefixByte(b, k) + Unit(BitsOf(b, k)) - 1]

(* The next and the previous address, as numbers of n bytes. *)
After(a) ==
  [k \in DOMAIN a |->
    IF \A j \in DOMAIN a : j > k => a[j] = 255 THEN (a[k] + 1) % 256 ELSE a[k]]
Before(a) ==
  [k \in DOMAIN a |->
    IF \A j \in DOMAIN a : j > k => a[j] = 0 THEN (a[k] + 255) % 256 ELSE a[k]]

(* x before y, as numbers whose digits come from the highest down.         *)
Precedes(x, y) ==
  \E k \in DOMAIN x : x[k] < y[k] /\ \A j \in DOMAIN x : j < k => x[j] = y[j]

(* The addresses on both sides of both borders of a block. *)
BordersOf(b, n) ==
  {FirstIn(b, n), LastIn(b, n), Before(FirstIn(b, n)), After(LastIn(b, n))}
=============================================================================
