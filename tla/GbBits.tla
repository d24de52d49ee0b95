------------------------------- MODULE GbBits -------------------------------
(***************************************************************************)
(* Bytes and words as the Game Boy emulator sees them.  A register that    *)
(* the code only masks and tests is a set of bit numbers in the models;    *)
(* these operators go from one view to the other.                          *)
(***************************************************************************)
EXTENDS Integers, Sequences, FiniteSetsExt

ByteMax == 255
WordMax == 65535
Byte == 0..ByteMax
Word == 0..WordMax

\* Written out, as what they are, so that proofs can compute with them.
Power(i)  == <<1, 2, 4, 8, 16, 32, 64, 128, 256, 512>>[i + 1]
Bit(v, i) == (v \div Power(i)) % 2
BitsOf(v) == {i \in 0..7 : Bit(v, i) = 1}
ByteOf(S) == LET w(i) == IF i \in S THEN Power(i) ELSE 0
             IN  w(0) + w(1) + w(2) + w(3) + w(4) + w(5) + w(6) + w(7)

And8(x, y) == ByteOf(BitsOf(x) \cap BitsOf(y))
Or8(x, y)  == ByteOf(BitsOf(x) \cup BitsOf(y))
Xor8(x, y) == ByteOf((BitsOf(x) \cup BitsOf(y)) \ (BitsOf(x) \cap BitsOf(y)))

Hi(w) == w \div 256
Lo(w) == w % 256
Nibble(v) == v % 16
Low12(w) == w % 4096
Double(v) == (v * 2) % 256
WordOf(h, l) == h * 256 + l

\* v as i8, and additions that wrap at 16 bits.
Signed(v) == IF v > 127 THEN v - 256 ELSE v
Wrap16(n) == n % 65536

(***************************************************************************)
(* A memory is a function on the addresses that hold something other than  *)
(* zero: an address outside its domain reads as zero.                      *)
(***************************************************************************)
NoMemory == <<>>
At(f, i) == IF i \in DOMAIN f THEN f[i] ELSE 0
Stored(f, i, v) ==
  [j \in (IF v = 0 THEN DOMAIN f \ {i} ELSE DOMAIN f \cup {i}) |-> IF j = i THEN v ELSE f[j]]
\* f with the cells of g over it.
Overlaid(f, g) ==
  [i \in (DOMAIN f \ DOMAIN g) \cup {j \in DOMAIN g : g[j] # 0} |->
     IF i \in DOMAIN g THEN g[i] ELSE f[i]]
=============================================================================
