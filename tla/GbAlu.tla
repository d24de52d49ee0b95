-------------------------------- MODULE GbAlu --------------------------------
(***************************************************************************)
(* The register file (gameboy/register.rs) and the arithmetic of the CPU   *)
(* (the alu_* functions of gameboy/cpu.rs).  An operator takes the         *)
(* register file r and returns the new one.  The flags are the set of      *)
(* those that are up, so the low four bits of F cannot exist: set_af       *)
(* drops them.                                                             *)
(***************************************************************************)
EXTENDS GbBits

Flag == {"Z", "N", "H", "C"}
FlagBit == [Z |-> 7, N |-> 6, H |-> 5, C |-> 4]

Registers == [a : Byte, f : SUBSET Flag, b : Byte, c : Byte, d : Byte, e : Byte,
              h : Byte, l : Byte, sp : Word, pc : Word]

\* The registers at power on, for the three hardware modes.
NewRegisters(mode) ==
  IF mode = "Classic"
  THEN [a |-> 1, f |-> {"Z", "H", "C"}, b |-> 0, c |-> 19, d |-> 0, e |-> 216,
        h |-> 1, l |-> 77, sp |-> 65534, pc |-> 256]
  ELSE [a |-> 17, f |-> {"Z"}, b |-> 0, c |-> 0, d |-> 255, e |-> 86,
        h |-> 0, l |-> 13, sp |-> 65534, pc |-> 256]

F(r)  == ByteOf({FlagBit[x] : x \in r.f})
AF(r) == WordOf(r.a, F(r))
BC(r) == WordOf(r.b, r.c)
DE(r) == WordOf(r.d, r.e)
HL(r) == WordOf(r.h, r.l)

SetAF(r, w) == [r EXCEPT !.a = Hi(w), !.f = {x \in Flag : Bit(w, FlagBit[x]) = 1}]
SetBC(r, w) == [r EXCEPT !.b = Hi(w), !.c = Lo(w)]
SetDE(r, w) == [r EXCEPT !.d = Hi(w), !.e = Lo(w)]
SetHL(r, w) == [r EXCEPT !.h = Hi(w), !.l = Lo(w)]

When(p, x) == IF p THEN {x} ELSE {}
Flags(z, n, h, c) == When(z, "Z") \cup When(n, "N") \cup When(h, "H") \cup When(c, "C")
CarryIn(r) == IF "C" \in r.f THEN 1 ELSE 0
-----------------------------------------------------------------------------
alu_add(r, v, with_carry) ==
  LET carry == IF with_carry THEN CarryIn(r) ELSE 0
      sum   == r.a + v + carry
      half  == Nibble(r.a) + Nibble(v) + carry
  IN  [r EXCEPT !.a = sum % 256, !.f = Flags(sum % 256 = 0, FALSE, half > 15, sum > 255)]

\* Mutant: the half borrow leaves the carry out.
alu_sub_half(r, v, with_carry) ==
  LET carry == IF with_carry THEN CarryIn(r) ELSE 0
      diff  == r.a - v - carry
  IN  [r EXCEPT !.a = diff % 256,
                !.f = Flags(diff % 256 = 0, TRUE, Nibble(r.a) < Nibble(v), diff < 0)]

\* result and half are signed 16-bit in the code; the low byte is kept.
alu_sub(r, v, with_carry) ==
  LET carry == IF with_carry THEN CarryIn(r) ELSE 0
      diff  == r.a - v - carry
      half  == Nibble(r.a) - Nibble(v) - carry
  IN  [r EXCEPT !.a = diff % 256, !.f = Flags(diff % 256 = 0, TRUE, half < 0, diff < 0)]

alu_cp(r, v) == [r EXCEPT !.f = alu_sub(r, v, FALSE).f]

Logic(r, result, h) == [r EXCEPT !.a = result, !.f = Flags(result = 0, FALSE, h, FALSE)]
alu_and(r, v) == Logic(r, And8(r.a, v), TRUE)
alu_or(r, v)  == Logic(r, Or8(r.a, v), FALSE)
alu_xor(r, v) == Logic(r, Xor8(r.a, v), FALSE)

\* INC and DEC leave the carry alone; they return a value, so the flags apart.
IncFlags(r, v) == (r.f \cap {"C"}) \cup Flags((v + 1) % 256 = 0, FALSE, Nibble(v) = 15, FALSE)
DecFlags(r, v) == (r.f \cap {"C"}) \cup Flags((v - 1) % 256 = 0, TRUE, Nibble(v) = 0, FALSE)

alu_add16(r, v) ==
  SetHL([r EXCEPT !.f = (@ \cap {"Z"})
                        \cup Flags(FALSE, FALSE, Low12(HL(r)) + Low12(v) > 4095,
                                        HL(r) + v > 65535)],
        Wrap16(HL(r) + v))

\* ADD SP,n and LD HL,SP+n: the flags come from the unsigned low byte.
SpFlags(r, v) == Flags(FALSE, FALSE, Nibble(r.sp) + Nibble(v) > 15, Lo(r.sp) + v > 255)
SpPlus(r, v)  == Wrap16(r.sp + Signed(v))

\* Decimal adjust: a is a signed 16-bit number, carry is set and never cleared.
alu_daa(r) ==
  LET fixed ==
        IF "N" \in r.f
        THEN (IF "H" \in r.f THEN (r.a - 6) % 256 ELSE r.a) - (IF "C" \in r.f THEN 96 ELSE 0)
        ELSE LET low == IF "H" \in r.f \/ Nibble(r.a) > 9 THEN r.a + 6 ELSE r.a
             IN  IF "C" \in r.f \/ low > 159 THEN low + 96 ELSE low
  IN  [r EXCEPT !.a = fixed % 256,
                !.f = (@ \cap {"N"}) \cup Flags(fixed % 256 = 0, FALSE, FALSE,
                                                "C" \in @ \/ fixed >= 256)]

\* Rotations, shifts and swap: the result, and the bit that leaves.
Shifted(op, v, carry) ==
  CASE op = "rlc"  -> Double(v) + v \div 128
    [] op = "rrc"  -> v \div 2 + (v % 2) * 128
    [] op = "rl"   -> Double(v) + carry
    [] op = "rr"   -> v \div 2 + carry * 128
    [] op = "sla"  -> Double(v)
    [] op = "sra"  -> v \div 2 + (v \div 128) * 128
    [] op = "swap" -> v \div 16 + Nibble(v) * 16
    [] op = "srl"  -> v \div 2
ShiftFlags(op, v, carry) ==
  Flags(Shifted(op, v, carry) = 0, FALSE, FALSE,
        CASE op \in {"rlc", "rl", "sla"}        -> v > 127
          [] op \in {"rrc", "rr", "sra", "srl"} -> v % 2 = 1
          [] op = "swap"                        -> FALSE)
BitFlags(r, v, i) == (r.f \cap {"C"}) \cup Flags(Bit(v, i) = 0, FALSE, TRUE, FALSE)
=============================================================================
