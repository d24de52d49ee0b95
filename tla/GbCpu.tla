-------------------------------- MODULE GbCpu --------------------------------
(***************************************************************************)
(* The CPU (gameboy/cpu.rs): interrupts, the delays of EI and DI, HALT and *)
(* the whole instruction set.  An operator takes the state s of the        *)
(* machine, with the CPU's own fields beside reg and mmu; ticks is what    *)
(* the last instruction took.  An instruction reads before it writes, so   *)
(* its writes wait in store, in order, until its end.                      *)
(*                                                                         *)
(* Two fields are history: opcode is the last instruction executed, and    *)
(* decimal is what a DAA after it must give.                               *)
(***************************************************************************)
EXTENDS GbAlu, GbMmu

NoDecimal == [due |-> FALSE, a |-> 0, carry |-> FALSE]

NewCpu(mode, cartridge) ==
  [reg |-> NewRegisters(mode), mmu |-> NewMmu(mode, cartridge), halted |-> FALSE,
   halt_bug |-> FALSE, ime |-> TRUE, setdi |-> 0, setei |-> 0, ticks |-> 0, store |-> <<>>,
   opcode |-> 0, decimal |-> NoDecimal]

Took(s, n)    == [s EXCEPT !.ticks = n]
Read(s, a)    == rb(s.mmu, a)
Write(s, a, v) == [s EXCEPT !.store = Append(@, <<a, v>>)]
WriteWide(s, a, w) == [s EXCEPT !.store = @ \o << <<a, Lo(w)>>, <<Wrap16(a + 1), Hi(w)>> >>]
Committed(s)   == [s EXCEPT !.mmu = AllWritten(@, s.store), !.store = <<>>]
Jump(s, a)    == [s EXCEPT !.reg.pc = a]
Skip(s, n)    == Jump(s, Wrap16(s.reg.pc + n))
WithReg(s, r) == [s EXCEPT !.reg = r]

\* The byte at PC, and the state after fetching it.  After the HALT bug PC stays.
Byte0(s) == Read(s, s.reg.pc)
Word0(s) == rw(s.mmu, s.reg.pc)
Fetched(s) == IF s.halt_bug THEN [s EXCEPT !.halt_bug = FALSE] ELSE Skip(s, 1)

\* Mutant: the word is put where SP was.
push_above(s, w) == WriteWide([s EXCEPT !.reg.sp = Wrap16(@ - 2)], s.reg.sp, w)

push(s, w) == LET sp == Wrap16(s.reg.sp - 2) IN WriteWide([s EXCEPT !.reg.sp = sp], sp, w)
Top(s)     == rw(s.mmu, s.reg.sp)
Popped(s)  == [s EXCEPT !.reg.sp = Wrap16(@ + 2)]
-----------------------------------------------------------------------------
\* The delayed DI and EI; when both run out in one step EI wins.
update_ime(s) ==
  [s EXCEPT !.setdi = IF @ = 2 THEN 1 ELSE 0, !.setei = IF @ = 2 THEN 1 ELSE 0,
            !.ime = CASE s.setei = 1 -> TRUE
                      [] s.setei # 1 /\ s.setdi = 1 -> FALSE
                      [] OTHER -> @]

Triggered(s) == s.mmu.inte \cap s.mmu.intf
Vector(i)    == 64 + i * 8

\* An interrupt is served in this step.
Dispatches(s) == s.ime /\ Triggered(s) # {} /\ Min(Triggered(s)) < 5

\* Mutants: a handler starts with interrupts on; a HALT waits for interrupts to be on.
HandlersNest(s) ==
  IF ~Dispatches(s) THEN (IF Triggered(s) = {} THEN s ELSE [s EXCEPT !.halted = FALSE])
  ELSE LET i == Min(Triggered(s))
       IN  Took(Jump(push([s EXCEPT !.halted = FALSE, !.mmu.intf = @ \ {i}], s.reg.pc), Vector(i)), 16)
HaltNeedsIme(s) ==
  IF ~Dispatches(s) THEN s
  ELSE LET i == Min(Triggered(s))
       IN  Took(Jump(push([s EXCEPT !.halted = FALSE, !.ime = FALSE, !.mmu.intf = @ \ {i}],
                          s.reg.pc), Vector(i)), 16)

\* Waking from HALT; then, if interrupts are on, the lowest of the five is
\* served.  Bits 5 to 7 turn interrupts off and serve nothing.
handle_interrupts(s) ==
  LET awake == [s EXCEPT !.halted = FALSE]
      i     == Min(Triggered(s))
      taken == [awake EXCEPT !.ime = FALSE, !.mmu.intf = @ \ {i}]
  IN  CASE (~s.ime /\ ~s.halted) \/ Triggered(s) = {} -> s
        [] Dispatches(s) -> Took(Jump(push(taken, s.reg.pc), Vector(i)), 16)
        [] s.ime /\ Triggered(s) # {} /\ i >= 5 -> [awake EXCEPT !.ime = FALSE]
        [] OTHER -> awake
-----------------------------------------------------------------------------
(***************************************************************************)
(* Operands, by their numbers in the opcodes.  An instruction has at hand  *)
(* the word nn that follows its opcode, the byte m in memory that it may   *)
(* read, and the word top of the stack.                                    *)
(***************************************************************************)
RegName == <<"b", "c", "d", "e", "h", "l", "hl", "a">>
Get8(s, i, m) == IF i = 6 THEN m ELSE s.reg[RegName[i + 1]]
Set8(s, i, v) == IF i = 6 THEN Write(s, HL(s.reg), v) ELSE [s EXCEPT !.reg[RegName[i + 1]] = v]
InMemory(i, there, here) == IF i = 6 THEN there ELSE here

\* BC, DE, HL and SP, or AF in place of SP for PUSH and POP.
Get16(r, i) == CASE i = 0 -> BC(r) [] i = 1 -> DE(r) [] i = 2 -> HL(r) [] i = 3 -> r.sp
Set16(r, i, w) == CASE i = 0 -> SetBC(r, w) [] i = 1 -> SetDE(r, w)
                    [] i = 2 -> SetHL(r, w) [] i = 3 -> [r EXCEPT !.sp = w]
GetPair(r, i) == IF i = 3 THEN AF(r) ELSE Get16(r, i)
SetPair(r, i, w) == IF i = 3 THEN SetAF(r, w) ELSE Set16(r, i, w)

\* (BC), (DE), (HL+) and (HL-).
Pointer(r, i) == IF i < 2 THEN Get16(r, i) ELSE HL(r)
Stepped(r, i) == CASE i < 2 -> r
                   [] i = 2 -> SetHL(r, Wrap16(HL(r) + 1))
                   [] i = 3 -> SetHL(r, Wrap16(HL(r) - 1))

\* The address that the opcode may read.
HighPage(n) == 65280 + n
Address(r, op, nn) ==
  CASE op < 64 /\ op % 16 = 10 -> Pointer(r, op \div 16)
    [] op = 240 -> HighPage(Lo(nn))
    [] op = 242 -> HighPage(r.c)
    [] op = 250 -> nn
    [] OTHER -> HL(r)

\* NZ, Z, NC and C.
Holds(r, cc) == CASE cc = 0 -> "Z" \notin r.f [] cc = 1 -> "Z" \in r.f
                  [] cc = 2 -> "C" \notin r.f [] cc = 3 -> "C" \in r.f

\* The eight operations on A.
Alu(r, op, v) == CASE op = 0 -> alu_add(r, v, FALSE) [] op = 1 -> alu_add(r, v, TRUE)
                   [] op = 2 -> alu_sub(r, v, FALSE) [] op = 3 -> alu_sub(r, v, TRUE)
                   [] op = 4 -> alu_and(r, v)        [] op = 5 -> alu_xor(r, v)
                   [] op = 6 -> alu_or(r, v)         [] op = 7 -> alu_cp(r, v)

ShiftOp == <<"rlc", "rrc", "rl", "rr", "sla", "sra", "swap", "srl">>
-----------------------------------------------------------------------------
JumpRelative(s, n) == Took(Skip(s, 1 + Signed(n)), 12)

\* RLCA, RRCA, RLA, RRA, DAA, CPL, SCF and CCF.
OnA(r, op) ==
  CASE op < 4 -> LET k == ShiftOp[op + 1]
                 IN  [r EXCEPT !.a = Shifted(k, @, CarryIn(r)),
                               !.f = ShiftFlags(k, r.a, CarryIn(r)) \ {"Z"}]
    [] op = 4 -> alu_daa(r)
    [] op = 5 -> [r EXCEPT !.a = 255 - @, !.f = @ \cup {"N", "H"}]
    [] op = 6 -> [r EXCEPT !.f = (@ \cap {"Z"}) \cup {"C"}]
    [] op = 7 -> [r EXCEPT !.f = (@ \cap {"Z"}) \cup ({"C"} \ @)]

\* Opcodes 0x00 to 0x3F; s is the state after the opcode was fetched.
Low(s, y, z, nn, m) ==
  LET p == y \div 2
      r == s.reg
      v == Get8(s, y, m)
      step == IF y % 2 = 0 THEN 1 ELSE -1
  IN CASE z = 0 /\ y = 0 -> Took(s, 4)
       [] z = 0 /\ y = 1 -> Took(WriteWide(Skip(s, 2), nn, r.sp), 20)
       [] z = 0 /\ y = 2 -> Took([s EXCEPT !.mmu = switch_speed(@)], 4)
       [] z = 0 /\ y = 3 -> JumpRelative(s, Lo(nn))
       [] z = 0 /\ y > 3 -> IF Holds(r, y - 4) THEN JumpRelative(s, Lo(nn)) ELSE Took(Skip(s, 1), 8)
       [] z = 1 /\ y % 2 = 0 -> Took(Skip(WithReg(s, Set16(r, p, nn)), 2), 12)
       [] z = 1 /\ y % 2 = 1 -> Took(WithReg(s, alu_add16(r, Get16(r, p))), 8)
       [] z = 2 /\ y % 2 = 0 -> Took(WithReg(Write(s, Pointer(r, p), r.a), Stepped(r, p)), 8)
       [] z = 2 /\ y % 2 = 1 -> Took(WithReg(s, Stepped([r EXCEPT !.a = m], p)), 8)
       [] z = 3 -> Took(WithReg(s, Set16(r, p, Wrap16(Get16(r, p) + step))), 8)
       [] z = 4 -> Took(Set8([s EXCEPT !.reg.f = IncFlags(r, v)], y, (v + 1) % 256), InMemory(y, 12, 4))
       [] z = 5 -> Took(Set8([s EXCEPT !.reg.f = DecFlags(r, v)], y, (v - 1) % 256), InMemory(y, 12, 4))
       [] z = 6 -> Took(Set8(Skip(s, 1), y, Lo(nn)), InMemory(y, 12, 8))
       [] z = 7 -> Took(WithReg(s, OnA(r, y)), 4)

HALT(s) == Took([s EXCEPT !.halted = TRUE, !.halt_bug = @ \/ (~s.ime /\ Triggered(s) # {})], 4)

\* Opcodes 0x40 to 0xBF: moves between operands, and arithmetic on A.
Move(s, y, z, m)       == Took(Set8(s, y, Get8(s, z, m)), IF 6 \in {y, z} THEN 8 ELSE 4)
Arithmetic(s, y, z, m) == Took(WithReg(s, Alu(s.reg, y, Get8(s, z, m))), InMemory(z, 8, 4))

\* Opcodes after the prefix 0xCB.
execute_cb(s, op, m) ==
  LET x  == op \div 64
      i  == op % 8
      y  == (op \div 8) % 8
      v  == Get8(s, i, m)
      c  == CarryIn(s.reg)
      flags == CASE x = 0 -> ShiftFlags(ShiftOp[y + 1], v, c)
                 [] x = 1 -> BitFlags(s.reg, v, y)
                 [] OTHER -> s.reg.f
      value == CASE x = 0 -> Shifted(ShiftOp[y + 1], v, c)
                 [] x = 1 -> v
                 [] x = 2 -> v - Bit(v, y) * Power(y)
                 [] x = 3 -> v + (1 - Bit(v, y)) * Power(y)
      flagged == [s EXCEPT !.reg.f = flags]
  IN  Took(IF x = 1 THEN flagged ELSE Set8(flagged, i, value), InMemory(i, 16, 8))

\* 0xE0, 0xE8, 0xF0, 0xF8: the high page, and arithmetic on SP.
WithOffset(s, y, n, m) ==
  LET t == Skip(s, 1)
      flagged == [t EXCEPT !.reg.f = SpFlags(s.reg, n)]
  IN CASE y = 4 -> Took(Write(t, HighPage(n), s.reg.a), 12)
       [] y = 5 -> Took([flagged EXCEPT !.reg.sp = SpPlus(s.reg, n)], 16)
       [] y = 6 -> Took([t EXCEPT !.reg.a = m], 12)
       [] y = 7 -> Took([flagged EXCEPT !.reg = SetHL(@, SpPlus(s.reg, n))], 12)

(***************************************************************************)
(* Decimal numbers, and what DAA must make of the sum or the difference of *)
(* two of them; immediate operands only.                                   *)
(***************************************************************************)
IsDecimal(v) == v \div 16 < 10 /\ Nibble(v) < 10
Tens(v)      == (v \div 16) * 10 + Nibble(v)
AsDecimal(n) == (n \div 10) * 16 + (n % 10)
DecimalAfter(r, y, v) ==
  LET c == IF y \in {1, 3} THEN CarryIn(r) ELSE 0
      n == IF y < 2 THEN Tens(r.a) + Tens(v) + c ELSE Tens(r.a) - Tens(v) - c
  IN  IF y < 4 /\ IsDecimal(r.a) /\ IsDecimal(v)
      THEN [due |-> TRUE, a |-> AsDecimal(n % 100), carry |-> n < 0 \/ n > 99]
      ELSE NoDecimal

WithByte(s, y, v) ==
  Took([s EXCEPT !.reg = Alu(@, y, v), !.decimal = DecimalAfter(s.reg, y, v)], 8)

Call(s, a, n)     == Took(Jump(push(s, s.reg.pc), a), n)
Return(s, top, n) == Took(Jump(Popped(s), top), n)

\* Opcodes 0xC0 to 0xFF; those that no instruction has take four ticks.
High(s, y, z, nn, m, top) ==
  LET p == y \div 2
      r == s.reg
      after == Skip(s, 2)
  IN CASE z = 0 /\ y < 4 -> IF Holds(r, y) THEN Return(s, top, 20) ELSE Took(s, 8)
       [] z = 0 /\ y > 3 -> WithOffset(s, y, Lo(nn), m)
       [] z = 1 /\ y % 2 = 0 -> LET t == Popped(s) IN Took(WithReg(t, SetPair(t.reg, p, top)), 12)
       [] z = 1 /\ y = 1 -> Return(s, top, 16)
       [] z = 1 /\ y = 3 -> [Return(s, top, 16) EXCEPT !.ime = TRUE]
       [] z = 1 /\ y = 5 -> Took(Jump(s, HL(r)), 4)
       [] z = 1 /\ y = 7 -> Took([s EXCEPT !.reg.sp = HL(r)], 8)
       [] z = 2 /\ y < 4 -> IF Holds(r, y) THEN Took(Jump(s, nn), 16) ELSE Took(after, 12)
       [] z = 2 /\ y = 4 -> Took(Write(s, HighPage(r.c), r.a), 8)
       [] z = 2 /\ y = 5 -> Took(Write(after, nn, r.a), 16)
       [] z = 2 /\ y = 6 -> Took([s EXCEPT !.reg.a = m], 8)
       [] z = 2 /\ y = 7 -> Took([after EXCEPT !.reg.a = m], 16)
       [] z = 3 /\ y = 0 -> Took(Jump(s, nn), 16)
       [] z = 3 /\ y = 1 -> execute_cb(Skip(s, 1), Lo(nn), m)
       [] z = 3 /\ y = 6 -> Took([s EXCEPT !.setdi = 2], 4)
       [] z = 3 /\ y = 7 -> Took([s EXCEPT !.setei = 2], 4)
       [] z = 4 /\ y < 4 -> IF Holds(r, y) THEN Call(after, nn, 24) ELSE Took(after, 12)
       [] z = 5 /\ y % 2 = 0 -> Took(push(s, GetPair(r, p)), 16)
       [] z = 5 /\ y = 1 -> Call(after, nn, 24)
       [] z = 6 -> WithByte(Skip(s, 1), y, Lo(nn))
       [] z = 7 -> Call(s, y * 8, 16)
       [] OTHER -> Took(s, 4)

execute(s0) ==
  LET op  == Byte0(s0)
      s   == [Fetched(s0) EXCEPT !.opcode = op, !.decimal = NoDecimal]
      y   == (op \div 8) % 8
      z   == op % 8
      nn  == Word0(s)
      m   == Read(s, Address(s.reg, op, nn))
      top == Top(s)
  IN CASE op < 64          -> Low(s, y, z, nn, m)
       [] op = 118         -> HALT(s)
       [] 64 <= op /\ op < 128 /\ op # 118 -> Move(s, y, z, m)
       [] 128 <= op /\ op < 192 -> Arithmetic(s, y, z, m)
       [] op >= 192        -> High(s, y, z, nn, m, top)
-----------------------------------------------------------------------------
\* The machine outside the CPU runs for as long as the instruction took.
Clocked(s) == LET t == Committed(s) IN [t EXCEPT !.mmu = do_cycle(@, t.ticks)]
=============================================================================
