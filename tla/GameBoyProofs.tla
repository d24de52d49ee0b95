----------------------------- MODULE GameBoyProofs ----------------------------
(***************************************************************************)
(* Proofs about GameBoy for every cartridge, every program and every       *)
(* pattern of keys.  The part goes upwards: numbers and memories, the      *)
(* timer, the serial port, the cartridge and the picture unit each keep a  *)
(* predicate of their own (TimerOK, MbcOK, GpuOK), the memory map keeps    *)
(* them together (MmuOK), each instruction keeps that and the registers    *)
(* (CpuOK), and a step of the machine keeps InOrder, the inductive         *)
(* invariant that the theorems at the end follow from.                     *)
(***************************************************************************)
EXTENDS GameBoy, DataProofs

-----------------------------------------------------------------------------
(* Numbers.  The provers write a range of literals out, number by number:   *)
(* the ranges stay folded, and these lemmas say what is in them.            *)

LEMMA Between ==
  ASSUME NEW a \in Int, NEW b \in Int
  PROVE  \A x : x \in a..b <=> x \in Int /\ a <= x /\ x <= b
OBVIOUS

LEMMA ByteIs == \A x : x \in Byte <=> x \in Int /\ 0 <= x /\ x <= 255
<1>1. ByteMax \in Int
  BY DEF ByteMax
<1>2. \A x : x \in Byte <=> x \in Int /\ 0 <= x /\ x <= ByteMax
  BY <1>1 DEF Byte
<1> QED BY <1>2 DEF ByteMax

LEMMA WordIs == \A x : x \in Word <=> x \in Int /\ 0 <= x /\ x <= 65535
<1>1. WordMax \in Int
  BY DEF WordMax
<1>2. \A x : x \in Word <=> x \in Int /\ 0 <= x /\ x <= WordMax
  BY <1>1 DEF Word
<1> QED BY <1>2 DEF WordMax

LEMMA Powers ==
  /\ Power(0) = 1 /\ Power(1) = 2 /\ Power(2) = 4 /\ Power(3) = 8 /\ Power(4) = 16
  /\ Power(5) = 32 /\ Power(6) = 64 /\ Power(7) = 128 /\ Power(8) = 256 /\ Power(9) = 512
BY DEF Power

LEMMA BitIs ==
  ASSUME NEW v \in Nat, NEW i \in 0..9
  PROVE  Bit(v, i) \in {0, 1}
<1>1. i \in {0, 1, 2, 3, 4, 5, 6, 7, 8, 9}
  OBVIOUS
<1> QED BY <1>1, Powers DEF Bit

LEMMA ByteOfIs ==
  ASSUME NEW S
  PROVE  ByteOf(S) \in Byte /\ (S \subseteq 3..6 => ByteOf(S) <= 120)
<1> DEFINE b == (IF 0 \in S THEN 1 ELSE 0) + (IF 1 \in S THEN 2 ELSE 0) + (IF 2 \in S THEN 4 ELSE 0)
                   + (IF 3 \in S THEN 8 ELSE 0) + (IF 4 \in S THEN 16 ELSE 0) + (IF 5 \in S THEN 32 ELSE 0)
                   + (IF 6 \in S THEN 64 ELSE 0) + (IF 7 \in S THEN 128 ELSE 0)
<1>1. ByteOf(S) = b
  BY Powers DEF ByteOf
<1>2. S \subseteq 3..6 => 0 \notin S /\ 1 \notin S /\ 2 \notin S /\ 7 \notin S
  OBVIOUS
<1>3. b \in Int /\ 0 <= b /\ b <= 255 /\ (S \subseteq 3..6 => b <= 120)
  BY <1>2
<1> HIDE DEF b
<1> QED BY <1>1, <1>3, ByteIs

LEMMA Logical ==
  ASSUME NEW x, NEW y
  PROVE  And8(x, y) \in Byte /\ Or8(x, y) \in Byte /\ Xor8(x, y) \in Byte
BY ByteOfIs DEF And8, Or8, Xor8

\* A bit of a byte cleared, and set.
LEMMA BitChanged ==
  ASSUME NEW v \in Byte, NEW i \in 0..7
  PROVE  /\ v - Bit(v, i) * Power(i) \in Byte
         /\ v + (1 - Bit(v, i)) * Power(i) \in Byte
<1>0. v \in Int /\ 0 <= v /\ v <= 255
  BY ByteIs
<1> DEFINE clear == v - Bit(v, i) * Power(i)
           set == v + (1 - Bit(v, i)) * Power(i)
           Fine == clear \in Int /\ 0 <= clear /\ clear <= 255 /\ set \in Int /\ 0 <= set /\ set <= 255
<1>1. ASSUME i = 0 PROVE Fine
  <2>1. Bit(v, 0) = (v \div 1) % 2
    BY Powers DEF Bit
  <2> QED BY <1>0, <1>1, <2>1, Powers
<1>2. ASSUME i = 1 PROVE Fine
  <2>1. Bit(v, 1) = (v \div 2) % 2
    BY Powers DEF Bit
  <2> QED BY <1>0, <1>2, <2>1, Powers
<1>3. ASSUME i = 2 PROVE Fine
  <2>1. Bit(v, 2) = (v \div 4) % 2
    BY Powers DEF Bit
  <2> QED BY <1>0, <1>3, <2>1, Powers
<1>4. ASSUME i = 3 PROVE Fine
  <2>1. Bit(v, 3) = (v \div 8) % 2
    BY Powers DEF Bit
  <2> QED BY <1>0, <1>4, <2>1, Powers
<1>5. ASSUME i = 4 PROVE Fine
  <2>1. Bit(v, 4) = (v \div 16) % 2
    BY Powers DEF Bit
  <2> QED BY <1>0, <1>5, <2>1, Powers
<1>6. ASSUME i = 5 PROVE Fine
  <2>1. Bit(v, 5) = (v \div 32) % 2
    BY Powers DEF Bit
  <2> QED BY <1>0, <1>6, <2>1, Powers
<1>7. ASSUME i = 6 PROVE Fine
  <2>1. Bit(v, 6) = (v \div 64) % 2
    BY Powers DEF Bit
  <2> QED BY <1>0, <1>7, <2>1, Powers
<1>8. ASSUME i = 7 PROVE Fine
  <2>1. Bit(v, 7) = (v \div 128) % 2
    BY Powers DEF Bit
  <2> QED BY <1>0, <1>8, <2>1, Powers
<1>9. Fine
  <2> HIDE DEF Fine
  <2> QED BY <1>1, <1>2, <1>3, <1>4, <1>5, <1>6, <1>7, <1>8
<1> HIDE DEF clear, set
<1>10. clear \in Byte /\ set \in Byte
  BY <1>9, ByteIs
<1> QED BY <1>10 DEF clear, set

LEMMA Wrapped ==
  ASSUME NEW n \in Int
  PROVE  Wrap16(n) \in Word
BY WordIs DEF Wrap16

LEMMA Halves ==
  ASSUME NEW w \in Word
  PROVE  Hi(w) \in Byte /\ Lo(w) \in Byte /\ Low12(w) \in Int /\ 0 <= Low12(w) /\ Low12(w) <= 4095
<1>1. w \in Int /\ 0 <= w /\ w <= 65535
  BY WordIs
<1>2. Hi(w) \in Int /\ 0 <= Hi(w) /\ Hi(w) <= 255
  BY <1>1 DEF Hi
<1>3. Lo(w) \in Int /\ 0 <= Lo(w) /\ Lo(w) <= 255
  BY <1>1 DEF Lo
<1>4. Low12(w) \in Int /\ 0 <= Low12(w) /\ Low12(w) <= 4095
  BY <1>1 DEF Low12
<1> QED BY <1>2, <1>3, <1>4, ByteIs

LEMMA Bytes2 ==
  ASSUME NEW h \in Byte, NEW l \in Byte
  PROVE  /\ WordOf(h, l) \in Word /\ Nibble(l) \in 0..15 /\ Double(l) \in Byte
         /\ Signed(l) \in Int /\ -128 <= Signed(l) /\ Signed(l) <= 127
<1>1. h \in Int /\ 0 <= h /\ h <= 255 /\ l \in Int /\ 0 <= l /\ l <= 255
  BY ByteIs
<1>2. WordOf(h, l) \in Int /\ 0 <= WordOf(h, l) /\ WordOf(h, l) <= 65535
  BY <1>1 DEF WordOf
<1>3. Nibble(l) \in 0..15
  BY <1>1 DEF Nibble
<1>4. Signed(l) \in Int /\ -128 <= Signed(l) /\ Signed(l) <= 127
  BY <1>1 DEF Signed
<1>5. Double(l) \in Int /\ 0 <= Double(l) /\ Double(l) <= 255
  BY <1>1 DEF Double
<1> QED BY <1>2, <1>3, <1>4, <1>5, ByteIs, WordIs

-----------------------------------------------------------------------------
(* Memories.                                                               *)
Bytes(f) == \A i \in DOMAIN f : f[i] \in Byte

LEMMA AtIs ==
  ASSUME NEW f, Bytes(f), NEW i
  PROVE  At(f, i) \in Byte
BY ByteIs DEF At, Bytes

LEMMA StoredIs ==
  ASSUME NEW f, Bytes(f), NEW i, NEW v \in Byte
  PROVE  Bytes(Stored(f, i, v))
BY DEF Stored, Bytes

LEMMA OverlaidIs ==
  ASSUME NEW f, Bytes(f), NEW g, Bytes(g)
  PROVE  Bytes(Overlaid(f, g))
BY DEF Overlaid, Bytes

LEMMA NoMemoryIs == Bytes(NoMemory)
BY DEF NoMemory, Bytes

-----------------------------------------------------------------------------
(* The timer and the serial port.                                          *)
KeepsPace(tick) ==
  /\ tick.counted <= tick.edges
  /\ tick.cycles <= tick.half => tick.counted = tick.edges
TimerOK(t) == t \in Timer /\ KeepsPace(t.last)

LEMMA NewTimerOK == TimerOK(NewTimer)
BY ByteIs, DivSizeAssumption DEF TimerOK, Timer, NewTimer, KeepsPace, NoTick

LEMMA TimerRead ==
  ASSUME NEW t, TimerOK(t), NEW a, InTimer(a)
  PROVE  TimerRb(t, a) \in Byte
<1>1. t.div \in Nat /\ t.tima \in Byte /\ t.tma \in Byte /\ t.tac \in 0..7
  BY DivSizeAssumption DEF TimerOK, Timer
<1>2. (t.div \div 256) % 256 \in Int /\ 0 <= (t.div \div 256) % 256 /\ (t.div \div 256) % 256 <= 255
  BY <1>1
<1>3. t.tac + 248 \in Int /\ 0 <= t.tac + 248 /\ t.tac + 248 <= 255
  BY <1>1
<1> QED BY <1>1, <1>2, <1>3, ByteIs DEF TimerRb, InTimer

LEMMA TimerWritten ==
  ASSUME NEW t, TimerOK(t), NEW a, InTimer(a), NEW v \in Byte
  PROVE  TimerOK(TimerWb(t, a, v))
<1>1. v \in Int /\ v % 8 \in 0..7
  BY ByteIs
<1>2. 0 \in 0..DivSize - 1
  BY DivSizeAssumption
<1> QED BY <1>1, <1>2 DEF TimerOK, Timer, TimerWb, InTimer

\* The edges counted, for each bit that may be watched.
Half(b) == b \in {8, 32, 128, 512}

LEMMA EdgeCounted ==
  ASSUME NEW h, Half(h), NEW d \in Nat, NEW n \in Nat, d < DivSize
  PROVE  LET falls == (d \div h) % 2 = 1 /\ (((d + n) % DivSize) \div h) % 2 = 0
             edges == (d + n) \div (2 * h) - d \div (2 * h)
         IN  /\ edges \in Nat
             /\ falls => 1 <= edges
             /\ n <= h => edges = IF falls THEN 1 ELSE 0
<1>1. CASE h = 8
  BY <1>1, DivSizeAssumption
<1>2. CASE h = 32
  BY <1>2, DivSizeAssumption
<1>3. CASE h = 128
  BY <1>3, DivSizeAssumption
<1>4. CASE h = 512
  BY <1>4, DivSizeAssumption
<1> QED BY <1>1, <1>2, <1>3, <1>4 DEF Half

LEMMA TimerCycled ==
  ASSUME NEW t, TimerOK(t), NEW n \in Nat
  PROVE  /\ TimerOK([TimerCycle(t, n) EXCEPT !.interrupt = {}])
         /\ TimerCycle(t, n).interrupt \in SUBSET {2}
<1>1. /\ t \in Timer /\ t.div \in Nat /\ t.div < DivSize /\ t.tac \in 0..7 /\ t.tima \in Byte
      /\ t.tma \in Byte /\ t.interrupt \in SUBSET {2} /\ DivSize \in Nat /\ DivSize > 0
  BY DivSizeAssumption DEF TimerOK, Timer
<1> DEFINE h == Power(TacBit(t))
<1>2. TacBit(t) \in {3, 5, 7, 9} /\ Half(h)
  BY <1>1, Powers DEF TacBit, Half
<1>3. /\ FallingEdge(t, n) <=> (t.div \div h) % 2 = 1 /\ (((t.div + n) % DivSize) \div h) % 2 = 0
      /\ TickOf(t, n) = [cycles |-> n, half |-> h,
                         edges |-> (t.div + n) \div (2 * h) - t.div \div (2 * h),
                         counted |-> IF FallingEdge(t, n) THEN 1 ELSE 0]
  BY DEF FallingEdge, Bit, TickOf
<1>4. h \in Nat
  BY <1>2 DEF Half
<1> HIDE DEF h
<1>5. /\ TickOf(t, n).edges \in Nat
      /\ FallingEdge(t, n) => 1 <= TickOf(t, n).edges
      /\ n <= h => TickOf(t, n).edges = IF FallingEdge(t, n) THEN 1 ELSE 0
  <2> DEFINE falls == (t.div \div h) % 2 = 1 /\ (((t.div + n) % DivSize) \div h) % 2 = 0
             edges == (t.div + n) \div (2 * h) - t.div \div (2 * h)
  <2>1. TickOf(t, n).edges = edges /\ (FallingEdge(t, n) <=> falls)
    BY <1>3
  <2>2. edges \in Nat /\ (falls => 1 <= edges) /\ (n <= h => edges = IF falls THEN 1 ELSE 0)
    BY <1>1, <1>2, EdgeCounted
  <2> HIDE DEF falls, edges
  <2> QED BY <2>1, <2>2
<1>6. TickOf(t, n) \in [{"cycles", "half", "edges", "counted"} -> Nat] /\ KeepsPace(TickOf(t, n))
  <2>1. /\ DOMAIN TickOf(t, n) = {"cycles", "half", "edges", "counted"}
        /\ TickOf(t, n) = [x \in {"cycles", "half", "edges", "counted"} |-> TickOf(t, n)[x]]
        /\ TickOf(t, n).cycles = n /\ TickOf(t, n).half = h
        /\ TickOf(t, n).counted = IF FallingEdge(t, n) THEN 1 ELSE 0
    BY <1>3
  <2> QED BY <2>1, <1>4, <1>5 DEF KeepsPace
<1>7. NoTick \in [{"cycles", "half", "edges", "counted"} -> Nat] /\ KeepsPace(NoTick)
  BY DEF NoTick, KeepsPace
<1>8. (t.div + n) % DivSize \in 0..DivSize - 1
  BY <1>1
<1> DEFINE ticked == [t EXCEPT !.div = (@ + n) % DivSize, !.last = NoTick]
           watched == [ticked EXCEPT !.last = TickOf(t, n)]
<1>9. ticked \in Timer /\ ticked.last = NoTick /\ ticked.tima = t.tima /\ ticked.interrupt = t.interrupt
  BY <1>1, <1>7, <1>8 DEF Timer
<1>10. watched \in Timer /\ watched.last = TickOf(t, n) /\ watched.tima = t.tima
       /\ watched.interrupt = t.interrupt
  <2> HIDE DEF ticked
  <2> QED BY <1>6, <1>9 DEF Timer
<1> DEFINE u == TimerCycle(t, n)
           Fine == TimerOK([u EXCEPT !.interrupt = {}]) /\ u.interrupt \in SUBSET {2}
<1> SUFFICES Fine
  OBVIOUS
<1>11. \/ u \in {ticked, watched, [watched EXCEPT !.tima = t.tma, !.interrupt = {2}]}
       \/ u = [watched EXCEPT !.tima = @ + 1] /\ t.tima # 255
  BY DEF TimerCycle
<1> HIDE DEF ticked, watched, u
<1> SUFFICES u \in Timer /\ KeepsPace(u.last)
  <2>1. ASSUME NEW w \in Timer, KeepsPace(w.last)
        PROVE  TimerOK([w EXCEPT !.interrupt = {}]) /\ w.interrupt \in SUBSET {2}
    BY <2>1 DEF TimerOK, Timer
  <2> QED BY <2>1
<1>12. CASE u = ticked
  BY <1>7, <1>9, <1>12
<1>13. CASE u = watched
  BY <1>6, <1>10, <1>13
<1>14. CASE u = [watched EXCEPT !.tima = t.tma, !.interrupt = {2}]
  <2>1. u \in Timer /\ u.last = watched.last
    BY <1>1, <1>10, <1>14 DEF Timer
  <2> QED BY <1>6, <1>10, <2>1
<1>15. CASE u = [watched EXCEPT !.tima = @ + 1] /\ t.tima # 255
  <2>1. t.tima + 1 \in Byte
    BY <1>1, <1>15, ByteIs
  <2>2. u = [watched EXCEPT !.tima = t.tima + 1]
    BY <1>10, <1>15
  <2>3. u \in Timer /\ u.last = watched.last
    BY <1>10, <2>1, <2>2 DEF Timer
  <2> QED BY <1>6, <1>10, <2>3
<1> QED BY <1>11, <1>12, <1>13, <1>14, <1>15

LEMMA SerialOK == NewSerial \in Serial
BY ByteIs DEF Serial, NewSerial, TransferTicks

LEMMA SerialRead ==
  ASSUME NEW s \in Serial, NEW a
  PROVE  SerialRb(s, a) \in Byte
BY Logical DEF SerialRb, Serial

LEMMA SerialWritten ==
  ASSUME NEW s \in Serial, NEW a, NEW v \in Byte
  PROVE  SerialWb(s, a, v) \in Serial
<1>1. TransferTicks \in 0..TransferTicks
  <2>1. TransferTicks \in Nat
    BY DEF TransferTicks
  <2> QED BY <2>1
<1>2. [s EXCEPT !.data = v] \in Serial /\ [s EXCEPT !.control = v] \in Serial
  BY DEF Serial
<1>3. [s EXCEPT !.control = v, !.transferring = TRUE, !.cycles = TransferTicks] \in Serial
  BY <1>1 DEF Serial
<1> QED BY <1>2, <1>3 DEF SerialWb

LEMMA SerialCycled ==
  ASSUME NEW s \in Serial, NEW n \in Nat
  PROVE  /\ [SerialCycle(s, n) EXCEPT !.interrupt = {}] \in Serial
         /\ SerialCycle(s, n).interrupt \in SUBSET {3}
<1>0. TransferTicks \in Nat
  BY DEF TransferTicks
<1>1. s.cycles \in 0..TransferTicks /\ s.control \in Byte /\ s.control \in Int /\ s.control >= 0
      /\ s.control <= 255
  BY ByteIs DEF Serial
<1>2. n < s.cycles => s.cycles - n \in 0..TransferTicks
  BY <1>0, <1>1
<1>3. s.control % 128 \in Byte /\ 255 \in Byte
  BY <1>1, ByteIs
<1> DEFINE u == SerialCycle(s, n)
           Fine == [u EXCEPT !.interrupt = {}] \in Serial /\ u.interrupt \in SUBSET {3}
<1> SUFFICES Fine
  OBVIOUS
<1>4. \/ u = s
      \/ u = [s EXCEPT !.cycles = s.cycles - n] /\ n < s.cycles
      \/ u = [s EXCEPT !.data = 255, !.control = s.control % 128, !.interrupt = {3},
                       !.transferring = FALSE]
  BY DEF SerialCycle
<1> HIDE DEF u
<1>5. CASE u = s
  BY <1>5 DEF Serial
<1>6. CASE u = [s EXCEPT !.cycles = s.cycles - n] /\ n < s.cycles
  BY <1>2, <1>6 DEF Serial
<1>7. CASE u = [s EXCEPT !.data = 255, !.control = s.control % 128, !.interrupt = {3},
                         !.transferring = FALSE]
  <2> DEFINE k == s.control % 128
  <2> DEFINE d == 255
  <2>1. k \in Byte /\ d \in Byte /\ u = [s EXCEPT !.data = d, !.control = k, !.interrupt = {3},
                                             !.transferring = FALSE]
    BY <1>3, <1>7
  <2> HIDE DEF k, d
  <2>2. u \in Serial /\ u.interrupt = {3}
    <3>1. u \in Serial
      BY <2>1 DEF Serial
    <3>2. "interrupt" \in DOMAIN s
      BY DEF Serial
    <3> QED BY <2>1, <3>1, <3>2
  <2>3. [u EXCEPT !.interrupt = {}] \in Serial
    BY <2>2 DEF Serial
  <2> QED BY <2>2, <2>3
<1> HIDE DEF Fine
<1> QED BY <1>4, <1>5, <1>6, <1>7

-----------------------------------------------------------------------------
(* The cartridge: the bank is what the registers hold, cut to the ROM.     *)
Sizes == {2, 4, 8, 16, 32, 64, 128, 256, 512}

MbcFields ==
  {"kind", "battery", "size", "rombanks", "rambanks", "ram_on", "ram_updated", "banking_mode",
   "rombank", "rambank", "selectrtc", "rtc_latch", "rtc", "rtc_latched", "ram", "program", "regs"}

RegsOK(c) ==
  /\ DOMAIN c.regs = {"low", "high", "ram"}
  /\ c.regs.low \in Nat /\ c.regs.high \in Nat
  /\ c.kind = "MBC1" => c.regs.low <= 31 /\ c.regs.high <= 3
  /\ c.kind = "MBC5" => c.regs.low <= 255 /\ c.regs.high <= 1

MbcOK(c) ==
  /\ DOMAIN c = MbcFields
  /\ c.kind \in Kinds /\ c.size \in Nat /\ c.rombanks \in Sizes \cup {0}
  /\ c.rambanks \in {0, 1, 4, 8, 16} /\ c.rombank \in Nat /\ c.rambank \in Nat
  /\ Bytes(c.rtc) /\ Bytes(c.rtc_latched) /\ Bytes(c.ram) /\ Bytes(c.program)
  /\ RegsOK(c)
  /\ c.rombanks # 0 => c.rombank = RegisterBank(c) % c.rombanks

\* MBC1: what a ROM of N banks leaves of the two registers, and what a write to each
\* makes of the bank.
Cut1(N, high, low) == (high * 32 + low) % N
Low1(N, bank, v)   == (((bank \div 32) % 4) * 32 + v) % N
High1(N, bank, v)  == IF N > 32 THEN (bank % 32) + (v % (N \div 32)) * 32 ELSE bank

LEMMA Cut1Is ==
  ASSUME NEW N \in Sizes, NEW high \in {0, 1, 2, 3}, NEW low \in Nat, low <= 31
  PROVE  /\ Cut1(N, high, low) = IF N <= 32 THEN low % N
                                 ELSE IF N = 64 THEN (high % 2) * 32 + low
                                 ELSE high * 32 + low
         /\ Cut1(N, high, low) \in Nat
<1>1. CASE high = 0
  BY <1>1 DEF Sizes, Cut1
<1>2. CASE high = 1
  BY <1>2 DEF Sizes, Cut1
<1>3. CASE high = 2
  BY <1>3 DEF Sizes, Cut1
<1>4. CASE high = 3
  BY <1>4 DEF Sizes, Cut1
<1> QED BY <1>1, <1>2, <1>3, <1>4

LEMMA Parts1 ==
  ASSUME NEW N \in Sizes, NEW high \in {0, 1, 2, 3}, NEW low \in Nat, low <= 31
  PROVE  /\ Cut1(N, high, low) \div 32 = IF N <= 32 THEN 0 ELSE IF N = 64 THEN high % 2 ELSE high
         /\ N > 32 => Cut1(N, high, low) % 32 = low
<1> DEFINE bank == Cut1(N, high, low)
<1>1. bank = IF N <= 32 THEN low % N ELSE IF N = 64 THEN (high % 2) * 32 + low ELSE high * 32 + low
  BY Cut1Is
<1> HIDE DEF bank
<1>2. bank \div 32 = (IF N <= 32 THEN 0 ELSE IF N = 64 THEN high % 2 ELSE high)
      /\ (N > 32 => bank % 32 = low)
  <2>1. CASE high = 0
    BY <1>1, <2>1 DEF Sizes
  <2>2. CASE high = 1
    BY <1>1, <2>2 DEF Sizes
  <2>3. CASE high = 2
    BY <1>1, <2>3 DEF Sizes
  <2>4. CASE high = 3
    BY <1>1, <2>4 DEF Sizes
  <2> QED BY <2>1, <2>2, <2>3, <2>4
<1> QED BY <1>2 DEF bank

LEMMA Sets1 ==
  ASSUME NEW N \in Sizes, NEW high \in {0, 1, 2, 3}, NEW low \in Nat, low <= 31
  PROVE  /\ \A v \in Nat : v <= 31 => Low1(N, Cut1(N, high, low), v) = Cut1(N, high, v)
         /\ \A v \in {0, 1, 2, 3} : High1(N, Cut1(N, high, low), v) = Cut1(N, v, low)
<1> DEFINE bank == Cut1(N, high, low)
           q == bank \div 32
<1>1. q = IF N <= 32 THEN 0 ELSE IF N = 64 THEN high % 2 ELSE high
  BY Parts1
<1>2. (N > 32 => bank % 32 = low) /\ (N <= 32 => bank = low % N)
  BY Parts1, Cut1Is
<1> HIDE DEF q, bank
<1>3. ASSUME NEW v \in Nat, v <= 31
      PROVE  ((q % 4) * 32 + v) % N = Cut1(N, high, v)
  <2>1. CASE high = 0
    BY <1>1, <1>3, <2>1 DEF Sizes, Cut1
  <2>2. CASE high = 1
    BY <1>1, <1>3, <2>2 DEF Sizes, Cut1
  <2>3. CASE high = 2
    BY <1>1, <1>3, <2>3 DEF Sizes, Cut1
  <2>4. CASE high = 3
    BY <1>1, <1>3, <2>4 DEF Sizes, Cut1
  <2> QED BY <2>1, <2>2, <2>3, <2>4
<1>4. ASSUME NEW v \in {0, 1, 2, 3}
      PROVE  High1(N, bank, v) = Cut1(N, v, low)
  <2>1. CASE v = 0
    BY <1>2, <2>1 DEF Sizes, Cut1, High1
  <2>2. CASE v = 1
    BY <1>2, <2>2 DEF Sizes, Cut1, High1
  <2>3. CASE v = 2
    <3>1. CASE N <= 32
      BY <1>2, <2>3, <3>1 DEF Sizes, Cut1, High1
    <3>2. CASE N = 64
      BY <1>2, <2>3, <3>2 DEF Cut1, High1
    <3>3. CASE N \in {128, 256, 512}
      BY <1>2, <2>3, <3>3 DEF Cut1, High1
    <3> QED BY <3>1, <3>2, <3>3 DEF Sizes
  <2>4. CASE v = 3
    <3>1. CASE N <= 32
      BY <1>2, <2>4, <3>1 DEF Sizes, Cut1, High1
    <3>2. CASE N > 32
      BY <1>2, <2>4, <3>2 DEF Sizes, Cut1, High1
    <3> QED BY <3>1, <3>2 DEF Sizes
  <2> QED BY <2>1, <2>2, <2>3, <2>4
<1>5. ASSUME NEW v \in Nat, v <= 31 PROVE Low1(N, bank, v) = Cut1(N, high, v)
  BY <1>3, <1>5, Zenon DEF Low1, q
<1> QED BY <1>4, <1>5, Zenon DEF bank

\* MBC5: the low eight bits and the ninth.
Cut5(N, high, low) == (high * 256 + low) % N
Low5(N, bank, v)   == (((bank \div 256) % 2) * 256 + v) % N
High5(N, bank, v)  == ((bank % 256) + v * 256) % N

LEMMA Sets5 ==
  ASSUME NEW N \in Sizes, NEW high \in {0, 1}, NEW low \in Nat, low <= 255
  PROVE  /\ Cut5(N, high, low) \in Nat
         /\ \A v \in Nat : v <= 255 => Low5(N, Cut5(N, high, low), v) = Cut5(N, high, v)
         /\ \A v \in {0, 1} : High5(N, Cut5(N, high, low), v) = Cut5(N, v, low)
<1> DEFINE bank == Cut5(N, high, low)
           q == (bank \div 256) % 2
           r == bank % 256
<1>1. /\ bank \in Nat
      /\ N <= 256 => q = 0 /\ r = low % N
      /\ N = 512 => q = high /\ r = low
  <2>1. CASE high = 0
    BY <2>1 DEF Sizes, Cut5
  <2>2. CASE high = 1
    BY <2>2 DEF Sizes, Cut5
  <2> QED BY <2>1, <2>2
<1> HIDE DEF q, r, bank
<1>2. ASSUME NEW v \in Nat, v <= 255
      PROVE  (q * 256 + v) % N = Cut5(N, high, v)
  <2>1. CASE high = 0
    BY <1>1, <1>2, <2>1 DEF Sizes, Cut5
  <2>2. CASE high = 1
    BY <1>1, <1>2, <2>2 DEF Sizes, Cut5
  <2> QED BY <2>1, <2>2
<1>3. ASSUME NEW v \in {0, 1}
      PROVE  (r + v * 256) % N = Cut5(N, v, low)
  <2>1. CASE v = 0
    BY <1>1, <2>1 DEF Sizes, Cut5
  <2>2. CASE v = 1
    BY <1>1, <2>2 DEF Sizes, Cut5
  <2> QED BY <2>1, <2>2
<1>4. ASSUME NEW v \in Nat, v <= 255 PROVE Low5(N, bank, v) = Cut5(N, high, v)
  <2>1. (q * 256 + v) % N = Cut5(N, high, v)
    BY <1>2, <1>4
  <2>2. Low5(N, bank, v) = (q * 256 + v) % N
    BY DEF Low5, q
  <2> QED BY <2>1, <2>2
<1>5. ASSUME NEW v \in {0, 1} PROVE High5(N, bank, v) = Cut5(N, v, low)
  <2>1. (r + v * 256) % N = Cut5(N, v, low)
    BY <1>3, <1>5
  <2>2. High5(N, bank, v) = (r + v * 256) % N
    BY DEF High5, r
  <2> QED BY <2>1, <2>2
<1> QED BY <1>1, <1>4, <1>5, Zenon DEF bank

LEMMA BankOf ==
  ASSUME NEW c
  PROVE  /\ c.kind = "MBC0" => RegisterBank(c) = 1
         /\ c.kind = "MBC1" => RegisterBank(c) % c.rombanks = Cut1(c.rombanks, c.regs.high, c.regs.low)
         /\ c.kind = "MBC2" => RegisterBank(c) = c.regs.low
         /\ c.kind = "MBC3" => RegisterBank(c) = c.regs.low
         /\ c.kind = "MBC5" => RegisterBank(c) % c.rombanks = Cut5(c.rombanks, c.regs.high, c.regs.low)
BY DEF RegisterBank, Cut1, Cut5

\* A write that leaves the bank and its registers alone.
LEMMA BankKept ==
  ASSUME NEW c, MbcOK(c), NEW d, DOMAIN d = MbcFields, d.kind = c.kind, d.size = c.size,
         d.rombanks = c.rombanks, d.rambanks = c.rambanks, d.rombank = c.rombank, d.rambank \in Nat,
         Bytes(d.rtc), Bytes(d.rtc_latched), Bytes(d.ram), Bytes(d.program),
         DOMAIN d.regs = {"low", "high", "ram"}, d.regs.low = c.regs.low, d.regs.high = c.regs.high
  PROVE  MbcOK(d)
<1>1. RegisterBank(d) = RegisterBank(c)
  BY DEF RegisterBank
<1>2. RegsOK(d)
  BY DEF MbcOK, RegsOK
<1> QED BY <1>1, <1>2 DEF MbcOK

\* A write to the bank's registers.
LEMMA BankSet ==
  ASSUME NEW c, MbcOK(c), NEW d, DOMAIN d = MbcFields, d.kind = c.kind, d.size = c.size,
         d.rombanks = c.rombanks, d.rambanks = c.rambanks, d.rombank \in Nat, d.rambank \in Nat,
         d.rtc = c.rtc, d.rtc_latched = c.rtc_latched, d.ram = c.ram, d.program = c.program,
         RegsOK(d), d.rombanks # 0 => d.rombank = RegisterBank(d) % d.rombanks
  PROVE  MbcOK(d)
BY DEF MbcOK

LEMMA Mbc1Written ==
  ASSUME NEW c, MbcOK(c), c.kind = "MBC1", NEW a \in Word, NEW v \in Byte
  PROVE  MbcOK(Mbc1Write(c, a, v))
<1> DEFINE d == Mbc1Write(c, a, v)
<1>1. /\ c.rombanks \in Sizes \cup {0} /\ c.regs.low \in Nat /\ c.regs.low <= 31
      /\ c.regs.high \in {0, 1, 2, 3} /\ c.rombank \in Nat /\ v \in Int /\ v >= 0
      /\ DOMAIN c = MbcFields /\ DOMAIN c.regs = {"low", "high", "ram"} /\ c.rambank \in Nat
      /\ c.rambanks \in Nat
  BY ByteIs DEF MbcOK, RegsOK
<1>2. c.rombanks # 0 => c.rombank = Cut1(c.rombanks, c.regs.high, c.regs.low)
  BY BankOf DEF MbcOK
<1>3. /\ v % 32 \in Nat /\ v % 32 <= 31 /\ v % 4 \in {0, 1, 2, 3}
      /\ NotZero(v % 32) \in Nat /\ NotZero(v % 32) <= 31
  BY <1>1 DEF NotZero
<1>4. CASE Register(a) = 0
  <2>1. d = [c EXCEPT !.ram_on = Enables(v)]
    BY <1>4 DEF Mbc1Write
  <2> HIDE DEF d
  <2>2. MbcOK(d)
    BY <2>1, <1>1, BankKept DEF MbcOK, MbcFields
  <2> QED BY <2>2 DEF d
<1>5. CASE Register(a) = 1
  <2> DEFINE low == NotZero(v % 32)
             n == (((c.rombank \div 32) % 4) * 32 + low) % MaxOne(c.rombanks)
  <2>1. d = [c EXCEPT !.rombank = n, !.regs.low = low]
    BY <1>5 DEF Mbc1Write
  <2> HIDE DEF d, low
  <2>2. low \in Nat /\ low <= 31
    BY <1>3 DEF low
  <2>3. n \in Nat
    BY <1>1, <2>2 DEF MaxOne, Sizes
  <2>4. c.rombanks # 0 => n = Low1(c.rombanks, c.rombank, low)
    BY DEF MaxOne, Low1
  <2> HIDE DEF n
  <2>5. c.rombanks # 0 => n = Cut1(c.rombanks, c.regs.high, low)
    BY <2>2, <2>4, <1>1, <1>2, Sets1
  <2>6. d.regs.low = low /\ d.regs.high = c.regs.high /\ d.rombank = n /\ d.kind = "MBC1"
        /\ d.rombanks = c.rombanks
    BY <2>1, <1>1 DEF MbcFields
  <2>7. RegsOK(d)
    BY <2>1, <2>6, <1>1, <2>2 DEF RegsOK, MbcFields
  <2>8. MbcOK(d)
    BY <2>1, <2>3, <2>5, <2>6, <2>7, <1>1, BankOf, BankSet DEF MbcFields
  <2> QED BY <2>8 DEF d
<1>6. CASE Register(a) = 2
  <2> DEFINE high == v % 4
             n == IF c.rombanks > 32 THEN (c.rombank % 32) + (high % MaxOne(c.rombanks \div 32)) * 32
                  ELSE c.rombank
             b == IF c.rambanks > 1 THEN high ELSE c.rambank
  <2>1. d = [c EXCEPT !.rombank = n, !.rambank = b, !.regs.high = high, !.regs.ram = high]
    BY <1>6 DEF Mbc1Write
  <2>2. c.rombanks > 32 => MaxOne(c.rombanks \div 32) = c.rombanks \div 32 /\ c.rombanks \div 32 > 0
    BY <1>1 DEF MaxOne, Sizes
  <2> HIDE DEF high
  <2>3. high \in {0, 1, 2, 3}
    BY <1>3 DEF high
  <2>4. n \in Nat /\ b \in Nat
    BY <1>1, <2>3, <2>2 DEF Sizes
  <2>5. n = High1(c.rombanks, c.rombank, high)
    BY <2>2 DEF High1
  <2> HIDE DEF d, n, b
  <2>6. c.rombanks # 0 => n = Cut1(c.rombanks, high, c.regs.low)
    BY <2>3, <2>5, <1>1, <1>2, Sets1
  <2>7. d.regs.low = c.regs.low /\ d.regs.high = high /\ d.rombank = n /\ d.kind = "MBC1"
        /\ d.rombanks = c.rombanks
    BY <2>1, <1>1 DEF MbcFields
  <2>8. RegsOK(d)
    BY <2>1, <2>7, <1>1, <2>3 DEF RegsOK, MbcFields
  <2>9. d.rombanks # 0 => d.rombank = RegisterBank(d) % d.rombanks
    BY <2>6, <2>7, BankOf
  <2>10. /\ DOMAIN d = MbcFields /\ d.size = c.size /\ d.rambanks = c.rambanks /\ d.rambank = b
         /\ d.rtc = c.rtc /\ d.rtc_latched = c.rtc_latched /\ d.ram = c.ram /\ d.program = c.program
    BY <2>1, <1>1 DEF MbcFields
  <2>11. MbcOK(d)
    BY <2>4, <2>7, <2>8, <2>9, <2>10, BankSet
  <2> QED BY <2>11 DEF d
<1>7. CASE Register(a) \notin {0, 1, 2}
  <2>1. d = [c EXCEPT !.banking_mode = v % 2]
    BY <1>7 DEF Mbc1Write
  <2> HIDE DEF d
  <2>2. MbcOK(d)
    BY <2>1, <1>1, BankKept DEF MbcOK, MbcFields
  <2> QED BY <2>2 DEF d
<1> QED BY <1>4, <1>5, <1>6, <1>7

LEMMA Mbc2Written ==
  ASSUME NEW c, MbcOK(c), c.kind = "MBC2", NEW a \in Word, NEW v \in Byte
  PROVE  MbcOK(Mbc2Write(c, a, v))
<1> DEFINE d == Mbc2Write(c, a, v)
           low == NotZero(Nibble(v))
           n == low % MaxOne(c.rombanks)
<1>1. /\ c.rombanks \in Sizes \cup {0} /\ DOMAIN c = MbcFields /\ c.rambank \in Nat
      /\ DOMAIN c.regs = {"low", "high", "ram"} /\ c.regs.high \in Nat
  BY DEF MbcOK, RegsOK
<1>2. low \in Nat
  BY Bytes2 DEF NotZero
<1>3. n \in Nat /\ (c.rombanks # 0 => n = low % c.rombanks)
  BY <1>1, <1>2 DEF MaxOne, Sizes
<1>4. d \in {c, [c EXCEPT !.ram_on = Enables(v)], [c EXCEPT !.rombank = n, !.regs.low = low]}
  BY DEF Mbc2Write
<1> HIDE DEF d, n, low
<1>5. CASE d = c
  BY <1>5 DEF d
<1>6. CASE d = [c EXCEPT !.ram_on = Enables(v)]
  <2>1. MbcOK(d)
    BY <1>6, <1>1, BankKept DEF MbcOK, MbcFields
  <2> QED BY <2>1 DEF d
<1>7. CASE d = [c EXCEPT !.rombank = n, !.regs.low = low]
  <2>1. /\ DOMAIN d = MbcFields /\ d.kind = c.kind /\ d.size = c.size /\ d.rambanks = c.rambanks
        /\ d.rambank = c.rambank /\ d.rombanks = c.rombanks /\ d.rombank = n /\ d.regs.low = low
        /\ d.regs.high = c.regs.high /\ DOMAIN d.regs = {"low", "high", "ram"}
        /\ d.rtc = c.rtc /\ d.rtc_latched = c.rtc_latched /\ d.ram = c.ram /\ d.program = c.program
    BY <1>7, <1>1 DEF MbcFields
  <2>2. RegsOK(d)
    BY <2>1, <1>1, <1>2 DEF RegsOK
  <2>3. d.rombanks # 0 => d.rombank = RegisterBank(d) % d.rombanks
    BY <2>1, <1>3, BankOf
  <2>4. MbcOK(d)
    BY <2>1, <2>2, <2>3, <1>1, <1>3, BankSet
  <2> QED BY <2>4 DEF d
<1> QED BY <1>4, <1>5, <1>6, <1>7

LEMMA Mbc3Written ==
  ASSUME NEW c, MbcOK(c), c.kind = "MBC3", NEW a \in Word, NEW v \in Byte
  PROVE  MbcOK(Mbc3Write(c, a, v))
<1> DEFINE d == Mbc3Write(c, a, v)
           low == NotZero(v % 128)
           n == low % MaxOne(c.rombanks)
           latched == IF c.rtc_latch = 0 /\ v = 1 THEN c.rtc ELSE c.rtc_latched
           clock == Bit(v, 3) = 1
           bank == v % 8
<1>1. /\ c.rombanks \in Sizes \cup {0} /\ DOMAIN c = MbcFields /\ c.rambank \in Nat
      /\ DOMAIN c.regs = {"low", "high", "ram"} /\ c.regs.high \in Nat /\ v \in Nat
      /\ Bytes(c.rtc) /\ Bytes(c.rtc_latched) /\ Bytes(c.ram) /\ Bytes(c.program)
  BY ByteIs DEF MbcOK, RegsOK
<1>2. low \in Nat /\ bank \in Nat
  BY <1>1 DEF NotZero
<1>3. n \in Nat /\ (c.rombanks # 0 => n = low % c.rombanks)
  BY <1>1, <1>2 DEF MaxOne, Sizes
<1>4. d \in {[c EXCEPT !.ram_on = Enables(v)], [c EXCEPT !.rombank = n, !.regs.low = low],
             [c EXCEPT !.selectrtc = clock, !.rambank = bank, !.regs.ram = bank],
             [c EXCEPT !.rtc_latched = latched, !.rtc_latch = v]}
  BY DEF Mbc3Write
<1>5. Bytes(latched)
  BY <1>1
<1> HIDE DEF d, n, low, latched, clock, bank
<1>6. CASE d = [c EXCEPT !.ram_on = Enables(v)]
  <2>1. MbcOK(d)
    BY <1>6, <1>1, BankKept DEF MbcOK, MbcFields
  <2> QED BY <2>1 DEF d
<1>7. CASE d = [c EXCEPT !.rombank = n, !.regs.low = low]
  <2>1. /\ DOMAIN d = MbcFields /\ d.kind = c.kind /\ d.size = c.size /\ d.rambanks = c.rambanks
        /\ d.rambank = c.rambank /\ d.rombanks = c.rombanks /\ d.rombank = n /\ d.regs.low = low
        /\ d.regs.high = c.regs.high /\ DOMAIN d.regs = {"low", "high", "ram"}
        /\ d.rtc = c.rtc /\ d.rtc_latched = c.rtc_latched /\ d.ram = c.ram /\ d.program = c.program
    BY <1>7, <1>1 DEF MbcFields
  <2>2. RegsOK(d)
    BY <2>1, <1>1, <1>2 DEF RegsOK
  <2>3. d.rombanks # 0 => d.rombank = RegisterBank(d) % d.rombanks
    BY <2>1, <1>3, BankOf
  <2>4. MbcOK(d)
    BY <2>1, <2>2, <2>3, <1>1, <1>3, BankSet
  <2> QED BY <2>4 DEF d
<1>8. CASE d = [c EXCEPT !.selectrtc = clock, !.rambank = bank, !.regs.ram = bank]
  <2>1. /\ DOMAIN d = MbcFields /\ d.kind = c.kind /\ d.size = c.size /\ d.rambanks = c.rambanks
        /\ d.rambank = bank /\ d.rombanks = c.rombanks /\ d.rombank = c.rombank
        /\ d.regs.low = c.regs.low /\ d.regs.high = c.regs.high
        /\ DOMAIN d.regs = {"low", "high", "ram"}
        /\ d.rtc = c.rtc /\ d.rtc_latched = c.rtc_latched /\ d.ram = c.ram /\ d.program = c.program
    BY <1>8, <1>1 DEF MbcFields
  <2>2. MbcOK(d)
    BY <2>1, <1>1, <1>2, BankKept
  <2> QED BY <2>2 DEF d
<1>9. CASE d = [c EXCEPT !.rtc_latched = latched, !.rtc_latch = v]
  <2>1. /\ DOMAIN d = MbcFields /\ d.kind = c.kind /\ d.size = c.size /\ d.rambanks = c.rambanks
        /\ d.rambank = c.rambank /\ d.rombanks = c.rombanks /\ d.rombank = c.rombank
        /\ d.regs.low = c.regs.low /\ d.regs.high = c.regs.high
        /\ DOMAIN d.regs = {"low", "high", "ram"}
        /\ d.rtc = c.rtc /\ d.rtc_latched = latched /\ d.ram = c.ram /\ d.program = c.program
    BY <1>9, <1>1 DEF MbcFields
  <2>2. MbcOK(d)
    BY <2>1, <1>1, <1>5, BankKept
  <2> QED BY <2>2 DEF d
<1> QED BY <1>4, <1>6, <1>7, <1>8, <1>9

LEMMA Mbc5Written ==
  ASSUME NEW c, MbcOK(c), c.kind = "MBC5", NEW a \in Word, NEW v \in Byte
  PROVE  MbcOK(Mbc5Write(c, a, v))
<1> DEFINE d == Mbc5Write(c, a, v)
           n == Low5(c.rombanks, c.rombank, v)
           ninth == v % 2
           k == High5(c.rombanks, c.rombank, ninth)
           bank == Nibble(v) % c.rambanks
<1>1. /\ c.rombanks \in Sizes \cup {0} /\ DOMAIN c = MbcFields /\ c.rambank \in Nat
      /\ DOMAIN c.regs = {"low", "high", "ram"} /\ c.regs.low \in Nat /\ c.regs.low <= 255
      /\ c.regs.high \in {0, 1} /\ v \in Nat /\ v <= 255 /\ c.rambanks \in {0, 1, 4, 8, 16}
      /\ Bytes(c.rtc) /\ Bytes(c.rtc_latched) /\ Bytes(c.ram) /\ Bytes(c.program)
  BY ByteIs DEF MbcOK, RegsOK
<1>2. ninth \in {0, 1} /\ (c.rambanks # 0 => bank \in Nat)
  BY <1>1, Bytes2
<1>3. c.rombanks # 0 => c.rombank = Cut5(c.rombanks, c.regs.high, c.regs.low)
  BY BankOf DEF MbcOK
<1>4. \/ d \in {c, [c EXCEPT !.ram_on = Enables(v)]}
      \/ c.rombanks # 0 /\ d = [c EXCEPT !.rombank = n, !.regs.low = v]
      \/ c.rombanks # 0 /\ d = [c EXCEPT !.rombank = k, !.regs.high = ninth]
      \/ c.rambanks # 0 /\ d = [c EXCEPT !.rambank = bank, !.regs.ram = Nibble(v)]
  BY DEF Mbc5Write, Low5, High5
<1> HIDE DEF d, n, k, ninth, bank
<1>5. CASE d = c
  BY <1>5 DEF d
<1>6. CASE d = [c EXCEPT !.ram_on = Enables(v)]
  <2>1. MbcOK(d)
    BY <1>6, <1>1, BankKept DEF MbcOK, MbcFields
  <2> QED BY <2>1 DEF d
<1>7. CASE c.rombanks # 0 /\ d = [c EXCEPT !.rombank = n, !.regs.low = v]
  <2>1. /\ DOMAIN d = MbcFields /\ d.kind = c.kind /\ d.size = c.size /\ d.rambanks = c.rambanks
        /\ d.rambank = c.rambank /\ d.rombanks = c.rombanks /\ d.rombank = n /\ d.regs.low = v
        /\ d.regs.high = c.regs.high /\ DOMAIN d.regs = {"low", "high", "ram"}
        /\ d.rtc = c.rtc /\ d.rtc_latched = c.rtc_latched /\ d.ram = c.ram /\ d.program = c.program
    BY <1>7, <1>1 DEF MbcFields
  <2>2. RegsOK(d)
    BY <2>1, <1>1 DEF RegsOK
  <2>3. n = Cut5(c.rombanks, c.regs.high, v) /\ n \in Nat
    BY <1>1, <1>3, <1>7, Sets5 DEF n
  <2>4. d.rombanks # 0 => d.rombank = RegisterBank(d) % d.rombanks
    BY <2>1, <2>3, BankOf
  <2>5. MbcOK(d)
    BY <2>1, <2>2, <2>3, <2>4, <1>1, BankSet
  <2> QED BY <2>5 DEF d
<1>8. CASE c.rombanks # 0 /\ d = [c EXCEPT !.rombank = k, !.regs.high = ninth]
  <2>1. /\ DOMAIN d = MbcFields /\ d.kind = c.kind /\ d.size = c.size /\ d.rambanks = c.rambanks
        /\ d.rambank = c.rambank /\ d.rombanks = c.rombanks /\ d.rombank = k
        /\ d.regs.high = ninth
        /\ d.regs.low = c.regs.low /\ DOMAIN d.regs = {"low", "high", "ram"}
        /\ d.rtc = c.rtc /\ d.rtc_latched = c.rtc_latched /\ d.ram = c.ram /\ d.program = c.program
    BY <1>8, <1>1 DEF MbcFields
  <2>2. RegsOK(d)
    BY <2>1, <1>1, <1>2 DEF RegsOK
  <2>3. k = Cut5(c.rombanks, ninth, c.regs.low) /\ k \in Nat
    BY <1>1, <1>2, <1>3, <1>8, Sets5 DEF k
  <2>4. d.rombanks # 0 => d.rombank = RegisterBank(d) % d.rombanks
    BY <2>1, <2>3, BankOf
  <2>5. MbcOK(d)
    BY <2>1, <2>2, <2>3, <2>4, <1>1, BankSet
  <2> QED BY <2>5 DEF d
<1>9. CASE c.rambanks # 0 /\ d = [c EXCEPT !.rambank = bank, !.regs.ram = Nibble(v)]
  <2>1. /\ DOMAIN d = MbcFields /\ d.kind = c.kind /\ d.size = c.size /\ d.rambanks = c.rambanks
        /\ d.rambank = bank /\ d.rombanks = c.rombanks /\ d.rombank = c.rombank
        /\ d.regs.low = c.regs.low /\ d.regs.high = c.regs.high
        /\ DOMAIN d.regs = {"low", "high", "ram"}
        /\ d.rtc = c.rtc /\ d.rtc_latched = c.rtc_latched /\ d.ram = c.ram /\ d.program = c.program
    BY <1>9, <1>1 DEF MbcFields
  <2>2. MbcOK(d)
    BY <2>1, <1>1, <1>2, <1>9, BankKept
  <2> QED BY <2>2 DEF d
<1> QED BY <1>4, <1>5, <1>6, <1>7, <1>8, <1>9

LEMMA RomWritten ==
  ASSUME NEW c, MbcOK(c), NEW a \in Word, NEW v \in Byte
  PROVE  MbcOK(writerom(c, a, v))
BY Mbc1Written, Mbc2Written, Mbc3Written, Mbc5Written DEF writerom, MbcOK, Kinds

LEMMA RamWritten ==
  ASSUME NEW c, MbcOK(c), NEW a \in Word, NEW v \in Byte
  PROVE  MbcOK(writeram(c, a, v))
<1> DEFINE d == writeram(c, a, v)
           ram == Stored(c.ram, RamIndex(c, a), IF c.kind = "MBC2" THEN Or8(v, 240) ELSE v)
           rtc == Stored(c.rtc, c.rambank, v)
<1>1. /\ DOMAIN c = MbcFields /\ c.rambank \in Nat /\ DOMAIN c.regs = {"low", "high", "ram"}
      /\ Bytes(c.rtc) /\ Bytes(c.rtc_latched) /\ Bytes(c.ram) /\ Bytes(c.program)
  BY DEF MbcOK, RegsOK
<1>2. Bytes(ram) /\ Bytes(rtc)
  BY <1>1, StoredIs, Logical
<1>3. d \in {c, [c EXCEPT !.ram = ram, !.ram_updated = TRUE], [c EXCEPT !.rtc = rtc]}
  BY DEF writeram
<1> HIDE DEF d, ram, rtc
<1>4. MbcOK(d)
  <2>1. CASE d = c
    BY <2>1
  <2>2. CASE d = [c EXCEPT !.ram = ram, !.ram_updated = TRUE]
    BY <2>2, <1>1, <1>2, BankKept DEF MbcFields
  <2>3. CASE d = [c EXCEPT !.rtc = rtc]
    BY <2>3, <1>1, <1>2, BankKept DEF MbcFields
  <2> QED BY <1>3, <2>1, <2>2, <2>3
<1> QED BY <1>4 DEF d

LEMMA SavedFlagReset ==
  ASSUME NEW c, MbcOK(c)
  PROVE  MbcOK(check_and_reset_ram_updated(c))
<1> DEFINE d == check_and_reset_ram_updated(c)
<1>1. /\ DOMAIN c = MbcFields /\ c.rambank \in Nat /\ DOMAIN c.regs = {"low", "high", "ram"}
      /\ Bytes(c.rtc) /\ Bytes(c.rtc_latched) /\ Bytes(c.ram) /\ Bytes(c.program)
  BY DEF MbcOK, RegsOK
<1>2. d = [c EXCEPT !.ram_updated = FALSE]
  BY DEF check_and_reset_ram_updated
<1> HIDE DEF d
<1>3. MbcOK(d)
  BY <1>1, <1>2, BankKept DEF MbcFields
<1> QED BY <1>3 DEF d

LEMMA MbcRead ==
  ASSUME NEW c, MbcOK(c), NEW a
  PROVE  readrom(c, a) \in Byte /\ readram(c, a) \in Byte
<1>1. /\ Bytes(c.rtc_latched) /\ Bytes(c.ram) /\ Bytes(c.program) /\ c.rombank \in Nat
  BY DEF MbcOK
<1>2. \A n \in Nat : n % 256 \in Byte
  <2>1. \A n \in Nat : n % 256 \in Int /\ 0 <= n % 256 /\ n % 256 <= 255
    OBVIOUS
  <2> QED BY <2>1, ByteIs
<1>3. HighBank(c) \in Nat /\ HighBank(c) % 256 \in Byte
  BY <1>1, <1>2 DEF HighBank
<1>4. 0 \in Byte /\ 255 \in Byte
  BY ByteIs
<1>5. readrom(c, a) \in Byte
  BY <1>1, <1>3, <1>4, AtIs DEF readrom
<1>6. readram(c, a) \in Byte
  BY <1>1, <1>4, AtIs, Logical DEF readram
<1> QED BY <1>5, <1>6

\* The bank at 0x0000, and with it what BankedByRegisters says.
LEMMA BanksFollow ==
  ASSUME NEW c, MbcOK(c)
  PROVE  BanksFollowRegisters(c)
<1> DEFINE N == c.rombanks
           high == c.regs.high
           bank == Cut1(N, high, c.regs.low)
<1>1. /\ N \in Sizes \cup {0} /\ c.kind \in Kinds /\ (N # 0 => c.rombank = RegisterBank(c) % N)
  BY DEF MbcOK
<1>2. N # 0 => HighBank(c) = RegisterBank(c) % N
  <2>1. c.kind = "MBC0" /\ N # 0 => RegisterBank(c) % N = 1
    <3>1. \A n \in Sizes : 1 % n = 1
      BY DEF Sizes
    <3> QED BY <3>1, <1>1, BankOf
  <2> QED BY <1>1, <2>1 DEF HighBank
<1>3. N # 0 => LowBank(c) = RegisterLowBank(c) % N
  <2>1. CASE ~(c.kind = "MBC1" /\ c.banking_mode = 1)
    <3>1. \A n \in Sizes : 0 % n = 0
      BY DEF Sizes
    <3> QED BY <3>1, <2>1, <1>1 DEF LowBank, RegisterLowBank
  <2>2. ASSUME c.kind = "MBC1", c.banking_mode = 1, N # 0
        PROVE  LowBank(c) = RegisterLowBank(c) % N
    <3>1. /\ high \in {0, 1, 2, 3} /\ c.regs.low \in Nat /\ c.regs.low <= 31 /\ N \in Sizes
      BY <2>2 DEF MbcOK, RegsOK
    <3>2. c.rombank = bank
      BY <1>1, <2>2, BankOf
    <3>3. bank \div 32 = IF N <= 32 THEN 0 ELSE IF N = 64 THEN high % 2 ELSE high
      BY <3>1, Parts1
    <3> HIDE DEF bank
    <3>4. (bank \div 32) * 32 = (high * 32) % N
      <4>1. CASE high = 0
        BY <3>1, <3>3, <4>1 DEF Sizes
      <4>2. CASE high = 1
        BY <3>1, <3>3, <4>2 DEF Sizes
      <4>3. CASE high = 2
        BY <3>1, <3>3, <4>3 DEF Sizes
      <4>4. CASE high = 3
        BY <3>1, <3>3, <4>4 DEF Sizes
      <4> QED BY <3>1, <4>1, <4>2, <4>3, <4>4
    <3> QED BY <2>2, <3>2, <3>4 DEF LowBank, RegisterLowBank
  <2> QED BY <2>1, <2>2
<1> QED BY <1>2, <1>3 DEF BanksFollowRegisters

LEMMA NewCartridgeOK ==
  ASSUME NEW data, data.type \in Byte, data.rom \in Byte, data.ram \in Byte, data.size \in Nat,
         Bytes(data.program), get_mbc(data) = "Ok"
  PROVE  MbcOK(NewCartridge(data))
<1> DEFINE c == NewCartridge(data)
           N == rom_banks(data.rom)
           R == IF HasRam(data.type) THEN ram_banks(data.ram) ELSE 0
<1>1. KindOf(data.type) \in Kinds
  BY DEF get_mbc, KindOf, Kinds
<1>2. N \in Sizes \cup {0}
  <2>1. data.rom \in Int /\ data.rom >= 0
    BY ByteIs
  <2>2. data.rom <= 8 => data.rom \in {0, 1, 2, 3, 4, 5, 6, 7, 8}
    BY <2>1
  <2> QED BY <2>1, <2>2, Powers DEF rom_banks, Sizes
<1>3. R \in {0, 1, 4, 8, 16}
  BY DEF ram_banks
<1>4. c = [kind |-> KindOf(data.type), battery |-> HasBattery(data.type), size |-> data.size,
           rombanks |-> N, rambanks |-> R,
           ram_on |-> FALSE, ram_updated |-> FALSE, banking_mode |-> 0,
           rombank |-> 1, rambank |-> 0, selectrtc |-> FALSE, rtc_latch |-> 255,
           rtc |-> NoMemory, rtc_latched |-> NoMemory, ram |-> NoMemory, program |-> data.program,
           regs |-> [low |-> 1, high |-> 0, ram |-> 0]]
  BY DEF NewCartridge
<1> HIDE DEF N, R, c
<1>5. DOMAIN c = MbcFields
  BY <1>4 DEF MbcFields
<1>6. RegsOK(c) /\ RegisterBank(c) = 1
  BY <1>1, <1>4 DEF RegsOK, RegisterBank
<1>7. \A n \in Sizes : 1 % n = 1
  BY DEF Sizes
<1>8. c.rombanks # 0 => c.rombank = RegisterBank(c) % c.rombanks
  BY <1>2, <1>4, <1>6, <1>7
<1>9. MbcOK(c)
  BY <1>1, <1>2, <1>3, <1>4, <1>5, <1>6, <1>8, NoMemoryIs DEF MbcOK
<1> QED BY <1>9 DEF c

-----------------------------------------------------------------------------
(* The picture unit.                                                       *)
LEMMA LinesAre ==
  /\ VisibleLines \in Int /\ 1 <= VisibleLines /\ VisibleLines <= 144
  /\ Lines \in Int /\ VisibleLines < Lines /\ 4 <= Lines /\ Lines <= 154
<1>1. VisibleLines \in Int /\ 1 <= VisibleLines /\ VisibleLines <= 144
  BY LinesAssumption, Between
<1>2. VisibleLines + 1 \in Int
  BY <1>1
<1>3. Lines \in Int /\ VisibleLines + 1 <= Lines /\ Lines <= 154 /\ Lines >= 4
  BY <1>2, LinesAssumption, Between
<1> QED BY <1>1, <1>3

GpuFields ==
  {"mode", "modeclock", "line", "lyc", "lcdc", "stat", "scy", "scx", "winy", "winx", "wy_trigger",
   "wy_pos", "palettes", "cbg", "csprit", "vram", "voam", "vrambank", "updated", "interrupt",
   "gbmode", "hblanking", "first_frame", "drawn", "frame"}

PaletteOK(p) == DOMAIN p = {"ind", "inc", "mem"} /\ p.ind \in Byte /\ Bytes(p.mem)

\* The registers and the memories.
Registered(g) ==
  /\ g.lyc \in Byte /\ g.scy \in Byte /\ g.scx \in Byte /\ g.winy \in Byte /\ g.winx \in Byte
  /\ g.stat \subseteq 3..6
  /\ DOMAIN g.palettes = {1, 2, 3}
  /\ g.palettes[1] \in Byte /\ g.palettes[2] \in Byte /\ g.palettes[3] \in Byte
  /\ PaletteOK(g.cbg) /\ PaletteOK(g.csprit)
  /\ Bytes(g.vram) /\ Bytes(g.voam) /\ g.vrambank \in {0, 1}

\* The lines drawn so far: those before the present one, and that one once it is in HBlank.
DrawnBefore(n) == [l \in 0..VisibleLines - 1 |-> IF l < n THEN 1 ELSE 0]
DrawnSoFar(g) ==
  IF ~LcdOn(g) \/ g.first_frame \/ g.line >= VisibleLines THEN NothingDrawn
  ELSE DrawnBefore(IF g.mode = 0 THEN g.line + 1 ELSE g.line)

\* The window's own line is behind the line of the screen.
WindowBehind(g) ==
  /\ g.wy_pos \in Int /\ -1 <= g.wy_pos /\ g.wy_pos <= VisibleLines
  /\ g.wy_trigger => /\ LcdOn(g) /\ g.line < VisibleLines
                     /\ g.wy_pos <= IF g.mode = 0 THEN g.line ELSE g.line - 1

\* The clock, the line and the mode go together.
Scanning(g) ==
  /\ g.modeclock \in Int /\ 0 <= g.modeclock /\ g.modeclock < LineTicks
  /\ g.line \in Int /\ 0 <= g.line /\ g.line < Lines
  /\ g.mode = IF ~LcdOn(g) THEN 0 ELSE IF g.line < VisibleLines THEN ModeAt(g.modeclock) ELSE 1
  /\ ~LcdOn(g) => g.line = 0

GpuOK(g) ==
  /\ DOMAIN g = GpuFields
  /\ Registered(g)
  /\ Scanning(g)
  /\ WindowBehind(g)
  /\ g.drawn = DrawnSoFar(g)
  /\ g.frame \in {"none", "blank", "whole"}
  /\ g.interrupt \subseteq {0, 1}

\* What the clock leaves alone.
SameRegisters(g, h) ==
  /\ h.lyc = g.lyc /\ h.scy = g.scy /\ h.scx = g.scx /\ h.winy = g.winy /\ h.winx = g.winx
  /\ h.stat = g.stat /\ h.palettes = g.palettes /\ h.cbg = g.cbg /\ h.csprit = g.csprit
  /\ h.vram = g.vram /\ h.voam = g.voam /\ h.vrambank = g.vrambank
  /\ h.lcdc = g.lcdc /\ h.gbmode = g.gbmode

\* All but the interrupts asked for.
SameScan(g, h) ==
  /\ DOMAIN h = GpuFields /\ SameRegisters(g, h)
  /\ h.mode = g.mode /\ h.modeclock = g.modeclock /\ h.line = g.line
  /\ h.wy_trigger = g.wy_trigger /\ h.wy_pos = g.wy_pos /\ h.updated = g.updated
  /\ h.hblanking = g.hblanking /\ h.first_frame = g.first_frame /\ h.drawn = g.drawn
  /\ h.frame = g.frame
  /\ h.interrupt \subseteq g.interrupt \cup {0, 1}

LEMMA LycChecked ==
  ASSUME NEW g, DOMAIN g = GpuFields
  PROVE  SameScan(g, check_interrupt_lyc(g))
BY DEF check_interrupt_lyc, SameScan, SameRegisters, GpuFields

LEMMA ModeChanged ==
  ASSUME NEW g, NEW mode, DOMAIN EnterMode(g, mode) = GpuFields
  PROVE  SameScan(EnterMode(g, mode), change_mode(g, mode))
<1> DEFINE e == EnterMode(g, mode)
<1>1. change_mode(g, mode) \in {e, [e EXCEPT !.interrupt = @ \cup {1}]}
  BY DEF change_mode
<1> HIDE DEF e
<1>2. ASSUME NEW h \in {e, [e EXCEPT !.interrupt = @ \cup {1}]}, DOMAIN e = GpuFields
      PROVE  SameScan(e, h)
  BY <1>2 DEF SameScan, SameRegisters, GpuFields
<1> QED BY <1>1, <1>2 DEF e

LEMMA SameScanOK ==
  ASSUME NEW g, GpuOK(g), NEW h, SameScan(g, h)
  PROVE  GpuOK(h)
<1>1. /\ Registered(h) /\ Scanning(h) /\ WindowBehind(h)
  BY DEF GpuOK, SameScan, SameRegisters, Registered, Scanning, WindowBehind, LcdOn
<1>2. DrawnSoFar(h) = DrawnSoFar(g)
  BY DEF GpuOK, SameScan, SameRegisters, DrawnSoFar, LcdOn
<1> QED BY <1>1, <1>2 DEF GpuOK, SameScan

\* What entering a mode does, but for the interrupts.
Entered(g, e, mode) ==
  /\ DOMAIN e = GpuFields /\ SameRegisters(g, e)
  /\ e.mode = mode /\ e.modeclock = g.modeclock /\ e.line = g.line
  /\ e.interrupt \subseteq g.interrupt \cup {0, 1}

LEMMA Enters2 ==
  ASSUME NEW g, DOMAIN g = GpuFields
  PROVE  LET e == EnterMode(g, 2)
         IN  /\ Entered(g, e, 2)
             /\ e.wy_trigger = g.wy_trigger /\ e.wy_pos = g.wy_pos /\ e.hblanking = g.hblanking
             /\ e.first_frame = g.first_frame /\ e.drawn = g.drawn /\ e.frame = g.frame
<1> DEFINE e == EnterMode(g, 2)
<1>1. e = [g EXCEPT !.mode = 2]
  BY DEF EnterMode
<1> HIDE DEF e
<1>2. /\ Entered(g, e, 2)
      /\ e.wy_trigger = g.wy_trigger /\ e.wy_pos = g.wy_pos /\ e.hblanking = g.hblanking
      /\ e.first_frame = g.first_frame /\ e.drawn = g.drawn /\ e.frame = g.frame
  BY <1>1 DEF Entered, SameRegisters, GpuFields
<1> QED BY <1>2 DEF e

LEMMA Enters3 ==
  ASSUME NEW g, DOMAIN g = GpuFields
  PROVE  LET e == EnterMode(g, 3)
         IN  /\ Entered(g, e, 3)
             /\ \/ e.wy_trigger = g.wy_trigger /\ e.wy_pos = g.wy_pos
                \/ e.wy_trigger = TRUE /\ e.wy_pos = -1
             /\ e.hblanking = g.hblanking
             /\ e.first_frame = g.first_frame /\ e.drawn = g.drawn /\ e.frame = g.frame
<1> DEFINE e == EnterMode(g, 3)
<1>1. e \in {[g EXCEPT !.mode = 3], [g EXCEPT !.mode = 3, !.wy_trigger = TRUE, !.wy_pos = -1]}
  BY DEF EnterMode
<1> HIDE DEF e
<1>2. /\ Entered(g, e, 3)
      /\ \/ e.wy_trigger = g.wy_trigger /\ e.wy_pos = g.wy_pos
         \/ e.wy_trigger = TRUE /\ e.wy_pos = -1
      /\ e.hblanking = g.hblanking
      /\ e.first_frame = g.first_frame /\ e.drawn = g.drawn /\ e.frame = g.frame
  <2>1. CASE e = [g EXCEPT !.mode = 3]
    <3>1. e.wy_trigger = g.wy_trigger /\ e.wy_pos = g.wy_pos
      BY <2>1 DEF GpuFields
    <3>2. Entered(g, e, 3)
      BY <2>1 DEF Entered, SameRegisters, GpuFields
    <3>3. /\ e.hblanking = g.hblanking
          /\ e.first_frame = g.first_frame /\ e.drawn = g.drawn /\ e.frame = g.frame
      BY <2>1 DEF GpuFields
    <3> QED BY <3>1, <3>2, <3>3
  <2>2. CASE e = [g EXCEPT !.mode = 3, !.wy_trigger = TRUE, !.wy_pos = -1]
    <3>1. e.wy_trigger = TRUE /\ e.wy_pos = -1
      BY <2>2 DEF GpuFields
    <3>2. Entered(g, e, 3)
      BY <2>2 DEF Entered, SameRegisters, GpuFields
    <3>3. /\ e.hblanking = g.hblanking
          /\ e.first_frame = g.first_frame /\ e.drawn = g.drawn /\ e.frame = g.frame
      BY <2>2 DEF GpuFields
    <3> QED BY <3>1, <3>2, <3>3
  <2> QED BY <1>1, <2>1, <2>2
<1> QED BY <1>2 DEF e

LEMMA Enters1 ==
  ASSUME NEW g, DOMAIN g = GpuFields
  PROVE  LET e == EnterMode(g, 1)
         IN  /\ Entered(g, e, 1)
             /\ e.wy_trigger = FALSE /\ e.wy_pos = g.wy_pos /\ e.hblanking = g.hblanking
             /\ e.drawn = NothingDrawn /\ e.frame = FrameOutcome(g)
<1> DEFINE e == EnterMode(g, 1)
<1>1. e = [g EXCEPT !.mode = 1, !.wy_trigger = FALSE, !.interrupt = @ \cup {0},
                    !.updated = TRUE, !.first_frame = FALSE,
                    !.frame = FrameOutcome(g), !.drawn = NothingDrawn]
  BY DEF EnterMode
<1> HIDE DEF e
<1>2. /\ Entered(g, e, 1)
      /\ e.wy_trigger = FALSE /\ e.wy_pos = g.wy_pos /\ e.hblanking = g.hblanking
      /\ e.drawn = NothingDrawn /\ e.frame = FrameOutcome(g)
  BY <1>1 DEF Entered, SameRegisters, GpuFields
<1> QED BY <1>2 DEF e

\* The line is drawn on entering HBlank, unless this is the first frame.
LEMMA Enters0 ==
  ASSUME NEW g, DOMAIN g = GpuFields
  PROVE  LET e == EnterMode(g, 0)
         IN  /\ Entered(g, e, 0)
             /\ e.wy_trigger = g.wy_trigger /\ e.first_frame = g.first_frame /\ e.frame = g.frame
             /\ e.wy_pos \in {g.wy_pos, WindowLine(g)}
             /\ g.first_frame => e.drawn = g.drawn
             /\ ~g.first_frame =>
                  e.drawn = [g.drawn EXCEPT ![g.line] = IF @ < 2 THEN @ + 1 ELSE @]
<1> DEFINE e == EnterMode(g, 0)
           r == renderscan(g)
           drawn == [g.drawn EXCEPT ![g.line] = IF @ < 2 THEN @ + 1 ELSE @]
           w == WindowLine(g)
<1>1. e = [r EXCEPT !.mode = 0, !.hblanking = TRUE]
  BY DEF EnterMode
<1>2. r = IF g.first_frame THEN g ELSE [g EXCEPT !.drawn = drawn, !.wy_pos = w]
  BY DEF renderscan
<1> HIDE DEF e, r, drawn, w
<1>3. /\ Entered(g, e, 0)
      /\ e.wy_trigger = g.wy_trigger /\ e.first_frame = g.first_frame /\ e.frame = g.frame
      /\ e.wy_pos \in {g.wy_pos, w}
      /\ g.first_frame => e.drawn = g.drawn
      /\ ~g.first_frame => e.drawn = drawn
  <2>1. CASE g.first_frame
    BY <1>1, <1>2, <2>1 DEF Entered, SameRegisters, GpuFields
  <2>2. CASE ~g.first_frame
    BY <1>1, <1>2, <2>2 DEF Entered, SameRegisters, GpuFields
  <2> QED BY <2>1, <2>2
<1> QED BY <1>3 DEF e, drawn, w

\* One round of the loop: it stays on the line or comes to the next.
Advanced(g, h, n) ==
  \/ /\ h.line = g.line /\ h.modeclock = g.modeclock + n
     /\ h.hblanking => g.hblanking \/ (h.mode = 0 /\ g.mode # 0)
  \/ h.line = (g.line + 1) % Lines /\ h.modeclock = g.modeclock + n - LineTicks

LEMMA DrawnNext ==
  ASSUME NEW k \in Int, 0 <= k, k < VisibleLines
  PROVE  /\ DrawnBefore(k)[k] = 0
         /\ [DrawnBefore(k) EXCEPT ![k] = 1] = DrawnBefore(k + 1)
<1> DEFINE now == DrawnBefore(k)
           next == DrawnBefore(k + 1)
           D == 0..VisibleLines - 1
<1>1. /\ now = [l \in D |-> IF l < k THEN 1 ELSE 0]
      /\ next = [l \in D |-> IF l < k + 1 THEN 1 ELSE 0]
  BY DEF DrawnBefore
<1>2. k \in D /\ \A l \in D : l \in Int /\ (l < k + 1 <=> l < k \/ l = k)
  BY LinesAre
<1> HIDE DEF D, now, next
<1>3. now[k] = 0
  BY <1>1, <1>2
<1>4. [now EXCEPT ![k] = 1] = [l \in D |-> IF l = k THEN 1 ELSE now[l]]
  BY <1>1, <1>2
<1>5. [l \in D |-> IF l = k THEN 1 ELSE now[l]] = next
  BY <1>1, <1>2
<1> QED BY <1>3, <1>4, <1>5 DEF now, next

LEMMA OnTheLine ==
  ASSUME NEW g, GpuOK(g), LcdOn(g), NEW n \in Int, 0 <= n, n <= ChunkTicks,
         g.modeclock + n < LineTicks
  PROVE  LET h == GpuChunk(g, n) IN GpuOK(h) /\ SameRegisters(g, h) /\ Advanced(g, h, n)
<1> DEFINE c == [g EXCEPT !.modeclock = @ + n]
           mode == ModeAt(c.modeclock)
           h == GpuChunk(g, n)
<1>1. DOMAIN g = GpuFields /\ Registered(g) /\ Scanning(g) /\ WindowBehind(g)
      /\ g.drawn = DrawnSoFar(g) /\ g.frame \in {"none", "blank", "whole"} /\ g.interrupt \subseteq {0, 1}
  BY DEF GpuOK
<1>2. /\ DOMAIN c = GpuFields /\ SameRegisters(g, c) /\ c.modeclock = g.modeclock + n
      /\ c.line = g.line /\ c.mode = g.mode /\ c.hblanking = g.hblanking /\ c.drawn = g.drawn
      /\ c.frame = g.frame /\ c.interrupt = g.interrupt /\ c.first_frame = g.first_frame
      /\ c.wy_trigger = g.wy_trigger /\ c.wy_pos = g.wy_pos
  BY <1>1 DEF GpuFields, SameRegisters
<1>3. h = IF c.line < VisibleLines /\ c.mode # mode THEN change_mode(c, mode) ELSE c
  <2>1. ~(c.modeclock >= LineTicks)
    BY <1>1, <1>2 DEF Scanning, LineTicks
  <2> QED BY <2>1 DEF GpuChunk
<1> HIDE DEF h, c
<1>4. /\ mode \in {0, 2, 3}
      /\ (g.line < VisibleLines /\ g.mode # mode) => \/ g.mode = 2 /\ mode = 3
                                                     \/ g.mode = 3 /\ mode = 0
  BY <1>1, <1>2 DEF Scanning, ModeAt, LineTicks, OamTicks, DrawTicks, ChunkTicks
<1> HIDE DEF mode
<1>5. CASE ~(g.line < VisibleLines /\ g.mode # mode)
  <2>1. h = c
    BY <1>2, <1>3, <1>5
  <2>2. Scanning(c)
    BY <1>1, <1>2, <1>5 DEF Scanning, SameRegisters, LcdOn, mode
  <2>3. Registered(c) /\ WindowBehind(c) /\ c.drawn = DrawnSoFar(c)
    BY <1>1, <1>2 DEF Registered, WindowBehind, DrawnSoFar, SameRegisters, LcdOn
  <2>4. Advanced(g, c, n)
    BY <1>2 DEF Advanced
  <2> QED BY <1>1, <1>2, <2>1, <2>2, <2>3, <2>4 DEF GpuOK, h
<1>6. CASE g.line < VisibleLines /\ g.mode = 2 /\ mode = 3
  <2> DEFINE e == EnterMode(c, 3)
  <2>1. /\ Entered(c, e, 3)
        /\ \/ e.wy_trigger = c.wy_trigger /\ e.wy_pos = c.wy_pos
           \/ e.wy_trigger = TRUE /\ e.wy_pos = -1
        /\ e.hblanking = c.hblanking
        /\ e.first_frame = c.first_frame /\ e.drawn = c.drawn /\ e.frame = c.frame
    BY <1>2, Enters3
  <2>2. DOMAIN e = GpuFields => SameScan(e, change_mode(c, 3))
    BY ModeChanged
  <2>3. h = change_mode(c, 3)
    BY <1>2, <1>3, <1>6
  <2> HIDE DEF e
  <2>4. SameScan(e, h)
    BY <2>1, <2>2, <2>3 DEF Entered
  <2>5. Scanning(e) /\ SameRegisters(g, e)
    BY <1>1, <1>2, <1>6, <2>1 DEF Scanning, SameRegisters, LcdOn, mode, Entered
  <2>6. WindowBehind(e)
    <3>1. LcdOn(e)
      BY <2>5 DEF SameRegisters, LcdOn
    <3> QED BY <1>1, <1>2, <1>6, <2>1, <3>1, LinesAre DEF WindowBehind, Entered, Scanning
  <2>7. Registered(e) /\ e.drawn = DrawnSoFar(e)
    BY <1>1, <1>2, <1>6, <2>1, <2>5 DEF Registered, DrawnSoFar, SameRegisters, LcdOn, Entered
  <2>8. GpuOK(e)
    BY <1>1, <1>2, <2>1, <2>5, <2>6, <2>7 DEF GpuOK, Entered
  <2>9. GpuOK(h) /\ SameRegisters(g, h)
    BY <2>4, <2>5, <2>8, SameScanOK DEF SameScan, SameRegisters
  <2>10. Advanced(g, h, n)
    BY <2>1, <2>4, <1>2 DEF Advanced, SameScan, Entered
  <2> QED BY <2>9, <2>10 DEF h
<1>7. CASE g.line < VisibleLines /\ g.mode = 3 /\ mode = 0
  <2> DEFINE e == EnterMode(c, 0)
  <2>1. /\ Entered(c, e, 0)
        /\ e.wy_trigger = c.wy_trigger /\ e.first_frame = c.first_frame /\ e.frame = c.frame
        /\ e.wy_pos \in {c.wy_pos, WindowLine(c)}
        /\ c.first_frame => e.drawn = c.drawn
        /\ ~c.first_frame =>
                  e.drawn = [c.drawn EXCEPT ![c.line] = IF @ < 2 THEN @ + 1 ELSE @]
    BY <1>2, Enters0
  <2>2. DOMAIN e = GpuFields => SameScan(e, change_mode(c, 0))
    BY ModeChanged
  <2>3. h = change_mode(c, 0)
    BY <1>2, <1>3, <1>7
  <2> HIDE DEF e
  <2>4. SameScan(e, h)
    BY <2>1, <2>2, <2>3 DEF Entered
  <2>5. Scanning(e) /\ SameRegisters(g, e)
    BY <1>1, <1>2, <1>7, <2>1 DEF Scanning, SameRegisters, LcdOn, mode, Entered
  <2>6. WindowBehind(e)
    <3>1. \/ e.wy_pos = g.wy_pos
          \/ g.wy_trigger /\ e.wy_pos = g.wy_pos + 1
      BY <1>2, <2>1 DEF WindowLine
    <3>2. LcdOn(e)
      BY <2>5 DEF SameRegisters, LcdOn
    <3> QED BY <1>1, <1>2, <1>7, <2>1, <3>1, <3>2, LinesAre DEF WindowBehind, Entered, Scanning
  <2>7. e.drawn = DrawnSoFar(e)
    <3>1. g.line \in 0..VisibleLines - 1 /\ LcdOn(e) /\ e.line = g.line /\ e.mode = 0
      BY <1>1, <1>2, <1>7, <2>1, LinesAre DEF Scanning, SameRegisters, LcdOn, Entered
    <3>2. CASE g.first_frame
      BY <1>1, <1>2, <2>1, <3>1, <3>2 DEF DrawnSoFar
    <3>3. CASE ~g.first_frame
      <4>0. g.line \in Int /\ 0 <= g.line /\ g.line < VisibleLines /\ e.first_frame = g.first_frame
        BY <1>1, <1>2, <1>7, <2>1 DEF Scanning
      <4>1. g.drawn = DrawnBefore(g.line) /\ DrawnSoFar(e) = DrawnBefore(g.line + 1)
        <5>1. ~(g.line >= VisibleLines) /\ g.mode # 0
          BY <4>0, <1>7, LinesAre
        <5>2. DrawnSoFar(g) = DrawnBefore(g.line)
          BY <5>1, <3>3 DEF DrawnSoFar
        <5>3. DrawnSoFar(e) = DrawnBefore(e.line + 1)
          BY <5>1, <4>0, <3>1, <3>3 DEF DrawnSoFar
        <5> QED BY <1>1, <3>1, <5>2, <5>3
      <4>2. DrawnBefore(g.line)[g.line] = 0
        BY <4>0, DrawnNext
      <4>3. e.drawn = [DrawnBefore(g.line) EXCEPT ![g.line] = 1]
        BY <1>2, <2>1, <3>3, <4>1, <4>2
      <4>4. [DrawnBefore(g.line) EXCEPT ![g.line] = 1] = DrawnBefore(g.line + 1)
        BY <4>0, DrawnNext
      <4> QED BY <4>1, <4>3, <4>4
    <3> QED BY <3>2, <3>3
  <2>8. GpuOK(e)
    BY <1>1, <1>2, <2>1, <2>5, <2>6, <2>7 DEF GpuOK, Entered, Registered, SameRegisters
  <2>9. GpuOK(h) /\ SameRegisters(g, h)
    BY <2>4, <2>5, <2>8, SameScanOK DEF SameScan, SameRegisters
  <2>10. Advanced(g, h, n)
    BY <1>7, <2>1, <2>4, <1>2 DEF Advanced, SameScan, Entered
  <2> QED BY <2>9, <2>10 DEF h
<1> QED BY <1>4, <1>5, <1>6, <1>7

LEMMA NoLineDrawn ==
  /\ DrawnBefore(0) = NothingDrawn
  /\ \A l \in DOMAIN NothingDrawn : NothingDrawn[l] = 0
  /\ \A l \in DOMAIN DrawnBefore(VisibleLines) : DrawnBefore(VisibleLines)[l] = 1
<1>1. \A l \in 0..VisibleLines - 1 : ~(l < 0) /\ l < VisibleLines
  BY LinesAre
<1> QED BY <1>1 DEF DrawnBefore, NothingDrawn

LEMMA Outcomes ==
  ASSUME NEW g, g.drawn \in {NothingDrawn, DrawnBefore(VisibleLines)}
  PROVE  FrameOutcome(g) \in {"blank", "whole"}
<1>1. CASE g.drawn = NothingDrawn
  BY <1>1, NoLineDrawn DEF FrameOutcome
<1>2. CASE g.drawn = DrawnBefore(VisibleLines)
  BY <1>2, NoLineDrawn DEF FrameOutcome
<1> QED BY <1>1, <1>2

LEMMA ToNextLine ==
  ASSUME NEW g, GpuOK(g), LcdOn(g), NEW n \in Int, 0 <= n, n <= ChunkTicks,
         g.modeclock + n >= LineTicks
  PROVE  LET h == GpuChunk(g, n) IN GpuOK(h) /\ SameRegisters(g, h) /\ Advanced(g, h, n)
<1> DEFINE c == [g EXCEPT !.modeclock = @ + n]
           base == [c EXCEPT !.modeclock = @ - LineTicks, !.line = (@ + 1) % Lines]
           there == check_interrupt_lyc(base)
           p == NextLine(c)
           mode == ModeAt(p.modeclock)
           h == GpuChunk(g, n)
           k == (g.line + 1) % Lines
           clock == g.modeclock + n - LineTicks
<1>1. DOMAIN g = GpuFields /\ Registered(g) /\ Scanning(g) /\ WindowBehind(g)
      /\ g.drawn = DrawnSoFar(g) /\ g.frame \in {"none", "blank", "whole"} /\ g.interrupt \subseteq {0, 1}
  BY DEF GpuOK
<1>2. DOMAIN c = GpuFields /\ c.modeclock = g.modeclock + n /\ SameRegisters(g, c)
      /\ c.line = g.line /\ c.mode = g.mode /\ c.drawn = g.drawn
      /\ c.frame = g.frame /\ c.interrupt = g.interrupt /\ c.first_frame = g.first_frame
      /\ c.wy_trigger = g.wy_trigger /\ c.wy_pos = g.wy_pos
  BY <1>1 DEF GpuFields, SameRegisters
<1>3. h = IF p.line < VisibleLines /\ p.mode # mode THEN change_mode(p, mode) ELSE p
  <2>1. c.modeclock >= LineTicks
    BY <1>2
  <2> QED BY <2>1 DEF GpuChunk
<1>4. p = IF there.line >= VisibleLines /\ there.mode # 1 THEN change_mode(there, 1) ELSE there
  BY DEF NextLine
<1> HIDE DEF h, p, c
<1>5. /\ DOMAIN base = GpuFields /\ base.modeclock = clock /\ SameRegisters(g, base)
      /\ base.line = k /\ base.mode = g.mode /\ base.drawn = g.drawn
      /\ base.frame = g.frame /\ base.interrupt = g.interrupt /\ base.first_frame = g.first_frame
      /\ base.wy_trigger = g.wy_trigger /\ base.wy_pos = g.wy_pos
  <2>1. /\ DOMAIN base = GpuFields /\ base.modeclock = c.modeclock - LineTicks
        /\ base.line = (c.line + 1) % Lines /\ base.mode = c.mode /\ base.drawn = c.drawn
        /\ base.frame = c.frame /\ base.interrupt = c.interrupt /\ base.first_frame = c.first_frame
        /\ base.wy_trigger = c.wy_trigger /\ base.wy_pos = c.wy_pos
    BY <1>2 DEF GpuFields
  <2>2. SameRegisters(c, base)
    BY <1>2 DEF GpuFields, SameRegisters
  <2>3. SameRegisters(g, base)
    BY <1>2, <2>2 DEF SameRegisters
  <2> HIDE DEF base
  <2>4. base.modeclock = clock /\ base.line = k
    <3>1. base.modeclock = clock
      BY <1>1, <1>2, <2>1 DEF Scanning, LineTicks
    <3>2. base.line = k
      BY <1>2, <2>1, Zenon
    <3> QED BY <3>1, <3>2
  <2> HIDE DEF k, clock
  <2> QED BY <1>2, <2>1, <2>3, <2>4
<1>6. SameScan(base, there)
  BY <1>5, LycChecked
<1> HIDE DEF there, base
<1>7. /\ DOMAIN there = GpuFields /\ there.modeclock = clock /\ SameRegisters(g, there)
      /\ there.line = k /\ there.mode = g.mode /\ there.drawn = g.drawn
      /\ there.frame = g.frame /\ there.interrupt \subseteq {0, 1} /\ there.first_frame = g.first_frame
      /\ there.wy_trigger = g.wy_trigger /\ there.wy_pos = g.wy_pos
  <2>1. SameRegisters(g, there)
    BY <1>5, <1>6 DEF SameScan, SameRegisters
  <2> QED BY <2>1, <1>1, <1>5, <1>6 DEF SameScan
<1>8. /\ clock \in Int /\ 0 <= clock /\ clock < ChunkTicks
      /\ k = IF g.line + 1 < Lines THEN g.line + 1 ELSE 0
      /\ g.mode = IF g.line < VisibleLines THEN 0 ELSE 1
      /\ ModeAt(clock) = 2
  BY <1>1, LinesAre DEF Scanning, ModeAt, LineTicks, OamTicks, DrawTicks, ChunkTicks
<1>9. /\ k \in Int /\ 0 <= k /\ k < Lines /\ clock < LineTicks
      /\ g.line \in Int /\ 0 <= g.line /\ g.line < Lines
  BY <1>1, <1>8, LinesAre DEF Scanning, LineTicks, ChunkTicks
<1>10. ASSUME NEW r, SameScan(there, r) \/ Entered(there, r, 1) \/ Entered(there, r, 2)
       PROVE  /\ Advanced(g, r, n) /\ SameRegisters(g, r) /\ Registered(r) /\ DOMAIN r = GpuFields
              /\ r.interrupt \subseteq {0, 1} /\ r.line = k /\ r.modeclock = clock
  <2>1. /\ SameRegisters(g, r) /\ DOMAIN r = GpuFields /\ r.interrupt \subseteq {0, 1}
        /\ r.line = k /\ r.modeclock = clock
    BY <1>7, <1>10 DEF SameScan, Entered, SameRegisters
  <2>2. Registered(r)
    BY <1>1, <2>1 DEF Registered, SameRegisters
  <2> QED BY <2>1, <2>2 DEF Advanced
<1>11. CASE k < VisibleLines
  <2> DEFINE e == EnterMode(there, 2)
  <2>1. p = there
    BY <1>4, <1>7, <1>9, <1>11, LinesAre
  <2>2. h = change_mode(there, 2)
    BY <1>3, <1>7, <1>8, <1>11, <2>1 DEF mode
  <2>3. /\ Entered(there, e, 2)
        /\ e.wy_trigger = there.wy_trigger /\ e.wy_pos = there.wy_pos
        /\ e.hblanking = there.hblanking
        /\ e.first_frame = there.first_frame /\ e.drawn = there.drawn /\ e.frame = there.frame
    BY <1>7, Enters2
  <2>4. DOMAIN e = GpuFields => SameScan(e, change_mode(there, 2))
    BY ModeChanged
  <2> HIDE DEF e, k, clock
  <2>5. SameScan(e, h)
    BY <2>2, <2>3, <2>4 DEF Entered
  <2>6. /\ Advanced(g, e, n) /\ SameRegisters(g, e) /\ Registered(e) /\ DOMAIN e = GpuFields
        /\ e.interrupt \subseteq {0, 1} /\ e.line = k /\ e.modeclock = clock /\ e.mode = 2
    BY <1>10, <2>3 DEF Entered
  <2>7. LcdOn(e)
    BY <2>6 DEF SameRegisters, LcdOn
  <2>8. Scanning(e)
    BY <1>8, <1>9, <1>11, <2>6, <2>7 DEF Scanning
  <2>9. WindowBehind(e)
    BY <1>1, <1>7, <1>8, <1>9, <1>11, <2>3, <2>6, <2>7, LinesAre DEF WindowBehind
  <2>10. e.drawn = DrawnSoFar(e)
    <3>1. e.drawn = g.drawn /\ e.first_frame = g.first_frame /\ ~(e.line >= VisibleLines) /\ e.mode # 0
      BY <1>7, <1>9, <1>11, <2>3, <2>6, LinesAre
    <3>2. DrawnSoFar(e) = IF g.first_frame THEN NothingDrawn ELSE DrawnBefore(e.line)
      BY <2>7, <3>1 DEF DrawnSoFar
    <3>3. CASE g.line < VisibleLines
      <4>1. k = g.line + 1 /\ g.mode = 0 /\ ~(g.line >= VisibleLines)
        BY <1>8, <1>9, <3>3, LinesAre
      <4>2. DrawnSoFar(g) = IF g.first_frame THEN NothingDrawn ELSE DrawnBefore(g.line + 1)
        BY <4>1 DEF DrawnSoFar
      <4> QED BY <1>1, <2>6, <3>1, <3>2, <4>1, <4>2
    <3>4. CASE ~(g.line < VisibleLines)
      <4>1. k = 0 /\ g.line >= VisibleLines
        BY <1>8, <1>9, <1>11, <3>4, LinesAre
      <4>2. DrawnSoFar(g) = NothingDrawn
        BY <4>1 DEF DrawnSoFar
      <4> QED BY <1>1, <2>6, <3>1, <3>2, <4>1, <4>2, NoLineDrawn
    <3> QED BY <3>3, <3>4
  <2>11. GpuOK(e)
    BY <1>1, <1>7, <2>3, <2>6, <2>8, <2>9, <2>10 DEF GpuOK
  <2>12. GpuOK(h) /\ SameRegisters(g, h)
    BY <2>5, <2>6, <2>11, SameScanOK DEF SameScan, SameRegisters
  <2>13. Advanced(g, h, n)
    BY <2>5, <2>6 DEF Advanced, SameScan, k, clock
  <2> QED BY <2>12, <2>13 DEF h
<1>12. CASE k >= VisibleLines /\ g.line < VisibleLines
  <2> DEFINE e == EnterMode(there, 1)
  <2>1. p = change_mode(there, 1)
    BY <1>4, <1>7, <1>8, <1>12
  <2>2. /\ Entered(there, e, 1)
        /\ e.wy_trigger = FALSE /\ e.wy_pos = there.wy_pos /\ e.hblanking = there.hblanking
        /\ e.drawn = NothingDrawn /\ e.frame = FrameOutcome(there)
    BY <1>7, Enters1
  <2>3. DOMAIN e = GpuFields => SameScan(e, change_mode(there, 1))
    BY ModeChanged
  <2> HIDE DEF e, k, clock
  <2>4. SameScan(e, p)
    BY <2>1, <2>2, <2>3 DEF Entered
  <2>5. /\ Advanced(g, e, n) /\ SameRegisters(g, e) /\ Registered(e) /\ DOMAIN e = GpuFields
        /\ e.interrupt \subseteq {0, 1} /\ e.line = k /\ e.modeclock = clock /\ e.mode = 1
    BY <1>10, <2>2 DEF Entered
  <2>6. LcdOn(e) /\ k = VisibleLines /\ ~(k < VisibleLines)
    BY <1>8, <1>9, <1>12, <2>5, LinesAre DEF SameRegisters, LcdOn
  <2>7. h = p
    <3>1. p.line = k
      BY <2>4, <2>5 DEF SameScan
    <3> QED BY <1>3, <2>6, <3>1
  <2>8. Scanning(e)
    BY <1>8, <1>9, <2>5, <2>6, LinesAre DEF Scanning
  <2>9. WindowBehind(e)
    BY <1>1, <1>7, <2>2 DEF WindowBehind
  <2>10. e.drawn = DrawnSoFar(e)
    BY <2>2, <2>5, <2>6, <1>12 DEF DrawnSoFar
  <2>11. e.frame \in {"blank", "whole"}
    <3>1. ~(g.line >= VisibleLines) /\ g.mode = 0 /\ g.line + 1 = VisibleLines
      BY <1>8, <1>9, <1>12, LinesAre
    <3>2. DrawnSoFar(g) = IF g.first_frame THEN NothingDrawn ELSE DrawnBefore(g.line + 1)
      BY <3>1 DEF DrawnSoFar
    <3>3. there.drawn \in {NothingDrawn, DrawnBefore(VisibleLines)}
      BY <1>1, <1>7, <3>1, <3>2
    <3> QED BY <2>2, <3>3, Outcomes
  <2>12. GpuOK(e)
    BY <2>5, <2>8, <2>9, <2>10, <2>11 DEF GpuOK
  <2>13. GpuOK(h) /\ SameRegisters(g, h)
    BY <2>4, <2>5, <2>7, <2>12, SameScanOK DEF SameScan, SameRegisters
  <2>14. Advanced(g, h, n)
    BY <2>4, <2>5, <2>7 DEF Advanced, SameScan, k, clock
  <2> QED BY <2>13, <2>14 DEF h
<1>13. CASE k >= VisibleLines /\ ~(g.line < VisibleLines)
  <2>1. p = there /\ ~(k < VisibleLines) /\ g.line >= VisibleLines
    BY <1>4, <1>7, <1>8, <1>9, <1>13, LinesAre
  <2>2. h = there
    BY <1>3, <1>7, <2>1
  <2>3. SameScan(there, there)
    BY <1>7 DEF SameScan, SameRegisters
  <2> HIDE DEF k, clock
  <2>4. /\ Advanced(g, there, n) /\ Registered(there)
    BY <1>10, <2>3
  <2>5. LcdOn(there)
    BY <1>7 DEF SameRegisters, LcdOn
  <2>6. Scanning(there)
    <3>1. there.mode = 1
      BY <1>7, <1>8, <1>13
    <3> QED BY <1>7, <1>8, <1>9, <2>1, <2>5, <3>1, LinesAre DEF Scanning
  <2>7. WindowBehind(there)
    BY <1>1, <1>7, <2>1, <1>13, <1>9 DEF WindowBehind
  <2>8. there.drawn = DrawnSoFar(there)
    BY <1>1, <1>7, <2>1, <1>13 DEF DrawnSoFar
  <2>9. GpuOK(there)
    BY <1>1, <1>7, <2>4, <2>6, <2>7, <2>8 DEF GpuOK
  <2> QED BY <1>7, <2>2, <2>4, <2>9 DEF h
<1> QED BY <1>9, <1>11, <1>12, <1>13, LinesAre

LEMMA ChunkDone ==
  ASSUME NEW g, GpuOK(g), LcdOn(g), NEW n \in Int, 0 <= n, n <= ChunkTicks
  PROVE  LET h == GpuChunk(g, n) IN GpuOK(h) /\ SameRegisters(g, h) /\ Advanced(g, h, n)
<1>1. g.modeclock + n \in Int
  BY DEF GpuOK, Scanning
<1>2. LineTicks \in Int
  BY DEF LineTicks
<1>3. CASE g.modeclock + n < LineTicks
  BY <1>3, OnTheLine
<1>4. CASE g.modeclock + n >= LineTicks
  BY <1>4, ToNextLine
<1> QED BY <1>1, <1>2, <1>3, <1>4

LEMMA ChunksAre ==
  ASSUME NEW ticks \in Nat
  PROVE  LET s == Chunks(ticks)
         IN  /\ Len(s) \in Nat /\ Len(s) = (ticks + 79) \div 80
             /\ \A i \in 1..Len(s) : s[i] \in Int /\ 0 <= s[i] /\ s[i] <= ChunkTicks
<1> DEFINE s == Chunks(ticks)
           L == (ticks + 79) \div 80
<1>1. s = [i \in 1..L |-> IF i * ChunkTicks <= ticks THEN ChunkTicks ELSE ticks % ChunkTicks]
  <2>1. (ticks + ChunkTicks - 1) \div ChunkTicks = L
    BY DEF ChunkTicks
  <2> QED BY <2>1 DEF Chunks
<1>2. L \in Nat
  OBVIOUS
<1> HIDE DEF s, L
<1>3. Len(s) = L
  BY <1>1, <1>2
<1>4. ASSUME NEW i \in 1..L PROVE s[i] \in Int /\ 0 <= s[i] /\ s[i] <= ChunkTicks
  <2>1. s[i] = IF i * ChunkTicks <= ticks THEN ChunkTicks ELSE ticks % ChunkTicks
    BY <1>1
  <2>2. ticks % ChunkTicks \in Int /\ 0 <= ticks % ChunkTicks /\ ticks % ChunkTicks <= ChunkTicks
    BY DEF ChunkTicks
  <2> QED BY <2>1, <2>2 DEF ChunkTicks
<1>5. Len(s) \in Nat /\ Len(s) = L /\ \A i \in 1..Len(s) : s[i] \in Int /\ 0 <= s[i] /\ s[i] <= ChunkTicks
  BY <1>2, <1>3, <1>4
<1> QED BY <1>5 DEF s, L

\* The rounds of the loop one after the other.
ChunkRun(f, g, s, n) ==
  f = [i \in 0..n |-> IF i = 0 THEN g ELSE GpuChunk(f[i - 1], s[i])]

LEMMA ChunkRuns ==
  ASSUME NEW g, NEW s, Len(s) \in Nat
  PROVE  \E f : ChunkRun(f, g, s, Len(s)) /\ AfterChunks(g, s) = f[Len(s)]
<1> DEFINE N == Len(s)
           Ok(n) == \E f : ChunkRun(f, g, s, n)
           P == {n \in 0..N : Ok(n)}
<1>1. 0 \in P
  <2> DEFINE f == [i \in 0..0 |-> g]
  <2>1. ChunkRun(f, g, s, 0)
    BY DEF ChunkRun
  <2>2. Ok(0)
    BY <2>1
  <2> QED BY <2>2
<1>2. ASSUME NEW n \in 1..N, n - 1 \in P PROVE n \in P
  <2>1. PICK f : ChunkRun(f, g, s, n - 1)
    BY <1>2
  <2> DEFINE e == [i \in 0..n |-> IF i = n THEN GpuChunk(f[n - 1], s[n]) ELSE f[i]]
  <2>2. ASSUME NEW i \in 0..n PROVE e[i] = IF i = 0 THEN g ELSE GpuChunk(e[i - 1], s[i])
    <3>1. CASE i = n
      <4>1. e[i - 1] = f[n - 1] /\ e[i] = GpuChunk(f[n - 1], s[n]) /\ i # 0
        BY <3>1
      <4> QED BY <3>1, <4>1
    <3>2. CASE i # n
      <4>1. i \in 0..n - 1
        BY <3>2
      <4>2. f[i] = IF i = 0 THEN g ELSE GpuChunk(f[i - 1], s[i])
        BY <2>1, <4>1 DEF ChunkRun
      <4>3. e[i] = f[i] /\ (i # 0 => e[i - 1] = f[i - 1])
        BY <4>1
      <4> QED BY <4>2, <4>3
    <3> QED BY <3>1, <3>2
  <2>3. ChunkRun(e, g, s, n)
    <3>1. e = [i \in 0..n |-> e[i]]
      OBVIOUS
    <3> HIDE DEF e
    <3> QED BY <2>2, <3>1 DEF ChunkRun
  <2> HIDE DEF e
  <2> QED BY <2>3
<1> HIDE DEF P
<1>3. N \in P
  <2>1. \A n \in 0..N : n \in P
    BY <1>1, <1>2, UpTo
  <2> QED BY <2>1
<1> USE DEF P
<1>4. PICK f : ChunkRun(f, g, s, N)
  BY <1>3
<1> DEFINE after == CHOOSE a : ChunkRun(a, g, s, N)
<1>6. ChunkRun(after, g, s, N)
  BY <1>4
<1>7. AfterChunks(g, s) = after[N]
  BY DEF AfterChunks, ChunkRun
<1> QED BY <1>6, <1>7

\* How far the loop has come after n rounds: p lines on.
Come(g, h, n, p) ==
  /\ GpuOK(h) /\ SameRegisters(g, h)
  /\ p \in Nat /\ h.line \in {g.line + p, g.line + p - Lines}
  /\ p * LineTicks + h.modeclock <= g.modeclock + n * ChunkTicks
  /\ p = 0 => h.modeclock >= g.modeclock
  /\ h.hblanking => p > 0 \/ (h.mode = 0 /\ g.mode # 0)

LEMMA ComeOn ==
  ASSUME NEW g, GpuOK(g), LcdOn(g), NEW h, NEW n \in Nat, NEW p, Come(g, h, n, p),
         NEW t \in Int, 0 <= t, t <= ChunkTicks, p <= 3
  PROVE  LET k == GpuChunk(h, t) IN Come(g, k, n + 1, p) \/ Come(g, k, n + 1, p + 1)
<1> DEFINE k == GpuChunk(h, t)
<1>1. LcdOn(h) /\ GpuOK(h)
  BY DEF Come, SameRegisters, LcdOn
<1>2. GpuOK(k) /\ SameRegisters(h, k) /\ Advanced(h, k, t)
  BY <1>1, ChunkDone
<1> HIDE DEF k
<1>3. SameRegisters(g, k) /\ LcdOn(k)
  BY <1>1, <1>2 DEF Come, SameRegisters, LcdOn
<1>4. Scanning(g) /\ Scanning(h) /\ Scanning(k)
  BY <1>1, <1>2 DEF GpuOK
<1>5. CASE /\ k.line = h.line /\ k.modeclock = h.modeclock + t
           /\ k.hblanking => h.hblanking \/ (k.mode = 0 /\ h.mode # 0)
  <2>1. /\ h.mode = 0 => k.mode = 0
        /\ p = 0 /\ g.mode = 0 => h.mode = 0
    BY <1>1, <1>3, <1>4, <1>5, LinesAre DEF Scanning, ModeAt, Come, OamTicks, DrawTicks
  <2>2. p * LineTicks + k.modeclock <= g.modeclock + (n + 1) * ChunkTicks
    BY <1>4, <1>5 DEF Scanning, Come, LineTicks, ChunkTicks
  <2>3. p = 0 => k.modeclock >= g.modeclock
    BY <1>4, <1>5 DEF Scanning, Come
  <2>4. k.hblanking => p > 0 \/ (k.mode = 0 /\ g.mode # 0)
    BY <1>5, <2>1 DEF Come
  <2>5. Come(g, k, n + 1, p)
    BY <1>2, <1>3, <1>5, <2>2, <2>3, <2>4 DEF Come
  <2> QED BY <2>5 DEF k
<1>6. CASE k.line = (h.line + 1) % Lines /\ k.modeclock = h.modeclock + t - LineTicks
  <2>1. k.line = IF h.line + 1 < Lines THEN h.line + 1 ELSE 0
    BY <1>4, <1>6, LinesAre DEF Scanning
  <2>2. k.line \in {g.line + (p + 1), g.line + (p + 1) - Lines}
    BY <1>4, <2>1, LinesAre DEF Scanning, Come
  <2>3. (p + 1) * LineTicks + k.modeclock <= g.modeclock + (n + 1) * ChunkTicks
    BY <1>4, <1>6 DEF Scanning, Come, LineTicks, ChunkTicks
  <2>4. p + 1 \in Nat /\ p + 1 > 0 /\ p + 1 # 0
    BY DEF Come
  <2>5. Come(g, k, n + 1, p + 1)
    BY <1>2, <1>3, <2>2, <2>3, <2>4 DEF Come
  <2> QED BY <2>5 DEF k
<1> QED BY <1>2, <1>5, <1>6 DEF Advanced

LEMMA GpuCycled ==
  ASSUME NEW g, GpuOK(g), NEW ticks \in Nat, ticks <= 1048
  PROVE  LET h == GpuCycle(g, ticks)
         IN  /\ GpuOK(h) /\ SameRegisters(g, h)
             /\ ~LcdOn(g) => h = g
             /\ LcdOn(g) /\ h.hblanking => h.line # g.line \/ (h.mode = 0 /\ g.mode # 0)
<1> DEFINE h == GpuCycle(g, ticks)
           s == Chunks(ticks)
           N == Len(s)
           a0 == [g EXCEPT !.hblanking = FALSE]
<1>1. N \in Nat /\ N = (ticks + 79) \div 80
      /\ \A i \in 1..N : s[i] \in Int /\ 0 <= s[i] /\ s[i] <= ChunkTicks
  BY ChunksAre
<1>2. N <= 14
  BY <1>1
<1>3. CASE ~LcdOn(g)
  <2>1. h = g
    BY <1>3 DEF GpuCycle
  <2>2. SameRegisters(g, g)
    BY DEF SameRegisters
  <2> QED BY <1>3, <2>1, <2>2
<1>4. CASE LcdOn(g)
  <2>1. h = AfterChunks(a0, s)
    BY <1>4 DEF GpuCycle
  <2> HIDE DEF h, s, N, a0
  <2>2. PICK f : ChunkRun(f, a0, s, N) /\ AfterChunks(a0, s) = f[N]
    BY <1>1, ChunkRuns DEF N
  <2>3. Come(g, a0, 0, 0)
    <3>1. DOMAIN g = GpuFields
      BY DEF GpuOK
    <3>2. /\ DOMAIN a0 = GpuFields /\ SameRegisters(g, a0) /\ a0.hblanking = FALSE
          /\ a0.mode = g.mode /\ a0.modeclock = g.modeclock /\ a0.line = g.line
          /\ a0.wy_trigger = g.wy_trigger /\ a0.wy_pos = g.wy_pos
          /\ a0.first_frame = g.first_frame /\ a0.drawn = g.drawn
          /\ a0.frame = g.frame /\ a0.interrupt = g.interrupt
      BY <3>1 DEF GpuFields, SameRegisters, a0
    <3>3. GpuOK(a0)
      <4>1. /\ Registered(a0) /\ Scanning(a0) /\ WindowBehind(a0)
        BY <3>2 DEF GpuOK, SameRegisters, Registered, Scanning, WindowBehind, LcdOn
      <4>2. DrawnSoFar(a0) = DrawnSoFar(g)
        BY <3>2 DEF SameRegisters, DrawnSoFar, LcdOn
      <4> QED BY <3>2, <4>1, <4>2 DEF GpuOK
    <3>4. g.modeclock \in Int /\ g.line \in Int
      BY DEF GpuOK, Scanning
    <3> QED BY <3>2, <3>3, <3>4 DEF Come, LineTicks, ChunkTicks
  <2> DEFINE J(n) == \E p : Come(g, f[n], n, p)
             P == {n \in 0..N : J(n)}
  <2>4. ASSUME NEW n \in 0..N, NEW p, Come(g, f[n], n, p) PROVE p \in Nat /\ p <= 3
    BY <2>4, <1>1, <1>2 DEF Come, GpuOK, Scanning, LineTicks, ChunkTicks
  <2>5. 0 \in P
    <3>1. f[0] = a0
      BY <2>2, <1>1 DEF ChunkRun
    <3> QED BY <2>3, <3>1, <1>1
  <2>6. ASSUME NEW n \in 1..N, n - 1 \in P PROVE n \in P
    <3>1. PICK p : Come(g, f[n - 1], n - 1, p)
      BY <2>6
    <3>2. f[n] = GpuChunk(f[n - 1], s[n])
      BY <2>2, <1>1 DEF ChunkRun
    <3>3. n - 1 \in Nat /\ n - 1 \in 0..N /\ n - 1 + 1 = n
      BY <1>1
    <3> DEFINE m == n - 1
    <3> HIDE DEF m
    <3>4. Come(g, f[m], m, p) /\ m \in Nat /\ m \in 0..N /\ m + 1 = n /\ f[n] = GpuChunk(f[m], s[n])
      BY <3>1, <3>2, <3>3 DEF m
    <3>5. p <= 3
      BY <2>4, <3>4
    <3>6. s[n] \in Int /\ 0 <= s[n] /\ s[n] <= ChunkTicks
      BY <1>1
    <3>7. Come(g, f[n], m + 1, p) \/ Come(g, f[n], m + 1, p + 1)
      BY <1>4, <3>4, <3>5, <3>6, ComeOn
    <3> QED BY <3>4, <3>7
  <2> HIDE DEF P
  <2>7. N \in P
    <3>1. \A n \in 0..N : n \in P
      BY <1>1, <2>5, <2>6, UpTo
    <3> QED BY <3>1, <1>1
  <2> USE DEF P
  <2>8. PICK p : Come(g, h, N, p)
    BY <2>1, <2>2, <2>7
  <2>9. p \in Nat /\ p <= 3
    BY <2>1, <2>2, <2>4, <2>8, <1>1
  <2>10. p > 0 => h.line # g.line
    BY <2>8, <2>9, LinesAre DEF Come, GpuOK, Scanning
  <2>11. /\ GpuOK(h) /\ SameRegisters(g, h)
         /\ h.hblanking => h.line # g.line \/ (h.mode = 0 /\ g.mode # 0)
    BY <2>8, <2>9, <2>10 DEF Come
  <2> QED BY <1>4, <2>11 DEF h
<1> QED BY <1>3, <1>4

\* The scan is as it was.
ScanKept(g, h) ==
  /\ DOMAIN h = GpuFields /\ h.lcdc = g.lcdc
  /\ h.mode = g.mode /\ h.modeclock = g.modeclock /\ h.line = g.line
  /\ h.wy_trigger = g.wy_trigger /\ h.wy_pos = g.wy_pos
  /\ h.first_frame = g.first_frame /\ h.drawn = g.drawn /\ h.frame = g.frame
  /\ h.interrupt \subseteq {0, 1}

LEMMA ScanKeptOK ==
  ASSUME NEW g, GpuOK(g), NEW h, ScanKept(g, h), Registered(h)
  PROVE  GpuOK(h)
<1>1. Scanning(h) /\ WindowBehind(h)
  BY DEF GpuOK, ScanKept, Scanning, WindowBehind, LcdOn
<1>2. DrawnSoFar(h) = DrawnSoFar(g)
  BY DEF GpuOK, ScanKept, DrawnSoFar, LcdOn
<1> QED BY <1>1, <1>2 DEF GpuOK, ScanKept

LEMMA FlagsReset ==
  ASSUME NEW g, GpuOK(g)
  PROVE  /\ GpuOK([g EXCEPT !.interrupt = {}])
         /\ GpuOK([g EXCEPT !.updated = FALSE])
<1> DEFINE h == [g EXCEPT !.interrupt = {}]
           k == [g EXCEPT !.updated = FALSE]
<1>1. ScanKept(g, h) /\ ScanKept(g, k) /\ Registered(h) /\ Registered(k)
  BY DEF GpuOK, GpuFields, ScanKept, Registered
<1> HIDE DEF h, k
<1>2. GpuOK(h) /\ GpuOK(k)
  BY <1>1, ScanKeptOK
<1> QED BY <1>2 DEF h, k

LEMMA NewGpuOK ==
  ASSUME NEW mode
  PROVE  GpuOK(NewGpu(mode)) /\ NewGpu(mode).gbmode = mode /\ ~LcdOn(NewGpu(mode))
<1> DEFINE g == NewGpu(mode)
<1>1. /\ g.mode = 0 /\ g.modeclock = 0 /\ g.line = 0 /\ g.lcdc = {3, 4, 6} /\ g.wy_trigger = FALSE
      /\ g.wy_pos = -1 /\ g.drawn = NothingDrawn /\ g.frame = "none" /\ g.interrupt = {}
      /\ g.gbmode = mode /\ DOMAIN g = GpuFields
  BY DEF NewGpu, GpuFields
<1>2. /\ g.lyc = 0 /\ g.scy = 0 /\ g.scx = 0 /\ g.winy = 0 /\ g.winx = 0 /\ g.stat = {}
      /\ g.palettes = <<0, 0, 1>> /\ g.cbg = NewPalette /\ g.csprit = NewPalette
      /\ g.vram = NoMemory /\ g.voam = NoMemory /\ g.vrambank = 0
  BY DEF NewGpu
<1> HIDE DEF g
<1>3. ~LcdOn(g)
  BY <1>1 DEF LcdOn
<1>4. PaletteOK(NewPalette)
  BY NoMemoryIs, ByteIs DEF PaletteOK, NewPalette
<1>5. Registered(g)
  BY <1>2, <1>4, NoMemoryIs, ByteIs DEF Registered
<1>6. Scanning(g) /\ WindowBehind(g) /\ DrawnSoFar(g) = NothingDrawn
  BY <1>1, <1>3, LinesAre DEF Scanning, WindowBehind, DrawnSoFar, LineTicks
<1>7. GpuOK(g)
  BY <1>1, <1>5, <1>6 DEF GpuOK
<1> QED BY <1>1, <1>3, <1>7 DEF g

LEMMA PaletteIs ==
  ASSUME NEW p, PaletteOK(p)
  PROVE  /\ PaletteRb(p) \in Byte /\ PaletteIndexRb(p) \in Byte
         /\ \A v \in Byte : PaletteOK(PaletteWb(p, v)) /\ PaletteOK(PaletteIndexWb(p, v))
<1>1. DOMAIN p = {"ind", "inc", "mem"} /\ p.ind \in Byte /\ Bytes(p.mem) /\ p.ind \in Int
      /\ 0 <= p.ind /\ p.ind <= 255
  BY ByteIs DEF PaletteOK
<1>2. PaletteRb(p) \in Byte /\ PaletteIndexRb(p) \in Byte
  BY <1>1, AtIs, ByteOfIs DEF PaletteRb, PaletteIndexRb
<1>3. ASSUME NEW v \in Byte PROVE PaletteOK(PaletteWb(p, v)) /\ PaletteOK(PaletteIndexWb(p, v))
  <2> DEFINE i == IF p.inc THEN (p.ind + 1) % 64 ELSE p.ind
             mem == Stored(p.mem, p.ind, IF p.ind % 2 = 0 THEN v ELSE v % 128)
             j == v % 64
             up == v >= 128
  <2>1. v \in Int /\ 0 <= v /\ v <= 255
    BY <1>3, ByteIs
  <2>2. i \in Int /\ 0 <= i /\ i <= 255 /\ j \in Int /\ 0 <= j /\ j <= 255
        /\ v % 128 \in Int /\ 0 <= v % 128 /\ v % 128 <= 255
    BY <1>1, <2>1
  <2>3. i \in Byte /\ j \in Byte /\ v % 128 \in Byte
    <3> HIDE DEF i, j
    <3>1. i \in Byte /\ j \in Byte
      BY <2>2, ByteIs
    <3> DEFINE w == v % 128
    <3> HIDE DEF w
    <3>2. w \in Int /\ 0 <= w /\ w <= 255
      BY <2>2 DEF w
    <3>3. w \in Byte
      BY <3>2, ByteIs
    <3> QED BY <3>1, <3>3 DEF w
  <2>4. Bytes(mem)
    BY <1>1, <1>3, <2>3, StoredIs
  <2>5. /\ PaletteWb(p, v) = [p EXCEPT !.mem = mem, !.ind = i]
        /\ PaletteIndexWb(p, v) = [p EXCEPT !.ind = j, !.inc = up]
    BY <1>1 DEF PaletteWb, PaletteIndexWb
  <2> HIDE DEF i, mem, j, up
  <2> QED BY <1>1, <2>3, <2>4, <2>5 DEF PaletteOK
<1> QED BY <1>2, <1>3

LEMMA GpuRead ==
  ASSUME NEW g, GpuOK(g), NEW a
  PROVE  GpuRb(g, a) \in Byte
<1>1. Registered(g) /\ Scanning(g)
  BY DEF GpuOK
<1>2. /\ Bytes(g.vram) /\ Bytes(g.voam) /\ g.scy \in Byte /\ g.scx \in Byte /\ g.lyc \in Byte
      /\ g.winy \in Byte /\ g.winx \in Byte /\ PaletteOK(g.cbg) /\ PaletteOK(g.csprit)
      /\ g.vrambank \in {0, 1}
      /\ \A i \in {1, 2, 3} : g.palettes[i] \in Byte
  BY <1>1 DEF Registered
<1>3. g.line \in Byte
  <2>1. g.line \in Int /\ 0 <= g.line /\ g.line <= 255
    BY <1>1, LinesAre DEF Scanning
  <2> QED BY <2>1, ByteIs
<1>4. 128 + ByteOf(g.stat) + (IF g.line = g.lyc THEN 4 ELSE 0) + g.mode \in Byte
  <2> DEFINE s == ByteOf(g.stat)
             n == 128 + s + (IF g.line = g.lyc THEN 4 ELSE 0) + g.mode
  <2>1. s \in Byte /\ s <= 120
    BY <1>1, ByteOfIs DEF Registered
  <2>2. g.mode \in {0, 1, 2, 3}
    BY <1>1 DEF Scanning, ModeAt
  <2> HIDE DEF s
  <2>3. n \in Int /\ 0 <= n /\ n <= 255
    BY <2>1, <2>2, ByteIs
  <2> HIDE DEF n
  <2>4. n \in Byte
    BY <2>3, ByteIs
  <2> QED BY <2>4 DEF n, s
<1>5. g.vrambank + 254 \in Byte /\ 0 \in Byte /\ 255 \in Byte
  <2>1. g.vrambank + 254 \in {254, 255}
    BY <1>2
  <2> QED BY <2>1, ByteIs
<1>6. a \in {65351, 65352, 65353} => a - 65350 \in {1, 2, 3}
  OBVIOUS
<1>7. a \in 65351..65353 => g.palettes[a - 65350] \in Byte
  BY <1>2, <1>6
<1>8. At(g.vram, VramIndex(g, a)) \in Byte /\ At(g.voam, a - 65024) \in Byte
  BY <1>2, AtIs
<1>9. ByteOf(g.lcdc) \in Byte /\ PaletteRb(g.cbg) \in Byte /\ PaletteRb(g.csprit) \in Byte
      /\ PaletteIndexRb(g.cbg) \in Byte /\ PaletteIndexRb(g.csprit) \in Byte
  BY <1>2, ByteOfIs, PaletteIs
<1> QED BY <1>2, <1>3, <1>4, <1>5, <1>7, <1>8, <1>9 DEF GpuRb

\* Bit 7 of what is written to LCDC.
LEMMA TopBit ==
  ASSUME NEW v \in Byte
  PROVE  7 \in BitsOf(v) <=> v >= 128
<1>1. v \in Int /\ 0 <= v /\ v <= 255
  BY ByteIs
<1>2. Bit(v, 7) = (v \div 128) % 2
  BY Powers DEF Bit
<1> QED BY <1>1, <1>2 DEF BitsOf

LEMMA LcdcWritten ==
  ASSUME NEW g, GpuOK(g), NEW v \in Byte
  PROVE  LET h == LcdcWb(g, v)
         IN  GpuOK(h) /\ h.gbmode = g.gbmode /\ h.hblanking = g.hblanking
<1> DEFINE w == [g EXCEPT !.lcdc = BitsOf(v)]
           h == LcdcWb(g, v)
<1>0. v \in Int
  BY ByteIs
<1>1. DOMAIN g = GpuFields /\ Registered(g) /\ Scanning(g) /\ WindowBehind(g)
      /\ g.drawn = DrawnSoFar(g) /\ g.frame \in {"none", "blank", "whole"} /\ g.interrupt \subseteq {0, 1}
  BY DEF GpuOK
<1>2. /\ DOMAIN w = GpuFields /\ w.lcdc = BitsOf(v) /\ w.mode = g.mode /\ w.modeclock = g.modeclock
      /\ w.line = g.line /\ w.wy_trigger = g.wy_trigger /\ w.wy_pos = g.wy_pos
      /\ w.first_frame = g.first_frame /\ w.drawn = g.drawn /\ w.frame = g.frame
      /\ w.interrupt = g.interrupt /\ w.gbmode = g.gbmode /\ w.hblanking = g.hblanking
      /\ Registered(w)
  BY <1>1 DEF GpuFields, Registered
<1>3. LcdOn(w) <=> v >= 128
  BY <1>2, TopBit DEF LcdOn
<1>4. CASE LcdOn(g) /\ v < 128
  <2>1. h = [w EXCEPT !.modeclock = 0, !.line = 0, !.mode = 0, !.wy_trigger = FALSE,
                      !.first_frame = TRUE, !.updated = TRUE, !.drawn = NothingDrawn]
    BY <1>4 DEF LcdcWb
  <2> HIDE DEF h, w
  <2>2. /\ DOMAIN h = GpuFields /\ h.lcdc = w.lcdc /\ h.mode = 0 /\ h.modeclock = 0 /\ h.line = 0
        /\ h.wy_trigger = FALSE /\ h.wy_pos = g.wy_pos /\ h.drawn = NothingDrawn
        /\ h.frame = g.frame /\ h.interrupt = g.interrupt /\ h.gbmode = g.gbmode
        /\ h.hblanking = g.hblanking /\ Registered(h)
    BY <1>2, <2>1 DEF GpuFields, Registered
  <2>3. ~LcdOn(h)
    BY <1>0, <1>3, <1>4, <2>2 DEF LcdOn
  <2>4. Scanning(h) /\ WindowBehind(h) /\ DrawnSoFar(h) = NothingDrawn
    BY <1>1, <2>2, <2>3, LinesAre DEF Scanning, WindowBehind, DrawnSoFar, LineTicks
  <2>5. GpuOK(h)
    BY <1>1, <2>2, <2>4 DEF GpuOK
  <2> QED BY <2>2, <2>5 DEF h
<1>5. CASE ~LcdOn(g) /\ v >= 128
  <2> DEFINE e == EnterMode(w, 2)
             c == change_mode(w, 2)
  <2>1. h = [c EXCEPT !.modeclock = 4]
    BY <1>0, <1>5 DEF LcdcWb
  <2> HIDE DEF w, h
  <2>2. /\ Entered(w, e, 2)
        /\ e.wy_trigger = w.wy_trigger /\ e.wy_pos = w.wy_pos /\ e.hblanking = w.hblanking
        /\ e.first_frame = w.first_frame /\ e.drawn = w.drawn /\ e.frame = w.frame
    BY <1>2, Enters2
  <2>3. SameScan(e, c)
    BY <2>2, ModeChanged DEF Entered
  <2> HIDE DEF e, c
  <2>4. /\ DOMAIN c = GpuFields /\ SameRegisters(w, c) /\ c.mode = 2 /\ c.line = 0
        /\ c.wy_trigger = g.wy_trigger /\ c.wy_pos = g.wy_pos /\ c.drawn = NothingDrawn
        /\ c.frame = g.frame /\ c.interrupt \subseteq {0, 1} /\ c.hblanking = g.hblanking
    <3>1. g.line = 0 /\ g.drawn = NothingDrawn
      BY <1>1, <1>5 DEF Scanning, DrawnSoFar
    <3>2. SameRegisters(w, c)
      BY <2>2, <2>3 DEF Entered, SameScan, SameRegisters
    <3> QED BY <1>1, <1>2, <2>2, <2>3, <3>1, <3>2 DEF Entered, SameScan
  <2>5. /\ DOMAIN h = GpuFields /\ SameRegisters(w, h) /\ h.mode = 2 /\ h.line = 0
        /\ h.modeclock = 4
        /\ h.wy_trigger = g.wy_trigger /\ h.wy_pos = g.wy_pos /\ h.drawn = NothingDrawn
        /\ h.frame = g.frame /\ h.interrupt \subseteq {0, 1} /\ h.hblanking = g.hblanking
    BY <2>1, <2>4 DEF GpuFields, SameRegisters
  <2>6. Registered(h) /\ LcdOn(h) /\ h.gbmode = g.gbmode
    BY <1>2, <1>3, <1>5, <2>5 DEF Registered, SameRegisters, LcdOn
  <2>7. Scanning(h)
    BY <2>5, <2>6, LinesAre DEF Scanning, ModeAt, LineTicks, OamTicks
  <2>8. WindowBehind(h)
    <3>1. ~g.wy_trigger
      BY <1>1, <1>5 DEF WindowBehind
    <3> QED BY <1>1, <2>5, <3>1, LinesAre DEF WindowBehind
  <2>9. DrawnSoFar(h) = NothingDrawn
    <3>1. DrawnSoFar(h) \in {NothingDrawn, DrawnBefore(0)}
      BY <2>5 DEF DrawnSoFar
    <3> QED BY <3>1, NoLineDrawn
  <2>10. GpuOK(h)
    BY <1>1, <2>5, <2>6, <2>7, <2>8, <2>9 DEF GpuOK
  <2> QED BY <2>5, <2>6, <2>10 DEF h
<1>6. CASE ~(LcdOn(g) /\ v < 128) /\ ~(~LcdOn(g) /\ v >= 128)
  <2>1. h = w
    BY <1>6 DEF LcdcWb
  <2> HIDE DEF w, h
  <2>2. LcdOn(w) <=> LcdOn(g)
    BY <1>0, <1>3, <1>6
  <2>3. Scanning(w) /\ WindowBehind(w)
    BY <1>1, <1>2, <2>2 DEF Scanning, WindowBehind
  <2>4. DrawnSoFar(w) = DrawnSoFar(g)
    BY <1>1, <1>2, <2>2 DEF DrawnSoFar
  <2>5. GpuOK(w)
    BY <1>1, <1>2, <2>3, <2>4 DEF GpuOK
  <2> QED BY <1>2, <2>1, <2>5 DEF h
<1> QED BY <1>4, <1>5, <1>6

\* One register changes.
RegisterSet(g, h) ==
  ScanKept(g, h) /\ Registered(h) /\ h.gbmode = g.gbmode /\ h.hblanking = g.hblanking

GpuKept(g, h) == GpuOK(h) /\ h.gbmode = g.gbmode /\ h.hblanking = g.hblanking

LEMMA RegisterSetOK ==
  ASSUME NEW g, GpuOK(g), NEW h, RegisterSet(g, h)
  PROVE  GpuKept(g, h)
BY ScanKeptOK DEF RegisterSet, GpuKept

LEMMA GpuWrites ==
  ASSUME NEW g, GpuOK(g), NEW a \in Int, NEW v \in Byte
  PROVE  GpuKept(g, GpuWb(g, a, v))
<1> DEFINE h == GpuWb(g, a, v)
<1>1. DOMAIN g = GpuFields /\ Registered(g) /\ g.interrupt \subseteq {0, 1} /\ v \in Nat
  BY ByteIs DEF GpuOK
<1> HIDE DEF h
<1>2. ASSUME InVram(a) PROVE GpuKept(g, h)
  <2> DEFINE x == Stored(g.vram, VramIndex(g, a), v)
  <2>1. Bytes(x)
    BY <1>1, StoredIs DEF Registered
  <2>2. h = [g EXCEPT !.vram = x]
    BY <1>2, SMT DEF h, GpuWb, InVram, InOam
  <2> HIDE DEF x
  <2>3. RegisterSet(g, h)
    BY <1>1, <2>1, <2>2 DEF GpuFields, Registered, RegisterSet, ScanKept
  <2> QED BY <2>3, RegisterSetOK
<1>3. ASSUME InOam(a) PROVE GpuKept(g, h)
  <2> DEFINE x == Stored(g.voam, a - 65024, v)
  <2>1. Bytes(x)
    BY <1>1, StoredIs DEF Registered
  <2>2. h = [g EXCEPT !.voam = x]
    BY <1>3 DEF h, GpuWb, InVram, InOam
  <2> HIDE DEF x
  <2>3. RegisterSet(g, h)
    BY <1>1, <2>1, <2>2 DEF GpuFields, Registered, RegisterSet, ScanKept
  <2> QED BY <2>3, RegisterSetOK
<1>4. ASSUME a = 65345 PROVE GpuKept(g, h)
  <2> DEFINE x == BitsOf(v) \cap 3..6
  <2>1. x \subseteq 3..6
    BY <1>1
  <2>2. h = [g EXCEPT !.stat = x]
    BY <1>4 DEF h, GpuWb, InVram, InOam
  <2> HIDE DEF x
  <2>3. RegisterSet(g, h)
    BY <1>1, <2>1, <2>2 DEF GpuFields, Registered, RegisterSet, ScanKept
  <2> QED BY <2>3, RegisterSetOK
<1>5. ASSUME a = 65346 PROVE GpuKept(g, h)
  <2> DEFINE x == v
  <2>1. x \in Byte
    BY <1>1
  <2>2. h = [g EXCEPT !.scy = x]
    BY <1>5 DEF h, GpuWb, InVram, InOam
  <2> HIDE DEF x
  <2>3. RegisterSet(g, h)
    BY <1>1, <2>1, <2>2 DEF GpuFields, Registered, RegisterSet, ScanKept
  <2> QED BY <2>3, RegisterSetOK
<1>6. ASSUME a = 65347 PROVE GpuKept(g, h)
  <2> DEFINE x == v
  <2>1. x \in Byte
    BY <1>1
  <2>2. h = [g EXCEPT !.scx = x]
    BY <1>6 DEF h, GpuWb, InVram, InOam
  <2> HIDE DEF x
  <2>3. RegisterSet(g, h)
    BY <1>1, <2>1, <2>2 DEF GpuFields, Registered, RegisterSet, ScanKept
  <2> QED BY <2>3, RegisterSetOK
<1>7. ASSUME a = 65354 PROVE GpuKept(g, h)
  <2> DEFINE x == v
  <2>1. x \in Byte
    BY <1>1
  <2>2. h = [g EXCEPT !.winy = x]
    BY <1>7 DEF h, GpuWb, InVram, InOam
  <2> HIDE DEF x
  <2>3. RegisterSet(g, h)
    BY <1>1, <2>1, <2>2 DEF GpuFields, Registered, RegisterSet, ScanKept
  <2> QED BY <2>3, RegisterSetOK
<1>8. ASSUME a = 65355 PROVE GpuKept(g, h)
  <2> DEFINE x == v
  <2>1. x \in Byte
    BY <1>1
  <2>2. h = [g EXCEPT !.winx = x]
    BY <1>8 DEF h, GpuWb, InVram, InOam
  <2> HIDE DEF x
  <2>3. RegisterSet(g, h)
    BY <1>1, <2>1, <2>2 DEF GpuFields, Registered, RegisterSet, ScanKept
  <2> QED BY <2>3, RegisterSetOK
<1>9. ASSUME a = 65351 PROVE GpuKept(g, h)
  <2> DEFINE x == v
  <2>1. x \in Byte
    BY <1>1
  <2>2. h = [g EXCEPT !.palettes[1] = x]
    BY <1>9 DEF h, GpuWb, InVram, InOam
  <2> HIDE DEF x
  <2>3. RegisterSet(g, h)
    BY <1>1, <2>1, <2>2 DEF GpuFields, Registered, RegisterSet, ScanKept
  <2> QED BY <2>3, RegisterSetOK
<1>10. ASSUME a = 65352 PROVE GpuKept(g, h)
  <2> DEFINE x == v
  <2>1. x \in Byte
    BY <1>1
  <2>2. h = [g EXCEPT !.palettes[2] = x]
    BY <1>10 DEF h, GpuWb, InVram, InOam
  <2> HIDE DEF x
  <2>3. RegisterSet(g, h)
    BY <1>1, <2>1, <2>2 DEF GpuFields, Registered, RegisterSet, ScanKept
  <2> QED BY <2>3, RegisterSetOK
<1>11. ASSUME a = 65353 PROVE GpuKept(g, h)
  <2> DEFINE x == v
  <2>1. x \in Byte
    BY <1>1
  <2>2. h = [g EXCEPT !.palettes[3] = x]
    BY <1>11 DEF h, GpuWb, InVram, InOam
  <2> HIDE DEF x
  <2>3. RegisterSet(g, h)
    BY <1>1, <2>1, <2>2 DEF GpuFields, Registered, RegisterSet, ScanKept
  <2> QED BY <2>3, RegisterSetOK
<1>12. ASSUME a = 65359, g.gbmode = "Color" PROVE GpuKept(g, h)
  <2> DEFINE x == v % 2
  <2>1. x \in {0, 1}
    BY <1>1
  <2>2. h = [g EXCEPT !.vrambank = x]
    BY <1>12 DEF h, GpuWb, InVram, InOam
  <2> HIDE DEF x
  <2>3. RegisterSet(g, h)
    BY <1>1, <2>1, <2>2 DEF GpuFields, Registered, RegisterSet, ScanKept
  <2> QED BY <2>3, RegisterSetOK
<1>13. ASSUME a = 65384, g.gbmode = "Color" PROVE GpuKept(g, h)
  <2> DEFINE x == PaletteIndexWb(g.cbg, v)
  <2>1. PaletteOK(x)
    BY <1>1, PaletteIs DEF Registered
  <2>2. h = [g EXCEPT !.cbg = x]
    BY <1>13 DEF h, GpuWb, InVram, InOam
  <2> HIDE DEF x
  <2>3. RegisterSet(g, h)
    BY <1>1, <2>1, <2>2 DEF GpuFields, Registered, RegisterSet, ScanKept
  <2> QED BY <2>3, RegisterSetOK
<1>14. ASSUME a = 65385, g.gbmode = "Color" PROVE GpuKept(g, h)
  <2> DEFINE x == PaletteWb(g.cbg, v)
  <2>1. PaletteOK(x)
    BY <1>1, PaletteIs DEF Registered
  <2>2. h = [g EXCEPT !.cbg = x]
    BY <1>14 DEF h, GpuWb, InVram, InOam
  <2> HIDE DEF x
  <2>3. RegisterSet(g, h)
    BY <1>1, <2>1, <2>2 DEF GpuFields, Registered, RegisterSet, ScanKept
  <2> QED BY <2>3, RegisterSetOK
<1>15. ASSUME a = 65386, g.gbmode = "Color" PROVE GpuKept(g, h)
  <2> DEFINE x == PaletteIndexWb(g.csprit, v)
  <2>1. PaletteOK(x)
    BY <1>1, PaletteIs DEF Registered
  <2>2. h = [g EXCEPT !.csprit = x]
    BY <1>15 DEF h, GpuWb, InVram, InOam
  <2> HIDE DEF x
  <2>3. RegisterSet(g, h)
    BY <1>1, <2>1, <2>2 DEF GpuFields, Registered, RegisterSet, ScanKept
  <2> QED BY <2>3, RegisterSetOK
<1>16. ASSUME a = 65387, g.gbmode = "Color" PROVE GpuKept(g, h)
  <2> DEFINE x == PaletteWb(g.csprit, v)
  <2>1. PaletteOK(x)
    BY <1>1, PaletteIs DEF Registered
  <2>2. h = [g EXCEPT !.csprit = x]
    BY <1>16 DEF h, GpuWb, InVram, InOam
  <2> HIDE DEF x
  <2>3. RegisterSet(g, h)
    BY <1>1, <2>1, <2>2 DEF GpuFields, Registered, RegisterSet, ScanKept
  <2> QED BY <2>3, RegisterSetOK
<1>17. ASSUME a = 65344 PROVE GpuKept(g, h)
  <2>1. h = LcdcWb(g, v)
    BY <1>17 DEF h, GpuWb, InVram, InOam
  <2> QED BY <2>1, LcdcWritten DEF GpuKept
<1>18. ASSUME a = 65349 PROVE GpuKept(g, h)
  <2> DEFINE w == [g EXCEPT !.lyc = v]
  <2>1. h = check_interrupt_lyc(w)
    BY <1>18 DEF h, GpuWb, InVram, InOam
  <2>2. RegisterSet(g, w)
    BY <1>1 DEF GpuFields, Registered, RegisterSet, ScanKept
  <2> HIDE DEF w
  <2>3. GpuKept(g, w)
    BY <2>2, RegisterSetOK
  <2>4. SameScan(w, h)
    BY <2>1, <2>3, LycChecked DEF GpuKept, GpuOK
  <2>5. GpuOK(h)
    BY <2>3, <2>4, SameScanOK DEF GpuKept
  <2> QED BY <2>3, <2>4, <2>5 DEF GpuKept, SameScan, SameRegisters
<1>19. ASSUME h = g PROVE GpuKept(g, h)
  BY <1>19 DEF GpuKept
<1>20. \/ InVram(a) \/ InOam(a) \/ a \in {65344, 65345, 65346, 65347, 65349, 65351, 65352, 65353, 65354, 65355}
      \/ (a \in {65359, 65384, 65385, 65386, 65387} /\ g.gbmode = "Color")
      \/ h = g
  BY DEF GpuWb, h
<1>21. GpuKept(g, h)
  BY <1>2, <1>3, <1>4, <1>5, <1>6, <1>7, <1>8, <1>9, <1>10, <1>11, <1>12, <1>13, <1>14, <1>15, <1>16, <1>17, <1>18, <1>19, <1>20
<1> QED BY <1>21 DEF h

-----------------------------------------------------------------------------
(* The memory map.                                                         *)
MmuFields ==
  {"wram", "zram", "wrambank", "hdma", "inte", "intf", "serial", "timer", "keypad", "gpu", "mbc",
   "gbmode", "gbspeed", "speed_switch_req", "hdma_src", "hdma_dst", "hdma_status", "hdma_len",
   "undocumented", "rows"}

\* The memories and registers of the map itself.
MemoryOK(m) ==
  /\ Bytes(m.wram) /\ Bytes(m.zram) /\ m.wrambank \in Byte
  /\ DOMAIN m.undocumented = {1, 2, 3}
  /\ m.undocumented[1] \in Byte /\ m.undocumented[2] \in Byte /\ m.undocumented[3] \in Byte
  /\ m.inte \subseteq 0..7 /\ m.intf \subseteq 0..7 /\ m.keypad \subseteq 0..7
  /\ m.gbspeed \in {1, 2}

\* The registers that a transfer starts from: in video memory, in rows of 16.
HdmaOK(m) ==
  /\ DOMAIN m.hdma = {1, 2, 3, 4}
  /\ m.hdma[1] \in Byte /\ m.hdma[2] \in Byte /\ m.hdma[3] \in Byte /\ m.hdma[4] \in Byte
  /\ m.hdma[3] <= 31 /\ m.hdma[4] <= 240

\* A transfer under way ends within video memory.
TransferOK(m) ==
  /\ m.hdma_status \in {"NoDMA", "GDMA", "HDMA"}
  /\ m.hdma_src \in Word /\ m.hdma_dst \in Word /\ m.hdma_len \in Byte
  /\ m.hdma_status # "NoDMA" => m.hdma_len <= 127
  /\ m.hdma_status = "HDMA" => m.hdma_dst + m.hdma_len * 16 < 43008

\* While the screen is on, an HBlank begins with no row copied.
RowsOK(m) ==
  /\ m.rows \in {0, 1, 2, 3}
  /\ LcdOn(m.gpu) => m.rows <= 1 /\ (m.gpu.hblanking => m.rows = 0)

PartsOK(m) ==
  /\ m.serial \in Serial /\ TimerOK(m.timer) /\ GpuOK(m.gpu) /\ MbcOK(m.mbc)
  /\ m.gpu.gbmode = m.gbmode

MmuOK(m) ==
  /\ DOMAIN m = MmuFields
  /\ MemoryOK(m) /\ HdmaOK(m) /\ TransferOK(m) /\ RowsOK(m) /\ PartsOK(m)

LEMMA MmuRead ==
  ASSUME NEW m, MmuOK(m), NEW a \in Int
  PROVE  rb(m, a) \in Byte
<1>1. MemoryOK(m) /\ HdmaOK(m) /\ TransferOK(m) /\ PartsOK(m)
  BY DEF MmuOK
<1>2. readrom(m.mbc, a) \in Byte /\ readram(m.mbc, a) \in Byte /\ SerialRb(m.serial, a) \in Byte
      /\ GpuRb(m.gpu, a) \in Byte
  BY <1>1, MbcRead, SerialRead, GpuRead DEF PartsOK
<1>3. At(m.wram, WramIndex(m, a)) \in Byte /\ At(m.zram, a % 128) \in Byte /\ m.wrambank \in Byte
  BY <1>1, AtIs DEF MemoryOK
<1>4. InTimer(a) => TimerRb(m.timer, a) \in Byte
  BY <1>1, TimerRead DEF PartsOK
<1>5. ByteOf(m.intf \cup {5, 6, 7}) \in Byte /\ ByteOf(m.inte) \in Byte
      /\ Or8(m.undocumented[3], 143) \in Byte /\ Or8(m.hdma_len, 128) \in Byte
  BY ByteOfIs, Logical
<1>6. SpeedRb(m) \in Byte /\ 0 \in Byte /\ 255 \in Byte
  <2>1. SpeedRb(m) \in {126, 127, 254, 255}
    BY DEF SpeedRb
  <2> QED BY <2>1, ByteIs
<1>7. InHdma(a) => hdma_read(m, a) \in Byte
  <2>1. InHdma(a) /\ a < 65365 => a - 65360 \in {1, 2, 3, 4}
    BY DEF InHdma
  <2>2. InHdma(a) /\ a < 65365 => m.hdma[a - 65360] \in Byte
    BY <1>1, <2>1 DEF HdmaOK
  <2> QED BY <1>1, <1>5, <2>2 DEF TransferOK, hdma_read
<1>8. a \in 65394..65395 => m.undocumented[a - 65393] \in Byte
  <2>1. a \in 65394..65395 => a - 65393 \in {1, 2}
    OBVIOUS
  <2> QED BY <1>1, <2>1 DEF MemoryOK
<1> QED BY <1>2, <1>3, <1>4, <1>5, <1>6, <1>7, <1>8 DEF rb

LEMMA Mapped ==
  ASSUME NEW m, MmuOK(m), NEW a \in Word, NEW v \in Byte, ~Absent(m, a),
         a # 65350, ~InGpu(a), ~InHdma(a)
  PROVE  MmuOK(wb(m, a, v))
<1> DEFINE h == wb(m, a, v)
<1>1. /\ DOMAIN m = MmuFields /\ MemoryOK(m) /\ HdmaOK(m) /\ TransferOK(m) /\ RowsOK(m) /\ PartsOK(m)
      /\ a \in Int /\ v \in Int /\ 0 <= v /\ v <= 255
  BY ByteIs, WordIs DEF MmuOK
<1> HIDE DEF h
<1>2. ASSUME a < 32768 PROVE MmuOK(h)
  <2> DEFINE x == writerom(m.mbc, a, v)
  <2>1. MbcOK(x)
    BY <1>1, RomWritten DEF PartsOK
  <2>2. h = [m EXCEPT !.mbc = x]
    BY <1>1, <1>2 DEF h, wb, InCartRam, InWram, InSerial, InTimer, InZram
  <2> HIDE DEF x
  <2> QED BY <1>1, <2>1, <2>2 DEF MmuFields, MmuOK, MemoryOK, HdmaOK, TransferOK, RowsOK, PartsOK
<1>3. ASSUME InCartRam(a) PROVE MmuOK(h)
  <2> DEFINE x == writeram(m.mbc, a, v)
  <2>1. MbcOK(x)
    BY <1>1, RamWritten DEF PartsOK
  <2>2. h = [m EXCEPT !.mbc = x]
    BY <1>1, <1>3 DEF h, wb, InCartRam, InWram, InSerial, InTimer, InZram
  <2> HIDE DEF x
  <2> QED BY <1>1, <2>1, <2>2 DEF MmuFields, MmuOK, MemoryOK, HdmaOK, TransferOK, RowsOK, PartsOK
<1>4. ASSUME InWram(a) PROVE MmuOK(h)
  <2> DEFINE x == Stored(m.wram, WramIndex(m, a), v)
  <2>1. Bytes(x)
    BY <1>1, StoredIs DEF MemoryOK
  <2>2. h = [m EXCEPT !.wram = x]
    BY <1>1, <1>4 DEF h, wb, InCartRam, InWram, InSerial, InTimer, InZram
  <2> HIDE DEF x
  <2> QED BY <1>1, <2>1, <2>2 DEF MmuFields, MmuOK, MemoryOK, HdmaOK, TransferOK, RowsOK, PartsOK
<1>5. ASSUME InSerial(a) PROVE MmuOK(h)
  <2> DEFINE x == SerialWb(m.serial, a, v)
  <2>1. x \in Serial
    BY <1>1, SerialWritten DEF PartsOK
  <2>2. h = [m EXCEPT !.serial = x]
    BY <1>1, <1>5 DEF h, wb, InCartRam, InWram, InSerial, InTimer, InZram
  <2> HIDE DEF x
  <2> QED BY <1>1, <2>1, <2>2 DEF MmuFields, MmuOK, MemoryOK, HdmaOK, TransferOK, RowsOK, PartsOK
<1>6. ASSUME InTimer(a) PROVE MmuOK(h)
  <2> DEFINE x == TimerWb(m.timer, a, v)
  <2>1. TimerOK(x)
    BY <1>1, <1>6, TimerWritten DEF PartsOK
  <2>2. h = [m EXCEPT !.timer = x]
    BY <1>1, <1>6 DEF h, wb, InCartRam, InWram, InSerial, InTimer, InZram
  <2> HIDE DEF x
  <2> QED BY <1>1, <2>1, <2>2 DEF MmuFields, MmuOK, MemoryOK, HdmaOK, TransferOK, RowsOK, PartsOK
<1>7. ASSUME a = 65295 PROVE MmuOK(h)
  <2> DEFINE x == BitsOf(v)
  <2>1. x \subseteq 0..7
    BY DEF BitsOf
  <2>2. h = [m EXCEPT !.intf = x]
    BY <1>1, <1>7 DEF h, wb, InCartRam, InWram, InSerial, InTimer, InZram
  <2> HIDE DEF x
  <2> QED BY <1>1, <2>1, <2>2 DEF MmuFields, MmuOK, MemoryOK, HdmaOK, TransferOK, RowsOK, PartsOK
<1>8. ASSUME a = 65357 PROVE MmuOK(h)
  <2> DEFINE x == m.speed_switch_req \/ v % 2 = 1
  <2>2. h = [m EXCEPT !.speed_switch_req = x]
    BY <1>1, <1>8 DEF h, wb, InCartRam, InWram, InSerial, InTimer, InZram
  <2> HIDE DEF x
  <2> QED BY <1>1, <2>2 DEF MmuFields, MmuOK, MemoryOK, HdmaOK, TransferOK, RowsOK, PartsOK
<1>9. ASSUME a = 65392 PROVE MmuOK(h)
  <2> DEFINE x == MaxOne(v % 8)
  <2>1. x \in Byte
    BY <1>1, ByteIs DEF MaxOne
  <2>2. h = [m EXCEPT !.wrambank = x]
    BY <1>1, <1>9 DEF h, wb, InCartRam, InWram, InSerial, InTimer, InZram
  <2> HIDE DEF x
  <2> QED BY <1>1, <2>1, <2>2 DEF MmuFields, MmuOK, MemoryOK, HdmaOK, TransferOK, RowsOK, PartsOK
<1>10. ASSUME a = 65394 PROVE MmuOK(h)
  <2> DEFINE x == v
  <2>1. x \in Byte
    BY <1>1
  <2>2. h = [m EXCEPT !.undocumented[1] = x]
    BY <1>1, <1>10 DEF h, wb, InCartRam, InWram, InSerial, InTimer, InZram
  <2> HIDE DEF x
  <2> QED BY <1>1, <2>1, <2>2 DEF MmuFields, MmuOK, MemoryOK, HdmaOK, TransferOK, RowsOK, PartsOK
<1>11. ASSUME a = 65395 PROVE MmuOK(h)
  <2> DEFINE x == v
  <2>1. x \in Byte
    BY <1>1
  <2>2. h = [m EXCEPT !.undocumented[2] = x]
    BY <1>1, <1>11 DEF h, wb, InCartRam, InWram, InSerial, InTimer, InZram
  <2> HIDE DEF x
  <2> QED BY <1>1, <2>1, <2>2 DEF MmuFields, MmuOK, MemoryOK, HdmaOK, TransferOK, RowsOK, PartsOK
<1>12. ASSUME a = 65397 PROVE MmuOK(h)
  <2> DEFINE x == v
  <2>1. x \in Byte
    BY <1>1
  <2>2. h = [m EXCEPT !.undocumented[3] = x]
    BY <1>1, <1>12 DEF h, wb, InCartRam, InWram, InSerial, InTimer, InZram
  <2> HIDE DEF x
  <2> QED BY <1>1, <2>1, <2>2 DEF MmuFields, MmuOK, MemoryOK, HdmaOK, TransferOK, RowsOK, PartsOK
<1>13. ASSUME InZram(a) PROVE MmuOK(h)
  <2> DEFINE x == Stored(m.zram, a % 128, v)
  <2>1. Bytes(x)
    BY <1>1, StoredIs DEF MemoryOK
  <2>2. h = [m EXCEPT !.zram = x]
    BY <1>1, <1>13 DEF h, wb, InCartRam, InWram, InSerial, InTimer, InZram
  <2> HIDE DEF x
  <2> QED BY <1>1, <2>1, <2>2 DEF MmuFields, MmuOK, MemoryOK, HdmaOK, TransferOK, RowsOK, PartsOK
<1>14. ASSUME a = 65535 PROVE MmuOK(h)
  <2> DEFINE x == BitsOf(v)
  <2>1. x \subseteq 0..7
    BY DEF BitsOf
  <2>2. h = [m EXCEPT !.inte = x]
    BY <1>1, <1>14 DEF h, wb, InCartRam, InWram, InSerial, InTimer, InZram
  <2> HIDE DEF x
  <2> QED BY <1>1, <2>1, <2>2 DEF MmuFields, MmuOK, MemoryOK, HdmaOK, TransferOK, RowsOK, PartsOK
<1>15. ASSUME h = m PROVE MmuOK(h)
  BY <1>15
<1>16. \/ a < 32768 \/ InCartRam(a) \/ InWram(a) \/ InSerial(a) \/ InTimer(a) \/ InZram(a)
      \/ a \in {65295, 65357, 65392, 65394, 65395, 65397, 65535} \/ h = m
  BY DEF wb, h
<1>17. MmuOK(h)
  BY <1>2, <1>3, <1>4, <1>5, <1>6, <1>7, <1>8, <1>9, <1>10, <1>11, <1>12, <1>13, <1>14, <1>15, <1>16
<1> QED BY <1>17 DEF h

\* The parts of the map that stay as they are stay in order.
MemorySame(m, h) ==
  /\ h.wram = m.wram /\ h.zram = m.zram /\ h.wrambank = m.wrambank
  /\ h.undocumented = m.undocumented /\ h.inte = m.inte /\ h.intf = m.intf
  /\ h.keypad = m.keypad /\ h.gbspeed = m.gbspeed
PartsSame(m, h) ==
  /\ h.serial = m.serial /\ h.timer = m.timer /\ h.gpu = m.gpu /\ h.mbc = m.mbc
  /\ h.gbmode = m.gbmode /\ h.rows = m.rows
TransferSame(m, h) ==
  /\ h.hdma_status = m.hdma_status /\ h.hdma_src = m.hdma_src /\ h.hdma_dst = m.hdma_dst
  /\ h.hdma_len = m.hdma_len

LEMMA SameOK ==
  ASSUME NEW m, MmuOK(m), NEW h
  PROVE  /\ MemorySame(m, h) => MemoryOK(h)
         /\ PartsSame(m, h) => PartsOK(h) /\ RowsOK(h)
         /\ TransferSame(m, h) => TransferOK(h)
         /\ h.hdma = m.hdma => HdmaOK(h)
<1>1. MemorySame(m, h) => MemoryOK(h)
  BY DEF MmuOK, MemoryOK, MemorySame
<1>2. PartsSame(m, h) => PartsOK(h) /\ RowsOK(h)
  BY DEF MmuOK, PartsOK, RowsOK, PartsSame
<1>3. TransferSame(m, h) => TransferOK(h)
  BY DEF MmuOK, TransferOK, TransferSame
<1>4. h.hdma = m.hdma => HdmaOK(h)
  BY DEF MmuOK, HdmaOK
<1> QED BY <1>1, <1>2, <1>3, <1>4

\* The registers of a transfer, and what starts one.
LEMMA HdmaStarted ==
  ASSUME NEW m, MmuOK(m), NEW v \in Byte
  PROVE  MmuOK(HdmaStart(m, v))
<1> DEFINE h == HdmaStart(m, v)
           src == WordOf(m.hdma[1], m.hdma[2])
           dst == WordOf(m.hdma[3] + 128, m.hdma[4])
           len == v % 128
           status == IF v >= 128 THEN "HDMA" ELSE "GDMA"
<1>1. /\ DOMAIN m = MmuFields /\ MemoryOK(m) /\ HdmaOK(m) /\ RowsOK(m) /\ PartsOK(m)
      /\ v \in Int /\ 0 <= v /\ v <= 255
  BY ByteIs DEF MmuOK
<1>2. h = [m EXCEPT !.hdma_src = src, !.hdma_dst = dst, !.hdma_len = len, !.hdma_status = status]
  BY DEF HdmaStart
<1>3. src \in Word
  BY <1>1, Bytes2 DEF HdmaOK
<1>4. len \in Int /\ 0 <= len /\ len <= 127
  BY <1>1
<1>5. dst \in Int /\ 0 <= dst /\ dst <= 40944
  <2> DEFINE high == m.hdma[3]
             low == m.hdma[4]
  <2>1. high \in Int /\ 0 <= high /\ high <= 31 /\ low \in Int /\ 0 <= low /\ low <= 240
    BY <1>1, ByteIs DEF HdmaOK
  <2>2. dst = (high + 128) * 256 + low
    BY DEF WordOf
  <2> HIDE DEF high, low, dst
  <2> QED BY <2>1, <2>2
<1> HIDE DEF h, src, dst, len
<1>6. len \in Byte /\ dst \in Word /\ dst + len * 16 < 43008
  BY <1>4, <1>5, ByteIs, WordIs
<1>7. /\ DOMAIN h = MmuFields /\ MemorySame(m, h) /\ PartsSame(m, h) /\ h.hdma = m.hdma
      /\ h.hdma_src = src /\ h.hdma_dst = dst /\ h.hdma_len = len /\ h.hdma_status = status
  BY <1>1, <1>2 DEF MmuFields, MemorySame, PartsSame
<1>8. TransferOK(h)
  BY <1>3, <1>4, <1>6, <1>7 DEF TransferOK
<1>9. MemoryOK(h) /\ PartsOK(h) /\ RowsOK(h) /\ HdmaOK(h)
  BY <1>7, SameOK
<1>10. MmuOK(h)
  BY <1>7, <1>8, <1>9 DEF MmuOK
<1> QED BY <1>10 DEF h

LEMMA HdmaWritten ==
  ASSUME NEW m, MmuOK(m), NEW a \in Word, InHdma(a), NEW v \in Byte
  PROVE  MmuOK(hdma_write(m, a, v))
<1> DEFINE h == hdma_write(m, a, v)
           row == v - Nibble(v)
<1>1. /\ DOMAIN m = MmuFields /\ MemoryOK(m) /\ HdmaOK(m) /\ TransferOK(m) /\ RowsOK(m) /\ PartsOK(m)
      /\ a \in Int /\ v \in Int /\ 0 <= v /\ v <= 255
  BY ByteIs, WordIs DEF MmuOK
<1>2. row \in Int /\ 0 <= row /\ row <= 240
  BY <1>1 DEF Nibble
<1>3. a \in {65361, 65362, 65363, 65364, 65365}
  BY DEF InHdma
<1> HIDE DEF h, row
<1>4. row \in Byte
  BY <1>2, ByteIs
<1>5. ASSUME a = 65361 PROVE MmuOK(h)
  <2>1. h = [m EXCEPT !.hdma[1] = v]
    BY <1>5 DEF h, hdma_write
  <2>4. /\ DOMAIN h = MmuFields /\ MemorySame(m, h) /\ PartsSame(m, h) /\ TransferSame(m, h)
        /\ h.hdma = [m.hdma EXCEPT ![1] = v]
    BY <1>1, <2>1 DEF MmuFields, MemorySame, PartsSame, TransferSame
  <2>5. HdmaOK(h)
    BY <1>1, <2>4 DEF HdmaOK
  <2>6. MemoryOK(h) /\ PartsOK(h) /\ RowsOK(h) /\ TransferOK(h)
    BY <2>4, SameOK
  <2> QED BY <2>4, <2>5, <2>6 DEF MmuOK
<1>6. ASSUME a = 65362 PROVE MmuOK(h)
  <2>1. h = [m EXCEPT !.hdma[2] = row]
    BY <1>6 DEF h, row, hdma_write
  <2>4. /\ DOMAIN h = MmuFields /\ MemorySame(m, h) /\ PartsSame(m, h) /\ TransferSame(m, h)
        /\ h.hdma = [m.hdma EXCEPT ![2] = row]
    BY <1>1, <2>1 DEF MmuFields, MemorySame, PartsSame, TransferSame
  <2>5. HdmaOK(h)
    BY <1>1, <1>4, <2>4 DEF HdmaOK
  <2>6. MemoryOK(h) /\ PartsOK(h) /\ RowsOK(h) /\ TransferOK(h)
    BY <2>4, SameOK
  <2> QED BY <2>4, <2>5, <2>6 DEF MmuOK
<1>7. ASSUME a = 65363 PROVE MmuOK(h)
  <2> DEFINE x == v % 32
  <2>1. x \in Int /\ 0 <= x /\ x <= 31
    BY <1>1
  <2>2. h = [m EXCEPT !.hdma[3] = x]
    BY <1>7 DEF h, hdma_write
  <2> HIDE DEF x
  <2>3. x \in Byte
    BY <2>1, ByteIs
  <2>4. /\ DOMAIN h = MmuFields /\ MemorySame(m, h) /\ PartsSame(m, h) /\ TransferSame(m, h)
        /\ h.hdma = [m.hdma EXCEPT ![3] = x]
    BY <1>1, <2>2 DEF MmuFields, MemorySame, PartsSame, TransferSame
  <2>5. HdmaOK(h)
    BY <1>1, <2>1, <2>3, <2>4 DEF HdmaOK
  <2>6. MemoryOK(h) /\ PartsOK(h) /\ RowsOK(h) /\ TransferOK(h)
    BY <2>4, SameOK
  <2> QED BY <2>4, <2>5, <2>6 DEF MmuOK
<1>8. ASSUME a = 65364 PROVE MmuOK(h)
  <2>1. h = [m EXCEPT !.hdma[4] = row]
    BY <1>8 DEF h, row, hdma_write
  <2>4. /\ DOMAIN h = MmuFields /\ MemorySame(m, h) /\ PartsSame(m, h) /\ TransferSame(m, h)
        /\ h.hdma = [m.hdma EXCEPT ![4] = row]
    BY <1>1, <2>1 DEF MmuFields, MemorySame, PartsSame, TransferSame
  <2>5. HdmaOK(h)
    BY <1>1, <1>2, <1>4, <2>4 DEF HdmaOK
  <2>6. MemoryOK(h) /\ PartsOK(h) /\ RowsOK(h) /\ TransferOK(h)
    BY <2>4, SameOK
  <2> QED BY <2>4, <2>5, <2>6 DEF MmuOK
<1>9. ASSUME a = 65365 PROVE MmuOK(h)
  <2> DEFINE w == [m EXCEPT !.hdma_status = "NoDMA"]
  <2>1. h \in {m, HdmaStart(m, v), w}
    BY <1>9 DEF h, hdma_write
  <2>2. MmuOK(w)
    <3>1. /\ DOMAIN w = MmuFields /\ MemorySame(m, w) /\ PartsSame(m, w) /\ w.hdma = m.hdma
          /\ w.hdma_status = "NoDMA" /\ w.hdma_src = m.hdma_src /\ w.hdma_dst = m.hdma_dst
          /\ w.hdma_len = m.hdma_len
      BY <1>1 DEF MmuFields, MemorySame, PartsSame
    <3> HIDE DEF w
    <3>2. TransferOK(w)
      BY <1>1, <3>1 DEF TransferOK
    <3>3. MemoryOK(w) /\ PartsOK(w) /\ RowsOK(w) /\ HdmaOK(w)
      BY <3>1, SameOK
    <3> QED BY <3>1, <3>2, <3>3 DEF MmuOK
  <2> QED BY <2>1, <2>2, HdmaStarted
<1>10. MmuOK(h)
  BY <1>3, <1>5, <1>6, <1>7, <1>8, <1>9
<1> QED BY <1>10 DEF h

\* Only the picture unit and the count of rows change.
GpuIs(m, h, g, n) ==
  /\ DOMAIN h = MmuFields /\ h.gpu = g /\ h.rows = n
  /\ MemorySame(m, h) /\ TransferSame(m, h) /\ h.hdma = m.hdma
  /\ h.serial = m.serial /\ h.timer = m.timer /\ h.mbc = m.mbc /\ h.gbmode = m.gbmode

LEMMA GpuReplaced ==
  ASSUME NEW m, MmuOK(m), NEW g, GpuKept(m.gpu, g), NEW n, n \in {m.rows, 0},
         LcdOn(g) => LcdOn(m.gpu) \/ n = 0, NEW h, GpuIs(m, h, g, n)
  PROVE  MmuOK(h)
<1>1. MemoryOK(h) /\ TransferOK(h) /\ HdmaOK(h)
  BY SameOK DEF GpuIs
<1>2. RowsOK(m) /\ PartsOK(m)
  BY DEF MmuOK
<1>3. PartsOK(h) /\ RowsOK(h)
  BY <1>2 DEF PartsOK, RowsOK, GpuKept, GpuIs
<1> QED BY <1>1, <1>3 DEF MmuOK, GpuIs

LEMMA GpuUpdated ==
  ASSUME NEW m, MmuOK(m), NEW a \in Word, NEW v \in Byte
  PROVE  MmuOK(GpuWritten(m, a, v))
<1> DEFINE h == GpuWritten(m, a, v)
           g == GpuWb(m.gpu, a, v)
           n == IF ~LcdOn(m.gpu) /\ LcdOn(g) THEN 0 ELSE m.rows
<1>1. DOMAIN m = MmuFields /\ GpuOK(m.gpu) /\ a \in Int
  BY WordIs DEF MmuOK, PartsOK
<1>2. GpuKept(m.gpu, g)
  BY <1>1, GpuWrites
<1>3. h = [m EXCEPT !.gpu = g, !.rows = n]
  BY DEF GpuWritten
<1>4. n \in {m.rows, 0} /\ (LcdOn(g) => LcdOn(m.gpu) \/ n = 0)
  OBVIOUS
<1> HIDE DEF h, g, n
<1>5. GpuIs(m, h, g, n)
  BY <1>1, <1>3 DEF GpuIs, MmuFields, MemorySame, TransferSame
<1>6. MmuOK(h)
  BY <1>2, <1>4, <1>5, GpuReplaced
<1> QED BY <1>6 DEF h

LEMMA CopyIs ==
  ASSUME NEW m, MmuOK(m), NEW k \in Int, NEW S, S \subseteq Int
  PROVE  Bytes([i \in S |-> rb(m, k + i)])
<1>1. ASSUME NEW i \in S PROVE rb(m, k + i) \in Byte
  <2>1. k + i \in Int
    OBVIOUS
  <2> QED BY <2>1, MmuRead
<1> QED BY <1>1 DEF Bytes

LEMMA VideoCopied ==
  ASSUME NEW g, GpuOK(g), NEW f, Bytes(f)
  PROVE  /\ GpuKept(g, [g EXCEPT !.voam = Overlaid(@, f)])
         /\ GpuKept(g, [g EXCEPT !.vram = Overlaid(@, f)])
<1> DEFINE x == Overlaid(g.voam, f)
           y == Overlaid(g.vram, f)
           h == [g EXCEPT !.voam = x]
           k == [g EXCEPT !.vram = y]
<1>1. DOMAIN g = GpuFields /\ Registered(g) /\ g.interrupt \subseteq {0, 1}
  BY DEF GpuOK
<1>2. Bytes(x) /\ Bytes(y)
  BY <1>1, OverlaidIs DEF Registered
<1>3. /\ [g EXCEPT !.voam = Overlaid(@, f)] = h
      /\ [g EXCEPT !.vram = Overlaid(@, f)] = k
  BY <1>1 DEF GpuFields
<1> HIDE DEF x, y
<1>4. RegisterSet(g, h) /\ RegisterSet(g, k)
  BY <1>1, <1>2 DEF GpuFields, Registered, RegisterSet, ScanKept
<1> HIDE DEF h, k
<1>5. GpuKept(g, h) /\ GpuKept(g, k)
  BY <1>4, RegisterSetOK
<1> QED BY <1>3, <1>5

LEMMA OamCopied ==
  ASSUME NEW m, MmuOK(m), NEW v \in Byte
  PROVE  MmuOK(oamdma(m, v))
<1> DEFINE h == oamdma(m, v)
           f == [i \in 0..159 |-> rb(m, v * 256 + i)]
           g == [m.gpu EXCEPT !.voam = Overlaid(@, f)]
           n == m.rows
<1>1. DOMAIN m = MmuFields /\ GpuOK(m.gpu) /\ v * 256 \in Int
  BY ByteIs DEF MmuOK, PartsOK
<1>2. Bytes(f)
  <2> DEFINE S == 0..159
             k == v * 256
  <2>1. S \subseteq Int
    OBVIOUS
  <2>2. k \in Int
    BY <1>1
  <2> HIDE DEF S, k
  <2>3. Bytes([i \in S |-> rb(m, k + i)])
    BY <2>1, <2>2, CopyIs
  <2> QED BY <2>3, Zenon DEF S, k
<1>3. h = [m EXCEPT !.gpu = g]
  BY <1>1, Zenon DEF oamdma
<1> HIDE DEF f
<1>4. GpuKept(m.gpu, g)
  BY <1>1, <1>2, VideoCopied
<1>5. LcdOn(g) <=> LcdOn(m.gpu)
  BY <1>1 DEF GpuOK, GpuFields, LcdOn
<1> HIDE DEF h, g
<1>6. GpuIs(m, h, g, n)
  BY <1>1, <1>3 DEF GpuIs, MmuFields, MemorySame, TransferSame
<1>7. MmuOK(h)
  BY <1>4, <1>5, <1>6, GpuReplaced
<1> QED BY <1>7 DEF h

\* A byte written anywhere.
LEMMA MmuWritten ==
  ASSUME NEW m, MmuOK(m), NEW a \in Word, NEW v \in Byte
  PROVE  MmuOK(wb(m, a, v))
<1> DEFINE h == wb(m, a, v)
<1>0. a \in Int
  BY WordIs
<1>1. CASE Absent(m, a)
  BY <1>1 DEF wb
<1>2. CASE ~Absent(m, a) /\ a = 65350
  <2>1. h = oamdma(m, v)
    BY <1>0, <1>2 DEF wb, InCartRam, InWram, InSerial, InTimer, InGpu, InHdma, InVram, InOam, InZram
  <2> QED BY <2>1, OamCopied
<1>3. CASE ~Absent(m, a) /\ a # 65350 /\ InGpu(a)
  <2>1. h = GpuWritten(m, a, v)
    BY <1>0, <1>3 DEF wb, InCartRam, InWram, InSerial, InTimer, InGpu, InHdma, InVram, InOam, InZram
  <2> QED BY <2>1, GpuUpdated
<1>4. CASE ~Absent(m, a) /\ a # 65350 /\ InHdma(a)
  <2>1. h = hdma_write(m, a, v)
    BY <1>0, <1>4 DEF wb, InCartRam, InWram, InSerial, InTimer, InGpu, InHdma, InVram, InOam, InZram
  <2> QED BY <1>4, <2>1, HdmaWritten
<1>5. CASE ~Absent(m, a) /\ a # 65350 /\ ~InGpu(a) /\ ~InHdma(a)
  BY <1>5, Mapped
<1> QED BY <1>1, <1>2, <1>3, <1>4, <1>5

\* The bytes of an instruction, one after the other.
WriteRun(f, m, s, n) ==
  f = [i \in 0..n |-> IF i = 0 THEN m ELSE wb(f[i - 1], s[i][1], s[i][2])]

LEMMA WriteRuns ==
  ASSUME NEW m, NEW s, Len(s) \in Nat
  PROVE  \E f : WriteRun(f, m, s, Len(s)) /\ AllWritten(m, s) = f[Len(s)]
<1> DEFINE N == Len(s)
           Ok(n) == \E f : WriteRun(f, m, s, n)
           P == {n \in 0..N : Ok(n)}
<1>1. 0 \in P
  <2> DEFINE f == [i \in 0..0 |-> m]
  <2>1. WriteRun(f, m, s, 0)
    BY DEF WriteRun
  <2>2. Ok(0)
    BY <2>1
  <2> QED BY <2>2
<1>2. ASSUME NEW n \in 1..N, n - 1 \in P PROVE n \in P
  <2>1. PICK f : WriteRun(f, m, s, n - 1)
    BY <1>2
  <2> DEFINE e == [i \in 0..n |-> IF i = n THEN wb(f[n - 1], s[n][1], s[n][2]) ELSE f[i]]
  <2>2. ASSUME NEW i \in 0..n PROVE e[i] = IF i = 0 THEN m ELSE wb(e[i - 1], s[i][1], s[i][2])
    <3>1. CASE i = n
      <4>1. e[i - 1] = f[n - 1] /\ e[i] = wb(f[n - 1], s[n][1], s[n][2]) /\ i # 0
        BY <3>1
      <4> QED BY <3>1, <4>1
    <3>2. CASE i # n
      <4>1. i \in 0..n - 1
        BY <3>2
      <4>2. f[i] = IF i = 0 THEN m ELSE wb(f[i - 1], s[i][1], s[i][2])
        BY <2>1, <4>1 DEF WriteRun
      <4>3. e[i] = f[i] /\ (i # 0 => e[i - 1] = f[i - 1])
        BY <4>1
      <4> QED BY <4>2, <4>3
    <3> QED BY <3>1, <3>2
  <2>3. WriteRun(e, m, s, n)
    <3>1. e = [i \in 0..n |-> e[i]]
      OBVIOUS
    <3> HIDE DEF e
    <3> QED BY <2>2, <3>1 DEF WriteRun
  <2> HIDE DEF e
  <2> QED BY <2>3
<1> HIDE DEF P
<1>3. N \in P
  <2>1. \A n \in 0..N : n \in P
    BY <1>1, <1>2, UpTo
  <2> QED BY <2>1
<1> USE DEF P
<1>4. PICK f : WriteRun(f, m, s, N)
  BY <1>3
<1> DEFINE after == CHOOSE a : WriteRun(a, m, s, N)
<1>5. WriteRun(after, m, s, N)
  BY <1>4
<1>6. AllWritten(m, s) = after[N]
  BY DEF AllWritten, WriteRun
<1> QED BY <1>5, <1>6

LEMMA WritesDone ==
  ASSUME NEW m, MmuOK(m), NEW s \in Seq(Word \X Byte)
  PROVE  MmuOK(AllWritten(m, s))
<1> DEFINE N == Len(s)
<1>1. N \in Nat /\ \A i \in 1..N : s[i][1] \in Word /\ s[i][2] \in Byte
  OBVIOUS
<1> HIDE DEF N
<1>2. PICK f : WriteRun(f, m, s, N) /\ AllWritten(m, s) = f[N]
  BY <1>1, WriteRuns DEF N
<1> DEFINE P == {n \in 0..N : MmuOK(f[n])}
<1>3. 0 \in P
  <2>1. f[0] = m
    BY <1>1, <1>2 DEF WriteRun
  <2> QED BY <1>1, <2>1
<1>4. ASSUME NEW n \in 1..N, n - 1 \in P PROVE n \in P
  <2>1. f[n] = wb(f[n - 1], s[n][1], s[n][2])
    BY <1>1, <1>2 DEF WriteRun
  <2>2. MmuOK(f[n])
    BY <1>1, <1>4, <2>1, MmuWritten
  <2> QED BY <2>2
<1> HIDE DEF P
<1>5. \A n \in 0..N : n \in P
  BY <1>1, <1>3, <1>4, UpTo
<1> USE DEF P
<1> QED BY <1>1, <1>2, <1>5

-----------------------------------------------------------------------------
(* Transfers into video memory.                                            *)

\* What a row changes: video memory, and where the next row comes from and goes.
RowMoved(m, h) ==
  /\ DOMAIN h = MmuFields /\ GpuKept(m.gpu, h.gpu) /\ (LcdOn(h.gpu) <=> LcdOn(m.gpu))
  /\ MemorySame(m, h) /\ h.hdma = m.hdma /\ h.rows = m.rows
  /\ h.serial = m.serial /\ h.timer = m.timer /\ h.mbc = m.mbc /\ h.gbmode = m.gbmode
  /\ h.hdma_status = m.hdma_status /\ h.hdma_src \in Word /\ h.hdma_dst \in Word
  /\ h.hdma_dst = Wrap16(m.hdma_dst + 16)
  /\ h.hdma_len = IF m.hdma_len = 0 THEN 127 ELSE m.hdma_len - 1

LEMMA RowIsMoved ==
  ASSUME NEW m, MmuOK(m)
  PROVE  RowMoved(m, perform_vramdma_row(m))
<1> DEFINE c == IF InVram(m.hdma_dst) THEN RowCopied(m) ELSE m
           h == perform_vramdma_row(m)
           first == VramIndex(m.gpu, m.hdma_dst)
           S == first..first + 15
           k == m.hdma_src - first
           f == [i \in S |-> rb(m, m.hdma_src + (i - first))]
           g == [m.gpu EXCEPT !.vram = Overlaid(@, f)]
           src == Wrap16(m.hdma_src + 16)
           dst == Wrap16(m.hdma_dst + 16)
           len == IF m.hdma_len = 0 THEN 127 ELSE m.hdma_len - 1
<1>1. /\ DOMAIN m = MmuFields /\ GpuOK(m.gpu) /\ m.hdma_src \in Int /\ m.hdma_dst \in Int
  BY WordIs DEF MmuOK, PartsOK, TransferOK
<1>2. first \in Int /\ S \subseteq Int /\ k \in Int
  <2>1. m.gpu.vrambank \in {0, 1}
    BY <1>1 DEF GpuOK, Registered
  <2>2. first \in Int
    BY <1>1, <2>1 DEF VramIndex
  <2> HIDE DEF first
  <2> QED BY <1>1, <2>2
<1>3. src \in Word /\ dst \in Word
  <2>1. m.hdma_src + 16 \in Int /\ m.hdma_dst + 16 \in Int
    BY <1>1
  <2> QED BY <2>1, Wrapped
<1>4. Bytes(f)
  <2> HIDE DEF first
  <2>1. \A i \in S : m.hdma_src + (i - first) = k + i
    BY <1>1, <1>2
  <2>2. f = [i \in S |-> rb(m, k + i)]
    BY <2>1
  <2> HIDE DEF S, k, f
  <2>3. Bytes([i \in S |-> rb(m, k + i)])
    BY <1>2, CopyIs
  <2> QED BY <2>2, <2>3
<1>5. RowCopied(m) = [m EXCEPT !.gpu = g]
  BY <1>1, Zenon DEF RowCopied
<1> HIDE DEF f, first, S, k
<1>6. GpuKept(m.gpu, g) /\ GpuKept(m.gpu, m.gpu)
  BY <1>1, <1>4, VideoCopied DEF GpuKept
<1>7. LcdOn(g) <=> LcdOn(m.gpu)
  BY <1>1 DEF GpuOK, GpuFields, LcdOn
<1> HIDE DEF g
<1> DEFINE w == [m EXCEPT !.gpu = g]
<1>8. c \in {m, w}
  BY <1>5
<1>9. /\ DOMAIN c = MmuFields /\ GpuKept(m.gpu, c.gpu) /\ (LcdOn(c.gpu) <=> LcdOn(m.gpu))
      /\ MemorySame(m, c) /\ c.hdma = m.hdma /\ c.rows = m.rows
      /\ c.serial = m.serial /\ c.timer = m.timer /\ c.mbc = m.mbc /\ c.gbmode = m.gbmode
      /\ TransferSame(m, c)
  <2> HIDE DEF c
  <2>1. MemorySame(m, m) /\ TransferSame(m, m)
    BY DEF MemorySame, TransferSame
  <2>2. ASSUME c = w
        PROVE  /\ DOMAIN c = MmuFields /\ c.gpu = g
               /\ MemorySame(m, c) /\ c.hdma = m.hdma /\ c.rows = m.rows
               /\ c.serial = m.serial /\ c.timer = m.timer /\ c.mbc = m.mbc /\ c.gbmode = m.gbmode
               /\ TransferSame(m, c)
    BY <1>1, <2>2 DEF MmuFields, MemorySame, TransferSame
  <2> HIDE DEF w
  <2> QED BY <1>1, <1>6, <1>7, <1>8, <2>1, <2>2
<1>10. h = [c EXCEPT !.hdma_src = src, !.hdma_dst = dst, !.hdma_len = len]
  <2>1. h = [c EXCEPT !.hdma_src = Wrap16(@ + 16), !.hdma_dst = Wrap16(@ + 16),
                      !.hdma_len = IF @ = 0 THEN 127 ELSE @ - 1]
    BY DEF perform_vramdma_row
  <2> HIDE DEF c, h
  <2> QED BY <1>9, <2>1 DEF TransferSame, MmuFields
<1> HIDE DEF c, h, src, dst, len
<1>11. /\ DOMAIN h = MmuFields /\ h.gpu = c.gpu
       /\ MemorySame(m, h) /\ h.hdma = m.hdma /\ h.rows = m.rows
       /\ h.serial = m.serial /\ h.timer = m.timer /\ h.mbc = m.mbc /\ h.gbmode = m.gbmode
       /\ h.hdma_status = m.hdma_status /\ h.hdma_src = src /\ h.hdma_dst = dst /\ h.hdma_len = len
  BY <1>9, <1>10 DEF MmuFields, MemorySame, TransferSame
<1>12. RowMoved(m, h)
  BY <1>3, <1>9, <1>11 DEF RowMoved, dst, len
<1> QED BY <1>12 DEF h

\* One row in an HBlank: it was the first, and the transfer still ends in video memory.
LEMMA HdmaRowOK ==
  ASSUME NEW m, MmuOK(m), m.hdma_status = "HDMA", may_hdma(m.gpu)
  PROVE  LET h == HdmaRow(m)
         IN  /\ DOMAIN h = MmuFields /\ MemoryOK(h) /\ HdmaOK(h) /\ TransferOK(h) /\ PartsOK(h)
             /\ h.rows \in {0, 1, 2, 3} /\ (LcdOn(h.gpu) => h.rows <= 1)
             /\ MemorySame(m, h) /\ h.serial = m.serial /\ h.timer = m.timer
<1> DEFINE c == perform_vramdma_row(m)
           h == HdmaRow(m)
           status == IF c.hdma_len = 127 THEN "NoDMA" ELSE c.hdma_status
           n == IF c.rows < 3 THEN c.rows + 1 ELSE c.rows
<1>1. RowMoved(m, c)
  BY RowIsMoved
<1>2. h = [c EXCEPT !.hdma_status = status, !.rows = n]
  <2>1. h = [c EXCEPT !.hdma_status = IF c.hdma_len = 127 THEN "NoDMA" ELSE @,
                      !.rows = IF @ < 3 THEN @ + 1 ELSE @]
    BY DEF HdmaRow
  <2> HIDE DEF h, c
  <2> QED BY <1>1, <2>1 DEF RowMoved, MmuFields
<1>3. /\ m.rows \in {0, 1, 2, 3} /\ (LcdOn(m.gpu) => m.rows = 0)
      /\ m.hdma_len \in Int /\ 0 <= m.hdma_len /\ m.hdma_len <= 127
      /\ m.hdma_dst \in Int /\ 0 <= m.hdma_dst /\ m.hdma_dst + m.hdma_len * 16 < 43008
  BY ByteIs, WordIs DEF MmuOK, RowsOK, TransferOK, may_hdma
<1> HIDE DEF h, c
<1>4. c.rows = m.rows /\ n = IF m.rows < 3 THEN m.rows + 1 ELSE m.rows
  BY <1>1 DEF RowMoved
<1> HIDE DEF n, status
<1>5. /\ DOMAIN h = MmuFields /\ h.gpu = c.gpu /\ h.rows = n /\ h.hdma_status = status
      /\ MemorySame(m, h) /\ h.hdma = m.hdma /\ h.hdma_src = c.hdma_src
      /\ h.hdma_dst = c.hdma_dst /\ h.hdma_len = c.hdma_len
      /\ h.serial = m.serial /\ h.timer = m.timer /\ h.mbc = m.mbc /\ h.gbmode = m.gbmode
  BY <1>1, <1>2 DEF RowMoved, MmuFields, MemorySame
<1>6. n \in {0, 1, 2, 3} /\ (LcdOn(m.gpu) => n <= 1)
  BY <1>3, <1>4
<1>7. MemoryOK(h) /\ HdmaOK(h)
  BY <1>5, SameOK
<1>8. PartsOK(h) /\ (LcdOn(h.gpu) => n <= 1)
  BY <1>1, <1>5, <1>6 DEF MmuOK, PartsOK, RowMoved, GpuKept
<1>9. TransferOK(h)
  <2> DEFINE len == IF m.hdma_len = 0 THEN 127 ELSE m.hdma_len - 1
             dst == Wrap16(m.hdma_dst + 16)
  <2>1. /\ h.hdma_len = len /\ h.hdma_dst = dst /\ h.hdma_dst \in Word /\ h.hdma_src \in Word
        /\ h.hdma_status = IF len = 127 THEN "NoDMA" ELSE "HDMA"
    BY <1>1, <1>5 DEF RowMoved, status
  <2>2. /\ len \in Int /\ 0 <= len /\ len <= 127
        /\ len # 127 => m.hdma_dst + 16 < 65536 /\ m.hdma_dst + 16 + len * 16 < 43008
    BY <1>3
  <2>3. len # 127 => dst = m.hdma_dst + 16
    BY <1>3, <2>2 DEF Wrap16
  <2>4. len # 127 => dst + len * 16 < 43008
    BY <2>2, <2>3
  <2> HIDE DEF len, dst
  <2>5. len \in Byte
    BY <2>2, ByteIs
  <2> QED BY <2>1, <2>2, <2>4, <2>5 DEF TransferOK
<1>10. /\ DOMAIN h = MmuFields /\ MemoryOK(h) /\ HdmaOK(h) /\ TransferOK(h) /\ PartsOK(h)
       /\ h.rows \in {0, 1, 2, 3} /\ (LcdOn(h.gpu) => h.rows <= 1)
       /\ MemorySame(m, h) /\ h.serial = m.serial /\ h.timer = m.timer
  BY <1>5, <1>6, <1>7, <1>8, <1>9
<1> QED BY <1>10 DEF h

\* A row of the transfer that goes on outside HBlanks.
LEMMA GdmaRowOK ==
  ASSUME NEW m, MmuOK(m), m.hdma_status = "GDMA"
  PROVE  LET h == perform_vramdma_row(m) IN MmuOK(h) /\ h.hdma_status = "GDMA"
<1> DEFINE h == perform_vramdma_row(m)
<1>1. RowMoved(m, h)
  BY RowIsMoved
<1> HIDE DEF h
<1>2. m.hdma_len \in Int /\ 0 <= m.hdma_len /\ m.hdma_len <= 127
  BY ByteIs DEF MmuOK, TransferOK
<1>3. h.hdma_len \in Int /\ 0 <= h.hdma_len /\ h.hdma_len <= 127 /\ h.hdma_status = "GDMA"
  BY <1>1, <1>2 DEF RowMoved
<1>4. h.hdma_len \in Byte
  BY <1>3, ByteIs
<1>5. TransferOK(h)
  BY <1>1, <1>3, <1>4 DEF TransferOK, RowMoved
<1>6. MemoryOK(h) /\ HdmaOK(h)
  BY <1>1, SameOK DEF RowMoved
<1>7. RowsOK(m) /\ PartsOK(m)
  BY DEF MmuOK
<1>8. PartsOK(h) /\ RowsOK(h)
  BY <1>1, <1>7 DEF PartsOK, RowsOK, RowMoved, GpuKept
<1>9. MmuOK(h) /\ h.hdma_status = "GDMA"
  BY <1>1, <1>3, <1>5, <1>6, <1>8 DEF MmuOK, RowMoved
<1> QED BY <1>9 DEF h

RowRun(f, m, n) ==
  f = [i \in 0..n |-> IF i = 0 THEN m ELSE perform_vramdma_row(f[i - 1])]

LEMMA RowRuns ==
  ASSUME NEW m, m.hdma_len \in Nat
  PROVE  LET N == m.hdma_len + 1
         IN  \E f : RowRun(f, m, N) /\ GdmaRows(m) = [f[N] EXCEPT !.hdma_status = "NoDMA"]
<1> DEFINE N == m.hdma_len + 1
           Ok(n) == \E f : RowRun(f, m, n)
           P == {n \in 0..N : Ok(n)}
<1>0. N \in Nat
  OBVIOUS
<1>1. 0 \in P
  <2> DEFINE f == [i \in 0..0 |-> m]
  <2>1. RowRun(f, m, 0)
    BY DEF RowRun
  <2>2. Ok(0)
    BY <2>1
  <2> QED BY <2>2
<1> HIDE DEF N
<1>2. ASSUME NEW n \in 1..N, n - 1 \in P PROVE n \in P
  <2>1. PICK f : RowRun(f, m, n - 1)
    BY <1>2
  <2> DEFINE e == [i \in 0..n |-> IF i = n THEN perform_vramdma_row(f[n - 1]) ELSE f[i]]
  <2>2. ASSUME NEW i \in 0..n PROVE e[i] = IF i = 0 THEN m ELSE perform_vramdma_row(e[i - 1])
    <3>1. CASE i = n
      <4>1. e[i - 1] = f[n - 1] /\ e[i] = perform_vramdma_row(f[n - 1]) /\ i # 0
        BY <1>0, <3>1
      <4> QED BY <3>1, <4>1
    <3>2. CASE i # n
      <4>1. i \in 0..n - 1
        BY <1>0, <3>2
      <4>2. f[i] = IF i = 0 THEN m ELSE perform_vramdma_row(f[i - 1])
        BY <2>1, <4>1 DEF RowRun
      <4>3. e[i] = f[i] /\ (i # 0 => e[i - 1] = f[i - 1])
        BY <1>0, <4>1
      <4> QED BY <4>2, <4>3
    <3> QED BY <3>1, <3>2
  <2>3. RowRun(e, m, n)
    <3>1. e = [i \in 0..n |-> e[i]]
      OBVIOUS
    <3> HIDE DEF e
    <3> QED BY <2>2, <3>1 DEF RowRun
  <2> HIDE DEF e
  <2> QED BY <2>3
<1> HIDE DEF P
<1>3. N \in P
  <2>1. \A n \in 0..N : n \in P
    BY <1>0, <1>1, <1>2, UpTo
  <2> QED BY <1>0, <2>1
<1> USE DEF P
<1>4. PICK f : RowRun(f, m, N)
  BY <1>3
<1> DEFINE rows == CHOOSE a : RowRun(a, m, N)
<1>5. RowRun(rows, m, N)
  BY <1>4
<1>6. GdmaRows(m) = [rows[N] EXCEPT !.hdma_status = "NoDMA"]
  BY DEF GdmaRows, RowRun, N
<1>7. \E g : RowRun(g, m, N) /\ GdmaRows(m) = [g[N] EXCEPT !.hdma_status = "NoDMA"]
  BY <1>5, <1>6
<1> QED BY <1>7 DEF N

LEMMA GdmaRowsOK ==
  ASSUME NEW m, MmuOK(m), m.hdma_status = "GDMA"
  PROVE  MmuOK(GdmaRows(m))
<1> DEFINE N == m.hdma_len + 1
           h == GdmaRows(m)
<1>1. m.hdma_len \in Nat /\ N \in Nat
  BY ByteIs DEF MmuOK, TransferOK
<1>2. PICK f : RowRun(f, m, N) /\ h = [f[N] EXCEPT !.hdma_status = "NoDMA"]
  BY <1>1, RowRuns
<1> HIDE DEF N, h
<1> DEFINE P == {n \in 0..N : MmuOK(f[n]) /\ f[n].hdma_status = "GDMA"}
<1>3. 0 \in P
  <2>1. f[0] = m
    BY <1>1, <1>2 DEF RowRun
  <2> QED BY <1>1, <2>1
<1>4. ASSUME NEW n \in 1..N, n - 1 \in P PROVE n \in P
  <2>0. n \in 0..N /\ n # 0 /\ f = [i \in 0..N |-> IF i = 0 THEN m ELSE perform_vramdma_row(f[i - 1])]
    BY <1>1, <1>2 DEF RowRun
  <2>1. f[n] = perform_vramdma_row(f[n - 1])
    BY <2>0
  <2>2. MmuOK(f[n]) /\ f[n].hdma_status = "GDMA"
    BY <1>4, <2>1, GdmaRowOK
  <2> QED BY <2>2
<1> HIDE DEF P
<1>5. \A n \in 0..N : n \in P
  BY <1>1, <1>3, <1>4, UpTo
<1> USE DEF P
<1> DEFINE w == f[N]
<1>6. MmuOK(w) /\ h = [w EXCEPT !.hdma_status = "NoDMA"]
  BY <1>1, <1>2, <1>5
<1> HIDE DEF w, P
<1>7. /\ DOMAIN h = MmuFields /\ MemorySame(w, h) /\ PartsSame(w, h) /\ h.hdma = w.hdma
      /\ h.hdma_status = "NoDMA" /\ h.hdma_src = w.hdma_src /\ h.hdma_dst = w.hdma_dst
      /\ h.hdma_len = w.hdma_len
  BY <1>6 DEF MmuOK, MmuFields, MemorySame, PartsSame
<1>8. TransferOK(h)
  BY <1>6, <1>7 DEF MmuOK, TransferOK
<1>9. MemoryOK(h) /\ PartsOK(h) /\ RowsOK(h) /\ HdmaOK(h)
  BY <1>6, <1>7, SameOK
<1>10. MmuOK(h)
  BY <1>7, <1>8, <1>9 DEF MmuOK
<1> QED BY <1>10 DEF h

\* The transfer of a cycle; an HBlank's row may now be copied.
LEMMA Transferred ==
  ASSUME NEW m, MmuOK(m)
  PROVE  LET h == perform_vramdma(m)
         IN  /\ DOMAIN h = MmuFields /\ MemoryOK(h) /\ HdmaOK(h) /\ TransferOK(h) /\ PartsOK(h)
             /\ h.rows \in {0, 1, 2, 3} /\ (LcdOn(h.gpu) => h.rows <= 1)
<1>1. CASE m.hdma_status = "GDMA"
  <2> DEFINE h == GdmaRows(m)
  <2>1. MmuOK(h)
    BY <1>1, GdmaRowsOK
  <2>2. perform_vramdma(m) = h
    BY <1>1 DEF perform_vramdma
  <2> HIDE DEF h
  <2> QED BY <2>1, <2>2 DEF MmuOK, RowsOK
<1>2. CASE m.hdma_status = "HDMA" /\ may_hdma(m.gpu)
  <2> DEFINE h == HdmaRow(m)
  <2>1. /\ DOMAIN h = MmuFields /\ MemoryOK(h) /\ HdmaOK(h) /\ TransferOK(h) /\ PartsOK(h)
        /\ h.rows \in {0, 1, 2, 3} /\ (LcdOn(h.gpu) => h.rows <= 1)
    BY <1>2, HdmaRowOK
  <2>2. perform_vramdma(m) = h
    BY <1>2 DEF perform_vramdma
  <2> HIDE DEF h
  <2> QED BY <2>1, <2>2
<1>3. CASE m.hdma_status # "GDMA" /\ ~(m.hdma_status = "HDMA" /\ may_hdma(m.gpu))
  <2>1. perform_vramdma(m) = m
    BY <1>3 DEF perform_vramdma
  <2> QED BY <2>1 DEF MmuOK, RowsOK
<1> QED BY <1>1, <1>2, <1>3

LEMMA TicksAre ==
  ASSUME NEW m, MmuOK(m), NEW ticks \in Nat, ticks <= 24
  PROVE  GpuTicks(m, ticks) \in Nat /\ GpuTicks(m, ticks) <= 1048 /\ CpuTicks(m, ticks) \in Nat
<1> DEFINE n == VramTicks(m)
<1>1. m.hdma_status # "NoDMA" => m.hdma_len \in Int /\ 0 <= m.hdma_len /\ m.hdma_len <= 127
  BY ByteIs DEF MmuOK, TransferOK
<1>2. n \in Nat /\ n <= 1024
  BY <1>1 DEF VramTicks
<1>3. m.gbspeed \in {1, 2}
  BY DEF MmuOK, MemoryOK
<1> HIDE DEF n
<1>4. ticks \div m.gbspeed \in Nat /\ ticks \div m.gbspeed <= 24 /\ n * m.gbspeed \in Nat
  <2>1. CASE m.gbspeed = 1
    BY <1>2, <2>1
  <2>2. CASE m.gbspeed = 2
    BY <1>2, <2>2
  <2> QED BY <1>3, <2>1, <2>2
<1> QED BY <1>2, <1>4 DEF GpuTicks, CpuTicks, n

\* A cycle of everything outside the CPU.
LEMMA Cycled ==
  ASSUME NEW m, MmuOK(m), NEW ticks \in Nat, ticks <= 24
  PROVE  MmuOK(do_cycle(m, ticks))
<1> DEFINE w == perform_vramdma(m)
           timer == TimerCycle(w.timer, CpuTicks(m, ticks))
           gpu == GpuCycle(w.gpu, GpuTicks(m, ticks))
           serial == SerialCycle(w.serial, GpuTicks(m, ticks))
           T == [timer EXCEPT !.interrupt = {}]
           g == [gpu EXCEPT !.interrupt = {}]
           S == [serial EXCEPT !.interrupt = {}]
           I == w.intf \cup timer.interrupt \cup w.keypad \cup gpu.interrupt \cup serial.interrupt
           n == IF gpu.line # w.gpu.line \/ (gpu.mode = 0 /\ w.gpu.mode # 0) THEN 0 ELSE w.rows
           h == do_cycle(m, ticks)
<1>1. /\ DOMAIN w = MmuFields /\ MemoryOK(w) /\ HdmaOK(w) /\ TransferOK(w) /\ PartsOK(w)
      /\ w.rows \in {0, 1, 2, 3} /\ (LcdOn(w.gpu) => w.rows <= 1)
  BY Transferred
<1>2. GpuTicks(m, ticks) \in Nat /\ GpuTicks(m, ticks) <= 1048 /\ CpuTicks(m, ticks) \in Nat
  BY TicksAre
<1>3. h = [w EXCEPT !.timer = T, !.gpu = g, !.serial = S, !.keypad = {}, !.intf = I, !.rows = n]
  <2>1. h = [w EXCEPT !.timer = T, !.gpu = g, !.serial = S, !.keypad = {},
                      !.intf = @ \cup timer.interrupt \cup w.keypad
                                 \cup gpu.interrupt \cup serial.interrupt,
                      !.rows = IF gpu.line # w.gpu.line \/ (gpu.mode = 0 /\ w.gpu.mode # 0)
                               THEN 0 ELSE @]
    BY Zenon DEF do_cycle
  <2> HIDE DEF h, w, timer, gpu, serial, T, g, S
  <2> QED BY <1>1, <2>1 DEF MmuFields
<1> HIDE DEF w
<1>4. /\ TimerOK(T) /\ timer.interrupt \in SUBSET {2}
  BY <1>1, <1>2, TimerCycled DEF PartsOK
<1>5. /\ S \in Serial /\ serial.interrupt \in SUBSET {3}
  BY <1>1, <1>2, SerialCycled DEF PartsOK
<1>6. /\ GpuOK(gpu) /\ SameRegisters(w.gpu, gpu)
      /\ ~LcdOn(w.gpu) => gpu = w.gpu
      /\ LcdOn(w.gpu) /\ gpu.hblanking => gpu.line # w.gpu.line \/ (gpu.mode = 0 /\ w.gpu.mode # 0)
  BY <1>1, <1>2, GpuCycled DEF PartsOK
<1> HIDE DEF h, timer, gpu, serial, T, S
<1>7. /\ GpuOK(g) /\ g.gbmode = w.gpu.gbmode /\ (LcdOn(g) <=> LcdOn(w.gpu))
      /\ g.hblanking = gpu.hblanking
  <2>1. GpuOK(g)
    BY <1>6, FlagsReset
  <2>2. g.gbmode = gpu.gbmode /\ g.lcdc = gpu.lcdc /\ g.hblanking = gpu.hblanking
    BY <1>6 DEF GpuOK, GpuFields
  <2> QED BY <1>6, <2>1, <2>2 DEF SameRegisters, LcdOn
<1>8. I \subseteq 0..7
  BY <1>1, <1>4, <1>5, <1>6 DEF MemoryOK, GpuOK
<1>9. n \in {0, 1, 2, 3} /\ (LcdOn(g) => n <= 1 /\ (g.hblanking => n = 0))
  BY <1>1, <1>6, <1>7
<1> HIDE DEF g, I, n
<1>10. /\ DOMAIN h = MmuFields /\ h.timer = T /\ h.gpu = g /\ h.serial = S /\ h.keypad = {}
       /\ h.intf = I /\ h.rows = n
       /\ h.wram = w.wram /\ h.zram = w.zram /\ h.wrambank = w.wrambank
       /\ h.undocumented = w.undocumented /\ h.inte = w.inte /\ h.gbspeed = w.gbspeed
       /\ TransferSame(w, h) /\ h.hdma = w.hdma /\ h.mbc = w.mbc /\ h.gbmode = w.gbmode
  BY <1>1, <1>3 DEF MmuFields, TransferSame
<1>11. MemoryOK(h)
  BY <1>1, <1>8, <1>10 DEF MemoryOK
<1>12. HdmaOK(h)
  BY <1>1, <1>10 DEF HdmaOK
<1>13. TransferOK(h)
  BY <1>1, <1>10 DEF TransferOK, TransferSame
<1>14. PartsOK(h)
  BY <1>1, <1>4, <1>5, <1>7, <1>10 DEF PartsOK
<1>15. RowsOK(h)
  BY <1>9, <1>10 DEF RowsOK
<1>16. MmuOK(h)
  BY <1>10, <1>11, <1>12, <1>13, <1>14, <1>15 DEF MmuOK
<1> QED BY <1>16 DEF h

LEMMA SpeedSwitched ==
  ASSUME NEW m, MmuOK(m)
  PROVE  MmuOK(switch_speed(m))
<1> DEFINE h == switch_speed(m)
           speed == IF m.speed_switch_req THEN 3 - m.gbspeed ELSE m.gbspeed
<1>1. DOMAIN m = MmuFields /\ MemoryOK(m) /\ m.gbspeed \in {1, 2}
  BY DEF MmuOK, MemoryOK
<1>2. h = [m EXCEPT !.gbspeed = speed, !.speed_switch_req = FALSE]
  BY <1>1 DEF switch_speed, MmuFields
<1>3. speed \in {1, 2}
  BY <1>1
<1> HIDE DEF h, speed
<1>4. /\ DOMAIN h = MmuFields /\ PartsSame(m, h) /\ TransferSame(m, h) /\ h.hdma = m.hdma
      /\ h.wram = m.wram /\ h.zram = m.zram /\ h.wrambank = m.wrambank
      /\ h.undocumented = m.undocumented /\ h.inte = m.inte /\ h.intf = m.intf
      /\ h.keypad = m.keypad /\ h.gbspeed = speed
  BY <1>1, <1>2 DEF MmuFields, PartsSame, TransferSame
<1>5. MemoryOK(h)
  BY <1>1, <1>3, <1>4 DEF MemoryOK
<1>6. PartsOK(h) /\ RowsOK(h) /\ TransferOK(h) /\ HdmaOK(h)
  BY <1>4, SameOK
<1>7. MmuOK(h)
  BY <1>4, <1>5, <1>6 DEF MmuOK
<1> QED BY <1>7 DEF h

LEMMA NewMmuOK ==
  ASSUME NEW mode, NEW c, MbcOK(c)
  PROVE  MmuOK(NewMmu(mode, c))
<1> DEFINE m == NewMmu(mode, c)
<1>1. /\ DOMAIN m = MmuFields /\ m.wram = NoMemory /\ m.zram = NoMemory /\ m.wrambank = 1
      /\ m.hdma = <<0, 0, 0, 0>> /\ m.inte = {} /\ m.intf = {} /\ m.serial = NewSerial
      /\ m.timer = NewTimer /\ m.keypad = {} /\ m.gpu = NewGpu(mode) /\ m.mbc = c
      /\ m.gbmode = mode /\ m.gbspeed = 1 /\ m.hdma_src = 0 /\ m.hdma_dst = 0
      /\ m.hdma_status = "NoDMA" /\ m.hdma_len = 255 /\ m.undocumented = <<0, 0, 0>> /\ m.rows = 0
  BY DEF NewMmu, MmuFields
<1> HIDE DEF m
<1>2. 0 \in Byte /\ 1 \in Byte /\ 255 \in Byte /\ 0 \in Word
  BY ByteIs, WordIs
<1>3. MemoryOK(m)
  BY <1>1, <1>2, NoMemoryIs DEF MemoryOK
<1>4. HdmaOK(m) /\ TransferOK(m)
  BY <1>1, <1>2 DEF HdmaOK, TransferOK
<1>5. PartsOK(m)
  BY <1>1, SerialOK, NewTimerOK, NewGpuOK DEF PartsOK
<1>6. RowsOK(m)
  BY <1>1 DEF RowsOK
<1>7. MmuOK(m)
  BY <1>1, <1>3, <1>4, <1>5, <1>6 DEF MmuOK
<1> QED BY <1>7 DEF m

\* The read that the overlay uses.
LEMMA PeekIs ==
  ASSUME NEW m, MmuOK(m), NEW a \in Int, a # 65350
  PROVE  peek(m, a) = rb(m, a)
<1>1. m.gpu.gbmode = m.gbmode
  BY DEF MmuOK, PartsOK
<1>2. CASE a < 65344
  BY <1>2 DEF peek, rb, Absent, NeedsColor, NotClassic, InVram, InOam, InCartRam, InWram, InSerial,
              InTimer, InGpu, InHdma, InZram
<1>3. CASE 65344 <= a /\ a < 65357
  BY <1>3 DEF peek, rb, Absent, NeedsColor, NotClassic, InVram, InOam, InCartRam, InWram, InSerial,
              InTimer, InGpu, InHdma, InZram, GpuRb
<1>4. CASE 65357 <= a /\ a < 65408
  <2>1. peek(m, a) = PeekColor(m, a)
    BY <1>4 DEF peek, InVram, InOam, InCartRam, InWram, InSerial, InTimer, InZram
  <2>2. CASE Absent(m, a)
    BY <1>4, <2>1, <2>2 DEF PeekColor, rb, Absent, NeedsColor, NotClassic, InHdma
  <2>3. CASE ~Absent(m, a)
    BY <1>1, <1>4, <2>1, <2>3 DEF PeekColor, rb, Absent, NeedsColor, NotClassic, InVram, InOam,
              InCartRam, InWram, InSerial, InTimer, InGpu, InHdma, InZram, GpuRb
  <2> QED BY <2>2, <2>3
<1>5. CASE 65408 <= a
  BY <1>5 DEF peek, rb, Absent, NeedsColor, NotClassic, InVram, InOam, InCartRam, InWram, InSerial,
              InTimer, InGpu, InHdma, InZram
<1> QED BY <1>2, <1>3, <1>4, <1>5

-----------------------------------------------------------------------------
(* The registers and the arithmetic of the CPU.                            *)
RegFields == {"a", "f", "b", "c", "d", "e", "h", "l", "sp", "pc"}

LEMMA RegistersAre ==
  ASSUME NEW r
  PROVE  r \in Registers => 
           /\ DOMAIN r = RegFields /\ r.a \in Byte /\ r.f \subseteq Flag /\ r.b \in Byte
           /\ r.c \in Byte /\ r.d \in Byte /\ r.e \in Byte /\ r.h \in Byte /\ r.l \in Byte
           /\ r.sp \in Word /\ r.pc \in Word
BY DEF Registers, RegFields

\* One register is given a value.
LEMMA RegisterGiven ==
  ASSUME NEW r \in Registers
  PROVE  /\ \A v \in Byte : /\ [r EXCEPT !.a = v] \in Registers /\ [r EXCEPT !.b = v] \in Registers
                            /\ [r EXCEPT !.c = v] \in Registers /\ [r EXCEPT !.d = v] \in Registers
                            /\ [r EXCEPT !.e = v] \in Registers /\ [r EXCEPT !.h = v] \in Registers
                            /\ [r EXCEPT !.l = v] \in Registers
         /\ \A w \in Word : [r EXCEPT !.sp = w] \in Registers /\ [r EXCEPT !.pc = w] \in Registers
         /\ \A f \in SUBSET Flag : [r EXCEPT !.f = f] \in Registers
BY DEF Registers

LEMMA AccumulatorGiven ==
  ASSUME NEW r \in Registers, NEW v \in Byte, NEW f, f \subseteq Flag
  PROVE  [r EXCEPT !.a = v, !.f = f] \in Registers
BY DEF Registers

LEMMA PairsAre ==
  ASSUME NEW r \in Registers
  PROVE  /\ BC(r) \in Word /\ DE(r) \in Word /\ HL(r) \in Word /\ AF(r) \in Word /\ F(r) \in Byte
         /\ \A w \in Word : /\ SetBC(r, w) \in Registers /\ SetDE(r, w) \in Registers
                            /\ SetHL(r, w) \in Registers /\ SetAF(r, w) \in Registers
<1>1. /\ r.a \in Byte /\ r.b \in Byte /\ r.c \in Byte /\ r.d \in Byte /\ r.e \in Byte
      /\ r.h \in Byte /\ r.l \in Byte
  BY RegistersAre
<1>2. F(r) \in Byte
  BY ByteOfIs DEF F
<1>3. BC(r) \in Word /\ DE(r) \in Word /\ HL(r) \in Word /\ AF(r) \in Word
  BY <1>1, <1>2, Bytes2 DEF BC, DE, HL, AF
<1>4. ASSUME NEW w \in Word
      PROVE  /\ SetBC(r, w) \in Registers /\ SetDE(r, w) \in Registers
             /\ SetHL(r, w) \in Registers /\ SetAF(r, w) \in Registers
  <2> DEFINE hi == Hi(w)
             lo == Lo(w)
             f == {x \in Flag : Bit(w, FlagBit[x]) = 1}
  <2>1. hi \in Byte /\ lo \in Byte /\ f \subseteq Flag
    BY Halves
  <2>2. /\ SetBC(r, w) = [r EXCEPT !.b = hi, !.c = lo] /\ SetDE(r, w) = [r EXCEPT !.d = hi, !.e = lo]
        /\ SetHL(r, w) = [r EXCEPT !.h = hi, !.l = lo] /\ SetAF(r, w) = [r EXCEPT !.a = hi, !.f = f]
    BY DEF SetBC, SetDE, SetHL, SetAF
  <2> HIDE DEF hi, lo, f
  <2>3. /\ [r EXCEPT !.b = hi, !.c = lo] \in Registers /\ [r EXCEPT !.d = hi, !.e = lo] \in Registers
        /\ [r EXCEPT !.h = hi, !.l = lo] \in Registers /\ [r EXCEPT !.a = hi, !.f = f] \in Registers
    BY <2>1 DEF Registers
  <2> QED BY <2>2, <2>3
<1> QED BY <1>2, <1>3, <1>4

LEMMA FlagsAre == \A z, n, h, c : Flags(z, n, h, c) \subseteq Flag
BY DEF Flags, When, Flag

LEMMA CarryIs == \A r : CarryIn(r) \in {0, 1}
BY DEF CarryIn

\* Numbers cut to a byte.
LEMMA CutIs ==
  ASSUME NEW n \in Int
  PROVE  n % 256 \in Byte
<1>1. n % 256 \in Int /\ 0 <= n % 256 /\ n % 256 <= 255
  OBVIOUS
<1> DEFINE x == n % 256
<1> HIDE DEF x
<1>2. x \in Byte
  BY <1>1, ByteIs DEF x
<1> QED BY <1>2 DEF x

LEMMA Added ==
  ASSUME NEW r \in Registers, NEW v \in Byte, NEW c \in BOOLEAN
  PROVE  alu_add(r, v, c) \in Registers /\ alu_sub(r, v, c) \in Registers
<1> DEFINE k == IF c THEN CarryIn(r) ELSE 0
           x == r.a + v + k
           y == r.a - v - k
           f == Flags(x % 256 = 0, FALSE, Nibble(r.a) + Nibble(v) + k > 15, x > 255)
           g == Flags(y % 256 = 0, TRUE, Nibble(r.a) - Nibble(v) - k < 0, y < 0)
<1>1. x \in Int /\ y \in Int
  BY RegistersAre, CarryIs, ByteIs
<1>2. f \subseteq Flag /\ g \subseteq Flag
  <2> DEFINE half == Nibble(r.a) + Nibble(v) + k
             rest == Nibble(r.a) - Nibble(v) - k
  <2> HIDE DEF x, y, half, rest
  <2>1. Flags(x % 256 = 0, FALSE, half > 15, x > 255) \subseteq Flag
    BY DEF Flags, When, Flag
  <2>2. Flags(y % 256 = 0, TRUE, rest < 0, y < 0) \subseteq Flag
    BY DEF Flags, When, Flag
  <2> QED BY <2>1, <2>2 DEF half, rest
<1> DEFINE cx == x % 256
           cy == y % 256
<1>3. cx \in Byte /\ cy \in Byte
  <2> HIDE DEF x, y
  <2> QED BY <1>1, CutIs
<1>4. /\ alu_add(r, v, c) = [r EXCEPT !.a = cx, !.f = f]
      /\ alu_sub(r, v, c) = [r EXCEPT !.a = cy, !.f = g]
  BY DEF alu_add, alu_sub
<1> HIDE DEF f, g, cx, cy
<1>5. [r EXCEPT !.a = cx, !.f = f] \in Registers /\ [r EXCEPT !.a = cy, !.f = g] \in Registers
  BY <1>2, <1>3, AccumulatorGiven
<1> QED BY <1>4, <1>5

LEMMA LogicIs ==
  ASSUME NEW r \in Registers, NEW v \in Byte
  PROVE  /\ alu_and(r, v) \in Registers /\ alu_or(r, v) \in Registers
         /\ alu_xor(r, v) \in Registers /\ alu_cp(r, v) \in Registers
<1>1. ASSUME NEW x \in Byte, NEW h PROVE Logic(r, x, h) \in Registers
  BY AccumulatorGiven, FlagsAre DEF Logic
<1>2. alu_sub(r, v, FALSE).f \subseteq Flag
  BY Added, RegistersAre
<1>3. alu_cp(r, v) \in Registers
  BY <1>2, RegisterGiven DEF alu_cp
<1> QED BY <1>1, <1>3, Logical DEF alu_and, alu_or, alu_xor

LEMMA AluIs ==
  ASSUME NEW r \in Registers, NEW op \in 0..7, NEW v \in Byte
  PROVE  Alu(r, op, v) \in Registers
<1>1. op \in {0, 1, 2, 3, 4, 5, 6, 7}
  OBVIOUS
<1>2. /\ alu_add(r, v, FALSE) \in Registers /\ alu_add(r, v, TRUE) \in Registers
      /\ alu_sub(r, v, FALSE) \in Registers /\ alu_sub(r, v, TRUE) \in Registers
  BY Added
<1> QED BY <1>1, <1>2, LogicIs DEF Alu

LEMMA Wide ==
  ASSUME NEW r \in Registers, NEW w \in Word
  PROVE  alu_add16(r, w) \in Registers
<1> DEFINE f == (r.f \cap {"Z"}) \cup Flags(FALSE, FALSE, Low12(HL(r)) + Low12(w) > 4095, HL(r) + w > 65535)
           t == [r EXCEPT !.f = f]
           x == Wrap16(HL(r) + w)
<1>1. f \subseteq Flag
  BY RegistersAre DEF Flag, Flags, When
<1>2. alu_add16(r, w) = SetHL(t, x)
  BY DEF alu_add16
<1>3. x \in Word
  <2>1. HL(r) + w \in Int
    BY PairsAre, WordIs
  <2> QED BY <2>1, Wrapped
<1> HIDE DEF f, x
<1>4. t \in Registers
  BY <1>1, RegisterGiven
<1> HIDE DEF t
<1> QED BY <1>2, <1>3, <1>4, PairsAre

LEMMA Adjusted ==
  ASSUME NEW r \in Registers
  PROVE  alu_daa(r) \in Registers
<1> DEFINE low == IF "H" \in r.f \/ Nibble(r.a) > 9 THEN r.a + 6 ELSE r.a
           n == IF "N" \in r.f
                THEN (IF "H" \in r.f THEN (r.a - 6) % 256 ELSE r.a) - (IF "C" \in r.f THEN 96 ELSE 0)
                ELSE IF "C" \in r.f \/ low > 159 THEN low + 96 ELSE low
           f == (r.f \cap {"N"}) \cup Flags(n % 256 = 0, FALSE, FALSE, "C" \in r.f \/ n >= 256)
<1>1. r.a \in Int
  BY RegistersAre, ByteIs
<1>2. n \in Int
  BY <1>1
<1>3. f \subseteq Flag
  <2> HIDE DEF n
  <2> QED BY DEF Flags, When, Flag
<1> DEFINE x == n % 256
<1>4. alu_daa(r) = [r EXCEPT !.a = x, !.f = f]
  BY DEF alu_daa
<1>5. x \in Byte
  <2> HIDE DEF n
  <2> QED BY <1>2, CutIs
<1> HIDE DEF f, x
<1>6. [r EXCEPT !.a = x, !.f = f] \in Registers
  BY <1>3, <1>5, AccumulatorGiven
<1> QED BY <1>4, <1>6

LEMMA ShiftIs ==
  ASSUME NEW op \in {"rlc", "rrc", "rl", "rr", "sla", "sra", "swap", "srl"}, NEW v \in Byte,
         NEW c \in {0, 1}
  PROVE  Shifted(op, v, c) \in Byte /\ ShiftFlags(op, v, c) \subseteq Flag
<1>1. v \in Int /\ 0 <= v /\ v <= 255
  BY ByteIs
<1>2. ASSUME NEW x \in Int, 0 <= x, x <= 255 PROVE x \in Byte
  BY <1>2, ByteIs
<1> DEFINE s == Shifted(op, v, c)
<1>3. s \in Int /\ 0 <= s /\ s <= 255
  BY <1>1 DEF Shifted, Double, Nibble
<1> HIDE DEF s
<1>4. s \in Byte
  BY <1>2, <1>3
<1>5. ShiftFlags(op, v, c) \subseteq Flag
  BY DEF ShiftFlags, Flags, When, Flag
<1> QED BY <1>4, <1>5 DEF s

LEMMA CountFlags ==
  ASSUME NEW r \in Registers, NEW v \in Byte
  PROVE  IncFlags(r, v) \subseteq Flag /\ DecFlags(r, v) \subseteq Flag
<1>1. IncFlags(r, v) \subseteq Flag
  BY DEF IncFlags, Flags, When, Flag
<1>2. DecFlags(r, v) \subseteq Flag
  BY DEF DecFlags, Flags, When, Flag
<1> QED BY <1>1, <1>2

LEMMA TestFlags ==
  ASSUME NEW r \in Registers, NEW v, NEW i
  PROVE  BitFlags(r, v, i) \subseteq Flag
BY DEF BitFlags, Flags, When, Flag

LEMMA StackSum ==
  ASSUME NEW r \in Registers, NEW v \in Byte
  PROVE  SpFlags(r, v) \subseteq Flag /\ SpPlus(r, v) \in Word
<1>1. r.sp + Signed(v) \in Int
  BY RegistersAre, WordIs, Bytes2
<1> QED BY <1>1, Wrapped, FlagsAre DEF SpFlags, SpPlus

LEMMA OnAIs ==
  ASSUME NEW r \in Registers, NEW op \in 0..7
  PROVE  OnA(r, op) \in Registers
<1>0. op \in {0, 1, 2, 3, 4, 5, 6, 7} /\ r.a \in Byte /\ r.f \subseteq Flag
  BY RegistersAre
<1>1. CASE op < 4
  <2> DEFINE k == ShiftOp[op + 1]
             x == Shifted(k, r.a, CarryIn(r))
             f == ShiftFlags(k, r.a, CarryIn(r)) \ {"Z"}
  <2>1. k \in {"rlc", "rrc", "rl", "rr"}
    BY <1>0, <1>1 DEF ShiftOp
  <2>2. OnA(r, op) = [r EXCEPT !.a = x, !.f = f]
    BY <1>0, <1>1 DEF OnA
  <2> HIDE DEF k
  <2>3. x \in Byte /\ f \subseteq Flag
    BY <1>0, <2>1, ShiftIs, CarryIs
  <2> HIDE DEF x, f
  <2>4. [r EXCEPT !.a = x, !.f = f] \in Registers
    BY <2>3, AccumulatorGiven
  <2> QED BY <2>2, <2>4
<1>2. CASE op = 4
  BY <1>2, Adjusted DEF OnA
<1>3. CASE op = 5
  <2> DEFINE x == 255 - r.a
             f == r.f \cup {"N", "H"}
  <2>1. x \in Int /\ 0 <= x /\ x <= 255 /\ f \subseteq Flag
    BY <1>0, ByteIs DEF Flag
  <2>2. OnA(r, op) = [r EXCEPT !.a = x, !.f = f]
    BY <1>3 DEF OnA
  <2> HIDE DEF x, f
  <2>3. x \in Byte
    BY <2>1, ByteIs
  <2>4. [r EXCEPT !.a = x, !.f = f] \in Registers
    BY <2>1, <2>3, AccumulatorGiven
  <2> QED BY <2>2, <2>4
<1>4. CASE op = 6
  <2> DEFINE f == (r.f \cap {"Z"}) \cup {"C"}
  <2>1. f \in SUBSET Flag /\ OnA(r, op) = [r EXCEPT !.f = f]
    BY <1>0, <1>4 DEF OnA, Flag
  <2> HIDE DEF f
  <2> QED BY <2>1, RegisterGiven
<1>5. CASE op = 7
  <2> DEFINE f == (r.f \cap {"Z"}) \cup ({"C"} \ r.f)
  <2>1. f \in SUBSET Flag /\ OnA(r, op) = [r EXCEPT !.f = f]
    BY <1>0, <1>5 DEF OnA, Flag
  <2> HIDE DEF f
  <2> QED BY <2>1, RegisterGiven
<1> QED BY <1>0, <1>1, <1>2, <1>3, <1>4, <1>5

LEMMA OperandPairs ==
  ASSUME NEW r \in Registers, NEW i \in 0..3
  PROVE  /\ Get16(r, i) \in Word /\ GetPair(r, i) \in Word /\ Pointer(r, i) \in Word
         /\ Stepped(r, i) \in Registers
         /\ \A w \in Word : Set16(r, i, w) \in Registers /\ SetPair(r, i, w) \in Registers
<1>1. i \in {0, 1, 2, 3} /\ r.sp \in Word
  BY RegistersAre
<1>2. Get16(r, i) \in Word /\ GetPair(r, i) \in Word /\ Pointer(r, i) \in Word
  BY <1>1, PairsAre DEF Get16, GetPair, Pointer
<1>3. ASSUME NEW w \in Word PROVE Set16(r, i, w) \in Registers /\ SetPair(r, i, w) \in Registers
  BY <1>1, PairsAre, RegisterGiven DEF Set16, SetPair
<1>4. Stepped(r, i) \in Registers
  <2> DEFINE hl == HL(r)
             up == Wrap16(hl + 1)
             down == Wrap16(hl - 1)
  <2>1. hl \in Word
    BY PairsAre
  <2> HIDE DEF hl
  <2>2. hl + 1 \in Int /\ hl - 1 \in Int
    BY <2>1, WordIs
  <2>3. up \in Word /\ down \in Word
    BY <2>2, Wrapped
  <2>4. Stepped(r, i) \in {r, SetHL(r, up), SetHL(r, down)}
    BY <1>1 DEF Stepped, hl
  <2> HIDE DEF up, down
  <2> QED BY <2>3, <2>4, PairsAre
<1> QED BY <1>2, <1>3, <1>4

LEMMA NewRegistersOK == \A mode : NewRegisters(mode) \in Registers
BY ByteIs, WordIs DEF NewRegisters, Registers, Flag

-----------------------------------------------------------------------------
(* An instruction is put together from small steps; each leaves the CPU in *)
(* order, and what the history and the interrupt flags say as it was.      *)
CpuFields ==
  {"reg", "mmu", "halted", "halt_bug", "ime", "setdi", "setei", "ticks", "store", "opcode", "decimal"}

CpuOK(s) ==
  /\ DOMAIN s = CpuFields /\ s.reg \in Registers /\ MmuOK(s.mmu)
  /\ s.setdi \in {0, 1, 2} /\ s.setei \in {0, 1, 2}
  /\ s.ticks \in Nat /\ s.ticks <= 24
  /\ s.store \in Seq(Word \X Byte)

Kept(s, t) ==
  t.ime = s.ime /\ t.setei = s.setei /\ t.decimal = s.decimal /\ t.opcode = s.opcode

Goes(s, t) == CpuOK(t) /\ Kept(s, t)

LEMMA Begin ==
  ASSUME NEW s, CpuOK(s)
  PROVE  Goes(s, s)
BY DEF Goes, Kept

LEMMA TookGoes ==
  ASSUME NEW s, NEW t, Goes(s, t), NEW n \in 0..24
  PROVE  Goes(s, Took(t, n))
<1> DEFINE u == Took(t, n)
<1>1. /\ DOMAIN u = CpuFields /\ u.reg = t.reg /\ u.mmu = t.mmu /\ u.setdi = t.setdi
      /\ u.setei = t.setei /\ u.ticks = n /\ u.store = t.store /\ Kept(t, u)
  BY DEF Took, Goes, CpuOK, CpuFields, Kept
<1> HIDE DEF u
<1>2. Goes(s, u)
  BY <1>1 DEF Goes, CpuOK, Kept
<1> QED BY <1>2 DEF u

LEMMA WithRegGoes ==
  ASSUME NEW s, NEW t, Goes(s, t), NEW r \in Registers
  PROVE  Goes(s, [t EXCEPT !.reg = r]) /\ Goes(s, WithReg(t, r))
<1> DEFINE u == [t EXCEPT !.reg = r]
<1>1. /\ DOMAIN u = CpuFields /\ u.reg = r /\ u.mmu = t.mmu /\ u.setdi = t.setdi
      /\ u.setei = t.setei /\ u.ticks = t.ticks /\ u.store = t.store /\ Kept(t, u)
  BY DEF Goes, CpuOK, CpuFields, Kept
<1> HIDE DEF u
<1>2. Goes(s, u)
  BY <1>1 DEF Goes, CpuOK, Kept
<1> QED BY <1>2 DEF u, WithReg

\* One register of the CPU.
LEMMA RegGoes ==
  ASSUME NEW s, NEW t, Goes(s, t)
  PROVE  /\ \A v \in Byte : Goes(s, [t EXCEPT !.reg.a = v])
         /\ \A w \in Word : Goes(s, [t EXCEPT !.reg.sp = w]) /\ Goes(s, [t EXCEPT !.reg.pc = w])
         /\ \A f \in SUBSET Flag : Goes(s, [t EXCEPT !.reg.f = f])
<1>1. t.reg \in Registers /\ DOMAIN t = CpuFields
  BY DEF Goes, CpuOK
<1>2. ASSUME NEW v \in Byte PROVE Goes(s, [t EXCEPT !.reg.a = v])
  <2> DEFINE r == [t.reg EXCEPT !.a = v]
  <2>1. r \in Registers /\ [t EXCEPT !.reg.a = v] = [t EXCEPT !.reg = r]
    BY <1>1, RegisterGiven
  <2> HIDE DEF r
  <2> QED BY <2>1, WithRegGoes
<1>3. ASSUME NEW w \in Word PROVE Goes(s, [t EXCEPT !.reg.sp = w])
  <2> DEFINE r == [t.reg EXCEPT !.sp = w]
  <2>1. r \in Registers /\ [t EXCEPT !.reg.sp = w] = [t EXCEPT !.reg = r]
    BY <1>1, RegisterGiven
  <2> HIDE DEF r
  <2> QED BY <2>1, WithRegGoes
<1>4. ASSUME NEW w \in Word PROVE Goes(s, [t EXCEPT !.reg.pc = w])
  <2> DEFINE r == [t.reg EXCEPT !.pc = w]
  <2>1. r \in Registers /\ [t EXCEPT !.reg.pc = w] = [t EXCEPT !.reg = r]
    BY <1>1, RegisterGiven
  <2> HIDE DEF r
  <2> QED BY <2>1, WithRegGoes
<1>5. ASSUME NEW f \in SUBSET Flag PROVE Goes(s, [t EXCEPT !.reg.f = f])
  <2> DEFINE r == [t.reg EXCEPT !.f = f]
  <2>1. r \in Registers /\ [t EXCEPT !.reg.f = f] = [t EXCEPT !.reg = r]
    BY <1>1, RegisterGiven
  <2> HIDE DEF r
  <2> QED BY <2>1, WithRegGoes
<1> QED BY <1>2, <1>3, <1>4, <1>5

LEMMA JumpGoes ==
  ASSUME NEW s, NEW t, Goes(s, t), NEW a \in Word
  PROVE  Goes(s, Jump(t, a))
BY RegGoes DEF Jump

LEMMA SkipGoes ==
  ASSUME NEW s, NEW t, Goes(s, t), NEW n \in Int
  PROVE  Goes(s, Skip(t, n))
<1>1. t.reg.pc + n \in Int
  BY RegistersAre, WordIs DEF Goes, CpuOK
<1>2. Wrap16(t.reg.pc + n) \in Word
  BY <1>1, Wrapped
<1> QED BY <1>2, JumpGoes DEF Skip

\* Writes wait in store.
LEMMA StoreGoes ==
  ASSUME NEW s, NEW t, Goes(s, t), NEW w \in Seq(Word \X Byte)
  PROVE  Goes(s, [t EXCEPT !.store = w])
<1> DEFINE u == [t EXCEPT !.store = w]
<1>1. /\ DOMAIN u = CpuFields /\ u.reg = t.reg /\ u.mmu = t.mmu /\ u.setdi = t.setdi
      /\ u.setei = t.setei /\ u.ticks = t.ticks /\ u.store = w /\ Kept(t, u)
  BY DEF Goes, CpuOK, CpuFields, Kept
<1> HIDE DEF u
<1>2. Goes(s, u)
  BY <1>1 DEF Goes, CpuOK, Kept
<1> QED BY <1>2 DEF u

LEMMA WriteGoes ==
  ASSUME NEW s, NEW t, Goes(s, t), NEW a \in Word, NEW v \in Byte
  PROVE  Goes(s, Write(t, a, v))
<1> DEFINE w == Append(t.store, <<a, v>>)
<1>1. t.store \in Seq(Word \X Byte) /\ DOMAIN t = CpuFields
  BY DEF Goes, CpuOK
<1>2. <<a, v>> \in Word \X Byte
  OBVIOUS
<1>3. w \in Seq(Word \X Byte)
  BY <1>1, <1>2
<1>4. Write(t, a, v) = [t EXCEPT !.store = w]
  BY <1>1 DEF Write
<1> HIDE DEF w
<1>5. Goes(s, [t EXCEPT !.store = w])
  BY <1>3, StoreGoes
<1> QED BY <1>4, <1>5

LEMMA WriteWideGoes ==
  ASSUME NEW s, NEW t, Goes(s, t), NEW a \in Word, NEW v \in Word
  PROVE  Goes(s, WriteWide(t, a, v))
<1> DEFINE two == << <<a, Lo(v)>>, <<Wrap16(a + 1), Hi(v)>> >>
           w == t.store \o two
<1>1. t.store \in Seq(Word \X Byte) /\ DOMAIN t = CpuFields
  BY DEF Goes, CpuOK
<1>2. two \in Seq(Word \X Byte)
  <2> DEFINE b == Wrap16(a + 1)
             lo == Lo(v)
             hi == Hi(v)
  <2>1. lo \in Byte /\ hi \in Byte
    BY Halves
  <2>2. b \in Word
    <3>1. a + 1 \in Int
      BY WordIs
    <3> QED BY <3>1, Wrapped
  <2>3. two = << <<a, lo>>, <<b, hi>> >>
    OBVIOUS
  <2> HIDE DEF two, b, lo, hi
  <2>4. <<a, lo>> \in Word \X Byte /\ <<b, hi>> \in Word \X Byte
    BY <2>1, <2>2
  <2> DEFINE p == <<a, lo>>
             q == <<b, hi>>
  <2> HIDE DEF p, q
  <2>5. <<p, q>> \in Seq(Word \X Byte)
    BY <2>4 DEF p, q
  <2> QED BY <2>3, <2>5 DEF p, q
<1>3. WriteWide(t, a, v) = [t EXCEPT !.store = w]
  BY <1>1 DEF WriteWide
<1> HIDE DEF two
<1>4. w \in Seq(Word \X Byte)
  BY <1>1, <1>2
<1> HIDE DEF w
<1>5. Goes(s, [t EXCEPT !.store = w])
  BY <1>4, StoreGoes
<1> QED BY <1>3, <1>5

LEMMA PushGoes ==
  ASSUME NEW s, NEW t, Goes(s, t), NEW w \in Word
  PROVE  Goes(s, push(t, w)) /\ Goes(s, Popped(t))
<1> DEFINE down == Wrap16(t.reg.sp - 2)
           up == Wrap16(t.reg.sp + 2)
           u == [t EXCEPT !.reg.sp = down]
           x == [t EXCEPT !.reg.sp = up]
<1>1. t.reg.sp - 2 \in Int /\ t.reg.sp + 2 \in Int
  BY RegistersAre, WordIs DEF Goes, CpuOK
<1>2. down \in Word /\ up \in Word
  BY <1>1, Wrapped
<1>3. push(t, w) = WriteWide(u, down, w)
  BY DEF push
<1>4. Popped(t) = x
  BY RegistersAre DEF Popped, Goes, CpuOK, CpuFields, RegFields
<1> HIDE DEF down, up
<1>5. Goes(s, u) /\ Goes(s, x)
  BY <1>2, RegGoes
<1> HIDE DEF u, x
<1> QED BY <1>2, <1>3, <1>4, <1>5, WriteWideGoes

\* The operands.
LEMMA OperandIs ==
  ASSUME NEW s, CpuOK(s), NEW i \in 0..7, NEW m \in Byte
  PROVE  Get8(s, i, m) \in Byte
<1>1. i \in {0, 1, 2, 3, 4, 5, 6, 7}
  OBVIOUS
<1>2. s.reg \in Registers
  BY DEF CpuOK
<1> QED BY <1>1, <1>2, RegistersAre DEF Get8, RegName

LEMMA Set8Goes ==
  ASSUME NEW s, NEW t, Goes(s, t), NEW i \in 0..7, NEW v \in Byte
  PROVE  Goes(s, Set8(t, i, v))
<1>1. i \in {0, 1, 2, 3, 4, 5, 6, 7} /\ t.reg \in Registers /\ DOMAIN t = CpuFields
  BY DEF Goes, CpuOK
<1>2. CASE i = 6
  <2>1. HL(t.reg) \in Word
    BY <1>1, PairsAre
  <2> QED BY <1>2, <2>1, WriteGoes DEF Set8
<1>3. CASE i # 6
  <2> DEFINE n == RegName[i + 1]
             r == [t.reg EXCEPT ![n] = v]
  <2>1. n \in {"a", "b", "c", "d", "e", "h", "l"}
    BY <1>1, <1>3 DEF RegName
  <2>2. Set8(t, i, v) = [t EXCEPT !.reg = r]
    BY <1>1, <1>3 DEF Set8
  <2> HIDE DEF n
  <2>3. r \in Registers
    BY <1>1, <2>1, RegisterGiven
  <2> HIDE DEF r
  <2> QED BY <2>2, <2>3, WithRegGoes
<1> QED BY <1>2, <1>3

-----------------------------------------------------------------------------
(* The instructions.                                                       *)
LEMMA InMemoryIs ==
  ASSUME NEW i, NEW n \in 0..24, NEW k \in 0..24
  PROVE  InMemory(i, n, k) \in 0..24
BY DEF InMemory

LEMMA RelativeGoes ==
  ASSUME NEW s, NEW t, Goes(s, t), NEW n \in Byte
  PROVE  Goes(s, JumpRelative(t, n))
<1> DEFINE k == 1 + Signed(n)
<1>1. k \in Int
  BY Bytes2
<1> HIDE DEF k
<1>2. Goes(s, Skip(t, k))
  BY <1>1, SkipGoes
<1>3. Goes(s, Took(Skip(t, k), 12))
  BY <1>2, TookGoes
<1> QED BY <1>3 DEF JumpRelative, k

\* Moves, arithmetic on A, and the instructions after 0xCB.
LEMMA MoveGoes ==
  ASSUME NEW s, CpuOK(s), NEW y \in 0..7, NEW z \in 0..7, NEW m \in Byte
  PROVE  Goes(s, Move(s, y, z, m))
<1> DEFINE v == Get8(s, z, m)
           n == IF 6 \in {y, z} THEN 8 ELSE 4
<1>1. v \in Byte /\ n \in 0..24
  BY OperandIs
<1> HIDE DEF v, n
<1>2. Goes(s, Set8(s, y, v))
  BY <1>1, Begin, Set8Goes
<1>3. Goes(s, Took(Set8(s, y, v), n))
  BY <1>1, <1>2, TookGoes
<1> QED BY <1>3 DEF Move, v, n

LEMMA ArithmeticGoes ==
  ASSUME NEW s, CpuOK(s), NEW y \in 0..7, NEW z \in 0..7, NEW m \in Byte
  PROVE  Goes(s, Arithmetic(s, y, z, m))
<1> DEFINE v == Get8(s, z, m)
           r == Alu(s.reg, y, v)
           n == InMemory(z, 8, 4)
<1>1. s.reg \in Registers /\ v \in Byte
  BY OperandIs DEF CpuOK
<1>2. n \in 0..24
  BY InMemoryIs
<1> HIDE DEF v, n
<1>5. r \in Registers
  BY <1>1, AluIs
<1> HIDE DEF r
<1>3. Goes(s, WithReg(s, r))
  BY <1>5, Begin, WithRegGoes
<1>4. Goes(s, Took(WithReg(s, r), n))
  BY <1>2, <1>3, TookGoes
<1> QED BY <1>4 DEF Arithmetic, r, v, n

LEMMA CbGoes ==
  ASSUME NEW s, CpuOK(s), NEW op \in Byte, NEW m \in Byte
  PROVE  Goes(s, execute_cb(s, op, m))
<1> DEFINE x == op \div 64
           i == op % 8
           y == (op \div 8) % 8
           v == Get8(s, i, m)
           c == CarryIn(s.reg)
           flags == CASE x = 0 -> ShiftFlags(ShiftOp[y + 1], v, c)
                      [] x = 1 -> BitFlags(s.reg, v, y)
                      [] OTHER -> s.reg.f
           value == CASE x = 0 -> Shifted(ShiftOp[y + 1], v, c)
                      [] x = 1 -> v
                      [] x = 2 -> v - Bit(v, y) * Power(y)
                      [] x = 3 -> v + (1 - Bit(v, y)) * Power(y)
           flagged == [s EXCEPT !.reg.f = flags]
           n == InMemory(i, 16, 8)
           done == IF x = 1 THEN flagged ELSE Set8(flagged, i, value)
<1>1. op \in Int /\ 0 <= op /\ op <= 255
  BY ByteIs
<1>2. x \in {0, 1, 2, 3} /\ i \in 0..7 /\ y \in 0..7 /\ n \in 0..24
  <2>1. x \in {0, 1, 2, 3} /\ i \in 0..7 /\ y \in 0..7
    BY <1>1
  <2>2. 16 \in 0..24 /\ 8 \in 0..24
    OBVIOUS
  <2>3. n \in 0..24
    BY <2>2, InMemoryIs
  <2> QED BY <2>1, <2>3
<1>3. execute_cb(s, op, m) = Took(done, n)
  BY DEF execute_cb
<1> HIDE DEF x, i, y, n
<1>4. v \in Byte /\ c \in {0, 1} /\ s.reg \in Registers
  BY <1>2, OperandIs, CarryIs DEF CpuOK
<1> HIDE DEF v, c
<1> DEFINE k == ShiftOp[y + 1]
<1>5. k \in {"rlc", "rrc", "rl", "rr", "sla", "sra", "swap", "srl"}
  <2>1. y \in {0, 1, 2, 3, 4, 5, 6, 7}
    BY <1>2
  <2> QED BY <2>1 DEF ShiftOp
<1> HIDE DEF k
<1>6. Shifted(k, v, c) \in Byte /\ ShiftFlags(k, v, c) \subseteq Flag
  BY <1>4, <1>5, ShiftIs
<1>7. BitFlags(s.reg, v, y) \subseteq Flag /\ s.reg.f \subseteq Flag
  BY <1>4, TestFlags, RegistersAre
<1>8. v - Bit(v, y) * Power(y) \in Byte /\ v + (1 - Bit(v, y)) * Power(y) \in Byte
  BY <1>2, <1>4, BitChanged
<1>9. flags \subseteq Flag
  BY <1>2, <1>6, <1>7 DEF k
<1>10. value \in Byte
  <2>1. CASE x = 0
    BY <2>1, <1>6 DEF k
  <2>2. CASE x = 1
    BY <2>2, <1>4
  <2>3. CASE x = 2
    BY <2>3, <1>8
  <2>4. CASE x = 3
    BY <2>4, <1>8
  <2> QED BY <1>2, <2>1, <2>2, <2>3, <2>4
<1> HIDE DEF flags, value
<1>11. Goes(s, flagged)
  BY <1>9, Begin, RegGoes
<1> HIDE DEF flagged
<1>12. Goes(s, done)
  BY <1>2, <1>10, <1>11, Set8Goes
<1> HIDE DEF done
<1>13. Goes(s, Took(done, n))
  BY <1>2, <1>12, TookGoes
<1> QED BY <1>3, <1>13

LEMMA OffsetGoes ==
  ASSUME NEW s, CpuOK(s), NEW y \in {4, 5, 6, 7}, NEW n \in Byte, NEW m \in Byte
  PROVE  Goes(s, WithOffset(s, y, n, m))
<1> DEFINE t == Skip(s, 1)
           f == SpFlags(s.reg, n)
           w == SpPlus(s.reg, n)
           u == [t EXCEPT !.reg.f = f]
           page == HighPage(n)
<1>1. s.reg \in Registers /\ s.reg.a \in Byte
  BY RegistersAre DEF CpuOK
<1>2. Goes(s, t)
  BY Begin, SkipGoes
<1>3. f \in SUBSET Flag /\ w \in Word
  BY <1>1, StackSum
<1>4. page \in Word
  BY ByteIs, WordIs DEF HighPage
<1>5. /\ y = 4 => WithOffset(s, y, n, m) = Took(Write(t, page, s.reg.a), 12)
      /\ y = 5 => WithOffset(s, y, n, m) = Took([u EXCEPT !.reg.sp = w], 16)
      /\ y = 6 => WithOffset(s, y, n, m) = Took([t EXCEPT !.reg.a = m], 12)
  BY DEF WithOffset
<1>6. y = 7 => WithOffset(s, y, n, m) = Took([u EXCEPT !.reg = SetHL(@, w)], 12)
  BY DEF WithOffset
<1> HIDE DEF t, f, w, page
<1>7. Goes(s, u)
  BY <1>2, <1>3, RegGoes
<1> HIDE DEF u
<1>8. Goes(s, Write(t, page, s.reg.a))
  BY <1>1, <1>2, <1>4, WriteGoes
<1>9. Goes(s, [u EXCEPT !.reg.sp = w]) /\ Goes(s, [t EXCEPT !.reg.a = m])
  BY <1>2, <1>3, <1>7, RegGoes
<1> DEFINE r == SetHL(u.reg, w)
<1>10. [u EXCEPT !.reg = SetHL(@, w)] = [u EXCEPT !.reg = r]
  BY <1>7 DEF Goes, CpuOK, CpuFields
<1>11. r \in Registers
  BY <1>3, <1>7, PairsAre DEF Goes, CpuOK
<1> HIDE DEF r
<1>12. Goes(s, [u EXCEPT !.reg = r])
  BY <1>7, <1>11, WithRegGoes
<1>13. /\ Goes(s, Took(Write(t, page, s.reg.a), 12)) /\ Goes(s, Took([u EXCEPT !.reg.sp = w], 16))
       /\ Goes(s, Took([t EXCEPT !.reg.a = m], 12))
  BY <1>8, <1>9, TookGoes
<1>14. Goes(s, Took([u EXCEPT !.reg = r], 12))
  BY <1>12, TookGoes
<1> QED BY <1>5, <1>6, <1>10, <1>13, <1>14

LEMMA HaltGoes ==
  ASSUME NEW s, CpuOK(s)
  PROVE  Goes(s, HALT(s))
<1> DEFINE bug == s.halt_bug \/ (~s.ime /\ Triggered(s) # {})
           t == [s EXCEPT !.halted = TRUE, !.halt_bug = bug]
<1>1. HALT(s) = Took(t, 4)
  BY DEF HALT, CpuOK, CpuFields
<1> HIDE DEF bug
<1>2. Goes(s, t)
  BY DEF CpuOK, CpuFields, Goes, Kept
<1> HIDE DEF t
<1> QED BY <1>1, <1>2, TookGoes

\* Opcodes 0x00 to 0x3F.
LEMMA LowGoes ==
  ASSUME NEW s, CpuOK(s), NEW y \in 0..7, NEW z \in 0..7, NEW nn \in Word, NEW m \in Byte
  PROVE  Goes(s, Low(s, y, z, nn, m))
<1> DEFINE t == Low(s, y, z, nn, m)
           p == y \div 2
           r == s.reg
           v == Get8(s, y, m)
           lo == Lo(nn)
           step == IF y % 2 = 0 THEN 1 ELSE -1
           ptr == Pointer(r, p)
           pair == Get16(r, p)
           moved == Wrap16(pair + step)
           up == (v + 1) % 256
           down == (v - 1) % 256
           cost == InMemory(y, 12, 4)
           load == InMemory(y, 12, 8)
           inc == [s EXCEPT !.reg.f = IncFlags(r, v)]
           dec == [s EXCEPT !.reg.f = DecFlags(r, v)]
           ra == [r EXCEPT !.a = m]
<1>1. /\ p \in 0..3 /\ r \in Registers /\ v \in Byte /\ lo \in Byte /\ step \in Int
      /\ y \in {0, 1, 2, 3, 4, 5, 6, 7} /\ z \in {0, 1, 2, 3, 4, 5, 6, 7}
      /\ y % 2 \in {0, 1}
  <2>1. p \in 0..3 /\ y % 2 \in {0, 1} /\ step \in Int
    OBVIOUS
  <2>2. y \in {0, 1, 2, 3, 4, 5, 6, 7} /\ z \in {0, 1, 2, 3, 4, 5, 6, 7}
    OBVIOUS
  <2>3. r \in Registers
    BY DEF CpuOK
  <2>4. v \in Byte
    BY OperandIs
  <2>5. lo \in Byte
    BY Halves
  <2> HIDE DEF p, r, v, lo, step
  <2> QED BY <2>1, <2>2, <2>3, <2>4, <2>5
<1>2. r.a \in Byte /\ r.sp \in Word
  BY <1>1, RegistersAre
<1>3. cost \in 0..24 /\ load \in 0..24
  <2>1. 12 \in 0..24 /\ 4 \in 0..24 /\ 8 \in 0..24
    OBVIOUS
  <2>2. cost \in 0..24
    BY <2>1, InMemoryIs
  <2>3. load \in 0..24
    BY <2>1, InMemoryIs
  <2> QED BY <2>2, <2>3
<1>4. t = CASE z = 0 /\ y = 0 -> Took(s, 4)
       [] z = 0 /\ y = 1 -> Took(WriteWide(Skip(s, 2), nn, r.sp), 20)
       [] z = 0 /\ y = 2 -> Took([s EXCEPT !.mmu = switch_speed(@)], 4)
       [] z = 0 /\ y = 3 -> JumpRelative(s, lo)
       [] z = 0 /\ y > 3 -> IF Holds(r, y - 4) THEN JumpRelative(s, lo) ELSE Took(Skip(s, 1), 8)
       [] z = 1 /\ y % 2 = 0 -> Took(Skip(WithReg(s, Set16(r, p, nn)), 2), 12)
       [] z = 1 /\ y % 2 = 1 -> Took(WithReg(s, alu_add16(r, pair)), 8)
       [] z = 2 /\ y % 2 = 0 -> Took(WithReg(Write(s, ptr, r.a), Stepped(r, p)), 8)
       [] z = 2 /\ y % 2 = 1 -> Took(WithReg(s, Stepped(ra, p)), 8)
       [] z = 3 -> Took(WithReg(s, Set16(r, p, moved)), 8)
       [] z = 4 -> Took(Set8(inc, y, up), cost)
       [] z = 5 -> Took(Set8(dec, y, down), cost)
       [] z = 6 -> Took(Set8(Skip(s, 1), y, lo), load)
       [] z = 7 -> Took(WithReg(s, OnA(r, y)), 4)
  BY DEF Low
<1> HIDE DEF t, lo, step, v, p
<1>5. inc.reg \in Registers /\ Goes(s, inc) /\ Goes(s, dec)
  <2> DEFINE f == IncFlags(r, v)
             g == DecFlags(r, v)
  <2>1. f \in SUBSET Flag /\ g \in SUBSET Flag
    BY <1>1, CountFlags
  <2> HIDE DEF f, g
  <2>2. Goes(s, [s EXCEPT !.reg.f = f]) /\ Goes(s, [s EXCEPT !.reg.f = g])
    BY <2>1, Begin, RegGoes
  <2> QED BY <2>2 DEF f, g, Goes, CpuOK
<1>6. up \in Byte /\ down \in Byte
  <2>1. v + 1 \in Int /\ v - 1 \in Int
    BY <1>1, ByteIs
  <2> QED BY <2>1, CutIs
<1>7. /\ ptr \in Word /\ pair \in Word /\ Stepped(r, p) \in Registers
      /\ Set16(r, p, nn) \in Registers
  BY <1>1, OperandPairs
<1>8. moved \in Word
  <2>1. pair + step \in Int
    BY <1>1, <1>7, WordIs
  <2> QED BY <2>1, Wrapped
<1>9. ra \in Registers
  BY <1>1, RegisterGiven
<1> HIDE DEF inc, dec, up, down, ptr, pair, moved, ra, cost, load
<1>10. /\ Set16(r, p, moved) \in Registers /\ alu_add16(r, pair) \in Registers
       /\ OnA(r, y) \in Registers /\ Stepped(ra, p) \in Registers
  BY <1>1, <1>7, <1>8, <1>9, OperandPairs, Wide, OnAIs
<1> HIDE DEF r
<1>11. Goes(s, s) /\ Goes(s, Skip(s, 1)) /\ Goes(s, Skip(s, 2))
  BY Begin, SkipGoes
<1>12. Goes(s, Took(s, 4))
  BY <1>11, TookGoes
<1>13. Goes(s, Took(WriteWide(Skip(s, 2), nn, r.sp), 20))
  <2>1. Goes(s, WriteWide(Skip(s, 2), nn, r.sp))
    BY <1>2, <1>11, WriteWideGoes
  <2> QED BY <2>1, TookGoes
<1>14. Goes(s, Took([s EXCEPT !.mmu = switch_speed(@)], 4))
  <2> DEFINE u == [s EXCEPT !.mmu = switch_speed(@)]
  <2>1. /\ DOMAIN u = CpuFields /\ u.reg = s.reg /\ u.mmu = switch_speed(s.mmu)
        /\ u.setdi = s.setdi /\ u.setei = s.setei /\ u.ticks = s.ticks /\ u.store = s.store
        /\ Kept(s, u)
    BY DEF CpuOK, CpuFields, Kept
  <2> HIDE DEF u
  <2>2. MmuOK(u.mmu)
    BY <2>1, SpeedSwitched DEF CpuOK
  <2>3. Goes(s, u)
    BY <2>1, <2>2 DEF Goes, CpuOK
  <2>4. Goes(s, Took(u, 4))
    BY <2>3, TookGoes
  <2> QED BY <2>4 DEF u
<1>15. Goes(s, JumpRelative(s, lo)) /\ Goes(s, Took(Skip(s, 1), 8))
  BY <1>1, <1>11, RelativeGoes, TookGoes
<1>16. Goes(s, Took(Skip(WithReg(s, Set16(r, p, nn)), 2), 12))
  <2> DEFINE u == WithReg(s, Set16(r, p, nn))
  <2>1. Goes(s, u)
    BY <1>7, <1>11, WithRegGoes
  <2> HIDE DEF u
  <2>2. Goes(s, Skip(u, 2))
    BY <2>1, SkipGoes
  <2>3. Goes(s, Took(Skip(u, 2), 12))
    BY <2>2, TookGoes
  <2> QED BY <2>3 DEF u
<1>17. Goes(s, Took(WithReg(s, alu_add16(r, pair)), 8))
  <2>1. Goes(s, WithReg(s, alu_add16(r, pair)))
    BY <1>10, <1>11, WithRegGoes
  <2> QED BY <2>1, TookGoes
<1>18. Goes(s, Took(WithReg(Write(s, ptr, r.a), Stepped(r, p)), 8))
  <2>1. Goes(s, Write(s, ptr, r.a))
    BY <1>2, <1>7, <1>11, WriteGoes
  <2>2. Goes(s, WithReg(Write(s, ptr, r.a), Stepped(r, p)))
    BY <1>7, <2>1, WithRegGoes
  <2> QED BY <2>2, TookGoes
<1>19. Goes(s, Took(WithReg(s, Stepped(ra, p)), 8))
  <2>1. Goes(s, WithReg(s, Stepped(ra, p)))
    BY <1>10, <1>11, WithRegGoes
  <2> QED BY <2>1, TookGoes
<1>20. Goes(s, Took(WithReg(s, Set16(r, p, moved)), 8))
  <2>1. Goes(s, WithReg(s, Set16(r, p, moved)))
    BY <1>10, <1>11, WithRegGoes
  <2> QED BY <2>1, TookGoes
<1>21. Goes(s, Took(Set8(inc, y, up), cost)) /\ Goes(s, Took(Set8(dec, y, down), cost))
  <2>1. Goes(s, Set8(inc, y, up)) /\ Goes(s, Set8(dec, y, down))
    BY <1>5, <1>6, Set8Goes
  <2> QED BY <1>3, <2>1, TookGoes
<1>22. Goes(s, Took(Set8(Skip(s, 1), y, lo), load))
  <2>1. Goes(s, Set8(Skip(s, 1), y, lo))
    BY <1>1, <1>11, Set8Goes
  <2> QED BY <1>3, <2>1, TookGoes
<1>23. Goes(s, Took(WithReg(s, OnA(r, y)), 4))
  <2>1. Goes(s, WithReg(s, OnA(r, y)))
    BY <1>10, <1>11, WithRegGoes
  <2> QED BY <2>1, TookGoes
<1>24. Goes(s, t)
  <2>1. CASE z = 0
    <3>1. y = 0 \/ y = 1 \/ y = 2 \/ y = 3 \/ y > 3
      BY <1>1
    <3> QED BY <1>4, <1>12, <1>13, <1>14, <1>15, <2>1, <3>1
  <2>2. CASE z = 1
    BY <1>1, <1>4, <1>16, <1>17, <2>2
  <2>3. CASE z = 2
    BY <1>1, <1>4, <1>18, <1>19, <2>3
  <2>4. CASE z = 3
    BY <1>4, <1>20, <2>4
  <2>5. CASE z = 4
    BY <1>4, <1>21, <2>5
  <2>6. CASE z = 5
    BY <1>4, <1>21, <2>6
  <2>7. CASE z = 6
    BY <1>4, <1>22, <2>7
  <2>8. CASE z = 7
    BY <1>4, <1>23, <2>8
  <2> QED BY <1>1, <2>1, <2>2, <2>3, <2>4, <2>5, <2>6, <2>7, <2>8
<1> QED BY <1>24 DEF t

LEMMA CallGoes ==
  ASSUME NEW s, NEW t, Goes(s, t), NEW a \in Word, NEW n \in 0..24
  PROVE  Goes(s, Call(t, a, n)) /\ Goes(s, Return(t, a, n))
<1> DEFINE u == push(t, t.reg.pc)
           x == Popped(t)
<1>1. t.reg.pc \in Word
  BY RegistersAre DEF Goes, CpuOK
<1>2. Goes(s, u) /\ Goes(s, x)
  BY <1>1, PushGoes
<1>3. Call(t, a, n) = Took(Jump(u, a), n) /\ Return(t, a, n) = Took(Jump(x, a), n)
  BY DEF Call, Return
<1> HIDE DEF u, x
<1>4. Goes(s, Jump(u, a)) /\ Goes(s, Jump(x, a))
  BY <1>2, JumpGoes
<1>5. Goes(s, Took(Jump(u, a), n)) /\ Goes(s, Took(Jump(x, a), n))
  BY <1>4, TookGoes
<1> QED BY <1>3, <1>5

\* The three instructions that touch what the others keep.
LEMMA ReturnsOpen ==
  ASSUME NEW s, CpuOK(s)
  PROVE  LET t == [s EXCEPT !.ime = TRUE] IN CpuOK(t) /\ t.opcode = s.opcode /\ t.decimal = s.decimal
BY DEF CpuOK, CpuFields

LEMMA EnablesLater ==
  ASSUME NEW s, CpuOK(s)
  PROVE  /\ LET t == [s EXCEPT !.setei = 2]
            IN  CpuOK(t) /\ t.opcode = s.opcode /\ t.decimal = s.decimal
         /\ Goes(s, [s EXCEPT !.setdi = 2])
BY DEF CpuOK, CpuFields, Goes, Kept

LEMMA WithByteIs ==
  ASSUME NEW s, CpuOK(s), NEW y \in 0..7, NEW v \in Byte
  PROVE  LET t == WithByte(s, y, v)
         IN  /\ CpuOK(t) /\ t.ime = s.ime /\ t.setei = s.setei /\ t.opcode = s.opcode
             /\ t.reg = Alu(s.reg, y, v) /\ t.decimal = DecimalAfter(s.reg, y, v)
<1> DEFINE t == WithByte(s, y, v)
           r == Alu(s.reg, y, v)
           d == DecimalAfter(s.reg, y, v)
<1>1. r \in Registers
  BY AluIs DEF CpuOK
<1>2. t = [s EXCEPT !.reg = r, !.decimal = d, !.ticks = 8]
  BY DEF WithByte, Took, CpuOK, CpuFields
<1> HIDE DEF t, r, d
<1>3. /\ DOMAIN t = CpuFields /\ t.reg = r /\ t.mmu = s.mmu /\ t.setdi = s.setdi
      /\ t.setei = s.setei /\ t.ticks = 8 /\ t.store = s.store /\ t.ime = s.ime
      /\ t.opcode = s.opcode /\ t.decimal = d
  BY <1>2 DEF CpuOK, CpuFields
<1>4. CpuOK(t)
  BY <1>1, <1>3 DEF CpuOK
<1> QED BY <1>3, <1>4 DEF t, r, d

\* Opcodes 0xC0 to 0xFF but for RETI, EI and arithmetic on a byte.
LEMMA HighGoes ==
  ASSUME NEW s, CpuOK(s), NEW y \in 0..7, NEW z \in 0..7, NEW nn \in Word, NEW m \in Byte,
         NEW top \in Word, z # 6, ~(z = 1 /\ y = 3), ~(z = 3 /\ y = 7)
  PROVE  Goes(s, High(s, y, z, nn, m, top))
<1> DEFINE t == High(s, y, z, nn, m, top)
           p == y \div 2
           r == s.reg
           lo == Lo(nn)
           next == Skip(s, 1)
           after == Skip(s, 2)
           popped == Popped(s)
           restored == SetPair(popped.reg, p, top)
           hl == HL(r)
           page == HighPage(r.c)
           pair == GetPair(r, p)
           eight == y * 8
<1>1. /\ p \in 0..3 /\ r \in Registers /\ lo \in Byte /\ eight \in Word
      /\ y \in {0, 1, 2, 3, 4, 5, 6, 7} /\ z \in {0, 1, 2, 3, 4, 5, 6, 7}
      /\ y % 2 \in {0, 1}
  <2>1. eight \in Word
    BY WordIs
  <2>2. lo \in Byte
    BY Halves
  <2> QED BY <2>1, <2>2 DEF CpuOK
<1>2. r.a \in Byte /\ r.c \in Byte /\ hl \in Word
  BY <1>1, RegistersAre, PairsAre
<1>3. page \in Word
  BY <1>2, ByteIs, WordIs DEF HighPage
<1>4. t = CASE z = 0 /\ y < 4 -> IF Holds(r, y) THEN Return(s, top, 20) ELSE Took(s, 8)
       [] z = 0 /\ y > 3 -> WithOffset(s, y, lo, m)
       [] z = 1 /\ y % 2 = 0 -> Took(WithReg(popped, restored), 12)
       [] z = 1 /\ y = 1 -> Return(s, top, 16)
       [] z = 1 /\ y = 3 -> [Return(s, top, 16) EXCEPT !.ime = TRUE]
       [] z = 1 /\ y = 5 -> Took(Jump(s, hl), 4)
       [] z = 1 /\ y = 7 -> Took([s EXCEPT !.reg.sp = hl], 8)
       [] z = 2 /\ y < 4 -> IF Holds(r, y) THEN Took(Jump(s, nn), 16) ELSE Took(after, 12)
       [] z = 2 /\ y = 4 -> Took(Write(s, page, r.a), 8)
       [] z = 2 /\ y = 5 -> Took(Write(after, nn, r.a), 16)
       [] z = 2 /\ y = 6 -> Took([s EXCEPT !.reg.a = m], 8)
       [] z = 2 /\ y = 7 -> Took([after EXCEPT !.reg.a = m], 16)
       [] z = 3 /\ y = 0 -> Took(Jump(s, nn), 16)
       [] z = 3 /\ y = 1 -> execute_cb(next, lo, m)
       [] z = 3 /\ y = 6 -> Took([s EXCEPT !.setdi = 2], 4)
       [] z = 3 /\ y = 7 -> Took([s EXCEPT !.setei = 2], 4)
       [] z = 4 /\ y < 4 -> IF Holds(r, y) THEN Call(after, nn, 24) ELSE Took(after, 12)
       [] z = 5 /\ y % 2 = 0 -> Took(push(s, pair), 16)
       [] z = 5 /\ y = 1 -> Call(after, nn, 24)
       [] z = 6 -> WithByte(next, y, lo)
       [] z = 7 -> Call(s, eight, 16)
       [] OTHER -> Took(s, 4)
  BY DEF High
<1> HIDE DEF t, lo, p, eight, hl, page
<1>5. pair \in Word
  BY <1>1, OperandPairs
<1>6. Goes(s, s) /\ Goes(s, next) /\ Goes(s, after)
  BY Begin, SkipGoes
<1>7. Goes(s, popped)
  BY <1>2, <1>6, PushGoes, WordIs
<1>8. popped.reg \in Registers
  BY <1>7 DEF Goes, CpuOK
<1> HIDE DEF next, after, popped, pair
<1>9. restored \in Registers
  BY <1>1, <1>8, OperandPairs
<1> HIDE DEF restored
<1>10. Goes(s, Took(s, 4)) /\ Goes(s, Took(s, 8)) /\ Goes(s, Took(after, 12))
  BY <1>6, TookGoes
<1>11. Goes(s, Return(s, top, 20)) /\ Goes(s, Return(s, top, 16))
  BY <1>6, CallGoes
<1>12. /\ Goes(s, Call(after, nn, 24)) /\ Goes(s, Call(s, eight, 16))
  BY <1>1, <1>6, CallGoes
<1>13. y > 3 => Goes(s, WithOffset(s, y, lo, m))
  BY <1>1, OffsetGoes
<1>14. Goes(s, Took(WithReg(popped, restored), 12))
  <2>1. Goes(s, WithReg(popped, restored))
    BY <1>7, <1>9, WithRegGoes
  <2> QED BY <2>1, TookGoes
<1>15. Goes(s, Took(Jump(s, hl), 4)) /\ Goes(s, Took(Jump(s, nn), 16))
  <2>1. Goes(s, Jump(s, hl)) /\ Goes(s, Jump(s, nn))
    BY <1>2, <1>6, JumpGoes
  <2> QED BY <2>1, TookGoes
<1>16. /\ Goes(s, Took([s EXCEPT !.reg.sp = hl], 8)) /\ Goes(s, Took([s EXCEPT !.reg.a = m], 8))
       /\ Goes(s, Took([after EXCEPT !.reg.a = m], 16))
  <2>1. /\ Goes(s, [s EXCEPT !.reg.sp = hl]) /\ Goes(s, [s EXCEPT !.reg.a = m])
        /\ Goes(s, [after EXCEPT !.reg.a = m])
    BY <1>2, <1>6, RegGoes
  <2> QED BY <2>1, TookGoes
<1>17. Goes(s, Took(Write(s, page, r.a), 8)) /\ Goes(s, Took(Write(after, nn, r.a), 16))
  <2>1. Goes(s, Write(s, page, r.a)) /\ Goes(s, Write(after, nn, r.a))
    BY <1>2, <1>3, <1>6, WriteGoes
  <2> QED BY <2>1, TookGoes
<1>18. Goes(s, Took([s EXCEPT !.setdi = 2], 4))
  <2>1. Goes(s, [s EXCEPT !.setdi = 2])
    BY EnablesLater
  <2> QED BY <2>1, TookGoes
<1>19. Goes(s, Took(push(s, pair), 16))
  <2>1. Goes(s, push(s, pair))
    BY <1>5, <1>6, PushGoes
  <2> QED BY <2>1, TookGoes
<1>20. Goes(s, execute_cb(next, lo, m))
  <2>1. CpuOK(next)
    BY <1>6 DEF Goes
  <2>2. Goes(next, execute_cb(next, lo, m))
    BY <1>1, <2>1, CbGoes
  <2> QED BY <1>6, <2>2 DEF Goes, Kept
<1>21. Goes(s, t)
  <2>1. CASE z = 0
    BY <1>1, <1>4, <1>10, <1>11, <1>13, <2>1
  <2>2. CASE z = 1
    BY <1>1, <1>4, <1>11, <1>14, <1>15, <1>16, <2>2
  <2>3. CASE z = 2
    BY <1>1, <1>4, <1>10, <1>15, <1>16, <1>17, <2>3
  <2>4. CASE z = 3
    BY <1>1, <1>4, <1>10, <1>15, <1>18, <1>20, <2>4
  <2>5. CASE z = 4
    BY <1>1, <1>4, <1>10, <1>12, <2>5
  <2>6. CASE z = 5
    BY <1>1, <1>4, <1>10, <1>12, <1>19, <2>6
  <2>7. CASE z = 7
    BY <1>4, <1>12, <2>7
  <2> QED BY <1>1, <2>1, <2>2, <2>3, <2>4, <2>5, <2>6, <2>7
<1> QED BY <1>21 DEF t

-----------------------------------------------------------------------------
(* Decimal numbers: the sum or the difference of two of them, and what DAA *)
(* makes of it, by the sums h and l of the high and of the low digits.     *)
LEMMA SumOfDigits ==
  ASSUME NEW h \in 0..18, NEW l \in 0..19
  PROVE  LET x     == (16 * h + l) % 256
             low   == IF l > 15 \/ x % 16 > 9 THEN x + 6 ELSE x
             fixed == IF 16 * h + l > 255 \/ low > 159 THEN low + 96 ELSE low
             n     == 10 * h + l
         IN  /\ fixed % 256 = ((n % 100) \div 10) * 16 + ((n % 100) % 10)
             /\ (16 * h + l > 255 \/ fixed >= 256) <=> n > 99
BY SMTT(20)

LEMMA DifferenceOfDigits ==
  ASSUME NEW h \in -9..9, NEW l \in -10..9
  PROVE  LET x     == (16 * h + l) % 256
             fixed == (IF l < 0 THEN (x - 6) % 256 ELSE x) - (IF 16 * h + l < 0 THEN 96 ELSE 0)
             n     == 10 * h + l
         IN  /\ fixed % 256 = ((n % 100) \div 10) * 16 + ((n % 100) % 10)
             /\ (16 * h + l < 0 \/ fixed >= 256) <=> n < 0
             /\ n <= 99
BY SMTT(20)

\* The digits of a byte.
LEMMA DigitsOf ==
  ASSUME NEW v \in Byte
  PROVE  v \div 16 \in 0..15 /\ Nibble(v) \in 0..15 /\ v = 16 * (v \div 16) + Nibble(v)
<1>1. v \in Int /\ 0 <= v /\ v <= 255
  BY ByteIs
<1> QED BY <1>1 DEF Nibble

\* DAA looks at A and the flags only.
LEMMA DaaSees ==
  ASSUME NEW r \in Registers, NEW q \in Registers, q.a = r.a, q.f = r.f
  PROVE  alu_daa(q).a = alu_daa(r).a /\ alu_daa(q).f = alu_daa(r).f
BY RegistersAre DEF alu_daa, RegFields

LEMMA DaaOfSum ==
  ASSUME NEW r \in Registers, NEW v \in Byte, NEW w \in BOOLEAN, IsDecimal(r.a), IsDecimal(v)
  PROVE  LET q == alu_daa(alu_add(r, v, w))
             n == Tens(r.a) + Tens(v) + (IF w THEN CarryIn(r) ELSE 0)
         IN  q.a = AsDecimal(n % 100) /\ (("C" \in q.f) <=> n > 99)
<1> DEFINE c == IF w THEN CarryIn(r) ELSE 0
           ah == r.a \div 16
           al == Nibble(r.a)
           vh == v \div 16
           vl == Nibble(v)
           h == ah + vh
           l == al + vl + c
           s == alu_add(r, v, w)
           sum == r.a + v + c
           half == al + vl + c
           x == sum % 256
           q == alu_daa(s)
           n == Tens(r.a) + Tens(v) + c
<1>1. c \in {0, 1} /\ r.a \in Byte /\ r \in Registers /\ DOMAIN r = RegFields
  BY CarryIs, RegistersAre
<1>2. s = [r EXCEPT !.a = x, !.f = Flags(x = 0, FALSE, half > 15, sum > 255)]
  BY DEF alu_add
<1>3. s.a = x /\ s.f = Flags(x = 0, FALSE, half > 15, sum > 255)
  BY <1>1, <1>2 DEF RegFields
<1>4. "N" \notin s.f /\ ("H" \in s.f <=> half > 15) /\ ("C" \in s.f <=> sum > 255)
  BY <1>3 DEF Flags, When
<1>5. DOMAIN s = RegFields
  BY <1>1, <1>2
<1> HIDE DEF s
<1> DEFINE low == IF half > 15 \/ Nibble(x) > 9 THEN x + 6 ELSE x
           fixed == IF sum > 255 \/ low > 159 THEN low + 96 ELSE low
<1>6. q.a = fixed % 256 /\ ("C" \in q.f <=> (sum > 255 \/ fixed >= 256))
  <2> DEFINE f == (s.f \cap {"N"}) \cup Flags(fixed % 256 = 0, FALSE, FALSE, "C" \in s.f \/ fixed >= 256)
  <2> DEFINE g == IF "N" \in s.f
                  THEN (IF "H" \in s.f THEN (s.a - 6) % 256 ELSE s.a) - (IF "C" \in s.f THEN 96 ELSE 0)
                  ELSE LET above == IF "H" \in s.f \/ Nibble(s.a) > 9 THEN s.a + 6 ELSE s.a
                       IN  IF "C" \in s.f \/ above > 159 THEN above + 96 ELSE above
  <2> HIDE DEF c, sum, half, x, q, n
  <2>0. g = fixed
    <3> DEFINE above == IF "H" \in s.f \/ Nibble(s.a) > 9 THEN s.a + 6 ELSE s.a
    <3>1. above = low
      BY <1>3, <1>4
    <3>2. g = IF "C" \in s.f \/ above > 159 THEN above + 96 ELSE above
      BY <1>4
    <3> HIDE DEF above, low, g
    <3> QED BY <1>4, <3>1, <3>2
  <2>3. q = [s EXCEPT !.a = g % 256,
                      !.f = (@ \cap {"N"}) \cup Flags(g % 256 = 0, FALSE, FALSE, "C" \in @ \/ g >= 256)]
    BY DEF alu_daa, q
  <2> HIDE DEF g, fixed, low
  <2>1. q = [s EXCEPT !.a = fixed % 256, !.f = f]
    BY <1>5, <2>0, <2>3 DEF RegFields
  <2>2. "C" \in f <=> (sum > 255 \/ fixed >= 256)
    BY <1>4 DEF Flags, When
  <2> HIDE DEF f, fixed
  <2> QED BY <1>5, <2>1, <2>2 DEF RegFields
<1>7. /\ ah \in 0..9 /\ vh \in 0..9 /\ al \in 0..9 /\ vl \in 0..9
      /\ r.a = 16 * ah + al /\ v = 16 * vh + vl
  BY <1>1, DigitsOf DEF IsDecimal
<1>8. n = 10 * h + l
  <2>1. Tens(r.a) = ah * 10 + al /\ Tens(v) = vh * 10 + vl
    BY DEF Tens
  <2> HIDE DEF ah, al, vh, vl, c
  <2> QED BY <1>1, <1>7, <2>1
<1> HIDE DEF ah, al, vh, vl, c
<1>9. h \in 0..18 /\ l \in 0..19 /\ sum = 16 * h + l /\ half = l
  BY <1>1, <1>7
<1> HIDE DEF h, l, sum, half, q, n
<1>10. fixed % 256 = ((n % 100) \div 10) * 16 + ((n % 100) % 10) /\ ((sum > 255 \/ fixed >= 256) <=> n > 99)
  BY <1>8, <1>9, SumOfDigits DEF Nibble
<1> HIDE DEF fixed
<1>11. q.a = AsDecimal(n % 100) /\ ("C" \in q.f <=> n > 99)
  BY <1>6, <1>10 DEF AsDecimal
<1> QED BY <1>11 DEF q, n, s, c

LEMMA DaaOfDifference ==
  ASSUME NEW r \in Registers, NEW v \in Byte, NEW w \in BOOLEAN, IsDecimal(r.a), IsDecimal(v)
  PROVE  LET q == alu_daa(alu_sub(r, v, w))
             n == Tens(r.a) - Tens(v) - (IF w THEN CarryIn(r) ELSE 0)
         IN  /\ q.a = AsDecimal(n % 100) /\ (("C" \in q.f) <=> n < 0)
             /\ n \in Int /\ n <= 99
<1> DEFINE c == IF w THEN CarryIn(r) ELSE 0
           ah == r.a \div 16
           al == Nibble(r.a)
           vh == v \div 16
           vl == Nibble(v)
           h == ah - vh
           l == al - vl - c
           s == alu_sub(r, v, w)
           diff == r.a - v - c
           half == al - vl - c
           x == diff % 256
           q == alu_daa(s)
           n == Tens(r.a) - Tens(v) - c
<1>1. c \in {0, 1} /\ r.a \in Byte /\ r \in Registers /\ DOMAIN r = RegFields
  BY CarryIs, RegistersAre
<1>2. s = [r EXCEPT !.a = x, !.f = Flags(x = 0, TRUE, half < 0, diff < 0)]
  BY DEF alu_sub
<1>3. s.a = x /\ s.f = Flags(x = 0, TRUE, half < 0, diff < 0)
  BY <1>1, <1>2 DEF RegFields
<1>4. "N" \in s.f /\ ("H" \in s.f <=> half < 0) /\ ("C" \in s.f <=> diff < 0)
  BY <1>3 DEF Flags, When
<1>5. DOMAIN s = RegFields
  BY <1>1, <1>2
<1> HIDE DEF s
<1> DEFINE fixed == (IF half < 0 THEN (x - 6) % 256 ELSE x) - (IF diff < 0 THEN 96 ELSE 0)
<1>6. q.a = fixed % 256 /\ ("C" \in q.f <=> (diff < 0 \/ fixed >= 256))
  <2> DEFINE f == (s.f \cap {"N"}) \cup Flags(fixed % 256 = 0, FALSE, FALSE, "C" \in s.f \/ fixed >= 256)
  <2> DEFINE g == IF "N" \in s.f
                  THEN (IF "H" \in s.f THEN (s.a - 6) % 256 ELSE s.a) - (IF "C" \in s.f THEN 96 ELSE 0)
                  ELSE LET above == IF "H" \in s.f \/ Nibble(s.a) > 9 THEN s.a + 6 ELSE s.a
                       IN  IF "C" \in s.f \/ above > 159 THEN above + 96 ELSE above
  <2> HIDE DEF c, diff, half, x, q, n
  <2>0. g = fixed
    BY <1>3, <1>4
  <2>3. q = [s EXCEPT !.a = g % 256,
                      !.f = (@ \cap {"N"}) \cup Flags(g % 256 = 0, FALSE, FALSE, "C" \in @ \/ g >= 256)]
    BY DEF alu_daa, q
  <2> HIDE DEF g, fixed
  <2>1. q = [s EXCEPT !.a = fixed % 256, !.f = f]
    BY <1>5, <2>0, <2>3 DEF RegFields
  <2>2. "C" \in f <=> (diff < 0 \/ fixed >= 256)
    BY <1>4 DEF Flags, When
  <2> HIDE DEF f, fixed
  <2> QED BY <1>5, <2>1, <2>2 DEF RegFields
<1>7. /\ ah \in 0..9 /\ vh \in 0..9 /\ al \in 0..9 /\ vl \in 0..9
      /\ r.a = 16 * ah + al /\ v = 16 * vh + vl
  BY <1>1, DigitsOf DEF IsDecimal
<1>8. n = 10 * h + l
  <2>1. Tens(r.a) = ah * 10 + al /\ Tens(v) = vh * 10 + vl
    BY DEF Tens
  <2> HIDE DEF ah, al, vh, vl, c
  <2> QED BY <1>1, <1>7, <2>1
<1> HIDE DEF ah, al, vh, vl, c
<1>9. h \in -9..9 /\ l \in -10..9 /\ diff = 16 * h + l /\ half = l
  BY <1>1, <1>7
<1> HIDE DEF h, l, diff, half, q, n
<1>10. /\ fixed % 256 = ((n % 100) \div 10) * 16 + ((n % 100) % 10)
       /\ ((diff < 0 \/ fixed >= 256) <=> n < 0) /\ n \in Int /\ n <= 99
  BY <1>8, <1>9, DifferenceOfDigits
<1> HIDE DEF fixed
<1>11. q.a = AsDecimal(n % 100) /\ ("C" \in q.f <=> n < 0) /\ n \in Int /\ n <= 99
  BY <1>6, <1>10 DEF AsDecimal
<1> QED BY <1>11 DEF q, n, s, c

\* What DAA makes of the registers is what the last addition or subtraction asked for.
DaaOK(s) ==
  s.decimal.due => /\ alu_daa(s.reg).a = s.decimal.a
                   /\ ("C" \in alu_daa(s.reg).f) = s.decimal.carry

LEMMA DecimalIs ==
  ASSUME NEW r \in Registers, NEW y \in 0..7, NEW v \in Byte, DecimalAfter(r, y, v).due
  PROVE  LET d == DecimalAfter(r, y, v)
             q == alu_daa(Alu(r, y, v))
         IN  q.a = d.a /\ ("C" \in q.f) = d.carry
<1> DEFINE d == DecimalAfter(r, y, v)
           q == alu_daa(Alu(r, y, v))
           c == IF y \in {1, 3} THEN CarryIn(r) ELSE 0
           n == IF y < 2 THEN Tens(r.a) + Tens(v) + c ELSE Tens(r.a) - Tens(v) - c
<1>1. y \in {0, 1, 2, 3} /\ IsDecimal(r.a) /\ IsDecimal(v) /\ d.a = AsDecimal(n % 100)
      /\ d.carry = (n < 0 \/ n > 99)
  <2>1. DecimalAfter(r, y, v) = IF y < 4 /\ IsDecimal(r.a) /\ IsDecimal(v)
                                THEN [due |-> TRUE, a |-> AsDecimal(n % 100), carry |-> n < 0 \/ n > 99]
                                ELSE NoDecimal
    BY DEF DecimalAfter
  <2> HIDE DEF n
  <2>2. ~NoDecimal.due
    BY DEF NoDecimal
  <2>3. y < 4 /\ IsDecimal(r.a) /\ IsDecimal(v)
    BY <2>1, <2>2
  <2> QED BY <2>1, <2>3
<1>2. Tens(r.a) \in Nat /\ Tens(v) \in Nat /\ CarryIn(r) \in {0, 1}
  <2>1. r.a \in Byte
    BY RegistersAre
  <2>2. \A x \in Byte : Tens(x) \in Nat
    BY DigitsOf DEF Tens
  <2> QED BY <2>1, <2>2, CarryIs
<1> HIDE DEF d
<1> HIDE DEF q, n, c
<1>3. q.a = AsDecimal(n % 100) /\ (("C" \in q.f) <=> (n < 0 \/ n > 99))
  <2>1. CASE y = 0
    <3> DEFINE x == Tens(r.a) + Tens(v) + 0
               t == alu_daa(alu_add(r, v, FALSE))
    <3>1. q = t /\ n = x
      BY <1>2, <2>1 DEF Alu, q, n, c
    <3>2. t.a = AsDecimal(x % 100) /\ ("C" \in t.f <=> x > 99)
      BY <1>1, DaaOfSum
    <3> HIDE DEF t
    <3>3. x \in Int /\ x >= 0
      BY <1>2
    <3> HIDE DEF x
    <3> QED BY <3>1, <3>2, <3>3
  <2>2. CASE y = 1
    <3> DEFINE x == Tens(r.a) + Tens(v) + CarryIn(r)
               t == alu_daa(alu_add(r, v, TRUE))
    <3>1. q = t /\ n = x
      BY <1>2, <2>2 DEF Alu, q, n, c
    <3>2. t.a = AsDecimal(x % 100) /\ ("C" \in t.f <=> x > 99)
      BY <1>1, DaaOfSum
    <3> HIDE DEF t
    <3>3. x \in Int /\ x >= 0
      BY <1>2
    <3> HIDE DEF x
    <3> QED BY <3>1, <3>2, <3>3
  <2>3. CASE y = 2
    <3> DEFINE x == Tens(r.a) - Tens(v) - 0
               t == alu_daa(alu_sub(r, v, FALSE))
    <3>1. q = t /\ n = x
      BY <1>2, <2>3 DEF Alu, q, n, c
    <3>2. t.a = AsDecimal(x % 100) /\ ("C" \in t.f <=> x < 0) /\ x \in Int /\ x <= 99
      BY <1>1, DaaOfDifference
    <3> HIDE DEF t
    <3>3. x \in Int
      BY <1>2
    <3> HIDE DEF x
    <3> QED BY <3>1, <3>2, <3>3
  <2>4. CASE y = 3
    <3> DEFINE x == Tens(r.a) - Tens(v) - CarryIn(r)
               t == alu_daa(alu_sub(r, v, TRUE))
    <3>1. q = t /\ n = x
      BY <1>2, <2>4 DEF Alu, q, n, c
    <3>2. t.a = AsDecimal(x % 100) /\ ("C" \in t.f <=> x < 0) /\ x \in Int /\ x <= 99
      BY <1>1, DaaOfDifference
    <3> HIDE DEF t
    <3>3. x \in Int
      BY <1>2
    <3> HIDE DEF x
    <3> QED BY <3>1, <3>2, <3>3
  <2> QED BY <1>1, <2>1, <2>2, <2>3, <2>4
<1>4. q.a = d.a /\ ("C" \in q.f) = d.carry
  BY <1>1, <1>3
<1> QED BY <1>4 DEF d, q

-----------------------------------------------------------------------------
(* An instruction from its fetch to its end.                               *)

\* Reads of the CPU.
LEMMA ReadIs ==
  ASSUME NEW s, CpuOK(s)
  PROVE  /\ Byte0(s) \in Byte /\ Word0(s) \in Word /\ Top(s) \in Word
         /\ \A a \in Word : Read(s, a) \in Byte
<1>1. MmuOK(s.mmu) /\ s.reg.pc \in Int /\ s.reg.sp \in Int
  BY RegistersAre, WordIs DEF CpuOK
<1>2. \A a \in Int : rb(s.mmu, a) \in Byte
  BY <1>1, MmuRead
<1>3. ASSUME NEW a \in Int PROVE rw(s.mmu, a) \in Word
  <2>1. a + 1 \in Int
    OBVIOUS
  <2>2. Wrap16(a + 1) \in Int
    BY <2>1, Wrapped, WordIs
  <2>3. rb(s.mmu, Wrap16(a + 1)) \in Byte /\ rb(s.mmu, a) \in Byte
    BY <1>2, <2>2
  <2> QED BY <2>3, Bytes2 DEF rw
<1> QED BY <1>1, <1>2, <1>3, WordIs DEF Byte0, Word0, Top, Read

LEMMA FetchedGoes ==
  ASSUME NEW s, CpuOK(s)
  PROVE  Goes(s, Fetched(s)) /\ Fetched(s).reg.a = s.reg.a /\ Fetched(s).reg.f = s.reg.f
<1>1. CASE s.halt_bug
  <2> DEFINE u == [s EXCEPT !.halt_bug = FALSE]
  <2>1. Fetched(s) = u
    BY <1>1 DEF Fetched
  <2>2. Goes(s, u) /\ u.reg = s.reg
    BY DEF CpuOK, CpuFields, Goes, Kept
  <2> HIDE DEF u
  <2> QED BY <2>1, <2>2
<1>2. CASE ~s.halt_bug
  <2>1. Fetched(s) = Skip(s, 1)
    BY <1>2 DEF Fetched
  <2>2. Goes(s, Skip(s, 1))
    BY Begin, SkipGoes
  <2>3. Skip(s, 1).reg.a = s.reg.a /\ Skip(s, 1).reg.f = s.reg.f
    BY RegistersAre DEF Skip, Jump, CpuOK, CpuFields, RegFields
  <2> QED BY <2>1, <2>2, <2>3
<1> QED BY <1>1, <1>2

LEMMA AddressIs ==
  ASSUME NEW r \in Registers, NEW op \in Byte, NEW nn \in Word
  PROVE  Address(r, op, nn) \in Word
<1> DEFINE k == op \div 16
           lo == Lo(nn)
<1>1. lo \in Byte /\ r.c \in Byte
  BY Halves, RegistersAre
<1>2. HighPage(lo) \in Word /\ HighPage(r.c) \in Word
  BY <1>1, ByteIs, WordIs DEF HighPage
<1>3. HL(r) \in Word
  BY PairsAre
<1>4. op < 64 => k \in 0..3
  BY ByteIs
<1>5. op < 64 => Pointer(r, k) \in Word
  BY <1>4, OperandPairs
<1> HIDE DEF lo, k
<1>6. op < 64 => Address(r, op, nn) \in {Pointer(r, k), HL(r)}
  BY DEF Address, k
<1>7. op >= 64 => Address(r, op, nn) \in {HighPage(lo), HighPage(r.c), nn, HL(r)}
  BY ByteIs DEF Address, lo
<1> QED BY <1>2, <1>3, <1>5, <1>6, <1>7, ByteIs

\* Every opcode from 0xC0.
HighRuns(s, t, y, z) ==
  /\ CpuOK(t) /\ t.opcode = s.opcode
  /\ ~(z = 1 /\ y = 3) /\ ~(z = 3 /\ y = 7) => t.ime = s.ime /\ t.setei = s.setei
  /\ \/ t.decimal = s.decimal
     \/ \E r \in Registers, v \in Byte :
          t.reg = Alu(r, y, v) /\ t.decimal = DecimalAfter(r, y, v)

LEMMA HighIs ==
  ASSUME NEW s, CpuOK(s), NEW y \in 0..7, NEW z \in 0..7, NEW nn \in Word, NEW m \in Byte,
         NEW top \in Word
  PROVE  HighRuns(s, High(s, y, z, nn, m, top), y, z)
<1> DEFINE t == High(s, y, z, nn, m, top)
           P(h) == HighRuns(s, h, y, z)
<1> SUFFICES P(t)
  OBVIOUS
<1>1. ASSUME z = 1 /\ y = 3 PROVE P(t)
  <2> DEFINE u == Return(s, top, 16)
             h == [u EXCEPT !.ime = TRUE]
  <2>1. t = h
    BY <1>1 DEF High
  <2>2. Goes(s, u)
    BY Begin, CallGoes
  <2> HIDE DEF u
  <2>3. CpuOK(h) /\ h.opcode = u.opcode /\ h.decimal = u.decimal
    BY <2>2, ReturnsOpen DEF Goes
  <2> HIDE DEF t, h
  <2> QED BY <1>1, <2>1, <2>2, <2>3 DEF Goes, Kept, HighRuns
<1>2. ASSUME z = 3 /\ y = 7 PROVE P(t)
  <2> DEFINE u == [s EXCEPT !.setei = 2]
             h == Took(u, 4)
  <2>1. t = h
    BY <1>2 DEF High
  <2>2. CpuOK(u) /\ u.opcode = s.opcode /\ u.decimal = s.decimal
    BY EnablesLater
  <2> HIDE DEF u
  <2>3. Goes(u, h)
    BY <2>2, Begin, TookGoes
  <2> HIDE DEF t, h
  <2> QED BY <1>2, <2>1, <2>2, <2>3 DEF Goes, Kept, HighRuns
<1>3. ASSUME z = 6 PROVE P(t)
  <2> DEFINE u == Skip(s, 1)
             v == Lo(nn)
             h == WithByte(u, y, v)
  <2>1. t = h
    BY <1>3 DEF High
  <2>2. Goes(s, u) /\ v \in Byte
    BY Begin, SkipGoes, Halves
  <2> HIDE DEF u, v
  <2>3. CpuOK(u) /\ u.reg \in Registers
    BY <2>2 DEF Goes, CpuOK
  <2>4. /\ CpuOK(h) /\ h.ime = u.ime /\ h.setei = u.setei /\ h.opcode = u.opcode
        /\ h.reg = Alu(u.reg, y, v) /\ h.decimal = DecimalAfter(u.reg, y, v)
    BY <2>2, <2>3, WithByteIs
  <2> HIDE DEF t, h
  <2> QED BY <2>1, <2>2, <2>3, <2>4 DEF Goes, Kept, HighRuns
<1>4. ASSUME z # 6 /\ ~(z = 1 /\ y = 3) /\ ~(z = 3 /\ y = 7) PROVE P(t)
  <2>1. Goes(s, t)
    BY <1>4, HighGoes
  <2> HIDE DEF t
  <2> QED BY <1>4, <2>1 DEF Goes, Kept, HighRuns
<1> QED BY <1>1, <1>2, <1>3, <1>4

\* One instruction: the CPU stays in order; only EI and RETI touch ime and setei; what
\* is due of a DAA is what it will give; and DAA gives it.
LEMMA Executed ==
  ASSUME NEW s0, CpuOK(s0)
  PROVE  LET t == execute(s0)
         IN  /\ CpuOK(t) /\ DaaOK(t)
             /\ t.opcode \notin {251, 217} => t.ime = s0.ime /\ t.setei = s0.setei
             /\ t.opcode = 39 => /\ t.reg.a = alu_daa(s0.reg).a
                                 /\ t.reg.f = alu_daa(s0.reg).f
<1> DEFINE op  == Byte0(s0)
           s   == [Fetched(s0) EXCEPT !.opcode = op, !.decimal = NoDecimal]
           y   == (op \div 8) % 8
           z   == op % 8
           nn  == Word0(s)
           a   == Address(s.reg, op, nn)
           m   == Read(s, a)
           top == Top(s)
           t   == execute(s0)
           P(h) == /\ CpuOK(h) /\ DaaOK(h)
                   /\ h.opcode \notin {251, 217} => h.ime = s0.ime /\ h.setei = s0.setei
                   /\ h.opcode = 39 => /\ h.reg.a = alu_daa(s0.reg).a
                                       /\ h.reg.f = alu_daa(s0.reg).f
<1> SUFFICES P(t)
  OBVIOUS
<1>1. t = CASE op < 64          -> Low(s, y, z, nn, m)
            [] op = 118         -> HALT(s)
            [] 64 <= op /\ op < 128 /\ op # 118 -> Move(s, y, z, m)
            [] 128 <= op /\ op < 192 -> Arithmetic(s, y, z, m)
            [] op >= 192        -> High(s, y, z, nn, m, top)
  BY DEF execute
<1> HIDE DEF t
<1>2. op \in Byte /\ op \in Int /\ 0 <= op /\ op <= 255
  BY ReadIs, ByteIs
<1> HIDE DEF op
<1>3. y \in 0..7 /\ z \in 0..7
  BY <1>2
<1>4. op = 8 * ((op \div 64) * 8 + y) + z
  BY <1>2
<1>5. /\ CpuOK(s) /\ s.ime = s0.ime /\ s.setei = s0.setei /\ s.opcode = op
      /\ s.decimal = NoDecimal /\ s.reg.a = s0.reg.a /\ s.reg.f = s0.reg.f
  <2> DEFINE f == Fetched(s0)
  <2>1. Goes(s0, f) /\ f.reg.a = s0.reg.a /\ f.reg.f = s0.reg.f
    BY FetchedGoes
  <2> HIDE DEF f
  <2>2. s = [f EXCEPT !.opcode = op, !.decimal = NoDecimal]
    BY DEF f
  <2> HIDE DEF s
  <2>3. /\ DOMAIN s = CpuFields /\ s.reg = f.reg /\ s.mmu = f.mmu /\ s.setdi = f.setdi
        /\ s.setei = f.setei /\ s.ticks = f.ticks /\ s.store = f.store /\ s.ime = f.ime
        /\ s.opcode = op /\ s.decimal = NoDecimal
    BY <2>1, <2>2 DEF Goes, CpuOK, CpuFields
  <2> QED BY <2>1, <2>3 DEF Goes, CpuOK, Kept
<1> HIDE DEF s, y, z
<1>6. nn \in Word /\ top \in Word
  BY <1>5, ReadIs
<1> HIDE DEF nn, top
<1>7. a \in Word
  BY <1>2, <1>5, <1>6, AddressIs DEF CpuOK
<1> HIDE DEF a
<1>8. m \in Byte
  BY <1>5, <1>7, ReadIs
<1> HIDE DEF m
<1>9. ASSUME Goes(s, t), op # 39 PROVE P(t)
  <2>1. ~t.decimal.due
    BY <1>5, <1>9 DEF Goes, Kept, NoDecimal
  <2> QED BY <1>5, <1>9, <2>1 DEF Goes, Kept, DaaOK
<1>10. ASSUME op < 64 PROVE P(t)
  <2>1. t = Low(s, y, z, nn, m)
    BY <1>1, <1>2, <1>10
  <2>2. Goes(s, t)
    BY <1>3, <1>5, <1>6, <1>8, <2>1, LowGoes
  <2>3. ASSUME op = 39 PROVE P(t)
    <3>1. y = 4 /\ z = 7
      BY <2>3 DEF y, z
    <3>2. t = Took(WithReg(s, alu_daa(s.reg)), 4)
      BY <2>1, <3>1 DEF Low, OnA
    <3>3. t.reg = alu_daa(s.reg)
      BY <1>5, <3>2 DEF Took, WithReg, CpuOK, CpuFields
    <3>4. t.reg.a = alu_daa(s0.reg).a /\ t.reg.f = alu_daa(s0.reg).f
      BY <1>5, <3>3, DaaSees DEF CpuOK
    <3>5. ~t.decimal.due
      BY <1>5, <2>2 DEF Goes, Kept, NoDecimal
    <3> QED BY <1>5, <2>2, <3>4, <3>5 DEF Goes, Kept, DaaOK
  <2> QED BY <1>9, <2>2, <2>3
<1>11. ASSUME op = 118 PROVE P(t)
  <2>1. t = HALT(s)
    BY <1>1, <1>11
  <2>2. Goes(s, t)
    BY <1>5, <2>1, HaltGoes
  <2> QED BY <1>9, <1>11, <2>2
<1>12. ASSUME 64 <= op, op < 128, op # 118 PROVE P(t)
  <2>1. t = Move(s, y, z, m)
    BY <1>1, <1>2, <1>12
  <2>2. Goes(s, t)
    BY <1>3, <1>5, <1>8, <2>1, MoveGoes
  <2> QED BY <1>9, <1>12, <2>2
<1>13. ASSUME 128 <= op, op < 192 PROVE P(t)
  <2>1. t = Arithmetic(s, y, z, m)
    BY <1>1, <1>2, <1>13
  <2>2. Goes(s, t)
    BY <1>3, <1>5, <1>8, <2>1, ArithmeticGoes
  <2> QED BY <1>9, <1>13, <2>2
<1>14. ASSUME op >= 192 PROVE P(t)
  <2>1. t = High(s, y, z, nn, m, top)
    BY <1>1, <1>2, <1>14
  <2>5. HighRuns(s, t, y, z)
    BY <1>3, <1>5, <1>6, <1>8, <2>1, HighIs
  <2>2. /\ CpuOK(t) /\ t.opcode = s.opcode
        /\ ~(z = 1 /\ y = 3) /\ ~(z = 3 /\ y = 7) => t.ime = s.ime /\ t.setei = s.setei
        /\ \/ t.decimal = s.decimal
           \/ \E r \in Registers, v \in Byte :
                t.reg = Alu(r, y, v) /\ t.decimal = DecimalAfter(r, y, v)
    BY <2>5 DEF HighRuns
  <2>3. op \notin {251, 217} => ~(z = 1 /\ y = 3) /\ ~(z = 3 /\ y = 7)
    BY <1>2, <1>14 DEF y, z
  <2>4. DaaOK(t)
    <3>1. CASE t.decimal = s.decimal
      BY <1>5, <3>1 DEF NoDecimal, DaaOK
    <3>2. ASSUME NEW r \in Registers, NEW v \in Byte, t.reg = Alu(r, y, v),
                 t.decimal = DecimalAfter(r, y, v)
          PROVE  DaaOK(t)
      BY <1>3, <3>2, DecimalIs DEF DaaOK
    <3> QED BY <2>2, <3>1, <3>2
  <2> QED BY <1>5, <1>14, <2>2, <2>3, <2>4
<1> QED BY <1>2, <1>10, <1>11, <1>12, <1>13, <1>14

-----------------------------------------------------------------------------
(* A step of the machine: the delays, an interrupt, the clock.             *)

\* The delays of EI and DI.
LEMMA TimedIs ==
  ASSUME NEW s, CpuOK(s)
  PROVE  LET t == update_ime(s)
         IN  /\ CpuOK(t) /\ t.reg = s.reg /\ t.decimal = s.decimal /\ t.opcode = s.opcode
             /\ t.setei = (IF s.setei = 2 THEN 1 ELSE 0)
             /\ s.setei = 1 => t.ime = TRUE
             /\ s.setei # 1 /\ s.setdi = 1 => t.ime = FALSE
             /\ s.setei # 1 /\ s.setdi # 1 => t.ime = s.ime
<1> DEFINE t == update_ime(s)
           on == CASE s.setei = 1 -> TRUE
                   [] s.setei # 1 /\ s.setdi = 1 -> FALSE
                   [] OTHER -> s.ime
           di == IF s.setdi = 2 THEN 1 ELSE 0
           ei == IF s.setei = 2 THEN 1 ELSE 0
<1>1. t = [s EXCEPT !.setdi = di, !.setei = ei, !.ime = on]
  BY DEF update_ime, CpuOK, CpuFields
<1>2. /\ s.setei = 1 => on = TRUE
      /\ s.setei # 1 /\ s.setdi = 1 => on = FALSE
      /\ s.setei # 1 /\ s.setdi # 1 => on = s.ime
  OBVIOUS
<1>3. di \in {0, 1, 2} /\ ei \in {0, 1, 2}
  OBVIOUS
<1> HIDE DEF t, on, di, ei
<1>4. /\ DOMAIN t = CpuFields /\ t.reg = s.reg /\ t.mmu = s.mmu /\ t.setdi = di
      /\ t.setei = ei /\ t.ticks = s.ticks /\ t.store = s.store /\ t.ime = on
      /\ t.opcode = s.opcode /\ t.decimal = s.decimal
  BY <1>1 DEF CpuOK, CpuFields
<1>5. CpuOK(t)
  BY <1>3, <1>4 DEF CpuOK
<1> QED BY <1>2, <1>4, <1>5 DEF t, ei

LEMMA LeastBit ==
  ASSUME NEW S, S \subseteq 0..7, S # {}
  PROVE  Min(S) \in S
<1>1. \E x \in S : \A y \in S : x <= y
  <2>1. \/ 0 \in S \/ 1 \in S \/ 2 \in S \/ 3 \in S \/ 4 \in S \/ 5 \in S \/ 6 \in S \/ 7 \in S
    <3>1. PICK x \in S : TRUE
      OBVIOUS
    <3>2. x \in 0..7
      OBVIOUS
    <3>3. x \in {0, 1, 2, 3, 4, 5, 6, 7}
      BY <3>2
    <3> QED BY <3>1, <3>3
  <2>2. \A x \in S : x \in {0, 1, 2, 3, 4, 5, 6, 7}
    OBVIOUS
  <2> QED BY <2>1, <2>2
<1> QED BY <1>1 DEF Min

\* An interrupt is served: interrupts go off, PC is pushed.
LEMMA Served ==
  ASSUME NEW s, CpuOK(s), Dispatches(s)
  PROVE  LET t == handle_interrupts(s)
         IN  /\ CpuOK(t) /\ t.ime = FALSE /\ t.setei = s.setei
             /\ t.decimal = s.decimal /\ t.opcode = s.opcode
             /\ t.reg.a = s.reg.a /\ t.reg.f = s.reg.f
<1> DEFINE t == handle_interrupts(s)
           i == Min(Triggered(s))
           f == s.mmu.intf \ {i}
           taken == [[s EXCEPT !.halted = FALSE] EXCEPT !.ime = FALSE, !.mmu.intf = @ \ {i}]
           w == s.reg.pc
           v == Vector(i)
           u == push(taken, w)
           served == Took(Jump(u, v), 16)
           awake == [s EXCEPT !.halted = FALSE]
           off == [awake EXCEPT !.ime = FALSE]
<1>1. t = served
  <2>1. t = CASE (~s.ime /\ ~s.halted) \/ Triggered(s) = {} -> s
              [] Dispatches(s) -> served
              [] s.ime /\ Triggered(s) # {} /\ i >= 5 -> off
              [] OTHER -> awake
    BY DEF handle_interrupts
  <2>2. s.ime /\ Triggered(s) # {} /\ i < 5
    BY DEF Dispatches
  <2>3. ~(i >= 5)
    <3>1. Triggered(s) \subseteq 0..7
      BY DEF Triggered, CpuOK, MmuOK, MemoryOK
    <3>2. i \in 0..7
      BY <2>2, <3>1, LeastBit
    <3> HIDE DEF i
    <3> QED BY <2>2, <3>2
  <2> HIDE DEF t, served, i, off, awake
  <2> QED BY <2>1, <2>2, <2>3
<1> HIDE DEF awake, off
<1>2. w \in Word /\ MmuOK(s.mmu) /\ s.mmu.intf \subseteq 0..7
  BY RegistersAre DEF CpuOK, MmuOK, MemoryOK
<1>3. v \in Word
  <2>1. Triggered(s) \subseteq 0..7 /\ Triggered(s) # {}
    BY <1>2 DEF Triggered, Dispatches
  <2>2. i \in 0..7
    BY <2>1, LeastBit
  <2> HIDE DEF i
  <2> QED BY <2>2, WordIs DEF Vector
<1> HIDE DEF t, i, v
<1>11. t = Took(Jump(u, v), 16)
  BY <1>1
<1> HIDE DEF served
<1> DEFINE m == [s.mmu EXCEPT !.intf = f]
<1>4. MmuOK(m)
  <2>1. /\ DOMAIN m = MmuFields /\ m.intf = f /\ m.wram = s.mmu.wram /\ m.zram = s.mmu.zram
        /\ m.wrambank = s.mmu.wrambank /\ m.undocumented = s.mmu.undocumented
        /\ m.inte = s.mmu.inte /\ m.keypad = s.mmu.keypad /\ m.gbspeed = s.mmu.gbspeed
        /\ PartsSame(s.mmu, m) /\ TransferSame(s.mmu, m) /\ m.hdma = s.mmu.hdma
    BY <1>2 DEF MmuOK, MmuFields, PartsSame, TransferSame
  <2>2. f \subseteq 0..7
    BY <1>2
  <2> HIDE DEF m, f
  <2>3. PartsOK(m) /\ RowsOK(m) /\ TransferOK(m) /\ HdmaOK(m)
    BY <1>2, <2>1, SameOK
  <2>4. MemoryOK(m)
    BY <1>2, <2>1, <2>2 DEF MmuOK, MemoryOK
  <2> QED BY <2>1, <2>3, <2>4 DEF MmuOK
<1>5. /\ DOMAIN taken = CpuFields /\ taken.reg = s.reg /\ taken.mmu = m
      /\ taken.setdi = s.setdi /\ taken.setei = s.setei /\ taken.ticks = s.ticks
      /\ taken.store = s.store /\ taken.ime = FALSE /\ taken.opcode = s.opcode
      /\ taken.decimal = s.decimal
  BY DEF CpuOK, CpuFields
<1> HIDE DEF taken, m, w, f
<1>6. CpuOK(taken)
  BY <1>4, <1>5 DEF CpuOK
<1>7. Goes(taken, u) /\ u.reg.a = s.reg.a /\ u.reg.f = s.reg.f
  <2>1. Goes(taken, u)
    BY <1>2, <1>6, Begin, PushGoes
  <2> DEFINE sp == Wrap16(taken.reg.sp - 2)
             x == [taken EXCEPT !.reg.sp = sp]
  <2>2. u = WriteWide(x, sp, w)
    BY DEF push
  <2> HIDE DEF sp
  <2>3. DOMAIN x = CpuFields /\ x.reg.a = s.reg.a /\ x.reg.f = s.reg.f
    BY <1>5, <1>6, RegistersAre DEF CpuOK, CpuFields, RegFields
  <2> HIDE DEF x, u
  <2>4. u.reg = x.reg
    BY <2>2, <2>3 DEF WriteWide, CpuFields
  <2> QED BY <2>1, <2>3, <2>4 DEF u
<1> HIDE DEF u
<1>8. Goes(taken, Jump(u, v)) /\ Jump(u, v).reg.a = s.reg.a /\ Jump(u, v).reg.f = s.reg.f
  <2>1. Goes(taken, Jump(u, v))
    BY <1>3, <1>7, JumpGoes
  <2>2. DOMAIN u = CpuFields /\ DOMAIN u.reg = RegFields
    BY <1>7, RegistersAre DEF Goes, CpuOK
  <2> QED BY <1>7, <2>1, <2>2 DEF Jump, CpuFields, RegFields
<1> DEFINE j == Jump(u, v)
<1> HIDE DEF j
<1>12. Goes(taken, j)
  BY <1>8 DEF j
<1>9. Goes(taken, Took(j, 16)) /\ Took(j, 16).reg = j.reg
  <2>1. Goes(taken, Took(j, 16))
    BY <1>12, TookGoes
  <2>2. DOMAIN j = CpuFields
    BY <1>12 DEF Goes, CpuOK
  <2> QED BY <2>1, <2>2 DEF Took, CpuFields
<1>10. Goes(taken, t) /\ t.reg.a = s.reg.a /\ t.reg.f = s.reg.f
  BY <1>8, <1>9, <1>11 DEF j
<1> QED BY <1>5, <1>10 DEF Goes, Kept, t

\* None is served: the CPU may wake, and interrupts may go off.
LEMMA NotServed ==
  ASSUME NEW s, CpuOK(s), ~Dispatches(s)
  PROVE  LET t == handle_interrupts(s)
         IN  /\ CpuOK(t) /\ t.ime \in {s.ime, FALSE} /\ t.setei = s.setei
             /\ t.decimal = s.decimal /\ t.opcode = s.opcode /\ t.reg = s.reg
<1> DEFINE t == handle_interrupts(s)
           awake == [s EXCEPT !.halted = FALSE]
           off == [awake EXCEPT !.ime = FALSE]
<1>1. t = s \/ t = awake \/ t = off
  BY DEF handle_interrupts
<1> HIDE DEF t
<1>2. /\ CpuOK(awake) /\ awake.ime = s.ime /\ awake.setei = s.setei
      /\ awake.decimal = s.decimal /\ awake.opcode = s.opcode /\ awake.reg = s.reg
  BY DEF CpuOK, CpuFields
<1> HIDE DEF awake
<1>3. /\ CpuOK(off) /\ off.ime = FALSE /\ off.setei = awake.setei
      /\ off.decimal = awake.decimal /\ off.opcode = awake.opcode /\ off.reg = awake.reg
  BY <1>2 DEF CpuOK, CpuFields
<1> HIDE DEF off
<1> QED BY <1>1, <1>2, <1>3 DEF t

\* The machine outside the CPU runs on: the CPU is left alone.
LEMMA ClockedIs ==
  ASSUME NEW s, CpuOK(s)
  PROVE  LET t == Clocked(s) IN CpuOK(t) /\ Kept(s, t) /\ t.reg = s.reg
<1> DEFINE t == Clocked(s)
           c == Committed(s)
           m == AllWritten(s.mmu, s.store)
           n == do_cycle(m, s.ticks)
<1>1. MmuOK(m)
  BY WritesDone DEF CpuOK
<1>2. MmuOK(n)
  BY <1>1, Cycled DEF CpuOK
<1>3. c = [s EXCEPT !.mmu = m, !.store = <<>>]
  BY DEF Committed, CpuOK, CpuFields
<1>4. t = [c EXCEPT !.mmu = do_cycle(@, c.ticks)]
  BY DEF Clocked
<1> HIDE DEF t, c, m
<1>5. DOMAIN c = CpuFields /\ c.mmu = m /\ c.ticks = s.ticks
  BY <1>3 DEF CpuOK, CpuFields
<1>6. t = [s EXCEPT !.mmu = n, !.store = <<>>]
  BY <1>3, <1>4, <1>5 DEF CpuOK, CpuFields
<1> HIDE DEF n
<1>7. /\ DOMAIN t = CpuFields /\ t.reg = s.reg /\ t.mmu = n /\ t.setdi = s.setdi
      /\ t.setei = s.setei /\ t.ticks = s.ticks /\ t.store = <<>> /\ Kept(s, t)
  BY <1>6 DEF CpuOK, CpuFields, Kept
<1>8. <<>> \in Seq(Word \X Byte)
  OBVIOUS
<1>9. CpuOK(t)
  BY <1>2, <1>7, <1>8 DEF CpuOK
<1> QED BY <1>7, <1>9 DEF t

\* Part of the machine replaced between steps.
LEMMA MmuGiven ==
  ASSUME NEW s, CpuOK(s), NEW m, MmuOK(m), NEW t, t = [s EXCEPT !.mmu = m]
  PROVE  CpuOK(t) /\ Kept(s, t) /\ t.setdi = s.setdi /\ t.reg = s.reg
<1>1. /\ DOMAIN t = CpuFields /\ t.reg = s.reg /\ t.mmu = m /\ t.setdi = s.setdi
      /\ t.setei = s.setei /\ t.ticks = s.ticks /\ t.store = s.store /\ Kept(s, t)
  BY DEF CpuOK, CpuFields, Kept
<1> QED BY <1>1 DEF CpuOK

\* A key goes down, and the main loop takes the picture.
LEMMA KeyGiven ==
  ASSUME NEW s, CpuOK(s)
  PROVE  LET t == [s EXCEPT !.mmu.keypad = {4}]
         IN  CpuOK(t) /\ Kept(s, t) /\ t.setdi = s.setdi /\ t.reg = s.reg
<1> DEFINE m == [s.mmu EXCEPT !.keypad = {4}]
           t == [s EXCEPT !.mmu.keypad = {4}]
<1>1. MmuOK(s.mmu)
  BY DEF CpuOK
<1>2. /\ DOMAIN m = MmuFields /\ m.keypad = {4} /\ m.wram = s.mmu.wram /\ m.zram = s.mmu.zram
      /\ m.wrambank = s.mmu.wrambank /\ m.undocumented = s.mmu.undocumented
      /\ m.inte = s.mmu.inte /\ m.intf = s.mmu.intf /\ m.gbspeed = s.mmu.gbspeed
      /\ PartsSame(s.mmu, m) /\ TransferSame(s.mmu, m) /\ m.hdma = s.mmu.hdma
  BY <1>1 DEF MmuOK, MmuFields, PartsSame, TransferSame
<1>3. t = [s EXCEPT !.mmu = m]
  BY DEF CpuOK, CpuFields
<1> HIDE DEF m, t
<1>4. PartsOK(m) /\ RowsOK(m) /\ TransferOK(m) /\ HdmaOK(m)
  BY <1>1, <1>2, SameOK
<1>5. MemoryOK(m)
  BY <1>1, <1>2 DEF MmuOK, MemoryOK
<1>6. MmuOK(m)
  BY <1>2, <1>4, <1>5 DEF MmuOK
<1>7. CpuOK(t) /\ Kept(s, t) /\ t.setdi = s.setdi /\ t.reg = s.reg
  BY <1>3, <1>6, MmuGiven
<1> QED BY <1>7 DEF t

LEMMA PictureTaken ==
  ASSUME NEW s, CpuOK(s)
  PROVE  LET t == [s EXCEPT !.mmu.gpu.updated = FALSE, !.mmu.mbc = check_and_reset_ram_updated(@)]
         IN  CpuOK(t) /\ Kept(s, t) /\ t.setdi = s.setdi /\ t.reg = s.reg
<1> DEFINE g == [s.mmu.gpu EXCEPT !.updated = FALSE]
           c == check_and_reset_ram_updated(s.mmu.mbc)
           m == [s.mmu EXCEPT !.gpu = g, !.mbc = c]
           t == [s EXCEPT !.mmu.gpu.updated = FALSE, !.mmu.mbc = check_and_reset_ram_updated(@)]
<1>1. MmuOK(s.mmu) /\ GpuOK(s.mmu.gpu) /\ MbcOK(s.mmu.mbc) /\ DOMAIN s.mmu = MmuFields
  BY DEF CpuOK, MmuOK, PartsOK
<1>2. GpuOK(g) /\ MbcOK(c)
  BY <1>1, FlagsReset, SavedFlagReset
<1>3. g.gbmode = s.mmu.gpu.gbmode /\ g.lcdc = s.mmu.gpu.lcdc /\ g.hblanking = s.mmu.gpu.hblanking
  BY <1>1 DEF GpuOK, GpuFields
<1>4. t = [s EXCEPT !.mmu = m]
  BY <1>1 DEF CpuOK, CpuFields, MmuFields
<1> HIDE DEF t, g, c
<1>5. /\ DOMAIN m = MmuFields /\ m.gpu = g /\ m.mbc = c /\ m.serial = s.mmu.serial
      /\ m.timer = s.mmu.timer /\ m.gbmode = s.mmu.gbmode /\ m.rows = s.mmu.rows
      /\ MemorySame(s.mmu, m) /\ TransferSame(s.mmu, m) /\ m.hdma = s.mmu.hdma
  BY <1>1 DEF MmuFields, MemorySame, TransferSame
<1> HIDE DEF m
<1>6. MemoryOK(m) /\ TransferOK(m) /\ HdmaOK(m)
  BY <1>1, <1>5, SameOK
<1>7. PartsOK(m)
  BY <1>1, <1>2, <1>3, <1>5 DEF MmuOK, PartsOK
<1>8. RowsOK(m)
  BY <1>1, <1>3, <1>5 DEF MmuOK, RowsOK, LcdOn
<1>9. MmuOK(m)
  BY <1>5, <1>6, <1>7, <1>8 DEF MmuOK
<1>10. CpuOK(t) /\ Kept(s, t) /\ t.setdi = s.setdi /\ t.reg = s.reg
  BY <1>4, <1>9, MmuGiven
<1> QED BY <1>10 DEF t

-----------------------------------------------------------------------------
(* The machine.                                                            *)

\* At power on.
LEMMA InitialWritesAre == InitialWrites \in Seq(Word \X Byte)
<1> DEFINE S == Word \X Byte
           p1 == <<65285, 0>>
           p2 == <<65286, 0>>
           p3 == <<65287, 0>>
           p4 == <<65344, 145>>
           p5 == <<65346, 0>>
           p6 == <<65347, 0>>
           p7 == <<65349, 0>>
           p8 == <<65351, 252>>
           p9 == <<65352, 255>>
           p10 == <<65353, 255>>
           p11 == <<65354, 0>>
           p12 == <<65355, 0>>
<1>1. /\ p1 \in S /\ p2 \in S /\ p3 \in S /\ p4 \in S /\ p5 \in S /\ p6 \in S
      /\ p7 \in S /\ p8 \in S /\ p9 \in S /\ p10 \in S /\ p11 \in S /\ p12 \in S
  BY WordIs, ByteIs
<1>2. InitialWrites = <<p1, p2, p3, p4, p5, p6, p7, p8, p9, p10, p11, p12>>
  BY DEF InitialWrites
<1> HIDE DEF p1, p2, p3, p4, p5, p6, p7, p8, p9, p10, p11, p12, S
<1>3. <<p1, p2, p3, p4, p5, p6, p7, p8, p9, p10, p11, p12>> \in Seq(S)
  BY <1>1
<1> QED BY <1>2, <1>3 DEF S

LEMMA PoweredOn ==
  ASSUME NEW data \in Cartridges, get_mbc(data) = "Ok"
  PROVE  LET s == new_cgb(data)
         IN  CpuOK(s) /\ s.decimal = NoDecimal
<1> DEFINE c == NewCartridge(data)
           mode == determine_mode(c)
           cpu == NewCpu(mode, c)
           r == NewRegisters("Color")
           n == NewMmu(mode, c)
           m == set_initial(n)
           s == new_cgb(data)
<1>1. MbcOK(c)
  BY CartridgeAssumption, NewCartridgeOK DEF Bytes
<1> HIDE DEF c, mode
<1>2. MmuOK(n)
  BY <1>1, NewMmuOK
<1>3. MmuOK(m)
  BY <1>2, InitialWritesAre, WritesDone DEF set_initial
<1>4. r \in Registers
  BY NewRegistersOK
<1>5. s = [cpu EXCEPT !.reg = r, !.mmu = set_initial(@)]
  BY DEF new_cgb, c, mode
<1>6. /\ DOMAIN cpu = CpuFields /\ cpu.mmu = n /\ cpu.setdi = 0 /\ cpu.setei = 0 /\ cpu.ticks = 0
      /\ cpu.store = <<>> /\ cpu.decimal = NoDecimal
  BY DEF NewCpu, CpuFields
<1> HIDE DEF s, cpu, r, m, n
<1>7. /\ DOMAIN s = CpuFields /\ s.reg = r /\ s.mmu = m /\ s.setdi = 0 /\ s.setei = 0 /\ s.ticks = 0
      /\ s.store = <<>> /\ s.decimal = NoDecimal
  BY <1>5, <1>6 DEF CpuFields, m
<1>8. <<>> \in Seq(Word \X Byte)
  OBVIOUS
<1>9. CpuOK(s)
  BY <1>3, <1>4, <1>7, <1>8 DEF CpuOK
<1> QED BY <1>7, <1>9 DEF s

\* What a picture unit in order says to a reader.
LEMMA GpuWithin ==
  ASSUME NEW g, GpuOK(g)
  PROVE  /\ g.modeclock \in 0..LineTicks - 1 /\ g.line \in 0..Lines - 1
         /\ g.wy_pos \in -1..VisibleLines
BY LinesAre DEF GpuOK, Registered, Scanning, WindowBehind, LineTicks

\* The inductive invariant: the machine in order, a DAA that gives what is due, and no
\* way to an interrupt while they are masked.
InOrder ==
  /\ CpuOK(gb) /\ DaaOK(gb) /\ keys \in Nat /\ returns \in Seq(Word)
  /\ masked => gb.ime = FALSE /\ gb.setei = 0

LEMMA Starts == Init => InOrder
<1> SUFFICES ASSUME Init PROVE InOrder
  OBVIOUS
<1>1. PICK data \in Cartridges : get_mbc(data) = "Ok" /\ gb = new_cgb(data) /\ keys = data.keys
  BY DEF Init
<1>2. CpuOK(gb) /\ gb.decimal = NoDecimal
  BY <1>1, PoweredOn
<1>3. DaaOK(gb)
  BY <1>2 DEF DaaOK, NoDecimal
<1>4. keys \in Nat
  BY <1>1, CartridgeAssumption
<1>5. returns \in Seq(Word) /\ masked = FALSE
  BY DEF Init
<1> QED BY <1>2, <1>3, <1>4, <1>5 DEF InOrder

\* While interrupts are masked the delays do not turn them on.
LEMMA StaysMasked ==
  ASSUME InOrder, MaskedNow
  PROVE  Timed.ime = FALSE /\ Timed.setei = 0
<1>1. CpuOK(gb) /\ (masked => gb.ime = FALSE /\ gb.setei = 0)
  BY DEF InOrder
<1> DEFINE t == update_ime(gb)
<1>2. /\ t.setei = (IF gb.setei = 2 THEN 1 ELSE 0)
      /\ gb.setei # 1 /\ gb.setdi = 1 => t.ime = FALSE
      /\ gb.setei # 1 /\ gb.setdi # 1 => t.ime = gb.ime
  BY <1>1, TimedIs
<1> HIDE DEF t
<1>3. gb.setei = 0 /\ (gb.setdi = 1 \/ gb.ime = FALSE)
  BY <1>1 DEF MaskedNow
<1>4. t.ime = FALSE /\ t.setei = 0
  BY <1>2, <1>3
<1> QED BY <1>4 DEF Timed, t

\* What MaskHolds and DaaCorrects say of a step.
MaskStep == Len(returns') > Len(returns) => ~MaskedNow
DaaStep ==
  gb.decimal.due /\ ~gb'.decimal.due /\ gb'.opcode = DAA =>
    gb'.reg.a = gb.decimal.a /\ ("C" \in gb'.reg.f) = gb.decimal.carry

\* A step that leaves A, the flags and what is due as they were keeps what DAA gives.
LEMMA DaaKept ==
  ASSUME NEW s, NEW t, CpuOK(s), CpuOK(t), DaaOK(s), t.decimal = s.decimal,
         t.reg.a = s.reg.a, t.reg.f = s.reg.f
  PROVE  DaaOK(t)
<1>1. s.reg \in Registers /\ t.reg \in Registers
  BY DEF CpuOK
<1>2. alu_daa(t.reg).a = alu_daa(s.reg).a /\ alu_daa(t.reg).f = alu_daa(s.reg).f
  BY <1>1, DaaSees
<1> QED BY <1>2 DEF DaaOK

LEMMA TimedOK ==
  ASSUME InOrder
  PROVE  CpuOK(Timed) /\ Timed.reg = gb.reg /\ Timed.decimal = gb.decimal /\ DaaOK(Timed)
<1> DEFINE t == update_ime(gb)
<1>1. CpuOK(gb) /\ DaaOK(gb)
  BY DEF InOrder
<1>2. CpuOK(t) /\ t.reg = gb.reg /\ t.decimal = gb.decimal
  BY <1>1, TimedIs
<1> HIDE DEF t
<1>3. DaaOK(t)
  BY <1>1, <1>2, DaaKept
<1> QED BY <1>2, <1>3 DEF Timed, t

LEMMA DispatchKeeps ==
  ASSUME InOrder, Dispatch
  PROVE  InOrder' /\ MaskStep /\ DaaStep
<1> DEFINE s == Timed
           h == handle_interrupts(s)
           c == Clocked(h)
<1>1. /\ Dispatches(s) /\ gb' = c /\ masked' = (s.setei = 0)
      /\ returns' = <<gb.reg.pc>> \o returns /\ keys' = keys
  BY DEF Dispatch
<1>2. CpuOK(s) /\ s.decimal = gb.decimal /\ DaaOK(s)
  BY TimedOK
<1> HIDE DEF s
<1>3. /\ CpuOK(h) /\ h.ime = FALSE /\ h.setei = s.setei /\ h.decimal = s.decimal
      /\ h.reg.a = s.reg.a /\ h.reg.f = s.reg.f
  BY <1>1, <1>2, Served
<1> HIDE DEF h
<1>4. CpuOK(c) /\ Kept(h, c) /\ c.reg = h.reg
  BY <1>3, ClockedIs
<1> HIDE DEF c
<1>5. CpuOK(gb') /\ gb'.ime = FALSE /\ gb'.setei = s.setei /\ gb'.decimal = gb.decimal
  BY <1>1, <1>2, <1>3, <1>4 DEF Kept
<1>6. DaaOK(gb')
  <2>1. DaaOK(c)
    BY <1>2, <1>3, <1>4, DaaKept DEF Kept
  <2> QED BY <1>1, <2>1
<1>7. returns' \in Seq(Word) /\ keys' \in Nat
  <2>1. gb.reg.pc \in Word /\ returns \in Seq(Word) /\ keys \in Nat
    BY RegistersAre DEF InOrder, CpuOK
  <2>2. <<gb.reg.pc>> \in Seq(Word)
    BY <2>1
  <2> QED BY <1>1, <2>1, <2>2
<1>8. InOrder'
  BY <1>1, <1>5, <1>6, <1>7 DEF InOrder
<1>9. MaskStep
  <2>1. s.ime
    BY <1>1 DEF Dispatches
  <2> QED BY <2>1, StaysMasked DEF MaskStep, s
<1>10. DaaStep
  BY <1>5 DEF DaaStep
<1> QED BY <1>8, <1>9, <1>10

LEMMA SleepKeeps ==
  ASSUME InOrder, Sleep
  PROVE  InOrder' /\ MaskStep /\ DaaStep
<1> DEFINE s == Timed
           h == Took(s, 4)
           c == Clocked(h)
<1>1. gb' = c /\ masked' = MaskedNow /\ returns' = returns /\ keys' = keys
  BY DEF Sleep
<1>2. CpuOK(s) /\ s.decimal = gb.decimal /\ DaaOK(s)
  BY TimedOK
<1>3. MaskedNow => s.ime = FALSE /\ s.setei = 0
  BY StaysMasked
<1> HIDE DEF s
<1>4. Goes(s, h) /\ h.reg = s.reg
  <2>1. Goes(s, h)
    BY <1>2, Begin, TookGoes
  <2> QED BY <1>2, <2>1 DEF Took, CpuOK, CpuFields
<1> HIDE DEF h
<1>5. CpuOK(c) /\ Kept(h, c) /\ c.reg = h.reg
  BY <1>4, ClockedIs DEF Goes
<1> HIDE DEF c
<1>6. /\ CpuOK(gb') /\ gb'.ime = s.ime /\ gb'.setei = s.setei /\ gb'.decimal = s.decimal
      /\ gb'.reg = s.reg
  BY <1>1, <1>4, <1>5 DEF Goes, Kept
<1>7. DaaOK(gb')
  <2>1. DaaOK(c)
    BY <1>1, <1>2, <1>6, DaaKept
  <2> QED BY <1>1, <2>1
<1>8. InOrder'
  BY <1>1, <1>3, <1>6, <1>7 DEF InOrder
<1>9. MaskStep
  <2>1. ~(Len(returns') > Len(returns))
    BY <1>1 DEF InOrder
  <2> QED BY <2>1 DEF MaskStep
<1>10. DaaStep
  BY <1>2, <1>6 DEF DaaStep
<1> QED BY <1>8, <1>9, <1>10

LEMMA ExecuteKeeps ==
  ASSUME InOrder, Execute
  PROVE  InOrder' /\ MaskStep /\ DaaStep
<1> DEFINE s == Timed
           h == handle_interrupts(s)
           e == execute(h)
           c == Clocked(e)
<1>1. /\ ~Dispatches(s) /\ gb' = c /\ masked' = (MaskedNow /\ gb'.opcode \notin {EI, RETI})
      /\ returns' = IF gb'.opcode = RETI /\ returns # <<>> THEN Tail(returns) ELSE returns
      /\ keys' = keys
  BY DEF Execute
<1>2. CpuOK(s) /\ s.reg = gb.reg /\ s.decimal = gb.decimal /\ DaaOK(s)
  BY TimedOK
<1>3. MaskedNow => s.ime = FALSE /\ s.setei = 0
  BY StaysMasked
<1> HIDE DEF s
<1>4. /\ CpuOK(h) /\ h.ime \in {s.ime, FALSE} /\ h.setei = s.setei
      /\ h.decimal = s.decimal /\ h.reg = s.reg
  BY <1>1, <1>2, NotServed
<1> HIDE DEF h
<1>5. /\ CpuOK(e) /\ DaaOK(e)
      /\ e.opcode \notin {251, 217} => e.ime = h.ime /\ e.setei = h.setei
      /\ e.opcode = 39 => e.reg.a = alu_daa(h.reg).a /\ e.reg.f = alu_daa(h.reg).f
  BY <1>4, Executed
<1> HIDE DEF e
<1>6. CpuOK(c) /\ Kept(e, c) /\ c.reg = e.reg
  BY <1>5, ClockedIs
<1> HIDE DEF c
<1>7. DaaOK(c)
  BY <1>5, <1>6, DaaKept DEF Kept
<1>8. masked' => gb'.ime = FALSE /\ gb'.setei = 0
  <2>1. ASSUME MaskedNow PROVE h.ime = FALSE /\ h.setei = 0
    BY <1>3, <1>4, <2>1
  <2>2. c.opcode \notin {EI, RETI} => c.ime = h.ime /\ c.setei = h.setei
    BY <1>5, <1>6 DEF Kept, EI, RETI
  <2>3. masked' => MaskedNow /\ c.opcode \notin {EI, RETI}
    BY <1>1
  <2>4. masked' => c.ime = FALSE /\ c.setei = 0
    BY <2>1, <2>2, <2>3
  <2> QED BY <1>1, <2>4
<1>9. returns' \in Seq(Word) /\ ~(Len(returns') > Len(returns))
  <2>1. returns \in Seq(Word)
    BY DEF InOrder
  <2>2. CASE returns' = returns
    BY <2>1, <2>2
  <2>3. CASE returns # <<>> /\ returns' = Tail(returns)
    <3>1. Tail(returns) \in Seq(Word) /\ Len(Tail(returns)) = Len(returns) - 1
      BY <2>1, <2>3
    <3> QED BY <2>1, <2>3, <3>1
  <2> QED BY <1>1, <2>2, <2>3
<1>10. InOrder'
  BY <1>1, <1>6, <1>7, <1>8, <1>9 DEF InOrder
<1>11. MaskStep
  BY <1>9 DEF MaskStep
<1>12. DaaStep
  <2>1. /\ gb.decimal.due => alu_daa(gb.reg).a = gb.decimal.a
                             /\ ("C" \in alu_daa(gb.reg).f) = gb.decimal.carry
    BY DEF InOrder, DaaOK
  <2>2. gb'.opcode = 39 => gb'.reg.a = alu_daa(gb.reg).a /\ gb'.reg.f = alu_daa(gb.reg).f
    BY <1>1, <1>2, <1>4, <1>5, <1>6 DEF Kept
  <2> QED BY <2>1, <2>2 DEF DaaStep, DAA
<1> QED BY <1>10, <1>11, <1>12

LEMMA OutsideKeeps ==
  ASSUME InOrder, Key \/ check_and_reset
  PROVE  InOrder' /\ MaskStep /\ DaaStep
<1>1. CpuOK(gb) /\ DaaOK(gb) /\ keys \in Nat /\ returns \in Seq(Word)
  BY DEF InOrder
<1>2. masked' = masked /\ returns' = returns /\ keys' \in Nat
  BY <1>1 DEF Key, check_and_reset
<1>3. CpuOK(gb') /\ Kept(gb, gb') /\ gb'.reg = gb.reg
  BY <1>1, KeyGiven, PictureTaken DEF Key, check_and_reset
<1>4. DaaOK(gb')
  <2> DEFINE t == gb'
  <2>1. CpuOK(t) /\ t.decimal = gb.decimal /\ t.reg = gb.reg
    BY <1>3 DEF Kept
  <2> HIDE DEF t
  <2>2. DaaOK(t)
    BY <1>1, <2>1, DaaKept
  <2> QED BY <2>2 DEF t
<1>5. InOrder'
  BY <1>1, <1>2, <1>3, <1>4 DEF InOrder, Kept
<1>6. MaskStep
  <2>1. ~(Len(returns') > Len(returns))
    BY <1>1, <1>2
  <2> QED BY <2>1 DEF MaskStep
<1>7. DaaStep
  BY <1>3 DEF DaaStep, Kept
<1> QED BY <1>5, <1>6, <1>7

LEMMA Keeps ==
  ASSUME InOrder, [Next]_vars
  PROVE  InOrder' /\ MaskStep /\ DaaStep
<1>1. CASE Dispatch
  BY <1>1, DispatchKeeps
<1>2. CASE Sleep
  BY <1>2, SleepKeeps
<1>3. CASE Execute
  BY <1>3, ExecuteKeeps
<1>4. CASE Key \/ check_and_reset
  BY <1>4, OutsideKeeps
<1>5. CASE UNCHANGED vars
  <2>1. gb' = gb /\ keys' = keys /\ masked' = masked /\ returns' = returns
    BY <1>5 DEF vars
  <2>2. InOrder'
    BY <2>1 DEF InOrder
  <2>3. ~(Len(returns') > Len(returns))
    BY <2>1 DEF InOrder
  <2>4. MaskStep /\ DaaStep
    BY <2>1, <2>3 DEF MaskStep, DaaStep
  <2> QED BY <2>2, <2>4
<1> QED BY <1>1, <1>2, <1>3, <1>4, <1>5 DEF Next, do_cycle_step

-----------------------------------------------------------------------------
(* The theorems.                                                           *)

\* In every reachable state the machine is in order, whatever the cartridge and the keys.
THEOREM MachineInOrder == Spec => []InOrder
<1>1. InOrder /\ [Next]_vars => InOrder'
  BY Keeps
<1> QED BY <1>1, Starts, PTL DEF Spec

\* What the parts of a machine in order say, property by property.
LEMMA InvariantsOfOrder ==
  ASSUME InOrder
  PROVE  /\ TypeOK /\ TimerKeepsPace /\ NoTornFrame /\ OneRowPerHBlank
         /\ BankedByRegisters /\ PeekIsRead
<1> DEFINE m == gb.mmu
<1>1. CpuOK(gb) /\ keys \in Nat
  BY DEF InOrder
<1>2. MmuOK(m)
  BY <1>1 DEF CpuOK
<1> HIDE DEF m
<1>3. /\ m.serial \in Serial /\ TimerOK(m.timer) /\ GpuOK(m.gpu) /\ MbcOK(m.mbc)
      /\ TransferOK(m) /\ RowsOK(m)
  BY <1>2 DEF MmuOK, PartsOK
<1>4. TypeOK
  <2>1. /\ m.gpu.modeclock \in 0..LineTicks - 1 /\ m.gpu.line \in 0..Lines - 1
        /\ m.gpu.wy_pos \in -1..VisibleLines
    BY <1>3, GpuWithin
  <2>2. gb.reg \in Registers /\ gb.setdi \in 0..2 /\ gb.setei \in 0..2
    BY <1>1 DEF CpuOK
  <2>3. m.timer \in Timer /\ m.hdma_src \in Word /\ m.hdma_dst \in Word
    BY <1>3 DEF TimerOK, TransferOK
  <2> QED BY <1>1, <1>3, <2>1, <2>2, <2>3 DEF TypeOK, m
<1>5. TimerKeepsPace
  <2>1. KeepsPace(m.timer.last)
    BY <1>3 DEF TimerOK
  <2> QED BY <2>1 DEF KeepsPace, TimerKeepsPace, m
<1>6. NoTornFrame
  <2>1. m.gpu.frame \in {"none", "blank", "whole"}
    BY <1>3 DEF GpuOK
  <2> QED BY <2>1 DEF NoTornFrame, m
<1>7. OneRowPerHBlank
  BY <1>3 DEF OneRowPerHBlank, RowsOK, TransferOK, m
<1>8. BankedByRegisters
  <2>1. BanksFollowRegisters(m.mbc)
    BY <1>3, BanksFollow
  <2> QED BY <2>1 DEF BankedByRegisters, m
<1>9. PeekIsRead
  <2>1. ASSUME NEW a \in PeekAddresses PROVE peek(m, a) = rb(m, a)
    <3>1. a \in Int /\ a # 65350
      BY PeekAssumption, WordIs
    <3> QED BY <1>2, <3>1, PeekIs
  <2> QED BY <2>1 DEF PeekIsRead, m
<1> QED BY <1>4, <1>5, <1>6, <1>7, <1>8, <1>9

\* The fields keep their widths (Cpu::execute, MMU::do_cycle).
THEOREM TypeCorrect == Spec => []TypeOK
<1> QED BY MachineInOrder, InvariantsOfOrder, PTL

\* TIMA counts no edge that did not happen, and each edge of a short step (Timer::do_cycle).
THEOREM PaceKept == Spec => []TimerKeepsPace
<1> QED BY MachineInOrder, InvariantsOfOrder, PTL

\* A frame is whole when VBlank comes, for every height of the screen (GPU::do_cycle).
THEOREM FramesAreWhole == Spec => []NoTornFrame
<1> QED BY MachineInOrder, InvariantsOfOrder, PTL

\* HDMA copies a row in an HBlank, and into video memory only (MMU::perform_hdma).
THEOREM RowByRow == Spec => []OneRowPerHBlank
<1> QED BY MachineInOrder, InvariantsOfOrder, PTL

\* The banks seen follow the registers, for every chip and every size of ROM (writerom).
THEOREM Banked == Spec => []BankedByRegisters
<1> QED BY MachineInOrder, InvariantsOfOrder, PTL

\* The overlay reads what the game reads, at every address but two (MMU::peek, MMU::rb).
THEOREM PeekReads == Spec => []PeekIsRead
<1> QED BY MachineInOrder, InvariantsOfOrder, PTL

\* No interrupt is served while they are masked (CPU::update_ime, handle_interrupts).
THEOREM Masks == Spec => MaskHolds
<1>1. InOrder /\ [Next]_vars => [Len(returns') > Len(returns) => ~MaskedNow]_vars
  BY Keeps DEF MaskStep
<1> QED BY <1>1, MachineInOrder, PTL DEF Spec, MaskHolds

\* DAA gives the decimal result, for all numbers (alu_add, alu_sub, alu_daa).
THEOREM DaaIsDecimal == Spec => DaaCorrects
<1>1. InOrder /\ [Next]_vars =>
        [gb.decimal.due /\ ~gb'.decimal.due /\ gb'.opcode = DAA =>
           gb'.reg.a = gb.decimal.a /\ ("C" \in gb'.reg.f) = gb.decimal.carry]_vars
  BY Keeps DEF DaaStep
<1> QED BY <1>1, MachineInOrder, PTL DEF Spec, DaaCorrects
=============================================================================
