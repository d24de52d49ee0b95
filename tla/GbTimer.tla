------------------------------- MODULE GbTimer -------------------------------
(***************************************************************************)
(* The timer (gameboy/timer.rs) and the serial port (gameboy/serial.rs).   *)
(* An operator takes the component's record and returns the new one.  The  *)
(* interrupt field is the set of the bits of IF the component has raised.  *)
(***************************************************************************)
EXTENDS GbBits

CONSTANT DivSize    \* where DIV wraps: 65536 in the code

ASSUME DivSizeAssumption ==
  DivSize \in {16, 32, 64, 128, 256, 512, 1024, 2048, 4096, 8192, 16384, 32768, 65536}

\* last is history: of the last step the cycles, half the period of the bit
\* that is watched, the edges that fell and the increments made.
NoTick == [cycles |-> 0, half |-> 8, edges |-> 0, counted |-> 0]
Timer == [div : 0..DivSize - 1, tima : Byte, tma : Byte, tac : 0..7,
          interrupt : SUBSET {2}, last : [{"cycles", "half", "edges", "counted"} -> Nat]]
NewTimer == [div |-> 0, tima |-> 0, tma |-> 0, tac |-> 0, interrupt |-> {}, last |-> NoTick]

TimerRb(t, a) == CASE a = 65284 -> (t.div \div 256) % 256
                   [] a = 65285 -> t.tima
                   [] a = 65286 -> t.tma
                   [] a = 65287 -> t.tac + 248

TimerWb(t, a, v) == CASE a = 65284 -> [t EXCEPT !.div = 0]
                      [] a = 65285 -> [t EXCEPT !.tima = v]
                      [] a = 65286 -> [t EXCEPT !.tma = v]
                      [] a = 65287 -> [t EXCEPT !.tac = v % 8]

TimerOn(t) == t.tac >= 4
\* The bit of DIV whose falling edge counts.
TacBit(t) == CASE t.tac % 4 = 0 -> 9
               [] t.tac % 4 = 1 -> 3
               [] t.tac % 4 = 2 -> 5
               [] t.tac % 4 = 3 -> 7

\* Mutant: the rising edge counts.
RisingEdge(t, cycles) ==
  /\ Bit(t.div, TacBit(t)) = 0
  /\ Bit((t.div + cycles) % DivSize, TacBit(t)) = 1

FallingEdge(t, cycles) ==
  /\ Bit(t.div, TacBit(t)) = 1
  /\ Bit((t.div + cycles) % DivSize, TacBit(t)) = 0

TickOf(t, cycles) ==
  LET period == 2 * Power(TacBit(t))
  IN  [cycles |-> cycles, half |-> Power(TacBit(t)),
       edges |-> (t.div + cycles) \div period - t.div \div period,
       counted |-> IF FallingEdge(t, cycles) THEN 1 ELSE 0]

TimerCycle(t, cycles) ==
  LET ticked  == [t EXCEPT !.div = (@ + cycles) % DivSize, !.last = NoTick]
      watched == [ticked EXCEPT !.last = TickOf(t, cycles)]
  IN  IF ~TimerOn(t) THEN ticked
      ELSE IF ~FallingEdge(t, cycles) THEN watched
      ELSE IF t.tima = 255 THEN [watched EXCEPT !.tima = t.tma, !.interrupt = {2}]
      ELSE [watched EXCEPT !.tima = @ + 1]
-----------------------------------------------------------------------------
\* Ticks that a byte takes on the serial line.
TransferTicks == 4096

Serial == [data : Byte, control : Byte, interrupt : SUBSET {3},
           transferring : BOOLEAN, cycles : 0..TransferTicks]
NewSerial == [data |-> 0, control |-> 0, interrupt |-> {}, transferring |-> FALSE, cycles |-> 0]

SerialRb(s, a) == IF a = 65281 THEN s.data ELSE Or8(s.control, 126)

\* A transfer starts only with the internal clock: bits 7 and 0.
SerialWb(s, a, v) ==
  IF a = 65281 THEN [s EXCEPT !.data = v]
  ELSE IF {0, 7} \subseteq BitsOf(v)
       THEN [s EXCEPT !.control = v, !.transferring = TRUE, !.cycles = TransferTicks]
       ELSE [s EXCEPT !.control = v]

\* No cable: the byte received is 255.
SerialCycle(s, cycles) ==
  IF ~s.transferring THEN s
  ELSE IF cycles < s.cycles THEN [s EXCEPT !.cycles = @ - cycles]
  ELSE [s EXCEPT !.data = 255, !.control = @ % 128, !.interrupt = {3}, !.transferring = FALSE]
=============================================================================
