------------------------------- MODULE GameBoy -------------------------------
(***************************************************************************)
(* The emulated machine (gameboy/device.rs and what it owns) running a     *)
(* program.  One step is one Device::do_cycle: an interrupt is dispatched, *)
(* or the CPU sleeps in HALT, or it executes one instruction; then timer,  *)
(* picture unit and serial port run for as long.  Between steps a key may  *)
(* raise the joypad interrupt, and the main loop takes the "updated" flags.*)
(*                                                                         *)
(* masked and returns are history that the properties need.                *)
(***************************************************************************)
EXTENDS GbCpu

CONSTANTS Cartridges,   \* the cartridges that may be inserted: header, program, key presses
          PeekAddresses \* addresses at which the two reads are compared

\* A file is bytes, its header included.
ASSUME CartridgeAssumption ==
  \A data \in Cartridges :
    /\ data.type \in Byte /\ data.rom \in Byte /\ data.ram \in Byte
    /\ data.size \in Nat /\ data.keys \in Nat
    /\ \A i \in DOMAIN data.program : data.program[i] \in Byte

\* 0xFF00, the keypad, is not modelled; at 0xFF46 the tables differ.
ASSUME PeekAssumption == PeekAddresses \subseteq Word \ {65280, 65350}

VARIABLES
  gb,        \* the machine
  keys,      \* key presses to come
  masked,    \* no interrupt may be served: see MaskHolds
  returns    \* the addresses that dispatched interrupts must return to, last first

vars == <<gb, keys, masked, returns>>

\* The registers that MMU::set_initial writes; those of the sound unit do nothing.
InitialWrites == << <<65285, 0>>, <<65286, 0>>, <<65287, 0>>, <<65344, 145>>, <<65346, 0>>,
                    <<65347, 0>>, <<65349, 0>>, <<65351, 252>>, <<65352, 255>>,
                    <<65353, 255>>, <<65354, 0>>, <<65355, 0>> >>
set_initial(m) == AllWritten(m, InitialWrites)

\* A Color machine runs a cartridge without the Color flag as a classic one.
determine_mode(cartridge) ==
  IF readrom(cartridge, 323) >= 128 THEN "Color" ELSE "ColorAsClassic"

new_cgb(data) ==
  LET cartridge == NewCartridge(data)
      cpu       == NewCpu(determine_mode(cartridge), cartridge)
  IN  [cpu EXCEPT !.reg = NewRegisters("Color"), !.mmu = set_initial(@)]

Init ==
  /\ \E data \in Cartridges :
       /\ get_mbc(data) = "Ok"
       /\ gb = new_cgb(data)
       /\ keys = data.keys
  /\ masked = FALSE
  /\ returns = <<>>
-----------------------------------------------------------------------------
Timed == update_ime(gb)

\* DI has just taken effect, unless an EI is on its way.
MaskedNow == masked \/ (gb.setdi = 1 /\ gb.setei = 0)

\* The lowest interrupt that is enabled and requested is served.
Dispatch ==
  /\ Dispatches(Timed)
  /\ gb' = Clocked(handle_interrupts(Timed))
  /\ masked' = (Timed.setei = 0)
  /\ returns' = <<gb.reg.pc>> \o returns
  /\ UNCHANGED keys

\* A halted CPU sleeps on while nothing is requested.
Sleep ==
  /\ ~Dispatches(Timed)
  /\ handle_interrupts(Timed).halted
  /\ gb' = Clocked(Took(Timed, 4))
  /\ masked' = MaskedNow
  /\ UNCHANGED <<keys, returns>>

EI   == 251
RETI == 217
DAA  == 39

Execute ==
  /\ ~Dispatches(Timed)
  /\ ~handle_interrupts(Timed).halted
  /\ gb' = Clocked(execute(handle_interrupts(Timed)))
  /\ masked' = (MaskedNow /\ gb'.opcode \notin {EI, RETI})
  /\ returns' = IF gb'.opcode = RETI /\ returns # <<>> THEN Tail(returns) ELSE returns
  /\ UNCHANGED keys

\* A key goes down in a selected row: the keypad has an interrupt for the next cycle.
Key ==
  /\ keys > 0
  /\ keys' = keys - 1
  /\ gb' = [gb EXCEPT !.mmu.keypad = {4}]
  /\ UNCHANGED <<masked, returns>>

\* The main loop takes the picture and looks for RAM to save.
check_and_reset ==
  /\ gb.mmu.gpu.updated \/ gb.mmu.mbc.ram_updated
  /\ gb' = [gb EXCEPT !.mmu.gpu.updated = FALSE, !.mmu.mbc = check_and_reset_ram_updated(@)]
  /\ UNCHANGED <<keys, masked, returns>>

do_cycle_step == Dispatch \/ Sleep \/ Execute

Next == do_cycle_step \/ Key \/ check_and_reset

\* The main loop calls do_cycle again and again while the game runs.  A cycle is
\* always possible, so its weak fairness is that cycles never end.
Spec == Init /\ [][Next]_vars /\ []<><<do_cycle_step>>_vars
-----------------------------------------------------------------------------
(***************************************************************************)
(* Type invariant: the fields keep their widths through every instruction, *)
(* in the code's wrapping arithmetic (Cpu::execute, MMU::do_cycle).        *)
(***************************************************************************)
TypeOK ==
  /\ gb.reg \in Registers
  /\ gb.setdi \in 0..2 /\ gb.setei \in 0..2
  /\ gb.mmu.timer \in Timer
  /\ gb.mmu.serial \in Serial
  /\ gb.mmu.hdma_src \in Word /\ gb.mmu.hdma_dst \in Word
  /\ gb.mmu.gpu.modeclock \in 0..LineTicks - 1
  /\ gb.mmu.gpu.line \in 0..Lines - 1
  /\ gb.mmu.gpu.wy_pos \in -1..VisibleLines
  /\ keys \in Nat

(***************************************************************************)
(* Once DI has taken effect with no EI on its way, or a handler has been   *)
(* entered with no EI on its way, no interrupt is served until the program *)
(* executes EI or RETI (CPU::update_ime, handle_interrupts).  The provisos *)
(* are the two windows that the delays leave open: an interrupt between DI *)
(* and its effect uses the DI up inside the handler, and an EI repeated    *)
(* just before an interrupt opens the handler to the next one.             *)
(***************************************************************************)
MaskHolds == [][Len(returns') > Len(returns) => ~MaskedNow]_vars

(***************************************************************************)
(* RETI goes back to the instruction that the interrupt displaced, also    *)
(* when interrupts nest, wake a HALT or meet the HALT bug (CPU::push, pop, *)
(* handle_interrupts; the programs leave SP alone).                        *)
(***************************************************************************)
ReturnsWhereInterrupted ==
  [][Len(returns') < Len(returns) => gb'.reg.pc = Head(returns)]_vars

(***************************************************************************)
(* A CPU halted while the timer runs and its interrupt is enabled does not *)
(* stay so: the timer overflows and wakes it, with interrupts on or off    *)
(* (CPU::handle_interrupts, Timer::do_cycle).                              *)
(***************************************************************************)
HaltEnds ==
  (gb.halted /\ TimerOn(gb.mmu.timer) /\ 2 \in gb.mmu.inte) ~> ~gb.halted

(***************************************************************************)
(* TIMA never counts an edge of DIV that did not happen, and counts each   *)
(* one as long as a step takes at most half the period of the bit it       *)
(* watches.  In a longer step the one comparison in Timer::do_cycle misses *)
(* edges: with TAC 5 the half period is 8 cycles, and a CALL takes 24.     *)
(***************************************************************************)
TimerKeepsPace ==
  LET tick == gb.mmu.timer.last
  IN  /\ tick.counted <= tick.edges
      /\ tick.cycles <= tick.half => tick.counted = tick.edges

(***************************************************************************)
(* A frame that ends, in VBlank, is whole: each visible line was drawn     *)
(* exactly once, or none was (the first frame after the screen comes on),  *)
(* however many ticks a step takes (GPU::do_cycle's loop in chunks of 80,  *)
(* fed with up to 1024 ticks by a general DMA).  The main loop copies the  *)
(* lines at a count of cycles of its own (main.rs:387-420), so the picture *)
(* on display may still join two such frames.                              *)
(***************************************************************************)
NoTornFrame == gb.mmu.gpu.frame # "torn"

(***************************************************************************)
(* HDMA copies one row in an HBlank and no more, and into video memory     *)
(* only (MMU::perform_hdma, GPU::may_hdma).  It is so while the screen is  *)
(* on: hblanking keeps its value when the screen goes off, and rows follow *)
(* each other.                                                             *)
(***************************************************************************)
OneRowPerHBlank ==
  /\ LcdOn(gb.mmu.gpu) => gb.mmu.rows <= 1
  /\ gb.mmu.hdma_status = "HDMA" => gb.mmu.hdma_dst + gb.mmu.hdma_len * 16 < 43008

(***************************************************************************)
(* The ROM banks that the game sees are those in the chip's registers, cut *)
(* to the size of the ROM, in whatever order the registers are written     *)
(* (writerom of the five controllers, which keep one number and split it). *)
(***************************************************************************)
BankedByRegisters == BanksFollowRegisters(gb.mmu.mbc)

(***************************************************************************)
(* DAA after an addition or a subtraction of decimal numbers gives the     *)
(* decimal result and its carry or borrow (alu_add, alu_sub, alu_daa).     *)
(***************************************************************************)
DaaCorrects ==
  [][gb.decimal.due /\ ~gb'.decimal.due /\ gb'.opcode = DAA =>
       gb'.reg.a = gb.decimal.a /\ ("C" \in gb'.reg.f) = gb.decimal.carry]_vars

(***************************************************************************)
(* What the overlay reads through peek is what the game would read at the  *)
(* same address, in every mode (MMU::peek and MMU::rb are two tables); but *)
(* for 0xFF46, which reads 0 to the game and 255 to the overlay.           *)
(***************************************************************************)
PeekIsRead == \A a \in PeekAddresses : peek(gb.mmu, a) = rb(gb.mmu, a)
=============================================================================
