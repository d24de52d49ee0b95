-------------------------------- MODULE GbMmu --------------------------------
(***************************************************************************)
(* The memory map (gameboy/mmu.rs): which component answers each address,  *)
(* the DMA engines, and the cycle that advances the components and gathers *)
(* their interrupts.  An operator takes the record m of the whole machine  *)
(* outside the CPU.                                                        *)
(*                                                                         *)
(* rows is history: the rows that HDMA has copied since the picture unit   *)
(* last came to a line, entered an HBlank or was turned on.                *)
(***************************************************************************)
EXTENDS GbTimer, GbGpu, GbMbc

NewMmu(mode, cartridge) ==
  [wram |-> NoMemory, zram |-> NoMemory, wrambank |-> 1, hdma |-> <<0, 0, 0, 0>>,
   inte |-> {}, intf |-> {}, serial |-> NewSerial, timer |-> NewTimer, keypad |-> {},
   gpu |-> NewGpu(mode), mbc |-> cartridge, gbmode |-> mode, gbspeed |-> 1,
   speed_switch_req |-> FALSE, hdma_src |-> 0, hdma_dst |-> 0, hdma_status |-> "NoDMA",
   hdma_len |-> 255, undocumented |-> <<0, 0, 0>>, rows |-> 0]

InCartRam(a) == 40960 <= a /\ a < 49152
InWram(a)  == 49152 <= a /\ a < 65024
WramIndex(m, a) == IF (a \div 4096) % 2 = 0 THEN a % 4096 ELSE m.wrambank * 4096 + (a % 4096)
InZram(a)  == 65408 <= a /\ a < 65535
InTimer(a) == a \in 65284..65287
InSerial(a) == a \in 65281..65282
InHdma(a)  == a \in 65361..65365
\* Registers that only a Color machine has, and those a Classic one lacks.
NeedsColor(a) == a \in {65357, 65359, 65388, 65392} \cup 65361..65365
NotClassic(a) == a \in {65394, 65395, 65397, 65398, 65399}
Absent(m, a) == (NeedsColor(a) /\ m.gbmode # "Color") \/ (NotClassic(a) /\ m.gbmode = "Classic")
InGpu(a) == InVram(a) \/ InOam(a) \/ a \in 65344..65359 \ {65357} \/ a \in 65384..65387

hdma_read(m, a) ==
  IF a < 65365 THEN m.hdma[a - 65360]
  ELSE IF m.hdma_status = "NoDMA" THEN Or8(m.hdma_len, 128) ELSE m.hdma_len

SpeedRb(m) == 126 + (IF m.gbspeed = 2 THEN 128 ELSE 0) + (IF m.speed_switch_req THEN 1 ELSE 0)

rb(m, a) ==
  IF Absent(m, a) THEN 255
  ELSE CASE a < 32768    -> readrom(m.mbc, a)
         [] InCartRam(a) -> readram(m.mbc, a)
         [] InWram(a)    -> At(m.wram, WramIndex(m, a))
         [] InSerial(a)  -> SerialRb(m.serial, a)
         [] InTimer(a)   -> TimerRb(m.timer, a)
         [] a = 65295    -> ByteOf(m.intf \cup {5, 6, 7})
         [] a = 65357    -> SpeedRb(m)
         [] InGpu(a)     -> GpuRb(m.gpu, a)
         [] InHdma(a)    -> hdma_read(m, a)
         [] a = 65392    -> m.wrambank
         [] a \in 65394..65395 -> m.undocumented[a - 65393]
         [] a = 65397    -> Or8(m.undocumented[3], 143)
         [] a \in 65398..65399 -> 0
         [] InZram(a)    -> At(m.zram, a % 128)
         [] a = 65535    -> ByteOf(m.inte)
         [] OTHER        -> 255     \* the sound unit and what does not exist

rw(m, a) == WordOf(rb(m, Wrap16(a + 1)), rb(m, a))
-----------------------------------------------------------------------------
(***************************************************************************)
(* HDMA registers.  A write to 0xFF55 during an HBlank transfer only stops *)
(* it; otherwise it starts a transfer of one to 128 rows of 16 bytes.      *)
(***************************************************************************)
HdmaStart(m, v) ==
  [m EXCEPT !.hdma_src = WordOf(m.hdma[1], m.hdma[2]),
            !.hdma_dst = WordOf(m.hdma[3] + 128, m.hdma[4]),
            !.hdma_len = v % 128,
            !.hdma_status = IF v >= 128 THEN "HDMA" ELSE "GDMA"]

hdma_write(m, a, v) ==
  CASE a = 65361 -> [m EXCEPT !.hdma[1] = v]
    [] a \in {65362, 65364} -> [m EXCEPT !.hdma[a - 65360] = v - Nibble(v)]
    [] a = 65363 -> [m EXCEPT !.hdma[3] = v % 32]
    [] a = 65365 -> IF m.hdma_status # "HDMA" THEN HdmaStart(m, v)
                    ELSE IF v < 128 THEN [m EXCEPT !.hdma_status = "NoDMA"] ELSE m

GpuWritten(m, a, v) ==
  LET gpu == GpuWb(m.gpu, a, v)
  IN  [m EXCEPT !.gpu = gpu, !.rows = IF ~LcdOn(m.gpu) /\ LcdOn(gpu) THEN 0 ELSE @]

\* All 160 bytes at once: a byte of OAM that is read here is read before it is written.
oamdma(m, v) ==
  [m EXCEPT !.gpu.voam = Overlaid(@, [i \in 0..159 |-> rb(m, v * 256 + i)])]

wb(m, a, v) ==
  IF Absent(m, a) THEN m
  ELSE CASE a < 32768    -> [m EXCEPT !.mbc = writerom(@, a, v)]
         [] InCartRam(a) -> [m EXCEPT !.mbc = writeram(@, a, v)]
         [] InWram(a)    -> [m EXCEPT !.wram = Stored(@, WramIndex(m, a), v)]
         [] InSerial(a)  -> [m EXCEPT !.serial = SerialWb(@, a, v)]
         [] InTimer(a)   -> [m EXCEPT !.timer = TimerWb(@, a, v)]
         [] a = 65295    -> [m EXCEPT !.intf = BitsOf(v)]
         [] a = 65350    -> oamdma(m, v)
         [] a = 65357    -> [m EXCEPT !.speed_switch_req = @ \/ v % 2 = 1]
         [] InGpu(a) /\ a # 65350 -> GpuWritten(m, a, v)
         [] InHdma(a)    -> hdma_write(m, a, v)
         [] a = 65392    -> [m EXCEPT !.wrambank = MaxOne(v % 8)]
         [] a \in 65394..65395 -> [m EXCEPT !.undocumented[a - 65393] = v]
         [] a = 65397    -> [m EXCEPT !.undocumented[3] = v]
         [] InZram(a)    -> [m EXCEPT !.zram = Stored(@, a % 128, v)]
         [] a = 65535    -> [m EXCEPT !.inte = BitsOf(v)]
         [] OTHER        -> m

\* Writes in their order, each an address and a byte.
AllWritten(m, writes) ==
  LET after[n \in 0..Len(writes)] ==
        IF n = 0 THEN m ELSE wb(after[n - 1], writes[n][1], writes[n][2])
  IN  after[Len(writes)]
-----------------------------------------------------------------------------
\* One row of 16 bytes from anywhere into video memory.  Both addresses are
\* multiples of 16, so a row lies in video memory or past its end, where the
\* picture unit drops it, and does not overlap another row.
RowCopied(m) ==
  LET first == VramIndex(m.gpu, m.hdma_dst)
  IN  [m EXCEPT !.gpu.vram =
         Overlaid(@, [i \in first..first + 15 |-> rb(m, m.hdma_src + (i - first))])]
perform_vramdma_row(m) ==
  [(IF InVram(m.hdma_dst) THEN RowCopied(m) ELSE m) EXCEPT
     !.hdma_src = Wrap16(@ + 16), !.hdma_dst = Wrap16(@ + 16),
     !.hdma_len = IF @ = 0 THEN 127 ELSE @ - 1]

HdmaRow(m) ==
  LET copied == perform_vramdma_row(m)
  IN  [copied EXCEPT !.hdma_status = IF copied.hdma_len = 127 THEN "NoDMA" ELSE @,
                     !.rows = IF @ < 3 THEN @ + 1 ELSE @]

GdmaRows(m) ==
  LET rows[n \in 0..m.hdma_len + 1] == IF n = 0 THEN m ELSE perform_vramdma_row(rows[n - 1])
  IN  [rows[m.hdma_len + 1] EXCEPT !.hdma_status = "NoDMA"]

\* The transfer of this cycle and the ticks it takes on the bus.
perform_vramdma(m) ==
  CASE m.hdma_status = "GDMA" -> GdmaRows(m)
    [] m.hdma_status = "HDMA" /\ may_hdma(m.gpu) -> HdmaRow(m)
    [] OTHER -> m
VramTicks(m) ==
  CASE m.hdma_status = "GDMA" -> (m.hdma_len + 1) * 8
    [] m.hdma_status = "HDMA" /\ may_hdma(m.gpu) -> 8
    [] OTHER -> 0

GpuTicks(m, ticks) == ticks \div m.gbspeed + VramTicks(m)
CpuTicks(m, ticks) == ticks + VramTicks(m) * m.gbspeed

\* Each component advances, and its interrupts join IF.
do_cycle(m, ticks) ==
  LET moved   == perform_vramdma(m)
      timer   == TimerCycle(moved.timer, CpuTicks(m, ticks))
      gpu     == GpuCycle(moved.gpu, GpuTicks(m, ticks))
      serial  == SerialCycle(moved.serial, GpuTicks(m, ticks))
  IN  [moved EXCEPT !.timer  = [timer EXCEPT !.interrupt = {}],
                    !.gpu    = [gpu EXCEPT !.interrupt = {}],
                    !.serial = [serial EXCEPT !.interrupt = {}],
                    !.keypad = {},
                    !.intf   = @ \cup timer.interrupt \cup moved.keypad
                                 \cup gpu.interrupt \cup serial.interrupt,
                    !.rows   = IF gpu.line # moved.gpu.line \/ (gpu.mode = 0 /\ moved.gpu.mode # 0)
                                THEN 0 ELSE @]

switch_speed(m) ==
  [m EXCEPT !.gbspeed = IF m.speed_switch_req THEN 3 - @ ELSE @, !.speed_switch_req = FALSE]
-----------------------------------------------------------------------------
\* The read without side effects that the overlay uses: a table of its own.
\* First its entries for the registers 0xFF4D to 0xFF7F of the Color machine.
\* Mutant: what only a Color machine has answers on every machine.
PeekColorAlways(m, a) == IF a = 65392 THEN m.wrambank ELSE rb(m, a)

PeekColor(m, a) ==
  CASE a = 65357 /\ m.gbmode = "Color" -> SpeedRb(m)
    [] a = 65359 /\ m.gbmode = "Color" -> GpuRb(m.gpu, a)
    [] InHdma(a) /\ m.gbmode = "Color" -> hdma_read(m, a)
    [] a \in 65384..65387 /\ m.gbmode = "Color" -> GpuRb(m.gpu, a)
    [] a = 65392 /\ m.gbmode = "Color" -> m.wrambank
    [] a \in 65394..65395 /\ m.gbmode # "Classic" -> m.undocumented[a - 65393]
    [] a = 65397 /\ m.gbmode # "Classic" -> Or8(m.undocumented[3], 143)
    [] a \in 65398..65399 /\ m.gbmode # "Classic" -> 0
    [] OTHER -> 255

peek(m, a) ==
  CASE a < 32768    -> readrom(m.mbc, a)
    [] InVram(a) \/ InOam(a) -> GpuRb(m.gpu, a)
    [] InCartRam(a) -> readram(m.mbc, a)
    [] InWram(a)    -> At(m.wram, WramIndex(m, a))
    [] InSerial(a)  -> SerialRb(m.serial, a)
    [] InTimer(a)   -> TimerRb(m.timer, a)
    [] a = 65295    -> ByteOf(m.intf \cup {5, 6, 7})
    [] a \in 65344..65349 \/ a \in 65351..65355 -> GpuRb(m.gpu, a)
    [] 65357 <= a /\ a < 65408 -> PeekColor(m, a)
    [] InZram(a)    -> At(m.zram, a % 128)
    [] a = 65535    -> ByteOf(m.inte)
    [] OTHER        -> 255
=============================================================================
