-------------------------------- MODULE GbGpu --------------------------------
(***************************************************************************)
(* The picture unit (gameboy/gpu.rs): the clock that takes each line       *)
(* through modes 2, 3 and 0 and the frame through VBlank, the registers,   *)
(* video memory and the colour palettes.  Pixels are left out: drawing a   *)
(* line is an event, counted in "drawn".                                   *)
(*                                                                         *)
(* Two fields are history: drawn[l] is how often line l was drawn since    *)
(* the frame began, and frame says how the last completed frame came out.  *)
(***************************************************************************)
EXTENDS GbBits, SequencesExt

CONSTANTS VisibleLines,   \* SCREEN_H: 144 in the code
          Lines           \* lines with VBlank: 154 in the code

\* A frame is longer than a step, which takes 1048 ticks at most (an instruction and a DMA).
ASSUME LinesAssumption ==
  VisibleLines \in 1..144 /\ Lines \in (VisibleLines + 1)..154 /\ Lines >= 4

LineTicks == 456
OamTicks  == 80
DrawTicks == 172
ChunkTicks == 80

Gpu == [mode : 0..3, modeclock : 0..LineTicks - 1, line : 0..Lines - 1, lyc : Byte,
        lcdc : SUBSET (0..7), stat : SUBSET (3..6), scy : Byte, scx : Byte, winy : Byte,
        winx : Byte, wy_trigger : BOOLEAN, wy_pos : -1..VisibleLines, palettes : Seq(Byte),
        cbg : [ind : 0..63, inc : BOOLEAN, mem : Seq(Byte) \cup {NoMemory}],
        vrambank : 0..1, updated : BOOLEAN, interrupt : SUBSET {0, 1},
        hblanking : BOOLEAN, first_frame : BOOLEAN,
        drawn : [0..VisibleLines - 1 -> 0..2], frame : {"none", "blank", "whole", "torn"}]

NewPalette == [ind |-> 0, inc |-> FALSE, mem |-> NoMemory]
NothingDrawn == [l \in 0..VisibleLines - 1 |-> 0]

\* new and new_cgb; lcdc holds the bits of LCDC, stat the interrupt bits of STAT.
NewGpu(mode) ==
  [mode |-> 0, modeclock |-> 0, line |-> 0, lyc |-> 0, lcdc |-> {3, 4, 6}, stat |-> {},
   scy |-> 0, scx |-> 0, winy |-> 0, winx |-> 0, wy_trigger |-> FALSE, wy_pos |-> -1,
   palettes |-> <<0, 0, 1>>, cbg |-> NewPalette, csprit |-> NewPalette,
   vram |-> NoMemory, voam |-> NoMemory, vrambank |-> 0, updated |-> FALSE,
   interrupt |-> {}, gbmode |-> mode, hblanking |-> FALSE, first_frame |-> FALSE,
   drawn |-> NothingDrawn, frame |-> "none"]

LcdOn(g) == 7 \in g.lcdc
WinOn(g) == 5 \in g.lcdc
-----------------------------------------------------------------------------
check_interrupt_lyc(g) ==
  IF 6 \in g.stat /\ g.line = g.lyc THEN [g EXCEPT !.interrupt = @ \cup {1}] ELSE g

\* draw_bg advances the window's own line counter; pixels are left out.
WindowLine(g) ==
  IF WinOn(g) /\ g.wy_trigger /\ g.winx <= 166 THEN g.wy_pos + 1 ELSE g.wy_pos

renderscan(g) ==
  IF g.first_frame THEN g
  ELSE [g EXCEPT !.drawn[g.line] = IF @ < 2 THEN @ + 1 ELSE @, !.wy_pos = WindowLine(g)]

\* How the frame that ends now came out.
FrameOutcome(g) ==
  CASE \A l \in DOMAIN g.drawn : g.drawn[l] = 1 -> "whole"
    [] \A l \in DOMAIN g.drawn : g.drawn[l] = 0 -> "blank"
    [] OTHER -> "torn"

EnterMode(g, mode) ==
  CASE mode = 0 -> [renderscan(g) EXCEPT !.mode = 0, !.hblanking = TRUE]
    [] mode = 1 -> [g EXCEPT !.mode = 1, !.wy_trigger = FALSE, !.interrupt = @ \cup {0},
                             !.updated = TRUE, !.first_frame = FALSE,
                             !.frame = FrameOutcome(g), !.drawn = NothingDrawn]
    [] mode = 2 -> [g EXCEPT !.mode = 2]
    [] mode = 3 -> IF WinOn(g) /\ ~g.wy_trigger /\ g.line = g.winy
                   THEN [g EXCEPT !.mode = 3, !.wy_trigger = TRUE, !.wy_pos = -1]
                   ELSE [g EXCEPT !.mode = 3]

\* The STAT bit that makes entering a mode an interrupt; mode 3 has none.
StatBit(mode) == mode + 3
change_mode(g, mode) ==
  LET entered == EnterMode(g, mode)
  IN  IF mode # 3 /\ StatBit(mode) \in g.stat
      THEN [entered EXCEPT !.interrupt = @ \cup {1}] ELSE entered

ModeAt(modeclock) == IF modeclock <= OamTicks THEN 2
                     ELSE IF modeclock <= OamTicks + DrawTicks THEN 3 ELSE 0

\* Mutant: the line does not go back to 0.
NextLineOn(g) ==
  LET there == [g EXCEPT !.modeclock = @ - LineTicks, !.line = @ + 1]
  IN  IF there.line = VisibleLines THEN change_mode(there, 1) ELSE there

NextLine(g) ==
  LET there == check_interrupt_lyc([g EXCEPT !.modeclock = @ - LineTicks,
                                             !.line = (@ + 1) % Lines])
  IN  IF there.line >= VisibleLines /\ there.mode # 1 THEN change_mode(there, 1) ELSE there

\* One round of the loop in do_cycle.
GpuChunk(g, ticks) ==
  LET clocked == [g EXCEPT !.modeclock = @ + ticks]
      placed  == IF clocked.modeclock >= LineTicks THEN NextLine(clocked) ELSE clocked
      mode    == ModeAt(placed.modeclock)
  IN  IF placed.line < VisibleLines /\ placed.mode # mode
      THEN change_mode(placed, mode) ELSE placed

\* Mutant: all the ticks at once.
OneChunk(ticks) == <<ticks>>

Chunks(ticks) ==
  [i \in 1..(ticks + ChunkTicks - 1) \div ChunkTicks |->
     IF i * ChunkTicks <= ticks THEN ChunkTicks ELSE ticks % ChunkTicks]

AfterChunks(g, chunks) ==
  LET after[n \in 0..Len(chunks)] == IF n = 0 THEN g ELSE GpuChunk(after[n - 1], chunks[n])
  IN  after[Len(chunks)]

\* Mutant: an HBlank lasts until the next one.
GpuCycleLasting(g, ticks) == IF ~LcdOn(g) THEN g ELSE AfterChunks(g, Chunks(ticks))

GpuCycle(g, ticks) ==
  IF ~LcdOn(g) THEN g ELSE AfterChunks([g EXCEPT !.hblanking = FALSE], Chunks(ticks))

may_hdma(g) == g.hblanking
-----------------------------------------------------------------------------
\* Palette memory: of an odd byte the top bit is not kept.
PaletteRb(p) == At(p.mem, p.ind)
PaletteWb(p, v) ==
  [p EXCEPT !.mem = Stored(@, p.ind, IF p.ind % 2 = 0 THEN v ELSE v % 128),
            !.ind = IF p.inc THEN (@ + 1) % 64 ELSE @]
PaletteIndexRb(p) == ByteOf((BitsOf(p.ind) \cup {6}) \cup (IF p.inc THEN {7} ELSE {}))
PaletteIndexWb(p, v) == [p EXCEPT !.ind = v % 64, !.inc = v >= 128]

InVram(a) == 32768 <= a /\ a < 40960
InOam(a)  == 65024 <= a /\ a < 65184
VramIndex(g, a) == g.vrambank * 8192 + (a % 8192)

GpuRb(g, a) ==
  CASE InVram(a) -> At(g.vram, VramIndex(g, a))
    [] InOam(a)  -> At(g.voam, a - 65024)
    [] a = 65344 -> ByteOf(g.lcdc)
    [] a = 65345 -> 128 + ByteOf(g.stat) + (IF g.line = g.lyc THEN 4 ELSE 0) + g.mode
    [] a = 65346 -> g.scy
    [] a = 65347 -> g.scx
    [] a = 65348 -> g.line
    [] a = 65349 -> g.lyc
    [] a = 65350 -> 0
    [] a \in 65351..65353 -> g.palettes[a - 65350]
    [] a = 65354 -> g.winy
    [] a = 65355 -> g.winx
    [] a = 65359 /\ g.gbmode = "Color" -> g.vrambank + 254
    [] a = 65384 /\ g.gbmode = "Color" -> PaletteIndexRb(g.cbg)
    [] a = 65385 /\ g.gbmode = "Color" -> PaletteRb(g.cbg)
    [] a = 65386 /\ g.gbmode = "Color" -> PaletteIndexRb(g.csprit)
    [] a = 65387 /\ g.gbmode = "Color" -> PaletteRb(g.csprit)
    [] OTHER -> 255

\* LCDC: turning the screen off clears it and starts over; turning it on
\* enters mode 2 four ticks into the line.  hblanking is not touched.
LcdcWb(g, v) ==
  LET written == [g EXCEPT !.lcdc = BitsOf(v)]
  IN  CASE LcdOn(g) /\ v < 128 ->
             [written EXCEPT !.modeclock = 0, !.line = 0, !.mode = 0, !.wy_trigger = FALSE,
                             !.first_frame = TRUE, !.updated = TRUE, !.drawn = NothingDrawn]
        [] ~LcdOn(g) /\ v >= 128 -> [change_mode(written, 2) EXCEPT !.modeclock = 4]
        [] OTHER -> written

GpuWb(g, a, v) ==
  CASE InVram(a) -> [g EXCEPT !.vram = Stored(@, VramIndex(g, a), v)]
    [] InOam(a)  -> [g EXCEPT !.voam = Stored(@, a - 65024, v)]
    [] a = 65344 -> LcdcWb(g, v)
    [] a = 65345 -> [g EXCEPT !.stat = BitsOf(v) \cap 3..6]
    [] a = 65346 -> [g EXCEPT !.scy = v]
    [] a = 65347 -> [g EXCEPT !.scx = v]
    [] a = 65349 -> check_interrupt_lyc([g EXCEPT !.lyc = v])
    [] a \in 65351..65353 -> [g EXCEPT !.palettes[a - 65350] = v]
    [] a = 65354 -> [g EXCEPT !.winy = v]
    [] a = 65355 -> [g EXCEPT !.winx = v]
    [] a = 65359 /\ g.gbmode = "Color" -> [g EXCEPT !.vrambank = v % 2]
    [] a = 65384 /\ g.gbmode = "Color" -> [g EXCEPT !.cbg = PaletteIndexWb(@, v)]
    [] a = 65385 /\ g.gbmode = "Color" -> [g EXCEPT !.cbg = PaletteWb(@, v)]
    [] a = 65386 /\ g.gbmode = "Color" -> [g EXCEPT !.csprit = PaletteIndexWb(@, v)]
    [] a = 65387 /\ g.gbmode = "Color" -> [g EXCEPT !.csprit = PaletteWb(@, v)]
    [] OTHER -> g
=============================================================================
