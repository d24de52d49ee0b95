-------------------------------- MODULE GbMbc --------------------------------
(***************************************************************************)
(* The cartridge (gameboy/mbc/): five bank controllers behind one trait.   *)
(* A cartridge record c holds the controller's registers and the RAM; the  *)
(* ROM is a memory that only shows what a property needs of it: a program  *)
(* in bank 0 and in the banks that MBC1 can put in its place, so that it   *)
(* runs on, and elsewhere the number of the bank.                          *)
(*                                                                         *)
(* The field regs is history: the last value the game wrote to each of the *)
(* controller's registers, which is all that the real chip keeps.          *)
(***************************************************************************)
EXTENDS GbBits

Kinds == {"MBC0", "MBC1", "MBC2", "MBC3", "MBC5"}

\* The controller a cartridge type asks for, and whether it has RAM and a battery.
KindOf(type) == CASE type = 0 -> "MBC0"
                  [] type \in 1..3 -> "MBC1"
                  [] type \in 5..6 -> "MBC2"
                  [] type \in 15..19 -> "MBC3"
                  [] type \in 25..30 -> "MBC5"
                  [] OTHER -> "Unsupported"
HasRam(type)     == type \in {2, 3, 16, 18, 19, 26, 27, 29, 30}
HasBattery(type) == type \in {3, 6, 15, 16, 19, 27, 30}

\* The sizes a header byte declares.  A 2KB RAM gets a whole bank.
ram_banks(v) == IF v \in 1..5 THEN <<1, 1, 4, 16, 8>>[v] ELSE 0
rom_banks(v) == IF v <= 8 THEN 2 * Power(v) ELSE 0

MaxOne(n) == IF n = 0 THEN 1 ELSE n

\* data: [type, rom, ram] are header bytes; size is the file's length in banks.
NewCartridge(data) ==
  LET kind == KindOf(data.type)
  IN  [kind |-> kind, battery |-> HasBattery(data.type), size |-> data.size,
       rombanks |-> rom_banks(data.rom),
       rambanks |-> IF HasRam(data.type) THEN ram_banks(data.ram) ELSE 0,
       ram_on |-> FALSE, ram_updated |-> FALSE, banking_mode |-> 0,
       rombank |-> 1, rambank |-> 0, selectrtc |-> FALSE, rtc_latch |-> 255,
       rtc |-> NoMemory, rtc_latched |-> NoMemory, ram |-> NoMemory, program |-> data.program,
       regs |-> [low |-> 1, high |-> 0, ram |-> 0]]

get_mbc(data) == IF data.size = 0 \/ KindOf(data.type) = "Unsupported" THEN "Err" ELSE "Ok"

RamBytes(c) == IF c.kind = "MBC2" THEN 512 ELSE c.rambanks * 8192
-----------------------------------------------------------------------------
\* The ROM bank seen at 0x0000 and at 0x4000.
LowBank(c)  == IF c.kind = "MBC1" /\ c.banking_mode = 1 THEN (c.rombank \div 32) * 32 ELSE 0
HighBank(c) == IF c.kind = "MBC0" THEN 1 ELSE c.rombank

\* Past the end of the file MBC5 reads 0 and the others 255.
readrom(c, a) ==
  LET bank == IF a < 16384 THEN LowBank(c) ELSE HighBank(c)
  IN  IF bank >= c.size THEN (IF c.kind = "MBC5" THEN 0 ELSE 255)
      ELSE IF bank = 0 \/ a < 16384 THEN At(c.program, a % 16384)
      ELSE bank % 256

\* Where in the RAM an address falls, or -1 when no RAM answers.
RamIndex(c, a) ==
  LET bank == IF c.kind = "MBC1" /\ c.banking_mode = 0 THEN 0 ELSE c.rambank
      i    == bank * 8192 + (a % 8192)
  IN  IF ~c.ram_on \/ c.kind = "MBC0" THEN -1
      ELSE IF c.kind = "MBC2" THEN a % 512
      ELSE IF c.kind = "MBC3" /\ (c.selectrtc \/ c.rambank >= c.rambanks) THEN -1
      ELSE IF i < RamBytes(c) THEN i ELSE -1

ClockSelected(c) == c.kind = "MBC3" /\ c.ram_on /\ c.selectrtc /\ c.rambank < 5

readram(c, a) ==
  IF RamIndex(c, a) >= 0 THEN (IF c.kind = "MBC2" THEN Or8(At(c.ram, a % 512), 240)
                               ELSE At(c.ram, RamIndex(c, a)))
  ELSE IF ClockSelected(c) THEN At(c.rtc_latched, c.rambank)
  ELSE 255

writeram(c, a, v) ==
  IF RamIndex(c, a) >= 0
  THEN [c EXCEPT !.ram = Stored(@, RamIndex(c, a), IF c.kind = "MBC2" THEN Or8(v, 240) ELSE v),
                 !.ram_updated = TRUE]
  ELSE IF ClockSelected(c) THEN [c EXCEPT !.rtc = Stored(@, c.rambank, v)]
  ELSE c
-----------------------------------------------------------------------------
(***************************************************************************)
(* Writes to ROM addresses set the controller's registers: one in each     *)
(* 8KB, but that MBC2 has two in the first 16KB, told apart by address bit *)
(* 8, and MBC5 two in the second 8KB.                                      *)
(***************************************************************************)
Register(a) == a \div 8192
Enables(v) == Nibble(v) = 10
NotZero(n) == IF n = 0 THEN 1 ELSE n

Mbc1Write(c, a, v) ==
  CASE Register(a) = 0 -> [c EXCEPT !.ram_on = Enables(v)]
    [] Register(a) = 1 ->
         [c EXCEPT !.rombank = (((@ \div 32) % 4) * 32 + NotZero(v % 32)) % MaxOne(c.rombanks),
                   !.regs.low = NotZero(v % 32)]
    [] Register(a) = 2 ->
         [c EXCEPT !.rombank = IF c.rombanks > 32
                               THEN (@ % 32) + ((v % 4) % MaxOne(c.rombanks \div 32)) * 32 ELSE @,
                   !.rambank = IF c.rambanks > 1 THEN v % 4 ELSE @,
                   !.regs.high = v % 4, !.regs.ram = v % 4]
    [] OTHER -> [c EXCEPT !.banking_mode = v % 2]

Mbc2Write(c, a, v) ==
  IF a >= 16384 THEN c
  ELSE IF (a \div 256) % 2 = 0 THEN [c EXCEPT !.ram_on = Enables(v)]
  ELSE [c EXCEPT !.rombank = NotZero(Nibble(v)) % MaxOne(c.rombanks),
                 !.regs.low = NotZero(Nibble(v))]

Mbc3Write(c, a, v) ==
  CASE Register(a) = 0 -> [c EXCEPT !.ram_on = Enables(v)]
    [] Register(a) = 1 -> [c EXCEPT !.rombank = NotZero(v % 128) % MaxOne(c.rombanks),
                                    !.regs.low = NotZero(v % 128)]
    [] Register(a) = 2 ->
         [c EXCEPT !.selectrtc = Bit(v, 3) = 1, !.rambank = v % 8, !.regs.ram = v % 8]
    [] OTHER -> [c EXCEPT !.rtc_latched = IF c.rtc_latch = 0 /\ v = 1 THEN c.rtc ELSE @,
                          !.rtc_latch = v]

\* Mutant: the low byte of the bank clears its ninth bit.
Mbc5LowAlone(c, a, v) ==
  CASE a \in 8192..12287  -> [c EXCEPT !.rombank = v % c.rombanks, !.regs.low = v]
    [] a \in 12288..16383 -> [c EXCEPT !.rombank = ((@ % 256) + (v % 2) * 256) % c.rombanks,
                                      !.regs.high = v % 2]
    [] OTHER -> c

Mbc5Write(c, a, v) ==
  CASE Register(a) = 0 -> [c EXCEPT !.ram_on = Enables(v)]
    [] Register(a) = 1 /\ c.rombanks # 0 ->
         IF a < 12288
         THEN [c EXCEPT !.rombank = (((@ \div 256) % 2) * 256 + v) % c.rombanks, !.regs.low = v]
         ELSE [c EXCEPT !.rombank = ((@ % 256) + (v % 2) * 256) % c.rombanks, !.regs.high = v % 2]
    [] Register(a) = 2 /\ c.rambanks # 0 ->
         [c EXCEPT !.rambank = Nibble(v) % c.rambanks, !.regs.ram = Nibble(v)]
    [] OTHER -> c

writerom(c, a, v) ==
  CASE c.kind = "MBC0" -> c
    [] c.kind = "MBC1" -> Mbc1Write(c, a, v)
    [] c.kind = "MBC2" -> Mbc2Write(c, a, v)
    [] c.kind = "MBC3" -> Mbc3Write(c, a, v)
    [] c.kind = "MBC5" -> Mbc5Write(c, a, v)

loadram(c, image) ==
  IF c.kind = "MBC0" \/ image.len # RamBytes(c) THEN c ELSE [c EXCEPT !.ram = image.bytes]

check_and_reset_ram_updated(c) == [c EXCEPT !.ram_updated = FALSE]
-----------------------------------------------------------------------------
(***************************************************************************)
(* What the chips promise: the bank seen at 0x4000 is the number in the    *)
(* chip's registers, cut to the size of the ROM; and the one at 0x0000 in  *)
(* MBC1's mode 1 is its upper part.  A header that names no size is out.   *)
(***************************************************************************)
RegisterBank(c) ==
  CASE c.kind = "MBC1" -> c.regs.high * 32 + c.regs.low
    [] c.kind \in {"MBC2", "MBC3"} -> c.regs.low
    [] c.kind = "MBC5" -> c.regs.high * 256 + c.regs.low
    [] OTHER -> 1
RegisterLowBank(c) ==
  IF c.kind = "MBC1" /\ c.banking_mode = 1 THEN c.regs.high * 32 ELSE 0

BanksFollowRegisters(c) ==
  c.rombanks # 0 => /\ HighBank(c) = RegisterBank(c) % c.rombanks
                    /\ LowBank(c)  = RegisterLowBank(c) % c.rombanks
=============================================================================
