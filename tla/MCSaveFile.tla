----------------------------- MODULE MCSaveFile -----------------------------
(***************************************************************************)
(* Instances of SaveFile for TLC.  64 sectors (32KB) are scaled to 2 or 4; *)
(* the ratios of the code are kept: the restore buffer, the header's limit *)
(* and a slot are the same number of sectors, an 8KB cartridge is smaller  *)
(* than a slot, and a 32KB one is as large as a slot.                      *)
(***************************************************************************)
EXTENDS SaveFile

CONSTANTS red, blue, gold

MCHash == [r \in Roms |-> r]

\* A 32KB cartridge fills the buffer of load_sram and all of a slot.
FullSize == [r \in Roms |-> BufferSectors]

\* Cartridges of 512 bytes, 8KB and 16KB: less than a slot.
SmallSizes == [r \in Roms |-> IF r = blue THEN 2 ELSE 1]
=============================================================================
