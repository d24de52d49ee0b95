----------------------------- MODULE SramStore -----------------------------
(***************************************************************************)
(* What battery saves promise (kernel/src/storage/savefile.rs:1-22): each  *)
(* cartridge has RAM of its own that survives a power cycle.  The store    *)
(* keeps one image per cartridge; a cartridge is started with its image,   *)
(* and the image only ever moves towards the RAM of the running cartridge, *)
(* a sector at a time, in any order.                                       *)
(***************************************************************************)
CONSTANTS Roms, NoRom, RamIndex, Values, Zero

VARIABLES rom, ram, store

vars == <<rom, ram, store>>
ZeroRam == [k \in RamIndex |-> Zero]

Init ==
  /\ rom = NoRom /\ ram = ZeroRam
  /\ store = [r \in Roms |-> ZeroRam]

PowerOn(r) ==
  /\ rom = NoRom
  /\ rom' = r /\ ram' = store[r]
  /\ UNCHANGED store

WriteRam(k, v) ==
  /\ rom # NoRom
  /\ ram' = [ram EXCEPT ![k] = v]
  /\ UNCHANGED <<rom, store>>

\* One sector of the RAM becomes durable.
Persist(k) ==
  /\ rom # NoRom
  /\ store' = [store EXCEPT ![rom][k] = ram[k]]
  /\ UNCHANGED <<rom, ram>>

PowerOff ==
  /\ rom # NoRom
  /\ rom' = NoRom /\ ram' = ZeroRam
  /\ UNCHANGED store

Next ==
  \/ \E r \in Roms : PowerOn(r)
  \/ \E k \in RamIndex, v \in Values : WriteRam(k, v)
  \/ \E k \in RamIndex : Persist(k)
  \/ PowerOff

Spec == Init /\ [][Next]_vars
=============================================================================
