------------------------------ MODULE SaveFile ------------------------------
(***************************************************************************)
(* Battery saves on disk: kernel/src/storage/savefile.rs, driven by the    *)
(* emulator loop of kernel/src/main.rs.                                    *)
(*                                                                         *)
(* A fixed area of the disk is cut into MAX_SAVE_SLOTS slots of            *)
(* SECTORS_PER_SLOT sectors.  A save writes a header sector and then the   *)
(* cartridge RAM, one sector at a time; a power cut may fall between any   *)
(* two sectors.  The emulator is blocked while it saves, so the RAM does   *)
(* not change under a save.  Sector numbers are relative to                *)
(* SAVE_AREA_START, and RAM is counted in sectors (every battery-backed    *)
(* cartridge's RAM is a whole number of them).                             *)
(***************************************************************************)
EXTENDS Naturals, FiniteSets

CONSTANTS
  Roms,                 \* cartridges the user may select
  NoRom,                \* no cartridge is running: the machine is off
  Battery,              \* the cartridges whose RAM is battery backed
  Hash,                 \* Hash[r]: hash_rom_name of the title of r
  RamSectors,           \* RamSectors[r]: size of r's cartridge RAM
  Values,               \* contents a RAM sector written by a game may have
  Zero,                 \* the all-zero sector
  MAX_SAVE_SLOTS,
  SECTORS_PER_SLOT,
  MaxRamSectors,        \* the ram_size limit of a valid header (0x8000 bytes)
  BufferSectors,        \* the restore buffer of load_sram (0x8000 bytes)
  DiskSectors,          \* sectors of the device from SAVE_AREA_START on
  SAVE_DEBOUNCE_FRAMES,
  IoFaults,             \* TRUE: sector reads and writes may fail
  CutDuringSave         \* TRUE: power may be cut in the middle of a save

ASSUME SaveAssumption ==
  /\ NoRom \notin Roms /\ Battery \subseteq Roms /\ Roms # {}
  /\ RamSectors \in [Roms -> Nat] /\ DOMAIN Hash = Roms
  /\ Zero \in Values
  /\ MAX_SAVE_SLOTS \in Nat \ {0} /\ SECTORS_PER_SLOT \in Nat \ {0}
  /\ MaxRamSectors \in Nat /\ BufferSectors \in Nat /\ DiskSectors \in Nat
  /\ SAVE_DEBOUNCE_FRAMES \in Nat \ {0}
  /\ IoFaults \in BOOLEAN /\ CutDuringSave \in BOOLEAN

-----------------------------------------------------------------------------
(* Sectors and slots *)

Slots == 0 .. MAX_SAVE_SLOTS - 1
NoSlot == MAX_SAVE_SLOTS

\* The header a save of r writes: hash and size are what later reads look at.
HeaderOf(r) == [hash |-> Hash[r], size |-> RamSectors[r]]
Headers == {HeaderOf(r) : r \in Roms}

\* What a sector may hold.  Game data is assumed never to look like a header.
Contents == Values \cup Headers
ASSUME DataAssumption == Values \cap Headers = {}

is_valid(c) == c \in Headers /\ c.size \in 1 .. MaxRamSectors

BaseLba(s) == s * SECTORS_PER_SLOT
SlotSectors(s) == BaseLba(s) .. BaseLba(s) + SECTORS_PER_SLOT - 1

\* Indices of the largest cartridge RAM; a smaller one leaves the rest Zero.
RamIndex == UNION {0 .. RamSectors[r] - 1 : r \in Roms}
ZeroRam == [k \in RamIndex |-> Zero]

Lowest(S) == CHOOSE s \in S : \A t \in S : s <= t

VARIABLES
  disk,               \* contents of the sectors from SAVE_AREA_START on
  rom,                \* the cartridge running, or NoRom
  ram,                \* its cartridge RAM
  ram_updated,        \* the MBC's flag: written since the last frame
  pending_save,       \* SaveTracker.pending_save
  frames_since_write, \* SaveTracker.frames_since_write
  slot,               \* the slot save_game is writing, or NoSlot
  next,               \* the sector of that slot it writes next (0: header)
  load_result,        \* what load_sram returned at power on
  touched             \* history: the game has written RAM since power on

tracker == <<pending_save, frames_since_write>>
vars == <<disk, rom, ram, ram_updated, tracker, slot, next, load_result, touched>>

-----------------------------------------------------------------------------
(* Searching the slots.  bad is the set of slots whose header read fails.  *)

Readable(s, bad) == BaseLba(s) < DiskSectors /\ s \notin bad
HeaderAt(s) == disk[BaseLba(s)]

SlotsOf(r, bad) ==
  {s \in Slots : /\ Readable(s, bad)
                 /\ is_valid(HeaderAt(s))
                 /\ HeaderAt(s).hash = Hash[r]}

find_save_slot(r, bad) ==
  IF SlotsOf(r, bad) = {} THEN NoSlot ELSE Lowest(SlotsOf(r, bad))

\* Mutant: the search for a free slot always answers the first one.
FirstSlot(bad) == 0

\* An unreadable slot counts as empty; with every slot in use, slot 0 goes.
find_empty_slot(bad) ==
  LET empty == {s \in Slots : Readable(s, bad) => ~ is_valid(HeaderAt(s))}
  IN  IF empty = {} THEN 0 ELSE Lowest(empty)

\* The slots whose header read may fail in one pass over the headers.
BadSets == IF IoFaults THEN SUBSET Slots ELSE {{}}

\* The RAM a load from slot s assembles: zeros past the size in the header.
ImageAt(s) ==
  [k \in RamIndex |-> IF s # NoSlot /\ k < HeaderAt(s).size
                      THEN disk[BaseLba(s) + 1 + k] ELSE Zero]

\* Mutant: a save as large as the buffer is taken for too large.
StrictLoadResults(r, s) ==
  IF r \notin Battery \/ s = NoSlot THEN {"NoSaveFound"}
  ELSE IF HeaderAt(s).size >= BufferSectors THEN {"SizeMismatch"}
  ELSE {"Success"}

\* What load_sram may return for r when it finds slot s.  The whole buffer
\* is handed to the MBC, which takes it only if it is the size of its RAM.
LoadResults(r, s) ==
  IF r \notin Battery \/ s = NoSlot THEN {"NoSaveFound"}
  ELSE LET size == HeaderAt(s).size
           fault == IF IoFaults THEN {"ReadError"} ELSE {}
       IN  IF size > BufferSectors THEN fault \cup {"SizeMismatch"}
           ELSE IF BaseLba(s) + size >= DiskSectors THEN {"ReadError"}
           ELSE IF RamSectors[r] # BufferSectors THEN fault \cup {"SizeMismatch"}
           ELSE fault \cup {"Success"}

-----------------------------------------------------------------------------
Init ==
  /\ disk = [lba \in 0 .. DiskSectors - 1 |-> Zero]
  /\ rom = NoRom /\ ram = ZeroRam /\ ram_updated = FALSE
  /\ pending_save = FALSE /\ frames_since_write = 0
  /\ slot = NoSlot /\ next = 0
  /\ load_result = "NoSaveFound" /\ touched = FALSE

\* The user selects r: the device is created and load_sram restores its RAM.
\* The result of load_sram is ignored: the game runs either way.
PowerOn(r) ==
  /\ rom = NoRom
  /\ rom' = r
  /\ \E bad \in BadSets :
       LET s == find_save_slot(r, bad) IN
       \E result \in LoadResults(r, s) :
         /\ load_result' = result
         /\ ram' = IF result = "Success" THEN ImageAt(s) ELSE ZeroRam
  /\ UNCHANGED <<disk, ram_updated, tracker, slot, next, touched>>

\* The game stores into its cartridge RAM.
WriteRam(k, v) ==
  /\ rom # NoRom /\ slot = NoSlot
  /\ k < RamSectors[rom]
  /\ ram' = [ram EXCEPT ![k] = v]
  /\ ram_updated' = TRUE
  /\ touched' = TRUE
  /\ UNCHANGED <<disk, rom, tracker, slot, next, load_result>>

\* Mutant: every save allocates a slot.
FreshSlot(bad1, bad2) == find_empty_slot(bad2)

\* The slot of a save: the game's own if it has one, else a free one.
ChosenSlot(bad1, bad2) ==
  IF find_save_slot(rom, bad1) # NoSlot
  THEN find_save_slot(rom, bad1) ELSE find_empty_slot(bad2)

\* save_sram up to the choice of the slot.
BeginSave ==
  /\ RamSectors[rom] > 0
  /\ \E bad1, bad2 \in BadSets : slot' = ChosenSlot(bad1, bad2)
  /\ next' = 0

\* savefile::update at the end of a frame: SaveTracker::tick and, when the
\* writes have settled, the start of a save.
Frame ==
  /\ rom \in Battery /\ slot = NoSlot
  /\ \/ /\ ram_updated
        /\ ram_updated' = FALSE
        /\ pending_save' = TRUE /\ frames_since_write' = 0
        /\ UNCHANGED <<slot, next>>
     \/ /\ ~ ram_updated /\ pending_save
        /\ IF frames_since_write + 1 >= SAVE_DEBOUNCE_FRAMES
           THEN /\ pending_save' = FALSE /\ frames_since_write' = 0
                /\ BeginSave
           ELSE /\ frames_since_write' = frames_since_write + 1
                /\ UNCHANGED <<pending_save, slot, next>>
        /\ UNCHANGED ram_updated
  /\ UNCHANGED <<disk, rom, ram, load_result, touched>>

\* Mutant: a save that is over starts again from its header.
RetrySave == slot' = slot /\ next' = 0

EndSave == slot' = NoSlot /\ next' = 0

\* Mutants: the sector count of a save is one too large, or one too small.
OneSectorMore == next <= RamSectors[rom]
OneSectorLess == next + 1 < RamSectors[rom]

MoreToWrite == next < RamSectors[rom]

\* Mutant: the header is written into the slot's last sector.
HeaderLastLba(s, i) == BaseLba(s) + SECTORS_PER_SLOT - 1 + i

\* Where save_game puts the header (i = 0) and RAM sector i - 1.
SectorLba(s, i) == BaseLba(s) + i

\* One write_sectors call of save_game: the header first, then the RAM.  The
\* drive's error bit is not looked at once the data is out, so a write that
\* failed may be reported as done, and one that was done as failed.
SaveSector ==
  LET lba == SectorLba(slot, next) IN
  /\ slot # NoSlot
  /\ \/ /\ lba >= DiskSectors
        /\ EndSave /\ UNCHANGED disk
     \/ /\ lba < DiskSectors
        /\ \E written, ok \in (IF IoFaults THEN BOOLEAN ELSE {TRUE}) :
             /\ disk' = IF written
                        THEN [disk EXCEPT ![lba] = IF next = 0 THEN HeaderOf(rom)
                                                   ELSE ram[next - 1]]
                        ELSE disk
             /\ IF ok /\ MoreToWrite
                THEN next' = next + 1 /\ UNCHANGED slot
                ELSE EndSave
  /\ UNCHANGED <<rom, ram, ram_updated, tracker, load_result, touched>>

\* The machine is switched off; only the disk survives.
PowerOff ==
  /\ rom # NoRom
  /\ slot = NoSlot \/ CutDuringSave
  /\ rom' = NoRom /\ ram' = ZeroRam /\ ram_updated' = FALSE
  /\ pending_save' = FALSE /\ frames_since_write' = 0
  /\ slot' = NoSlot /\ next' = 0
  /\ load_result' = "NoSaveFound" /\ touched' = FALSE
  /\ UNCHANGED disk

Next ==
  \/ \E r \in Roms : PowerOn(r)
  \/ \E k \in RamIndex, v \in Values : WriteRam(k, v)
  \/ Frame
  \/ SaveSector
  \/ PowerOff

Spec == Init /\ [][Next]_vars

\* The main loop calls update once per frame for ever, and every wait of
\* write_sectors is bounded by a counter.
FairSpec == Spec /\ WF_vars(Frame) /\ WF_vars(SaveSector)

-----------------------------------------------------------------------------
(* Properties *)

DiskOK == disk \in [0 .. DiskSectors - 1 -> Contents]
CartridgeOK ==
  /\ rom \in Roms \cup {NoRom}
  /\ ram \in [RamIndex -> Contents]
  /\ ram_updated \in BOOLEAN /\ touched \in BOOLEAN
  /\ load_result \in {"NoSaveFound", "SizeMismatch", "ReadError", "Success"}
TrackerOK ==
  /\ pending_save \in BOOLEAN
  /\ frames_since_write \in 0 .. SAVE_DEBOUNCE_FRAMES - 1
SavingOK ==
  /\ slot \in Slots \cup {NoSlot} /\ next \in Nat
  /\ slot # NoSlot => rom \in Battery /\ next <= RamSectors[rom]

\* The variables hold what the code's types allow, and a save in progress
\* belongs to a running battery-backed cartridge and never runs past its RAM.
TypeOK == DiskOK /\ CartridgeOK /\ TrackerOK /\ SavingOK

\* Every battery-backed cartridge leaves room for the header in its slot,
\* which 32KB ones do not.
Fits == \A r \in Battery : RamSectors[r] < SECTORS_PER_SLOT

\* A drive that holds the whole save area, does not fail, and cartridges
\* whose header is valid.
Reliable ==
  /\ IoFaults = FALSE
  /\ BaseLba(MAX_SAVE_SLOTS) <= DiskSectors
  /\ \A r \in Battery : RamSectors[r] <= MaxRamSectors

\* What a fault-free load of r would read back from the disk.
SavedImage(r) == ImageAt(find_save_slot(r, {}))

\* Nothing the game wrote is forgotten: with no write unnoticed, no save
\* pending and none running (ram_updated, SaveTracker, save_game all idle),
\* the disk holds the cartridge's RAM exactly, whatever power cuts, half
\* saves and evictions came before.
QuietMeansDurable ==
  /\ rom \in Battery
  /\ slot = NoSlot /\ ~ ram_updated /\ ~ pending_save
  /\ touched \/ load_result = "Success"
  => SavedImage(rom) = ram

\* Why QuietMeansDurable holds: a save in progress works on the slot a search
\* finds, its header is in place, and so are the sectors it has passed.
SavedSoFar ==
  slot # NoSlot =>
    /\ RamSectors[rom] > 0
    /\ \A t \in SlotsOf(rom, {}) : slot <= t
    /\ next > 0 => /\ slot \in SlotsOf(rom, {})
                   /\ HeaderAt(slot) = HeaderOf(rom)
                   /\ \A k \in 0 .. next - 2 : disk[SectorLba(slot, k + 1)] = ram[k]
DurableInv ==
  /\ QuietMeansDurable
  /\ SavedSoFar
  /\ rom = NoRom => ~ touched
  /\ rom # NoRom => \A k \in RamIndex : k >= RamSectors[rom] => ram[k] = Zero

\* find_save_slot stops at the first match, so no cartridge may ever have
\* two slots: the second would hold the newer save and never be read.
OneSlotPerRom ==
  \A s, t \in {u \in Slots : BaseLba(u) < DiskSectors} :
    /\ is_valid(HeaderAt(s)) /\ is_valid(HeaderAt(t))
    /\ HeaderAt(s).hash = HeaderAt(t).hash
    => s = t

\* A save writes only inside the slot it chose: the layout documented at
\* kernel/src/storage/savefile.rs:13-19.
SaveConfinedToSlot ==
  [][\A lba \in DOMAIN disk :
       disk'[lba] # disk[lba] => slot # NoSlot /\ lba \in SlotSectors(slot)]_vars

AllSlotsInUse ==
  \A s \in Slots : BaseLba(s) < DiskSectors /\ is_valid(HeaderAt(s))

\* Saving one game leaves what another would load as it was, except that
\* find_empty_slot sacrifices slot 0 once every slot holds a save.
OtherImagesKept ==
  [][\A r \in Roms :
       /\ slot # NoSlot /\ Hash[r] # Hash[rom]
       /\ find_save_slot(r, {}) # NoSlot
       /\ SavedImage(r)' # SavedImage(r)
       => AllSlotsInUse /\ slot = 0 /\ next = 0]_vars

\* Powering on a cartridge that has a save restores it: "On ROM load, we
\* restore any existing save back to RAM" (kernel/src/storage/savefile.rs:11).
RestoresExistingSave ==
  [][\A r \in Battery :
       rom = NoRom /\ rom' = r /\ find_save_slot(r, {}) # NoSlot
       => load_result' = "Success"]_vars

\* A write the tracker noticed leads to a save, unless the game writes again
\* or the power goes; and a save ends, whatever the drive does.
PendingResolves ==
  /\ pending_save ~> (ram_updated \/ ~ pending_save)
  /\ slot # NoSlot ~> slot = NoSlot

\* The slots implement one durable image per cartridge.
Store == INSTANCE SramStore WITH store <- [r \in Roms |-> SavedImage(r)]
ImplementsStore == Store!Spec
=============================================================================
