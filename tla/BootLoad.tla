------------------------------- MODULE BootLoad -------------------------------
(***************************************************************************)
(* From power-on to the emulator (kernel_main, load_rom, storage::init,    *)
(* rom_browser.rs): scan PCI, probe the drives, try a read, mount, count   *)
(* and list the ROMs, let the user choose, find the file and load it.  The *)
(* directory is walked anew each time, so the ROM that is counted, the one *)
(* whose name is drawn and the one that is found must be the same.         *)
(*                                                                         *)
(* AtaDrive has the driver and the drive, Fat32 the loops over the disk.   *)
(***************************************************************************)
EXTENDS AtaDrive, Fat32, Pci

CONSTANTS Machines,     \* PCI bus, drives, what is on the disk and what of it cannot be read
          RomUnits,     \* size of ROM_BUFFER in sectors: 4096 in the code
          MaxVisible    \* MAX_VISIBLE_ITEMS: 10 in the code

(***************************************************************************)
(* What is on a disk, whoever reads it: the sectors of the root directory  *)
(* in their order with the ROMs met before each, and those of a file.      *)
(* Either goes on as long as the clusters are in the chain and on the disk.*)
(* Sectors are numbered here without the bound of a u32.                   *)
(***************************************************************************)
FatBegin(d)     == d.mbr + d.bpb.reserved
ClusterAt(d, c) == FatBegin(d) + d.bpb.fats * d.bpb.spf + (c - 2) * d.bpb.spc
EntryAt(d, c)   == FatBegin(d) + (c * 4) \div d.bpb.bps

SectorAt(d, place) == ClusterAt(d, place.cluster) + place.offset
OnDisk(d, place)   == InChain(place.cluster) /\ SectorAt(d, place) < DiskSectors

\* The sectors of a cluster in the chain, and that of its entry, have numbers a u32 holds.
Addressed(d, c) == InChain(c) => ClusterAt(d, c) < SectorNumbers /\ EntryAt(d, c) < SectorNumbers

NextCluster(d, c) ==
  LET fs == Mounted(d.mbr, d.bpb)
  IN  IF EntryAt(d, c) < DiskSectors /\ ~Panics(fs, c) THEN AsFat(d, EntryAt(d, c), FatPlace(fs, c))
      ELSE 0
NextPlace(d, place) ==
  IF place.offset + 1 < d.bpb.spc THEN [cluster |-> place.cluster, offset |-> place.offset + 1]
  ELSE [cluster |-> NextCluster(d, place.cluster), offset |-> 0]

RomsIn(entries) == Scanned(entries, {i \in DOMAIN entries : IsRom(entries[i])})
DirStart(d) == LET root == [cluster |-> d.bpb.root, offset |-> 0]
               IN  [place |-> root, roms |-> <<>>, over |-> ~OnDisk(d, root)]
DirNext(d, s) ==
  LET x    == RomsIn(AsEntries(d, SectorAt(d, s.place)))
      next == NextPlace(d, s.place)
  IN  IF s.over THEN s ELSE [place |-> next, roms |-> s.roms \o x.listed, over |-> x.over \/ ~OnDisk(d, next)]
Directory(d) ==
  LET dir[n \in 0..d.extent] == IF n = 0 THEN DirStart(d) ELSE DirNext(d, dir[n - 1]) IN dir
RomList(d) == Directory(d)[d.extent].roms

FileStart(e) == [place |-> [cluster |-> e.cluster, offset |-> 0], sectors |-> <<>>]
FileNext(d, s) ==
  IF OnDisk(d, s.place)
  THEN [place |-> NextPlace(d, s.place), sectors |-> Append(s.sectors, SectorAt(d, s.place))]
  ELSE s
File(d, e) ==
  LET file[n \in 0..e.size] == IF n = 0 THEN FileStart(e) ELSE FileNext(d, file[n - 1]) IN file

Entries == [first : {"used", "deleted", "end"}, attr : {"none", "lfn", "label", "dir"},
            ext : {"gb", "other"}, name : STRING, cluster : Nat, size : Nat]
DiskTyped(d) ==
  /\ d.mbr \in Nat /\ d.extent \in Nat /\ {d.signed, d.regular} \subseteq BOOLEAN
  /\ d.bpb \in [bps : Nat, spc : Nat, reserved : Nat, fats : Nat, spf : Nat, root : Nat]
  /\ \A c \in DOMAIN d.fat : d.fat[c] \in Nat
  /\ \A n \in DOMAIN d.dirs : d.dirs[n] \in Seq(Entries)

\* The fields of a disk that the properties refer to.  It is regular only if its
\* directory comes to an end, within extent sectors, and no chain, of the directory
\* or of a ROM, comes to a cluster whose sectors have no number in a u32.  The
\* others are the names of the ROMs of such a disk, and the sectors of each.
DiskSound(d) ==
  BpbValid(d.bpb) /\ d.regular =>
    /\ Directory(d)[d.extent].over
    /\ \A n \in 0..d.extent : Addressed(d, Directory(d)[n].place.cluster)
    /\ \A i \in 1..Len(RomList(d)) :
         LET e == RomList(d)[i] IN \A n \in 0..e.size : Addressed(d, File(d, e)[n].place.cluster)
    /\ d.roms = [i \in 1..Len(RomList(d)) |-> RomList(d)[i].name]
    /\ \A i \in 1..Len(RomList(d)) :
         LET e == RomList(d)[i] IN d.files[e.name] = File(d, e)[e.size].sectors

ASSUME BootAssumption == RomUnits \in Nat \ {0} /\ MaxVisible \in Nat \ {0}
ASSUME MachinesAssumption ==
  \A m \in Machines : /\ m.attached \in [Slots -> DriveAnswers]
                       /\ DOMAIN m.bus \subseteq Location
                       /\ DiskTyped(m.disk) /\ DiskSound(m.disk)

VARIABLES
  bus, pci,     \* the PCI bus, and PCI_DEVICES
  disk,         \* the contents of the disk
  phase,        \* what kernel_main is doing
  fs,           \* FAT32_FS
  walk,         \* the walk over the disk in progress, see Fat32
  browser,      \* RomBrowser
  shown,        \* the names drawn in the list, from the first row
  picked,       \* history: the name under the cursor when the user chose
  rom           \* ROM_BUFFER, as the sectors loaded into it

vars == <<attached, slot, devices, drive, unreadable, io, failed, wrong,
          bus, pci, disk, phase, fs, walk, browser, shown, picked, rom>>
probeVars == <<attached, slot, devices, unreadable>>
hostVars  == <<bus, pci, disk>>
uiVars    == <<browser, shown, picked>>

Blank == "blank"    \* a row without a name

Init ==
  /\ AtaInit
  /\ \E m \in Machines :
       attached = m.attached /\ unreadable = m.unreadable /\ bus = m.bus /\ disk = m.disk
  /\ pci = <<>>
  /\ phase = "pci"
  /\ fs = NotMounted
  /\ walk = NoWalk
  /\ browser = [rom_count |-> 0, selected |-> 0, scroll_offset |-> 0]
  /\ shown = <<>>
  /\ picked = Blank
  /\ rom = <<>>
-----------------------------------------------------------------------------
(* Devices: storage::init, storage::test_read, Fat32::mount. *)

\* What PCI shows is only displayed.
Scan ==
  /\ phase = "pci"
  /\ pci' = enumerate(bus)
  /\ phase' = "probe"
  /\ UNCHANGED <<ataVars, bus, disk, fs, walk, uiVars, rom>>

ProbeDrive == phase = "probe" /\ Probe /\ UNCHANGED <<hostVars, phase, fs, walk, uiVars, rom>>

ReadDone == io.stage \in {"ok", "err"}
\* Only the disk in slot 0 is mounted; when that is a disk it is also the one tested.
MountFrom(i) == phase' = "mount" /\ io' = Asked(i, 0)

TestRead ==
  /\ phase = "probe" /\ Probed
  /\ IF Found = {} THEN phase' = "halt" /\ io' = io
     ELSE IF Disks = {} THEN MountFrom(0)
     ELSE phase' = "test" /\ io' = Asked(FirstDisk, 0)
  /\ UNCHANGED <<probeVars, drive, failed, wrong, hostVars, fs, walk, uiVars, rom>>

\* The result of the test does not matter.
Tested ==
  /\ phase = "test" /\ ReadDone
  /\ MountFrom(0)
  /\ UNCHANGED <<probeVars, drive, failed, wrong, hostVars, fs, walk, uiVars, rom>>

BeginWalk(f, w) ==
  /\ walk' = w
  /\ io' = IF w.at = "sector" THEN Asked(0, Request(f, w)) ELSE IdleIo

Mount ==
  /\ phase \in {"mount", "vbr"} /\ ReadDone
  /\ LET b == AsBoot(disk, io.data)
     IN CASE io.stage = "err" \/ ~b.signed -> phase' = "halt" /\ UNCHANGED <<fs, walk, io>>
          [] io.stage = "ok" /\ b.signed /\ phase = "mount" /\ NeedsVbr(b) ->
               phase' = "vbr" /\ io' = Asked(0, b.part) /\ UNCHANGED <<fs, walk>>
          [] OTHER ->
               IF BpbValid(b.bpb)
               THEN /\ fs' = Mounted(IF phase = "vbr" THEN disk.mbr ELSE 0, b.bpb)
                    /\ phase' = "count"
                    /\ BeginWalk(fs', DirWalk(fs', "count", 0))
               ELSE phase' = "halt" /\ UNCHANGED <<fs, walk, io>>
  /\ UNCHANGED <<probeVars, drive, failed, wrong, hostVars, uiVars, rom>>
-----------------------------------------------------------------------------
\* A walk takes the sector it asked for, and asks for the next.
WalkOn ==
  /\ walk.at \in {"sector", "fat"} /\ ReadDone
  /\ LET w == IF io.stage = "ok" THEN AfterSector(fs, walk, disk, io.data) ELSE AfterError(walk)
     IN  /\ walk' = w
         /\ io' = IF w.at \in {"sector", "fat"} THEN Asked(0, Request(fs, w)) ELSE IdleIo
         /\ phase' = IF w.at = "panic" THEN "panic" ELSE phase
  /\ UNCHANGED <<probeVars, drive, failed, wrong, hostVars, fs, uiVars, rom>>

WalkOver == walk.at \in {"end", "err"}
-----------------------------------------------------------------------------
(* The browser: RomBrowser::new, run, adjust_scroll, draw_list. *)

Visible(b) == IF b.rom_count - b.scroll_offset < MaxVisible THEN b.rom_count - b.scroll_offset
              ELSE MaxVisible

\* draw_list asks for the name of each visible row, one after the other.
DrawRow(b, row) == BeginWalk(fs, DirWalk(fs, "name", b.scroll_offset + row))

Redraw(b) ==
  /\ browser' = b
  /\ shown' = <<>>
  /\ phase' = "draw"
  /\ DrawRow(b, 0)
  /\ UNCHANGED <<probeVars, drive, failed, wrong, hostVars, fs, picked, rom>>

Counted ==
  /\ phase = "count" /\ WalkOver /\ walk.seen > 0
  /\ Redraw([rom_count |-> walk.seen, selected |-> 0, scroll_offset |-> 0])

NoRoms ==
  /\ phase = "count" /\ WalkOver /\ walk.seen = 0
  /\ phase' = "halt"
  /\ UNCHANGED <<ataVars, hostVars, fs, walk, uiVars, rom>>

RowDrawn ==
  /\ phase = "draw" /\ WalkOver
  /\ shown' = Append(shown, IF walk.found = NoEntry THEN Blank ELSE walk.found.name)
  /\ IF Len(shown') < Visible(browser)
     THEN DrawRow(browser, Len(shown')) /\ phase' = phase
     ELSE phase' = "browse" /\ UNCHANGED <<walk, io>>
  /\ UNCHANGED <<probeVars, drive, failed, wrong, hostVars, fs, browser, picked, rom>>

\* Mutant: the list scrolls down one row too late.
adjust_scroll_late(b) ==
  CASE b.selected < b.scroll_offset -> [b EXCEPT !.scroll_offset = b.selected]
    [] b.selected > b.scroll_offset + MaxVisible ->
         [b EXCEPT !.scroll_offset = b.selected - MaxVisible + 1]
    [] OTHER -> b

adjust_scroll(b) ==
  CASE b.selected < b.scroll_offset -> [b EXCEPT !.scroll_offset = b.selected]
    [] b.selected >= b.scroll_offset + MaxVisible ->
         [b EXCEPT !.scroll_offset = b.selected - MaxVisible + 1]
    [] OTHER -> b

Up ==
  /\ phase = "browse" /\ browser.selected > 0
  /\ Redraw(adjust_scroll([browser EXCEPT !.selected = @ - 1]))
Down ==
  /\ phase = "browse" /\ browser.selected < browser.rom_count - 1
  /\ Redraw(adjust_scroll([browser EXCEPT !.selected = @ + 1]))

Under == shown[browser.selected - browser.scroll_offset + 1]

Enter ==
  /\ phase = "browse"
  /\ phase' = "find"
  /\ BeginWalk(fs, DirWalk(fs, "find", browser.selected))
  /\ picked' = Under
  /\ UNCHANGED <<probeVars, drive, failed, wrong, hostVars, fs, browser, shown, rom>>
-----------------------------------------------------------------------------
(* load_rom *)

FileFound ==
  /\ phase = "find" /\ WalkOver /\ walk.found # NoEntry
  /\ phase' = "load"
  /\ BeginWalk(fs, FileWalk(walk.found, RomUnits))
  /\ UNCHANGED <<probeVars, drive, failed, wrong, hostVars, fs, uiVars, rom>>

\* The sectors are in the buffer whatever becomes of the load; only a load runs.
Loaded ==
  /\ phase = "load" /\ WalkOver
  /\ rom' = walk.buffer
  /\ phase' = IF walk.at = "end" /\ walk.buffer # <<>> THEN "run" ELSE "halt"
  /\ UNCHANGED <<ataVars, hostVars, fs, walk, uiVars>>

NotFound ==
  /\ phase = "find" /\ WalkOver /\ walk.found = NoEntry
  /\ phase' = "halt"
  /\ UNCHANGED <<ataVars, hostVars, fs, walk, uiVars, rom>>
-----------------------------------------------------------------------------
PollDrive == Poll /\ UNCHANGED <<hostVars, phase, fs, walk, uiVars, rom>>
DriveStep == Drive /\ UNCHANGED <<hostVars, phase, fs, walk, uiVars, rom>>

Kernel == \/ Scan \/ ProbeDrive \/ TestRead \/ Tested \/ Mount \/ WalkOn \/ Counted \/ NoRoms
          \/ RowDrawn \/ FileFound \/ Loaded \/ NotFound \/ PollDrive
User   == Up \/ Down \/ Enter
Next   == Kernel \/ User \/ DriveStep

\* The kernel runs; neither the user nor the drive has to do anything.
Spec == Init /\ [][Next]_vars /\ WF_vars(Kernel)
-----------------------------------------------------------------------------
Phases == {"pci", "probe", "test", "mount", "vbr", "count", "draw", "browse", "find", "load",
           "run", "halt", "panic"}

(***************************************************************************)
(* Type invariant: the driver's state, the list of PCI devices within its  *)
(* bound and without repetitions, a cursor on the list, a ROM that fits    *)
(* its buffer (storage, main.rs, rom_browser.rs).                          *)
(***************************************************************************)
TypeOK ==
  /\ AtaTypeOK
  /\ Len(pci) <= MaxPci /\ IsInjective(pci)
  /\ find_ide_controller(bus, pci) \in 0..Len(pci)
  /\ phase \in Phases
  /\ browser.selected \in 0..browser.rom_count
  /\ browser.selected = browser.rom_count => browser.rom_count = 0
  /\ Len(rom) <= RomUnits /\ Len(walk.buffer) <= RomUnits
  /\ Len(shown) <= MaxVisible

(***************************************************************************)
(* The ROM that runs is the one whose name was under the cursor: its       *)
(* sectors are those of that file from the first, and all of them that fit *)
(* the buffer when its chain is whole.  Three walks over the directory     *)
(* agree on what a ROM is (count_roms, get_rom_name, find_rom, read_file). *)
(* A wrong sector handed over by the driver is excused, a failed read is   *)
(* not.  A directory that goes in a circle has no list of ROMs to compare. *)
(* A chain with a cluster that is on no disk, as one marked bad is, ends   *)
(* there only if its sector's number fits a u32; where it wraps around     *)
(* (from 16 sectors in a cluster), other sectors are loaded, and run: such *)
(* disks are not regular.                                                  *)
(***************************************************************************)
LoadedIsShown ==
  phase = "run" /\ ~wrong /\ disk.regular /\ picked # Blank =>
    LET sectors == disk.files[picked]
    IN  /\ IsPrefix(rom, sectors)
        /\ Len(rom) = IF Len(sectors) < RomUnits THEN Len(sectors) ELSE RomUnits

(***************************************************************************)
(* While the user chooses, the cursor is on one of the rows drawn, and     *)
(* each row shows the ROM with its number or nothing; nothing only after a *)
(* read that failed (RomBrowser::run, adjust_scroll, draw_list).  The      *)
(* names are compared on regular disks: the directory ends, and no number  *)
(* of a sector wraps around.                                               *)
(***************************************************************************)
SelectedVisible ==
  phase = "browse" =>
    /\ browser.selected - browser.scroll_offset + 1 \in DOMAIN shown
    /\ wrong \/ ~disk.regular \/ \A row \in DOMAIN shown :
         \/ shown[row] = disk.roms[browser.scroll_offset + row]
         \/ failed /\ shown[row] = Blank

(***************************************************************************)
(* However the drive answers, or if it never does, the kernel comes to a   *)
(* list to choose from, to a game, or to a halt: every wait ends           *)
(* (wait_not_busy, wait_ready, wait_drq) and so does every walk, provided  *)
(* that the disk is regular.  A directory whose chain goes in a circle is  *)
(* read for ever (the while loop of count_roms).                           *)
(***************************************************************************)
Settled == phase \in {"browse", "run", "halt", "panic"}
BootSettles == disk.regular => []<>Settled
=============================================================================
