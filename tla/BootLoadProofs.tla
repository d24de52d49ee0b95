---------------------------- MODULE BootLoadProofs ----------------------------
(***************************************************************************)
(* Proofs about BootLoad for every machine, disk and size of the buffers:  *)
(* the driver hands over the sector asked for while no read has failed,    *)
(* the cursor is on a row that shows its ROM, and the ROM that runs is the *)
(* one under the cursor.                                                   *)
(*                                                                         *)
(* Three walks over the directory are followed along one list, the one     *)
(* that Directory defines: a walk stands at a place of that list and has   *)
(* seen the ROMs before it.                                                *)
(***************************************************************************)
EXTENDS BootLoad, DataProofs, SequenceTheorems, TLAPS

-----------------------------------------------------------------------------
(* The drive and the call that reads it. *)

\* A drive that works on a sector: told of it, busy with it, with its data, or with an error.
Working(lba) == {Status(FALSE, FALSE, FALSE, lba, NoSector), Status(TRUE, FALSE, FALSE, NoSector, lba),
                 Status(FALSE, TRUE, FALSE, NoSector, lba), Status(FALSE, FALSE, TRUE, NoSector, NoSector)}

OfDisk   == 0..DiskSectors - 1
DriveRecs == [bsy : BOOLEAN, drq : BOOLEAN, err : BOOLEAN,
              command : OfDisk \cup {NoSector}, job : OfDisk \cup {NoSector}]
Stages   == {"idle", "select", "ready", "data", "ok", "err"}
IoRecs   == [stage : Stages, lba : Nat, data : OfDisk \cup {NoSector}]
Reading  == io.stage \in {"select", "ready", "data"}

DriveInv ==
  /\ drive \in DriveRecs /\ io \in IoRecs /\ failed \in BOOLEAN /\ wrong \in BOOLEAN
  /\ drive.bsy => drive.job # NoSector /\ ~drive.drq /\ ~drive.err
  /\ drive.drq => drive.job # NoSector
  /\ Reading => io.lba \in OfDisk
  /\ io.stage = "ok" => io.data \in OfDisk /\ (~wrong => io.data = io.lba)
  /\ wrong => failed
  \* As long as no read has failed the drive does what the call waits for, and nothing else.
  /\ ~failed => IF io.stage = "data" THEN drive \in Working(io.lba) ELSE drive = IdleDrive

ProbeInv ==
  /\ slot \in 0..4 /\ devices \in [Slots -> [type : Types, sectors : {0, DiskSectors}, wide : BOOLEAN]]
  /\ attached \in [Slots -> DriveAnswers]

-----------------------------------------------------------------------------
(* The machine and the kernel's phases. *)

\* What init found in slot 0 can be read.
Good == devices[0].type = "Ata" /\ devices[0].sectors = DiskSectors /\ ~devices[0].wide

WithFs == {"count", "draw", "browse", "find", "load", "run"}
FsRecs == [bps : Nat \ {0}, spc : Nat \ {0}, root : Nat, fat : Nat, data : Nat]
OnTheWay == walk.at \in {"sector", "fat"}

PhaseInv ==
  /\ phase \in Phases /\ DiskTyped(disk) /\ DiskSound(disk)
  /\ DOMAIN bus \subseteq Location
  /\ fs \in FsRecs
  /\ phase \in {"pci", "probe"} => io = IdleIo
  /\ Reading => phase \in {"test", "mount", "vbr"} \/ OnTheWay
  /\ phase \in {"mount", "vbr"} => /\ io.lba = IF phase = "vbr" THEN disk.mbr ELSE 0
                                   /\ io.stage \notin {"idle", "err"} => Good
  /\ phase \in WithFs => /\ Good /\ BpbValid(disk.bpb)
                         /\ fs \in {Mounted(0, disk.bpb), Mounted(disk.mbr, disk.bpb)}
                         /\ ~wrong => fs = Mounted(disk.mbr, disk.bpb)

PciInv == Len(pci) <= MaxPci /\ IsInjective(pci) /\ find_ide_controller(bus, pci) \in 0..Len(pci)

-----------------------------------------------------------------------------
(* A walk over the disk, and the browser. *)

WalkRecs == [job : {"count", "name", "find", "read"}, index : Nat, seen : Nat, cluster : Nat, offset : Nat,
             want : 0..RomUnits, found : Entries \cup {NoEntry}, buffer : Seq(OfDisk), at : {"sector", "fat", "end", "err", "panic"}]

\* What a walk keeps, whatever it reads.
Going(w) == /\ w \in WalkRecs /\ Len(w.buffer) <= w.want
            /\ w.at = "sector" /\ w.job = "read" => Len(w.buffer) < w.want
            /\ w.at \in {"sector", "fat"} => /\ InChain(w.cluster) /\ w.found = NoEntry
                                             /\ w.job # "count" => w.seen <= w.index
            /\ w.job # "read" => w.at # "err"
WalkInv ==
  /\ Going(walk)
  /\ OnTheWay => /\ phase \in {"count", "draw", "find", "load"}
                 /\ io.stage # "idle" /\ io.lba = Request(fs, walk)
                 /\ io.stage = "err" => failed \/ io.lba \notin OfDisk
  /\ phase = "count" => walk.job = "count"
  /\ phase = "draw"  => walk.job = "name" /\ walk.index = browser.scroll_offset + Len(shown)
  /\ phase = "find"  => walk.job = "find" /\ walk.index = browser.selected
  /\ phase = "load"  => walk.job = "read"

Rows    == STRING \cup {Blank}
Listing == {"draw", "browse", "find", "load", "run"}
BrowserInv ==
  /\ browser \in [rom_count : Nat, selected : Nat, scroll_offset : Nat]
  /\ browser.selected < browser.rom_count \/ (browser.selected = 0 /\ browser.rom_count = 0)
  /\ shown \in Seq(Rows) /\ Len(shown) <= MaxVisible /\ picked \in Rows
  /\ rom \in Seq(OfDisk) /\ Len(rom) <= RomUnits
  /\ phase \in Listing => /\ browser.selected < browser.rom_count
                          /\ browser.scroll_offset <= browser.selected
                          /\ browser.selected < browser.scroll_offset + MaxVisible
  /\ phase = "draw"   => Len(shown) < Visible(browser)
  /\ phase = "browse" => Len(shown) = Visible(browser)

-----------------------------------------------------------------------------
(* What the walks find is what is on the disk. *)

RomEntries == {e \in Entries : IsRom(e)}
Places   == [cluster : Nat, offset : Nat]
DirRecs  == [place : Places, roms : Seq(RomEntries), over : BOOLEAN]
FileRecs == [place : Places, sectors : Seq(Nat)]

Dir(n)  == Directory(disk)[n]
Roms    == RomList(disk)
\* With a sound driver and a regular disk.
Clean   == ~wrong /\ disk.regular /\ phase \in WithFs

\* A walk that comes to this place of the directory has met this many ROMs.
Stands(d, place, seen) ==
  \E n \in 0..d.extent : LET s == Directory(d)[n]
                         IN  s.place = place /\ Len(s.roms) = seen /\ (s.over <=> ~OnDisk(d, place))
Follows(d, w, excused) ==
  /\ w.at = "sector" => Stands(d, [cluster |-> w.cluster, offset |-> w.offset], w.seen)
  /\ w.at = "fat" => Stands(d, [cluster |-> NextCluster(d, w.cluster), offset |-> 0], w.seen)
  /\ w.at \in {"sector", "fat"} => Addressed(d, w.cluster)
  /\ w.job = "count" => w.seen <= Len(RomList(d))
  /\ w.at = "end" /\ w.job # "count" =>
       IF w.found = NoEntry THEN excused \/ w.index >= Len(RomList(d))
       ELSE w.index < Len(RomList(d)) /\ w.found = RomList(d)[w.index + 1]
DirWalkInv == Clean /\ phase \in {"count", "draw", "find"} => Follows(disk, walk, failed)

RowShows(row) == \/ /\ browser.scroll_offset + row <= Len(Roms)
                    /\ shown[row] = Roms[browser.scroll_offset + row].name
                 \/ failed /\ shown[row] = Blank
ShownInv ==
  Clean =>
    /\ phase \in Listing => browser.rom_count <= Len(Roms)
    /\ phase \in {"draw", "browse"} => \A row \in 1..Len(shown) : RowShows(row)
    /\ phase \in {"find", "load"} => picked = Blank \/ picked = Roms[browser.selected + 1].name

\* No cluster that the file comes to has sectors without a number in a u32.
AllAddressed(d, e) == \A n \in 0..e.size : Addressed(d, File(d, e)[n].place.cluster)

\* A walk over a file has the sectors that the file begins with.
InFile(d, e, w) ==
  LET n == Len(w.buffer)
      f == File(d, e)
  IN  /\ w.want = IF e.size < RomUnits THEN e.size ELSE RomUnits
      /\ w.at \in {"sector", "fat", "end"} => f[n].sectors = w.buffer
      /\ w.at = "sector" => f[n].place = [cluster |-> w.cluster, offset |-> w.offset]
      /\ w.at = "fat" => \/ n = w.want
                         \/ f[n].place = [cluster |-> NextCluster(d, w.cluster), offset |-> 0]
      /\ w.at \in {"sector", "fat"} => Addressed(d, w.cluster)
      /\ w.at = "end" => n = w.want \/ ~OnDisk(d, f[n].place)
TheFile == Roms[browser.selected + 1]
FileInv == Clean /\ phase = "load" => InFile(disk, TheFile, walk)

\* The inductive invariant.
BootInv == /\ DriveInv /\ ProbeInv /\ PhaseInv /\ PciInv /\ WalkInv /\ BrowserInv
           /\ DirWalkInv /\ ShownInv /\ FileInv /\ LoadedIsShown


-----------------------------------------------------------------------------
(* The drive. *)

\* Numbers of sectors, and no sector.
LEMMA Sizes ==
  /\ DiskSectors \in Nat /\ DiskSectors > 0 /\ NoSector \notin Nat /\ NoSector \notin OfDisk
  /\ \A n \in Nat : n \in OfDisk <=> n < DiskSectors
  /\ OfDisk \subseteq Nat
BY DriveAssumption DEF OfDisk

\* The fields of a status, and what has these fields.
LEMMA StatusFields ==
  ASSUME NEW x \in DriveRecs
  PROVE  /\ x.bsy \in BOOLEAN /\ x.drq \in BOOLEAN /\ x.err \in BOOLEAN
         /\ x.command \in OfDisk \cup {NoSector} /\ x.job \in OfDisk \cup {NoSector}
<1> DEFINE D == OfDisk \cup {NoSector}
<1> HIDE DEF D
<1>1. DriveRecs = [bsy : BOOLEAN, drq : BOOLEAN, err : BOOLEAN, command : D, job : D]
  BY DEF DriveRecs, D
<1>2. /\ x.bsy \in BOOLEAN /\ x.drq \in BOOLEAN /\ x.err \in BOOLEAN
      /\ x.command \in D /\ x.job \in D
  BY <1>1
<1> QED BY <1>2 DEF D

\* A status built from its parts has the type of a drive.
LEMMA StatusTyped ==
  ASSUME NEW b \in BOOLEAN, NEW d \in BOOLEAN, NEW e \in BOOLEAN,
         NEW c \in OfDisk \cup {NoSector}, NEW j \in OfDisk \cup {NoSector}
  PROVE  Status(b, d, e, c, j) \in DriveRecs
<1> DEFINE D == OfDisk \cup {NoSector}
<1> HIDE DEF D
<1>1. DriveRecs = [bsy : BOOLEAN, drq : BOOLEAN, err : BOOLEAN, command : D, job : D]
  BY DEF DriveRecs, D
<1>2. c \in D /\ j \in D
  BY DEF D
<1> QED BY <1>1, <1>2 DEF Status

\* The fields of a call, and what has these fields.
LEMMA CallFields ==
  /\ \A x \in IoRecs : x.stage \in Stages /\ x.lba \in Nat /\ x.data \in OfDisk \cup {NoSector}
  /\ \A st, n, dt : LET x == Call(st, n, dt) IN x.stage = st /\ x.lba = n /\ x.data = dt
  /\ \A st \in Stages, n \in Nat, dt \in OfDisk \cup {NoSector} : Call(st, n, dt) \in IoRecs
<1> DEFINE D == OfDisk \cup {NoSector}
<1> HIDE DEF D
<1>1. IoRecs = [stage : Stages, lba : Nat, data : D]
  BY DEF IoRecs, D
<1>2. \A x \in IoRecs : x.stage \in Stages /\ x.lba \in Nat /\ x.data \in D
  BY <1>1
<1>3. \A st \in Stages, n \in Nat, dt \in D : Call(st, n, dt) \in IoRecs
  BY <1>1 DEF Call
<1> QED BY <1>2, <1>3 DEF D, Call

\* What read_sectors begins with: only a sector of a disk is asked for.
LEMMA AskedFacts ==
  ASSUME ProbeInv, NEW i \in Slots, NEW lba \in Nat
  PROVE  /\ Asked(i, lba) \in IoRecs /\ Asked(i, lba).stage \in {"select", "err"}
         /\ Asked(i, lba).lba = lba
         /\ Asked(i, lba).stage = "select" =>
              /\ lba \in OfDisk
              /\ devices[i].type = "Ata" /\ devices[i].sectors = DiskSectors /\ ~devices[i].wide
         /\ Asked(i, lba).stage = "err" =>
              lba \notin OfDisk \/ ~(devices[i].type = "Ata" /\ devices[i].sectors = DiskSectors /\ ~devices[i].wide)
<1> DEFINE k == devices[i]
<1>1. k \in [type : Types, sectors : {0, DiskSectors}, wide : BOOLEAN]
  BY DEF ProbeInv
<1>2. k.sectors \in {0, DiskSectors} /\ k.wide \in BOOLEAN
  BY <1>1
<1> HIDE DEF k
<1> DEFINE ok == k.type = "Ata" /\ lba < k.sectors /\ ~k.wide
           x == Call(IF ok THEN "select" ELSE "err", lba, NoSector)
<1>3. Asked(i, lba) = x
  BY DEF Asked, k
<1>4. ok => lba \in OfDisk /\ k.sectors = DiskSectors
  BY <1>2, Sizes
<1>5. ~ok => lba \notin OfDisk \/ ~(k.type = "Ata" /\ k.sectors = DiskSectors /\ ~k.wide)
  BY <1>2, Sizes
<1>6. x \in IoRecs /\ x.stage = (IF ok THEN "select" ELSE "err") /\ x.lba = lba
  BY CallFields DEF Stages
<1>7. x.stage \in {"select", "err"} /\ (x.stage = "select" => ok) /\ (x.stage = "err" => ~ok)
  BY <1>6
<1> HIDE DEF ok, x
<1> QED BY <1>2, <1>3, <1>4, <1>5, <1>6, <1>7 DEF k, ok

\* A new call, or none, while the drive has nothing to hand over.
LEMMA DriveKept ==
  ASSUME DriveInv, UNCHANGED <<drive, failed, wrong>>, io' \in IoRecs,
         io' = io \/ /\ io'.stage \in {"idle", "select", "err"} /\ io.stage # "data"
                     /\ io'.stage = "select" => io'.lba \in OfDisk
  PROVE  DriveInv'
<1>1. /\ io' \in IoRecs /\ drive' = drive /\ failed' = failed /\ wrong' = wrong
  OBVIOUS
<1>2. CASE io' = io
  BY <1>1, <1>2 DEF DriveInv, Reading
<1>3. CASE io' # io
  <2>1. /\ io'.stage \in {"idle", "select", "err"} /\ io.stage # "data"
        /\ io'.stage = "select" => io'.lba \in OfDisk
    BY <1>3
  <2>2. /\ Reading' => io'.lba \in OfDisk
        /\ io'.stage # "ok" /\ io'.stage # "data"
    BY <2>1 DEF Reading
  <2> QED BY <1>1, <2>1, <2>2 DEF DriveInv
<1> QED BY <1>2, <1>3

\* The driver's polls: a call goes on, fails, or gets the sector it asked for.
LEMMA PollStep == DriveInv /\ Poll => DriveInv'
<1> SUFFICES ASSUME DriveInv, Poll PROVE DriveInv'
  OBVIOUS
<1>1. /\ drive \in DriveRecs /\ io \in IoRecs /\ failed \in BOOLEAN /\ wrong \in BOOLEAN
      /\ drive.bsy => drive.job # NoSector /\ ~drive.drq /\ ~drive.err
      /\ drive.drq => drive.job # NoSector
      /\ Reading => io.lba \in OfDisk
      /\ wrong => failed
      /\ ~failed => IF io.stage = "data" THEN drive \in Working(io.lba) ELSE drive = IdleDrive
  BY DEF DriveInv
<1>2. io.lba \in Nat /\ io.data \in OfDisk \cup {NoSector}
  BY <1>1, CallFields
<1>3. /\ drive.bsy \in BOOLEAN /\ drive.drq \in BOOLEAN /\ drive.err \in BOOLEAN
      /\ drive.command \in OfDisk \cup {NoSector} /\ drive.job \in OfDisk \cup {NoSector}
  BY <1>1, StatusFields
<1>4. ASSUME Select PROVE DriveInv'
  <2>1. /\ io' = Call("ready", io.lba, io.data) /\ io.stage = "select"
        /\ drive' = drive /\ failed' = failed /\ wrong' = wrong
    BY <1>4 DEF Select
  <2>2. io'.stage = "ready" /\ io'.lba = io.lba /\ io' \in IoRecs
    BY <1>2, <2>1, CallFields DEF Stages
  <2> QED BY <1>1, <2>1, <2>2 DEF DriveInv, Reading
<1>5. ASSUME Command PROVE DriveInv'
  <2>1. /\ io' = Call("data", io.lba, io.data) /\ io.stage = "ready" /\ ~drive.bsy
        /\ drive' = Status(drive.bsy, drive.drq, drive.err, io.lba, drive.job)
        /\ failed' = failed /\ wrong' = wrong
    BY <1>5 DEF Command
  <2>2. io'.stage = "data" /\ io'.lba = io.lba /\ io' \in IoRecs /\ io.lba \in OfDisk
    BY <1>1, <1>2, <2>1, CallFields DEF Stages, Reading
  <2>3. drive' \in DriveRecs /\ drive'.drq = drive.drq /\ drive'.job = drive.job /\ drive'.bsy = drive.bsy
    <3>1. drive' \in DriveRecs
      BY <1>3, <2>1, <2>2, StatusTyped
    <3> QED BY <2>1, <3>1 DEF Status
  <2>4. ASSUME ~failed PROVE drive' \in Working(io.lba)
    <3>1. drive = IdleDrive
      BY <1>1, <2>1, <2>4
    <3>2. drive.bsy = FALSE /\ drive.drq = FALSE /\ drive.err = FALSE /\ drive.job = NoSector
      BY <3>1 DEF IdleDrive, Status
    <3> QED BY <2>1, <3>2 DEF Working
  <2> QED BY <1>1, <2>1, <2>2, <2>3, <2>4 DEF DriveInv, Reading
<1>6. ASSUME Fail, UNCHANGED <<drive, wrong>> PROVE DriveInv'
  <2>1. /\ io' = Call("err", io.lba, io.data) /\ failed' = TRUE
        /\ drive' = drive /\ wrong' = wrong
    BY <1>6 DEF Fail
  <2>2. io'.stage = "err" /\ io' \in IoRecs
    BY <1>2, <2>1, CallFields DEF Stages
  <2> QED BY <1>1, <2>1, <2>2 DEF DriveInv, Reading
<1>7. ASSUME Data PROVE DriveInv'
  <2>1. /\ io' = Call("ok", io.lba, drive.job) /\ wrong' = (wrong \/ drive.job # io.lba)
        /\ drive' = Status(drive.bsy, FALSE, drive.err, drive.command, NoSector) /\ failed' = failed
        /\ io.stage = "data" /\ ~drive.err /\ drive.drq
    BY <1>7 DEF Data, Offered
  <2>2. drive.job \in OfDisk /\ ~drive.bsy
    BY <1>1, <1>3, <2>1
  <2>3. io'.stage = "ok" /\ io'.lba = io.lba /\ io'.data = drive.job /\ io' \in IoRecs
    BY <1>2, <1>3, <2>1, CallFields DEF Stages
  <2>4. drive' \in DriveRecs /\ drive'.bsy = drive.bsy /\ drive'.drq = FALSE
    <3>1. drive' \in DriveRecs
      BY <1>3, <2>1, StatusTyped
    <3> QED BY <2>1, <3>1 DEF Status
  <2>5. ASSUME ~failed PROVE drive.job = io.lba /\ drive' = IdleDrive
    <3>1. drive \in Working(io.lba)
      BY <1>1, <2>1, <2>5
    <3>2. drive = Status(FALSE, TRUE, FALSE, NoSector, io.lba)
      BY <2>1, <3>1 DEF Working, Status
    <3>3. drive.bsy = FALSE /\ drive.err = FALSE /\ drive.command = NoSector /\ drive.job = io.lba
      BY <3>2 DEF Status
    <3> QED BY <2>1, <3>3 DEF IdleDrive
  <2>6. wrong' \in BOOLEAN /\ (wrong' => failed') /\ (~wrong' => io'.data = io'.lba)
    BY <1>1, <2>1, <2>3, <2>5
  <2> QED BY <1>1, <2>1, <2>2, <2>3, <2>4, <2>5, <2>6 DEF DriveInv, Reading
<1> QED BY <1>4, <1>5, <1>6, <1>7 DEF Poll, DataError, Timeout

\* The drive at work hands nothing over by itself.
LEMMA DriveWorks == DriveInv /\ Drive => DriveInv'
<1> SUFFICES ASSUME DriveInv, Drive PROVE DriveInv'
  OBVIOUS
<1>1. /\ drive \in DriveRecs /\ io \in IoRecs /\ failed \in BOOLEAN /\ wrong \in BOOLEAN
      /\ drive.bsy => drive.job # NoSector /\ ~drive.drq /\ ~drive.err
      /\ ~failed => IF io.stage = "data" THEN drive \in Working(io.lba) ELSE drive = IdleDrive
      /\ NoSector \notin OfDisk /\ (io.stage = "data" => io.lba \in OfDisk)
  BY Sizes DEF DriveInv, Reading
<1>2. io' = io /\ failed' = failed /\ wrong' = wrong
  BY DEF Drive
<1>3. /\ drive.bsy \in BOOLEAN /\ drive.drq \in BOOLEAN /\ drive.err \in BOOLEAN
      /\ drive.command \in OfDisk \cup {NoSector} /\ drive.job \in OfDisk \cup {NoSector}
  BY <1>1, StatusFields
<1>4. ASSUME NEW d \in DriveRecs, drive' = d,
             d.bsy => d.job # NoSector /\ ~d.drq /\ ~d.err,
             d.drq => d.job # NoSector,
             ~failed => io.stage = "data" /\ d \in Working(io.lba)
      PROVE  DriveInv'
  BY <1>1, <1>2, <1>4 DEF DriveInv, Reading
<1>5. ASSUME ~failed, drive # IdleDrive
      PROVE  /\ io.stage = "data" /\ drive \in Working(io.lba) /\ io.lba \in OfDisk
             /\ drive.command # NoSector => drive.command = io.lba
             /\ drive.bsy => drive.command = NoSector /\ drive.job = io.lba
  <2>1. io.stage = "data" /\ drive \in Working(io.lba) /\ io.lba \in OfDisk
    BY <1>1, <1>5
  <2>2. drive.command # NoSector => drive.command = io.lba
    BY <2>1, <1>1 DEF Working, Status
  <2>3. drive.bsy => drive.command = NoSector /\ drive.job = io.lba
    BY <2>1, <1>1 DEF Working, Status
  <2> QED BY <2>1, <2>2, <2>3
<1>6. IdleDrive.bsy = FALSE /\ IdleDrive.command = NoSector
  BY DEF IdleDrive, Status
<1>7. CASE Accept
  <2> DEFINE d == Status(TRUE, FALSE, FALSE, NoSector, drive.command)
  <2>1. drive.command \in OfDisk /\ drive' = d
    BY <1>3, <1>7 DEF Accept
  <2>2. /\ d \in DriveRecs
        /\ d.bsy = TRUE /\ d.drq = FALSE /\ d.err = FALSE /\ d.job = drive.command
    <3>1. d \in DriveRecs
      BY <2>1, StatusTyped
    <3> QED BY <3>1 DEF Status
  <2>3. ASSUME ~failed PROVE io.stage = "data" /\ d \in Working(io.lba)
    <3>1. drive # IdleDrive
      BY <1>1, <1>6, <2>1
    <3>2. drive.command = io.lba /\ io.stage = "data"
      BY <1>1, <1>5, <2>1, <2>3, <3>1
    <3> QED BY <3>2 DEF Working
  <2> HIDE DEF d
  <2> QED BY <1>1, <1>4, <2>1, <2>2, <2>3
<1>8. CASE Finish
  <2> DEFINE e == Status(FALSE, drive.drq, TRUE, drive.command, NoSector)
             g == Status(FALSE, TRUE, drive.err, drive.command, drive.job)
  <2>1. /\ drive.bsy /\ drive.job \in OfDisk /\ drive.drq = FALSE /\ drive.err = FALSE
        /\ drive' = IF drive.job \in unreadable THEN e ELSE g
    BY <1>1, <1>3, <1>8 DEF Finish
  <2>2. /\ e \in DriveRecs /\ e.bsy = FALSE /\ e.drq = FALSE
        /\ g \in DriveRecs /\ g.bsy = FALSE /\ g.job = drive.job
    <3>1. e \in DriveRecs /\ g \in DriveRecs
      BY <1>3, <2>1, StatusTyped
    <3>2. e.bsy = FALSE /\ g.bsy = FALSE /\ g.job = drive.job
      BY DEF Status
    <3>3. e.drq = drive.drq
      BY DEF Status
    <3> QED BY <2>1, <3>1, <3>2, <3>3
  <2>3. ASSUME ~failed PROVE io.stage = "data" /\ e \in Working(io.lba) /\ g \in Working(io.lba)
    <3>1. drive # IdleDrive
      BY <1>6, <2>1
    <3>2. drive.command = NoSector /\ drive.job = io.lba /\ io.stage = "data"
      BY <1>5, <2>1, <2>3, <3>1
    <3> QED BY <2>1, <3>2 DEF Working
  <2> HIDE DEF e, g
  <2>4. CASE drive.job \in unreadable
    <3>1. drive' = e
      BY <2>1, <2>4
    <3> QED BY <1>4, <2>2, <2>3, <3>1
  <2>5. CASE drive.job \notin unreadable
    <3>1. drive' = g
      BY <2>1, <2>5
    <3> QED BY <1>1, <1>4, <2>1, <2>2, <2>3, <3>1
  <2> QED BY <2>4, <2>5
<1> QED BY <1>7, <1>8 DEF Drive

-----------------------------------------------------------------------------
(* Walks as records: what a step changes, and what it leaves. *)
Jobs == {"count", "name", "find", "read"}
Ats  == {"sector", "fat", "end", "err", "panic"}

\* The fields of a walk have their types.
LEMMA WalkFields ==
  ASSUME NEW w \in WalkRecs
  PROVE  /\ w.job \in Jobs /\ w.index \in Nat /\ w.seen \in Nat /\ w.cluster \in Nat /\ w.offset \in Nat
         /\ w.want \in 0..RomUnits /\ w.found \in Entries \cup {NoEntry} /\ w.buffer \in Seq(OfDisk) /\ w.at \in Ats
<1> DEFINE W == 0..RomUnits
           B == Seq(OfDisk)
           E == Entries \cup {NoEntry}
<1> HIDE DEF W, B, E
<1>1. WalkRecs = [job : Jobs, index : Nat, seen : Nat, cluster : Nat, offset : Nat,
                  want : W, found : E, buffer : B, at : Ats]
  BY DEF WalkRecs, Jobs, Ats, W, B, E
<1>2. /\ w.job \in Jobs /\ w.index \in Nat /\ w.seen \in Nat /\ w.cluster \in Nat /\ w.offset \in Nat
      /\ w.want \in W /\ w.found \in E /\ w.buffer \in B /\ w.at \in Ats
  BY <1>1
<1> QED BY <1>2 DEF W, B, E

\* One field of a walk is set.
LEMMA WalkAt ==
  ASSUME NEW w \in WalkRecs, NEW x \in Ats, NEW v, v = [w EXCEPT !.at = x]
  PROVE  /\ v \in WalkRecs /\ v.at = x
         /\ v.job = w.job /\ v.index = w.index /\ v.seen = w.seen /\ v.cluster = w.cluster
         /\ v.offset = w.offset /\ v.want = w.want /\ v.found = w.found /\ v.buffer = w.buffer
<1> DEFINE W == 0..RomUnits
           B == Seq(OfDisk)
           A == Ats
           J == Jobs
           E == Entries \cup {NoEntry}
<1> HIDE DEF W, B, A, J, E
<1>1. WalkRecs = [job : J, index : Nat, seen : Nat, cluster : Nat, offset : Nat,
                  want : W, found : E, buffer : B, at : A]
  BY DEF WalkRecs, Jobs, Ats, W, B, A, J, E
<1>2. x \in A
  BY DEF A
<1> QED BY <1>1, <1>2

\* A walk stays one when its cluster is replaced, and nothing else changes.
LEMMA WalkCluster ==
  ASSUME NEW w \in WalkRecs, NEW x \in Nat, NEW v, v = [w EXCEPT !.cluster = x]
  PROVE  /\ v \in WalkRecs /\ v.cluster = x
         /\ v.job = w.job /\ v.index = w.index /\ v.seen = w.seen /\ v.offset = w.offset
         /\ v.want = w.want /\ v.found = w.found /\ v.buffer = w.buffer /\ v.at = w.at
<1> DEFINE W == 0..RomUnits
           B == Seq(OfDisk)
           A == Ats
           J == Jobs
           E == Entries \cup {NoEntry}
<1> HIDE DEF W, B, A, J, E
<1>1. WalkRecs = [job : J, index : Nat, seen : Nat, cluster : Nat, offset : Nat,
                  want : W, found : E, buffer : B, at : A]
  BY DEF WalkRecs, Jobs, Ats, W, B, A, J, E
<1> QED BY <1>1

\* The same of the sector within the cluster.
LEMMA WalkOffset ==
  ASSUME NEW w \in WalkRecs, NEW x \in Nat, NEW v, v = [w EXCEPT !.offset = x]
  PROVE  /\ v \in WalkRecs /\ v.offset = x
         /\ v.job = w.job /\ v.index = w.index /\ v.seen = w.seen /\ v.cluster = w.cluster
         /\ v.want = w.want /\ v.found = w.found /\ v.buffer = w.buffer /\ v.at = w.at
<1> DEFINE W == 0..RomUnits
           B == Seq(OfDisk)
           A == Ats
           J == Jobs
           E == Entries \cup {NoEntry}
<1> HIDE DEF W, B, A, J, E
<1>1. WalkRecs = [job : J, index : Nat, seen : Nat, cluster : Nat, offset : Nat,
                  want : W, found : E, buffer : B, at : A]
  BY DEF WalkRecs, Jobs, Ats, W, B, A, J, E
<1> QED BY <1>1

\* The same of the number of ROMs seen.
LEMMA WalkSeen ==
  ASSUME NEW w \in WalkRecs, NEW x \in Nat, NEW v, v = [w EXCEPT !.seen = x]
  PROVE  /\ v \in WalkRecs /\ v.seen = x
         /\ v.job = w.job /\ v.index = w.index /\ v.cluster = w.cluster /\ v.offset = w.offset
         /\ v.want = w.want /\ v.found = w.found /\ v.buffer = w.buffer /\ v.at = w.at
<1> DEFINE W == 0..RomUnits
           B == Seq(OfDisk)
           A == Ats
           J == Jobs
           E == Entries \cup {NoEntry}
<1> HIDE DEF W, B, A, J, E
<1>1. WalkRecs = [job : J, index : Nat, seen : Nat, cluster : Nat, offset : Nat,
                  want : W, found : E, buffer : B, at : A]
  BY DEF WalkRecs, Jobs, Ats, W, B, A, J, E
<1> QED BY <1>1

\* The same of the entry found.
LEMMA WalkFound ==
  ASSUME NEW w \in WalkRecs, NEW x \in Entries \cup {NoEntry}, NEW v, v = [w EXCEPT !.found = x]
  PROVE  /\ v \in WalkRecs /\ v.found = x
         /\ v.job = w.job /\ v.index = w.index /\ v.seen = w.seen /\ v.cluster = w.cluster
         /\ v.offset = w.offset /\ v.want = w.want /\ v.buffer = w.buffer /\ v.at = w.at
<1> DEFINE W == 0..RomUnits
           B == Seq(OfDisk)
           A == Ats
           J == Jobs
           E == Entries \cup {NoEntry}
<1> HIDE DEF W, B, A, J, E
<1>1. WalkRecs = [job : J, index : Nat, seen : Nat, cluster : Nat, offset : Nat,
                  want : W, found : E, buffer : B, at : A]
  BY DEF WalkRecs, Jobs, Ats, W, B, A, J, E
<1>2. x \in E
  BY DEF E
<1> QED BY <1>1, <1>2

\* The same of the sectors read.
LEMMA WalkBuffer ==
  ASSUME NEW w \in WalkRecs, NEW x \in Seq(OfDisk), NEW v, v = [w EXCEPT !.buffer = x]
  PROVE  /\ v \in WalkRecs /\ v.buffer = x
         /\ v.job = w.job /\ v.index = w.index /\ v.seen = w.seen /\ v.cluster = w.cluster
         /\ v.offset = w.offset /\ v.want = w.want /\ v.found = w.found /\ v.at = w.at
<1> DEFINE W == 0..RomUnits
           B == Seq(OfDisk)
           A == Ats
           J == Jobs
           E == Entries \cup {NoEntry}
<1> HIDE DEF W, B, A, J, E
<1>1. WalkRecs = [job : J, index : Nat, seen : Nat, cluster : Nat, offset : Nat,
                  want : W, found : E, buffer : B, at : A]
  BY DEF WalkRecs, Jobs, Ats, W, B, A, J, E
<1>2. x \in B
  BY DEF B
<1> QED BY <1>1, <1>2

-----------------------------------------------------------------------------
(* The entries of a sector that a walk lists. *)

\* What a scan of a sector lists is at the places asked for.
LEMMA ScannedTyped ==
  ASSUME NEW entries \in Seq(Entries), NEW places
  PROVE  Scanned(entries, places) \in
           [listed : Seq({entries[i] : i \in places \cap DOMAIN entries}), over : BOOLEAN]
<1> DEFINE N == Len(entries)
           T == {entries[i] : i \in places \cap DOMAIN entries}
           S == [listed : Seq(T), over : BOOLEAN]
           a == [listed |-> <<>>, over |-> FALSE]
           Advance(s, i) ==
             CASE s.over \/ entries[i].first = "end" -> [listed |-> s.listed, over |-> TRUE]
               [] ~(s.over \/ entries[i].first = "end") /\ i \in places ->
                    [listed |-> Append(s.listed, entries[i]), over |-> FALSE]
               [] OTHER -> s
           scan[i \in 0..N] == IF i = 0 THEN a ELSE Advance(scan[i - 1], i)
           Body(f) == [i \in 0..N |-> IF i = 0 THEN a ELSE Advance(f[i - 1], i)]
           step == [x \in S \X (1..N) |-> Advance(x[1], x[2])]
<1>0. Scanned(entries, places) = scan[N]
  BY DEF Scanned
<1>1. N \in Nat /\ DOMAIN entries = 1..N
  OBVIOUS
<1> HIDE DEF N
<1>2. a \in S
  <2>1. <<>> \in Seq(T)
    OBVIOUS
  <2> HIDE DEF T
  <2> QED BY <2>1
<1>3. ASSUME NEW s \in S, NEW i \in 1..N PROVE Advance(s, i) \in S
  <2>1. entries[i] \in T \/ i \notin places
    BY <1>1
  <2> HIDE DEF T
  <2>2. s.listed \in Seq(T) /\ s.over \in BOOLEAN
    OBVIOUS
  <2>3. i \in places => Append(s.listed, entries[i]) \in Seq(T)
    BY <2>1, <2>2
  <2> DEFINE L == Seq(T)
  <2> HIDE DEF L
  <2>4. CASE s.over \/ entries[i].first = "end"
    <3>1. [listed |-> s.listed, over |-> TRUE] \in S
      BY <2>2 DEF L
    <3> QED BY <2>4, <3>1
  <2>5. CASE ~(s.over \/ entries[i].first = "end") /\ i \in places
    <3>1. [listed |-> Append(s.listed, entries[i]), over |-> FALSE] \in S
      BY <2>3, <2>5 DEF L
    <3> QED BY <2>5, <3>1
  <2>6. CASE ~(s.over \/ entries[i].first = "end") /\ i \notin places
    BY <2>6
  <2> QED BY <2>4, <2>5, <2>6
<1>4. \E g : g = Body(g)
  <2>0. step \in [S \X (1..N) -> S]
    <3> HIDE DEF Advance, S
    <3>1. ASSUME NEW x \in S \X (1..N) PROVE Advance(x[1], x[2]) \in S
      <4>1. x[1] \in S /\ x[2] \in 1..N
        OBVIOUS
      <4> QED BY <1>3, <4>1
    <3> QED BY <3>1
  <2>1. PICK g \in [0..N -> S] : Iterates(g, N, a, step)
    <3> HIDE DEF a, S, step
    <3> QED BY <1>1, <1>2, <2>0, Iterated
  <2>2. ASSUME NEW n \in 0..N PROVE g[n] = IF n = 0 THEN a ELSE Advance(g[n - 1], n)
    <3> HIDE DEF Advance, a, S
    <3>1. g[n] = IF n = 0 THEN a ELSE step[<<g[n - 1], n>>]
      BY <2>1 DEF Iterates
    <3>2. n # 0 => n \in 1..N /\ n - 1 \in 0..N
      BY <1>1
    <3>3. n # 0 => <<g[n - 1], n>> \in S \X (1..N)
      BY <3>2
    <3> QED BY <3>1, <3>3
  <2> HIDE DEF Advance, a, S
  <2> QED BY <2>2
<1>5. scan = Body(scan)
  BY <1>4
<1> HIDE DEF scan, Advance, a
<1>6. \A n \in 0..N : scan[n] \in S
  <2> DEFINE P == {n \in 0..N : scan[n] \in S}
  <2> HIDE DEF S
  <2>1. 0 \in P
    BY <1>1, <1>2, <1>5
  <2>2. ASSUME NEW n \in 1..N, n - 1 \in P PROVE n \in P
    <3>1. scan[n] = Advance(scan[n - 1], n) /\ scan[n - 1] \in S /\ n \in 0..N
      BY <1>1, <1>5, <2>2
    <3>2. Advance(scan[n - 1], n) \in S
      BY <1>3, <2>2, <3>1
    <3> QED BY <3>1, <3>2
  <2> HIDE DEF P
  <2>3. \A n \in 0..N : n \in P
    BY <1>1, <2>1, <2>2, UpTo
  <2> QED BY <2>3 DEF P
<1>7. N \in 0..N
  BY <1>1
<1> QED BY <1>0, <1>6, <1>7

-----------------------------------------------------------------------------
(* The lists of sectors that a disk defines. *)

\* What a sector of the disk holds.
LEMMA DiskHolds ==
  ASSUME NEW d, DiskTyped(d)
  PROVE  /\ \A n, place : AsFat(d, n, place) \in Nat
         /\ \A n : AsEntries(d, n) \in Seq(Entries)
         /\ \A c : NextCluster(d, c) \in Nat
         /\ d.bpb \in [bps : Nat, spc : Nat, reserved : Nat, fats : Nat, spf : Nat, root : Nat]
         /\ d.mbr \in Nat /\ d.extent \in Nat
<1>1. /\ \A c \in DOMAIN d.fat : d.fat[c] \in Nat
      /\ \A n \in DOMAIN d.dirs : d.dirs[n] \in Seq(Entries)
      /\ d.bpb \in [bps : Nat, spc : Nat, reserved : Nat, fats : Nat, spf : Nat, root : Nat]
      /\ d.mbr \in Nat /\ d.extent \in Nat
  BY DEF DiskTyped
<1>2. ASSUME NEW n, NEW place PROVE AsFat(d, n, place) \in Nat
  <2> DEFINE c == (n - (d.mbr + d.bpb.reserved)) * 128 + place
  <2>1. AsFat(d, n, place) = IF c \in DOMAIN d.fat THEN d.fat[c] ELSE 0
    BY DEF AsFat
  <2> HIDE DEF c
  <2> QED BY <1>1, <2>1
<1>3. ASSUME NEW n PROVE AsEntries(d, n) \in Seq(Entries)
  <2>1. <<>> \in Seq(Entries)
    OBVIOUS
  <2> QED BY <1>1, <2>1 DEF AsEntries
<1>4. ASSUME NEW c PROVE NextCluster(d, c) \in Nat
  <2> DEFINE f == Mounted(d.mbr, d.bpb)
  <2>1. NextCluster(d, c) = IF EntryAt(d, c) < DiskSectors /\ ~Panics(f, c)
                            THEN AsFat(d, EntryAt(d, c), FatPlace(f, c)) ELSE 0
    BY DEF NextCluster
  <2> HIDE DEF f
  <2> QED BY <1>2, <2>1
<1> QED BY <1>1, <1>2, <1>3, <1>4

\* What a u32 keeps of a number, and of one that it holds.
LEMMA Wrapped ==
  /\ \A n \in Nat : n % SectorNumbers \in Nat
  /\ \A n \in Nat : n < SectorNumbers => n % SectorNumbers = n
BY FatAssumption

\* The sectors where the clusters of a mounted disk are.
LEMMA MountedTyped ==
  ASSUME NEW d, DiskTyped(d), NEW start \in Nat
  PROVE  LET f == Mounted(start, d.bpb)
         IN  /\ f.bps = d.bpb.bps /\ f.spc = d.bpb.spc /\ f.root = d.bpb.root
             /\ f.fat \in Nat /\ f.data \in Nat
             /\ BpbValid(d.bpb) => f \in FsRecs /\ f.root >= 2
<1> DEFINE p == d.bpb
<1>1. p \in [bps : Nat, spc : Nat, reserved : Nat, fats : Nat, spf : Nat, root : Nat]
  BY DiskHolds
<1> HIDE DEF p
<1>2. p.bps \in Nat /\ p.spc \in Nat /\ p.reserved \in Nat /\ p.fats \in Nat /\ p.spf \in Nat /\ p.root \in Nat
  BY <1>1
<1>3. p.fats * p.spf \in Nat
  BY <1>2
<1>4. FatStart(start, p) \in Nat /\ DataStart(start, p) \in Nat
  <2>1. start + p.reserved \in Nat
    BY <1>2
  <2>2. FatStart(start, p) \in Nat
    BY <2>1, Wrapped DEF FatStart
  <2>3. FatStart(start, p) + p.fats * p.spf \in Nat
    BY <1>3, <2>2
  <2> QED BY <2>2, <2>3, Wrapped DEF DataStart
<1>5. ASSUME BpbValid(p) PROVE p.bps \in Nat \ {0} /\ p.spc \in Nat \ {0} /\ p.root >= 2
  <2>1. p.bps \in 512..4096 /\ p.spc # 0 /\ p.root >= 2
    BY <1>5 DEF BpbValid
  <2>2. p.bps >= 512
    <3> DEFINE b == p.bps
    <3>1. b \in 512..4096
      BY <2>1
    <3> HIDE DEF b
    <3>2. b >= 512
      BY <3>1
    <3> QED BY <3>2 DEF b
  <2>3. p.bps # 0
    BY <1>2, <2>2
  <2> QED BY <1>2, <2>1, <2>3
<1> QED BY <1>2, <1>4, <1>5 DEF p, Mounted, FsRecs

\* The numbers of the sectors of a chain without a bound.
LEMMA Unbounded ==
  ASSUME NEW d, DiskTyped(d), NEW c \in Nat, InChain(c)
  PROVE  LET before == d.bpb.fats * d.bpb.spf
             behind == (c - 2) * d.bpb.spc
         IN  /\ FatBegin(d) \in Nat /\ before \in Nat /\ behind \in Nat
             /\ ClusterAt(d, c) = FatBegin(d) + before + behind /\ ClusterAt(d, c) \in Nat
<1>1. /\ d.bpb.reserved \in Nat /\ d.bpb.fats \in Nat /\ d.bpb.spf \in Nat /\ d.bpb.spc \in Nat
      /\ d.mbr \in Nat
  BY DiskHolds
<1>2. c - 2 \in Nat
  BY DEF InChain
<1>3. d.bpb.fats * d.bpb.spf \in Nat /\ (c - 2) * d.bpb.spc \in Nat
  BY <1>1, <1>2
<1> QED BY <1>1, <1>3 DEF FatBegin, ClusterAt

\* In an addressed cluster no sum of u32 wraps around.
LEMMA InNumbers ==
  ASSUME NEW d, DiskTyped(d), BpbValid(d.bpb), NEW c \in Nat, InChain(c), Addressed(d, c)
  PROVE  LET f == Mounted(d.mbr, d.bpb)
         IN  cluster_to_sector(f, c) = ClusterAt(d, c) /\ FatSector(f, c) = EntryAt(d, c)
<1> DEFINE f      == Mounted(d.mbr, d.bpb)
           before == d.bpb.fats * d.bpb.spf
           behind == (c - 2) * d.bpb.spc
           entry  == (c * 4) \div d.bpb.bps
<1>1. /\ FatBegin(d) \in Nat /\ before \in Nat /\ behind \in Nat
      /\ ClusterAt(d, c) = FatBegin(d) + before + behind
      /\ ClusterAt(d, c) < SectorNumbers /\ EntryAt(d, c) < SectorNumbers
  BY Unbounded DEF Addressed
<1>2. entry \in Nat
  <2>1. d.bpb.bps \in Nat \ {0}
    <3>1. d.mbr \in Nat
      BY DiskHolds
    <3> QED BY <3>1, MountedTyped DEF FsRecs
  <2>2. c * 4 \in Nat
    OBVIOUS
  <2> QED BY <2>1, <2>2, Divided
<1>3. /\ f.spc = d.bpb.spc /\ f.bps = d.bpb.bps
      /\ f.fat = FatBegin(d) % SectorNumbers
      /\ f.data = (f.fat + before) % SectorNumbers
  BY DEF Mounted, FatStart, DataStart, FatBegin
<1>4. EntryAt(d, c) = FatBegin(d) + entry
  BY DEF EntryAt
<1>5. cluster_to_sector(f, c) = (f.data + behind) % SectorNumbers
  BY <1>3 DEF cluster_to_sector
<1>6. FatSector(f, c) = (f.fat + entry) % SectorNumbers
  BY <1>3 DEF FatSector
<1>7. SectorNumbers \in Nat
  BY FatAssumption
<1> HIDE DEF f, before, behind, entry
<1>8. f.fat = FatBegin(d)
  <2>1. FatBegin(d) < SectorNumbers
    BY <1>1, <1>7
  <2> QED BY <1>1, <1>3, <2>1, Wrapped
<1>9. f.data = FatBegin(d) + before
  <2>1. FatBegin(d) + before \in Nat /\ FatBegin(d) + before < SectorNumbers
    BY <1>1, <1>7
  <2> QED BY <1>3, <1>8, <2>1, Wrapped
<1>10. cluster_to_sector(f, c) = ClusterAt(d, c)
  <2>1. FatBegin(d) + before + behind \in Nat /\ FatBegin(d) + before + behind < SectorNumbers
    BY <1>1, <1>7
  <2> QED BY <1>1, <1>5, <1>9, <2>1, Wrapped
<1>11. FatSector(f, c) = EntryAt(d, c)
  <2>1. FatBegin(d) + entry \in Nat /\ FatBegin(d) + entry < SectorNumbers
    BY <1>1, <1>2, <1>4
  <2> QED BY <1>4, <1>6, <1>8, <2>1, Wrapped
<1> QED BY <1>10, <1>11 DEF f

\* What follows a place of a chain is a place.
LEMMA PlaceTyped ==
  ASSUME NEW d, DiskTyped(d), NEW place \in Places
  PROVE  /\ NextPlace(d, place) \in Places
         /\ OnDisk(d, place) \in BOOLEAN
         /\ OnDisk(d, place) => SectorAt(d, place) \in Nat /\ SectorAt(d, place) < DiskSectors
<1>1. place.cluster \in Nat /\ place.offset \in Nat
  BY DEF Places
<1>2. NextPlace(d, place) \in Places
  <2>1. place.offset + 1 \in Nat /\ NextCluster(d, place.cluster) \in Nat
    BY <1>1, DiskHolds
  <2> QED BY <1>1, <2>1 DEF NextPlace, Places
<1>4. ASSUME OnDisk(d, place) PROVE SectorAt(d, place) \in Nat /\ SectorAt(d, place) < DiskSectors
  <2>1. InChain(place.cluster) /\ SectorAt(d, place) < DiskSectors
    BY <1>4 DEF OnDisk
  <2>2. ClusterAt(d, place.cluster) \in Nat
    BY <1>1, <2>1, Unbounded
  <2> QED BY <1>1, <2>1, <2>2 DEF SectorAt
<1> QED BY <1>2, <1>4 DEF OnDisk, InChain

\* The ROMs in a sector.
LEMMA RomsInTyped ==
  ASSUME NEW entries \in Seq(Entries)
  PROVE  RomsIn(entries).listed \in Seq(RomEntries) /\ RomsIn(entries).over \in BOOLEAN
<1> DEFINE places == {i \in DOMAIN entries : IsRom(entries[i])}
           T == {entries[i] : i \in places \cap DOMAIN entries}
<1>1. RomsIn(entries) = Scanned(entries, places)
  BY DEF RomsIn
<1>2. T \subseteq RomEntries
  <2>1. ASSUME NEW i \in DOMAIN entries PROVE entries[i] \in Entries
    OBVIOUS
  <2> QED BY <2>1 DEF RomEntries
<1> HIDE DEF places
<1>3. RomsIn(entries) \in [listed : Seq(T), over : BOOLEAN]
  BY <1>1, ScannedTyped
<1> HIDE DEF T
<1>4. \A s \in Seq(T) : s \in Seq(RomEntries)
  BY <1>2
<1> DEFINE L == Seq(T)
<1>5. RomsIn(entries).listed \in L /\ RomsIn(entries).over \in BOOLEAN
  <2> HIDE DEF L
  <2>1. RomsIn(entries) \in [listed : L, over : BOOLEAN]
    BY <1>3 DEF L
  <2> QED BY <2>1
<1> QED BY <1>4, <1>5

\* What follows a state of the directory is one.
LEMMA DirNextTyped ==
  ASSUME NEW d, DiskTyped(d)
  PROVE  /\ DirStart(d) \in DirRecs
         /\ \A s \in DirRecs : DirNext(d, s) \in DirRecs
<1> DEFINE L == Seq(RomEntries)
<1>1. DirStart(d) \in DirRecs
  <2> DEFINE root == [cluster |-> d.bpb.root, offset |-> 0]
  <2>1. root \in Places /\ OnDisk(d, root) \in BOOLEAN
    <3>1. d.bpb.root \in Nat
      BY DiskHolds
    <3>2. root \in Places
      BY <3>1 DEF Places
    <3> QED BY <3>2, PlaceTyped
  <2>2. DirStart(d) = [place |-> root, roms |-> <<>>, over |-> ~OnDisk(d, root)]
    BY DEF DirStart
  <2>3. <<>> \in Seq(RomEntries)
    OBVIOUS
  <2> HIDE DEF root
  <2> QED BY <2>1, <2>2, <2>3 DEF DirRecs
<1>2. ASSUME NEW s \in DirRecs PROVE DirNext(d, s) \in DirRecs
  <2> DEFINE x == RomsIn(AsEntries(d, SectorAt(d, s.place)))
             next == NextPlace(d, s.place)
             t == [place |-> next, roms |-> s.roms \o x.listed, over |-> x.over \/ ~OnDisk(d, next)]
  <2>1. s.place \in Places /\ s.roms \in Seq(RomEntries)
    <3> HIDE DEF L
    <3>1. s.place \in Places /\ s.roms \in L
      BY DEF DirRecs, L
    <3> QED BY <3>1 DEF L
  <2>2. next \in Places /\ OnDisk(d, next) \in BOOLEAN
    BY <2>1, PlaceTyped
  <2>3. x.listed \in Seq(RomEntries) /\ x.over \in BOOLEAN
    BY DiskHolds, RomsInTyped
  <2>4. DirNext(d, s) = IF s.over THEN s ELSE t
    BY DEF DirNext
  <2> HIDE DEF x, next
  <2>5. s.roms \o x.listed \in L
    BY <2>1, <2>3
  <2>6. t \in DirRecs
    <3> HIDE DEF L
    <3> QED BY <2>2, <2>3, <2>5 DEF DirRecs, L
  <2> HIDE DEF t
  <2> QED BY <2>4, <2>6
<1> QED BY <1>1, <1>2

\* The directory of a disk is defined sector by sector.
LEMMA DirectorySteps ==
  ASSUME NEW d, DiskTyped(d)
  PROVE  /\ Directory(d)[0] = DirStart(d)
         /\ \A n \in 1..d.extent : Directory(d)[n] = DirNext(d, Directory(d)[n - 1])
         /\ \A n \in 0..d.extent : Directory(d)[n] \in DirRecs
<1> DEFINE N == d.extent
           a == DirStart(d)
           dir[n \in 0..N] == IF n = 0 THEN a ELSE DirNext(d, dir[n - 1])
           Body(f) == [n \in 0..N |-> IF n = 0 THEN a ELSE DirNext(d, f[n - 1])]
           step == [x \in DirRecs \X (1..N) |-> DirNext(d, x[1])]
<1>0. Directory(d) = dir
  BY DEF Directory
<1>1. N \in Nat
  BY DiskHolds
<1>2. a \in DirRecs /\ \A s \in DirRecs : DirNext(d, s) \in DirRecs
  BY DirNextTyped
<1> HIDE DEF N, a
<1>4. \E g : g = Body(g)
  <2>0. step \in [DirRecs \X (1..N) -> DirRecs]
    BY <1>2
  <2>1. PICK g \in [0..N -> DirRecs] : Iterates(g, N, a, step)
    <3> HIDE DEF step
    <3> QED BY <1>1, <1>2, <2>0, Iterated
  <2>2. ASSUME NEW n \in 0..N PROVE g[n] = IF n = 0 THEN a ELSE DirNext(d, g[n - 1])
    <3>1. g[n] = IF n = 0 THEN a ELSE step[<<g[n - 1], n>>]
      BY <2>1 DEF Iterates
    <3>2. n # 0 => n \in 1..N /\ n - 1 \in 0..N
      BY <1>1
    <3>3. n # 0 => <<g[n - 1], n>> \in DirRecs \X (1..N)
      BY <3>2
    <3> QED BY <3>1, <3>3
  <2> QED BY <2>2
<1>5. dir = Body(dir)
  BY <1>4
<1> HIDE DEF dir
<1>6. \A n \in 0..N : dir[n] \in DirRecs
  <2> DEFINE P == {n \in 0..N : dir[n] \in DirRecs}
  <2>1. 0 \in P
    BY <1>1, <1>2, <1>5
  <2>2. ASSUME NEW n \in 1..N, n - 1 \in P PROVE n \in P
    <3>1. dir[n] = DirNext(d, dir[n - 1]) /\ dir[n - 1] \in DirRecs /\ n \in 0..N
      BY <1>1, <1>5, <2>2
    <3> QED BY <1>2, <3>1
  <2> HIDE DEF P
  <2>3. \A n \in 0..N : n \in P
    BY <1>1, <2>1, <2>2, UpTo
  <2> QED BY <2>3 DEF P
<1>7. dir[0] = a /\ \A n \in 1..N : dir[n] = DirNext(d, dir[n - 1])
  BY <1>1, <1>5
<1> QED BY <1>0, <1>6, <1>7 DEF N, a

\* Along the directory the ROMs met before stay where they are, and behind its end nothing follows.
LEMMA DirectoryGrows ==
  ASSUME NEW d, DiskTyped(d), NEW m \in 0..d.extent, NEW n \in m..d.extent
  PROVE  /\ Directory(d)[m].over => Directory(d)[n] = Directory(d)[m]
         /\ Len(Directory(d)[m].roms) <= Len(Directory(d)[n].roms)
         /\ \A i \in 1..Len(Directory(d)[m].roms) : Directory(d)[n].roms[i] = Directory(d)[m].roms[i]
<1> DEFINE D == Directory(d)
           N == d.extent
           Grown(k) == /\ D[m].over => D[k] = D[m]
                       /\ Len(D[m].roms) <= Len(D[k].roms)
                       /\ \A i \in 1..Len(D[m].roms) : D[k].roms[i] = D[m].roms[i]
           P == {j \in 0..N - m : Grown(m + j)}
<1>1. N \in Nat
  BY DiskHolds
<1>2. /\ \A k \in 1..N : D[k] = DirNext(d, D[k - 1])
      /\ \A k \in 0..N : D[k] \in DirRecs
  BY DirectorySteps
<1>3. \A k \in 0..N : D[k].roms \in Seq(RomEntries) /\ D[k].over \in BOOLEAN
  <2> DEFINE L == Seq(RomEntries)
  <2> HIDE DEF L, D, N
  <2>1. \A k \in 0..N : D[k].roms \in L /\ D[k].over \in BOOLEAN
    <3>1. DirRecs = [place : Places, roms : L, over : BOOLEAN]
      BY DEF DirRecs, L
    <3> QED BY <1>2, <3>1
  <2> QED BY <2>1 DEF L
<1>4. N - m \in Nat /\ m \in 0..N /\ n - m \in 0..N - m /\ m + (n - m) = n
  BY <1>1
<1> HIDE DEF D, N
<1>5. 0 \in P
  <2>1. m + 0 = m /\ Len(D[m].roms) \in Nat
    BY <1>3, <1>4
  <2>2. Grown(m + 0)
    BY <2>1
  <2> HIDE DEF Grown
  <2> QED BY <1>4, <2>2
<1>6. ASSUME NEW j \in 1..N - m, j - 1 \in P PROVE j \in P
  <2> DEFINE k == m + j
  <2>1. k \in 1..N /\ k - 1 = m + (j - 1) /\ k - 1 \in 0..N /\ k \in 0..N
    BY <1>1, <1>4
  <2>2. Grown(k - 1)
    BY <1>6, <2>1
  <2>3. D[k] = DirNext(d, D[k - 1])
    BY <1>2, <2>1
  <2>4. CASE D[k - 1].over
    <3>1. D[k] = D[k - 1]
      BY <2>3, <2>4 DEF DirNext
    <3>2. Grown(k)
      BY <2>2, <3>1
    <3>3. j \in 0..N - m
      BY <1>4
    <3> HIDE DEF Grown
    <3> QED BY <3>2, <3>3
  <2>5. CASE ~D[k - 1].over
    <3> DEFINE x == RomsIn(AsEntries(d, SectorAt(d, D[k - 1].place))).listed
    <3>1. D[k].roms = D[k - 1].roms \o x
      <4> DEFINE y == RomsIn(AsEntries(d, SectorAt(d, D[k - 1].place)))
                 next == NextPlace(d, D[k - 1].place)
                 t == [place |-> next, roms |-> D[k - 1].roms \o y.listed, over |-> y.over \/ ~OnDisk(d, next)]
      <4>1. D[k] = t
        BY <2>3, <2>5 DEF DirNext
      <4>2. t.roms = D[k - 1].roms \o y.listed
        OBVIOUS
      <4> HIDE DEF t
      <4> QED BY <4>1, <4>2
    <3>2. x \in Seq(RomEntries)
      BY DiskHolds, RomsInTyped
    <3> HIDE DEF x
    <3>3. D[k - 1].roms \in Seq(RomEntries) /\ D[m].roms \in Seq(RomEntries)
      BY <1>3, <1>4, <2>1
    <3>4. /\ Len(D[k].roms) = Len(D[k - 1].roms) + Len(x)
          /\ \A i \in 1..Len(D[k - 1].roms) : D[k].roms[i] = D[k - 1].roms[i]
      BY <3>1, <3>2, <3>3
    <3>5. Len(D[m].roms) \in Nat /\ Len(D[k - 1].roms) \in Nat /\ Len(x) \in Nat
      BY <3>2, <3>3
    <3>6. Len(D[m].roms) <= Len(D[k].roms)
      BY <2>2, <3>4, <3>5
    <3>7. \A i \in 1..Len(D[m].roms) : D[k].roms[i] = D[m].roms[i]
      BY <2>2, <3>4, <3>5
    <3>8. ~D[m].over
      BY <2>2, <2>5
    <3> QED BY <3>6, <3>7, <3>8
  <2> HIDE DEF Grown
  <2>6. Grown(m + j)
    BY <2>4, <2>5
  <2> QED BY <2>6
<1> HIDE DEF P
<1>7. \A j \in 0..N - m : j \in P
  BY <1>4, <1>5, <1>6, UpTo
<1>8. Grown(n)
  BY <1>4, <1>7 DEF P
<1> QED BY <1>8 DEF D

\* What follows a state of a file is one.
LEMMA FileNextTyped ==
  ASSUME NEW d, DiskTyped(d), NEW e \in Entries
  PROVE  /\ FileStart(e) \in FileRecs
         /\ \A s \in FileRecs : FileNext(d, s) \in FileRecs
         /\ e.size \in Nat /\ e.cluster \in Nat /\ e.name \in STRING
<1> DEFINE L == Seq(Nat)
<1>1. e.cluster \in Nat /\ e.size \in Nat /\ e.name \in STRING
  BY DEF Entries
<1>2. FileStart(e) \in FileRecs
  <2>1. <<>> \in L
    OBVIOUS
  <2> HIDE DEF L
  <2>2. [cluster |-> e.cluster, offset |-> 0] \in Places
    BY <1>1 DEF Places
  <2> QED BY <2>1, <2>2 DEF FileStart, FileRecs, L
<1>3. ASSUME NEW s \in FileRecs PROVE FileNext(d, s) \in FileRecs
  <2>1. s.place \in Places /\ s.sectors \in L
    <3> HIDE DEF L
    <3> QED BY DEF FileRecs, L
  <2> DEFINE t == [place |-> NextPlace(d, s.place), sectors |-> Append(s.sectors, SectorAt(d, s.place))]
  <2>2. ASSUME OnDisk(d, s.place) PROVE t \in FileRecs
    <3>1. SectorAt(d, s.place) \in Nat /\ NextPlace(d, s.place) \in Places
      BY <2>1, <2>2, PlaceTyped
    <3>2. Append(s.sectors, SectorAt(d, s.place)) \in L
      BY <2>1, <3>1
    <3> HIDE DEF L
    <3> QED BY <3>1, <3>2 DEF FileRecs, L
  <2>3. FileNext(d, s) = IF OnDisk(d, s.place) THEN t ELSE s
    BY DEF FileNext
  <2> HIDE DEF t
  <2> QED BY <2>2, <2>3
<1> QED BY <1>1, <1>2, <1>3

\* A file of a disk is defined sector by sector.
LEMMA FileSteps ==
  ASSUME NEW d, DiskTyped(d), NEW e \in Entries
  PROVE  /\ File(d, e)[0] = FileStart(e)
         /\ \A n \in 1..e.size : File(d, e)[n] = FileNext(d, File(d, e)[n - 1])
         /\ \A n \in 0..e.size : File(d, e)[n] \in FileRecs
<1> DEFINE N == e.size
           a == FileStart(e)
           file[n \in 0..N] == IF n = 0 THEN a ELSE FileNext(d, file[n - 1])
           Body(f) == [n \in 0..N |-> IF n = 0 THEN a ELSE FileNext(d, f[n - 1])]
           step == [x \in FileRecs \X (1..N) |-> FileNext(d, x[1])]
<1>0. File(d, e) = file
  BY DEF File
<1>1. N \in Nat
  BY FileNextTyped
<1>2. a \in FileRecs /\ \A s \in FileRecs : FileNext(d, s) \in FileRecs
  BY FileNextTyped
<1> HIDE DEF N, a
<1>4. \E g : g = Body(g)
  <2>0. step \in [FileRecs \X (1..N) -> FileRecs]
    BY <1>2
  <2>1. PICK g \in [0..N -> FileRecs] : Iterates(g, N, a, step)
    <3> HIDE DEF step
    <3> QED BY <1>1, <1>2, <2>0, Iterated
  <2>2. ASSUME NEW n \in 0..N PROVE g[n] = IF n = 0 THEN a ELSE FileNext(d, g[n - 1])
    <3>1. g[n] = IF n = 0 THEN a ELSE step[<<g[n - 1], n>>]
      BY <2>1 DEF Iterates
    <3>2. n # 0 => n \in 1..N /\ n - 1 \in 0..N
      BY <1>1
    <3>3. n # 0 => <<g[n - 1], n>> \in FileRecs \X (1..N)
      BY <3>2
    <3> QED BY <3>1, <3>3
  <2> QED BY <2>2
<1>5. file = Body(file)
  BY <1>4
<1> HIDE DEF file
<1>6. \A n \in 0..N : file[n] \in FileRecs
  <2> DEFINE P == {n \in 0..N : file[n] \in FileRecs}
  <2>1. 0 \in P
    BY <1>1, <1>2, <1>5
  <2>2. ASSUME NEW n \in 1..N, n - 1 \in P PROVE n \in P
    <3>1. file[n] = FileNext(d, file[n - 1]) /\ file[n - 1] \in FileRecs /\ n \in 0..N
      BY <1>1, <1>5, <2>2
    <3> QED BY <1>2, <3>1
  <2> HIDE DEF P
  <2>3. \A n \in 0..N : n \in P
    BY <1>1, <2>1, <2>2, UpTo
  <2> QED BY <2>3 DEF P
<1>7. file[0] = a /\ \A n \in 1..N : file[n] = FileNext(d, file[n - 1])
  BY <1>1, <1>5
<1> QED BY <1>0, <1>6, <1>7 DEF N, a

\* Along a file its sectors stay where they are, and where the chain ends no more of them follow.
LEMMA FileGrows ==
  ASSUME NEW d, DiskTyped(d), NEW e \in Entries, NEW m \in 0..e.size, NEW n \in m..e.size
  PROVE  /\ ~OnDisk(d, File(d, e)[m].place) => File(d, e)[n] = File(d, e)[m]
         /\ Len(File(d, e)[m].sectors) <= Len(File(d, e)[n].sectors)
         /\ Len(File(d, e)[n].sectors) <= Len(File(d, e)[m].sectors) + (n - m)
         /\ \A i \in 1..Len(File(d, e)[m].sectors) : File(d, e)[n].sectors[i] = File(d, e)[m].sectors[i]
<1> DEFINE F == File(d, e)
           N == e.size
           Grown(k) == /\ ~OnDisk(d, F[m].place) => F[k] = F[m]
                       /\ Len(F[m].sectors) <= Len(F[k].sectors)
                       /\ Len(F[k].sectors) <= Len(F[m].sectors) + (k - m)
                       /\ \A i \in 1..Len(F[m].sectors) : F[k].sectors[i] = F[m].sectors[i]
           P == {j \in 0..N - m : Grown(m + j)}
<1>1. N \in Nat
  BY FileNextTyped
<1>2. /\ \A k \in 1..N : F[k] = FileNext(d, F[k - 1])
      /\ \A k \in 0..N : F[k] \in FileRecs
  BY FileSteps
<1>3. \A k \in 0..N : F[k].sectors \in Seq(Nat) /\ F[k].place \in Places
  <2> DEFINE L == Seq(Nat)
  <2> HIDE DEF L, F, N
  <2>1. \A k \in 0..N : F[k].sectors \in L /\ F[k].place \in Places
    <3>1. FileRecs = [place : Places, sectors : L]
      BY DEF FileRecs, L
    <3> QED BY <1>2, <3>1
  <2> QED BY <2>1 DEF L
<1>4. N - m \in Nat /\ m \in 0..N /\ n - m \in 0..N - m /\ m + (n - m) = n
  BY <1>1
<1> HIDE DEF F, N
<1>5. 0 \in P
  <2>1. m + 0 = m /\ Len(F[m].sectors) \in Nat
    BY <1>3, <1>4
  <2>2. Grown(m + 0)
    BY <1>4, <2>1
  <2> HIDE DEF Grown
  <2> QED BY <1>4, <2>2
<1>6. ASSUME NEW j \in 1..N - m, j - 1 \in P PROVE j \in P
  <2>1. m + j \in 1..N /\ (m + j) - 1 = m + (j - 1) /\ (m + j) - 1 \in 0..N /\ m + j \in 0..N
    BY <1>1, <1>4
  <2>2. PICK k \in 1..N : k = m + j /\ k - 1 = m + (j - 1) /\ k - 1 \in 0..N /\ k \in 0..N
    BY <2>1
  <2> DEFINE s == F[k - 1]
             a == Len(F[m].sectors)
  <2>3. F[k] = FileNext(d, s) /\ Grown(k - 1)
    BY <1>2, <1>6, <2>2
  <2>4. /\ ~OnDisk(d, F[m].place) => s = F[m]
        /\ a <= Len(s.sectors) /\ Len(s.sectors) <= a + (k - 1 - m)
        /\ \A i \in 1..a : s.sectors[i] = F[m].sectors[i]
    BY <2>3
  <2>5. /\ s.sectors \in Seq(Nat) /\ s.place \in Places /\ Len(s.sectors) \in Nat /\ a \in Nat
        /\ k \in Nat /\ m \in Nat
    BY <1>1, <1>3, <1>4, <2>2
  <2> HIDE DEF s, a
  <2>6. /\ ~OnDisk(d, F[m].place) => F[k] = F[m]
        /\ a <= Len(F[k].sectors) /\ Len(F[k].sectors) <= a + (k - m)
        /\ \A i \in 1..a : F[k].sectors[i] = F[m].sectors[i]
    <3>1. CASE ~OnDisk(d, s.place)
      <4>1. F[k] = s
        BY <2>3, <3>1 DEF FileNext
      <4> QED BY <2>4, <2>5, <4>1
    <3>2. CASE OnDisk(d, s.place)
      <4> DEFINE x == SectorAt(d, s.place)
      <4>1. F[k].sectors = Append(s.sectors, x)
        BY <2>3, <3>2 DEF FileNext
      <4>2. x \in Nat
        BY <2>5, <3>2, PlaceTyped
      <4> HIDE DEF x
      <4>3. /\ Len(F[k].sectors) = Len(s.sectors) + 1
            /\ \A i \in 1..Len(s.sectors) : F[k].sectors[i] = s.sectors[i]
        BY <2>5, <4>1, <4>2
      <4>4. a <= Len(F[k].sectors) /\ Len(F[k].sectors) <= a + (k - m)
        BY <2>4, <2>5, <4>3
      <4>5. ASSUME NEW i \in 1..a PROVE F[k].sectors[i] = F[m].sectors[i]
        <5>1. i \in 1..Len(s.sectors)
          BY <2>4, <2>5
        <5> QED BY <2>4, <4>3, <5>1
      <4>6. OnDisk(d, F[m].place)
        BY <2>4, <3>2
      <4> QED BY <4>4, <4>5, <4>6
    <3> QED BY <3>1, <3>2
  <2>7. Grown(m + j)
    BY <2>2, <2>6 DEF a
  <2> HIDE DEF Grown
  <2> QED BY <2>7
<1> HIDE DEF P
<1>7. \A j \in 0..N - m : j \in P
  BY <1>4, <1>5, <1>6, UpTo
<1>8. Grown(n)
  BY <1>4, <1>7, SMTT(30) DEF P
<1> QED BY <1>8 DEF F

-----------------------------------------------------------------------------
(* The steps of a walk. *)

\* NoEntry is no ROM, so a search that found nothing can be told from one that did.
LEMMA EntriesTyped ==
  /\ NoEntry \notin RomEntries
  /\ \A e \in Entries : e.cluster \in Nat /\ e.size \in Nat /\ e.name \in STRING
  /\ \A e \in RomEntries : e \in Entries
<1>1. NoEntry \notin RomEntries
  BY DEF NoEntry, RomEntries, IsRom
<1>2. \A e \in Entries : e.cluster \in Nat /\ e.size \in Nat /\ e.name \in STRING
  BY DEF Entries
<1> QED BY <1>1, <1>2 DEF RomEntries

\* A walk whose cluster is in the chain asks for a sector: read_sectors gets a number.
LEMMA RequestTyped ==
  ASSUME NEW f \in FsRecs, NEW w \in WalkRecs, InChain(w.cluster)
  PROVE  Request(f, w) \in Nat
<1>1. f.bps \in Nat \ {0} /\ f.spc \in Nat \ {0} /\ f.root \in Nat /\ f.fat \in Nat /\ f.data \in Nat
  BY DEF FsRecs
<1>2. w.cluster \in Nat /\ w.offset \in Nat
  BY WalkFields
<1>3. w.cluster - 2 \in Nat
  BY <1>2 DEF InChain, EndOfChain
<1>4. cluster_to_sector(f, w.cluster) \in Nat
  <2>1. (w.cluster - 2) * f.spc \in Nat
    BY <1>1, <1>3
  <2>2. f.data + (w.cluster - 2) * f.spc \in Nat
    BY <1>1, <2>1
  <2> QED BY <2>2, Wrapped DEF cluster_to_sector
<1>5. FatSector(f, w.cluster) \in Nat
  <2>1. w.cluster * 4 \in Nat
    BY <1>2
  <2>2. (w.cluster * 4) \div f.bps \in Nat
    BY <1>1, <2>1, Divided
  <2>3. f.fat + (w.cluster * 4) \div f.bps \in Nat
    BY <1>1, <2>2
  <2> QED BY <2>3, Wrapped DEF FatSector
<1> QED BY <1>2, <1>4, <1>5 DEF Request

\* The walks that count_roms, get_rom_name, find_rom and read_file begin are well typed.
LEMMA WalkMade ==
  ASSUME NEW job \in Jobs, NEW index \in Nat, NEW cluster \in Nat, NEW want \in 0..RomUnits
  PROVE  LET w == Walk(job, index, cluster, want)
         IN  /\ w \in WalkRecs
             /\ w.job = job /\ w.index = index /\ w.seen = 0 /\ w.cluster = cluster /\ w.offset = 0
             /\ w.want = want /\ w.found = NoEntry /\ w.buffer = <<>>
             /\ w.at = IF InChain(cluster) THEN "sector" ELSE "end"
<1> DEFINE w == Walk(job, index, cluster, want)
           at == IF InChain(cluster) THEN "sector" ELSE "end"
           none == NoEntry
           W == 0..RomUnits
           B == Seq(OfDisk)
           E == Entries \cup {NoEntry}
<1>1. at \in Ats /\ none \in E /\ <<>> \in B /\ want \in W
  BY DEF Ats
<1>2. w = [job |-> job, index |-> index, seen |-> 0, cluster |-> cluster, offset |-> 0, want |-> want,
           found |-> none, buffer |-> <<>>, at |-> at]
  BY DEF Walk
<1>3. WalkRecs = [job : Jobs, index : Nat, seen : Nat, cluster : Nat, offset : Nat,
                  want : W, found : E, buffer : B, at : Ats]
  BY DEF WalkRecs, Jobs, Ats
<1> HIDE DEF w, at, none, W, B, E
<1>4. w \in WalkRecs
  BY <1>1, <1>2, <1>3
<1>5. /\ w.job = job /\ w.index = index /\ w.seen = 0 /\ w.cluster = cluster /\ w.offset = 0
      /\ w.want = want /\ w.found = none /\ w.buffer = <<>> /\ w.at = at
  BY <1>2
<1> QED BY <1>4, <1>5 DEF w, at, none

\* A walk over the directory begins at its first sector.
LEMMA DirWalkMade ==
  ASSUME NEW f \in FsRecs, NEW job \in Jobs, NEW index \in Nat
  PROVE  LET w == DirWalk(f, job, index)
         IN  /\ w \in WalkRecs
             /\ w.job = job /\ w.index = index /\ w.seen = 0 /\ w.cluster = f.root /\ w.offset = 0
             /\ w.want = 0 /\ w.found = NoEntry /\ w.buffer = <<>>
             /\ w.at = IF InChain(f.root) THEN "sector" ELSE "end"
<1>1. f.root \in Nat
  BY DEF FsRecs
<1>2. 0 \in 0..RomUnits
  BY BootAssumption
<1> QED BY <1>1, <1>2, WalkMade DEF DirWalk

\* A walk over a file begins at its first cluster, unless there is nothing to read.
LEMMA FileWalkMade ==
  ASSUME NEW e \in Entries
  PROVE  LET w == FileWalk(e, RomUnits)
         IN  /\ w \in WalkRecs
             /\ w.job = "read" /\ w.index = 0 /\ w.seen = 0 /\ w.cluster = e.cluster /\ w.offset = 0
             /\ w.want = (IF e.size < RomUnits THEN e.size ELSE RomUnits)
             /\ w.found = NoEntry /\ w.buffer = <<>>
             /\ w.at \in {"sector", "end", "err"}
             /\ w.at = "sector" => InChain(e.cluster) /\ w.want > 0
             /\ w.at = "end" => w.want = 0 \/ ~InChain(e.cluster)
<1> DEFINE want == IF e.size < RomUnits THEN e.size ELSE RomUnits
           w == Walk("read", 0, e.cluster, want)
           v == FileWalk(e, RomUnits)
<1>1. want \in 0..RomUnits /\ want \in Nat
  BY EntriesTyped, BootAssumption
<1>2. v = IF e.cluster < 2 THEN [w EXCEPT !.at = "err"]
          ELSE IF want = 0 THEN [w EXCEPT !.at = "end"] ELSE w
  BY DEF FileWalk
<1>3. /\ w \in WalkRecs
      /\ w.job = "read" /\ w.index = 0 /\ w.seen = 0 /\ w.cluster = e.cluster /\ w.offset = 0
      /\ w.want = want /\ w.found = NoEntry /\ w.buffer = <<>>
      /\ w.at = IF InChain(e.cluster) THEN "sector" ELSE "end"
  <2>1. "read" \in Jobs /\ e.cluster \in Nat /\ 0 \in Nat
    BY EntriesTyped DEF Jobs
  <2> HIDE DEF want
  <2> QED BY <1>1, <2>1, WalkMade
<1> HIDE DEF w, v, want
<1>4. CASE e.cluster < 2
  <2>1. v = [w EXCEPT !.at = "err"] /\ "err" \in Ats
    BY <1>2, <1>4 DEF Ats
  <2>2. /\ v \in WalkRecs /\ v.at = "err"
        /\ v.job = w.job /\ v.index = w.index /\ v.seen = w.seen /\ v.cluster = w.cluster
        /\ v.offset = w.offset /\ v.want = w.want /\ v.found = w.found /\ v.buffer = w.buffer
    BY <1>3, <2>1, WalkAt
  <2> QED BY <1>3, <2>2 DEF v, want
<1>5. CASE ~(e.cluster < 2) /\ want = 0
  <2>1. v = [w EXCEPT !.at = "end"] /\ "end" \in Ats
    BY <1>2, <1>5 DEF Ats
  <2>2. /\ v \in WalkRecs /\ v.at = "end"
        /\ v.job = w.job /\ v.index = w.index /\ v.seen = w.seen /\ v.cluster = w.cluster
        /\ v.offset = w.offset /\ v.want = w.want /\ v.found = w.found /\ v.buffer = w.buffer
    BY <1>3, <2>1, WalkAt
  <2> QED BY <1>3, <1>5, <2>2 DEF v, want
<1>6. CASE ~(e.cluster < 2) /\ want # 0
  <2>1. v = w /\ want > 0
    BY <1>1, <1>2, <1>6
  <2> QED BY <1>3, <2>1 DEF v, want
<1> QED BY <1>4, <1>5, <1>6

\* The next sector is the next of the cluster, or the FAT is asked for the next cluster.
LEMMA NextSectorMade ==
  ASSUME NEW f \in FsRecs, NEW w \in WalkRecs, w.at = "sector", NEW v, v = NextSector(f, w)
  PROVE  /\ v \in WalkRecs
         /\ v.job = w.job /\ v.index = w.index /\ v.seen = w.seen /\ v.cluster = w.cluster
         /\ v.want = w.want /\ v.found = w.found /\ v.buffer = w.buffer
         /\ \/ w.offset + 1 < f.spc /\ v.at = "sector" /\ v.offset = w.offset + 1
            \/ ~(w.offset + 1 < f.spc) /\ v.at = "fat"
<1>1. w.offset + 1 \in Nat /\ "fat" \in Ats
  BY WalkFields DEF Ats
<1>2. CASE w.offset + 1 < f.spc
  <2>1. v = [w EXCEPT !.offset = w.offset + 1]
    BY <1>2 DEF NextSector
  <2>2. /\ v \in WalkRecs /\ v.offset = w.offset + 1
        /\ v.job = w.job /\ v.index = w.index /\ v.seen = w.seen /\ v.cluster = w.cluster
        /\ v.want = w.want /\ v.found = w.found /\ v.buffer = w.buffer /\ v.at = w.at
    BY <1>1, <2>1, WalkOffset
  <2> QED BY <1>2, <2>2
<1>3. CASE ~(w.offset + 1 < f.spc)
  <2>1. v = [w EXCEPT !.at = "fat"]
    BY <1>3 DEF NextSector
  <2>2. /\ v \in WalkRecs /\ v.at = "fat"
        /\ v.job = w.job /\ v.index = w.index /\ v.seen = w.seen /\ v.cluster = w.cluster
        /\ v.want = w.want /\ v.found = w.found /\ v.buffer = w.buffer
    BY <1>1, <2>1, WalkAt
  <2> QED BY <1>3, <2>2
<1> QED BY <1>2, <1>3

\* A sector of the directory: its ROMs are counted, the one with the number sought is found,
\* and the walk goes on unless the directory ends.  Whatever the walk is for, it lists the same.
LEMMA DirReadMade ==
  ASSUME NEW f \in FsRecs, NEW w \in WalkRecs, w.job # "read", w.at = "sector", w.found = NoEntry,
         w.job # "count" => w.seen <= w.index,
         NEW entries \in Seq(Entries), NEW v, v = DirRead(f, w, entries)
  PROVE  LET x    == RomsIn(entries)
             seen == w.seen + Len(x.listed)
         IN  /\ v \in WalkRecs
             /\ v.job = w.job /\ v.index = w.index /\ v.cluster = w.cluster
             /\ v.want = w.want /\ v.buffer = w.buffer
             /\ \/ /\ v.at = "end" /\ w.job # "count" /\ w.index < seen
                   /\ w.index - w.seen + 1 \in 1..Len(x.listed)
                   /\ v.found = x.listed[w.index - w.seen + 1]
                \/ /\ v.seen = seen /\ v.found = NoEntry /\ (w.job # "count" => seen <= w.index)
                   /\ \/ x.over /\ v.at = "end"
                      \/ ~x.over /\ w.offset + 1 < f.spc /\ v.at = "sector" /\ v.offset = w.offset + 1
                      \/ ~x.over /\ ~(w.offset + 1 < f.spc) /\ v.at = "fat"
<1> DEFINE x    == RomsIn(entries)
           s    == Scanned(entries, {i \in DOMAIN entries : Listed(w.job, entries[i])})
           seen == w.seen + Len(x.listed)
           nth  == x.listed[w.index - w.seen + 1]
<1>1. s = x
  <2>1. \A e : Listed(w.job, e) <=> IsRom(e)
    <3>1. w.job \in {"count", "name", "find"}
      BY WalkFields DEF Jobs
    <3> QED BY <3>1 DEF Listed, CountListed, NameListed, FindListed
  <2>2. {i \in DOMAIN entries : Listed(w.job, entries[i])} = {i \in DOMAIN entries : IsRom(entries[i])}
    BY <2>1
  <2> QED BY <2>2 DEF RomsIn
<1>2. x.listed \in Seq(RomEntries) /\ x.over \in BOOLEAN
  BY RomsInTyped
<1>3. w.seen \in Nat /\ w.index \in Nat /\ Len(x.listed) \in Nat /\ seen \in Nat /\ "end" \in Ats
  BY <1>2, WalkFields DEF Ats
<1>4. v = CASE w.job # "count" /\ w.index < seen -> [w EXCEPT !.found = nth, !.at = "end"]
            [] ~(w.job # "count" /\ w.index < seen) /\ x.over -> [w EXCEPT !.seen = seen, !.at = "end"]
            [] OTHER -> NextSector(f, [w EXCEPT !.seen = seen])
  BY <1>1 DEF DirRead
<1> HIDE DEF s
<1>5. CASE w.job # "count" /\ w.index < seen
  <2>1. w.index - w.seen + 1 \in 1..Len(x.listed)
    BY <1>3, <1>5
  <2>2. nth \in Entries \cup {NoEntry}
    BY <1>2, <2>1, EntriesTyped
  <2> HIDE DEF nth, seen, x
  <2>3. v = [[w EXCEPT !.found = nth] EXCEPT !.at = "end"]
    BY <1>4, <1>5
  <2> DEFINE u == [w EXCEPT !.found = nth]
  <2>4. /\ u \in WalkRecs /\ u.found = nth
        /\ u.job = w.job /\ u.index = w.index /\ u.seen = w.seen /\ u.cluster = w.cluster
        /\ u.offset = w.offset /\ u.want = w.want /\ u.buffer = w.buffer /\ u.at = w.at
    BY <2>2, WalkFound
  <2> HIDE DEF u
  <2>5. /\ v \in WalkRecs /\ v.at = "end"
        /\ v.job = u.job /\ v.index = u.index /\ v.seen = u.seen /\ v.cluster = u.cluster
        /\ v.offset = u.offset /\ v.want = u.want /\ v.found = u.found /\ v.buffer = u.buffer
    <3>1. v = [u EXCEPT !.at = "end"]
      BY <2>3 DEF u
    <3> QED BY <1>3, <2>4, <3>1, WalkAt
  <2> QED BY <1>5, <2>1, <2>4, <2>5 DEF nth, seen, x
<1> DEFINE u == [w EXCEPT !.seen = seen]
<1>6. /\ u \in WalkRecs /\ u.seen = seen
      /\ u.job = w.job /\ u.index = w.index /\ u.cluster = w.cluster
      /\ u.offset = w.offset /\ u.want = w.want /\ u.buffer = w.buffer /\ u.at = w.at /\ u.found = w.found
  <2> HIDE DEF seen
  <2> QED BY <1>3, WalkSeen
<1>7. ASSUME ~(w.job # "count" /\ w.index < seen) PROVE w.job # "count" => seen <= w.index
  BY <1>3, <1>7
<1>8. CASE ~(w.job # "count" /\ w.index < seen) /\ x.over
  <2> HIDE DEF nth, seen, x
  <2>1. v = [u EXCEPT !.at = "end"]
    BY <1>4, <1>8
  <2> HIDE DEF u
  <2>2. /\ v \in WalkRecs /\ v.at = "end"
        /\ v.job = u.job /\ v.index = u.index /\ v.seen = u.seen /\ v.cluster = u.cluster
        /\ v.offset = u.offset /\ v.want = u.want /\ v.found = u.found /\ v.buffer = u.buffer
    BY <1>3, <1>6, <2>1, WalkAt
  <2> QED BY <1>6, <1>7, <1>8, <2>2 DEF nth, seen, x
<1>9. CASE ~(w.job # "count" /\ w.index < seen) /\ ~x.over
  <2> HIDE DEF nth, seen, x
  <2>1. v = NextSector(f, u)
    BY <1>4, <1>9
  <2> HIDE DEF u
  <2>2. /\ v \in WalkRecs
        /\ v.job = u.job /\ v.index = u.index /\ v.seen = u.seen /\ v.cluster = u.cluster
        /\ v.want = u.want /\ v.found = u.found /\ v.buffer = u.buffer
        /\ \/ u.offset + 1 < f.spc /\ v.at = "sector" /\ v.offset = u.offset + 1
           \/ ~(u.offset + 1 < f.spc) /\ v.at = "fat"
    BY <1>6, <2>1, NextSectorMade
  <2> QED BY <1>6, <1>7, <1>9, <2>2 DEF nth, seen, x
<1> QED BY <1>5, <1>8, <1>9

\* A sector of a file is added to the buffer.
LEMMA FileReadMade ==
  ASSUME NEW f \in FsRecs, NEW w \in WalkRecs, w.at = "sector", NEW n \in OfDisk,
         Len(w.buffer) < w.want, NEW v, v = FileRead(f, w, n)
  PROVE  /\ v \in WalkRecs
         /\ v.job = w.job /\ v.index = w.index /\ v.seen = w.seen /\ v.cluster = w.cluster
         /\ v.want = w.want /\ v.found = w.found
         /\ v.buffer = Append(w.buffer, n) /\ Len(v.buffer) = Len(w.buffer) + 1 /\ Len(v.buffer) <= w.want
         /\ \/ Len(v.buffer) = w.want /\ v.at = "fat"
            \/ Len(v.buffer) < w.want /\ w.offset + 1 < f.spc /\ v.at = "sector" /\ v.offset = w.offset + 1
            \/ Len(v.buffer) < w.want /\ ~(w.offset + 1 < f.spc) /\ v.at = "fat"
<1> DEFINE more == Append(w.buffer, n)
           u == [w EXCEPT !.buffer = more]
<1>1. /\ w.buffer \in Seq(OfDisk) /\ w.want \in Nat /\ "fat" \in Ats /\ more \in Seq(OfDisk)
      /\ Len(more) = Len(w.buffer) + 1 /\ Len(w.buffer) \in Nat
  <2>1. w.buffer \in Seq(OfDisk) /\ w.want \in 0..RomUnits
    BY WalkFields
  <2>2. w.want \in Nat
    BY <2>1, BootAssumption
  <2> QED BY <2>1, <2>2 DEF Ats
<1> HIDE DEF more
<1>2. /\ u \in WalkRecs /\ u.buffer = more
      /\ u.job = w.job /\ u.index = w.index /\ u.seen = w.seen /\ u.cluster = w.cluster
      /\ u.offset = w.offset /\ u.want = w.want /\ u.found = w.found /\ u.at = w.at
  BY <1>1, WalkBuffer
<1>3. v = IF Len(u.buffer) = u.want THEN [u EXCEPT !.at = "fat"] ELSE NextSector(f, u)
  <2>1. v = IF Len(u.buffer) = w.want THEN [u EXCEPT !.at = "fat"] ELSE NextSector(f, u)
    BY DEF FileRead, more
  <2> HIDE DEF u
  <2> QED BY <1>2, <2>1
<1> HIDE DEF u
<1>4. CASE Len(more) = w.want
  <2>1. v = [u EXCEPT !.at = "fat"]
    BY <1>2, <1>3, <1>4
  <2>2. /\ v \in WalkRecs /\ v.at = "fat"
        /\ v.job = u.job /\ v.index = u.index /\ v.seen = u.seen /\ v.cluster = u.cluster
        /\ v.offset = u.offset /\ v.want = u.want /\ v.found = u.found /\ v.buffer = u.buffer
    BY <1>1, <1>2, <2>1, WalkAt
  <2> QED BY <1>1, <1>2, <1>4, <2>2 DEF more
<1>5. CASE Len(more) # w.want
  <2>1. v = NextSector(f, u) /\ u.at = "sector"
    BY <1>2, <1>3, <1>5
  <2>2. /\ v \in WalkRecs
        /\ v.job = u.job /\ v.index = u.index /\ v.seen = u.seen /\ v.cluster = u.cluster
        /\ v.want = u.want /\ v.found = u.found /\ v.buffer = u.buffer
        /\ \/ u.offset + 1 < f.spc /\ v.at = "sector" /\ v.offset = u.offset + 1
           \/ ~(u.offset + 1 < f.spc) /\ v.at = "fat"
    BY <1>2, <2>1, NextSectorMade
  <2>3. Len(more) < w.want
    BY <1>1, <1>5
  <2> QED BY <1>1, <1>2, <2>2, <2>3 DEF more
<1> QED BY <1>4, <1>5

\* The next cluster of a chain, where there is one and the walk needs it.
LEMMA FatReadMade ==
  ASSUME NEW f \in FsRecs, NEW w \in WalkRecs, NEW next \in Nat, NEW v, v = FatRead(f, w, next)
  PROVE  /\ v \in WalkRecs
         /\ v.job = w.job /\ v.index = w.index /\ v.seen = w.seen
         /\ v.want = w.want /\ v.found = w.found /\ v.buffer = w.buffer
         /\ \/ Panics(f, w.cluster) /\ v.at = "panic"
            \/ /\ ~Panics(f, w.cluster) /\ InChain(next) /\ (w.job = "read" => Len(w.buffer) < w.want)
               /\ v.at = "sector" /\ v.cluster = next /\ v.offset = 0
            \/ /\ ~Panics(f, w.cluster) /\ v.at = "end"
               /\ ~InChain(next) \/ (w.job = "read" /\ ~(Len(w.buffer) < w.want))
<1> DEFINE panics == Panics(f, w.cluster)
           on == InChain(next) /\ (w.job = "read" => Len(w.buffer) < w.want)
<1>1. "panic" \in Ats /\ "sector" \in Ats /\ "end" \in Ats /\ 0 \in Nat
  BY DEF Ats
<1>2. v = CASE panics -> [w EXCEPT !.at = "panic"]
            [] ~panics /\ on -> [w EXCEPT !.at = "sector", !.cluster = next, !.offset = 0]
            [] OTHER -> [w EXCEPT !.at = "end"]
  BY DEF FatRead
<1> HIDE DEF panics, on
<1>3. CASE panics
  <2>1. v = [w EXCEPT !.at = "panic"]
    BY <1>2, <1>3
  <2>2. /\ v \in WalkRecs /\ v.at = "panic"
        /\ v.job = w.job /\ v.index = w.index /\ v.seen = w.seen /\ v.cluster = w.cluster
        /\ v.offset = w.offset /\ v.want = w.want /\ v.found = w.found /\ v.buffer = w.buffer
    BY <1>1, <2>1, WalkAt
  <2> QED BY <1>3, <2>2 DEF panics
<1>4. CASE ~panics /\ on
  <2> DEFINE u == [w EXCEPT !.at = "sector"]
             t == [u EXCEPT !.cluster = next]
  <2>1. v = [t EXCEPT !.offset = 0]
    BY <1>2, <1>4
  <2>2. /\ u \in WalkRecs /\ u.at = "sector"
        /\ u.job = w.job /\ u.index = w.index /\ u.seen = w.seen /\ u.cluster = w.cluster
        /\ u.offset = w.offset /\ u.want = w.want /\ u.found = w.found /\ u.buffer = w.buffer
    BY <1>1, WalkAt
  <2> HIDE DEF u
  <2>3. /\ t \in WalkRecs /\ t.cluster = next
        /\ t.job = u.job /\ t.index = u.index /\ t.seen = u.seen
        /\ t.offset = u.offset /\ t.want = u.want /\ t.found = u.found /\ t.buffer = u.buffer /\ t.at = u.at
    BY <2>2, WalkCluster
  <2> HIDE DEF t
  <2>4. /\ v \in WalkRecs /\ v.offset = 0
        /\ v.job = t.job /\ v.index = t.index /\ v.seen = t.seen /\ v.cluster = t.cluster
        /\ v.want = t.want /\ v.found = t.found /\ v.buffer = t.buffer /\ v.at = t.at
    BY <1>1, <2>1, <2>3, WalkOffset
  <2> QED BY <1>4, <2>2, <2>3, <2>4 DEF panics, on
<1>5. CASE ~panics /\ ~on
  <2>1. v = [w EXCEPT !.at = "end"]
    BY <1>2, <1>5
  <2>2. /\ v \in WalkRecs /\ v.at = "end"
        /\ v.job = w.job /\ v.index = w.index /\ v.seen = w.seen /\ v.cluster = w.cluster
        /\ v.offset = w.offset /\ v.want = w.want /\ v.found = w.found /\ v.buffer = w.buffer
    BY <1>1, <2>1, WalkAt
  <2> QED BY <1>5, <2>2 DEF panics, on
<1> QED BY <1>3, <1>4, <1>5

-----------------------------------------------------------------------------
(* The ROMs of the disk, and how a walk begins. *)

\* The ROMs of the directory are entries, and those met before any place of it come first among them.
LEMMA RomsListed ==
  ASSUME DiskTyped(disk)
  PROVE  /\ Roms \in Seq(RomEntries) /\ Len(Roms) \in Nat
         /\ \A i \in 1..Len(Roms) : Roms[i] \in Entries /\ Roms[i] # NoEntry
         /\ \A n \in 0..disk.extent :
              /\ Dir(n) \in DirRecs /\ Dir(n).roms \in Seq(RomEntries) /\ Len(Dir(n).roms) \in Nat
              /\ Len(Dir(n).roms) <= Len(Roms)
              /\ \A i \in 1..Len(Dir(n).roms) : Roms[i] = Dir(n).roms[i]
              /\ Dir(n).over => Roms = Dir(n).roms
<1>1. disk.extent \in Nat
  BY DiskHolds
<1>2. \A n \in 0..disk.extent : Dir(n) \in DirRecs
  BY DirectorySteps DEF Dir
<1>3. \A s \in DirRecs : s.roms \in Seq(RomEntries)
  <2> DEFINE L == Seq(RomEntries)
  <2> HIDE DEF L
  <2>1. \A s \in DirRecs : s.roms \in L
    BY DEF DirRecs, L
  <2> QED BY <2>1 DEF L
<1>4. Roms = Dir(disk.extent).roms /\ disk.extent \in 0..disk.extent
  BY <1>1 DEF Roms, RomList, Dir
<1>5. Roms \in Seq(RomEntries)
  BY <1>2, <1>3, <1>4
<1>6. \A i \in 1..Len(Roms) : Roms[i] \in Entries /\ Roms[i] # NoEntry
  BY <1>5, EntriesTyped
<1>7. ASSUME NEW n \in 0..disk.extent
      PROVE  /\ Len(Dir(n).roms) <= Len(Roms)
             /\ \A i \in 1..Len(Dir(n).roms) : Roms[i] = Dir(n).roms[i]
             /\ Dir(n).over => Roms = Dir(n).roms
  <2>1. disk.extent \in n..disk.extent
    BY <1>1
  <2> QED BY <1>4, <2>1, DirectoryGrows DEF Dir
<1>8. \A s \in Seq(RomEntries) : Len(s) \in Nat
  OBVIOUS
<1> QED BY <1>2, <1>3, <1>5, <1>6, <1>7, <1>8

\* A walk over the directory begins where the directory does.
LEMMA DirBegins ==
  ASSUME DiskTyped(disk), DiskSound(disk), BpbValid(disk.bpb), disk' = disk, fs' \in FsRecs, ProbeInv, Good,
         NEW job \in {"count", "name", "find"}, NEW index \in Nat,
         walk' = DirWalk(fs', job, index),
         io' = IF walk'.at = "sector" THEN Asked(0, Request(fs', walk')) ELSE IdleIo
  PROVE  /\ walk' \in WalkRecs /\ walk'.job = job /\ walk'.index = index /\ walk'.seen = 0
         /\ walk'.buffer = <<>> /\ walk'.at \in {"sector", "end"} /\ walk'.found = NoEntry
         /\ io' \in IoRecs
         /\ walk'.at = "sector" => /\ InChain(walk'.cluster) /\ io'.lba = Request(fs', walk')
                                   /\ io'.stage \in {"select", "err"}
                                   /\ io'.stage = "select" => io'.lba \in OfDisk
                                   /\ io'.stage = "err" => io'.lba \notin OfDisk
         /\ walk'.at # "sector" => io'.stage = "idle"
         /\ fs' \in {Mounted(0, disk.bpb), Mounted(disk.mbr, disk.bpb)} => DirWalkInv'
<1> DEFINE w == DirWalk(fs', job, index)
<1>1. job \in Jobs
  BY DEF Jobs
<1>2. /\ w \in WalkRecs
      /\ w.job = job /\ w.index = index /\ w.seen = 0 /\ w.cluster = fs'.root /\ w.offset = 0
      /\ w.want = 0 /\ w.found = NoEntry /\ w.buffer = <<>>
      /\ w.at = IF InChain(fs'.root) THEN "sector" ELSE "end"
  BY <1>1, DirWalkMade
<1>3. walk' = w
  OBVIOUS
<1> HIDE DEF w
<1>4. ASSUME w.at = "sector"
      PROVE  /\ InChain(w.cluster) /\ io'.lba = Request(fs', w) /\ io' \in IoRecs
             /\ io'.stage \in {"select", "err"}
             /\ io'.stage = "select" => io'.lba \in OfDisk
             /\ io'.stage = "err" => io'.lba \notin OfDisk
  <2>1. InChain(w.cluster)
    BY <1>2, <1>4
  <2>2. Request(fs', w) \in Nat /\ 0 \in Slots
    BY <1>2, <2>1, RequestTyped DEF Slots
  <2>3. io' = Asked(0, Request(fs', w))
    BY <1>3, <1>4
  <2> QED BY <2>1, <2>2, <2>3, AskedFacts DEF Good
<1>5. ASSUME w.at # "sector" PROVE io' \in IoRecs /\ io'.stage = "idle"
  <2>1. io' = IdleIo /\ "idle" \in Stages /\ 0 \in Nat /\ NoSector \in OfDisk \cup {NoSector}
    BY <1>3, <1>5 DEF Stages
  <2> QED BY <2>1, CallFields DEF IdleIo
<1>6. ASSUME fs' \in {Mounted(0, disk.bpb), Mounted(disk.mbr, disk.bpb)}, disk.regular
      PROVE  Follows(disk, w, failed')
  <2> DEFINE root == [cluster |-> disk.bpb.root, offset |-> 0]
             over == ~OnDisk(disk, root)
  <2>1. w.cluster = disk.bpb.root
    <3>1. fs'.root = disk.bpb.root
      BY <1>6 DEF Mounted
    <3> QED BY <1>2, <3>1
  <2>2. Dir(0) = [place |-> root, roms |-> <<>>, over |-> over] /\ over \in BOOLEAN
    BY DirectorySteps DEF Dir, DirStart, OnDisk, InChain
  <2>3. 0 \in 0..disk.extent
    BY DiskHolds
  <2>4. ~InChain(disk.bpb.root) => over
    BY DEF OnDisk
  <2>5. root = [cluster |-> w.cluster, offset |-> w.offset]
    BY <1>2, <2>1
  <2> HIDE DEF root, over
  <2>6. Dir(0).place = root /\ Dir(0).roms = <<>> /\ Dir(0).over = over
    BY <2>2
  <2>7. Len(Dir(0).roms) = 0 /\ (Dir(0).over <=> over)
    BY <2>6
  <2>8. Stands(disk, root, 0)
    BY <2>3, <2>6, <2>7 DEF Stands, Dir, over
  <2>9. w.at = "end" => index >= Len(Roms)
    <3>1. w.at = "end" => over
      BY <1>2, <2>1, <2>4
    <3>2. over => Len(Roms) = 0
      BY <2>3, <2>7, RomsListed
    <3> QED BY <3>1, <3>2
  <2>10. 0 <= Len(Roms)
    BY RomsListed
  <2>11. Addressed(disk, w.cluster)
    <3>1. Addressed(disk, Dir(0).place.cluster)
      BY <1>6, <2>3 DEF DiskSound, Dir
    <3> QED BY <2>1, <2>6, <3>1 DEF root
  <2> QED BY <1>2, <2>5, <2>8, <2>9, <2>10, <2>11 DEF Follows, Roms
<1>7. fs' \in {Mounted(0, disk.bpb), Mounted(disk.mbr, disk.bpb)} => DirWalkInv'
  BY <1>3, <1>6 DEF DirWalkInv, Clean
<1> QED BY <1>2, <1>3, <1>4, <1>5, <1>7

-----------------------------------------------------------------------------
(* A walk takes a sector. *)

\* A walk that takes the sector it asked for stays well typed.
LEMMA WalkTakes ==
  ASSUME DiskTyped(disk), NEW f \in FsRecs, NEW w, Going(w), w.at \in {"sector", "fat"},
         NEW n \in OfDisk, NEW v, v = AfterSector(f, w, disk, n)
  PROVE  Going(v) /\ v.job = w.job /\ v.index = w.index /\ v.want = w.want
<1>1. /\ w \in WalkRecs /\ Len(w.buffer) <= w.want /\ InChain(w.cluster) /\ w.found = NoEntry
      /\ w.at = "sector" /\ w.job = "read" => Len(w.buffer) < w.want
      /\ w.job # "count" => w.seen <= w.index
  BY DEF Going
<1>2. CASE w.at = "fat"
  <2> DEFINE next == AsFat(disk, n, FatPlace(f, w.cluster))
  <2>1. next \in Nat
    BY DiskHolds
  <2>2. v = FatRead(f, w, next)
    BY <1>2 DEF AfterSector
  <2> HIDE DEF next
  <2>3. /\ v \in WalkRecs
        /\ v.job = w.job /\ v.index = w.index /\ v.seen = w.seen
        /\ v.want = w.want /\ v.found = w.found /\ v.buffer = w.buffer
        /\ \/ v.at = "panic"
           \/ /\ InChain(next) /\ (w.job = "read" => Len(w.buffer) < w.want)
              /\ v.at = "sector" /\ v.cluster = next
           \/ v.at = "end"
    BY <1>1, <2>1, <2>2, FatReadMade, SMTT(30)
  <2> QED BY <1>1, <2>3 DEF Going
<1>3. CASE w.at = "sector" /\ w.job = "read"
  <2>1. v = FileRead(f, w, n)
    BY <1>3 DEF AfterSector
  <2>2. /\ v \in WalkRecs
        /\ v.job = w.job /\ v.index = w.index /\ v.seen = w.seen /\ v.cluster = w.cluster
        /\ v.want = w.want /\ v.found = w.found /\ Len(v.buffer) <= w.want
        /\ \/ v.at = "fat"
           \/ Len(v.buffer) < w.want /\ v.at = "sector"
    BY <1>1, <1>3, <2>1, FileReadMade
  <2> QED BY <1>1, <1>3, <2>2 DEF Going
<1>4. CASE w.at = "sector" /\ w.job # "read"
  <2> DEFINE entries == AsEntries(disk, n)
             x       == RomsIn(entries)
             seen    == w.seen + Len(x.listed)
  <2>1. entries \in Seq(Entries)
    BY DiskHolds
  <2>2. v = DirRead(f, w, entries)
    BY <1>4 DEF AfterSector
  <2> HIDE DEF entries
  <2>3. /\ v \in WalkRecs
        /\ v.job = w.job /\ v.index = w.index /\ v.cluster = w.cluster
        /\ v.want = w.want /\ v.buffer = w.buffer
        /\ \/ v.at = "end"
           \/ /\ v.seen = seen /\ v.found = NoEntry /\ (w.job # "count" => seen <= w.index)
              /\ v.at \in {"end", "sector", "fat"}
    BY <1>1, <1>4, <2>1, <2>2, DirReadMade
  <2> HIDE DEF seen
  <2> QED BY <1>1, <1>4, <2>3 DEF Going
<1> QED BY <1>2, <1>3, <1>4

\* A walk that could not read gives up, or takes the directory to be over.
LEMMA WalkFails ==
  ASSUME NEW w, Going(w), w.at \in {"sector", "fat"}, NEW v, v = AfterError(w)
  PROVE  /\ Going(v) /\ v.job = w.job /\ v.index = w.index /\ v.want = w.want
         /\ v.seen = w.seen /\ v.found = NoEntry /\ v.at = IF w.job = "read" THEN "err" ELSE "end"
<1> DEFINE x == IF w.job = "read" THEN "err" ELSE "end"
<1>1. v = [w EXCEPT !.at = x] /\ w \in WalkRecs /\ x \in Ats
  BY DEF AfterError, Going, Ats
<1> HIDE DEF x
<1>2. /\ v \in WalkRecs /\ v.at = x
      /\ v.job = w.job /\ v.index = w.index /\ v.seen = w.seen /\ v.cluster = w.cluster
      /\ v.offset = w.offset /\ v.want = w.want /\ v.found = w.found /\ v.buffer = w.buffer
  BY <1>1, WalkAt
<1> QED BY <1>2 DEF Going, x

\* The disk as it is mounted when the driver is sound, and its directory comes to an end.
LEMMA SoundDisk ==
  ASSUME DiskTyped(disk), DiskSound(disk), BpbValid(disk.bpb), disk.regular
  PROVE  /\ Dir(disk.extent).over /\ disk.extent \in 0..disk.extent
         /\ Mounted(disk.mbr, disk.bpb) \in FsRecs
         /\ \A n \in 0..disk.extent : Addressed(disk, Dir(n).place.cluster)
         /\ \A i \in 1..Len(Roms) : AllAddressed(disk, Roms[i])
         /\ disk.roms = [i \in 1..Len(Roms) |-> Roms[i].name]
         /\ \A i \in 1..Len(Roms) : disk.files[Roms[i].name] = File(disk, Roms[i])[Roms[i].size].sectors
<1>1. disk.extent \in Nat /\ disk.mbr \in Nat
  BY DiskHolds
<1>2. Mounted(disk.mbr, disk.bpb) \in FsRecs
  BY <1>1, MountedTyped
<1>3. Dir(disk.extent).over /\ \A n \in 0..disk.extent : Addressed(disk, Dir(n).place.cluster)
  BY DEF DiskSound, Dir
<1>4. disk.roms = [i \in 1..Len(Roms) |-> Roms[i].name]
  BY DEF DiskSound, Roms
<1>5. \A i \in 1..Len(Roms) : disk.files[Roms[i].name] = File(disk, Roms[i])[Roms[i].size].sectors
  BY DEF DiskSound, Roms
<1>6. \A i \in 1..Len(Roms) : AllAddressed(disk, Roms[i])
  BY DEF DiskSound, Roms, AllAddressed
<1> QED BY <1>1, <1>2, <1>3, <1>4, <1>5, <1>6

\* The sector that a walk asks for is the one at its place, or that of its cluster's entry in the FAT.
LEMMA Asking ==
  ASSUME DiskTyped(disk), BpbValid(disk.bpb), NEW w, NEW f, f = Mounted(disk.mbr, disk.bpb),
         w.cluster \in Nat, InChain(w.cluster), Addressed(disk, w.cluster)
  PROVE  /\ w.at = "sector" =>
              LET place == [cluster |-> w.cluster, offset |-> w.offset]
              IN  /\ Request(f, w) = SectorAt(disk, place)
                  /\ OnDisk(disk, place) <=> Request(f, w) < DiskSectors
                  /\ NextPlace(disk, place) =
                       IF w.offset + 1 < f.spc THEN [cluster |-> w.cluster, offset |-> w.offset + 1]
                       ELSE [cluster |-> NextCluster(disk, w.cluster), offset |-> 0]
         /\ w.at = "fat" =>
              /\ ~(Request(f, w) < DiskSectors) => NextCluster(disk, w.cluster) = 0
              /\ Request(f, w) < DiskSectors /\ ~Panics(f, w.cluster) =>
                   NextCluster(disk, w.cluster) = AsFat(disk, Request(f, w), FatPlace(f, w.cluster))
<1>1. ASSUME w.at = "sector"
      PROVE  LET place == [cluster |-> w.cluster, offset |-> w.offset]
             IN  /\ Request(f, w) = SectorAt(disk, place)
                 /\ OnDisk(disk, place) <=> Request(f, w) < DiskSectors
                 /\ NextPlace(disk, place) =
                       IF w.offset + 1 < f.spc THEN [cluster |-> w.cluster, offset |-> w.offset + 1]
                       ELSE [cluster |-> NextCluster(disk, w.cluster), offset |-> 0]
  <2> DEFINE place == [cluster |-> w.cluster, offset |-> w.offset]
  <2>1. place.cluster = w.cluster /\ place.offset = w.offset
    OBVIOUS
  <2>2. f.spc = disk.bpb.spc
    BY DEF Mounted
  <2> HIDE DEF place
  <2>3. Request(f, w) = SectorAt(disk, place)
    BY <1>1, <2>1, InNumbers DEF Request, SectorAt
  <2>4. OnDisk(disk, place) <=> Request(f, w) < DiskSectors
    BY <2>1, <2>3 DEF OnDisk
  <2>5. NextPlace(disk, place) =
          IF w.offset + 1 < f.spc THEN [cluster |-> w.cluster, offset |-> w.offset + 1]
          ELSE [cluster |-> NextCluster(disk, w.cluster), offset |-> 0]
    BY <2>1, <2>2 DEF NextPlace
  <2> QED BY <2>3, <2>4, <2>5 DEF place
<1>2. ASSUME w.at = "fat"
      PROVE  /\ ~(Request(f, w) < DiskSectors) => NextCluster(disk, w.cluster) = 0
             /\ Request(f, w) < DiskSectors /\ ~Panics(f, w.cluster) =>
                  NextCluster(disk, w.cluster) = AsFat(disk, Request(f, w), FatPlace(f, w.cluster))
  <2>1. Request(f, w) = EntryAt(disk, w.cluster)
    BY <1>2, InNumbers DEF Request
  <2>2. NextCluster(disk, w.cluster) =
          IF EntryAt(disk, w.cluster) < DiskSectors /\ ~Panics(f, w.cluster)
          THEN AsFat(disk, EntryAt(disk, w.cluster), FatPlace(f, w.cluster)) ELSE 0
    BY DEF NextCluster
  <2> QED BY <2>1, <2>2
<1> QED BY <1>1, <1>2

\* A walk at the end of the directory has met all the ROMs.
LEMMA AtEnd ==
  ASSUME DiskTyped(disk), NEW place, NEW seen, Stands(disk, place, seen), ~OnDisk(disk, place)
  PROVE  Len(Roms) = seen
<1>1. PICK n \in 0..disk.extent :
        Dir(n).place = place /\ Len(Dir(n).roms) = seen /\ (Dir(n).over <=> ~OnDisk(disk, place))
  BY DEF Stands, Dir
<1> QED BY <1>1, RomsListed

\* Any walk along the directory follows the list of its ROMs.
LEMMA DirFollows ==
  ASSUME DiskTyped(disk), DiskSound(disk), BpbValid(disk.bpb), disk.regular,
         NEW w, Going(w), w.job # "read", w.at \in {"sector", "fat"}, NEW excused,
         Follows(disk, w, excused), NEW f, f = Mounted(disk.mbr, disk.bpb),
         NEW n \in OfDisk, n = Request(f, w), NEW v, v = AfterSector(f, w, disk, n)
  PROVE  Follows(disk, v, excused)
<1>1. /\ w \in WalkRecs /\ InChain(w.cluster) /\ w.found = NoEntry
      /\ w.job # "count" => w.seen <= w.index
      /\ f \in FsRecs /\ n < DiskSectors /\ w.seen \in Nat /\ w.index \in Nat
      /\ w.cluster \in Nat /\ Addressed(disk, w.cluster)
  <2>1. w \in WalkRecs
    BY DEF Going
  <2> QED BY <2>1, SoundDisk, WalkFields, Sizes DEF Going, Follows
<1>2. Len(Roms) \in Nat /\ Roms = RomList(disk)
  BY RomsListed DEF Roms
<1>3. CASE w.at = "fat"
  <2> DEFINE next  == AsFat(disk, n, FatPlace(f, w.cluster))
             place == [cluster |-> NextCluster(disk, w.cluster), offset |-> 0]
  <2>1. next \in Nat
    BY DiskHolds
  <2>2. v = FatRead(f, w, next)
    BY <1>3 DEF AfterSector
  <2>3. ~Panics(f, w.cluster) => next = NextCluster(disk, w.cluster)
    BY <1>1, <1>3, Asking
  <2>4. Stands(disk, place, w.seen) /\ (w.job = "count" => w.seen <= Len(Roms))
    BY <1>2, <1>3 DEF Follows
  <2>5. ~InChain(NextCluster(disk, w.cluster)) => ~OnDisk(disk, place)
    BY DEF OnDisk
  <2> HIDE DEF next, place
  <2>6. /\ v.job = w.job /\ v.index = w.index /\ v.seen = w.seen /\ v.found = w.found
        /\ \/ v.at = "panic"
           \/ ~Panics(f, w.cluster) /\ v.at = "sector" /\ v.cluster = next /\ v.offset = 0
           \/ ~Panics(f, w.cluster) /\ v.at = "end" /\ ~InChain(next)
    <3>1. /\ v.job = w.job /\ v.index = w.index /\ v.seen = w.seen
          /\ v.want = w.want /\ v.found = w.found /\ v.buffer = w.buffer
          /\ \/ Panics(f, w.cluster) /\ v.at = "panic"
             \/ /\ ~Panics(f, w.cluster) /\ InChain(next) /\ (w.job = "read" => Len(w.buffer) < w.want)
                /\ v.at = "sector" /\ v.cluster = next /\ v.offset = 0
             \/ /\ ~Panics(f, w.cluster) /\ v.at = "end"
                /\ ~InChain(next) \/ (w.job = "read" /\ ~(Len(w.buffer) < w.want))
      <4>1. f \in FsRecs /\ w \in WalkRecs /\ next \in Nat /\ v = FatRead(f, w, next)
        BY <1>1, <2>1, <2>2
      <4> QED BY ONLY <4>1, FatReadMade
    <3> QED BY <3>1
  <2>7. v.at = "sector" => place = [cluster |-> v.cluster, offset |-> v.offset]
    BY <2>3, <2>6 DEF place
  <2>8. v.at = "end" => Len(Roms) = w.seen
    BY <2>3, <2>4, <2>5, <2>6, AtEnd
  <2>9. Addressed(disk, place.cluster)
    BY <2>4, SoundDisk DEF Stands, Dir
  <2>10. v.at = "sector" => Addressed(disk, v.cluster)
    BY <2>7, <2>9
  <2> QED BY <1>1, <1>2, <2>4, <2>6, <2>7, <2>8, <2>10 DEF Follows
<1>4. CASE w.at = "sector"
  <2> DEFINE place   == [cluster |-> w.cluster, offset |-> w.offset]
             entries == AsEntries(disk, n)
             x       == RomsIn(entries)
             seen    == w.seen + Len(x.listed)
             next    == NextPlace(disk, place)
  <2>1. /\ n = SectorAt(disk, place) /\ OnDisk(disk, place)
        /\ next = IF w.offset + 1 < f.spc THEN [cluster |-> w.cluster, offset |-> w.offset + 1]
                  ELSE [cluster |-> NextCluster(disk, w.cluster), offset |-> 0]
    BY <1>1, <1>4, Asking
  <2> HIDE DEF place
  <2>2. Stands(disk, place, w.seen)
    BY <1>4 DEF Follows, place
  <2>3. PICK k \in 0..disk.extent :
          Dir(k).place = place /\ Len(Dir(k).roms) = w.seen /\ (Dir(k).over <=> ~OnDisk(disk, place))
    BY <2>2 DEF Stands, Dir
  <2>4. ~Dir(k).over /\ k + 1 \in 1..disk.extent /\ k + 1 \in 0..disk.extent /\ (k + 1) - 1 = k
    <3>1. k # disk.extent /\ disk.extent \in Nat
      BY <2>1, <2>3, SoundDisk, DiskHolds
    <3> QED BY <2>1, <2>3, <3>1
  <2>5. x.listed \in Seq(RomEntries) /\ x.over \in BOOLEAN /\ entries \in Seq(Entries)
    BY DiskHolds, RomsInTyped
  <2>6. /\ Dir(k + 1).place = next /\ Dir(k + 1).roms = Dir(k).roms \o x.listed
        /\ Dir(k + 1).over <=> (x.over \/ ~OnDisk(disk, next))
    <3> DEFINE over == x.over \/ ~OnDisk(disk, next)
               t == [place |-> next, roms |-> Dir(k).roms \o x.listed, over |-> over]
    <3>1. Dir(k + 1) = DirNext(disk, Dir(k))
      BY <2>4, DirectorySteps DEF Dir
    <3>2. Dir(k + 1) = t
      BY <2>1, <2>3, <2>4, <3>1 DEF DirNext
    <3> HIDE DEF over, next, x
    <3>3. t.place = next /\ t.roms = Dir(k).roms \o x.listed /\ (t.over <=> over)
      OBVIOUS
    <3> HIDE DEF t
    <3>4. Dir(k + 1).place = next /\ Dir(k + 1).roms = Dir(k).roms \o x.listed /\ (Dir(k + 1).over <=> over)
      BY <3>2, <3>3
    <3> QED BY <3>4 DEF over
  <2> HIDE DEF entries, x, next
  <2>7. /\ Dir(k).roms \in Seq(RomEntries)
        /\ Len(Dir(k + 1).roms) = seen /\ seen <= Len(Roms)
        /\ \A i \in 1..Len(x.listed) : Roms[w.seen + i] = x.listed[i]
        /\ Dir(k + 1).over => Len(Roms) = seen
    <3>1. Dir(k).roms \in Seq(RomEntries)
      BY RomsListed
    <3> DEFINE a == Dir(k).roms
               b == x.listed
               c == Dir(k + 1).roms
    <3>6. a \in Seq(RomEntries) /\ b \in Seq(RomEntries) /\ c = a \o b /\ Len(a) = w.seen
      BY <2>3, <2>5, <2>6, <3>1
    <3> HIDE DEF a, b, c
    <3>7. /\ Len(c) = w.seen + Len(b)
          /\ \A i \in 1..Len(b) : c[w.seen + i] = b[i] /\ w.seen + i \in 1..w.seen + Len(b)
      <4>1. Len(a) \in Nat /\ Len(b) \in Nat /\ Len(c) = Len(a) + Len(b)
        BY <3>6
      <4>2. ASSUME NEW i \in 1..Len(b) PROVE c[Len(a) + i] = b[i]
        <5>1. /\ Len(a) + i \in 1..Len(a) + Len(b) /\ ~(Len(a) + i <= Len(a))
              /\ Len(a) + i - Len(a) = i
          BY <4>1
        <5>2. \A j \in 1..Len(a) + Len(b) :
                (a \o b)[j] = IF j <= Len(a) THEN a[j] ELSE b[j - Len(a)]
          BY ONLY <3>6, ConcatProperties
        <5>3. c[Len(a) + i] = b[Len(a) + i - Len(a)]
          <6>1. PICK j \in 1..Len(a) + Len(b) : j = Len(a) + i
            BY ONLY <5>1
          <6>2. ~(j <= Len(a)) /\ c[j] = (a \o b)[j]
            BY ONLY <3>6, <5>1, <6>1
          <6>3. (a \o b)[j] = b[j - Len(a)]
            BY ONLY <5>2, <6>2, Zenon
          <6> QED BY ONLY <6>1, <6>2, <6>3
        <5> QED BY ONLY <5>1, <5>3
      <4>3. \A i \in 1..Len(b) : c[w.seen + i] = b[i]
        BY <3>6, <4>2
      <4>4. \A i \in 1..Len(b) : w.seen + i \in 1..w.seen + Len(b)
        BY <1>1, <4>1
      <4> QED BY <3>6, <4>1, <4>3, <4>4
    <3>2. Len(Dir(k + 1).roms) = seen
      BY <3>7 DEF b, c
    <3>3. \A i \in 1..Len(x.listed) : Dir(k + 1).roms[w.seen + i] = x.listed[i] /\ w.seen + i \in 1..seen
      BY <3>7 DEF b, c
    <3>4. /\ Len(Dir(k + 1).roms) <= Len(Roms)
          /\ \A i \in 1..Len(Dir(k + 1).roms) : Roms[i] = Dir(k + 1).roms[i]
          /\ Dir(k + 1).over => Roms = Dir(k + 1).roms
      BY <2>4, RomsListed
    <3> HIDE DEF seen
    <3>5. \A i \in 1..Len(x.listed) : Roms[w.seen + i] = x.listed[i]
      BY <3>2, <3>3, <3>4
    <3> QED BY <3>1, <3>2, <3>4, <3>5
  <2>8. Stands(disk, next, seen) \/ x.over
    <3>1. ASSUME ~x.over PROVE Dir(k + 1).over <=> ~OnDisk(disk, next)
      BY <2>6, <3>1
    <3> QED BY <2>4, <2>6, <2>7, <3>1 DEF Stands, Dir
  <2>9. v = DirRead(f, w, entries)
    BY <1>4 DEF AfterSector, entries
  <2>10. /\ v.job = w.job /\ v.index = w.index /\ v.cluster = w.cluster
         /\ \/ /\ v.at = "end" /\ w.job # "count" /\ w.index < seen
               /\ w.index - w.seen + 1 \in 1..Len(x.listed)
               /\ v.found = x.listed[w.index - w.seen + 1]
            \/ /\ v.seen = seen /\ v.found = NoEntry /\ (w.job # "count" => seen <= w.index)
               /\ \/ x.over /\ v.at = "end"
                  \/ ~x.over /\ w.offset + 1 < f.spc /\ v.at = "sector" /\ v.offset = w.offset + 1
                  \/ ~x.over /\ ~(w.offset + 1 < f.spc) /\ v.at = "fat"
    BY <1>1, <1>4, <2>5, <2>9, DirReadMade DEF x
  <2>11. seen \in Nat
    BY <1>1, <2>5
  <2>12. CASE /\ v.at = "end" /\ w.job # "count" /\ w.index < seen
              /\ w.index - w.seen + 1 \in 1..Len(x.listed)
              /\ v.found = x.listed[w.index - w.seen + 1]
    <3>1. w.index + 1 = w.seen + (w.index - w.seen + 1) /\ w.index < Len(Roms)
      BY <1>1, <1>2, <2>7, <2>11, <2>12
    <3>2. v.found = Roms[w.index + 1]
      BY <2>7, <2>12, <3>1
    <3>3. w.index + 1 \in 1..Len(Roms)
      BY <1>1, <1>2, <3>1
    <3>4. v.found # NoEntry
      BY <3>2, <3>3, RomsListed
    <3> QED BY <1>2, <2>10, <2>12, <3>1, <3>2, <3>4 DEF Follows
  <2>13. CASE /\ v.seen = seen /\ v.found = NoEntry /\ (w.job # "count" => seen <= w.index)
              /\ x.over /\ v.at = "end"
    <3>1. Len(Roms) = seen
      BY <2>6, <2>7, <2>13
    <3> HIDE DEF seen
    <3> QED BY <1>1, <1>2, <2>10, <2>11, <2>13, <3>1 DEF Follows
  <2>14. CASE /\ v.seen = seen /\ v.found = NoEntry /\ (w.job # "count" => seen <= w.index)
              /\ ~x.over /\ w.offset + 1 < f.spc /\ v.at = "sector" /\ v.offset = w.offset + 1
    <3>1. next = [cluster |-> v.cluster, offset |-> v.offset]
      BY <2>1, <2>10, <2>14
    <3> HIDE DEF seen
    <3> QED BY <1>1, <1>2, <2>7, <2>8, <2>10, <2>14, <3>1 DEF Follows
  <2>15. CASE /\ v.seen = seen /\ v.found = NoEntry /\ (w.job # "count" => seen <= w.index)
              /\ ~x.over /\ ~(w.offset + 1 < f.spc) /\ v.at = "fat"
    <3>1. next = [cluster |-> NextCluster(disk, v.cluster), offset |-> 0]
      BY <2>1, <2>10, <2>15
    <3> HIDE DEF seen
    <3> QED BY <1>1, <1>2, <2>7, <2>8, <2>10, <2>15, <3>1 DEF Follows
  <2> HIDE DEF seen
  <2> QED BY <2>10, <2>12, <2>13, <2>14, <2>15
<1> QED BY <1>3, <1>4

\* A walk along the directory that could not read has met all the ROMs, unless a read had failed.
LEMMA DirFails ==
  ASSUME DiskTyped(disk), BpbValid(disk.bpb), NEW w, Going(w), w.job # "read", w.at \in {"sector", "fat"},
         NEW excused \in BOOLEAN, Follows(disk, w, excused), NEW f, f = Mounted(disk.mbr, disk.bpb),
         excused \/ ~(Request(f, w) < DiskSectors), NEW v, v = AfterError(w)
  PROVE  Follows(disk, v, excused)
<1>1. /\ w \in WalkRecs /\ InChain(w.cluster) /\ (w.job # "count" => w.seen <= w.index)
      /\ w.seen \in Nat /\ w.index \in Nat /\ w.cluster \in Nat /\ Addressed(disk, w.cluster)
  <2>1. w \in WalkRecs
    BY DEF Going
  <2> QED BY <2>1, WalkFields DEF Going, Follows
<1>2. /\ v.job = w.job /\ v.index = w.index /\ v.seen = w.seen /\ v.found = NoEntry /\ v.at = "end"
  BY WalkFails
<1>3. Len(Roms) \in Nat /\ Roms = RomList(disk)
  BY RomsListed DEF Roms
<1>4. ~(Request(f, w) < DiskSectors) => Len(Roms) = w.seen
  <2>1. SUFFICES ASSUME ~(Request(f, w) < DiskSectors) PROVE Len(Roms) = w.seen
    OBVIOUS
  <2>2. CASE w.at = "sector"
    <3> DEFINE place == [cluster |-> w.cluster, offset |-> w.offset]
    <3>1. ~OnDisk(disk, place) /\ Stands(disk, place, w.seen)
      BY <1>1, <2>1, <2>2, Asking DEF Follows
    <3> HIDE DEF place
    <3> QED BY <3>1, AtEnd
  <2>3. CASE w.at = "fat"
    <3> DEFINE place == [cluster |-> NextCluster(disk, w.cluster), offset |-> 0]
    <3>1. NextCluster(disk, w.cluster) = 0 /\ Stands(disk, place, w.seen)
      BY <1>1, <2>1, <2>3, Asking DEF Follows
    <3>2. ~OnDisk(disk, place)
      BY <3>1 DEF OnDisk, InChain
    <3> HIDE DEF place
    <3> QED BY <3>1, <3>2, AtEnd
  <2> QED BY <2>2, <2>3
<1>5. w.job = "count" => w.seen <= Len(Roms)
  BY <1>3 DEF Follows
<1> QED BY <1>1, <1>2, <1>3, <1>4, <1>5 DEF Follows

\* A walk over a file follows the list of its sectors.
LEMMA FileFollows ==
  ASSUME DiskTyped(disk), BpbValid(disk.bpb),
         NEW w, Going(w), w.job = "read", w.at \in {"sector", "fat"},
         NEW e \in Entries, AllAddressed(disk, e), InFile(disk, e, w), NEW f, f = Mounted(disk.mbr, disk.bpb),
         NEW n \in OfDisk, n = Request(f, w), NEW v, v = AfterSector(f, w, disk, n)
  PROVE  InFile(disk, e, v)
<1> DEFINE k == Len(w.buffer)
           F == File(disk, e)
<1>1. /\ w \in WalkRecs /\ InChain(w.cluster) /\ k <= w.want /\ (w.at = "sector" => k < w.want)
      /\ n < DiskSectors /\ w.buffer \in Seq(OfDisk) /\ k \in Nat /\ w.want \in Nat
      /\ w.cluster \in Nat /\ Addressed(disk, w.cluster)
  <2>1. w \in WalkRecs
    BY DEF Going
  <2>2. w.buffer \in Seq(OfDisk) /\ w.want \in 0..RomUnits /\ w.cluster \in Nat
    BY <2>1, WalkFields
  <2> QED BY <2>1, <2>2, Sizes, BootAssumption DEF Going, InFile
<1>2. f \in FsRecs
  <2>1. disk.mbr \in Nat
    BY DiskHolds
  <2> QED BY <2>1, MountedTyped
<1>3. /\ w.want = IF e.size < RomUnits THEN e.size ELSE RomUnits
      /\ F[k].sectors = w.buffer
      /\ w.at = "sector" => F[k].place = [cluster |-> w.cluster, offset |-> w.offset]
      /\ w.at = "fat" => k = w.want \/ F[k].place = [cluster |-> NextCluster(disk, w.cluster), offset |-> 0]
  BY DEF InFile
<1>4. e.size \in Nat /\ w.want <= e.size
  BY <1>1, <1>3, EntriesTyped, BootAssumption
<1>5. CASE w.at = "fat"
  <2> DEFINE next  == AsFat(disk, n, FatPlace(f, w.cluster))
             place == [cluster |-> NextCluster(disk, w.cluster), offset |-> 0]
  <2>1. next \in Nat
    BY DiskHolds
  <2>2. v = FatRead(f, w, next)
    BY <1>5 DEF AfterSector
  <2>3. ~Panics(f, w.cluster) => next = NextCluster(disk, w.cluster)
    BY <1>1, <1>5, Asking
  <2>4. ~InChain(NextCluster(disk, w.cluster)) => ~OnDisk(disk, place)
    BY DEF OnDisk
  <2>5. k = w.want \/ F[k].place = place
    BY <1>3, <1>5
  <2> HIDE DEF next, place
  <2>6. /\ v.want = w.want /\ v.buffer = w.buffer
        /\ \/ v.at = "panic"
           \/ ~Panics(f, w.cluster) /\ v.at = "sector" /\ v.cluster = next /\ v.offset = 0 /\ k < w.want
           \/ ~Panics(f, w.cluster) /\ v.at = "end" /\ (~InChain(next) \/ ~(k < w.want))
    <3>1. f \in FsRecs /\ w \in WalkRecs /\ next \in Nat /\ v = FatRead(f, w, next)
      BY <1>1, <1>2, <2>1, <2>2
    <3>2. /\ v.want = w.want /\ v.buffer = w.buffer
          /\ \/ v.at = "panic"
             \/ /\ ~Panics(f, w.cluster) /\ (w.job = "read" => Len(w.buffer) < w.want)
                /\ v.at = "sector" /\ v.cluster = next /\ v.offset = 0
             \/ /\ ~Panics(f, w.cluster) /\ v.at = "end"
                /\ ~InChain(next) \/ ~(Len(w.buffer) < w.want)
      BY ONLY <3>1, FatReadMade, SMTT(30)
    <3> QED BY <3>2
  <2>7. Len(v.buffer) = k
    BY <2>6
  <2> HIDE DEF k, F
  <2>8. v.at = "sector" => F[k].place = [cluster |-> v.cluster, offset |-> v.offset]
    <3>1. v.at = "sector" => place = [cluster |-> v.cluster, offset |-> v.offset]
      BY <2>3, <2>6 DEF place
    <3>2. v.at = "sector" => k # w.want
      BY <1>1, <2>6
    <3> QED BY <2>5, <3>1, <3>2
  <2>9. v.at = "end" => k = w.want \/ ~OnDisk(disk, F[k].place)
    <3>1. v.at = "end" /\ ~InChain(next) => k = w.want \/ ~OnDisk(disk, F[k].place)
      BY <2>3, <2>4, <2>5, <2>6
    <3>2. v.at = "end" /\ ~(k < w.want) => k = w.want
      BY <1>1
    <3> QED BY <2>6, <3>1, <3>2
  <2>10. v.at # "fat"
    BY <2>6
  <2>11. v.at = "sector" => Addressed(disk, v.cluster)
    <3>1. k \in 0..e.size
      BY <1>1, <1>4
    <3>2. Addressed(disk, F[k].place.cluster)
      BY <3>1 DEF AllAddressed, F
    <3> QED BY <2>8, <3>2
  <2> QED BY <1>3, <2>6, <2>7, <2>8, <2>9, <2>10, <2>11 DEF InFile, F
<1>6. CASE w.at = "sector"
  <2> DEFINE place == [cluster |-> w.cluster, offset |-> w.offset]
             next  == NextPlace(disk, place)
  <2>1. /\ n = SectorAt(disk, place) /\ OnDisk(disk, place)
        /\ next = IF w.offset + 1 < f.spc THEN [cluster |-> w.cluster, offset |-> w.offset + 1]
                  ELSE [cluster |-> NextCluster(disk, w.cluster), offset |-> 0]
    BY <1>1, <1>6, Asking
  <2>2. F[k].place = place
    BY <1>3, <1>6
  <2> HIDE DEF place
  <2>3. k + 1 \in 1..e.size /\ (k + 1) - 1 = k
    BY <1>1, <1>4, <1>6
  <2>4. F[k + 1].place = next /\ F[k + 1].sectors = Append(w.buffer, n)
    <3>1. F[k + 1] = FileNext(disk, F[k])
      BY <2>3, FileSteps
    <3> HIDE DEF F, k
    <3> DEFINE t == [place |-> next, sectors |-> Append(w.buffer, n)]
    <3>2. F[k + 1] = t
      BY <1>3, <2>1, <2>2, <3>1 DEF FileNext
    <3>3. t.place = next /\ t.sectors = Append(w.buffer, n)
      OBVIOUS
    <3> HIDE DEF t
    <3> QED BY <3>2, <3>3
  <2> HIDE DEF next
  <2>5. v = FileRead(f, w, n)
    BY <1>6 DEF AfterSector
  <2>6. /\ v.cluster = w.cluster /\ v.want = w.want
        /\ v.buffer = Append(w.buffer, n) /\ Len(v.buffer) = Len(w.buffer) + 1
        /\ \/ Len(v.buffer) = w.want /\ v.at = "fat"
           \/ w.offset + 1 < f.spc /\ v.at = "sector" /\ v.offset = w.offset + 1
           \/ ~(w.offset + 1 < f.spc) /\ v.at = "fat"
    <3>1. f \in FsRecs /\ w \in WalkRecs /\ w.at = "sector" /\ n \in OfDisk /\ Len(w.buffer) < w.want
      BY <1>1, <1>2, <1>6
    <3> QED BY ONLY <2>5, <3>1, FileReadMade
  <2>7. Len(v.buffer) = k + 1
    BY <2>6
  <2> HIDE DEF k, F
  <2>8. v.at = "sector" => next = [cluster |-> v.cluster, offset |-> v.offset]
    BY <1>1, <2>1, <2>6, <2>7
  <2>9. v.at = "fat" => k + 1 = v.want \/ next = [cluster |-> NextCluster(disk, v.cluster), offset |-> 0]
    BY <2>1, <2>6, <2>7
  <2>10. v.at # "end" /\ Addressed(disk, v.cluster)
    BY <1>1, <2>6
  <2> QED BY <1>3, <2>4, <2>6, <2>7, <2>8, <2>9, <2>10 DEF InFile, F
<1> QED BY <1>5, <1>6

\* A walk over a file begins where the file does.
LEMMA FileBegins ==
  ASSUME DiskTyped(disk), NEW e \in Entries, AllAddressed(disk, e)
  PROVE  InFile(disk, e, FileWalk(e, RomUnits))
<1> DEFINE w == FileWalk(e, RomUnits)
           place == [cluster |-> e.cluster, offset |-> 0]
<1>1. /\ w.cluster = e.cluster /\ w.offset = 0
      /\ w.want = (IF e.size < RomUnits THEN e.size ELSE RomUnits)
      /\ w.buffer = <<>>
      /\ w.at \in {"sector", "end", "err"}
      /\ w.at = "end" => w.want = 0 \/ ~InChain(e.cluster)
  BY FileWalkMade
<1>2. File(disk, e)[0] = [place |-> place, sectors |-> <<>>]
  BY FileSteps DEF FileStart
<1>3. ~InChain(e.cluster) => ~OnDisk(disk, place)
  BY DEF OnDisk
<1>4. place = [cluster |-> w.cluster, offset |-> w.offset]
  BY <1>1
<1> HIDE DEF w, place
<1>5. File(disk, e)[0].place = place /\ File(disk, e)[0].sectors = <<>> /\ Len(w.buffer) = 0
  BY <1>1, <1>2
<1>6. Addressed(disk, e.cluster)
  <2>1. 0 \in 0..e.size /\ place.cluster = e.cluster
    BY EntriesTyped DEF place
  <2> QED BY <1>5, <2>1 DEF AllAddressed
<1>7. InFile(disk, e, w)
  BY <1>1, <1>3, <1>4, <1>5, <1>6 DEF InFile
<1> QED BY <1>7 DEF w

-----------------------------------------------------------------------------
(* The list of PCI devices. *)

\* A location comes before another exactly when its number in the scan does.
Rank(at) == 256 * at[1] + 8 * at[2] + at[3]

\* The order in which enumerate comes to buses, devices and functions is total.
LEMMA Ordered ==
  ASSUME NEW a \in Location, NEW b \in Location
  PROVE  Rank(a) \in Nat /\ Rank(a) <= 2047 /\ (Rank(a) <= Rank(b) => a = b \/ InScanOrder(a, b))
<1>1. PICK p \in 0..7, q \in 0..31, r \in 0..7 : a = <<p, q, r>>
  BY DEF Location
<1>2. PICK x \in 0..7, y \in 0..31, z \in 0..7 : b = <<x, y, z>>
  BY DEF Location
<1>3. Rank(a) = 256 * p + 8 * q + r /\ Rank(b) = 256 * x + 8 * y + z
  BY <1>1, <1>2 DEF Rank
<1>4. 256 * p + 8 * q + r \in Nat /\ 256 * p + 8 * q + r <= 2047
  OBVIOUS
<1>5. a[1] = p /\ a[2] = q /\ a[3] = r /\ b[1] = x /\ b[2] = y /\ b[3] = z
  BY <1>1, <1>2
<1>6. ASSUME Rank(a) <= Rank(b) PROVE a = b \/ InScanOrder(a, b)
  <2>1. p < x \/ (p = x /\ q < y) \/ (p = x /\ q = y /\ r <= z)
    <3>1. 256 * p + 8 * q + r <= 256 * x + 8 * y + z
      BY <1>3, <1>6
    <3> QED BY ONLY <3>1
  <2>2. p = x /\ q = y /\ r = z => a = b
    BY <1>1, <1>2
  <2>3. r <= z => r < z \/ r = z
    OBVIOUS
  <2> QED BY <1>5, <2>1, <2>2, <2>3 DEF InScanOrder
<1>7. Rank(a) \in Nat /\ Rank(a) <= 2047
  BY <1>3, <1>4
<1> QED BY <1>6, <1>7

\* What is left to visit has a nearest location.
LEMMA NearestIs ==
  ASSUME NEW left, left \subseteq Location, left # {}
  PROVE  Nearest(left) \in left
<1> DEFINE T == {Rank(at) : at \in left}
<1>1. T \subseteq Nat /\ T # {}
  <2>1. \A at \in left : Rank(at) \in Nat
    BY Ordered
  <2> QED BY <2>1
<1>2. PICK x \in T : \A y \in T : x <= y
  <2> HIDE DEF T
  <2> QED BY <1>1, Least
<1>3. PICK a \in left : x = Rank(a)
  OBVIOUS
<1>4. \A b \in left : a = b \/ InScanOrder(a, b)
  <2>1. \A b \in left : Rank(a) <= Rank(b)
    BY <1>2, <1>3
  <2>2. a \in Location /\ left \subseteq Location
    BY <1>3
  <2> QED BY <2>1, <2>2, Ordered
<1> QED BY <1>4 DEF Nearest

\* The scan lists what it comes to, each function once.
ScanRecs == [list : Seq(Location), left : SUBSET Location]
Scanning(s) == /\ s \in ScanRecs /\ Len(s.list) <= MaxPci /\ IsInjective(s.list)
               /\ \A i \in 1..Len(s.list) : s.list[i] \notin s.left

\* One step of enumerate keeps the list without repetitions and within MaxPci.
LEMMA ScanSteps ==
  ASSUME NEW s, Scanning(s)
  PROVE  Scanning(Visited(s))
<1>1. CASE s.left = {}
  BY <1>1 DEF Visited
<1>2. CASE s.left # {}
  <2> DEFINE L == Seq(Location)
             P == SUBSET Location
             at == Nearest(s.left)
             list == Added(s.list, at)
             left == s.left \ {at}
             v == [list |-> list, left |-> left]
  <2>1. s.list \in L /\ s.left \in P
    <3> HIDE DEF L, P
    <3>1. s \in [list : L, left : P]
      BY DEF Scanning, ScanRecs, L, P
    <3> QED BY <3>1
  <2>2. at \in s.left /\ at \in Location
    BY <1>2, <2>1, NearestIs
  <2>3. Visited(s) = v
    BY <1>2 DEF Visited
  <2>4. /\ Len(s.list) <= MaxPci /\ \A i \in 1..Len(s.list) : s.list[i] \notin s.left
        /\ \A i, j \in 1..Len(s.list) : s.list[i] = s.list[j] => i = j
    <3>1. DOMAIN s.list = 1..Len(s.list)
      BY <2>1
    <3> QED BY <3>1 DEF Scanning, IsInjective
  <2> DEFINE a == s.list
  <2>5. a \in Seq(Location)
    BY <2>1
  <2> HIDE DEF at, a
  <2>6. /\ list \in Seq(Location) /\ Len(list) <= MaxPci
        /\ \A i \in 1..Len(list) : list[i] \notin left
        /\ \A i, j \in 1..Len(list) : list[i] = list[j] => i = j
    <3>1. CASE Len(a) < MaxPci
      <4>1. list = Append(a, at)
        BY <3>1 DEF Added, a
      <4> HIDE DEF list
      <4>2. /\ list \in Seq(Location) /\ Len(list) = Len(a) + 1 /\ Len(a) \in Nat
            /\ \A i \in 1..Len(a) : list[i] = a[i]
            /\ list[Len(a) + 1] = at
        BY <2>2, <2>5, <4>1
      <4>3. \A i \in 1..Len(list) : i \in 1..Len(a) \/ i = Len(a) + 1
        BY <4>2
      <4>4. \A i \in 1..Len(a) : a[i] \notin s.left /\ a[i] # at
        BY <2>2, <2>4 DEF a
      <4>5. \A i, j \in 1..Len(a) : a[i] = a[j] => i = j
        BY <2>4 DEF a
      <4>6. Len(list) <= MaxPci
        BY <3>1, <4>2, PciAssumption
      <4>7. \A i \in 1..Len(list) : list[i] \notin left
        BY <4>2, <4>3, <4>4
      <4>8. \A i, j \in 1..Len(list) : list[i] = list[j] => i = j
        BY <4>2, <4>3, <4>4, <4>5
      <4> QED BY <4>2, <4>6, <4>7, <4>8
    <3>2. CASE ~(Len(a) < MaxPci)
      <4>1. list = a
        BY <3>2 DEF Added, a
      <4> HIDE DEF list
      <4> QED BY <2>4, <2>5, <4>1 DEF a
    <3> QED BY <3>1, <3>2
  <2>7. left \in P /\ list \in L
    BY <2>1, <2>6
  <2> HIDE DEF list, left
  <2>8. v \in ScanRecs
    <3> HIDE DEF L, P
    <3> QED BY <2>7 DEF ScanRecs, L, P
  <2>9. v.list = list /\ v.left = left
    OBVIOUS
  <2>10. IsInjective(list)
    <3>1. DOMAIN list = 1..Len(list)
      BY <2>6
    <3> QED BY <2>6, <3>1 DEF IsInjective
  <2> HIDE DEF v
  <2> QED BY <2>3, <2>6, <2>8, <2>9, <2>10 DEF Scanning
<1> QED BY <1>1, <1>2

\* The list is no longer than it may be, and has no function twice.
LEMMA Enumerated ==
  ASSUME NEW bs, DOMAIN bs \subseteq Location
  PROVE  enumerate(bs) \in Seq(Location) /\ Len(enumerate(bs)) <= MaxPci /\ IsInjective(enumerate(bs))
<1> DEFINE N == Cardinality(Reached(bs))
           a == [list |-> <<>>, left |-> Reached(bs)]
           scan[n \in 0..N] == IF n = 0 THEN a ELSE Visited(scan[n - 1])
           Body(f) == [n \in 0..N |-> IF n = 0 THEN a ELSE Visited(f[n - 1])]
           S == {s \in ScanRecs : Scanning(s)}
           step == [x \in S \X (1..N) |-> Visited(x[1])]
<1>0. enumerate(bs) = IF <<0, 0, 0>> \notin DOMAIN bs THEN <<>> ELSE scan[N].list
  BY DEF enumerate
<1>1. N \in Nat /\ Reached(bs) \subseteq Location
  <2> DEFINE number == [at \in Location |-> Rank(at)]
  <2>1. number \in [Location -> 0..2047]
    <3>1. \A at \in Location : Rank(at) \in 0..2047
      BY Ordered
    <3> QED BY <3>1
  <2>2. ASSUME NEW x \in Location, NEW y \in Location, number[x] = number[y] PROVE x = y
    <3>1. Rank(x) \in Nat /\ Rank(x) = Rank(y)
      BY <2>2, Ordered
    <3>2. (x = y \/ InScanOrder(x, y)) /\ (x = y \/ InScanOrder(y, x))
      <4>1. Rank(x) <= Rank(y) /\ Rank(y) <= Rank(x)
        BY <3>1
      <4> QED BY <4>1, Ordered
    <3>3. x[1] \in Nat /\ x[2] \in Nat /\ x[3] \in Nat /\ y[1] \in Nat /\ y[2] \in Nat /\ y[3] \in Nat
      BY DEF Location
    <3> QED BY <3>2, <3>3 DEF InScanOrder
  <2>3. IsFiniteSet(Location)
    <3>1. number \in Injection(Location, 0..2047)
      <4> HIDE DEF number
      <4> QED BY <2>1, <2>2 DEF Injection, IsInjective
    <3>2. IsFiniteSet(0..2047)
      <4> DEFINE top == 2047
      <4>1. top \in Nat
        OBVIOUS
      <4> HIDE DEF top
      <4>2. IsFiniteSet(0..top)
        BY <4>1, FS_Interval
      <4> QED BY <4>2 DEF top
    <3> HIDE DEF number
    <3> QED BY <3>1, <3>2, FS_Injection
  <2>4. Reached(bs) \subseteq Location
    BY DEF Reached
  <2>5. IsFiniteSet(Reached(bs))
    BY <2>3, <2>4, FS_Subset
  <2> QED BY <2>4, <2>5, FS_CardinalityType
<1>2. a \in S
  <2> DEFINE L == Seq(Location)
             P == SUBSET Location
  <2>1. <<>> \in L /\ Reached(bs) \in P
    BY <1>1
  <2>2. a \in ScanRecs
    <3> HIDE DEF L, P
    <3> QED BY <2>1 DEF ScanRecs, L, P
  <2>3. a.list = <<>> /\ Len(a.list) = 0 /\ IsInjective(a.list)
    BY DEF IsInjective
  <2> HIDE DEF a
  <2> QED BY <2>2, <2>3, PciAssumption DEF Scanning
<1>3. \A s \in S : Visited(s) \in S
  BY ScanSteps DEF Scanning
<1> HIDE DEF N, a, S
<1>4. \E g : g = Body(g)
  <2>0. step \in [S \X (1..N) -> S]
    BY <1>3
  <2>1. PICK g \in [0..N -> S] : Iterates(g, N, a, step)
    <3> HIDE DEF step
    <3> QED BY <1>1, <1>2, <2>0, Iterated
  <2>2. ASSUME NEW n \in 0..N PROVE g[n] = IF n = 0 THEN a ELSE Visited(g[n - 1])
    <3>1. g[n] = IF n = 0 THEN a ELSE step[<<g[n - 1], n>>]
      BY <2>1 DEF Iterates
    <3>2. n # 0 => n \in 1..N /\ n - 1 \in 0..N
      BY <1>1
    <3>3. n # 0 => <<g[n - 1], n>> \in S \X (1..N)
      BY <3>2
    <3> QED BY <3>1, <3>3
  <2> QED BY <2>2
<1>5. scan = Body(scan)
  BY <1>4
<1> HIDE DEF scan
<1>6. \A n \in 0..N : scan[n] \in S
  <2> DEFINE P == {n \in 0..N : scan[n] \in S}
  <2>1. 0 \in P
    BY <1>1, <1>2, <1>5
  <2>2. ASSUME NEW n \in 1..N, n - 1 \in P PROVE n \in P
    <3>1. scan[n] = Visited(scan[n - 1]) /\ scan[n - 1] \in S /\ n \in 0..N
      BY <1>1, <1>5, <2>2
    <3> QED BY <1>3, <3>1
  <2> HIDE DEF P
  <2>3. \A n \in 0..N : n \in P
    BY <1>1, <2>1, <2>2, UpTo
  <2> QED BY <2>3 DEF P
<1>7. scan[N] \in S
  BY <1>1, <1>6
<1>8. scan[N].list \in Seq(Location) /\ Len(scan[N].list) <= MaxPci /\ IsInjective(scan[N].list)
  <2> DEFINE L == Seq(Location)
             P == SUBSET Location
  <2>1. scan[N].list \in L
    <3> HIDE DEF L, P
    <3>1. scan[N] \in [list : L, left : P]
      BY <1>7 DEF S, ScanRecs, L, P
    <3> QED BY <3>1
  <2> QED BY <1>7, <2>1 DEF S, Scanning
<1>9. <<>> \in Seq(Location) /\ Len(<<>>) = 0 /\ IsInjective(<<>>)
  BY DEF IsInjective
<1> QED BY <1>0, <1>8, <1>9, PciAssumption

\* The place in the list where the IDE controller was found, or none.
LEMMA Looked ==
  ASSUME NEW bs, NEW list \in Seq(Location)
  PROVE  find_ide_controller(bs, list) \in 0..Len(list)
<1>1. ASSUME NEW I, I \subseteq 1..Len(list), I # {} PROVE Min(I) \in 0..Len(list)
  <2>1. Len(list) \in Nat /\ I \subseteq Nat
    BY <1>1
  <2>2. PICK x \in I : \A y \in I : x <= y
    BY <1>1, <2>1, Least
  <2>3. Min(I) \in I
    BY <2>2 DEF Min
  <2>4. 1..Len(list) \subseteq 0..Len(list)
    BY <2>1
  <2> QED BY <1>1, <2>3, <2>4
<1>2. 0 \in 0..Len(list)
  OBVIOUS
<1>3. ASSUME NEW v, NEW d PROVE find(bs, list, v, d) \in 0..Len(list)
  <2> DEFINE I == {i \in 1..Len(list) : bs[list[i]].vendor = v /\ bs[list[i]].device = d}
  <2>1. find(bs, list, v, d) = IF I # {} THEN Min(I) ELSE 0
    BY DEF find, SelectInSeq
  <2> QED BY <1>1, <1>2, <2>1
<1>4. ASSUME NEW c, NEW s PROVE find_by_class(bs, list, c, s) \in 0..Len(list)
  <2> DEFINE I == {i \in 1..Len(list) : bs[list[i]].class = c /\ bs[list[i]].subclass = s}
  <2>1. find_by_class(bs, list, c, s) = IF I # {} THEN Min(I) ELSE 0
    BY DEF find_by_class, SelectInSeq
  <2> QED BY <1>1, <1>2, <2>1
<1> QED BY <1>3, <1>4 DEF find_ide_controller

-----------------------------------------------------------------------------
(* What a step leaves alone. *)

\* A walk that follows the list goes on doing so when more is excused.
LEMMA FollowsExcused ==
  ASSUME NEW d, NEW w, NEW x, NEW y, Follows(d, w, x), x => y
  PROVE  Follows(d, w, y)
BY DEF Follows

\* A step of the driver or the drive: the walk and the browser wait.
LEMMA SideKept ==
  ASSUME BrowserInv, DirWalkInv, ShownInv, FileInv, LoadedIsShown,
         UNCHANGED <<hostVars, phase, fs, walk, uiVars, rom>>,
         failed => failed', wrong => wrong'
  PROVE  BrowserInv' /\ DirWalkInv' /\ ShownInv' /\ FileInv' /\ LoadedIsShown'
<1>1. /\ disk' = disk /\ phase' = phase /\ walk' = walk /\ browser' = browser /\ shown' = shown
      /\ picked' = picked /\ rom' = rom
  BY DEF hostVars, uiVars
<1>2. Clean' => Clean
  BY <1>1 DEF Clean
<1>3. BrowserInv'
  BY <1>1 DEF BrowserInv, Visible
<1>4. DirWalkInv'
  <2>1. Clean' /\ phase' \in {"count", "draw", "find"} => Follows(disk, walk, failed)
    BY <1>1, <1>2 DEF DirWalkInv
  <2>2. Clean' /\ phase' \in {"count", "draw", "find"} => Follows(disk, walk, failed')
    BY <2>1, FollowsExcused
  <2> QED BY <1>1, <2>2 DEF DirWalkInv
<1>5. ShownInv'
  <2>1. Roms' = Roms
    BY <1>1 DEF Roms
  <2>2. \A row : RowShows(row) => RowShows(row)'
    BY <1>1, <2>1 DEF RowShows
  <2> QED BY <1>1, <1>2, <2>1, <2>2 DEF ShownInv
<1>6. FileInv'
  BY <1>1, <1>2 DEF FileInv, TheFile, Roms
<1>7. LoadedIsShown'
  BY <1>1 DEF LoadedIsShown
<1> QED BY <1>3, <1>4, <1>5, <1>6, <1>7

\* Before a disk is mounted, and after a halt, there is nothing to follow.
LEMMA OffPhases ==
  ASSUME phase' \notin WithFs
  PROVE  DirWalkInv' /\ ShownInv' /\ FileInv' /\ LoadedIsShown'
<1>1. ~Clean' /\ phase' # "run"
  BY DEF Clean, WithFs
<1> QED BY <1>1 DEF DirWalkInv, ShownInv, FileInv, LoadedIsShown

\* BrowserInv reads only these variables.
LEMMA BrowserKept ==
  ASSUME BrowserInv, UNCHANGED <<uiVars, rom>>,
         phase' = phase \/ phase' \notin Listing \/ (phase \in Listing /\ phase' \notin {"draw", "browse"})
  PROVE  BrowserInv'
<1>1. browser' = browser /\ shown' = shown /\ picked' = picked /\ rom' = rom
  BY DEF uiVars
<1>2. phase' \in {"draw", "browse"} => phase' = phase
  BY DEF Listing
<1>3. phase' \in Listing => phase \in Listing
  OBVIOUS
<1> HIDE DEF Listing
<1> QED BY <1>1, <1>2, <1>3 DEF BrowserInv, Visible

\* ProbeInv reads only these variables.
LEMMA ProbeKept ==
  ASSUME ProbeInv, UNCHANGED probeVars
  PROVE  ProbeInv' /\ (Good' <=> Good)
BY DEF ProbeInv, probeVars, Good

\* PciInv reads only these variables.
LEMMA PciKept ==
  ASSUME PciInv, UNCHANGED hostVars
  PROVE  PciInv' /\ disk' = disk /\ bus' = bus
BY DEF PciInv, hostVars

\* A phase in which no sector is read.
LEMMA NotReading ==
  ASSUME PhaseInv, WalkInv, phase \notin {"test", "mount", "vbr"},
         ~OnTheWay \/ phase \notin {"count", "draw", "find", "load"}
  PROVE  ~Reading
<1>1. Reading => OnTheWay
  BY DEF PhaseInv
<1>2. OnTheWay => phase \in {"count", "draw", "find", "load"}
  BY DEF WalkInv
<1> QED BY <1>1, <1>2

\* Until a walk begins, the one before it stays where it was.
LEMMA WalkKept ==
  ASSUME WalkInv, UNCHANGED walk, ~OnTheWay, phase' \notin {"count", "draw", "find", "load"}
  PROVE  WalkInv'
<1>1. ~OnTheWay' /\ Going(walk)'
  BY DEF OnTheWay, WalkInv
<1> QED BY <1>1 DEF WalkInv

-----------------------------------------------------------------------------
(* The initial state, and the steps before a disk is mounted. *)

\* The machine that was just switched on satisfies the invariant.
LEMMA InitInv == Init => BootInv
<1> SUFFICES ASSUME Init PROVE BootInv
  OBVIOUS
<1>1. PICK m \in Machines : attached = m.attached /\ bus = m.bus /\ disk = m.disk
  BY DEF Init
<1>2. attached \in [Slots -> DriveAnswers] /\ DOMAIN bus \subseteq Location /\ DiskTyped(disk) /\ DiskSound(disk)
  BY <1>1, MachinesAssumption
<1>3. /\ slot = 0 /\ devices = [i \in Slots |-> NoDevice] /\ drive = IdleDrive /\ io = IdleIo
      /\ failed = FALSE /\ wrong = FALSE /\ pci = <<>> /\ phase = "pci" /\ fs = NotMounted /\ walk = NoWalk
      /\ browser = [rom_count |-> 0, selected |-> 0, scroll_offset |-> 0]
      /\ shown = <<>> /\ picked = Blank /\ rom = <<>>
  BY DEF Init, AtaInit
<1>4. io.stage = "idle" /\ io \in IoRecs
  <2>1. "idle" \in Stages /\ 0 \in Nat /\ NoSector \in OfDisk \cup {NoSector}
    BY DEF Stages
  <2> QED BY <1>3, <2>1, CallFields DEF IdleIo
<1>5. DriveInv
  <2>1. NoSector \in OfDisk \cup {NoSector} /\ drive \in DriveRecs
    BY <1>3, StatusTyped DEF IdleDrive
  <2>2. (drive.bsy <=> FALSE) /\ (drive.drq <=> FALSE)
    BY <1>3 DEF IdleDrive, Status
  <2> QED BY <1>3, <1>4, <2>1, <2>2 DEF DriveInv, Reading
<1>6. ProbeInv
  <2>1. NoDevice \in [type : Types, sectors : {0, DiskSectors}, wide : BOOLEAN]
    BY DEF NoDevice, Types
  <2> QED BY <1>2, <1>3, <2>1 DEF ProbeInv
<1>7. PhaseInv
  <2>1. fs \in FsRecs
    BY <1>3 DEF NotMounted, FsRecs
  <2> QED BY <1>2, <1>3, <1>4, <2>1 DEF PhaseInv, Phases, Reading, WithFs
<1>8. PciInv
  <2>1. pci \in Seq(Location) /\ Len(pci) = 0 /\ IsInjective(pci)
    BY <1>3 DEF IsInjective
  <2>2. find_ide_controller(bus, pci) \in 0..Len(pci)
    BY <2>1, Looked
  <2> QED BY <2>1, <2>2, PciAssumption DEF PciInv
<1>9. WalkInv
  <2> DEFINE w == Walk("count", 0, 0, 0)
  <2>1. "count" \in Jobs /\ 0 \in Nat /\ 0 \in 0..RomUnits /\ "end" \in Ats
    BY BootAssumption DEF Jobs, Ats
  <2>2. w \in WalkRecs /\ w.buffer = <<>>
    BY <2>1, WalkMade
  <2>3. walk = [w EXCEPT !.at = "end"]
    BY <1>3 DEF NoWalk
  <2> HIDE DEF w
  <2>4. walk \in WalkRecs /\ walk.at = "end" /\ walk.buffer = <<>>
    BY <2>1, <2>2, <2>3, WalkAt
  <2>5. Len(walk.buffer) = 0 /\ walk.want \in Nat
    <3>1. walk.want \in 0..RomUnits
      BY <2>4, WalkFields
    <3> QED BY <2>4, <3>1, BootAssumption
  <2> QED BY <1>3, <2>4, <2>5 DEF WalkInv, Going, OnTheWay
<1>10. BrowserInv
  <2>1. browser.selected = 0 /\ browser.rom_count = 0 /\ browser.scroll_offset = 0
        /\ browser \in [rom_count : Nat, selected : Nat, scroll_offset : Nat]
    BY <1>3
  <2>2. Len(shown) = 0 /\ shown \in Seq(Rows) /\ Len(rom) = 0 /\ rom \in Seq(OfDisk) /\ picked \in Rows
    BY <1>3 DEF Rows
  <2> QED BY <1>3, <2>1, <2>2, BootAssumption DEF BrowserInv, Listing
<1>11. DirWalkInv /\ ShownInv /\ FileInv /\ LoadedIsShown
  BY <1>3 DEF DirWalkInv, ShownInv, FileInv, LoadedIsShown, Clean, WithFs
<1> QED BY <1>5, <1>6, <1>7, <1>8, <1>9, <1>10, <1>11 DEF BootInv

\* Enumerating the PCI bus keeps it.
LEMMA ScanInv ==
  ASSUME BootInv, Scan
  PROVE  BootInv'
<1> USE DEF BootInv
<1>1. /\ phase = "pci" /\ phase' = "probe" /\ pci' = enumerate(bus) /\ bus' = bus /\ disk' = disk
      /\ UNCHANGED <<probeVars, drive, io, failed, wrong, fs, walk, uiVars, rom>>
  BY DEF Scan, ataVars, probeVars
<1>2. ~OnTheWay
  BY <1>1 DEF WalkInv
<1>3. DriveInv'
  <2>1. io \in IoRecs
    BY DEF DriveInv
  <2> QED BY <1>1, <2>1, DriveKept
<1>4. ProbeInv'
  BY <1>1, ProbeKept
<1>5. PhaseInv'
  BY <1>1 DEF PhaseInv, Phases, WithFs, Reading, OnTheWay
<1>6. PciInv'
  <2> DEFINE list == enumerate(bus)
  <2>1. list \in Seq(Location) /\ Len(list) <= MaxPci /\ IsInjective(list)
    BY Enumerated DEF PhaseInv
  <2> HIDE DEF list
  <2>2. find_ide_controller(bus, list) \in 0..Len(list)
    BY <2>1, Looked
  <2>3. pci' = list
    BY <1>1 DEF list
  <2> QED BY <1>1, <2>1, <2>2, <2>3 DEF PciInv
<1>7. WalkInv'
  BY <1>1, <1>2, WalkKept
<1>8. BrowserInv'
  BY <1>1, BrowserKept DEF Listing
<1>9. DirWalkInv' /\ ShownInv' /\ FileInv' /\ LoadedIsShown'
  BY <1>1, OffPhases DEF WithFs
<1> QED BY <1>3, <1>4, <1>5, <1>6, <1>7, <1>8, <1>9

\* Looking for the next drive keeps it.
LEMMA ProbeDriveInv ==
  ASSUME BootInv, ProbeDrive
  PROVE  BootInv'
<1> USE DEF BootInv
<1>1. /\ phase = "probe" /\ phase' = phase /\ Probe
      /\ UNCHANGED <<drive, io, failed, wrong, hostVars, fs, walk, uiVars, rom>>
  BY DEF ProbeDrive, Probe
<1>2. ~OnTheWay
  BY <1>1 DEF WalkInv
<1>3. DriveInv'
  <2>1. io \in IoRecs
    BY DEF DriveInv
  <2> QED BY <1>1, <2>1, DriveKept
<1>4. ProbeInv'
  <2> DEFINE D == [type : Types, sectors : {0, DiskSectors}, wide : BOOLEAN]
             k == Seen(slot)
             new == IF Floating(slot) \/ TypeSeen(k) = "None" THEN NoDevice ELSE identify_device(k)
  <2>1. slot \in Slots /\ slot' = slot + 1 /\ attached' = attached /\ devices' = [devices EXCEPT ![slot] = new]
    BY <1>1 DEF Probe
  <2>2. attached \in [Slots -> DriveAnswers] /\ devices \in [Slots -> D]
    BY DEF ProbeInv
  <2>3. slot' \in 0..4
    BY <2>1 DEF Slots
  <2>4. k.wide \in BOOLEAN
    <3>1. attached[slot] \in DriveAnswers
      BY <2>1, <2>2
    <3> DEFINE a == attached[slot]
    <3> HIDE DEF a
    <3>2. a \in DriveAnswers => a.wide \in BOOLEAN /\ [a EXCEPT !.sig = "atapi"].wide = a.wide
      BY DEF DriveAnswers
    <3> QED BY <3>1, <3>2 DEF Seen, reset_channel, a
  <2>5. new \in D
    <3>1. TypeSeen(k) \in Types
      BY DEF TypeSeen, Types
    <3>2. NoDevice \in D
      BY DEF NoDevice, Types
    <3>3. identify_device(k) \in D
      <4> DEFINE size == IF TypeSeen(k) = "Ata" /\ k.identify /\ k.steady THEN DiskSectors ELSE 0
                 type == TypeSeen(k)
                 wide == k.wide
      <4>1. size \in {0, DiskSectors} /\ type \in Types /\ wide \in BOOLEAN
        BY <2>4, <3>1
      <4>2. identify_device(k) = [type |-> type, wide |-> wide, sectors |-> size]
        BY DEF identify_device
      <4> HIDE DEF size, type, wide
      <4> QED BY <4>1, <4>2
    <3> HIDE DEF D, k
    <3> QED BY <3>2, <3>3
  <2> HIDE DEF new, D
  <2>6. devices' \in [Slots -> D]
    BY <2>1, <2>2, <2>5
  <2> QED BY <2>1, <2>2, <2>3, <2>6 DEF ProbeInv, D
<1>5. PhaseInv'
  BY <1>1, PciKept DEF PhaseInv, Phases, WithFs, Reading, OnTheWay
<1>6. PciInv'
  BY <1>1, PciKept
<1>7. WalkInv'
  BY <1>1, <1>2, WalkKept
<1>8. BrowserInv'
  BY <1>1, BrowserKept
<1>9. DirWalkInv' /\ ShownInv' /\ FileInv' /\ LoadedIsShown'
  BY <1>1, OffPhases DEF WithFs
<1> QED BY <1>3, <1>4, <1>5, <1>6, <1>7, <1>8, <1>9

\* The call that a step before the mount leaves: none, or one for sector 0 of a slot.
LEMMA FirstReads ==
  ASSUME BootInv, UNCHANGED <<probeVars, drive, failed, wrong, hostVars, fs, walk, uiVars, rom>>,
         ~OnTheWay, phase' \in {"test", "mount", "halt"},
         \/ io' = io /\ phase' = "halt" /\ ~Reading
         \/ io.stage # "data" /\ \E i \in Slots : /\ io' = Asked(i, 0)
                                                  /\ phase' = "mount" => i = 0
                                                  /\ phase' # "halt"
  PROVE  BootInv'
<1> USE DEF BootInv
<1>1. /\ io' \in IoRecs
      /\ \/ io' = io
         \/ /\ io'.stage \in {"idle", "select", "err"} /\ io.stage # "data"
            /\ io'.stage = "select" => io'.lba \in OfDisk
  <2>1. CASE io' = io
    BY <2>1 DEF DriveInv
  <2>2. CASE io.stage # "data" /\ \E i \in Slots : io' = Asked(i, 0)
    <3>1. PICK i \in Slots : io' = Asked(i, 0)
      BY <2>2
    <3> QED BY <2>2, <3>1, AskedFacts
  <2> QED BY <2>1, <2>2
<1>2. DriveInv'
  BY <1>1, DriveKept
<1>3. ProbeInv' /\ (Good' <=> Good)
  BY ProbeKept
<1>4. PciInv' /\ disk' = disk /\ bus' = bus
  BY PciKept
<1>5. phase' = "mount" => io'.lba = 0 /\ (io'.stage \notin {"idle", "err"} => Good)
  <2>1. ASSUME phase' = "mount" PROVE io' = Asked(0, 0) /\ 0 \in Slots /\ 0 \in Nat
    BY <2>1 DEF Slots
  <2> QED BY <2>1, AskedFacts DEF Good
<1>6. PhaseInv'
  <2>1. phase' \in Phases /\ phase' \notin WithFs /\ phase' \notin {"pci", "probe", "vbr"}
    BY DEF Phases, WithFs
  <2>2. DiskTyped(disk)' /\ DiskSound(disk)' /\ DOMAIN bus' \subseteq Location /\ fs' \in FsRecs
    BY <1>4 DEF PhaseInv
  <2>3. Reading' => phase' \in {"test", "mount", "vbr"}
    BY DEF Reading
  <2> QED BY <1>3, <1>5, <2>1, <2>2, <2>3 DEF PhaseInv
<1>7. WalkInv'
  BY WalkKept
<1>8. BrowserInv'
  BY BrowserKept DEF Listing
<1>9. DirWalkInv' /\ ShownInv' /\ FileInv' /\ LoadedIsShown'
  BY OffPhases DEF WithFs
<1> QED BY <1>2, <1>3, <1>4, <1>6, <1>7, <1>8, <1>9

\* Asking for sector 0 keeps it.
LEMMA TestReadInv ==
  ASSUME BootInv, TestRead
  PROVE  BootInv'
<1> USE DEF BootInv
<1>1. /\ phase = "probe" /\ UNCHANGED <<probeVars, drive, failed, wrong, hostVars, fs, walk, uiVars, rom>>
      /\ IF Found = {} THEN phase' = "halt" /\ io' = io
         ELSE IF Disks = {} THEN MountFrom(0)
         ELSE phase' = "test" /\ io' = Asked(FirstDisk, 0)
  BY DEF TestRead
<1>2. ~OnTheWay /\ io = IdleIo
  BY <1>1 DEF WalkInv, PhaseInv
<1>3. io.stage = "idle" /\ ~Reading
  BY <1>2, CallFields DEF IdleIo, Reading
<1>4. Disks # {} => FirstDisk \in Slots
  <2>1. Disks \subseteq Slots /\ Disks \subseteq Nat
    BY DEF Disks, Slots
  <2>2. Disks # {} => \E i \in Disks : \A j \in Disks : i <= j
    <3> HIDE DEF Disks
    <3> QED BY <2>1, Least
  <2>3. Disks # {} => FirstDisk \in Disks
    BY <2>2 DEF FirstDisk
  <2> QED BY <2>1, <2>3
<1>5. 0 \in Slots
  BY DEF Slots
<1>6. phase' \in {"test", "mount", "halt"}
  BY <1>1 DEF MountFrom
<1>7. \/ io' = io /\ phase' = "halt" /\ ~Reading
      \/ io.stage # "data" /\ \E i \in Slots : /\ io' = Asked(i, 0)
                                               /\ phase' = "mount" => i = 0
                                               /\ phase' # "halt"
  BY <1>1, <1>3, <1>4, <1>5 DEF MountFrom
<1> QED BY <1>1, <1>2, <1>6, <1>7, FirstReads

\* The answer to that keeps it.
LEMMA TestedInv ==
  ASSUME BootInv, Tested
  PROVE  BootInv'
<1> USE DEF BootInv
<1>1. /\ phase = "test" /\ UNCHANGED <<probeVars, drive, failed, wrong, hostVars, fs, walk, uiVars, rom>>
      /\ ReadDone /\ phase' = "mount" /\ io' = Asked(0, 0)
  BY DEF Tested, MountFrom
<1>2. ~OnTheWay /\ io.stage # "data"
  BY <1>1 DEF WalkInv, ReadDone
<1>3. 0 \in Slots
  BY DEF Slots
<1> QED BY <1>1, <1>2, <1>3, FirstReads

-----------------------------------------------------------------------------
(* The mount, and the walks along the directory. *)

\* A step that begins a walk along the directory.
LEMMA Begun ==
  ASSUME BootInv, UNCHANGED <<probeVars, drive, failed, wrong, hostVars>>,
         io.stage # "data", Good, BpbValid(disk.bpb),
         fs' \in {Mounted(0, disk.bpb), Mounted(disk.mbr, disk.bpb)}, ~wrong => fs' = Mounted(disk.mbr, disk.bpb),
         NEW job \in {"count", "name", "find"}, NEW index \in Nat, BeginWalk(fs', DirWalk(fs', job, index)),
         \/ phase' = "count" /\ job = "count"
         \/ phase' = "draw"  /\ job = "name" /\ index = browser'.scroll_offset + Len(shown')
         \/ phase' = "find"  /\ job = "find" /\ index = browser'.selected
  PROVE  DriveInv' /\ ProbeInv' /\ PhaseInv' /\ PciInv' /\ WalkInv' /\ DirWalkInv' /\ FileInv' /\ LoadedIsShown'
<1> USE DEF BootInv
<1>1. PciInv' /\ disk' = disk /\ bus' = bus
  BY PciKept
<1>2. ProbeInv' /\ (Good' <=> Good)
  BY ProbeKept
<1>3. DiskTyped(disk) /\ DiskSound(disk) /\ DOMAIN bus \subseteq Location /\ disk.mbr \in Nat
  BY DiskHolds DEF PhaseInv
<1>4. fs' \in FsRecs
  BY <1>3, MountedTyped
<1>5. /\ walk' = DirWalk(fs', job, index)
      /\ io' = IF walk'.at = "sector" THEN Asked(0, Request(fs', walk')) ELSE IdleIo
  BY DEF BeginWalk
<1>6. /\ walk' \in WalkRecs /\ walk'.job = job /\ walk'.index = index /\ walk'.seen = 0
      /\ walk'.buffer = <<>> /\ walk'.at \in {"sector", "end"} /\ walk'.found = NoEntry
      /\ io' \in IoRecs
      /\ walk'.at = "sector" => /\ InChain(walk'.cluster) /\ io'.lba = Request(fs', walk')
                                /\ io'.stage \in {"select", "err"}
                                /\ io'.stage = "select" => io'.lba \in OfDisk
                                /\ io'.stage = "err" => io'.lba \notin OfDisk
      /\ walk'.at # "sector" => io'.stage = "idle"
      /\ DirWalkInv'
  BY <1>1, <1>3, <1>4, <1>5, DirBegins
<1>7. DriveInv'
  BY <1>6, DriveKept
<1>8. /\ Reading' => OnTheWay'
      /\ OnTheWay' <=> walk'.at = "sector"
  BY <1>6 DEF Reading, OnTheWay
<1>9. PhaseInv'
  <2>1. phase' \in Phases /\ phase' \notin {"pci", "probe", "mount", "vbr"}
    BY DEF Phases
  <2>2. DiskTyped(disk)' /\ DiskSound(disk)' /\ DOMAIN bus' \subseteq Location /\ wrong' = wrong
    BY <1>1, <1>3
  <2> QED BY <1>1, <1>2, <1>4, <1>8, <2>1, <2>2 DEF PhaseInv
<1>10. WalkInv'
  <2> DEFINE w == walk'
  <2>1. w.want \in 0..RomUnits /\ Len(w.buffer) = 0
    BY <1>6, WalkFields
  <2>2. Len(w.buffer) <= w.want
    BY <2>1, BootAssumption
  <2>3. index \in Nat
    OBVIOUS
  <2>4. Going(w)
    <3> HIDE DEF w
    <3>1. /\ w \in WalkRecs /\ w.job = job /\ w.index = index /\ w.seen = 0
          /\ w.at \in {"sector", "end"} /\ w.found = NoEntry /\ (w.at = "sector" => InChain(w.cluster))
          /\ job # "read" /\ 0 <= index
      BY <1>6, <2>3 DEF w
    <3> QED BY <2>2, <3>1 DEF Going
  <2>5. Going(walk)'
    BY <2>4
  <2>6. phase' \in {"count", "draw", "find"}
    OBVIOUS
  <2> HIDE DEF w
  <2> QED BY <1>6, <1>8, <2>5, <2>6 DEF WalkInv
<1>11. FileInv' /\ LoadedIsShown'
  BY DEF FileInv, LoadedIsShown
<1> QED BY <1>1, <1>2, <1>6, <1>7, <1>9, <1>10, <1>11

\* Mounting the volume, one sector at a time, keeps it.
LEMMA MountInv ==
  ASSUME BootInv, Mount
  PROVE  BootInv'
<1> USE DEF BootInv
<1> DEFINE b == AsBoot(disk, io.data)
<1>1. /\ phase \in {"mount", "vbr"} /\ ReadDone
      /\ UNCHANGED <<probeVars, drive, failed, wrong, hostVars, uiVars, rom>>
  BY DEF Mount
<1>2. ~OnTheWay /\ ~Reading /\ io.stage # "data"
  BY <1>1 DEF WalkInv, ReadDone, Reading
<1>3. PciInv' /\ disk' = disk /\ bus' = bus
  BY <1>1, PciKept
<1>4. ProbeInv' /\ (Good' <=> Good)
  BY <1>1, ProbeKept
<1>5. DiskTyped(disk) /\ DiskSound(disk) /\ DOMAIN bus \subseteq Location /\ disk.mbr \in Nat /\ fs \in FsRecs
  BY DiskHolds DEF PhaseInv
<1>6. /\ io.lba = IF phase = "vbr" THEN disk.mbr ELSE 0
      /\ io.stage = "ok" => Good
  BY <1>1 DEF PhaseInv
<1>7. CASE phase' = "halt" /\ UNCHANGED <<fs, walk, io>>
  BY <1>1, <1>2, <1>7, FirstReads
<1>8. CASE /\ phase = "mount" /\ NeedsVbr(b)
           /\ phase' = "vbr" /\ io' = Asked(0, b.part) /\ UNCHANGED <<fs, walk>>
  <2>1. b.part = disk.mbr
    BY <1>8 DEF AsBoot, NeedsVbr
  <2>2. 0 \in Slots
    BY DEF Slots
  <2>3. /\ io' \in IoRecs /\ io'.stage \in {"select", "err"} /\ io'.lba = disk.mbr
        /\ io'.stage = "select" => io'.lba \in OfDisk /\ Good
    BY <1>5, <1>8, <2>1, <2>2, AskedFacts DEF Good
  <2>4. DriveInv'
    BY <1>1, <1>2, <2>3, DriveKept
  <2>5. PhaseInv'
    <3>1. DiskTyped(disk)' /\ DiskSound(disk)' /\ DOMAIN bus' \subseteq Location /\ fs' \in FsRecs
      BY <1>3, <1>5, <1>8
    <3> QED BY <1>3, <1>4, <1>8, <2>3, <3>1 DEF PhaseInv, Phases, WithFs
  <2>6. WalkInv'
    BY <1>2, <1>8, WalkKept
  <2>7. BrowserInv'
    BY <1>1, <1>8, BrowserKept DEF Listing
  <2>8. DirWalkInv' /\ ShownInv' /\ FileInv' /\ LoadedIsShown'
    BY <1>8, OffPhases DEF WithFs
  <2> QED BY <1>3, <1>4, <2>4, <2>5, <2>6, <2>7, <2>8
<1>9. CASE /\ io.stage = "ok" /\ BpbValid(b.bpb)
           /\ fs' = Mounted(IF phase = "vbr" THEN disk.mbr ELSE 0, b.bpb)
           /\ phase' = "count" /\ BeginWalk(fs', DirWalk(fs', "count", 0))
  <2>1. ~BpbValid(NoBpb)
    <3>1. NoBpb.bps = 0 /\ 0 \notin 512..4096
      BY DEF NoBpb
    <3> QED BY <3>1 DEF BpbValid
  <2>2. b.bpb = disk.bpb /\ ~(io.data = 0 /\ disk.mbr # 0)
    BY <1>9, <2>1 DEF AsBoot
  <2>3. ~wrong => io.data = io.lba
    BY <1>9 DEF DriveInv
  <2>4. fs' \in {Mounted(0, disk.bpb), Mounted(disk.mbr, disk.bpb)} /\ BpbValid(disk.bpb)
    BY <1>9, <2>2
  <2>5. ~wrong => fs' = Mounted(disk.mbr, disk.bpb)
    BY <1>1, <1>6, <1>9, <2>2, <2>3
  <2> HIDE DEF b
  <2>6. DriveInv' /\ ProbeInv' /\ PhaseInv' /\ PciInv' /\ WalkInv' /\ DirWalkInv' /\ FileInv' /\ LoadedIsShown'
    <3>1. "count" \in {"count", "name", "find"} /\ 0 \in Nat
      OBVIOUS
    <3> QED BY <1>1, <1>2, <1>6, <1>9, <2>4, <2>5, <3>1, Begun
  <2>7. BrowserInv'
    BY <1>1, <1>9, BrowserKept DEF Listing
  <2>8. ShownInv'
    BY <1>9 DEF ShownInv, Listing
  <2> QED BY <2>6, <2>7, <2>8
<1>10. \/ phase' = "halt" /\ UNCHANGED <<fs, walk, io>>
       \/ /\ phase = "mount" /\ NeedsVbr(b)
          /\ phase' = "vbr" /\ io' = Asked(0, b.part) /\ UNCHANGED <<fs, walk>>
       \/ /\ io.stage = "ok" /\ BpbValid(b.bpb)
          /\ fs' = Mounted(IF phase = "vbr" THEN disk.mbr ELSE 0, b.bpb)
          /\ phase' = "count" /\ BeginWalk(fs', DirWalk(fs', "count", 0))
  <2>1. b.signed \/ ~b.signed
    OBVIOUS
  <2> HIDE DEF b
  <2>2. CASE io.stage = "err" \/ ~b.signed
    BY <2>2 DEF Mount, b
  <2>3. CASE io.stage = "ok" /\ b.signed /\ phase = "mount" /\ NeedsVbr(b)
    BY <2>3 DEF Mount, b
  <2>4. CASE ~(io.stage = "err" \/ ~b.signed) /\ ~(io.stage = "ok" /\ b.signed /\ phase = "mount" /\ NeedsVbr(b))
    <3>1. io.stage = "ok"
      BY <1>1, <2>4 DEF ReadDone
    <3> QED BY <2>4, <3>1 DEF Mount, b
  <2> QED BY <2>2, <2>3, <2>4
<1> HIDE DEF b
<1> QED BY <1>7, <1>8, <1>9, <1>10

-----------------------------------------------------------------------------
(* The browser. *)

BrowserRecs == [rom_count : Nat, selected : Nat, scroll_offset : Nat]
\* The cursor is on a ROM, and within the rows that are visible.
OnScreen(b) == /\ b.selected < b.rom_count
               /\ b.scroll_offset <= b.selected
               /\ b.selected < b.scroll_offset + MaxVisible

\* The fields of the browser have their types.
LEMMA BrowserFields ==
  /\ \A b \in BrowserRecs : b.rom_count \in Nat /\ b.selected \in Nat /\ b.scroll_offset \in Nat
  /\ \A n, s, o \in Nat : LET b == [rom_count |-> n, selected |-> s, scroll_offset |-> o]
                          IN  b \in BrowserRecs /\ b.rom_count = n /\ b.selected = s /\ b.scroll_offset = o
BY DEF BrowserRecs

\* There is a row for the cursor, and no more than fit the screen.
LEMMA RowsVisible ==
  ASSUME NEW b \in BrowserRecs, OnScreen(b)
  PROVE  /\ Visible(b) \in Nat /\ 0 < Visible(b) /\ Visible(b) <= MaxVisible
         /\ b.scroll_offset + Visible(b) <= b.rom_count
         /\ b.selected - b.scroll_offset + 1 \in 1..Visible(b)
BY BrowserFields, BootAssumption DEF OnScreen, Visible

\* The list is drawn anew from its first row.
LEMMA Redrawn ==
  ASSUME BootInv, NEW b \in BrowserRecs, OnScreen(b), Clean => b.rom_count <= Len(Roms),
         phase \in WithFs, io.stage # "data", Redraw(b)
  PROVE  BootInv'
<1> USE DEF BootInv
<1>1. /\ browser' = b /\ shown' = <<>> /\ phase' = "draw" /\ fs' = fs /\ picked' = picked /\ rom' = rom
      /\ BeginWalk(fs, DirWalk(fs, "name", b.scroll_offset + 0))
      /\ UNCHANGED <<probeVars, drive, failed, wrong, hostVars>>
  BY DEF Redraw, DrawRow
<1>2. /\ Good /\ BpbValid(disk.bpb) /\ fs \in {Mounted(0, disk.bpb), Mounted(disk.mbr, disk.bpb)}
      /\ ~wrong => fs = Mounted(disk.mbr, disk.bpb)
  BY DEF PhaseInv
<1>3. b.scroll_offset + 0 \in Nat /\ b.scroll_offset + 0 = browser'.scroll_offset + Len(shown')
  BY <1>1, BrowserFields
<1>4. DriveInv' /\ ProbeInv' /\ PhaseInv' /\ PciInv' /\ WalkInv' /\ DirWalkInv' /\ FileInv' /\ LoadedIsShown'
  <2>1. "name" \in {"count", "name", "find"}
    OBVIOUS
  <2> DEFINE index == b.scroll_offset + 0
  <2>2. index \in Nat /\ index = browser'.scroll_offset + Len(shown') /\ BeginWalk(fs', DirWalk(fs', "name", index))
    BY <1>1, <1>3
  <2> HIDE DEF index
  <2> QED BY <1>1, <1>2, <2>1, <2>2, Begun
<1>5. BrowserInv'
  <2>1. Len(shown') = 0 /\ shown' \in Seq(Rows)
    BY <1>1
  <2>2. picked \in Rows /\ rom \in Seq(OfDisk) /\ Len(rom) <= RomUnits
    BY DEF BrowserInv
  <2>3. Visible(browser)' = Visible(b)
    BY <1>1 DEF Visible
  <2> QED BY <1>1, <2>1, <2>2, <2>3, RowsVisible, BootAssumption DEF BrowserInv, OnScreen, BrowserRecs
<1>6. ShownInv'
  <2>1. disk' = disk
    BY <1>1, PciKept
  <2>2. Roms' = Roms /\ (Clean' => Clean)
    BY <1>1, <2>1 DEF Roms, Clean
  <2> QED BY <1>1, <2>2 DEF ShownInv
<1> QED BY <1>4, <1>5, <1>6

\* The end of count_roms, which opens the browser, keeps it.
LEMMA CountedInv ==
  ASSUME BootInv, Counted
  PROVE  BootInv'
<1> USE DEF BootInv
<1> DEFINE b == [rom_count |-> walk.seen, selected |-> 0, scroll_offset |-> 0]
<1>1. phase = "count" /\ walk.at \in {"end", "err"} /\ walk.seen > 0 /\ Redraw(b)
  BY DEF Counted, WalkOver
<1>2. walk.job = "count" /\ walk \in WalkRecs /\ walk.at = "end"
  BY <1>1 DEF WalkInv, Going
<1>3. walk.seen \in Nat
  BY <1>2, WalkFields
<1>4. b \in BrowserRecs /\ b.rom_count = walk.seen /\ b.selected = 0 /\ b.scroll_offset = 0
  BY <1>3, BrowserFields
<1> HIDE DEF b
<1>5. OnScreen(b)
  BY <1>1, <1>3, <1>4, BootAssumption DEF OnScreen
<1>6. Clean => b.rom_count <= Len(Roms)
  BY <1>1, <1>2, <1>4 DEF DirWalkInv, Follows, Roms
<1>7. io.stage # "data"
  BY <1>1, NotReading DEF OnTheWay, Reading
<1>8. phase \in WithFs
  BY <1>1 DEF WithFs
<1> QED BY <1>1, <1>4, <1>5, <1>6, <1>7, <1>8, Redrawn

\* A step that only changes the phase, and perhaps the ROM.
LEMMA Settles ==
  ASSUME BootInv, UNCHANGED <<ataVars, hostVars, fs, walk, uiVars>>, ~OnTheWay, ~Reading,
         rom' \in Seq(OfDisk), Len(rom') <= RomUnits,
         phase' = "halt" \/ (phase' = "run" /\ phase = "load" /\ LoadedIsShown')
  PROVE  BootInv'
<1> USE DEF BootInv
<1>1. UNCHANGED <<probeVars, drive, io, failed, wrong, browser, shown, picked>>
  BY DEF ataVars, probeVars, uiVars
<1>2. DriveInv'
  <2>1. io \in IoRecs
    BY DEF DriveInv
  <2> QED BY <1>1, <2>1, DriveKept
<1>3. ProbeInv' /\ (Good' <=> Good)
  BY <1>1, ProbeKept
<1>4. PciInv' /\ disk' = disk /\ bus' = bus
  BY PciKept
<1>5. PhaseInv'
  <2>1. DiskTyped(disk)' /\ DiskSound(disk)' /\ DOMAIN bus' \subseteq Location /\ fs' \in FsRecs
    BY <1>4 DEF PhaseInv
  <2>2. ~Reading'
    BY <1>1 DEF Reading
  <2>3. phase' \in Phases /\ phase' \notin {"pci", "probe", "mount", "vbr"}
    BY DEF Phases
  <2>4. phase' \in WithFs => phase \in WithFs
    BY DEF WithFs
  <2> QED BY <1>1, <1>3, <1>4, <2>1, <2>2, <2>3, <2>4 DEF PhaseInv
<1>6. WalkInv'
  BY WalkKept
<1>7. BrowserInv'
  <2>1. phase' \in Listing => phase \in Listing
    BY DEF Listing
  <2>2. phase' \notin {"draw", "browse"}
    OBVIOUS
  <2> HIDE DEF Listing
  <2> QED BY <1>1, <2>1, <2>2 DEF BrowserInv
<1>8. DirWalkInv' /\ FileInv'
  BY DEF DirWalkInv, FileInv
<1>9. ShownInv' /\ LoadedIsShown'
  <2>1. CASE phase' = "halt"
    BY <2>1, OffPhases DEF WithFs
  <2>2. CASE phase' = "run" /\ phase = "load" /\ LoadedIsShown'
    <3>1. Roms' = Roms /\ (Clean' => Clean)
      BY <1>1, <1>4, <2>2 DEF Roms, Clean, WithFs
    <3> QED BY <1>1, <2>2, <3>1 DEF ShownInv, Listing
  <2> QED BY <2>1, <2>2
<1> QED BY <1>2, <1>3, <1>4, <1>5, <1>6, <1>7, <1>8, <1>9

\* The ways to a halt keep it.
LEMMA NoRomsInv ==
  ASSUME BootInv, NoRoms \/ NotFound
  PROVE  BootInv'
<1> USE DEF BootInv
<1>1. /\ phase \in {"count", "find"} /\ walk.at \in {"end", "err"} /\ phase' = "halt" /\ rom' = rom
      /\ UNCHANGED <<ataVars, hostVars, fs, walk, uiVars>>
  BY DEF NoRoms, NotFound, WalkOver
<1>2. ~OnTheWay
  BY <1>1 DEF OnTheWay
<1>3. ~Reading
  BY <1>1, <1>2, NotReading
<1>4. rom \in Seq(OfDisk) /\ Len(rom) <= RomUnits
  BY DEF BrowserInv
<1>5. rom' \in Seq(OfDisk) /\ Len(rom') <= RomUnits
  BY <1>1, <1>4
<1>6. UNCHANGED <<ataVars, hostVars, fs, walk, uiVars>>
  BY <1>1
<1>7. phase' = "halt" \/ (phase' = "run" /\ phase = "load" /\ LoadedIsShown')
  BY <1>1
<1> HIDE DEF BootInv
<1> QED BY <1>2, <1>3, <1>5, <1>6, <1>7, Settles

\* The cursor moves by one row, and the list scrolls along with it.
LEMMA Scrolled ==
  ASSUME NEW b \in BrowserRecs, OnScreen(b), NEW s \in Nat, s < b.rom_count, s + 1 = b.selected \/ s = b.selected + 1
  PROVE  LET c == adjust_scroll([b EXCEPT !.selected = s])
         IN  c \in BrowserRecs /\ OnScreen(c) /\ c.rom_count = b.rom_count
<1> DEFINE a == [b EXCEPT !.selected = s]
           down == a.selected - MaxVisible + 1
           c1 == [a EXCEPT !.scroll_offset = a.selected]
           c2 == [a EXCEPT !.scroll_offset = down]
<1>1. a \in BrowserRecs /\ a.selected = s /\ a.rom_count = b.rom_count /\ a.scroll_offset = b.scroll_offset
  BY DEF BrowserRecs
<1>2. /\ b.selected \in Nat /\ b.scroll_offset \in Nat /\ b.rom_count \in Nat /\ MaxVisible \in Nat /\ MaxVisible > 0
      /\ b.scroll_offset <= b.selected /\ b.selected < b.scroll_offset + MaxVisible
  BY BrowserFields, BootAssumption DEF OnScreen
<1>3. adjust_scroll(a) = IF a.selected < a.scroll_offset THEN c1
                         ELSE IF a.selected >= a.scroll_offset + MaxVisible THEN c2 ELSE a
  BY <1>1, <1>2 DEF adjust_scroll
<1>4. ASSUME a.selected < a.scroll_offset
      PROVE  c1 \in BrowserRecs /\ OnScreen(c1) /\ c1.rom_count = b.rom_count
  <2>1. c1 \in BrowserRecs /\ c1.selected = s /\ c1.scroll_offset = s /\ c1.rom_count = b.rom_count
    BY <1>1 DEF BrowserRecs
  <2> HIDE DEF c1
  <2> QED BY <1>2, <2>1 DEF OnScreen
<1>5. ASSUME a.selected >= a.scroll_offset + MaxVisible
      PROVE  c2 \in BrowserRecs /\ OnScreen(c2) /\ c2.rom_count = b.rom_count
  <2>1. down \in Nat /\ down = s - MaxVisible + 1 /\ down <= s /\ s < down + MaxVisible
    BY <1>1, <1>2, <1>5
  <2> HIDE DEF down, a
  <2>2. c2 \in BrowserRecs /\ c2.selected = s /\ c2.scroll_offset = down /\ c2.rom_count = b.rom_count
    BY <1>1, <2>1 DEF BrowserRecs
  <2> HIDE DEF c2
  <2> QED BY <2>1, <2>2 DEF OnScreen
<1>6. ASSUME ~(a.selected < a.scroll_offset), ~(a.selected >= a.scroll_offset + MaxVisible)
      PROVE  OnScreen(a)
  BY <1>1, <1>2, <1>6 DEF OnScreen
<1> HIDE DEF a, c1, c2
<1> QED BY <1>1, <1>3, <1>4, <1>5, <1>6 DEF a

\* Moving the cursor keeps it.
LEMMA MovesInv ==
  ASSUME BootInv, Up \/ Down
  PROVE  BootInv'
<1> USE DEF BootInv
<1>1. phase = "browse" /\ browser \in BrowserRecs /\ OnScreen(browser)
  BY DEF Up, Down, BrowserInv, Listing, OnScreen, BrowserRecs
<1>2. browser.rom_count \in Nat /\ browser.selected \in Nat
  BY <1>1, BrowserFields
<1>3. io.stage # "data" /\ phase \in WithFs
  BY <1>1, NotReading DEF Reading, WithFs
<1>4. Clean => browser.rom_count <= Len(Roms)
  BY <1>1 DEF ShownInv, Listing
<1>5. PICK s \in Nat : /\ s < browser.rom_count /\ (s + 1 = browser.selected \/ s = browser.selected + 1)
                       /\ Redraw(adjust_scroll([browser EXCEPT !.selected = s]))
  <2>1. CASE Up
    <3> DEFINE s == browser.selected - 1
    <3>1. s \in Nat /\ s < browser.rom_count /\ s + 1 = browser.selected
      BY <1>1, <1>2, <2>1 DEF Up, OnScreen
    <3>2. Redraw(adjust_scroll([browser EXCEPT !.selected = s]))
      BY <2>1 DEF Up
    <3> QED BY <3>1, <3>2
  <2>2. CASE Down
    <3> DEFINE s == browser.selected + 1
    <3>1. s \in Nat /\ s < browser.rom_count
      BY <1>1, <1>2, <2>2 DEF Down
    <3>2. Redraw(adjust_scroll([browser EXCEPT !.selected = s]))
      BY <2>2 DEF Down
    <3> QED BY <3>1, <3>2
  <2> QED BY <2>1, <2>2
<1> DEFINE c == adjust_scroll([browser EXCEPT !.selected = s])
<1>6. c \in BrowserRecs /\ OnScreen(c) /\ c.rom_count = browser.rom_count
  BY <1>1, <1>5, Scrolled
<1>7. Redraw(c)
  BY <1>5
<1> HIDE DEF c
<1>8. Clean => c.rom_count <= Len(Roms)
  BY <1>4, <1>6
<1> QED BY <1>3, <1>6, <1>7, <1>8, Redrawn

\* Drawing a row of the list, which asks for its name, keeps it.
LEMMA RowDrawnInv ==
  ASSUME BootInv, RowDrawn
  PROVE  BootInv'
<1> USE DEF BootInv
<1> DEFINE name == IF walk.found = NoEntry THEN Blank ELSE walk.found.name
<1>1. /\ phase = "draw" /\ walk.at \in {"end", "err"} /\ shown' = Append(shown, name)
      /\ IF Len(shown') < Visible(browser)
         THEN BeginWalk(fs, DirWalk(fs, "name", browser.scroll_offset + Len(shown'))) /\ phase' = phase
         ELSE phase' = "browse" /\ UNCHANGED <<walk, io>>
      /\ UNCHANGED <<probeVars, drive, failed, wrong, hostVars, fs, browser, picked, rom>>
  BY DEF RowDrawn, WalkOver, DrawRow
<1>2. /\ browser \in BrowserRecs /\ OnScreen(browser) /\ shown \in Seq(Rows) /\ Len(shown) < Visible(browser)
      /\ picked \in Rows /\ rom \in Seq(OfDisk) /\ Len(rom) <= RomUnits
  BY <1>1 DEF BrowserInv, Listing, OnScreen, BrowserRecs
<1>3. /\ walk \in WalkRecs /\ walk.job = "name" /\ walk.at = "end"
      /\ walk.index = browser.scroll_offset + Len(shown)
  BY <1>1 DEF WalkInv, Going
<1>4. name \in Rows
  <2>1. walk.found \in Entries \cup {NoEntry}
    BY <1>3, WalkFields
  <2> QED BY <2>1, EntriesTyped DEF Rows
<1> HIDE DEF name
<1>5. Len(shown) \in Nat
  BY <1>2
<1>6. PICK row \in Nat : row = Len(shown) + 1
  BY <1>5
<1>7. /\ shown' \in Seq(Rows) /\ Len(shown') = row
      /\ \A i \in 1..Len(shown) : shown'[i] = shown[i]
      /\ shown'[row] = name
  BY <1>1, <1>2, <1>4, <1>6
<1>8. /\ Visible(browser) \in Nat /\ Visible(browser) <= MaxVisible
      /\ browser.scroll_offset + Visible(browser) <= browser.rom_count
      /\ browser.scroll_offset \in Nat /\ browser.rom_count \in Nat
  BY <1>2, RowsVisible, BrowserFields
<1>9. row \in Nat /\ row <= Visible(browser) /\ row <= MaxVisible /\ browser.scroll_offset + row <= browser.rom_count
  BY <1>2, <1>5, <1>6, <1>8, BootAssumption
<1>10. io.stage # "data" /\ ~Reading /\ ~OnTheWay
  BY <1>1, NotReading DEF OnTheWay, Reading
<1>11. PciInv' /\ disk' = disk /\ bus' = bus
  BY <1>1, PciKept
<1>12. ProbeInv' /\ (Good' <=> Good)
  BY <1>1, ProbeKept
<1>13. Roms' = Roms /\ (Clean' => Clean)
  BY <1>1, <1>11 DEF Roms, Clean, WithFs
<1>14. ShownInv'
  <2>1. SUFFICES ASSUME Clean PROVE browser.rom_count <= Len(Roms) /\ \A i \in 1..row : RowShows(i)'
    BY <1>1, <1>7, <1>13 DEF ShownInv, Listing
  <2>2. browser.rom_count <= Len(Roms) /\ \A i \in 1..Len(shown) : RowShows(i)
    BY <1>1, <2>1 DEF ShownInv, Listing
  <2>3. ASSUME NEW i \in 1..Len(shown) PROVE RowShows(i)'
    BY <1>1, <1>7, <1>13, <2>2 DEF RowShows
  <2>4. RowShows(row)'
    <3>1. IF walk.found = NoEntry THEN failed \/ walk.index >= Len(Roms)
          ELSE walk.index < Len(Roms) /\ walk.found = Roms[walk.index + 1]
      BY <1>1, <1>3, <2>1 DEF DirWalkInv, Follows, Roms
    <3>2. walk.index + 1 = browser.scroll_offset + row /\ browser.scroll_offset + row <= Len(Roms)
          /\ ~(walk.index >= Len(Roms)) /\ Len(Roms) \in Nat
      <4>1. Len(Roms) \in Nat
        BY RomsListed DEF PhaseInv
      <4>2. walk.index + 1 = browser.scroll_offset + row
        BY <1>3, <1>8, <1>5, <1>6
      <4>3. browser.scroll_offset + row <= Len(Roms)
        BY <1>8, <1>9, <2>2, <4>1
      <4>4. walk.index \in Nat
        BY <1>3, WalkFields
      <4> QED BY <4>1, <4>2, <4>3, <4>4
    <3>3. \/ name = Roms[browser.scroll_offset + row].name
          \/ failed /\ name = Blank
      BY <3>1, <3>2 DEF name
    <3> QED BY <1>1, <1>7, <1>13, <3>2, <3>3 DEF RowShows
  <2>5. \A i \in 1..row : i \in 1..Len(shown) \/ i = row
    BY <1>5, <1>6
  <2> QED BY <2>2, <2>3, <2>4, <2>5
<1>15. CASE row < Visible(browser)
  <2>1. BeginWalk(fs, DirWalk(fs, "name", browser.scroll_offset + row)) /\ phase' = "draw"
    BY <1>1, <1>7, <1>15
  <2>2. /\ Good /\ BpbValid(disk.bpb) /\ fs \in {Mounted(0, disk.bpb), Mounted(disk.mbr, disk.bpb)}
        /\ ~wrong => fs = Mounted(disk.mbr, disk.bpb)
    BY <1>1 DEF PhaseInv, WithFs
  <2> DEFINE index == browser.scroll_offset + row
  <2>3. /\ index \in Nat /\ index = browser'.scroll_offset + Len(shown')
        /\ "name" \in {"count", "name", "find"}
    BY <1>1, <1>7, <1>8, <1>9
  <2> HIDE DEF index
  <2>4. DriveInv' /\ ProbeInv' /\ PhaseInv' /\ PciInv' /\ WalkInv' /\ DirWalkInv' /\ FileInv' /\ LoadedIsShown'
    <3>1. BeginWalk(fs', DirWalk(fs', "name", index)) /\ fs' = fs
      BY <1>1, <2>1 DEF index
    <3> QED BY <1>1, <1>10, <2>1, <2>2, <2>3, <3>1, Begun
  <2>5. BrowserInv'
    BY <1>1, <1>2, <1>7, <1>9, <1>15, <2>1 DEF BrowserInv, OnScreen, BrowserRecs, Visible
  <2> QED BY <1>14, <2>4, <2>5
<1>16. CASE ~(row < Visible(browser))
  <2>1. phase' = "browse" /\ walk' = walk /\ io' = io /\ row = Visible(browser)
    BY <1>1, <1>7, <1>8, <1>9, <1>16
  <2>2. DriveInv'
    <3>1. io \in IoRecs
      BY DEF DriveInv
    <3> QED BY <1>1, <2>1, <3>1, DriveKept
  <2>3. PhaseInv'
    <3>1. DiskTyped(disk)' /\ DiskSound(disk)' /\ DOMAIN bus' \subseteq Location /\ fs' \in FsRecs
      BY <1>1, <1>11 DEF PhaseInv
    <3>2. ~Reading'
      BY <1>10, <2>1 DEF Reading
    <3> QED BY <1>1, <1>11, <1>12, <2>1, <3>1, <3>2 DEF PhaseInv, Phases, WithFs
  <2>4. WalkInv'
    BY <1>10, <2>1, WalkKept
  <2>5. BrowserInv'
    BY <1>1, <1>2, <1>7, <1>9, <2>1 DEF BrowserInv, OnScreen, BrowserRecs, Visible
  <2>6. DirWalkInv' /\ FileInv' /\ LoadedIsShown'
    BY <2>1 DEF DirWalkInv, FileInv, LoadedIsShown
  <2> QED BY <1>11, <1>12, <1>14, <2>2, <2>3, <2>4, <2>5, <2>6
<1> QED BY <1>15, <1>16

\* Choosing a ROM keeps it.
LEMMA EnterInv ==
  ASSUME BootInv, Enter
  PROVE  BootInv'
<1> USE DEF BootInv
<1> DEFINE row == browser.selected - browser.scroll_offset + 1
<1>1. /\ phase = "browse" /\ phase' = "find" /\ picked' = shown[row]
      /\ BeginWalk(fs, DirWalk(fs, "find", browser.selected))
      /\ UNCHANGED <<probeVars, drive, failed, wrong, hostVars, fs, browser, shown, rom>>
  BY DEF Enter, Under
<1>2. /\ browser \in BrowserRecs /\ OnScreen(browser) /\ shown \in Seq(Rows) /\ Len(shown) = Visible(browser)
  BY <1>1 DEF BrowserInv, Listing, OnScreen, BrowserRecs
<1>3. row \in 1..Len(shown) /\ shown[row] \in Rows /\ browser.scroll_offset + row = browser.selected + 1
      /\ browser.selected \in Nat
  BY <1>2, RowsVisible, BrowserFields
<1>4. io.stage # "data"
  BY <1>1, NotReading DEF Reading
<1>5. /\ Good /\ BpbValid(disk.bpb) /\ fs \in {Mounted(0, disk.bpb), Mounted(disk.mbr, disk.bpb)}
      /\ ~wrong => fs = Mounted(disk.mbr, disk.bpb)
  BY <1>1 DEF PhaseInv, WithFs
<1>6. DriveInv' /\ ProbeInv' /\ PhaseInv' /\ PciInv' /\ WalkInv' /\ DirWalkInv' /\ FileInv' /\ LoadedIsShown'
  <2> DEFINE index == browser.selected
  <2>1. /\ index \in Nat /\ index = browser'.selected /\ "find" \in {"count", "name", "find"}
        /\ BeginWalk(fs', DirWalk(fs', "find", index)) /\ fs' = fs
    BY <1>1, <1>3
  <2> HIDE DEF index
  <2> QED BY <1>1, <1>4, <1>5, <2>1, Begun
<1> HIDE DEF row
<1>7. BrowserInv'
  BY <1>1, <1>3 DEF BrowserInv, Listing
<1>8. ShownInv'
  <2>1. disk' = disk
    BY <1>1, PciKept
  <2>2. Roms' = Roms /\ (Clean' => Clean)
    BY <1>1, <2>1 DEF Roms, Clean, WithFs
  <2>3. Clean => browser.rom_count <= Len(Roms) /\ RowShows(row)
    BY <1>1, <1>3 DEF ShownInv, Listing
  <2>4. Clean => shown[row] = Blank \/ shown[row] = Roms[browser.selected + 1].name
    BY <1>3, <2>3 DEF RowShows
  <2> QED BY <1>1, <2>2, <2>3, <2>4 DEF ShownInv
<1> QED BY <1>6, <1>7, <1>8

-----------------------------------------------------------------------------
(* A walk takes a sector, and the file is found and loaded. *)

\* The call that a walk makes for what it reads next.
LEMMA Calls ==
  ASSUME ProbeInv, Good, NEW f \in FsRecs, NEW w, Going(w),
         io' = IF w.at \in {"sector", "fat"} THEN Asked(0, Request(f, w)) ELSE IdleIo
  PROVE  /\ io' \in IoRecs
         /\ w.at \in {"sector", "fat"} => /\ io'.lba = Request(f, w) /\ io'.stage \in {"select", "err"}
                                          /\ io'.stage = "select" => io'.lba \in OfDisk
                                          /\ io'.stage = "err" => io'.lba \notin OfDisk
         /\ w.at \notin {"sector", "fat"} => io'.stage = "idle"
<1>1. CASE w.at \in {"sector", "fat"}
  <2>1. InChain(w.cluster) /\ w \in WalkRecs
    BY <1>1 DEF Going
  <2>2. Request(f, w) \in Nat /\ 0 \in Slots
    BY <2>1, RequestTyped DEF Slots
  <2>3. io' = Asked(0, Request(f, w))
    BY <1>1
  <2> QED BY <1>1, <2>2, <2>3, AskedFacts DEF Good
<1>2. CASE w.at \notin {"sector", "fat"}
  <2>1. io' = IdleIo /\ "idle" \in Stages /\ 0 \in Nat /\ NoSector \in OfDisk \cup {NoSector}
    BY <1>2 DEF Stages
  <2> QED BY <1>2, <2>1, CallFields DEF IdleIo
<1> QED BY <1>1, <1>2

\* A sector of the directory or the FAT taken in keeps it.
LEMMA WalkOnInv ==
  ASSUME BootInv, WalkOn
  PROVE  BootInv'
<1> USE DEF BootInv
<1> DEFINE w == IF io.stage = "ok" THEN AfterSector(fs, walk, disk, io.data) ELSE AfterError(walk)
<1>1. /\ walk.at \in {"sector", "fat"} /\ io.stage \in {"ok", "err"} /\ walk' = w
      /\ io' = IF walk'.at \in {"sector", "fat"} THEN Asked(0, Request(fs, walk')) ELSE IdleIo
      /\ phase' = IF walk'.at = "panic" THEN "panic" ELSE phase
      /\ UNCHANGED <<probeVars, drive, failed, wrong, hostVars, fs, uiVars, rom>>
  BY DEF WalkOn, ReadDone
<1>2. /\ OnTheWay /\ phase \in {"count", "draw", "find", "load"} /\ io.lba = Request(fs, walk)
      /\ io.stage = "err" => failed \/ io.lba \notin OfDisk
      /\ Going(walk)
  BY <1>1 DEF OnTheWay, WalkInv
<1>3. /\ Good /\ BpbValid(disk.bpb) /\ DiskTyped(disk) /\ DiskSound(disk) /\ fs \in FsRecs
      /\ ~wrong => fs = Mounted(disk.mbr, disk.bpb)
      /\ fs \in {Mounted(0, disk.bpb), Mounted(disk.mbr, disk.bpb)} /\ DOMAIN bus \subseteq Location
  BY <1>2 DEF PhaseInv, WithFs
<1>4. io.stage = "ok" => io.data \in OfDisk /\ (~wrong => io.data = io.lba)
  BY DEF DriveInv
<1>5. Going(w) /\ w.job = walk.job /\ w.index = walk.index /\ w.want = walk.want
  <2>1. CASE io.stage = "ok"
    <3>1. w = AfterSector(fs, walk, disk, io.data)
      BY <2>1
    <3> HIDE DEF w
    <3> QED BY <1>1, <1>2, <1>3, <1>4, <2>1, <3>1, WalkTakes
  <2>2. CASE io.stage # "ok"
    <3>1. w = AfterError(walk)
      BY <2>2
    <3> HIDE DEF w
    <3> QED BY <1>1, <1>2, <3>1, WalkFails
  <2> QED BY <2>1, <2>2
<1>6. PciInv' /\ disk' = disk /\ bus' = bus
  BY <1>1, PciKept
<1>7. ProbeInv' /\ (Good' <=> Good)
  BY <1>1, ProbeKept
<1>8. phase' = phase \/ (phase' = "panic" /\ w.at = "panic")
  BY <1>1
<1>9. /\ io' \in IoRecs
      /\ w.at \in {"sector", "fat"} => /\ io'.lba = Request(fs, w) /\ io'.stage \in {"select", "err"}
                                       /\ io'.stage = "select" => io'.lba \in OfDisk
                                       /\ io'.stage = "err" => io'.lba \notin OfDisk
      /\ w.at \notin {"sector", "fat"} => io'.stage = "idle"
  <2>1. io' = IF w.at \in {"sector", "fat"} THEN Asked(0, Request(fs, w)) ELSE IdleIo
    BY <1>1
  <2> HIDE DEF w
  <2> QED BY <1>3, <1>5, <2>1, Calls
<1>10. Clean' => Clean /\ phase' = phase /\ fs = Mounted(disk.mbr, disk.bpb) /\ disk.regular
  BY <1>1, <1>3, <1>6, <1>8 DEF Clean, WithFs
<1>11. DriveInv'
  BY <1>1, <1>9, DriveKept
<1>12. (OnTheWay' <=> w.at \in {"sector", "fat"}) /\ (Reading' => OnTheWay')
  <2>1. OnTheWay' <=> w.at \in {"sector", "fat"}
    BY <1>1 DEF OnTheWay
  <2> HIDE DEF w
  <2> QED BY <1>9, <2>1 DEF Reading
<1>13. PhaseInv'
  <2>1. phase' \in Phases /\ phase' \notin {"pci", "probe", "mount", "vbr"}
    BY <1>2, <1>8 DEF Phases
  <2>2. DiskTyped(disk)' /\ DiskSound(disk)' /\ DOMAIN bus' \subseteq Location /\ fs' = fs /\ wrong' = wrong
    BY <1>1, <1>3, <1>6
  <2> QED BY <1>3, <1>6, <1>7, <1>12, <2>1, <2>2 DEF PhaseInv
<1>14. WalkInv'
  <2>1. Going(walk)' /\ walk'.job = walk.job /\ walk'.index = walk.index
    BY <1>1, <1>5
  <2>2. OnTheWay' => phase' = phase
    BY <1>8, <1>12
  <2>3. OnTheWay' => /\ io'.lba = Request(fs', walk') /\ io'.stage \in {"select", "err"}
                     /\ io'.stage = "err" => io'.lba \notin OfDisk
    BY <1>1, <1>9, <1>12
  <2>4. browser' = browser /\ shown' = shown
    BY <1>1 DEF uiVars
  <2>5. phase' \in {"count", "draw", "find", "load"} => phase' = phase
    BY <1>8
  <2> HIDE DEF w
  <2> QED BY <1>2, <2>1, <2>2, <2>3, <2>4, <2>5 DEF WalkInv
<1>15. BrowserInv'
  BY <1>1, <1>8, BrowserKept DEF Listing
<1>16. DirWalkInv'
  <2>1. SUFFICES ASSUME Clean', phase' \in {"count", "draw", "find"} PROVE Follows(disk, w, failed)
    BY <1>1, <1>6 DEF DirWalkInv
  <2>2. /\ Follows(disk, walk, failed) /\ walk.job # "read" /\ disk.regular /\ ~wrong
        /\ fs = Mounted(disk.mbr, disk.bpb)
    BY <1>10, <2>1 DEF DirWalkInv, WalkInv, Clean
  <2>3. CASE io.stage = "ok"
    <3>1. w = AfterSector(fs, walk, disk, io.data) /\ io.data \in OfDisk /\ io.data = Request(fs, walk)
      BY <1>2, <1>4, <2>2, <2>3
    <3> HIDE DEF w
    <3> QED BY <1>1, <1>2, <1>3, <2>2, <3>1, DirFollows
  <2>4. CASE io.stage = "err"
    <3>1. w = AfterError(walk) /\ failed \in BOOLEAN
      BY <2>4 DEF DriveInv
    <3>2. failed \/ ~(Request(fs, walk) < DiskSectors)
      <4>1. io.lba \in Nat
        <5>1. io \in IoRecs
          BY DEF DriveInv
        <5> QED BY <5>1, CallFields
      <4> QED BY <1>2, <2>4, <4>1, Sizes
    <3> HIDE DEF w
    <3> QED BY <1>1, <1>2, <1>3, <2>2, <3>1, <3>2, DirFails
  <2> QED BY <1>1, <2>3, <2>4
<1>17. ShownInv'
  <2>1. Roms' = Roms /\ browser' = browser /\ shown' = shown /\ picked' = picked /\ failed' = failed
    BY <1>1, <1>6 DEF Roms, uiVars
  <2>2. \A row : RowShows(row)' <=> RowShows(row)
    BY <2>1 DEF RowShows
  <2> HIDE DEF w
  <2> QED BY <1>10, <2>1, <2>2 DEF ShownInv
<1>18. FileInv'
  <2>1. SUFFICES ASSUME Clean', phase' = "load" PROVE InFile(disk, TheFile, w)
    BY <1>1, <1>6 DEF FileInv, TheFile, Roms, uiVars
  <2>2. /\ InFile(disk, TheFile, walk) /\ walk.job = "read" /\ ~wrong /\ phase = "load"
        /\ fs = Mounted(disk.mbr, disk.bpb)
    BY <1>10, <2>1 DEF FileInv, WalkInv, Clean
  <2>3. CASE io.stage = "ok"
    <3>1. w = AfterSector(fs, walk, disk, io.data) /\ io.data \in OfDisk /\ io.data = Request(fs, walk)
      BY <1>2, <1>4, <2>2, <2>3
    <3>2. TheFile \in Entries /\ AllAddressed(disk, TheFile)
      <4>1. browser.selected < browser.rom_count /\ browser.selected \in Nat /\ browser.rom_count \in Nat
        BY <2>2 DEF BrowserInv, Listing
      <4>2. browser.rom_count <= Len(Roms)
        BY <1>10, <2>1, <2>2 DEF ShownInv, Listing
      <4>3. Len(Roms) \in Nat
        BY <1>3, RomsListed
      <4>4. browser.selected + 1 \in 1..Len(Roms)
        BY <4>1, <4>2, <4>3
      <4>5. DiskSound(disk) /\ disk.regular
        BY <1>3, <1>10, <2>1 DEF Clean
      <4> QED BY <1>3, <4>4, <4>5, RomsListed, SoundDisk DEF TheFile
    <3> HIDE DEF w
    <3> QED BY <1>1, <1>2, <1>3, <2>2, <3>1, <3>2, FileFollows
  <2>4. CASE io.stage = "err"
    <3>1. w = AfterError(walk)
      BY <2>4
    <3> HIDE DEF w
    <3>2. w.at = "err" /\ w.want = walk.want
      BY <1>1, <1>2, <2>2, <3>1, WalkFails
    <3> QED BY <2>2, <3>2 DEF InFile
  <2> QED BY <1>1, <2>3, <2>4
<1>19. LoadedIsShown'
  BY <1>2, <1>8 DEF LoadedIsShown
<1> HIDE DEF w
<1> QED BY <1>6, <1>7, <1>11, <1>13, <1>14, <1>15, <1>16, <1>17, <1>18, <1>19

\* The end of find_rom, which begins read_file, keeps it.
LEMMA FileFoundInv ==
  ASSUME BootInv, FileFound
  PROVE  BootInv'
<1> USE DEF BootInv
<1> DEFINE e == walk.found
           w == FileWalk(e, RomUnits)
<1>1. /\ phase = "find" /\ walk.at \in {"end", "err"} /\ e # NoEntry /\ phase' = "load"
      /\ walk' = w /\ io' = IF w.at = "sector" THEN Asked(0, Request(fs, w)) ELSE IdleIo
      /\ UNCHANGED <<probeVars, drive, failed, wrong, hostVars, fs, uiVars, rom>>
  BY DEF FileFound, WalkOver, BeginWalk
<1>2. walk \in WalkRecs /\ walk.job = "find" /\ walk.at = "end" /\ walk.index = browser.selected
  BY <1>1 DEF WalkInv, Going
<1>3. e \in Entries
  BY <1>1, <1>2, WalkFields
<1> HIDE DEF e
<1>4. /\ w \in WalkRecs
      /\ w.job = "read" /\ w.seen = 0 /\ w.cluster = e.cluster
      /\ w.want = (IF e.size < RomUnits THEN e.size ELSE RomUnits)
      /\ w.found = NoEntry /\ w.buffer = <<>>
      /\ w.at \in {"sector", "end", "err"}
      /\ w.at = "sector" => InChain(e.cluster) /\ w.want > 0
  BY <1>3, FileWalkMade
<1>5. /\ Good /\ BpbValid(disk.bpb) /\ DiskTyped(disk) /\ DiskSound(disk) /\ fs \in FsRecs
      /\ ~wrong => fs = Mounted(disk.mbr, disk.bpb)
      /\ fs \in {Mounted(0, disk.bpb), Mounted(disk.mbr, disk.bpb)} /\ DOMAIN bus \subseteq Location
  BY <1>1 DEF PhaseInv, WithFs
<1>6. AllAddressed(disk, e) => InFile(disk, e, w)
  BY <1>3, <1>5, FileBegins
<1> HIDE DEF w
<1>7. Going(w)
  <2>1. Len(w.buffer) = 0 /\ w.want \in 0..RomUnits /\ w.index \in Nat
    BY <1>4, WalkFields
  <2>2. Len(w.buffer) <= w.want /\ w.seen <= w.index
    BY <1>4, <2>1, BootAssumption
  <2>3. w.at = "sector" => Len(w.buffer) < w.want
    BY <1>4, <2>1
  <2> QED BY <1>4, <2>2, <2>3 DEF Going
<1>8. /\ io' \in IoRecs
      /\ w.at = "sector" => /\ io'.lba = Request(fs, w) /\ io'.stage \in {"select", "err"}
                            /\ io'.stage = "select" => io'.lba \in OfDisk
                            /\ io'.stage = "err" => io'.lba \notin OfDisk
      /\ w.at # "sector" => io'.stage = "idle"
  <2>1. io' = IF w.at \in {"sector", "fat"} THEN Asked(0, Request(fs, w)) ELSE IdleIo
    BY <1>1, <1>4
  <2>2. w.at = "sector" <=> w.at \in {"sector", "fat"}
    BY <1>4
  <2> QED BY <1>5, <1>7, <2>1, <2>2, Calls
<1>9. PciInv' /\ disk' = disk /\ bus' = bus
  BY <1>1, PciKept
<1>10. ProbeInv' /\ (Good' <=> Good)
  BY <1>1, ProbeKept
<1>11. Roms' = Roms /\ (Clean' => Clean) /\ browser' = browser
  BY <1>1, <1>9 DEF Roms, Clean, WithFs, uiVars
<1>12. DriveInv'
  <2>1. io.stage # "data"
    BY <1>1, <1>2, NotReading DEF Reading, OnTheWay
  <2> QED BY <1>1, <1>4, <1>8, <2>1, DriveKept
<1>13. (OnTheWay' <=> w.at = "sector") /\ (Reading' => OnTheWay')
  <2>1. OnTheWay' <=> w.at = "sector"
    BY <1>1, <1>4 DEF OnTheWay
  <2> QED BY <1>8, <2>1 DEF Reading
<1>14. PhaseInv'
  <2>1. DiskTyped(disk)' /\ DiskSound(disk)' /\ DOMAIN bus' \subseteq Location /\ fs' = fs /\ wrong' = wrong
    BY <1>1, <1>5, <1>9
  <2> QED BY <1>1, <1>5, <1>9, <1>10, <1>13, <2>1 DEF PhaseInv, Phases, WithFs
<1>15. WalkInv'
  <2>1. Going(walk)'
    BY <1>1, <1>7
  <2>2. OnTheWay' => /\ io'.lba = Request(fs', walk') /\ io'.stage \in {"select", "err"}
                     /\ io'.stage = "err" => io'.lba \notin OfDisk
    BY <1>1, <1>8, <1>13
  <2> QED BY <1>1, <1>4, <2>1, <2>2 DEF WalkInv
<1>16. BrowserInv'
  BY <1>1, BrowserKept DEF Listing
<1>17. DirWalkInv' /\ LoadedIsShown'
  BY <1>1 DEF DirWalkInv, LoadedIsShown
<1>18. ShownInv'
  BY <1>1, <1>11 DEF ShownInv, Listing, uiVars
<1>19. FileInv'
  <2>1. SUFFICES ASSUME Clean PROVE TheFile = e /\ AllAddressed(disk, e)
    BY <1>1, <1>6, <1>9, <1>11 DEF FileInv, TheFile
  <2>2. e = Roms[walk.index + 1] /\ walk.index < Len(Roms)
    BY <1>1, <1>2, <2>1 DEF DirWalkInv, Follows, Roms, e
  <2>3. walk.index + 1 \in 1..Len(Roms)
    <3>1. Len(Roms) \in Nat /\ walk.index \in Nat
      BY <1>2, <1>5, RomsListed, WalkFields
    <3> QED BY <2>2, <3>1
  <2>4. AllAddressed(disk, e)
    BY <1>5, <2>1, <2>2, <2>3, SoundDisk DEF Clean
  <2> QED BY <1>2, <2>2, <2>4 DEF TheFile
<1> QED BY <1>9, <1>10, <1>12, <1>14, <1>15, <1>16, <1>17, <1>18, <1>19

\* The file that was read: as many of its sectors as there are and fit, from the first.
LEMMA WholeFile ==
  ASSUME DiskTyped(disk), NEW e \in Entries, NEW w \in WalkRecs, InFile(disk, e, w), w.at = "end", Len(w.buffer) <= w.want
  PROVE  LET sectors == File(disk, e)[e.size].sectors
         IN  /\ IsPrefix(w.buffer, sectors)
             /\ Len(w.buffer) = IF Len(sectors) < RomUnits THEN Len(sectors) ELSE RomUnits
<1> DEFINE F == File(disk, e)
           n == Len(w.buffer)
           z == e.size
           a == F[n].sectors
           s == F[z].sectors
<1>1. /\ w.want = (IF z < RomUnits THEN z ELSE RomUnits) /\ a = w.buffer
      /\ n = w.want \/ ~OnDisk(disk, F[n].place)
  BY DEF InFile
<1>2. /\ z \in Nat /\ n \in Nat /\ w.want \in Nat /\ RomUnits \in Nat
      /\ n <= w.want /\ w.want <= z /\ w.want <= RomUnits /\ n <= z
  <2>1. w.buffer \in Seq(OfDisk) /\ z \in Nat
    BY WalkFields, EntriesTyped
  <2>2. n \in Nat /\ n <= w.want
    BY <2>1
  <2> HIDE DEF n, z
  <2> QED BY <1>1, <2>1, <2>2, BootAssumption
<1> HIDE DEF n, z
<1>3. n \in 0..z /\ z \in n..z /\ z \in 0..z /\ 0 \in 0..z
  BY <1>2
<1>4. F[n] \in FileRecs /\ F[z] \in FileRecs /\ F[0].sectors = <<>>
  <2>1. F[n] \in FileRecs /\ F[z] \in FileRecs /\ F[0] = FileStart(e)
    BY <1>3, FileSteps DEF z
  <2> QED BY <2>1 DEF FileStart
<1>5. a \in Seq(Nat) /\ s \in Seq(Nat)
  <2> DEFINE L == Seq(Nat)
  <2> HIDE DEF L
  <2>1. \A x \in FileRecs : x.sectors \in L
    BY DEF FileRecs, L
  <2> HIDE DEF F
  <2> QED BY <1>4, <2>1 DEF L
<1>6. /\ ~OnDisk(disk, F[n].place) => F[z] = F[n]
      /\ Len(a) <= Len(s)
      /\ \A i \in 1..Len(a) : s[i] = a[i]
  <2>1. n \in 0..e.size /\ z \in n..e.size
    BY <1>3 DEF z
  <2>2. ASSUME ~OnDisk(disk, File(disk, e)[n].place) PROVE File(disk, e)[z] = File(disk, e)[n]
    BY <2>1, <2>2, FileGrows, ZenonT(30)
  <2>3. Len(File(disk, e)[n].sectors) <= Len(File(disk, e)[z].sectors)
    BY <2>1, FileGrows
  <2>4. \A i \in 1..Len(File(disk, e)[n].sectors) : File(disk, e)[z].sectors[i] = File(disk, e)[n].sectors[i]
    BY <2>1, FileGrows, ZenonT(30)
  <2> QED BY <2>2, <2>3, <2>4
<1>7. Len(s) <= Len(F[0].sectors) + (z - 0)
  <2>1. 0 \in 0..e.size /\ z \in 0..e.size /\ z = e.size
    BY <1>3 DEF z
  <2> QED BY <2>1, FileGrows
<1>8. Len(a) = n /\ Len(s) \in Nat
  BY <1>1, <1>5 DEF n
<1>9. Len(s) <= z
  <2>1. Len(F[0].sectors) = 0
    BY <1>4
  <2> HIDE DEF s, F
  <2> QED BY <1>2, <1>7, <1>8, <2>1
<1>10. ~OnDisk(disk, F[n].place) => s = a
  BY <1>6
<1> HIDE DEF F, a, s
<1>11. IsPrefix(a, s)
  <2> DEFINE x == SubSeq(s, 1, Len(a))
             y == SubSeq(a, 1, Len(a))
  <2>1. Len(a) \in Nat /\ Len(a) <= Len(s)
    BY <1>2, <1>6, <1>8
  <2>2. /\ x \in Seq(Nat) /\ y \in Seq(Nat) /\ Len(x) = Len(a) /\ Len(y) = Len(a)
        /\ \A i \in 1..Len(a) : x[i] = s[i] /\ y[i] = a[i]
    BY <1>5, <1>8, <2>1, SMTT(30)
  <2> HIDE DEF x, y
  <2>3. \A i \in 1..Len(a) : x[i] = y[i]
    BY <1>6, <2>2
  <2>4. x = y
    BY <2>1, <2>2, <2>3, SeqEqual
  <2> QED BY <2>1, <2>4 DEF IsPrefix, x, y
<1>12. n = IF Len(s) < RomUnits THEN Len(s) ELSE RomUnits
  <2>1. CASE n = w.want /\ z < RomUnits
    BY <1>1, <1>2, <1>6, <1>8, <1>9, <2>1
  <2>2. CASE n = w.want /\ ~(z < RomUnits)
    BY <1>1, <1>2, <1>6, <1>8, <2>2
  <2>3. CASE ~OnDisk(disk, F[n].place)
    <3>1. Len(s) = n /\ n <= RomUnits
      <4>1. w.want \in Nat
        BY <1>1, <1>2
      <4> QED BY <1>2, <1>8, <1>10, <2>3, <4>1
    <3> QED BY <1>2, <3>1
  <2> QED BY <1>1, <2>1, <2>2, <2>3
<1> QED BY <1>1, <1>11, <1>12 DEF s, a, n, z, F

\* The end of read_file, which starts the game or halts, keeps it.
LEMMA LoadedInv ==
  ASSUME BootInv, Loaded
  PROVE  BootInv'
<1> USE DEF BootInv
<1>1. /\ phase = "load" /\ walk.at \in {"end", "err"} /\ rom' = walk.buffer
      /\ phase' = IF walk.at = "end" /\ walk.buffer # <<>> THEN "run" ELSE "halt"
      /\ UNCHANGED <<ataVars, hostVars, fs, walk, uiVars>>
  BY DEF Loaded, WalkOver
<1>2. ~OnTheWay
  BY <1>1 DEF OnTheWay
<1>3. ~Reading
  BY <1>1, <1>2, NotReading
<1>4. walk \in WalkRecs /\ Len(walk.buffer) <= walk.want
  BY DEF WalkInv, Going
<1>5. walk.buffer \in Seq(OfDisk) /\ walk.want \in 0..RomUnits
  BY <1>4, WalkFields
<1>6. rom' \in Seq(OfDisk) /\ Len(rom') <= RomUnits
  BY <1>1, <1>4, <1>5, BootAssumption
<1>7. LoadedIsShown'
  <2>1. disk' = disk /\ picked' = picked /\ wrong' = wrong
    BY <1>1 DEF hostVars, uiVars, ataVars
  <2>2. SUFFICES ASSUME walk.at = "end", ~wrong, disk.regular, picked # Blank
                 PROVE  LET sectors == disk.files[picked]
                        IN  /\ IsPrefix(walk.buffer, sectors)
                            /\ Len(walk.buffer) = IF Len(sectors) < RomUnits THEN Len(sectors) ELSE RomUnits
    BY <1>1, <2>1 DEF LoadedIsShown
  <2>3. Clean /\ DiskTyped(disk) /\ DiskSound(disk) /\ BpbValid(disk.bpb)
    BY <1>1, <2>2 DEF Clean, WithFs, PhaseInv
  <2>4. InFile(disk, TheFile, walk)
    BY <1>1, <2>3 DEF FileInv
  <2>5. browser.selected + 1 \in 1..Len(Roms)
    <3>1. browser.selected < browser.rom_count /\ browser.selected \in Nat /\ browser.rom_count \in Nat
      BY <1>1 DEF BrowserInv, Listing
    <3>2. browser.rom_count <= Len(Roms)
      BY <1>1, <2>3 DEF ShownInv, Listing
    <3>3. Len(Roms) \in Nat
      BY <2>3, RomsListed
    <3> QED BY <3>1, <3>2, <3>3
  <2>6. TheFile \in Entries
    BY <2>3, <2>5, RomsListed DEF TheFile
  <2>7. picked = TheFile.name
    BY <1>1, <2>2, <2>3 DEF ShownInv, TheFile
  <2>8. disk.files[picked] = File(disk, TheFile)[TheFile.size].sectors
    BY <2>2, <2>3, <2>5, <2>7, SoundDisk DEF TheFile
  <2> QED BY <1>4, <2>2, <2>3, <2>4, <2>6, <2>8, WholeFile
<1>8. phase' = "halt" \/ (phase' = "run" /\ phase = "load" /\ LoadedIsShown')
  BY <1>1, <1>7
<1>9. UNCHANGED <<ataVars, hostVars, fs, walk, uiVars>>
  BY <1>1
<1> HIDE DEF BootInv
<1> QED BY <1>2, <1>3, <1>6, <1>8, <1>9, Settles

-----------------------------------------------------------------------------
(* The driver, the drive, and what follows. *)

\* A poll of the driver keeps it.
LEMMA PollDriveInv ==
  ASSUME BootInv, PollDrive
  PROVE  BootInv'
<1> USE DEF BootInv
<1>1. Poll /\ UNCHANGED <<hostVars, phase, fs, walk, uiVars, rom>>
  BY DEF PollDrive
<1>2. io \in IoRecs
  BY DEF DriveInv
<1>3. /\ Reading /\ io'.lba = io.lba /\ io'.stage \in {"ready", "data", "ok", "err"}
      /\ io'.stage = "err" => failed'
      /\ failed => failed'
      /\ wrong => wrong'
      /\ UNCHANGED probeVars
  <2>1. CASE Select
    <3>1. io.stage = "select" /\ io' = Call("ready", io.lba, io.data) /\ UNCHANGED <<failed, wrong>>
      BY <2>1 DEF Select
    <3> QED BY <1>1, <3>1, CallFields DEF Poll, Reading, probeVars
  <2>2. CASE Command
    <3>1. io.stage = "ready" /\ io' = Call("data", io.lba, io.data) /\ UNCHANGED <<failed, wrong>>
      BY <2>2 DEF Command
    <3> QED BY <1>1, <3>1, CallFields DEF Poll, Reading, probeVars
  <2>3. CASE DataError
    <3>1. io.stage = "data" /\ io' = Call("err", io.lba, io.data) /\ failed' = TRUE /\ wrong' = wrong
      BY <2>3 DEF DataError, Fail
    <3> QED BY <1>1, <3>1, CallFields DEF Poll, Reading, probeVars
  <2>4. CASE Data
    <3>1. /\ io.stage = "data" /\ io' = Call("ok", io.lba, drive.job) /\ failed' = failed
          /\ wrong => wrong'
      BY <2>4 DEF Data
    <3> QED BY <1>1, <3>1, CallFields DEF Poll, Reading, probeVars
  <2>5. CASE Timeout
    <3>1. /\ io.stage \in {"select", "ready", "data"} /\ io' = Call("err", io.lba, io.data)
          /\ failed' = TRUE /\ wrong' = wrong
      BY <2>5 DEF Timeout, GivesUp, Waiting, Fail
    <3> QED BY <1>1, <3>1, CallFields DEF Poll, Reading, probeVars
  <2> QED BY <1>1, <2>1, <2>2, <2>3, <2>4, <2>5 DEF Poll
<1>4. DriveInv'
  BY <1>1, PollStep
<1>5. ProbeInv' /\ (Good' <=> Good)
  BY <1>3, ProbeKept
<1>6. PciInv' /\ disk' = disk /\ bus' = bus
  BY <1>1, PciKept
<1>7. phase \notin {"pci", "probe"}
  <2>1. io # IdleIo
    BY <1>3, CallFields DEF IdleIo, Reading
  <2> QED BY <2>1 DEF PhaseInv
<1>8. PhaseInv'
  <2>1. DiskTyped(disk)' /\ DiskSound(disk)' /\ DOMAIN bus' \subseteq Location /\ fs' = fs /\ phase' = phase
    BY <1>1, <1>6 DEF PhaseInv
  <2>2. OnTheWay' <=> OnTheWay
    BY <1>1 DEF OnTheWay
  <2>3. io.stage \notin {"idle", "err"}
    BY <1>3 DEF Reading
  <2> QED BY <1>3, <1>5, <1>6, <1>7, <2>1, <2>2, <2>3 DEF PhaseInv
<1>9. WalkInv'
  <2>1. OnTheWay' <=> OnTheWay
    BY <1>1 DEF OnTheWay
  <2>2. walk' = walk /\ fs' = fs /\ phase' = phase /\ browser' = browser /\ shown' = shown
    BY <1>1 DEF uiVars
  <2> QED BY <1>3, <2>1, <2>2 DEF WalkInv
<1>10. BrowserInv' /\ DirWalkInv' /\ ShownInv' /\ FileInv' /\ LoadedIsShown'
  BY <1>1, <1>3, SideKept
<1> QED BY <1>4, <1>5, <1>6, <1>8, <1>9, <1>10

\* A step of the drive keeps it.
LEMMA DriveStepInv ==
  ASSUME BootInv, DriveStep \/ UNCHANGED vars
  PROVE  BootInv'
<1> USE DEF BootInv
<1>1. UNCHANGED <<probeVars, io, failed, wrong, hostVars, phase, fs, walk, uiVars, rom>>
  BY DEF DriveStep, Drive, vars, probeVars, hostVars, uiVars
<1>2. DriveInv'
  <2>1. CASE DriveStep
    BY <2>1, DriveWorks DEF DriveStep
  <2>2. CASE UNCHANGED vars
    <3>1. io \in IoRecs
      BY DEF DriveInv
    <3> QED BY <2>2, <3>1, DriveKept DEF vars
  <2> QED BY <2>1, <2>2
<1>3. ProbeInv' /\ (Good' <=> Good)
  BY <1>1, ProbeKept
<1>4. PciInv' /\ disk' = disk /\ bus' = bus
  BY <1>1, PciKept
<1>5. PhaseInv'
  <2>1. DiskTyped(disk)' /\ DiskSound(disk)' /\ DOMAIN bus' \subseteq Location
    BY <1>4 DEF PhaseInv
  <2>2. (OnTheWay' <=> OnTheWay) /\ (Reading' <=> Reading)
    BY <1>1 DEF OnTheWay, Reading
  <2> QED BY <1>1, <1>3, <1>4, <2>1, <2>2 DEF PhaseInv
<1>6. WalkInv'
  <2>1. OnTheWay' <=> OnTheWay
    BY <1>1 DEF OnTheWay
  <2>2. walk' = walk /\ fs' = fs /\ phase' = phase /\ browser' = browser /\ shown' = shown /\ io' = io
        /\ failed' = failed
    BY <1>1 DEF uiVars
  <2> QED BY <2>1, <2>2 DEF WalkInv
<1>7. BrowserInv' /\ DirWalkInv' /\ ShownInv' /\ FileInv' /\ LoadedIsShown'
  BY <1>1, SideKept
<1> QED BY <1>2, <1>3, <1>4, <1>5, <1>6, <1>7

-----------------------------------------------------------------------------
(* The invariant holds, and the properties follow from it. *)

\* So does every step.
LEMMA NextInv == BootInv /\ [Next]_vars => BootInv'
<1> SUFFICES ASSUME BootInv, [Next]_vars PROVE BootInv'
  OBVIOUS
<1>1. CASE Scan
  BY <1>1, ScanInv
<1>2. CASE ProbeDrive
  BY <1>2, ProbeDriveInv
<1>3. CASE TestRead
  BY <1>3, TestReadInv
<1>4. CASE Tested
  BY <1>4, TestedInv
<1>5. CASE Mount
  BY <1>5, MountInv
<1>6. CASE WalkOn
  BY <1>6, WalkOnInv
<1>7. CASE Counted
  BY <1>7, CountedInv
<1>8. CASE NoRoms \/ NotFound
  BY <1>8, NoRomsInv
<1>9. CASE RowDrawn
  BY <1>9, RowDrawnInv
<1>10. CASE FileFound
  BY <1>10, FileFoundInv
<1>11. CASE Loaded
  BY <1>11, LoadedInv
<1>12. CASE PollDrive
  BY <1>12, PollDriveInv
<1>13. CASE Up \/ Down
  BY <1>13, MovesInv
<1>14. CASE Enter
  BY <1>14, EnterInv
<1>15. CASE DriveStep \/ UNCHANGED vars
  BY <1>15, DriveStepInv
<1> QED
  BY <1>1, <1>2, <1>3, <1>4, <1>5, <1>6, <1>7, <1>8, <1>9, <1>10, <1>11, <1>12, <1>13, <1>14, <1>15
  DEF Next, Kernel, User

\* The conjunction of all parts is an invariant of every boot.
THEOREM Invariant == Spec => []BootInv
<1>1. Init => BootInv
  BY InitInv
<1>2. BootInv /\ [Next]_vars => BootInv'
  BY NextInv
<1> QED BY <1>1, <1>2, PTL DEF Spec

(* The driver's state, the list of PCI devices within its bound and without repetitions, *)
(* a cursor on the list and a ROM that fits its buffer (storage, main.rs, rom_browser.rs). *)
THEOREM TypeCorrect == Spec => []TypeOK
<1>1. BootInv => TypeOK
  <2> SUFFICES ASSUME BootInv PROVE TypeOK
    OBVIOUS
  <2>1. AtaTypeOK
    <3>1. /\ drive.command \in OfDisk \cup {NoSector} /\ drive.job \in OfDisk \cup {NoSector}
          /\ drive.bsy => drive.job # NoSector /\ ~drive.drq /\ ~drive.err
      BY StatusFields DEF BootInv, DriveInv
    <3>2. io.stage \in Stages
      BY CallFields DEF BootInv, DriveInv
    <3> QED BY <3>1, <3>2 DEF BootInv, DriveInv, ProbeInv, AtaTypeOK, OfDisk, Stages
  <2>2. /\ browser.selected \in 0..browser.rom_count
        /\ browser.selected = browser.rom_count => browser.rom_count = 0
    BY DEF BootInv, BrowserInv
  <2>3. Len(walk.buffer) <= RomUnits
    <3>1. walk.buffer \in Seq(OfDisk) /\ walk.want \in 0..RomUnits
      BY WalkFields DEF BootInv, WalkInv, Going
    <3>2. Len(walk.buffer) <= walk.want
      BY DEF BootInv, WalkInv, Going
    <3> QED BY <3>1, <3>2, BootAssumption
  <2> QED BY <2>1, <2>2, <2>3 DEF TypeOK, BootInv, PciInv, PhaseInv, BrowserInv
<1> QED BY <1>1, Invariant, PTL

(* As long as no read has failed, the sector handed over is the one asked for (read_sectors, wait_drq). *)
THEOREM SectorsAreExact == Spec => []SectorsExact
<1>1. BootInv => SectorsExact
  BY DEF BootInv, DriveInv, SectorsExact
<1> QED BY <1>1, Invariant, PTL

(* The ROM that runs is the one whose name was under the cursor: the sectors of that file from *)
(* the first, and all of them that fit (count_roms, get_rom_name, find_rom, read_file); on     *)
(* every regular disk, one where no cluster of a chain has sectors beyond the numbers of a u32. *)
THEOREM RunsWhatWasShown == Spec => []LoadedIsShown
<1>1. BootInv => LoadedIsShown
  BY DEF BootInv
<1> QED BY <1>1, Invariant, PTL

(* The cursor is on a row that is drawn, and, on a regular disk, each row shows the ROM with its     *)
(* number, or nothing after a read that failed (RomBrowser::run, adjust_scroll, draw_list).           *)
THEOREM CursorIsShown == Spec => []SelectedVisible
<1>1. BootInv => SelectedVisible
  <2> SUFFICES ASSUME BootInv, phase = "browse" PROVE SelectedVisible
    BY DEF SelectedVisible
  <2>1. browser \in BrowserRecs /\ OnScreen(browser) /\ shown \in Seq(Rows) /\ Len(shown) = Visible(browser)
    BY DEF BootInv, BrowserInv, Listing, OnScreen, BrowserRecs
  <2>2. DOMAIN shown = 1..Len(shown)
    BY <2>1
  <2>3. browser.selected - browser.scroll_offset + 1 \in DOMAIN shown
    BY <2>1, <2>2, RowsVisible
  <2>4. ASSUME ~wrong, disk.regular, NEW row \in DOMAIN shown
        PROVE  \/ shown[row] = disk.roms[browser.scroll_offset + row]
               \/ failed /\ shown[row] = Blank
    <3>1. Clean /\ DiskTyped(disk) /\ DiskSound(disk) /\ BpbValid(disk.bpb)
      BY <2>4 DEF Clean, WithFs, BootInv, PhaseInv
    <3>2. RowShows(row)
      BY <2>2, <2>4, <3>1 DEF BootInv, ShownInv
    <3>3. ASSUME browser.scroll_offset + row <= Len(Roms)
          PROVE  disk.roms[browser.scroll_offset + row] = Roms[browser.scroll_offset + row].name
      <4>1. browser.scroll_offset \in Nat /\ row \in Nat /\ row >= 1 /\ Len(Roms) \in Nat
        BY <2>1, <2>2, <2>4, <3>1, BrowserFields, RomsListed
      <4>2. browser.scroll_offset + row \in 1..Len(Roms)
        BY <3>3, <4>1
      <4>3. disk.roms = [i \in 1..Len(Roms) |-> Roms[i].name]
        BY <2>4, <3>1, SoundDisk
      <4> QED BY <4>2, <4>3
    <3> QED BY <3>2, <3>3 DEF RowShows
  <2> QED BY <2>3, <2>4 DEF SelectedVisible
<1> QED BY <1>1, Invariant, PTL
=============================================================================
