-------------------------------- MODULE Fat32 --------------------------------
(***************************************************************************)
(* The FAT32 reader (storage/fat32.rs) as operators.  A disk is a record:  *)
(*   mbr      the partition's start, or 0 for a disk without partitions    *)
(*   signed   whether sector 0 and the boot sector carry 0x55AA            *)
(*   bpb      the parameters in the boot sector                            *)
(*   fat      the entries that are not zero, counted from the FAT's start; *)
(*            those behind the FAT are what its reader takes for entries   *)
(*   dirs     what each sector holds, read as entries of a directory       *)
(* One sector is read at a time: a walk is the state of the loop that      *)
(* reads, and Request is the sector it needs next.                         *)
(***************************************************************************)
EXTENDS Naturals, Sequences

CONSTANT SectorNumbers      \* how many numbers a u32 has: 2^32 in the code

ASSUME FatAssumption == SectorNumbers \in Nat \ {0}

SectorSize == 512
ValidBps   == {512, 1024, 2048, 4096}
EndOfChain == 268435448     \* 0x0FFFFFF8: such entries end a chain
InChain(c) == c >= 2 /\ c < EndOfChain
-----------------------------------------------------------------------------
(* Mounting. *)
NoBpb == [bps |-> 0, spc |-> 0, reserved |-> 0, fats |-> 0, spf |-> 0, root |-> 0]

BpbValid(p) == p.bps \in 512..4096 /\ p.spc # 0 /\ p.fats # 0 /\ p.root >= 2

\* Where the regions start, in sectors.  The sums are of u32 and wrap around.
FatStart(start, p)  == (start + p.reserved) % SectorNumbers
DataStart(start, p) == (FatStart(start, p) + p.fats * p.spf) % SectorNumbers
Mounted(start, p) == [bps |-> p.bps, spc |-> p.spc, root |-> p.root,
                      fat |-> FatStart(start, p), data |-> DataStart(start, p)]
NotMounted == [bps |-> 512, spc |-> 1, root |-> 0, fat |-> 0, data |-> 0]

\* Sector 0 is a partition table if it says so and cannot be a boot sector.
NeedsVbr(b) == b.part # 0 /\ b.bpb.bps \notin ValidBps
-----------------------------------------------------------------------------
(* What a sector of the disk holds, read as the part that was expected. *)
AsBoot(disk, n) ==
  CASE n = 0 /\ disk.mbr # 0 -> [signed |-> disk.signed, part |-> disk.mbr, bpb |-> NoBpb]
    [] n = disk.mbr          -> [signed |-> disk.signed, part |-> 0, bpb |-> disk.bpb]
    [] OTHER                 -> [signed |-> FALSE, part |-> 0, bpb |-> NoBpb]

AsEntries(disk, n) == IF n \in DOMAIN disk.dirs THEN disk.dirs[n] ELSE <<>>

\* The entry with this place in the sector.
AsFat(disk, n, place) ==
  LET c == (n - (disk.mbr + disk.bpb.reserved)) * 128 + place
  IN  IF c \in DOMAIN disk.fat THEN disk.fat[c] ELSE 0
-----------------------------------------------------------------------------
\* Computed in u32 before it becomes the u64 of a sector's number: a cluster far
\* behind the end of the disk may be given the number of a sector on it.
cluster_to_sector(fs, c) == (fs.data + (c - 2) * fs.spc) % SectorNumbers

\* get_next_cluster: the sector of the entry and its place there.  With sectors
\* of more than 512 bytes the place may lie beyond the buffer.  c * 4 fits a u32.
FatSector(fs, c) == (fs.fat + (c * 4) \div fs.bps) % SectorNumbers
FatPlace(fs, c)  == ((c * 4) % fs.bps) \div 4
Panics(fs, c)    == FatPlace(fs, c) >= SectorSize \div 4

\* An entry: first byte, attribute and extension, and the file it names.
IsRom(e) == e.first = "used" /\ e.attr \notin {"lfn", "label", "dir"} /\ e.ext = "gb"

\* Each walk has a filter of its own in the code.
CountListed(e) == IsRom(e)
NameListed(e)  == IsRom(e)
\* Mutant: the search takes directories too.
FindWithDirs(e) == e.first = "used" /\ e.attr \notin {"lfn", "label"} /\ e.ext = "gb"
FindListed(e)  == IsRom(e)
Listed(job, e) == CASE job = "count" -> CountListed(e)
                    [] job = "name"  -> NameListed(e)
                    [] job = "find"  -> FindListed(e)

NoEntry == [first |-> "end", attr |-> "none", ext |-> "other", name |-> "", cluster |-> 0, size |-> 0]

(***************************************************************************)
(* A walk: count_roms, get_rom_name and find_rom along the root directory, *)
(* read_file along a file.  at says what is read next, or how it ended.    *)
(***************************************************************************)
Walk(job, index, cluster, want) ==
  [job |-> job, index |-> index, seen |-> 0, cluster |-> cluster, offset |-> 0, want |-> want,
   found |-> NoEntry, buffer |-> <<>>, at |-> IF InChain(cluster) THEN "sector" ELSE "end"]
NoWalk == [Walk("count", 0, 0, 0) EXCEPT !.at = "end"]

DirWalk(fs, job, index) == Walk(job, index, fs.root, 0)
\* A file that starts below cluster 2 is refused; one of no length is read at once.
FileWalk(e, room) ==
  LET want == IF e.size < room THEN e.size ELSE room
      w    == Walk("read", 0, e.cluster, want)
  IN  IF e.cluster < 2 THEN [w EXCEPT !.at = "err"]
      ELSE IF want = 0 THEN [w EXCEPT !.at = "end"] ELSE w

Request(fs, w) == IF w.at = "fat" THEN FatSector(fs, w.cluster)
                  ELSE cluster_to_sector(fs, w.cluster) + w.offset

NextSector(fs, w) ==
  IF w.offset + 1 < fs.spc THEN [w EXCEPT !.offset = @ + 1] ELSE [w EXCEPT !.at = "fat"]

\* The entries at these places of a sector, up to the one that ends the directory.
Scanned(entries, places) ==
  LET scan[i \in 0..Len(entries)] ==
        IF i = 0 THEN [listed |-> <<>>, over |-> FALSE]
        ELSE LET s == scan[i - 1]
             IN  CASE s.over \/ entries[i].first = "end" -> [listed |-> s.listed, over |-> TRUE]
                   [] ~(s.over \/ entries[i].first = "end") /\ i \in places ->
                        [listed |-> Append(s.listed, entries[i]), over |-> FALSE]
                   [] OTHER -> s
  IN scan[Len(entries)]

DirRead(fs, w, entries) ==
  LET s    == Scanned(entries, {i \in DOMAIN entries : Listed(w.job, entries[i])})
      seen == w.seen + Len(s.listed)
  IN CASE w.job # "count" /\ w.index < seen ->
            [w EXCEPT !.found = s.listed[w.index - w.seen + 1], !.at = "end"]
       [] ~(w.job # "count" /\ w.index < seen) /\ s.over -> [w EXCEPT !.seen = seen, !.at = "end"]
       [] OTHER -> NextSector(fs, [w EXCEPT !.seen = seen])

FileRead(fs, w, sector) ==
  LET got == [w EXCEPT !.buffer = Append(@, sector)]
  IN  IF Len(got.buffer) = w.want THEN [got EXCEPT !.at = "fat"] ELSE NextSector(fs, got)

\* The FAT is read after the last cluster of a file as well.
FatRead(fs, w, next) ==
  CASE Panics(fs, w.cluster) -> [w EXCEPT !.at = "panic"]
    [] ~Panics(fs, w.cluster) /\ InChain(next) /\ (w.job = "read" => Len(w.buffer) < w.want) ->
         [w EXCEPT !.at = "sector", !.cluster = next, !.offset = 0]
    [] OTHER -> [w EXCEPT !.at = "end"]

\* The walk after the sector it asked for was read, and after it could not be.
AfterSector(fs, w, disk, n) ==
  CASE w.at = "fat"                      -> FatRead(fs, w, AsFat(disk, n, FatPlace(fs, w.cluster)))
    [] w.at = "sector" /\ w.job = "read" -> FileRead(fs, w, n)
    [] w.at = "sector" /\ w.job # "read" -> DirRead(fs, w, AsEntries(disk, n))
AfterError(w) == [w EXCEPT !.at = IF w.job = "read" THEN "err" ELSE "end"]
=============================================================================
