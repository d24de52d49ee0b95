----------------------------- MODULE MCBootLoad -----------------------------
(***************************************************************************)
(* Machines and disks for BootLoad.                                        *)
(***************************************************************************)
EXTENDS BootLoad

CONSTANTS BusLength     \* most PCI functions beside the host bridge

BadCluster == 268435447     \* 0x0FFFFFF7
Entry(name, cluster, size) ==
  [first |-> "used", attr |-> "none", ext |-> "gb", name |-> name, cluster |-> cluster, size |-> size]
Label   == [Entry("LABEL", 0, 0) EXCEPT !.attr = "label"]
LongOf  == [Entry("LFN", 0, 0) EXCEPT !.attr = "lfn"]
Gone    == [Entry("GONE", 4, 1) EXCEPT !.first = "deleted"]
Folder  == [Entry("FOLDER", 4, 0) EXCEPT !.attr = "dir"]
Text    == [Entry("TEXT", 4, 1) EXCEPT !.ext = "other"]
End     == NoEntry

Bpb(spc, fats, spf) == [bps |-> 512, spc |-> spc, reserved |-> 1, fats |-> fats, spf |-> spf, root |-> 2]

\* Two ROMs in a directory of two clusters, among entries that are none, and
\* one behind the end.  The disk has no partitions.
Two ==
  [mbr |-> 0, signed |-> TRUE, bpb |-> Bpb(1, 1, 1),
   fat |-> (2 :> 3) @@ (3 :> EndOfChain) @@ (5 :> 7) @@ (7 :> EndOfChain) @@ (4 :> EndOfChain),
   dirs |-> (2 :> <<Label, Folder, LongOf, Entry("A", 5, 2)>>)
         @@ (3 :> <<Gone, Text, Entry("B", 4, 1), End, Entry("C", 4, 1)>>),
   roms |-> <<"A", "B">>, files |-> [A |-> <<5, 7>>, B |-> <<4>>], extent |-> 4, regular |-> TRUE]

\* Three ROMs, clusters of two sectors, two FATs, in a partition that starts at
\* sector 3: longer than the buffer, with a bad cluster, with a chain too short.
Three ==
  [mbr |-> 3, signed |-> TRUE, bpb |-> Bpb(2, 2, 1),
   fat |-> (2 :> EndOfChain) @@ (3 :> 4) @@ (4 :> 3) @@ (5 :> BadCluster) @@ (6 :> EndOfChain),
   dirs |-> (6 :> <<Entry("A", 3, 9)>>) @@ (7 :> <<Entry("B", 5, 3), Entry("C", 6, 3)>>),
   roms |-> <<"A", "B", "C">>,
   files |-> [A |-> <<8, 9, 10, 11, 8, 9, 10, 11, 8>>, B |-> <<12, 13>>, C |-> <<14, 15>>],
   extent |-> 4, regular |-> TRUE]

\* A file in cluster 130, whose FAT entry is in the second sector of the FAT;
\* with sectors of 1024 bytes it is beyond the buffer.
Far == [Two EXCEPT !.bpb = Bpb(1, 1, 2), !.fat = (2 :> EndOfChain) @@ (130 :> EndOfChain),
                   !.dirs = (3 :> <<Entry("A", 130, 1), Entry("B", 130, 0), Entry("C", 0, 1)>>),
                   !.roms = <<"A", "B", "C">>, !.files = [A |-> <<131>>, B |-> <<>>, C |-> <<>>]]
FarWide == [Far EXCEPT !.bpb.bps = 1024]

\* A directory that ends in a bad cluster, one without ROMs, and one in a circle.
Cut    == [Two EXCEPT !.fat = (2 :> BadCluster) @@ (5 :> 7) @@ (7 :> EndOfChain),
                      !.roms = <<"A">>]
Empty  == [Two EXCEPT !.dirs = (2 :> <<Label>>), !.fat = (2 :> EndOfChain), !.roms = <<>>]
Circle == [Empty EXCEPT !.fat = (2 :> 2), !.regular = FALSE]
\* A ROM whose chain comes to a bad cluster, which wraps around to sector 3: the
\* directory is in sectors 25 and 26, the ROM in 27 and 28.
Wraps == [Two EXCEPT !.bpb = [Bpb(2, 1, 1) EXCEPT !.reserved = 24],
                     !.fat = (2 :> EndOfChain) @@ (3 :> BadCluster), !.dirs = (25 :> <<Entry("A", 3, 4), End>>),
                     !.roms = <<"A">>, !.files = [A |-> <<27, 28>>], !.regular = FALSE]
\* Not to be mounted.
Unsigned == [Two EXCEPT !.signed = FALSE]
NoSpc    == [Two EXCEPT !.bpb.spc = 0]

\* Drives.
Nothing == [status |-> "zero", sig |-> "none", identify |-> FALSE, steady |-> FALSE,
            packet |-> FALSE, wide |-> FALSE]
Disk    == [Nothing EXCEPT !.status = "ready", !.identify = TRUE, !.steady = TRUE]
Cdrom   == [Nothing EXCEPT !.status = "ready", !.packet = TRUE]
Answer  == {Nothing, Disk, Cdrom,
            [Nothing EXCEPT !.status = "floating"], [Nothing EXCEPT !.status = "busy"],
            [Nothing EXCEPT !.status = "ready"],    \* there, but tells nothing
            [Disk EXCEPT !.sig = "sata"], [Disk EXCEPT !.wide = TRUE],
            [Disk EXCEPT !.steady = FALSE], [Cdrom EXCEPT !.sig = "atapi"],
            [Nothing EXCEPT !.status = "ready", !.sig = "half"]}
Slotted(a, b) == [i \in Slots |-> CASE i = 0 -> a [] i = 1 -> b [] OTHER -> Nothing]

\* Buses: a host bridge, perhaps with a PIIX4 and a disk controller of another make.
Bridge == [vendor |-> 32902, device |-> 28816, class |-> 6, subclass |-> 0, multi |-> FALSE]
Piix4  == [vendor |-> 32902, device |-> 28945, class |-> 1, subclass |-> 1, multi |-> FALSE]
Other  == [vendor |-> 4098, device |-> 1, class |-> 1, subclass |-> 1, multi |-> TRUE]
Buses ==
  {[at \in s |-> CASE at = <<0, 0, 0>> -> Bridge [] at[3] = 1 -> Piix4 [] OTHER -> Other] :
     s \in {t \in SUBSET {<<0, 0, 0>>, <<0, 7, 0>>, <<0, 7, 1>>, <<1, 2, 1>>, <<1, 3, 0>>} :
              Cardinality(t) <= BusLength + 1}}

Machine(drives, d, bad, b) == [attached |-> drives, disk |-> d, unreadable |-> bad, bus |-> b]
Plain == <<0, 0, 0>> :> Bridge
AllMachines ==
  {Machine(Slotted(a, b), Two, {}, Plain) : a \in Answer \ {Disk}, b \in {Nothing, Disk, Cdrom}}
    \cup {Machine(Slotted(Nothing, Nothing), Two, {}, b) : b \in Buses}
    \cup {Machine(Slotted(Disk, Cdrom), Two, bad, Plain) : bad \in {{}, {3}, {7}}}
    \cup {Machine(Slotted(Disk, Nothing), d, {}, Plain) :
            d \in {Three, Far, FarWide, Cut, Empty, Circle, Wraps, Unsigned, NoSpc}}
=============================================================================
