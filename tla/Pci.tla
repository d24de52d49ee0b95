--------------------------------- MODULE Pci ---------------------------------
(***************************************************************************)
(* PCI enumeration (storage/pci.rs).  bus is the configuration space: a    *)
(* function from the locations where a function answers, <<bus, device,    *)
(* function>>, to what it says of itself.  A read anywhere else gives all  *)
(* ones.                                                                   *)
(***************************************************************************)
EXTENDS Naturals, Sequences, SequencesExt

CONSTANT MaxPci    \* size of the list of devices: 32 in the code
ASSUME PciAssumption == MaxPci \in Nat

Location == (0..7) \X (0..31) \X (0..7)
NoPciDevice == [vendor |-> 0, device |-> 0, class |-> 0, subclass |-> 0, multi |-> FALSE]
Answers(bus, at) == IF at \in DOMAIN bus THEN bus[at] ELSE [NoPciDevice EXCEPT !.vendor = 65535]

device_exists(bus, at) == Answers(bus, at).vendor \notin {0, 65535}
is_multifunction(bus, at) == Answers(bus, at).multi

\* Functions other than the first are looked at only in a device that says it has several.
Reached(bus) ==
  {at \in DOMAIN bus :
     LET first == <<at[1], at[2], 0>>
     IN  /\ device_exists(bus, first)
         /\ device_exists(bus, at)
         /\ at[3] = 0 \/ is_multifunction(bus, first)}

InScanOrder(a, b) == \/ a[1] < b[1]
                     \/ a[1] = b[1] /\ a[2] < b[2]
                     \/ a[1] = b[1] /\ a[2] = b[2] /\ a[3] < b[3]

\* Mutant: the list grows past its bound.
AddedAlways(list, at) == Append(list, at)

\* What does not fit the list is dropped.
Added(list, at) == IF Len(list) < MaxPci THEN Append(list, at) ELSE list

\* The loops over buses, devices and functions come to what is left in this order.
Nearest(left) == CHOOSE a \in left : \A b \in left : a = b \/ InScanOrder(a, b)
Visited(s) ==
  IF s.left = {} THEN s
  ELSE [list |-> Added(s.list, Nearest(s.left)), left |-> s.left \ {Nearest(s.left)}]

enumerate(bus) ==
  LET scan[n \in 0..Cardinality(Reached(bus))] ==
        IF n = 0 THEN [list |-> <<>>, left |-> Reached(bus)] ELSE Visited(scan[n - 1])
  IN  IF <<0, 0, 0>> \notin DOMAIN bus THEN <<>> ELSE scan[Cardinality(Reached(bus))].list

find(bus, list, vendor, device) ==
  SelectInSeq(list, LAMBDA at : bus[at].vendor = vendor /\ bus[at].device = device)
find_by_class(bus, list, class, subclass) ==
  SelectInSeq(list, LAMBDA at : bus[at].class = class /\ bus[at].subclass = subclass)

\* The PIIX4 first, then any IDE controller; its place in the list, or 0.
find_ide_controller(bus, list) ==
  LET piix4 == find(bus, list, 32902, 28945)
  IN  IF piix4 # 0 THEN piix4 ELSE find_by_class(bus, list, 1, 1)
=============================================================================
