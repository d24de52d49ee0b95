--------------------------- MODULE SaveFileProofs ---------------------------
(***************************************************************************)
(* Proofs about SaveFile for every set of cartridges, slot count, slot     *)
(* size, drive size and debounce.                                          *)
(***************************************************************************)
EXTENDS SaveFile, WellFoundedInduction, TLAPS

\* Lowest picks a least element of a nonempty set of naturals.
LEMMA LowestIsLeast ==
  ASSUME NEW S, S \subseteq Nat, S # {}
  PROVE  Lowest(S) \in S /\ \A t \in S : Lowest(S) <= t
<1> DEFINE less == {p \in Nat \X Nat : p[1] < p[2]}
<1>1. IsWellFoundedOn(less, Nat)
  BY NatLessThanWellFounded DEF OpToRel
<1>2. PICK m \in S : \A y \in S : ~ (<<y, m>> \in less)
  BY <1>1, WFMin
<1>3. ASSUME NEW y \in S PROVE m <= y
  <2>1. m \in Nat /\ y \in Nat /\ <<y, m>> \notin less
    BY <1>2
  <2>2. ~ (y < m)
    BY <2>1
  <2>3. QED
    BY <2>1, <2>2
<1>4. QED
  BY <1>3 DEF Lowest

\* The slots do not overlap.
LEMMA SlotsDisjoint ==
  ASSUME NEW s \in Nat, NEW t \in Nat, s < t
  PROVE  BaseLba(s) + SECTORS_PER_SLOT <= BaseLba(t)
<1>1. PICK d \in Nat : t = s + 1 + d
  <2>1. t - s - 1 \in Nat /\ t = s + 1 + (t - s - 1)
    OBVIOUS
  <2>2. QED
    BY <2>1
<1>2. d * SECTORS_PER_SLOT \in Nat /\ s * SECTORS_PER_SLOT \in Nat
  BY <1>1, SaveAssumption
<1>3. t * SECTORS_PER_SLOT
        = s * SECTORS_PER_SLOT + SECTORS_PER_SLOT + d * SECTORS_PER_SLOT
  BY <1>1, SaveAssumption
<1>4. QED
  BY <1>2, <1>3, SaveAssumption DEF BaseLba

\* A sector behind the header of slot s is no slot's header.
LEMMA DataIsNoHeader ==
  ASSUME NEW s \in Slots, NEW t \in Slots,
         NEW i \in Nat, 0 < i, i < SECTORS_PER_SLOT
  PROVE  BaseLba(t) # SectorLba(s, i)
<1>1. BaseLba(s) \in Nat /\ BaseLba(t) \in Nat /\ s \in Nat /\ t \in Nat
  BY SaveAssumption DEF BaseLba, Slots
<1>2. CASE s < t
  BY <1>1, <1>2, SlotsDisjoint, SaveAssumption DEF SectorLba
<1>3. CASE t < s
  BY <1>1, <1>3, SlotsDisjoint, SaveAssumption DEF SectorLba
<1>4. CASE s = t
  BY <1>1, <1>4 DEF SectorLba
<1>5. QED
  BY <1>1, <1>2, <1>3, <1>4

\* Every slot searched for is a slot, and every slot chosen for a save is.
LEMMA ChosenIsSlot ==
  ASSUME NEW bad1, NEW bad2
  PROVE  /\ find_empty_slot(bad2) \in Slots
         /\ ChosenSlot(bad1, bad2) \in Slots
<1>0. 0 \in Slots /\ Slots \subseteq Nat
  BY SaveAssumption DEF Slots
<1>1. find_empty_slot(bad2) \in Slots
  <2> DEFINE empty == {s \in Slots : Readable(s, bad2) => ~ is_valid(HeaderAt(s))}
  <2>1. empty \subseteq Slots /\ empty \subseteq Nat
    BY <1>0
  <2>2. empty # {} => Lowest(empty) \in Slots
    BY <2>1, LowestIsLeast
  <2>3. QED
    BY <2>2, <1>0 DEF find_empty_slot
<1>2. SlotsOf(rom, bad1) \subseteq Slots /\ SlotsOf(rom, bad1) \subseteq Nat
  BY <1>0 DEF SlotsOf
<1>3. find_save_slot(rom, bad1) # NoSlot => find_save_slot(rom, bad1) \in Slots
  BY <1>2, LowestIsLeast DEF find_save_slot
<1>4. QED
  BY <1>1, <1>3 DEF ChosenSlot

\* A slot that is found is the first one holding a save of the cartridge.
LEMMA FoundIsFirst ==
  ASSUME NEW r, NEW bad, find_save_slot(r, bad) # NoSlot
  PROVE  /\ find_save_slot(r, bad) \in SlotsOf(r, bad)
         /\ \A t \in SlotsOf(r, bad) : find_save_slot(r, bad) <= t
<1>1. SlotsOf(r, bad) \subseteq Nat
  BY SaveAssumption DEF SlotsOf, Slots
<1>2. QED
  BY <1>1, LowestIsLeast DEF find_save_slot

\* The integer constants, alone.
LEMMA Sizes ==
  /\ SAVE_DEBOUNCE_FRAMES \in Nat /\ 0 \in 0 .. SAVE_DEBOUNCE_FRAMES - 1
  /\ MaxRamSectors \in Nat /\ SECTORS_PER_SLOT \in Nat
BY SaveAssumption

\* Sector numbers are numbers.
LEMMA Numbers ==
  /\ \A s \in Slots : s \in Nat /\ BaseLba(s) \in Nat
  /\ Slots \subseteq Nat /\ NoSlot \notin Slots /\ NoSlot \in Nat
  /\ \A r \in Roms : RamSectors[r] \in Nat /\ 0 .. RamSectors[r] - 1 \subseteq RamIndex
  /\ RamIndex \subseteq Nat
BY SaveAssumption DEF Slots, NoSlot, BaseLba, RamIndex

\* What a successful load assembles has the type of cartridge RAM.
LEMMA LoadedType ==
  ASSUME TypeOK, NEW r \in Roms, NEW bad,
         "Success" \in LoadResults(r, find_save_slot(r, bad))
  PROVE  ImageAt(find_save_slot(r, bad)) \in [RamIndex -> Contents]
<1> DEFINE s == find_save_slot(r, bad)
<1>1. /\ s # NoSlot
      /\ ~ (BaseLba(s) + HeaderAt(s).size >= DiskSectors)
  BY SaveAssumption DEF LoadResults
<1>2. s \in Slots /\ is_valid(HeaderAt(s))
  BY <1>1, FoundIsFirst DEF SlotsOf
<1> HIDE DEF s
<1>3. HeaderAt(s).size \in Nat /\ BaseLba(s) \in Nat
  <2>1. HeaderAt(s).size \in 1 .. MaxRamSectors
    BY <1>2 DEF is_valid
  <2>2. QED
    BY <1>2, <2>1, Numbers, Sizes
<1>4. ASSUME NEW k \in RamIndex, k < HeaderAt(s).size
      PROVE  disk[BaseLba(s) + 1 + k] \in Contents
  <2>1. BaseLba(s) + 1 + k \in 0 .. DiskSectors - 1
    BY <1>1, <1>3, <1>4, Numbers, SaveAssumption
  <2>2. QED
    BY <2>1 DEF TypeOK, DiskOK
<1>5. QED
  BY <1>4, SaveAssumption DEF ImageAt, Contents, s

-----------------------------------------------------------------------------
\* The variables keep their types: TypeOK of the runs, for every instance.
THEOREM TypeCorrect == Spec => []TypeOK
<1> USE DEF TypeOK, tracker
<1>1. Init => TypeOK
  <2> SUFFICES ASSUME Init PROVE TypeOK
    OBVIOUS
  <2>1. DiskOK
    BY SaveAssumption DEF Init, DiskOK, Contents
  <2>2. CartridgeOK
    BY SaveAssumption DEF Init, CartridgeOK, ZeroRam, Contents
  <2>3. TrackerOK
    BY Sizes DEF Init, TrackerOK
  <2>4. SavingOK
    BY DEF Init, SavingOK
  <2>5. QED
    BY <2>1, <2>2, <2>3, <2>4
<1>2. TypeOK /\ [Next]_vars => TypeOK'
  <2> SUFFICES ASSUME TypeOK, [Next]_vars
               PROVE  TypeOK'
    OBVIOUS
  <2>1. ASSUME NEW r \in Roms, PowerOn(r)
        PROVE  TypeOK'
    <3>1. PICK bad \in BadSets : \E result \in LoadResults(r, find_save_slot(r, bad)) :
            /\ load_result' = result
            /\ ram' = IF result = "Success" THEN ImageAt(find_save_slot(r, bad))
                      ELSE ZeroRam
      BY <2>1 DEF PowerOn
    <3>2. ram' \in [RamIndex -> Contents]
      BY <3>1, LoadedType, SaveAssumption DEF ZeroRam, Contents
    <3>3. load_result' \in {"NoSaveFound", "SizeMismatch", "ReadError", "Success"}
      BY <3>1 DEF LoadResults
    <3>4. slot = NoSlot
      BY <2>1, SaveAssumption DEF PowerOn, SavingOK
    <3>5. CartridgeOK'
      BY <2>1, <3>2, <3>3 DEF PowerOn, CartridgeOK
    <3>6. QED
      BY <2>1, <3>4, <3>5 DEF PowerOn, DiskOK, TrackerOK, SavingOK
  <2>2. ASSUME NEW k \in RamIndex, NEW v \in Values, WriteRam(k, v)
        PROVE  TypeOK'
    <3>1. CartridgeOK'
      BY <2>2 DEF WriteRam, CartridgeOK, Contents
    <3>2. QED
      BY <2>2, <3>1 DEF WriteRam, DiskOK, TrackerOK, SavingOK
  <2>3. CASE Frame
    <3>1. DiskOK' /\ CartridgeOK'
      BY <2>3 DEF Frame, DiskOK, CartridgeOK
    <3>2. TrackerOK'
      <4>1. pending_save' \in BOOLEAN
        BY <2>3 DEF Frame, TrackerOK
      <4>2. frames_since_write' \in 0 .. SAVE_DEBOUNCE_FRAMES - 1
        BY <2>3, Sizes DEF Frame, TrackerOK
      <4>3. QED
        BY <4>1, <4>2 DEF TrackerOK
    <3>3. SavingOK'
      <4>1. CASE BeginSave
        BY <2>3, <4>1, ChosenIsSlot, SaveAssumption DEF Frame, BeginSave, SavingOK
      <4>2. CASE UNCHANGED <<slot, next>>
        BY <2>3, <4>2 DEF Frame, SavingOK
      <4>3. QED
        BY <2>3, <4>1, <4>2 DEF Frame
    <3>4. QED
      BY <3>1, <3>2, <3>3
  <2>4. CASE SaveSector
    <3>1. /\ rom \in Battery /\ rom \in Roms /\ next \in Nat /\ slot \in Slots
          /\ next <= RamSectors[rom] /\ RamSectors[rom] \in Nat
      BY <2>4, SaveAssumption DEF SaveSector, SavingOK
    <3>2. next # 0 => ram[next - 1] \in Contents
      <4>1. next # 0 => next - 1 \in RamIndex
        BY <3>1, Numbers
      <4>2. QED
        BY <4>1 DEF CartridgeOK
    <3>3. HeaderOf(rom) \in Contents
      BY <3>1 DEF Contents, Headers
    <3>4. DiskOK'
      BY <2>4, <3>2, <3>3 DEF SaveSector, DiskOK
    <3>5. SavingOK'
      <4>1. CASE EndSave
        BY <2>4, <4>1 DEF EndSave, SavingOK
      <4>2. CASE MoreToWrite /\ next' = next + 1 /\ slot' = slot
        BY <2>4, <3>1, <4>2 DEF SaveSector, MoreToWrite, SavingOK
      <4>3. QED
        BY <2>4, <4>1, <4>2 DEF SaveSector
    <3>6. QED
      BY <2>4, <3>4, <3>5 DEF SaveSector, CartridgeOK, TrackerOK
  <2>5. CASE PowerOff
    <3>1. CartridgeOK'
      BY <2>5, SaveAssumption DEF PowerOff, CartridgeOK, ZeroRam, Contents
    <3>2. TrackerOK'
      BY <2>5, Sizes DEF PowerOff, TrackerOK
    <3>3. QED
      BY <2>5, <3>1, <3>2 DEF PowerOff, DiskOK, SavingOK
  <2>6. CASE UNCHANGED vars
    BY <2>6 DEF vars, DiskOK, CartridgeOK, TrackerOK, SavingOK
  <2>7. QED
    BY <2>1, <2>2, <2>3, <2>4, <2>5, <2>6 DEF Next
<1>3. QED
  BY <1>1, <1>2, PTL DEF Spec

\* A save never writes outside its slot, on a good drive or a failing one,
\* provided the cartridges leave room for the header.
THEOREM Confined ==
  ASSUME Fits
  PROVE  Spec => SaveConfinedToSlot
<1>1. ASSUME TypeOK, [Next]_vars, NEW lba \in DOMAIN disk, disk'[lba] # disk[lba]
      PROVE  slot # NoSlot /\ lba \in SlotSectors(slot)
  <2>1. SaveSector /\ lba = SectorLba(slot, next)
    <3>1. CASE SaveSector
      BY <1>1, <3>1 DEF SaveSector, TypeOK, DiskOK
    <3>2. CASE ~ SaveSector
      BY <1>1, <3>2 DEF Next, PowerOn, WriteRam, Frame, PowerOff, vars
    <3>3. QED
      BY <3>1, <3>2
  <2>2. slot \in Slots /\ next \in Nat /\ next < SECTORS_PER_SLOT
    BY <1>1, <2>1, SaveAssumption DEF SaveSector, TypeOK, SavingOK, Fits
  <2>3. QED
    BY <2>1, <2>2, Numbers, SaveAssumption DEF SaveSector, SectorLba, SlotSectors
<1>2. TypeOK /\ [Next]_vars =>
        [\A lba \in DOMAIN disk :
           disk'[lba] # disk[lba] => slot # NoSlot /\ lba \in SlotSectors(slot)]_vars
  BY <1>1
<1>3. QED
  BY <1>2, TypeCorrect, PTL DEF Spec, SaveConfinedToSlot

-----------------------------------------------------------------------------
(* The disk holds what the game wrote. *)

\* The least element of a set is what Lowest picks.
LEMMA LeastIsLowest ==
  ASSUME NEW S, S \subseteq Nat, NEW m \in S, \A t \in S : m <= t
  PROVE  Lowest(S) = m
<1>1. Lowest(S) \in S /\ \A t \in S : Lowest(S) <= t
  BY LowestIsLeast
<1>2. Lowest(S) <= m /\ m <= Lowest(S) /\ Lowest(S) \in Nat /\ m \in Nat
  BY <1>1
<1>3. QED
  BY <1>2

\* Two slots have different header sectors.
LEMMA HeadersDistinct ==
  ASSUME NEW s \in Slots, NEW t \in Slots, s # t
  PROVE  BaseLba(s) # BaseLba(t)
<1>1. s \in Nat /\ t \in Nat /\ BaseLba(s) \in Nat /\ BaseLba(t) \in Nat
  BY Numbers
<1>2. SECTORS_PER_SLOT \in Nat /\ SECTORS_PER_SLOT > 0
  BY SaveAssumption
<1>3. s < t \/ t < s
  BY <1>1
<1>4. QED
  BY <1>1, <1>2, <1>3, SlotsDisjoint

\* On a drive that holds the save area every sector of a slot can be written.
LEMMA OnDisk ==
  ASSUME Fits, Reliable, NEW s \in Slots, NEW i \in Nat, i < SECTORS_PER_SLOT
  PROVE  SectorLba(s, i) \in Nat /\ SectorLba(s, i) < DiskSectors
<1>1. BaseLba(s) + SECTORS_PER_SLOT <= BaseLba(MAX_SAVE_SLOTS)
  BY SlotsDisjoint, SaveAssumption DEF Slots
<1>2. BaseLba(s) \in Nat /\ BaseLba(MAX_SAVE_SLOTS) \in Nat
  BY Numbers, SaveAssumption DEF BaseLba
<1>3. BaseLba(MAX_SAVE_SLOTS) <= DiskSectors
  BY DEF Reliable
<1>4. QED
  BY <1>1, <1>2, <1>3, SaveAssumption DEF SectorLba

\* A reliable drive reads every header.
LEMMA AllReadable ==
  ASSUME Fits, Reliable, NEW s \in Slots
  PROVE  Readable(s, {})
<1>1. SectorLba(s, 0) = BaseLba(s)
  BY Numbers DEF SectorLba
<1>2. SECTORS_PER_SLOT > 0
  BY SaveAssumption
<1>3. QED
  BY <1>1, <1>2, OnDisk DEF Readable

\* The slot chosen for a save comes before every slot that already holds a
\* save of the game.
LEMMA ChosenIsFirst ==
  ASSUME NEW t \in SlotsOf(rom, {})
  PROVE  ChosenSlot({}, {}) <= t
<1>1. t \in Slots
  BY DEF SlotsOf
<1>2. find_save_slot(rom, {}) # NoSlot
  <2>1. SlotsOf(rom, {}) \subseteq Slots /\ SlotsOf(rom, {}) # {}
    BY DEF SlotsOf
  <2>2. Lowest(SlotsOf(rom, {})) \in Slots
    BY <2>1, Numbers, LowestIsLeast
  <2>3. QED
    BY <2>1, <2>2, Numbers DEF find_save_slot
<1>3. QED
  BY <1>2, FoundIsFirst DEF ChosenSlot

\* One sector written on a reliable drive: the header makes the slot the
\* game's, and the RAM sectors leave every header alone.
LEMMA SectorWritten ==
  ASSUME Fits, Reliable, TypeOK, SavedSoFar, SaveSector
  PROVE  /\ disk' = [disk EXCEPT ![SectorLba(slot, next)] =
                       IF next = 0 THEN HeaderOf(rom) ELSE ram[next - 1]]
         /\ IF MoreToWrite THEN next' = next + 1 /\ UNCHANGED slot ELSE EndSave
         /\ slot \in Slots /\ next \in Nat /\ rom \in Roms /\ rom \in Battery
         /\ next <= RamSectors[rom] /\ RamSectors[rom] \in Nat
         /\ next < SECTORS_PER_SLOT
         /\ SectorLba(slot, next) \in DOMAIN disk
<1>1. /\ slot \in Slots /\ next \in Nat /\ rom \in Roms /\ rom \in Battery
      /\ next <= RamSectors[rom] /\ RamSectors[rom] \in Nat
  BY SaveAssumption DEF SaveSector, TypeOK, SavingOK
<1>2. next < SECTORS_PER_SLOT
  BY <1>1, SaveAssumption DEF Fits
<1>3. SectorLba(slot, next) \in Nat /\ SectorLba(slot, next) < DiskSectors
  BY <1>1, <1>2, OnDisk
<1>4. ~ (SectorLba(slot, next) >= DiskSectors)
  BY <1>3, SaveAssumption
<1>5. SectorLba(slot, next) \in DOMAIN disk
  BY <1>3, SaveAssumption DEF TypeOK, DiskOK
<1>6. QED
  BY <1>1, <1>2, <1>4, <1>5 DEF SaveSector, Reliable

\* After that sector the slot is still the first of the game's slots, holds
\* the game's header, and holds the sectors written so far.
LEMMA SavedSoFarKept ==
  ASSUME Fits, Reliable, TypeOK, SavedSoFar, SaveSector
  PROVE  /\ slot \in SlotsOf(rom, {})'
         /\ \A t \in SlotsOf(rom, {})' : slot <= t
         /\ disk'[BaseLba(slot)] = HeaderOf(rom)
         /\ \A k \in 0 .. next - 1 : disk'[SectorLba(slot, k + 1)] = ram[k]
<1> DEFINE lba == SectorLba(slot, next)
<1>1. /\ disk' = [disk EXCEPT ![lba] =
                    IF next = 0 THEN HeaderOf(rom) ELSE ram[next - 1]]
      /\ slot \in Slots /\ next \in Nat /\ rom \in Roms /\ rom \in Battery
      /\ next <= RamSectors[rom] /\ RamSectors[rom] \in Nat
      /\ next < SECTORS_PER_SLOT /\ lba \in DOMAIN disk
  BY SectorWritten
<1>2. rom' = rom /\ slot # NoSlot
  BY DEF SaveSector
<1>3. RamSectors[rom] > 0 /\ \A t \in SlotsOf(rom, {}) : slot <= t
  BY <1>2 DEF SavedSoFar
<1>4. is_valid(HeaderOf(rom)) /\ HeaderOf(rom).hash = Hash[rom]
  <2>1. HeaderOf(rom) \in Headers
    BY <1>1 DEF Headers
  <2>2. HeaderOf(rom).size \in 1 .. MaxRamSectors
    BY <1>1, <1>3, Sizes DEF HeaderOf, Reliable
  <2>3. QED
    BY <2>1, <2>2 DEF is_valid, HeaderOf
<1>5. CASE next = 0
  <2>1. lba = BaseLba(slot)
    BY <1>1, <1>5, Numbers DEF SectorLba
  <2>2. disk'[BaseLba(slot)] = HeaderOf(rom)
    BY <1>1, <1>5, <2>1 DEF HeaderAt
  <2>3. ASSUME NEW t \in Slots, t # slot
        PROVE  HeaderAt(t)' = HeaderAt(t)
    BY <1>1, <2>1, <2>3, HeadersDistinct DEF HeaderAt, TypeOK, DiskOK
  <2>4. slot \in SlotsOf(rom, {})'
    BY <1>1, <1>2, <1>4, <2>2, AllReadable DEF SlotsOf, HeaderAt, Readable
  <2>5. ASSUME NEW t \in SlotsOf(rom, {})'
        PROVE  slot <= t
    <3>1. CASE t = slot
      BY <1>1, <3>1, Numbers
    <3>2. CASE t # slot
      <4>1. t \in Slots /\ HeaderAt(t)' = HeaderAt(t)
        BY <2>3, <3>2 DEF SlotsOf
      <4>2. t \in SlotsOf(rom, {})
        BY <1>2, <2>5, <4>1 DEF SlotsOf, Readable
      <4>3. QED
        BY <1>3, <4>2
    <3>3. QED
      BY <3>1, <3>2
  <2>6. QED
    BY <1>5, <2>2, <2>4, <2>5
<1>6. CASE next > 0
  <2>1. /\ slot \in SlotsOf(rom, {}) /\ HeaderAt(slot) = HeaderOf(rom)
        /\ \A k \in 0 .. next - 2 : disk[SectorLba(slot, k + 1)] = ram[k]
    BY <1>2, <1>6 DEF SavedSoFar
  <2>2. ASSUME NEW t \in Slots
        PROVE  HeaderAt(t)' = HeaderAt(t)
    <3>1. BaseLba(t) # lba
      BY <1>1, <1>6, DataIsNoHeader
    <3>2. QED
      BY <1>1, <3>1 DEF HeaderAt, TypeOK, DiskOK
  <2>3. SlotsOf(rom, {})' = SlotsOf(rom, {})
    BY <1>2, <2>2 DEF SlotsOf, Readable
  <2>4. disk'[BaseLba(slot)] = HeaderOf(rom)
    BY <1>1, <1>6, <2>1, DataIsNoHeader DEF HeaderAt, TypeOK, DiskOK
  <2>5. ASSUME NEW k \in 0 .. next - 1
        PROVE  disk'[SectorLba(slot, k + 1)] = ram[k]
    <3>1. BaseLba(slot) \in Nat
      BY <1>1, Numbers
    <3>2. CASE k = next - 1
      BY <1>1, <1>6, <3>2
    <3>3. CASE k # next - 1
      <4>1. k \in 0 .. next - 2 /\ SectorLba(slot, k + 1) # lba
        BY <1>1, <1>6, <3>1, <3>3 DEF SectorLba
      <4>2. QED
        BY <1>1, <2>1, <4>1 DEF TypeOK, DiskOK
    <3>4. QED
      BY <3>2, <3>3
  <2>6. QED
    BY <1>3, <2>1, <2>3, <2>4, <2>5
<1>7. QED
  BY <1>1, <1>5, <1>6

\* When the last sector is written, a load would read back the RAM.
LEMMA SaveComplete ==
  ASSUME Fits, Reliable, TypeOK, DurableInv, SaveSector, ~ MoreToWrite
  PROVE  SavedImage(rom)' = ram'
<1>1. /\ slot \in Slots /\ next = RamSectors[rom] /\ rom \in Roms
      /\ RamSectors[rom] \in Nat
  BY SectorWritten DEF DurableInv, MoreToWrite
<1>2. /\ slot \in SlotsOf(rom, {})'
      /\ \A t \in SlotsOf(rom, {})' : slot <= t
      /\ disk'[BaseLba(slot)] = HeaderOf(rom)
      /\ \A k \in 0 .. next - 1 : disk'[SectorLba(slot, k + 1)] = ram[k]
  BY SavedSoFarKept DEF DurableInv
<1>3. rom' = rom /\ ram' = ram /\ rom # NoRom
  BY <1>1, SaveAssumption DEF SaveSector
<1>4. SlotsOf(rom, {})' \subseteq Nat
  BY Numbers DEF SlotsOf
<1>5. find_save_slot(rom, {})' = slot
  BY <1>2, <1>4, LeastIsLowest DEF find_save_slot
<1>6. slot # NoSlot /\ BaseLba(slot) \in Nat
  BY <1>1, Numbers
<1>7. ASSUME NEW k \in RamIndex
      PROVE  ram[k] = IF k < RamSectors[rom] THEN disk'[BaseLba(slot) + 1 + k] ELSE Zero
  <2>1. k \in Nat
    BY Numbers
  <2>2. CASE k < RamSectors[rom]
    <3>1. k \in 0 .. next - 1
      BY <1>1, <2>1, <2>2
    <3>2. SectorLba(slot, k + 1) = BaseLba(slot) + 1 + k
      BY <1>6, <2>1 DEF SectorLba
    <3>3. QED
      BY <1>2, <2>2, <3>1, <3>2
  <2>3. CASE k >= RamSectors[rom]
    <3>1. ram[k] = Zero
      BY <1>3, <2>3 DEF DurableInv
    <3>2. QED
      BY <1>1, <2>1, <2>3, <3>1
  <2>4. QED
    BY <1>1, <2>1, <2>2, <2>3
<1>8. disk'[BaseLba(slot)].size = RamSectors[rom]
  BY <1>2 DEF HeaderOf
<1>9. SavedImage(rom)' =
        [k \in RamIndex |-> IF k < RamSectors[rom] THEN disk'[BaseLba(slot) + 1 + k]
                            ELSE Zero]
  BY <1>3, <1>5, <1>6, <1>8 DEF SavedImage, ImageAt, HeaderAt
<1>10. ram = [k \in RamIndex |-> ram[k]]
  BY DEF TypeOK, CartridgeOK
<1>11. QED
  BY <1>3, <1>7, <1>9, <1>10

\* A successful load puts what the disk holds into the RAM, zeros included.
LEMMA LoadedImage ==
  ASSUME Reliable, TypeOK, NEW r \in Roms, PowerOn(r)
  PROVE  /\ load_result' = "Success" => ram' = SavedImage(r) /\ r \in Battery
         /\ \A k \in RamIndex : k >= RamSectors[r] => ram'[k] = Zero
<1> DEFINE s == find_save_slot(r, {})
<1>1. PICK result \in LoadResults(r, s) :
        /\ load_result' = result
        /\ ram' = IF result = "Success" THEN ImageAt(s) ELSE ZeroRam
  BY DEF PowerOn, Reliable, BadSets
<1>2. CASE result # "Success"
  BY <1>1, <1>2 DEF ZeroRam
<1>3. CASE result = "Success"
  <2>1. /\ r \in Battery /\ s # NoSlot
        /\ ~ (HeaderAt(s).size > BufferSectors)
        /\ RamSectors[r] = BufferSectors
    BY <1>1, <1>3 DEF LoadResults, Reliable
  <2>2. HeaderAt(s).size \in 1 .. MaxRamSectors
    BY <2>1, FoundIsFirst DEF SlotsOf, is_valid
  <2> HIDE DEF s
  <2>3. ASSUME NEW k \in RamIndex, k >= RamSectors[r]
        PROVE  ~ (k < HeaderAt(s).size)
    <3>1. k \in Nat /\ HeaderAt(s).size \in Nat /\ BufferSectors \in Nat
      BY <2>2, Numbers, SaveAssumption
    <3>2. QED
      BY <2>1, <2>3, <3>1
  <2>4. ASSUME NEW k \in RamIndex, k >= RamSectors[r]
        PROVE  ram'[k] = Zero
    BY <1>1, <1>3, <2>3, <2>4 DEF ImageAt
  <2>5. QED
    BY <1>1, <1>3, <2>1, <2>4 DEF SavedImage, s
<1>4. QED
  BY <1>2, <1>3

\* QuietMeansDurable, for any number of cartridges that leave room for the
\* header, on a drive that does not fail: when the tracker is idle, the disk
\* holds exactly the RAM of the running game.
THEOREM Durable ==
  ASSUME Fits, Reliable
  PROVE  Spec => []QuietMeansDurable
<1>1. Init => DurableInv
  BY SaveAssumption DEF Init, DurableInv, QuietMeansDurable, SavedSoFar
<1>2. TypeOK /\ DurableInv /\ [Next]_vars => DurableInv'
  <2> SUFFICES ASSUME TypeOK, DurableInv, [Next]_vars
               PROVE  DurableInv'
    OBVIOUS
  <2>1. ASSUME NEW r \in Roms, PowerOn(r)
        PROVE  DurableInv'
    <3>1. rom = NoRom /\ rom' = r /\ slot' = slot /\ disk' = disk /\ touched' = FALSE
          /\ slot = NoSlot
      <4>1. rom = NoRom /\ rom' = r /\ slot' = slot /\ disk' = disk /\ touched' = touched
        BY <2>1 DEF PowerOn
      <4>2. touched = FALSE
        BY <4>1 DEF DurableInv, TypeOK, CartridgeOK
      <4>3. QED
        BY <4>1, <4>2, SaveAssumption DEF TypeOK, SavingOK
    <3>2. load_result' = "Success" => ram' = SavedImage(r) /\ r \in Battery
      BY <2>1, LoadedImage
    <3>3. SavedImage(r)' = SavedImage(r)
      BY <3>1 DEF SavedImage, ImageAt, find_save_slot, SlotsOf, Readable, HeaderAt
    <3>4. SavedImage(rom)' = SavedImage(r)'
      BY <3>1 DEF SavedImage, ImageAt, find_save_slot, SlotsOf, Readable, HeaderAt
    <3>5. QuietMeansDurable'
      BY <3>1, <3>2, <3>3, <3>4 DEF QuietMeansDurable
    <3>6. \A k \in RamIndex : k >= RamSectors[r] => ram'[k] = Zero
      BY <2>1, LoadedImage
    <3>7. QED
      BY <3>1, <3>5, <3>6, SaveAssumption DEF DurableInv, SavedSoFar
  <2>2. ASSUME NEW k \in RamIndex, NEW v \in Values, WriteRam(k, v)
        PROVE  DurableInv'
    <3>1. /\ ram_updated' = TRUE /\ rom' = rom /\ rom # NoRom
          /\ slot = NoSlot /\ slot' = slot
          /\ k < RamSectors[rom] /\ ram' = [ram EXCEPT ![k] = v]
      BY <2>2 DEF WriteRam
    <3>2. rom \in Roms
      BY <3>1 DEF TypeOK, CartridgeOK
    <3>3. ASSUME NEW j \in RamIndex, j >= RamSectors[rom]
          PROVE  ram'[j] = Zero
      <4>1. j # k
        BY <3>1, <3>2, <3>3, Numbers
      <4>2. QED
        BY <3>1, <3>3, <4>1 DEF DurableInv, TypeOK, CartridgeOK
    <3>4. QED
      BY <3>1, <3>3 DEF DurableInv, QuietMeansDurable, SavedSoFar
  <2>3. CASE Frame
    <3>1. disk' = disk /\ rom' = rom /\ ram' = ram /\ touched' = touched
          /\ load_result' = load_result /\ slot = NoSlot
      BY <2>3 DEF Frame
    <3>2. SavedImage(rom)' = SavedImage(rom)
      BY <3>1 DEF SavedImage, ImageAt, find_save_slot, SlotsOf, Readable, HeaderAt
    <3>3. SlotsOf(rom, {})' = SlotsOf(rom, {})
      BY <3>1 DEF SlotsOf, Readable, HeaderAt
    <3>4. CASE BeginSave /\ slot' # NoSlot
      <4>1. slot' = ChosenSlot({}, {}) /\ RamSectors[rom] > 0 /\ next' = 0
        BY <3>4 DEF BeginSave, BadSets, Reliable
      <4>2. SavedSoFar'
        BY <3>1, <3>3, <4>1, ChosenIsFirst DEF SavedSoFar
      <4>3. QED
        BY <3>1, <3>4, <4>2 DEF DurableInv, QuietMeansDurable
    <3>5. CASE UNCHANGED <<slot, next>>
      <4>1. SavedSoFar'
        BY <3>1, <3>5 DEF SavedSoFar
      <4>2. QuietMeansDurable'
        <5>1. \/ pending_save' = TRUE
              \/ pending_save' = pending_save /\ ram_updated' = ram_updated
              \/ BeginSave
          BY <2>3 DEF Frame
        <5>2. CASE BeginSave
          BY <3>1, <3>5, <5>2, ChosenIsSlot, Numbers DEF BeginSave
        <5>3. QED
          BY <3>1, <3>2, <3>5, <5>1, <5>2 DEF DurableInv, QuietMeansDurable
      <4>3. QED
        BY <3>1, <4>1, <4>2 DEF DurableInv
    <3>6. BeginSave => slot' # NoSlot
      BY ChosenIsSlot, Numbers DEF BeginSave
    <3>7. QED
      BY <2>3, <3>4, <3>5, <3>6 DEF Frame
  <2>4. CASE SaveSector
    <3>1. /\ IF MoreToWrite THEN next' = next + 1 /\ UNCHANGED slot ELSE EndSave
          /\ next \in Nat /\ rom' = rom /\ ram' = ram /\ touched' = touched
          /\ slot # NoSlot
      BY <2>4, SectorWritten DEF DurableInv, SaveSector
    <3>2. CASE MoreToWrite
      <4>1. /\ slot \in SlotsOf(rom, {})'
            /\ \A t \in SlotsOf(rom, {})' : slot <= t
            /\ disk'[BaseLba(slot)] = HeaderOf(rom)
            /\ \A k \in 0 .. next - 1 : disk'[SectorLba(slot, k + 1)] = ram[k]
        BY <2>4, SavedSoFarKept DEF DurableInv
      <4>2. RamSectors[rom] > 0
        BY <3>1 DEF DurableInv, SavedSoFar
      <4>3. next' - 2 = next - 1 /\ slot' = slot
        BY <3>1, <3>2
      <4>4. SavedSoFar'
        BY <3>1, <4>1, <4>2, <4>3 DEF SavedSoFar, HeaderAt, HeaderOf
      <4>5. QED
        BY <3>1, <4>3, <4>4 DEF DurableInv, QuietMeansDurable
    <3>3. CASE ~ MoreToWrite
      <4>1. SavedImage(rom)' = ram'
        BY <2>4, <3>3, SaveComplete
      <4>2. slot' = NoSlot
        BY <3>1, <3>3 DEF EndSave
      <4>3. QED
        BY <3>1, <4>1, <4>2 DEF DurableInv, QuietMeansDurable, SavedSoFar
    <3>4. QED
      BY <3>2, <3>3
  <2>5. CASE PowerOff
    BY <2>5, SaveAssumption DEF PowerOff, DurableInv, QuietMeansDurable, SavedSoFar
  <2>6. CASE UNCHANGED vars
    <3>1. SavedImage(rom)' = SavedImage(rom) /\ SlotsOf(rom, {})' = SlotsOf(rom, {})
      BY <2>6 DEF vars, SavedImage, ImageAt, find_save_slot, SlotsOf, Readable, HeaderAt
    <3>2. SavedSoFar'
      BY <2>6, <3>1 DEF vars, DurableInv, SavedSoFar, HeaderAt
    <3>3. QuietMeansDurable'
      BY <2>6, <3>1 DEF vars, tracker, DurableInv, QuietMeansDurable
    <3>4. QED
      BY <2>6, <3>2, <3>3 DEF vars, DurableInv
  <2>7. QED
    BY <2>1, <2>2, <2>3, <2>4, <2>5, <2>6 DEF Next
<1>3. DurableInv => QuietMeansDurable
  BY DEF DurableInv
<1>4. QED
  BY <1>1, <1>2, <1>3, TypeCorrect, PTL DEF Spec

-----------------------------------------------------------------------------
(* One slot for each game, and no image touched but the one being saved.   *)

\* A drive that answers every request for a sector it has.
Faultless == IoFaults = FALSE

OnDrive == {u \in Slots : BaseLba(u) < DiskSectors}

\* A save works on the one slot of its game, or on a slot without a save, unless
\* every slot has one; once it has written its header, the slot is its own.
Chosen ==
  slot # NoSlot =>
    /\ RamSectors[rom] > 0
    /\ next = 0 => /\ SlotsOf(rom, {}) \subseteq {slot}
                   /\ \/ slot \in SlotsOf(rom, {})
                      \/ slot \in OnDrive => ~ is_valid(HeaderAt(slot))
                      \/ AllSlotsInUse /\ slot = 0
    /\ next > 0 => slot \in OnDrive /\ HeaderAt(slot).hash = Hash[rom]

\* The headers on the disk are those of cartridges that leave room for them.
HeadersFit ==
  \A s \in OnDrive : is_valid(HeaderAt(s)) => HeaderAt(s).size < SECTORS_PER_SLOT

OwnedInv == OneSlotPerRom /\ Chosen /\ HeadersFit

\* What a sector written does to the headers, in a slot with room for its data.
LEMMA HeadersAfter ==
  ASSUME Fits, Faultless, TypeOK, SaveSector
  PROVE  /\ slot \in Slots /\ rom \in Battery /\ next \in Nat /\ next < SECTORS_PER_SLOT
         /\ rom' = rom
         /\ \A t \in OnDrive : t # slot \/ next > 0 => HeaderAt(t)' = HeaderAt(t)
         /\ next = 0 /\ slot \in OnDrive => disk'[BaseLba(slot)] = HeaderOf(rom)
         /\ slot' # NoSlot => /\ slot' = slot /\ next' = next + 1 /\ slot \in OnDrive
         /\ \A i \in DOMAIN disk : i # SectorLba(slot, next) => disk'[i] = disk[i]
<1>1. slot # NoSlot /\ slot \in Slots /\ rom \in Battery /\ next \in Nat /\ next <= RamSectors[rom]
  BY DEF SaveSector, TypeOK, SavingOK
<1>2. rom' = rom
  BY DEF SaveSector
<1>3. RamSectors[rom] < SECTORS_PER_SLOT /\ RamSectors[rom] \in Nat /\ SECTORS_PER_SLOT \in Nat
  BY <1>1, Sizes, SaveAssumption DEF Fits
<1>4. next < SECTORS_PER_SLOT
  BY <1>1, <1>3
<1> DEFINE lba == SectorLba(slot, next)
           content == IF next = 0 THEN HeaderOf(rom) ELSE ram[next - 1]
<1>5. \/ lba >= DiskSectors /\ EndSave /\ UNCHANGED disk
      \/ /\ lba < DiskSectors
         /\ disk' = [disk EXCEPT ![lba] = content]
         /\ IF MoreToWrite THEN next' = next + 1 /\ UNCHANGED slot ELSE EndSave
  BY DEF SaveSector, Faultless
<1>6. BaseLba(slot) \in Nat /\ lba = BaseLba(slot) + next /\ DiskSectors \in Nat
  BY <1>1, Numbers, SaveAssumption DEF SectorLba
<1> HIDE DEF lba, content
<1>7. disk \in [0 .. DiskSectors - 1 -> Contents]
  BY DEF TypeOK, DiskOK
<1>8. \A i \in DOMAIN disk : i # lba => disk'[i] = disk[i]
  BY <1>5, <1>7
<1>9. ASSUME NEW t \in OnDrive, t # slot \/ next > 0
      PROVE  HeaderAt(t)' = HeaderAt(t)
  <2>1. t \in Slots /\ BaseLba(t) \in Nat /\ BaseLba(t) < DiskSectors
    BY Numbers DEF OnDrive
  <2>2. BaseLba(t) # lba
    <3>1. CASE next > 0
      BY <1>1, <1>4, <2>1, <3>1, DataIsNoHeader DEF lba
    <3>2. CASE next = 0
      BY <1>1, <1>6, <1>9, <2>1, <3>2, HeadersDistinct
    <3> QED BY <1>1, <3>1, <3>2
  <2>3. BaseLba(t) \in DOMAIN disk
    BY <1>6, <1>7, <2>1
  <2> QED BY <1>8, <2>2, <2>3 DEF HeaderAt
<1>10. ASSUME next = 0, slot \in OnDrive
       PROVE  disk'[BaseLba(slot)] = HeaderOf(rom)
  <2>1. lba = BaseLba(slot) /\ lba < DiskSectors
    BY <1>6, <1>10 DEF OnDrive
  <2>2. lba \in DOMAIN disk /\ ~ (lba >= DiskSectors)
    BY <1>6, <1>7, <2>1
  <2>3. disk'[lba] = HeaderOf(rom)
    BY <1>5, <1>10, <2>2 DEF content
  <2> QED BY <2>1, <2>3
<1>11. ASSUME slot' # NoSlot
       PROVE  slot' = slot /\ next' = next + 1 /\ slot \in OnDrive
  BY <1>1, <1>5, <1>6, <1>11 DEF EndSave, OnDrive
<1> QED BY <1>1, <1>2, <1>4, <1>8, <1>9, <1>10, <1>11 DEF lba

\* The save of a game begins as Chosen says.
LEMMA Begun ==
  ASSUME Fits, Faultless, TypeOK, OwnedInv, rom \in Battery, BeginSave, UNCHANGED <<disk, rom>>
  PROVE  Chosen'
<1>1. slot' = ChosenSlot({}, {}) /\ next' = 0 /\ RamSectors[rom] > 0
  BY DEF BeginSave, BadSets, Faultless
<1>2. SlotsOf(rom, {})' = SlotsOf(rom, {}) /\ (AllSlotsInUse' <=> AllSlotsInUse)
  BY DEF SlotsOf, Readable, HeaderAt, AllSlotsInUse
<1>3. CASE find_save_slot(rom, {}) # NoSlot
  <2>1. slot' = find_save_slot(rom, {}) /\ slot' \in SlotsOf(rom, {})
    BY <1>1, <1>3, FoundIsFirst DEF ChosenSlot
  <2>2. ASSUME NEW t \in SlotsOf(rom, {})
        PROVE  t = slot'
    BY <2>1 DEF SlotsOf, Readable, OwnedInv, OneSlotPerRom
  <2> QED BY <1>1, <1>2, <2>1, <2>2 DEF Chosen
<1>4. CASE find_save_slot(rom, {}) = NoSlot
  <2>1. SlotsOf(rom, {}) = {}
    <3>1. SlotsOf(rom, {}) \subseteq Slots
      BY DEF SlotsOf
    <3>2. SlotsOf(rom, {}) # {} => Lowest(SlotsOf(rom, {})) \in Slots
      BY <3>1, Numbers, LowestIsLeast
    <3> QED BY <1>4, <3>2, Numbers DEF find_save_slot
  <2>2. slot' = find_empty_slot({})
    BY <1>1, <1>4 DEF ChosenSlot
  <2> DEFINE empty == {s \in Slots : Readable(s, {}) => ~ is_valid(HeaderAt(s))}
  <2>3. CASE empty = {}
    <3>1. slot' = 0
      BY <2>2, <2>3 DEF find_empty_slot
    <3>2. AllSlotsInUse
      BY <2>3 DEF AllSlotsInUse, Readable
    <3> QED BY <1>1, <1>2, <2>1, <3>1, <3>2 DEF Chosen
  <2>4. CASE empty # {}
    <3>1. empty \subseteq Nat
      BY Numbers
    <3>2. slot' = Lowest(empty)
      BY <2>2, <2>4 DEF find_empty_slot
    <3>3. slot' \in empty
      <4> HIDE DEF empty
      <4> QED BY <2>4, <3>1, <3>2, LowestIsLeast
    <3>4. slot' \in OnDrive => ~ is_valid(HeaderAt(slot)')
      BY <3>3 DEF Readable, OnDrive, HeaderAt
    <3> QED BY <1>1, <1>2, <2>1, <3>4 DEF Chosen
  <2> QED BY <2>3, <2>4
<1> QED BY <1>3, <1>4

\* A sector written keeps the slots of the games apart.
LEMMA SaveSectorOwned ==
  ASSUME Fits, Faultless, TypeOK, OwnedInv, SaveSector
  PROVE  OwnedInv'
<1>1. /\ slot \in Slots /\ rom \in Battery /\ next \in Nat /\ rom' = rom /\ slot # NoSlot
      /\ \A t \in OnDrive : t # slot \/ next > 0 => HeaderAt(t)' = HeaderAt(t)
      /\ next = 0 /\ slot \in OnDrive => disk'[BaseLba(slot)] = HeaderOf(rom)
      /\ slot' # NoSlot => slot' = slot /\ next' = next + 1 /\ slot \in OnDrive
  BY HeadersAfter DEF SaveSector
<1>2. RamSectors[rom] > 0 /\ RamSectors[rom] < SECTORS_PER_SLOT
  BY <1>1 DEF OwnedInv, Chosen, Fits
<1>3. HeaderOf(rom).hash = Hash[rom] /\ HeaderOf(rom).size = RamSectors[rom]
  BY DEF HeaderOf
<1>4. CASE next > 0 \/ slot \notin OnDrive
  <2>1. \A t \in OnDrive : HeaderAt(t)' = HeaderAt(t)
    BY <1>1, <1>4
  <2>2. OneSlotPerRom' /\ HeadersFit'
    BY <2>1 DEF OwnedInv, OneSlotPerRom, HeadersFit, OnDrive
  <2>3. Chosen'
    <3>1. SUFFICES ASSUME slot' # NoSlot PROVE Chosen'
      BY DEF Chosen
    <3>2. slot' = slot /\ next' = next + 1 /\ slot \in OnDrive /\ next > 0
      BY <1>1, <1>4, <3>1
    <3>3. HeaderAt(slot)' = HeaderAt(slot)
      BY <2>1, <3>2 DEF HeaderAt
    <3>4. HeaderAt(slot).hash = Hash[rom]
      BY <1>1, <3>2 DEF OwnedInv, Chosen
    <3> QED BY <1>1, <1>2, <3>2, <3>3, <3>4 DEF Chosen
  <2> QED BY <2>2, <2>3 DEF OwnedInv
<1>5. CASE next = 0 /\ slot \in OnDrive
  <2>1. disk'[BaseLba(slot)] = HeaderOf(rom)
    BY <1>1, <1>5
  <2>2. \A t \in OnDrive : t # slot => HeaderAt(t)' = HeaderAt(t)
    BY <1>1
  <2>3. SlotsOf(rom, {}) \subseteq {slot}
    BY <1>1, <1>5 DEF OwnedInv, Chosen
  <2>4. ASSUME NEW t \in OnDrive, t # slot, is_valid(HeaderAt(t)')
        PROVE  HeaderAt(t)'.hash # HeaderOf(rom).hash
    <3>1. t \in Slots /\ BaseLba(t) < DiskSectors /\ is_valid(HeaderAt(t)) /\ HeaderAt(t)' = HeaderAt(t)
      BY <2>2, <2>4 DEF OnDrive
    <3>2. t \notin SlotsOf(rom, {})
      BY <2>3, <2>4
    <3> QED BY <1>3, <3>1, <3>2 DEF SlotsOf, Readable
  <2>5. ASSUME NEW s \in OnDrive, NEW t \in OnDrive,
               is_valid(HeaderAt(s)'), is_valid(HeaderAt(t)'), HeaderAt(s)'.hash = HeaderAt(t)'.hash
        PROVE  s = t
    <3>1. CASE s # slot /\ t # slot
      BY <2>2, <2>5, <3>1 DEF OwnedInv, OneSlotPerRom, OnDrive
    <3>2. CASE s = slot
      BY <2>1, <2>4, <2>5, <3>2 DEF HeaderAt
    <3>3. CASE t = slot
      BY <2>1, <2>4, <2>5, <3>3 DEF HeaderAt
    <3> QED BY <3>1, <3>2, <3>3
  <2>6. OneSlotPerRom'
    BY <2>5 DEF OneSlotPerRom, OnDrive
  <2>7. HeadersFit'
    BY <1>2, <1>3, <2>1, <2>2 DEF OwnedInv, HeadersFit, HeaderAt
  <2>8. Chosen'
    BY <1>1, <1>2, <1>3, <1>5, <2>1 DEF Chosen, HeaderAt
  <2> QED BY <2>6, <2>7, <2>8 DEF OwnedInv
<1> QED BY <1>1, <1>4, <1>5

\* Every step keeps them apart.
LEMMA OwnedKept ==
  ASSUME Fits, Faultless, TypeOK, OwnedInv, [Next]_vars
  PROVE  OwnedInv'
<1>1. ASSUME UNCHANGED disk
      PROVE  OneSlotPerRom' /\ HeadersFit'
  BY <1>1 DEF OwnedInv, OneSlotPerRom, HeadersFit, HeaderAt
<1>2. ASSUME UNCHANGED disk, slot' = NoSlot
      PROVE  OwnedInv'
  BY <1>1, <1>2 DEF OwnedInv, Chosen
<1>3. ASSUME NEW r \in Roms, PowerOn(r)
      PROVE  OwnedInv'
  <2>1. slot = NoSlot
    BY <1>3, SaveAssumption DEF PowerOn, TypeOK, SavingOK
  <2> QED BY <1>2, <1>3, <2>1 DEF PowerOn
<1>4. ASSUME NEW k \in RamIndex, NEW v \in Values, WriteRam(k, v)
      PROVE  OwnedInv'
  BY <1>2, <1>4 DEF WriteRam
<1>5. CASE Frame
  <2>1. UNCHANGED <<disk, rom>> /\ slot = NoSlot /\ rom \in Battery
    BY <1>5 DEF Frame
  <2>2. BeginSave \/ slot' = slot
    BY <1>5 DEF Frame
  <2>3. CASE BeginSave
    BY <1>1, <2>1, <2>3, Begun DEF OwnedInv
  <2>4. CASE slot' = slot
    BY <1>2, <2>1, <2>4
  <2> QED BY <2>2, <2>3, <2>4
<1>6. CASE SaveSector
  BY <1>6, SaveSectorOwned
<1>7. CASE PowerOff
  BY <1>2, <1>7 DEF PowerOff
<1>8. CASE UNCHANGED vars
  <2>1. UNCHANGED <<disk, rom, slot, next>>
    BY <1>8 DEF vars
  <2>2. SlotsOf(rom, {})' = SlotsOf(rom, {}) /\ (AllSlotsInUse' <=> AllSlotsInUse)
    BY <2>1 DEF SlotsOf, Readable, HeaderAt, AllSlotsInUse
  <2>3. HeaderAt(slot)' = HeaderAt(slot)
    BY <2>1 DEF HeaderAt
  <2>4. Chosen'
    BY <2>1, <2>2, <2>3 DEF OwnedInv, Chosen
  <2> QED BY <1>1, <2>1, <2>4 DEF OwnedInv
<1> QED BY <1>3, <1>4, <1>5, <1>6, <1>7, <1>8 DEF Next

\* OwnedInv holds from the empty disk on.
LEMMA Owned ==
  ASSUME Fits, Faultless
  PROVE  Spec => [](TypeOK /\ OwnedInv)
<1>1. Init => OwnedInv
  <2> SUFFICES ASSUME Init PROVE OwnedInv
    OBVIOUS
  <2>1. slot = NoSlot /\ disk = [lba \in 0 .. DiskSectors - 1 |-> Zero]
    BY DEF Init
  <2>2. ASSUME NEW s \in OnDrive
        PROVE  ~ is_valid(HeaderAt(s))
    <3>1. BaseLba(s) \in 0 .. DiskSectors - 1
      BY Numbers, SaveAssumption DEF OnDrive
    <3>2. HeaderAt(s) = Zero
      BY <2>1, <3>1 DEF HeaderAt
    <3> QED BY <3>2, SaveAssumption, DataAssumption DEF is_valid
  <2> QED BY <2>1, <2>2 DEF OwnedInv, OneSlotPerRom, HeadersFit, Chosen, OnDrive
<1> QED BY <1>1, OwnedKept, TypeCorrect, PTL DEF Spec

\* OneSlotPerRom, for any number of slots and of cartridges that leave room for
\* the header, on a drive that does not fail, though it may end anywhere: a save
\* never takes a second slot, whatever games take its place in between and
\* whenever the power goes.
THEOREM Unique ==
  ASSUME Fits, Faultless
  PROVE  Spec => []OneSlotPerRom
BY Owned, PTL DEF OwnedInv

\* Sectors of a slot other than the one being saved stay as they are.
LEMMA OtherSectors ==
  ASSUME Fits, Reliable, TypeOK, SaveSector,
         NEW s \in Slots, s # slot, NEW i \in Nat, i < SECTORS_PER_SLOT
  PROVE  disk'[SectorLba(s, i)] = disk[SectorLba(s, i)]
<1>1. /\ slot \in Slots /\ next \in Nat /\ next < SECTORS_PER_SLOT
      /\ \A j \in DOMAIN disk : j # SectorLba(slot, next) => disk'[j] = disk[j]
  BY HeadersAfter DEF Reliable, Faultless
<1>2. s \in Nat /\ slot \in Nat /\ BaseLba(s) \in Nat /\ BaseLba(slot) \in Nat
  BY <1>1, Numbers
<1>3. SectorLba(s, i) \in 0 .. DiskSectors - 1
  BY OnDisk, SaveAssumption
<1>4. SectorLba(s, i) # SectorLba(slot, next)
  <2>1. CASE s < slot
    BY <1>1, <1>2, <2>1, Sizes, SlotsDisjoint DEF SectorLba
  <2>2. CASE slot < s
    BY <1>1, <1>2, <2>2, Sizes, SlotsDisjoint DEF SectorLba
  <2> QED BY <1>2, <2>1, <2>2
<1> QED BY <1>1, <1>3, <1>4 DEF TypeOK, DiskOK

\* A sector written for one game leaves the slot of another where it was.
LEMMA OtherSlots ==
  ASSUME Fits, Reliable, TypeOK, OwnedInv, SaveSector,
         NEW r \in Roms, Hash[r] # Hash[rom], ~ (AllSlotsInUse /\ slot = 0 /\ next = 0)
  PROVE  SlotsOf(r, {})' = SlotsOf(r, {}) /\ slot \notin SlotsOf(r, {})
<1>1. /\ slot # NoSlot /\ slot \in Slots /\ next \in Nat
      /\ \A t \in OnDrive : t # slot \/ next > 0 => HeaderAt(t)' = HeaderAt(t)
      /\ next = 0 /\ slot \in OnDrive => disk'[BaseLba(slot)] = HeaderOf(rom)
  BY HeadersAfter DEF SaveSector, Reliable, Faultless
<1>2. ASSUME NEW t
      PROVE  t \in SlotsOf(r, {}) <=> t \in OnDrive /\ is_valid(HeaderAt(t)) /\ HeaderAt(t).hash = Hash[r]
  BY DEF SlotsOf, OnDrive, Readable
<1>3. ASSUME NEW t
      PROVE  t \in SlotsOf(r, {})' <=> t \in OnDrive /\ is_valid(disk'[BaseLba(t)]) /\ disk'[BaseLba(t)].hash = Hash[r]
  BY DEF SlotsOf, OnDrive, Readable, HeaderAt
<1>4. CASE next > 0
  <2>1. HeaderAt(slot).hash = Hash[rom]
    BY <1>1, <1>4 DEF OwnedInv, Chosen
  <2>2. slot \notin SlotsOf(r, {})
    BY <1>2, <2>1
  <2> QED BY <1>1, <1>2, <1>3, <1>4, <2>2 DEF HeaderAt
<1>5. CASE next = 0
  <2>1. \/ slot \in SlotsOf(rom, {})
        \/ slot \in OnDrive => ~ is_valid(HeaderAt(slot))
    BY <1>1, <1>5 DEF OwnedInv, Chosen
  <2>2. slot \notin SlotsOf(r, {})
    BY <1>2, <2>1 DEF SlotsOf
  <2>3. slot \notin SlotsOf(r, {})'
    BY <1>1, <1>3, <1>5 DEF HeaderOf
  <2>4. ASSUME NEW t, t # slot
        PROVE  t \in SlotsOf(r, {})' <=> t \in SlotsOf(r, {})
    BY <1>1, <1>2, <1>3, <2>4 DEF HeaderAt
  <2> QED BY <2>2, <2>3, <2>4
<1> QED BY <1>1, <1>4, <1>5

\* OtherImagesKept, on a drive that holds the whole save area and does not fail:
\* what another game would load changes only when slot 0 is given up because
\* every slot is in use.
THEOREM OthersKept ==
  ASSUME Fits, Reliable
  PROVE  Spec => OtherImagesKept
<1>1. ASSUME TypeOK, OwnedInv, [Next]_vars, NEW r \in Roms, slot # NoSlot, Hash[r] # Hash[rom],
             find_save_slot(r, {}) # NoSlot, ~ (AllSlotsInUse /\ slot = 0 /\ next = 0)
      PROVE  SavedImage(r)' = SavedImage(r)
  <2>1. CASE ~ SaveSector
    <3>1. UNCHANGED disk
      BY <1>1, <2>1 DEF Next, PowerOn, WriteRam, Frame, PowerOff, vars
    <3> QED BY <3>1 DEF SavedImage, ImageAt, find_save_slot, SlotsOf, Readable, HeaderAt
  <2>2. CASE SaveSector
    <3> DEFINE s == Lowest(SlotsOf(r, {}))
    <3>1. SlotsOf(r, {})' = SlotsOf(r, {}) /\ slot \notin SlotsOf(r, {})
      BY <1>1, <2>2, OtherSlots
    <3>2. find_save_slot(r, {})' = find_save_slot(r, {})
      BY <3>1 DEF find_save_slot
    <3>3. s = find_save_slot(r, {}) /\ s \in SlotsOf(r, {})
      BY <1>1, FoundIsFirst DEF find_save_slot
    <3>4. PICK t \in Slots : t = s
      BY <3>3 DEF SlotsOf
    <3>5. t # slot /\ t \in OnDrive /\ is_valid(HeaderAt(t)) /\ BaseLba(t) \in Nat
      BY <3>1, <3>3, <3>4, Numbers DEF SlotsOf, Readable, OnDrive
    <3>6. HeaderAt(t).size < SECTORS_PER_SLOT /\ HeaderAt(t).size \in Nat
      BY <1>1, <3>5, Sizes DEF OwnedInv, HeadersFit, is_valid
    <3>7. \A i \in Nat : i < SECTORS_PER_SLOT => disk'[SectorLba(t, i)] = disk[SectorLba(t, i)]
      BY <1>1, <2>2, <3>5, OtherSectors
    <3>8. disk'[BaseLba(t)] = HeaderAt(t)
      <4>1. SectorLba(t, 0) = BaseLba(t) /\ 0 < SECTORS_PER_SLOT
        BY <3>5, SaveAssumption DEF SectorLba
      <4> QED BY <3>7, <4>1 DEF HeaderAt
    <3>9. ASSUME NEW k \in RamIndex, k < HeaderAt(t).size
          PROVE  disk'[BaseLba(t) + 1 + k] = disk[BaseLba(t) + 1 + k]
      <4>1. k \in Nat /\ k + 1 \in Nat /\ k + 1 < SECTORS_PER_SLOT
        BY <3>6, <3>9, Numbers, Sizes
      <4>2. SectorLba(t, k + 1) = BaseLba(t) + 1 + k
        BY <3>5, <4>1 DEF SectorLba
      <4> QED BY <3>7, <4>1, <4>2
    <3>10. SavedImage(r) = [k \in RamIndex |-> IF t # NoSlot /\ k < HeaderAt(t).size
                                               THEN disk[BaseLba(t) + 1 + k] ELSE Zero]
      BY <3>3, <3>4 DEF SavedImage, ImageAt
    <3>11. SavedImage(r)' = [k \in RamIndex |-> IF t # NoSlot /\ k < disk'[BaseLba(t)].size
                                                THEN disk'[BaseLba(t) + 1 + k] ELSE Zero]
      BY <3>2, <3>3, <3>4 DEF SavedImage, ImageAt, HeaderAt
    <3> QED BY <3>8, <3>9, <3>10, <3>11
  <2> QED BY <2>1, <2>2
<1>2. TypeOK /\ OwnedInv /\ [Next]_vars =>
        [\A r \in Roms :
           /\ slot # NoSlot /\ Hash[r] # Hash[rom]
           /\ find_save_slot(r, {}) # NoSlot
           /\ SavedImage(r)' # SavedImage(r)
           => AllSlotsInUse /\ slot = 0 /\ next = 0]_vars
  BY <1>1
<1>3. Faultless
  BY DEF Reliable, Faultless
<1> QED BY <1>2, <1>3, Owned, PTL DEF Spec, OtherImagesKept

-----------------------------------------------------------------------------
(* A 32KB cartridge alone on the disk has a durable image.  (With others   *)
(* of its size it has none, as their slots overlap, and smaller ones are   *)
(* never restored.)                                                        *)

Alone(g) ==
  /\ Roms = {g} /\ Battery = {g}
  /\ RamSectors[g] = BufferSectors /\ BufferSectors \in 1 .. MaxRamSectors
  /\ Reliable /\ BufferSectors < DiskSectors

\* Sectors from the second on hold data, and none before there is a header.
AloneInv(g) ==
  /\ disk \in [0 .. DiskSectors - 1 -> Contents]
  /\ disk[0] \in {Zero, HeaderOf(g)}
  /\ \A i \in 1 .. DiskSectors - 1 : disk[i] \in Values /\ (disk[0] = Zero => disk[i] = Zero)
  /\ ram \in [RamIndex -> Values]
  /\ slot # NoSlot => /\ slot = 0 /\ rom = g /\ next \in 0 .. BufferSectors
                      /\ next > 0 => disk[0] = HeaderOf(g)

\* The numbers of a cartridge alone.
LEMMA AloneNumbers ==
  ASSUME NEW g, Alone(g)
  PROVE  /\ BufferSectors \in Nat /\ BufferSectors > 0 /\ DiskSectors \in Nat
         /\ RamIndex = 0 .. BufferSectors - 1 /\ BaseLba(0) = 0 /\ 0 \in Slots
         /\ \A i \in Nat : SectorLba(0, i) = i
         /\ is_valid(HeaderOf(g)) /\ HeaderOf(g).hash = Hash[g] /\ HeaderOf(g).size = BufferSectors
         /\ \A v \in Values : ~ is_valid(v)
         /\ Zero \in Values /\ Zero # HeaderOf(g)
         /\ g # NoRom /\ NoSlot # 0
<1>1. BufferSectors \in Nat /\ BufferSectors > 0 /\ DiskSectors \in Nat
  BY SaveAssumption DEF Alone
<1>2. RamIndex = 0 .. BufferSectors - 1
  BY DEF Alone, RamIndex
<1>3. BaseLba(0) = 0 /\ 0 \in Slots /\ NoSlot # 0
  BY SaveAssumption DEF BaseLba, Slots, NoSlot
<1>4. \A i \in Nat : SectorLba(0, i) = i
  BY <1>3 DEF SectorLba
<1>5. HeaderOf(g) \in Headers /\ HeaderOf(g).hash = Hash[g] /\ HeaderOf(g).size = BufferSectors
  BY DEF Alone, Headers, HeaderOf
<1>6. is_valid(HeaderOf(g))
  BY <1>5 DEF is_valid, Alone
<1>7. (\A v \in Values : ~ is_valid(v)) /\ Zero \in Values /\ Zero # HeaderOf(g)
  BY <1>5, DataAssumption, SaveAssumption DEF is_valid
<1> QED BY <1>1, <1>2, <1>3, <1>4, <1>5, <1>6, <1>7, SaveAssumption DEF Alone

\* The slot of a cartridge alone is slot 0, and its image is what follows the header.
LEMMA AloneImage ==
  ASSUME NEW g, Alone(g), AloneInv(g)
  PROVE  /\ SlotsOf(g, {}) = IF disk[0] = HeaderOf(g) THEN {0} ELSE {}
         /\ find_save_slot(g, {}) = IF disk[0] = HeaderOf(g) THEN 0 ELSE NoSlot
         /\ SavedImage(g) = [k \in RamIndex |-> disk[1 + k]]
         /\ rom = g => ChosenSlot({}, {}) = 0
<1>1. ASSUME NEW s \in Slots, s # 0
      PROVE  ~ is_valid(HeaderAt(s))
  <2>1. BaseLba(s) \in Nat /\ s \in Nat
    BY Numbers
  <2>2. BaseLba(s) # 0
    BY <1>1, AloneNumbers, HeadersDistinct
  <2>3. BaseLba(s) < DiskSectors
    <3>1. BaseLba(s) + SECTORS_PER_SLOT <= BaseLba(MAX_SAVE_SLOTS)
      BY <2>1, SlotsDisjoint, SaveAssumption DEF Slots
    <3>2. BaseLba(MAX_SAVE_SLOTS) \in Nat /\ BaseLba(MAX_SAVE_SLOTS) <= DiskSectors
      BY SaveAssumption DEF BaseLba, Alone, Reliable
    <3> QED BY <2>1, <3>1, <3>2, SaveAssumption
  <2>4. BaseLba(s) \in 1 .. DiskSectors - 1
    BY <2>1, <2>2, <2>3, AloneNumbers
  <2> QED BY <2>4, AloneNumbers DEF AloneInv, HeaderAt
<1>2. HeaderAt(0) = disk[0] /\ Readable(0, {})
  BY AloneNumbers DEF HeaderAt, Readable, Alone
<1>3. is_valid(HeaderAt(0)) <=> disk[0] = HeaderOf(g)
  BY <1>2, AloneNumbers DEF AloneInv
<1>4. SlotsOf(g, {}) = IF disk[0] = HeaderOf(g) THEN {0} ELSE {}
  BY <1>1, <1>2, <1>3, AloneNumbers DEF SlotsOf
<1>5. find_save_slot(g, {}) = IF disk[0] = HeaderOf(g) THEN 0 ELSE NoSlot
  BY <1>4, LeastIsLowest DEF find_save_slot
<1>6. ASSUME rom = g
      PROVE  ChosenSlot({}, {}) = 0
  <2> DEFINE empty == {s \in Slots : Readable(s, {}) => ~ is_valid(HeaderAt(s))}
  <2>1. CASE disk[0] = HeaderOf(g)
    BY <1>5, <1>6, <2>1, AloneNumbers DEF ChosenSlot
  <2>2. CASE disk[0] # HeaderOf(g)
    <3>1. empty \subseteq Nat /\ 0 \in empty
      BY <1>3, <2>2, Numbers, AloneNumbers
    <3>2. \A t \in empty : 0 <= t
      BY <3>1
    <3>3. find_empty_slot({}) = IF empty = {} THEN 0 ELSE Lowest(empty)
      BY DEF find_empty_slot
    <3> HIDE DEF empty
    <3>4. find_empty_slot({}) = 0
      BY <3>1, <3>2, <3>3, LeastIsLowest
    <3> QED BY <1>5, <1>6, <2>2, <3>4 DEF ChosenSlot
  <2> QED BY <2>1, <2>2
<1>7. SavedImage(g) = [k \in RamIndex |-> disk[1 + k]]
  <2>1. ASSUME NEW k \in RamIndex
        PROVE  1 + k \in 1 .. DiskSectors - 1 /\ k < BufferSectors
    BY AloneNumbers DEF Alone
  <2>2. CASE disk[0] = HeaderOf(g)
    <3>1. SavedImage(g) = [k \in RamIndex |-> IF 0 # NoSlot /\ k < BufferSectors THEN disk[0 + 1 + k] ELSE Zero]
      BY <1>2, <1>5, <2>2, AloneNumbers DEF SavedImage, ImageAt
    <3> QED BY <2>1, <3>1, AloneNumbers
  <2>3. CASE disk[0] # HeaderOf(g)
    <3>1. SavedImage(g) = [k \in RamIndex |-> Zero]
      BY <1>5, <2>3 DEF SavedImage, ImageAt
    <3>2. disk[0] = Zero
      BY <2>3 DEF AloneInv
    <3> QED BY <2>1, <3>1, <3>2 DEF AloneInv
  <2> QED BY <2>2, <2>3
<1> QED BY <1>4, <1>5, <1>6, <1>7

\* Starting it restores its image, whether it has one or not.
LEMMA AloneStarts ==
  ASSUME NEW g, Alone(g), AloneInv(g), NEW r \in Roms, PowerOn(r)
  PROVE  /\ r = g /\ rom = NoRom /\ rom' = g /\ UNCHANGED <<disk, slot, next>>
         /\ ram' = SavedImage(g)
         /\ find_save_slot(g, {}) # NoSlot => load_result' = "Success"
<1> DEFINE s == find_save_slot(g, {})
<1>1. r = g /\ rom = NoRom /\ rom' = g /\ UNCHANGED <<disk, slot, next>>
  BY DEF PowerOn, Alone
<1>2. PICK result \in LoadResults(g, s) :
        /\ load_result' = result
        /\ ram' = IF result = "Success" THEN ImageAt(s) ELSE ZeroRam
  BY <1>1 DEF PowerOn, Alone, Reliable, BadSets
<1>3. s = IF disk[0] = HeaderOf(g) THEN 0 ELSE NoSlot
  BY AloneImage
<1>4. CASE disk[0] = HeaderOf(g)
  <2>1. s = 0 /\ s # NoSlot /\ HeaderAt(s).size = BufferSectors /\ BaseLba(s) = 0
    BY <1>3, <1>4, AloneNumbers DEF HeaderAt
  <2>2. g \in Battery /\ RamSectors[g] = BufferSectors /\ IoFaults = FALSE
    BY DEF Alone, Reliable
  <2>3. ~ (BufferSectors > BufferSectors) /\ ~ (BaseLba(s) + BufferSectors >= DiskSectors)
    BY <2>1, AloneNumbers DEF Alone
  <2> HIDE DEF s
  <2>4. result = "Success"
    BY <1>2, <2>1, <2>2, <2>3 DEF LoadResults
  <2> QED BY <1>1, <1>2, <2>4 DEF SavedImage, s
<1>5. CASE disk[0] # HeaderOf(g)
  <2>1. s = NoSlot
    BY <1>3, <1>5
  <2>2. ram' = ZeroRam
    BY <1>2, <2>1 DEF LoadResults
  <2>3. SavedImage(g) = ZeroRam
    BY <2>1 DEF SavedImage, ImageAt, ZeroRam
  <2> QED BY <1>1, <2>1, <2>2, <2>3
<1> QED BY <1>4, <1>5

\* A sector of its save: the header first, which makes the zeros behind it an
\* image, then the RAM.
LEMMA AloneSaves ==
  ASSUME NEW g, Alone(g), TypeOK, AloneInv(g), SaveSector
  PROVE  /\ rom = g /\ UNCHANGED <<rom, ram>> /\ next \in 0 .. BufferSectors
         /\ disk' = [disk EXCEPT ![next] = IF next = 0 THEN HeaderOf(g) ELSE ram[next - 1]]
         /\ slot' # NoSlot => slot' = 0 /\ next' = next + 1 /\ next' <= BufferSectors
<1>1. rom = g /\ slot = 0 /\ next \in 0 .. BufferSectors /\ UNCHANGED <<rom, ram>>
  BY DEF SaveSector, AloneInv
<1>2. SectorLba(slot, next) = next /\ next \in Nat /\ next < DiskSectors
  BY <1>1, AloneNumbers DEF Alone
<1>3. /\ disk' = [disk EXCEPT ![next] = IF next = 0 THEN HeaderOf(g) ELSE ram[next - 1]]
      /\ IF MoreToWrite THEN next' = next + 1 /\ UNCHANGED slot ELSE EndSave
  <2> DEFINE lba == SectorLba(slot, next)
             content == IF next = 0 THEN HeaderOf(rom) ELSE ram[next - 1]
  <2>1. IoFaults = FALSE
    BY DEF Alone, Reliable
  <2>2. \/ lba >= DiskSectors
        \/ /\ disk' = [disk EXCEPT ![lba] = content]
           /\ IF MoreToWrite THEN next' = next + 1 /\ UNCHANGED slot ELSE EndSave
    BY <2>1 DEF SaveSector
  <2>3. ~ (lba >= DiskSectors) /\ lba = next /\ rom = g
    BY <1>1, <1>2, AloneNumbers
  <2> HIDE DEF lba
  <2> QED BY <2>2, <2>3
<1>4. MoreToWrite => next + 1 <= BufferSectors
  BY <1>1, <1>2, AloneNumbers DEF MoreToWrite, Alone
<1> QED BY <1>1, <1>3, <1>4 DEF EndSave

\* The disk of a cartridge alone stays as AloneInv says.
LEMMA AloneKept ==
  ASSUME NEW g, Alone(g), TypeOK, AloneInv(g), [Next]_vars
  PROVE  AloneInv(g)'
<1>1. ASSUME NEW r \in Roms, PowerOn(r)
      PROVE  AloneInv(g)'
  <2>1. UNCHANGED <<disk, slot, next>> /\ rom = NoRom /\ ram' = SavedImage(g)
    BY <1>1, AloneStarts
  <2>2. slot = NoSlot
    BY <2>1, AloneNumbers DEF AloneInv
  <2>3. SavedImage(g) = [k \in RamIndex |-> disk[1 + k]]
    BY AloneImage
  <2>4. \A k \in RamIndex : 1 + k \in 1 .. DiskSectors - 1
    BY AloneNumbers DEF Alone
  <2> QED BY <2>1, <2>2, <2>3, <2>4 DEF AloneInv
<1>2. ASSUME NEW k \in RamIndex, NEW v \in Values, WriteRam(k, v)
      PROVE  AloneInv(g)'
  BY <1>2 DEF WriteRam, AloneInv
<1>3. CASE Frame
  <2>1. UNCHANGED <<disk, rom, ram>> /\ slot = NoSlot /\ rom = g
    BY <1>3 DEF Frame, Alone
  <2>2. BeginSave \/ slot' = slot
    BY <1>3 DEF Frame
  <2>3. CASE BeginSave
    <3>1. slot' = 0 /\ next' = 0
      BY <2>1, <2>3, AloneImage DEF BeginSave, BadSets, Alone, Reliable
    <3> QED BY <2>1, <3>1, AloneNumbers DEF AloneInv
  <2>4. CASE slot' = slot
    BY <2>1, <2>4 DEF AloneInv
  <2> QED BY <2>2, <2>3, <2>4
<1>4. CASE SaveSector
  <2>1. /\ rom = g /\ UNCHANGED <<rom, ram>> /\ next \in 0 .. BufferSectors
        /\ disk' = [disk EXCEPT ![next] = IF next = 0 THEN HeaderOf(g) ELSE ram[next - 1]]
        /\ slot' # NoSlot => slot' = 0 /\ next' = next + 1 /\ next' <= BufferSectors
    BY <1>4, AloneSaves
  <2>2. disk \in [0 .. DiskSectors - 1 -> Contents] /\ next \in 0 .. DiskSectors - 1 /\ 0 \in 0 .. DiskSectors - 1
    BY <2>1, AloneNumbers DEF AloneInv, Alone
  <2>3. slot # NoSlot /\ slot = 0 /\ (next > 0 => disk[0] = HeaderOf(g))
    BY <1>4 DEF SaveSector, AloneInv
  <2>4. disk'[0] = HeaderOf(g)
    BY <2>1, <2>2, <2>3
  <2>5. next > 0 => ram[next - 1] \in Values
    <3>1. next > 0 => next - 1 \in RamIndex
      BY <2>1, AloneNumbers
    <3> QED BY <3>1 DEF AloneInv
  <2>6. \A i \in 1 .. DiskSectors - 1 : disk'[i] \in Values
    BY <2>1, <2>2, <2>5 DEF AloneInv
  <2>7. disk' \in [0 .. DiskSectors - 1 -> Contents]
    <3>1. HeaderOf(g) \in Contents /\ Values \subseteq Contents
      BY DEF Contents, Headers, Alone
    <3> QED BY <2>1, <2>2, <2>5, <3>1
  <2>8. slot' # NoSlot => next' \in 0 .. BufferSectors
    BY <2>1, AloneNumbers
  <2> QED BY <2>1, <2>4, <2>6, <2>7, <2>8, AloneNumbers DEF AloneInv
<1>5. CASE PowerOff
  BY <1>5, AloneNumbers DEF PowerOff, AloneInv, ZeroRam
<1>6. CASE UNCHANGED vars
  BY <1>6 DEF vars, AloneInv
<1> QED BY <1>1, <1>2, <1>3, <1>4, <1>5, <1>6 DEF Next

\* AloneInv holds from the empty disk on.
LEMMA AloneAlways ==
  ASSUME NEW g, Alone(g)
  PROVE  Spec => [](TypeOK /\ AloneInv(g))
<1>1. Init => AloneInv(g)
  <2> SUFFICES ASSUME Init PROVE AloneInv(g)
    OBVIOUS
  <2>1. disk = [lba \in 0 .. DiskSectors - 1 |-> Zero] /\ ram = ZeroRam /\ slot = NoSlot
    BY DEF Init
  <2>2. Zero \in Contents /\ 0 \in 0 .. DiskSectors - 1
    BY AloneNumbers DEF Contents, Alone
  <2> QED BY <2>1, <2>2, AloneNumbers DEF AloneInv, ZeroRam
<1>2. TypeOK /\ AloneInv(g) /\ [Next]_vars => AloneInv(g)'
  BY AloneKept
<1> QED BY <1>1, <1>2, TypeCorrect, PTL DEF Spec

\* RestoresExistingSave, for a 32KB cartridge alone on the disk: every start
\* that finds a save loads it.
THEOREM Restored ==
  ASSUME NEW g, Alone(g)
  PROVE  Spec => RestoresExistingSave
<1>1. ASSUME AloneInv(g), [Next]_vars, NEW r \in Battery, rom = NoRom, rom' = r, find_save_slot(r, {}) # NoSlot
      PROVE  load_result' = "Success"
  <2>1. r = g /\ rom' # rom
    BY <1>1, AloneNumbers DEF Alone
  <2>2. PICK q \in Roms : PowerOn(q)
    BY <1>1, <2>1 DEF Next, WriteRam, Frame, SaveSector, PowerOff, vars
  <2> QED BY <1>1, <2>1, <2>2, AloneStarts
<1>2. AloneInv(g) /\ [Next]_vars =>
        [\A r \in Battery :
           rom = NoRom /\ rom' = r /\ find_save_slot(r, {}) # NoSlot
           => load_result' = "Success"]_vars
  BY <1>1
<1> QED BY <1>2, AloneAlways, PTL DEF Spec, RestoresExistingSave

\* Such a cartridge's saves are the store that the module promises: one image
\* that survives a power cut, and moves to the RAM one sector at a time.
THEOREM Stored ==
  ASSUME NEW g, Alone(g)
  PROVE  Spec => ImplementsStore
<1> DEFINE image == [r \in Roms |-> SavedImage(r)]
<1>1. Init => Store!Init
  <2> SUFFICES ASSUME Init PROVE Store!Init
    OBVIOUS
  <2>1. SlotsOf(g, {}) = {}
    <3>1. ASSUME NEW s \in Slots, Readable(s, {})
          PROVE  ~ is_valid(HeaderAt(s))
      <4>1. BaseLba(s) \in 0 .. DiskSectors - 1
        BY <3>1, Numbers, AloneNumbers DEF Readable
      <4>2. HeaderAt(s) = Zero
        BY <4>1 DEF Init, HeaderAt
      <4> QED BY <4>2, AloneNumbers
    <3> QED BY <3>1 DEF SlotsOf
  <2>2. SavedImage(g) = ZeroRam
    BY <2>1 DEF SavedImage, ImageAt, find_save_slot, ZeroRam
  <2> QED BY <2>2 DEF Init, Store!Init, Store!ZeroRam, ZeroRam, Alone
<1> DEFINE Imaged == SavedImage(g) = [k \in RamIndex |-> disk[1 + k]]
<1>3. AloneInv(g) => Imaged
  BY AloneImage
<1>2. ASSUME TypeOK, AloneInv(g), Imaged, Imaged', [Next]_vars
      PROVE  [Store!Next]_(Store!vars)
  <2>1. image = [r \in {g} |-> [k \in RamIndex |-> disk[1 + k]]]
    BY <1>2 DEF Alone
  <2>2. image' = [r \in {g} |-> [k \in RamIndex |-> disk'[1 + k]]]
    BY <1>2 DEF Alone
  <2>3. UNCHANGED disk => UNCHANGED image
    BY <2>1, <2>2
  <2>4. ASSUME NEW r \in Roms, PowerOn(r)
        PROVE  Store!PowerOn(r)
    <3>1. r = g /\ rom = NoRom /\ rom' = g /\ UNCHANGED disk /\ ram' = SavedImage(g)
      BY <1>2, <2>4, AloneStarts
    <3>2. UNCHANGED image
      BY <2>3, <3>1
    <3> QED BY <3>1, <3>2 DEF Store!PowerOn
  <2>5. ASSUME NEW k \in RamIndex, NEW v \in Values, WriteRam(k, v)
        PROVE  Store!WriteRam(k, v)
    BY <2>3, <2>5 DEF WriteRam, Store!WriteRam
  <2>6. CASE Frame
    BY <2>3, <2>6 DEF Frame, Store!vars
  <2>7. CASE SaveSector
    <3>1. /\ rom = g /\ UNCHANGED <<rom, ram>> /\ next \in 0 .. BufferSectors
          /\ disk' = [disk EXCEPT ![next] = IF next = 0 THEN HeaderOf(g) ELSE ram[next - 1]]
      BY <1>2, <2>7, AloneSaves
    <3>2. disk \in [0 .. DiskSectors - 1 -> Contents] /\ \A k \in RamIndex : 1 + k \in 0 .. DiskSectors - 1 /\ k \in Nat
      BY <1>2, AloneNumbers DEF AloneInv, Alone
    <3>3. CASE next = 0
      <4>1. \A k \in RamIndex : disk'[1 + k] = disk[1 + k]
        BY <3>1, <3>2, <3>3
      <4>2. UNCHANGED image
        BY <2>1, <2>2, <4>1
      <4> QED BY <3>1, <4>2 DEF Store!vars
    <3>4. CASE next > 0
      <4>1. next - 1 \in RamIndex
        BY <3>1, <3>4, AloneNumbers
      <4>2. \A k \in RamIndex : disk'[1 + k] = IF k = next - 1 THEN ram[next - 1] ELSE disk[1 + k]
        BY <3>1, <3>2, <3>4, <4>1
      <4>3. image' = [image EXCEPT ![rom][next - 1] = ram[next - 1]]
        <5> DEFINE before == [k \in RamIndex |-> disk[1 + k]]
                   after  == [k \in RamIndex |-> disk'[1 + k]]
        <5>1. after = [before EXCEPT ![next - 1] = ram[next - 1]]
          BY <4>1, <4>2
        <5>2. image = [r \in {g} |-> before] /\ image' = [r \in {g} |-> after]
          BY <2>1, <2>2
        <5> HIDE DEF before, after, image
        <5> QED BY <3>1, <5>1, <5>2
      <4>4. Store!Persist(next - 1)
        BY <3>1, <4>3, AloneNumbers DEF Store!Persist
      <4> QED BY <4>1, <4>4 DEF Store!Next
    <3> QED BY <3>1, <3>3, <3>4, AloneNumbers
  <2>8. CASE PowerOff
    BY <2>3, <2>8 DEF PowerOff, Store!PowerOff, Store!ZeroRam, ZeroRam, Store!Next
  <2>9. CASE UNCHANGED vars
    BY <2>3, <2>9 DEF vars, Store!vars
  <2> QED BY <1>2, <2>4, <2>5, <2>6, <2>7, <2>8, <2>9 DEF Next, Store!Next
<1> HIDE DEF Imaged
<1> QED BY <1>1, <1>2, <1>3, AloneAlways, PTL DEF Spec, ImplementsStore, Store!Spec
=============================================================================
