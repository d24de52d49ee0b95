------------------------------- MODULE AtaDrive -------------------------------
(***************************************************************************)
(* The ATA driver (storage/ata.rs) and the drive it polls.  The drive is   *)
(* external: what is attached to each slot is a record of how it answers   *)
(* the probe, and a disk takes a command some time after it was written.   *)
(* Until then its status still shows the command before.                   *)
(*                                                                         *)
(* Every caller reads one sector at a time.  A sector that is handed over  *)
(* is named by its number: io.data # io.lba is a wrong sector.             *)
(***************************************************************************)
EXTENDS Naturals, FiniteSets

CONSTANTS DiskSectors,     \* size of a disk
          NoSector

ASSUME DriveAssumption == DiskSectors \in Nat \ {0} /\ NoSector \notin Nat

Slots == 0..3                     \* MAX_DEVICES: two channels of two drives
Master(i) == i - (i % 2)

VARIABLES
  attached,  \* what is attached to each slot
  slot,      \* the slot that init comes to next
  devices,   \* ATA_DEVICES
  drive,     \* the status bits of the disk, the command written to it, the sector it works on
  unreadable, \* sectors of the disk that it cannot read
  io,        \* the call of read_sectors: its stage, the sector asked for, the sector handed over
  failed,    \* history: some read has failed
  wrong      \* history: some sector handed over was not the one asked for

ataVars == <<attached, slot, devices, drive, unreadable, io, failed, wrong>>

Types    == {"None", "Unknown", "Ata", "Atapi"}
NoDevice == [type |-> "None", sectors |-> 0, wide |-> FALSE]
Status(bsy, drq, err, command, job) ==
  [bsy |-> bsy, drq |-> drq, err |-> err, command |-> command, job |-> job]
IdleDrive == Status(FALSE, FALSE, FALSE, NoSector, NoSector)
Call(stage, lba, data) == [stage |-> stage, lba |-> lba, data |-> data]
IdleIo    == Call("idle", 0, NoSector)

\* What is attached and what cannot be read is for the machine to say.
AtaInit ==
  /\ slot = 0
  /\ devices = [i \in Slots |-> NoDevice]
  /\ drive = IdleDrive
  /\ io = IdleIo
  /\ failed = FALSE
  /\ wrong = FALSE
-----------------------------------------------------------------------------
(***************************************************************************)
(* Detection.  status is what an answer shows after selection ("floating", *)
(* "zero", "busy" or "ready"), sig the signature in the LBA registers, and *)
(* identify, steady and packet what becomes of IDENTIFY, of a second       *)
(* IDENTIFY, and of IDENTIFY PACKET; wide is the size of a sector.         *)
(***************************************************************************)
DriveAnswers == [status : {"floating", "zero", "busy", "ready"}, sig : {"none", "atapi", "sata", "half"},
                 identify : BOOLEAN, steady : BOOLEAN, packet : BOOLEAN, wide : BOOLEAN]
try_identify_ata(k)   == k.identify
try_identify_atapi(k) == k.packet

\* A reset of the channel shows a packet drive's signature.
reset_channel(k) == IF k.packet THEN [k EXCEPT !.sig = "atapi"] ELSE k

\* A channel that floats is skipped; one that shows nothing or is busy is reset.
Floating(i)   == attached[Master(i)].status = "floating"
NeedsReset(i) == attached[Master(i)].status \in {"zero", "busy"}
Seen(i)       == IF NeedsReset(i) THEN reset_channel(attached[i]) ELSE attached[i]

TypeSeen(k) ==
  CASE k.status # "ready" -> "None"
    [] k.status = "ready" /\ k.sig = "atapi" -> "Atapi"
    [] k.status = "ready" /\ k.sig = "sata"  -> "Ata"
    [] OTHER -> CASE try_identify_ata(k) -> "Ata"
                  [] ~try_identify_ata(k) /\ (k.sig = "half" \/ try_identify_atapi(k)) -> "Atapi"
                  [] OTHER -> "Unknown"

\* A device that does not identify itself is kept, with no sectors.  wide says that
\* a sector has more than 512 bytes, which is more than a caller's buffer.
identify_device(k) ==
  [type |-> TypeSeen(k), wide |-> k.wide,
   sectors |-> IF TypeSeen(k) = "Ata" /\ k.identify /\ k.steady THEN DiskSectors ELSE 0]

Probe ==
  /\ slot \in Slots
  /\ devices' = [devices EXCEPT ![slot] =
                   IF Floating(slot) \/ TypeSeen(Seen(slot)) = "None" THEN NoDevice
                   ELSE identify_device(Seen(slot))]
  /\ slot' = slot + 1
  /\ UNCHANGED <<attached, drive, unreadable, io, failed, wrong>>

Probed == slot \notin Slots
\* init counts the devices it stored; get_device and find_ata_disk.
Found  == {i \in Slots : devices[i].type # "None"}
Disks  == {i \in Slots : devices[i].type = "Ata"}
FirstDisk == CHOOSE i \in Disks : \A j \in Disks : i <= j
-----------------------------------------------------------------------------
(***************************************************************************)
(* read_sectors, one sector at a time: select the drive, wait until it is  *)
(* ready, write the command, wait for data, read it.  A poll that comes to *)
(* its end fails the call.                                                 *)
(***************************************************************************)
\* The call as read_sectors begins: only a sector of a disk is asked for.
Asked(i, lba) ==
  Call(IF devices[i].type = "Ata" /\ lba < devices[i].sectors /\ ~devices[i].wide
       THEN "select" ELSE "err", lba, NoSector)

Fail == io' = Call("err", io.lba, io.data) /\ failed' = TRUE

Select ==
  /\ io.stage = "select"
  /\ ~drive.bsy
  /\ io' = Call("ready", io.lba, io.data)
  /\ UNCHANGED <<drive, failed, wrong>>

Command ==
  /\ io.stage = "ready"
  /\ ~drive.bsy
  /\ io' = Call("data", io.lba, io.data)
  /\ drive' = Status(drive.bsy, drive.drq, drive.err, io.lba, drive.job)
  /\ UNCHANGED <<failed, wrong>>

\* wait_drq looks at ERR first, and at the status as it is: no delay follows the command.
Refused == drive.err
\* Mutant: a drive that is not busy is taken to offer data.
OfferedIdle == ~drive.err /\ ~drive.bsy

Offered == ~drive.err /\ drive.drq

DataError ==
  /\ io.stage = "data"
  /\ Refused
  /\ Fail
  /\ UNCHANGED <<drive, wrong>>

Data ==
  /\ io.stage = "data"
  /\ Offered
  /\ io' = Call("ok", io.lba, drive.job)
  /\ wrong' = (wrong \/ drive.job # io.lba)
  /\ drive' = Status(drive.bsy, FALSE, drive.err, drive.command, NoSector)
  /\ UNCHANGED failed

\* wait_not_busy, wait_ready and wait_drq count their polls, and give up in the end.
Waiting == \/ io.stage \in {"select", "ready"} /\ drive.bsy
           \/ io.stage = "data" /\ ~Refused /\ ~Offered
\* Mutant: the wait for data goes on as long as the drive is busy.
PatientWithData == Waiting /\ (io.stage = "data" => ~drive.bsy)

GivesUp == Waiting

Timeout ==
  /\ GivesUp
  /\ Fail
  /\ UNCHANGED <<drive, wrong>>

Poll == /\ Select \/ Command \/ DataError \/ Data \/ Timeout
        /\ UNCHANGED <<attached, slot, devices, unreadable>>
-----------------------------------------------------------------------------
\* The disk takes the command; later it has the sector or an error.
Accept ==
  /\ drive.command # NoSector
  /\ drive' = Status(TRUE, FALSE, FALSE, NoSector, drive.command)
Finish ==
  /\ drive.bsy
  /\ drive' = IF drive.job \in unreadable
              THEN Status(FALSE, drive.drq, TRUE, drive.command, NoSector)
              ELSE Status(FALSE, TRUE, drive.err, drive.command, drive.job)
Drive == (Accept \/ Finish) /\ UNCHANGED <<attached, slot, devices, unreadable, io, failed, wrong>>
-----------------------------------------------------------------------------
AtaTypeOK ==
  /\ slot \in 0..4
  /\ devices \in [Slots -> [type : Types, sectors : {0, DiskSectors}, wide : BOOLEAN]]
  /\ drive.command # NoSector => drive.command \in 0..DiskSectors - 1
  /\ drive.job # NoSector => drive.job \in 0..DiskSectors - 1
  /\ drive.bsy => drive.job # NoSector /\ ~drive.drq /\ ~drive.err
  /\ io.stage \in {"idle", "select", "ready", "data", "ok", "err"}
  /\ failed \in BOOLEAN /\ wrong \in BOOLEAN

(***************************************************************************)
(* As long as no read has failed, the sector handed over is the one asked  *)
(* for (read_sectors, wait_drq).  After a failure it need not be: the next *)
(* command may be met by the error or the data of the one before, since    *)
(* the driver looks at the status without the delay that the drive needs.  *)
(***************************************************************************)
SectorsExact == io.stage = "ok" /\ ~failed => io.data = io.lba
=============================================================================
