# A verification development for gb-os

gb-os boots a PC straight into a Game Boy emulator: a small x86 kernel finds
ROMs on a FAT32 disk, lets the user pick one, emulates it, and writes battery
RAM back to raw disk sectors. This directory holds TLA+ models of parts of that
kernel, TLC configurations that check them on small instances, and TLAPS proofs.

All paths below are relative to the repository (`src/`), mostly under
`kernel/src/`.

## 1. Inventory

Column "hard" names what makes a component difficult to test; "correct when"
is what its properties should say. Status: **M** modelled, **P** partly,
**–** not modelled (yet; see section 7).

| Component | State | Operations | Hard | Correct when | |
|---|---|---|---|---|---|
| Battery saves `storage/savefile.rs` | 16 slots of 64 sectors on disk; `SaveTracker` (pending, debounce counter); the MBC's `ram_updated` flag | `tick`/`update` each frame, `save_sram`→`save_game`, `load_sram`→`load_game`, slot searches | power cut between sectors, failing drive, slots running out, debounce | what a game saved comes back; a save touches its own slot only; one slot per game; a noticed write is saved | P |
| Keyboard driver `drivers/keyboard.rs` | ring of 64 events, `read_idx`, `write_idx`, `extended` | interrupt: `process_scancode`; main loop: `get_key` | reader and interrupt share a `static mut` with no lock; full ring; multi-byte codes | a FIFO queue that loses events only when full | P |
| Input path `rom_browser.rs`, `main.rs`, `gameboy/input.rs` | which loop reads the keyboard | browser loop, drain loop, `map_keycode` | two readers in turn, long stretches with none | the joypad ends up showing the keys held; the cursor is on a row that is drawn | M |
| Game Boy keypad `gameboy/keypad.rs` | `row0`, `row1`, `data`, `interrupt` | `keydown`, `keyup`, `wb`, `update`; `do_cycle` moves the interrupt to `intf` | press and release within a frame | no stale line, no lost wake-up | M |
| IDT and PIC `arch/x86/idt.rs`, `pic.rs` | masks, in-service bits | stubs, `interrupt_handler`, `send_eoi` | priorities, missing or misdirected EOI | handlers end their own line; frames and keys go on | P |
| PIT and frame pacing `arch/x86/pit.rs`, `main.rs` | tick counter mod 2^32 | tick interrupt, `delay_ms`, pacing loop | wrap-around, a frame that overruns | pacing is exact across a wrap | P |
| Physical and heap memory `mm/` | page frames, intrusive free list, bump pointer | `init`, `alloc_page`, `free_page`, heap `alloc` | memory maps out of order or unaligned, double free, links that do not tell membership | a page is free and listed once, or held by one caller; blocks are apart | M |
| ATA `storage/ata.rs` | task-file protocol, devices found | `init`, `read_sectors`, `write_sectors` | a status that is not yet the new command's, polls with bounds, odd drives | a read that succeeds gave the sector asked for | P (writes as their outcomes) |
| FAT32 and ROM list `storage/fat32.rs`, `storage/mod.rs` | mounted volume | `mount`, `count_roms`, `get_rom_name`, `find_rom`, `read_file` | cyclic or truncated chains, unreadable sectors, three walks that must agree | the ROM that runs is the one under the cursor | M |
| PCI `storage/pci.rs`; `drivers/ide_piix4m.rs` is not compiled | list of devices | `enumerate`, searches | a full list | the list is without repetitions | M; – |
| Game Boy CPU `gameboy/cpu.rs`, `register.rs`, `device.rs` | registers, IME and its delays, halted | instructions, interrupts | EI and DI delays against interrupts, HALT and its bug, decimal arithmetic | a handler returns where it struck; masked means masked; a HALT ends | M |
| Game Boy timer, serial | counters | `do_cycle` | several edges per step | an edge is never counted twice | M |
| PPU and DMA `gameboy/gpu.rs`, `mmu.rs` | mode, line, HDMA registers, memory map | `do_cycle`, `rb`, `wb`, `peek`, DMA | long steps, the screen switched off and on, two tables of one map | frames are whole; one row per HBlank; `peek` is `rb` | P (no pixels) |
| Cartridges `gameboy/mbc/` | bank registers, RAM, `ram_updated` | `readrom`, `writerom`, `readram`, `writeram`, `loadram`, `dumpram` | one number that holds several registers | the bank is the one in the registers | M |
| Touchpad, mouse `drivers/synaptics.rs`, `mouse.rs` | bytes of a packet, mode, cursor | `init`, byte handlers | lost bytes, late answers, a byte that looks like another | one lost byte costs a bounded number of packets | P |
| Event chains, driver init `event_chains/`, `drivers/init.rs` | events, middleware, context, result | `execute`, six drivers | retries, three failure modes, fallbacks through the context | reports are what happened; one screen, one pointing device | M |
| Overlay `overlay/`, `gui/layout.rs` | address tables, cache, panels | `RamReader`, `render_full`, `compare_and_update` | byte order, six tables, panels over panels, a cache that misses a change | panels show what the game has; what they show otherwise than before is called dirty | P |
| Graphics, GUI, display adapters `graphics/`, `gui/`, `drivers/vga.rs`, `ati_rage.rs`, `armada_e500_hw.rs` | pixels, registers | drawing | none | – | – |
| Scheduler, system calls `sched/`, `syscall/` (not compiled into the kernel) | run queues, current task | `schedule`, `timer_tick`, `handle_syscall` | queue membership against task state | a ready task waits once, in its queue | P |
| exFAT, VFS `fs/` (not compiled) | – | – | – | – | – |
| Boot information `boot_info.rs` | the E820 map | `iter`, `entry_type` | – | – | P (with memory) |
| Stack guard `defensive.rs`; boot loader `boot/`; tools `tools/`, `build.sh` | – | – | – | – | – |

**How the parts meet.** Hardware interrupts enter through `idt.rs`; the
keyboard handler reads one byte and calls `process_scancode`. The main loop
calls `get_key` first from the ROM browser and later from the emulator's drain
loop, which maps keys to joypad buttons. A frame of emulation is a fixed number
of calls of `do_cycle`; after each frame the main loop calls
`savefile::update`, draws, drains the keyboard and waits for the PIT. A save
blocks this loop while it writes up to 65 sectors through the ATA driver. The
only true concurrency is between interrupt handlers and the main loop; the only
persistent state is the disk; the only failures are the drive's and the power's.

## 2. Modules

| Module | Models |
|---|---|
| `SaveFile` | battery saves: slots on disk, `SaveTracker`, `save_game`, `load_game`, drive faults and power cuts |
| `SramStore` | the abstract promise: one durable RAM image per cartridge |
| `SaveFileProofs` | TLAPS proofs about `SaveFile` |
| `MCSaveFile` | cartridges and sizes for TLC |
| `Scancodes` | scancode bytes and the key events they stand for |
| `Keyboard` | the ring buffer, interrupt handler against `get_key` |
| `KeyFifo` | the abstract promise: a bounded queue with one reader |
| `KeyboardProofs` | TLAPS proofs about `Keyboard` |
| `Input` | user, keyboard, browser, drain loop, keypad, joypad interrupt; `KeyFifo` stands for the ring |
| `InputProofs` | TLAPS proofs about `Input` |
| `MCInput` | two keys for TLC |
| `Interrupts` | the two 8259s, stubs, handlers, tick counter, the sleeping pacing loop |
| `InterruptsProofs` | TLAPS proofs about `Interrupts` |
| `GbBits` | bytes, words, sets of bits, sparse memories |
| `GbAlu` | register file, flags and the arithmetic of the CPU |
| `GbTimer`, `GbGpu`, `GbMbc` | timer and serial port; picture unit; the five bank controllers |
| `GbMmu` | the memory map, DMA, the cycle of the components; composes the three |
| `GbCpu` | interrupts, HALT and the instruction set on top of `GbMmu` |
| `GameBoy`, `MCGameBoy` | the machine as a state machine with its properties; families of programs |
| `GameBoyProofs` | TLAPS proofs about `GameBoy` and the `Gb` modules |
| `Pci`, `AtaDrive`, `Fat32` | enumeration; the ATA driver and its drive; the walks over a FAT32 disk |
| `BootLoad`, `MCBootLoad` | from power-on to a game, composing the three with the browser; machines and disks |
| `BootLoadProofs` | TLAPS proofs about `BootLoad` and the three modules under it |
| `IntrusiveList` | operations of the linked lists, used by the next three |
| `ListUse`, `PhysMem`, `Sched` | a caller of a list; pages and heap; the scheduler |
| `Chains` | event chains, the drivers' chain, system calls |
| `Pointing` | touchpad, mouse and their interrupt |
| `RamLayout`, `Overlay` | where six games keep their data; panels and dirty tracker |
| `Services`, `MCServices` | the six parts above in one specification; instances |
| `ServicesProofs` | TLAPS proofs about the six parts |
| `DataProofs` | lemmas that the proofs share: induction over numbers, functions defined step by step, sequences, alone and one behind the other, the operations of `IntrusiveList` |

### SaveFile

`disk` is the save area by sector (from `SAVE_AREA_START`), `rom` and `ram` the
running cartridge and its RAM, `ram_updated` the flag `writeram` sets and
`check_and_reset_ram_updated` takes, `pending_save` and `frames_since_write` the
tracker. A save in progress is `slot` (the slot `save_game` chose) and `next`
(the sector it writes next: 0 is the header, `k + 1` is RAM sector `k`).

| Action | Code |
|---|---|
| `PowerOn(r)` | device creation and `load_sram` at the start of `run_gameboy_emulator_with_rom`; the result is kept in `load_result` only for properties, as the code ignores it |
| `WriteRam(k, v)` | a game's store through the MBC |
| `Frame` | `savefile::update` → `SaveTracker::tick`; when the debounce ends, `save_sram` up to the choice of the slot |
| `SaveSector` | one `write_sectors` call of `save_game`, with its failure paths |
| `PowerOff` | the power switch, between any two steps |

Abstractions. RAM is counted in sectors (every battery RAM size is a
multiple of 512 bytes). A sector holds data from a small set or
a header; a header is its title hash and size, the fields later reads look at,
and game data is assumed never to carry a header's magic (`DataAssumption`). The emulator blocks
during a save, so no `WriteRam` happens then. Faults of the drive
(`IoFaults`): a header read may fail on any slot in any search, a data read may
fail, and a write may be reported done or failed whether or not it happened,
since `write_sectors` does not look at the error bit after the data is out.
`load_game` reads the data before `load_sram` compares sizes, so
`LoadResults` lists both outcomes in that order.

### Keyboard, Scancodes, KeyFifo

`process_scancode` is one action, because interrupts do not nest here; `get_key`
is two, because the main loop runs with interrupts enabled. `KEYBOARD` is a
plain `static mut`, so which of its two writes (slot emptied, index advanced)
comes first is the compiler's choice: both orders are actions
(`TakeSlot`/`ThenAdvance`, `AdvanceFirst`/`ThenTakeSlot`).
The modifier flags, lock LEDs and ASCII conversion have no reader and are left
out. `KeyFifo` says what a reader may rely on; `Keyboard!ImplementsFifo` is the
refinement.

### Input

`held` and `wire` are the user's fingers and the keyboard's own output buffer
(external). `mode` says where the main loop is: in the browser, loading a ROM,
halted after a failed load, emulating a frame, draining the keyboard. `row_down` stands for the zero
bits of `row0` and `row1`, `lines` and `select` for the zero bits of `data`,
`interrupt` for `Keypad::interrupt`, `intf` for the joypad bit the MMU sets in
`do_cycle`. Two history variables qualify the properties: `dropped` (keys whose
latest event the full ring discarded) and `eaten` (keys whose latest event was
a press the browser consumed). The ring is replaced by `KeyFifo`, which
`Keyboard` is shown to implement; that keeps the state space small enough for
liveness. The browser's cursor is in `BootLoad`.

### Interrupts

`irr` and `isr` are the request and in-service bits of both controllers,
`handling` the line whose handler runs (gates are interrupt gates, so there is
at most one), `ticks` and `last_frame_ticks` the 32-bit counters, `pc` the main
loop: in a frame, at the pacing test, about to execute `HLT`, asleep. Handlers
are one action each, since they run with interrupts off; devices raise lines at
any time. The controllers themselves (fully nested mode, non-specific EOI) are
external and modelled from the 8259's rules as `pic.rs` relies on them. `Pushed`
is the vector a stub pushes, `send_eoi` is applied to that vector as in the code.
`elapsed` is history: the ticks since `last_frame_ticks`, not wrapped. The output
buffer of the keyboard controller is assumed empty when `pic::init` resets the
controllers, so that no edge is lost with the reset.

### GameBoy and the Gb modules

A step of `GameBoy` is one `Device::do_cycle`: `Dispatch`, `Sleep` or `Execute`,
each followed by `Clocked`, which is `MMU::do_cycle` with timer, picture unit,
serial port and DMA. `Key` is `keydown` between cycles and `check_and_reset` the
two `check_and_reset_*` of the main loop. The components are operators on
records, one field per field of the Rust struct; a register that the code only
masks and tests is a set of bit numbers, and memory is a function defined where
something other than 0 is stored. All 501 opcodes are modelled, grouped by the
regular fields of the encoding (`GbCpu`), with the cycles the code returns.
Colours of pixels are left out; drawing a line is an event, and `drawn` counts it.
History fields in the records (`last`, `frame`, `rows`, `regs`, `decimal`) keep
what the properties compare with.

### BootLoad, AtaDrive, Fat32, Pci

`phase` is where `kernel_main` is. `AtaDrive` has the driver's poll loops, one
poll an action, and an external drive that accepts a command some time after it
was written, answers late, wrongly or never; the status it shows meanwhile is
that of the command before. A walk over the disk (`walk`) is the state of one of
the loops of `fat32.rs`: the directory for counting, naming or finding, and the
FAT for a file. `BootLoad` joins them as `load_rom` and `rom_browser.rs` do.
Sectors are named by number and directory entries by kind, so that a wrong
sector shows. Every caller reads one sector at a time, so does the model.

`Directory(d)` and `File(d, e)` say what a root directory and a file's chain hold,
independently of the code's three walks, for the properties to compare these
with. `MachinesAssumption` says what a machine is: drives in four slots, PCI
functions at their places, numbers in boot sector and FAT (`DiskTyped`), and
fields of the disk that record its list of ROMs and their sectors truly
(`DiskSound`); TLC evaluates it for the ten disks. A disk is `regular` when its
directory comes to an end and no chain comes to a cluster whose sectors have no number
in a u32. On another one `LoadedIsShown` and the names in `SelectedVisible` are not
claimed: a directory in a circle gives no list to compare with, and where
`cluster_to_sector` (`fat32.rs:113`) wraps around, as it does for the mark of a bad cluster
from 16 sectors in a cluster on, other sectors of the disk are loaded behind the
right ones, and run. The disk `Wraps` of the instance is of that kind; `Directory` and `File`
count without bound. `SectorNumbers` is how many numbers a u32 has.

### Services

`part` picks one of six components that share no state; the others stay as
they are, so the states of the run are the sum of the parts. The composition
only saves configurations.

- `IntrusiveList` returns a list and the links of its elements from both; who
  keeps the contract (an element is in one list at most) is the caller's
  business. `ListUse` is a caller that does; `PhysMem` and `Sched` are real ones.
- `PhysMem`: `mm::init` folds the E820 map into frames and free list; pages are
  freed by their holders at any address in them, also twice. The heap is an allocator
  of its own over addresses that may be those of free pages. Sizes and the addresses of
  kernel and heap are constants; maps out of order, unaligned, beyond the tracked
  frames or without memory are in the instance, overlapping entries are not
  (see section 4).
- `Sched`: `run_queues`, `current` and the idle task; `Stop` and `Wake` are external,
  as the code never blocks a task itself.
- `Chains`: chains of both kinds, an `EventChain` within its capacities and a
  `StaticChain` of any length without middleware; one step per middleware entered, event
  run, middleware left, result settled. What hardware answers is chosen when a driver's event
  runs. `BuiltAssumption` says what callers build: any chain of events of their own, the
  six drivers in their order, and a chain of one system call as `handle_syscall` makes it.
- `Pointing`: `wire` holds the rest of a packet. `step` is how far `init` came, by
  groups of commands; a write may time out. Histories: `clean` (the buffer is the
  start of the packet under way) and `count` (among others packets torn, and packets
  that arrived whole and were not read).
- `Overlay`: the game is external, keeping its data by the tables of `RamLayout`.
  `shown` is what `render_full` leaves on the panels, a line being its label and
  numbers; a line under a panel cleared later is lost. The tracker stands beside it as
  its interface asks to be used, one `compare_and_update` a frame: `missed` is what a
  frame draws otherwise than the one before without its being called dirty. Its
  rectangles are for an older layout and are left out. `OverlayAssumption` says
  what a field may hold (`Fields`): any byte or word; a name of at most ten characters
  before its terminator, money of six digits, a battle that is none, a wild one or a
  trainer's. With other values the panels would show something else than the game has.

## 3. Runs

| Run | Instance | Question and answer |
|---|---|---|
| `save_single` | one 32KB cartridge, power cuts anywhere, three data values | `RestoresExistingSave`, `ImplementsStore`: what was saved is restored, and the slots implement one durable image per cartridge |
| `save_small` | three cartridges of 1, 2, 1 sectors on two slots, power cuts anywhere | `QuietMeansDurable`: once the tracker is idle the disk holds the RAM exactly, after evictions and half-finished saves; `OneSlotPerRom`: no game ever owns two slots; `OtherImagesKept`: a save changes another game's image only by taking slot 0 when all are in use |
| `save_faults` | a failing drive that ends inside the save area; a cartridge without battery | saves stay in their slots; `PendingResolves`: a pending save is written or has failed, unless the game writes again |
| `save_overlap` | two 32KB cartridges | **violated**: `SaveConfinedToSlot` (finding 1) |
| `save_restore` | one 8KB cartridge | **violated**: `RestoresExistingSave` (finding 2) |
| `key_ring` | ring of 4, two codes, both prefixes | `SlotsAccounted`: a slot is occupied exactly when its event is waiting, at every interleaving; `ImplementsFifo` |
| `input_keys` | keys Up (extended code) and Enter (selects a ROM, and is Start); ring of 2 events, two bytes on the wire | `JoypadFollowsKeys`: with nothing in flight the joypad shows what the user holds, dropped events and presses eaten by the browser excepted; `NoStuckButton`: a button no key holds comes up; `TapWakesGame`: a tap shorter than a frame still raises the joypad interrupt |
| `irq_pacing` | timer, keyboard, mouse, lines 6 and 14 with the default stub; counters that wrap at 8, frames of 2 ticks | `OwnLineEnded`: the three real handlers end their own interrupt; `PacingExact`: a frame starts exactly when its time has come; `FramesGoOn`, `KeyboardServed`: lines stuck in service never silence the timer or the keyboard |
| `irq_default` | timer, keyboard, line 6 | **violated**: `NothingLeftInService` (finding 3) |
| `game_boy` | all programs of three instructions from a family for interrupts, all sequences of three writes to the bank registers of four controllers with two ROM sizes, 288 decimal computations, DMA against writes to the screen's registers; frames of 4 lines, DIV of 6 bits | `MaskHolds`, `ReturnsWhereInterrupted`, `HaltEnds`: interrupts and HALT with their delays; `TimerKeepsPace`; `NoTornFrame`: each frame that ends has its lines drawn once, or none of them; `OneRowPerHBlank`; `BankedByRegisters`; `DaaCorrects`; `PeekIsRead`: the overlay's read is the game's at one address of each memory and at all registers with a case of their own |
| `boot_load` | drives of eleven kinds in two slots, all buses of up to four functions, ten disks (with and without a partition, files longer than the buffer, bad, wrapping and cyclic chains), unreadable sectors | `SectorsExact`: a read that succeeds handed over the sector asked for, unless the drive had not yet taken the command; `LoadedIsShown`, `SelectedVisible`; `BootSettles`: every boot comes to a list, a game or a halt |
| `services` | lists of four elements; four maps over eight page frames; four tasks of three priorities; 16 chains; three packets with two bytes lost and one answer late; games of all four tables and one that is not supported, each with one field at a time away from its start | `HandedOutOnce`: no page or block is handed out twice; `QueuesExact`; `ChainsDeliver`: reports are what happened, as far as a result has room; `OneTornPacket`: what a lost byte costs; `OverlayFollowsGame`: the panels show the data, and what they show otherwise than before is dirty |

Every property of a passing run has a mutant: an operator of the model altered
the way a plausible bug would alter the code, under which TLC finds the property
violated (`PROJECT.json`, "mutants").

**Bounds.** The code's sizes are scaled with their ratios kept: a slot, the
restore buffer and the header's size limit are the same number of sectors; a
32KB cartridge fills a slot, smaller ones leave room for the header. Two slots
and three cartridges suffice for eviction, and for a game that returns after its
slot was taken. `SAVE_DEBOUNCE_FRAMES = 2` separates "settled" from "seen";
larger values only repeat the counting step. A ring of 4 wraps, fills and
empties with the reader at every point of `get_key`. In `input_keys` two waiting
events and two bytes on the wire make the ring overflow and let a prefix be
separated from its code. `MaxWire` bounds the bytes in flight and nothing else.
In `irq_pacing` a counter of 8 values wraps every four frames; `MaxLag` (how far
the main loop may fall behind, bounding `Raise(TIMER)` while it is busy) is the
largest value `InterruptsAssumption` allows, the point up to which the code's
comparison with half the range is right: 2^31 ms in the code.
In `game_boy` a frame has two visible lines and two of VBlank, which is enough
for every transition of the mode machine, and is longer than any step, as in the code; `DivSize` of 64 covers the bits that TAC
5 and 6 watch and wraps often. Programs are loops, so runs do not end; three
instructions put an EI, a DI and a HALT in every order. In `boot_load` a buffer of
five sectors is shorter than one file and longer than others, two rows scroll over
three ROMs. Disks have 2100000 sectors, so that the place where a bad cluster's own entry
would be is on the disk, and 2^29 sector numbers stand for 2^32, so that the mark of a bad
cluster wraps around with two sectors in a cluster (`Wraps`) instead of 16.
In `services` `MaxPackets`, `MaxLost` and `MaxStray` bound the device, and
`MaxChanged` how many fields differ from a new game's at once: elements of the
panels depend on one field each, or on fields that change together. `MaxEvents` of 6
is the drivers' chain and lets one of 7 events overflow.

**What the instances leave out.** Two keys that share a button (A and Z both
press A) interact: releasing one lifts the button while the other is held.
`JoypadFollowsKeys` is stated so as to allow it (it speaks of none and of all of
a button's keys) and the instance gives each button one key, since a third key
makes the liveness check too large. `save_faults` does not claim durability or
`OneSlotPerRom`: with unreadable headers a game can get a second slot, and
`savefile.rs` has no retry, as `Technical_Documentation.md` concedes.

**Fairness.** `SaveFile!FairSpec`: the main loop calls `update` every frame
for ever (`WF(Frame)`), and every wait of `write_sectors` is bounded by a
counter (`WF(SaveSector)`); nothing is assumed of the game or the power switch.
`Input!FairSpec`: interrupts are enabled before the browser starts and stay so
(`WF(keyboard_handler)`), both loops call `get_key` for ever, handlers and
loading end; `do_cycle` runs continually in a frame. `EndFrame` is strongly fair
because a frame is a fixed number of cycles however often the game raises the
joypad interrupt within it. The user owes nothing; `TapWakesGame` therefore
assumes that frames keep coming, since a user who types faster than the drain
loop reads could keep it draining.
`Interrupts!FairSpec`: the timer is periodic and its request is the highest
(`WF(Raise(TIMER))`, `WF(Acknowledge(TIMER))`); handlers are straight-line code
far shorter than a tick, so the main loop and the keyboard's request find the
processor free again and again (`SF`). `KeyboardServed` has the matching premise.
`GameBoy!Spec`: the main loop calls `do_cycle` for ever, and a cycle is always
possible, so its fairness is that cycles recur (`[]<><<do_cycle_step>>`); neither the
keys nor the saving need happen. `BootLoad!Spec` is fair to the kernel alone: drive
and user may stop at any time, since every wait of the driver is bounded.
`Services` has no fairness and no liveness property.

## 4. Findings

1. **Slots overlap for 32KB saves** (`save_overlap`). `save_game` writes a
   header and 64 data sectors (`savefile.rs:387`), 65 sectors in a slot of 64
   (`SECTORS_PER_SLOT`), so the last data sector replaces the header of the next
   slot. `savefile.rs:14` documents "Slot 0: Sectors 0x10000-0x1003F (32KB)".
2. **Smaller saves are not restored** (`save_restore`). `load_sram` hands its
   whole 32KB buffer to `loadram` (`savefile.rs:523`), which accepts only a slice
   as large as the cartridge's RAM, so an 8KB save is found, read and refused.
   `savefile.rs:11` says "On ROM load, we restore any existing save back to RAM".
3. **Lines with the default stub are never ended** (`irq_default`).
   `irq_stub_default` pushes vector 255 (`idt.rs:313`), under a comment saying the
   stubs are mapped to INT 32-47 (`idt.rs:291`); `interrupt_handler` ignores 255,
   and its arm for "Other IRQs" (`idt.rs:410`), which sends the EOI, is never
   reached. The line and all of lower priority stay blocked; after one on the
   slave, the mouse is. `irq_pacing` shows that timer and keyboard survive.

That slot 0 is overwritten when all slots are used, and that the save area
ignores partitions, is documented (`Technical_Documentation.md:1551-1552`) and
modelled as intended.

Observations made while modelling, which no document contradicts, so that they
are conditions of properties and no findings:

- Words are stored high byte first by the games and read low byte first
  (`ram_layout.rs:808`); the panels swap them, the HP bars (`game_overlay.rs:473`) do not
  and are wrong from 256 HP on. PP Ups are masked off (`& 0x3F`) before the place
  that shows them. A colour game that ends a frame with another RAM bank selected
  makes the overlay show that bank (`mmu.rs:436`); `PanelsShowGame` is stated for bank 1.
- The dirty tracker is initialised and never asked: every frame redraws all, though a
  comment in the main loop (`main.rs:411`) says otherwise; `game_overlay.rs` itself says
  "For now, just do full render". The tracker would not do for the panels as they are
  drawn now: it does not compare the group of the map (`game_overlay.rs:185-190`), moves,
  statistics, the enemy or the coming and going of a battle, and calls a change of HP one
  of the bottom bar only; `ChangesAreDirty` therefore does not speak of these lines; a level at the bottom of the screen is dirty as the slot of
  its Pokemon, not as the bottom bar. Its rectangles are those of an older layout.
- Money of Crystal is called BCD at its address (`ram_layout.rs:459`), and a plain integer
  where it is read (`ram_layout.rs:1108`). The model's games keep it as the reader takes it.
- Overlapping usable E820 entries put a page on the free list twice
  (`pmm.rs:214`); `MapsAssumption` excludes them from `HandedOutOnce`. `free_page` accepts
  pages that were never handed out. The pages of the heap (16 to 20 MB) are in
  the free list too (`pmm.rs:207-214`), so that a page and a block may be the same memory:
  `HandedOutOnce` speaks of each allocator alone. Nobody calls `alloc_page` yet.
- A FAT entry that names a bad cluster does not end a chain (`fat32.rs:137`); see
  `regular` in section 2 for what follows where its sector's number wraps around.
- The frame that `NoTornFrame` speaks of is the picture unit's. The main loop copies the
  lines drawn at its own count of cycles (`main.rs:387-420`), so that the picture on
  display may join two frames.
- The buttons of an absolute packet are read from bits that its first byte must
  have clear; a byte with bit 3 set in place of a first byte ends absolute mode for
  good (`synaptics.rs:384`), which `OneTornPacket` excuses as `misled`. A packet that loses
  its last byte costs the next one too, which gives up its first byte and is dropped
  unread; `OneTornPacket` counts both.
- An `EventChain` ignores events beyond its capacity, a result drops failures beyond 16,
  which a `StaticChain` can have, and a context drops new keys when full. Middleware that refuses returns a plain failure, so BestEffort goes on.
- One step of the timer counts one edge at most; with TAC 5 a long instruction
  loses increments (`timer.rs:76`). Unused bits of IE and IF clear IME (`cpu.rs:106`).
- A read right after one that failed may meet the status of the command before
  (`ata.rs:957`); `SectorsExact` says when. A root directory whose chain is a circle is
  read for ever; `BootSettles` excludes it.

## 5. Proofs

The proofs are for every value of the constants that the named assumptions
allow; TLC evaluates these assumptions in the runs. All but one of the safety
properties that hold are theorems. In each module the invariant that is
proved inductive is one conjunction of named parts.

`SaveFileProofs`, for every number of slots, slot size, disk size and set of
cartridges:

- `TypeCorrect`: `Spec => []TypeOK`. `TypeOK` is inductive; it is split into the
  disk, the cartridge, the tracker and the save in progress. The last part says
  that a save never runs past the cartridge's RAM.
- `Confined`: `Fits => (Spec => SaveConfinedToSlot)`, drive faults and power cuts
  included. `Fits` (battery RAM smaller than a slot) is the condition finding 1
  shows to be necessary.
- `Durable`: `Fits /\ Reliable => (Spec => []QuietMeansDurable)`.
  `QuietMeansDurable` is not inductive: it says nothing of a save in progress,
  whose completion establishes it. `DurableInv` adds `SavedSoFar` (the save works
  on the first slot a search would find, its header is in place, and the sectors
  passed equal the RAM), that a machine that is off has no touched RAM, and that
  RAM past the cartridge's size is zero. The lemmas are about the searches (the
  chosen slot is the lowest match, or becomes it once the header is written) and
  about slots being disjoint (a product of slot number and slot size, the only
  non-linear step). `Reliable` excludes drive faults and a disk that ends inside
  the save area, where the property is false.
- `Unique`: `Fits /\ Faultless => (Spec => []OneSlotPerRom)`. A second slot could
  only come from a save that chose a slot while its game had one, so `OwnedInv`
  adds `Chosen` (the slot under way is the game's only one, or is free, or
  every slot is taken) and `HeadersFit` (no header on the disk speaks of more
  sectors than a slot has behind it, hence no data sector is ever a header).
  With unreadable headers the property is false, see section 3.
- `OthersKept`: `Fits /\ Reliable => (Spec => OtherImagesKept)`, from `OwnedInv`.
- `Restored`, `Stored`: for a single cartridge whose RAM fills the restore
  buffer, on a reliable disk (`Alone(g)`), `RestoresExistingSave` and
  `ImplementsStore`, the refinement of `SramStore`. These are the conditions that
  findings 1 and 2 leave: a second cartridge of that size overlaps the first, and
  a smaller one is not restored. `AloneInv` says that sectors behind the header
  hold data, and none before there is a header.

`KeyboardProofs` proves for every ring size of two or more and every set of
scancodes:

- `TypeCorrect` and `Accounted`: `Spec => []TypeOK`, `Spec => []SlotsAccounted`.
- `Implements`: `Spec => ImplementsFifo`. The mapping reads the ring as a
  sequence from `read_idx`; the step of `get_key` that moves `read_idx` is the
  queue's `Get`, in either order, and the other step is invisible.

The invariant is `RingInv`: `TypeOK`, `SlotsInOrder` (the first `Waiting` slots
from `read_idx` are occupied, the others not, except for the one slot `get_key`
is working on) and `ReaderOK` (the reader has an event in hand exactly between
taking and handling it, and the slot it emptied is still counted as waiting).
`SlotsAccounted` alone is not inductive: it does not say that the event in the
reader's hands is one. The arithmetic of the ring is in four lemmas
(`RingArithmetic`, `SlotAtBijective`, `WriterArithmetic`, `ReaderArithmetic`), so
that the steps never reason about wrap-around.

`InterruptsProofs` proves for every set of devices and masks, every even counter
range and every frame length below half of it: `TypeCorrect`, `OwnEnded` (`Spec =>
OwnLineEnded`) and `Paced` (`Spec => PacingExact`). The invariant `Inv` adds to
the types `Served` (what a handler interrupted has lower priority than its own
line, so that a non-specific EOI hits the right one), `InStep` (the wrapped
counters agree with `elapsed`) and `LagOK` (ticks passed, latched and being
counted stay within `MaxLag + 1`, case by case for the states of the main loop).

`InputProofs`, for every set of keys and buttons, map between them and size of
the ring: `TypeCorrect` and `Followed` (`Spec => []JoypadFollowsKeys`). The property
speaks of a state with nothing in flight, so that all the work is in what is in
flight. For each key the bytes on the wire, the events in the ring and the
event in a reader's hands form a *story*, a sequence of presses and releases;
the invariant says that the last thing a key's story tells is whether it is
held, unless its latest event was dropped, and that a button is up or down for
a reason (a key that is, or one whose story is not over, was dropped or eaten).
Bytes and events move from one part of the story to the next; the lemmas are
about sequences that lose their first element or gain a last one.

`BootLoadProofs`, for every machine, disk, PCI bus, number of rows and buffer size:
`TypeCorrect`, `SectorsAreExact`, `RunsWhatWasShown` and `CursorIsShown`, the last two for
`regular` disks where they speak of ROMs. That a disk is regular is used where the
sector read (`cluster_to_sector`, modulo 2^32) is compared with the one meant. `BootInv`
is what the drive may be doing for a call (`DriveInv`), what probing found
(`ProbeInv`), the phases (`PhaseInv`), the PCI list (`PciInv`), and where each walk is:
a walk stands at a place of `Directory(disk)` and has seen the ROMs listed before
that place (`WalkInv`, `DirWalkInv`, `FileInv`), so that three walks that never meet
agree through the list all follow. `Directory` and `File` are functions over `0..n`
defined step by step; what they compute is proved by least-number arguments
(`Least`, `Iterated`, `UpTo` in `DataProofs`), since the induction theorems take an
operator, which the provers cannot instantiate.

`ServicesProofs`, for the constants of each part; the parts share no state, so
each has an invariant of its own and `ServicesInv` is their conjunction:

- `Owned`: `Spec => []HandedOutOnce`, each allocator by itself. Lists first (in `DataProofs`): `RemoveShows` and its companions say
  that a list which shows a sequence shows, after each operation, the new
  sequence, whatever its length (`Represents` is `IsList` with types). `PagesInv`
  says that free and held pages partition the usable ones, with the list as
  witness; `pmm_init` is three nested loops over the map, described by invariants
  of recursive functions. `HeapInv` says that blocks lie between the heap's start
  and `next`, apart. `MapsAssumption` excludes overlapping usable entries.
- `QueuedOnce`: `Spec => []QueuesExact`. `SchedInv` has the five queues' contents as
  a witness, and allows for the idle task while it runs.
- `Torn`: `Spec => []OneTornPacket`. `PointInv` keeps two accounts: torn packets, and
  one more if the buffer holds a piece of an old packet (`Debt`), are at most the
  bytes lost and answers taken; and (`ReadInv`) whole packets left unread, and one more
  if the next one is bound to be (`Owed`), are at most the bytes lost. `PadWaits` and `WireInv` say which mode decoder and
  device are in at each step of `init`.
- `Delivered`: `Spec => []ChainsDeliver`, for static chains of any length. `ReportInv` relates what ran to what is
  reported while the chain is under way, `StatusInv` the status, `CallInv` a system
  call's result, and `DriverInv` says what the context and the devices hold
  by how many drivers the chain has passed (`Came`, `ContextOK`, `TouchedOK`).
- `Follows`: `Spec => []OverlayFollowsGame`, the overlay, in two parts.
  For the tracker (`ChangesAreDirty`), `TrackInv` says that a valid cache holds what was
  read for the panels on the screen. Two drawings of `render_full` are then compared line
  by line (`LeftDrawn`, `RightDrawn`, `SlotDrawn`): a line that both have is a function of
  data that `Changed` compares (`Covered`). This part holds whatever the memory is.
  For the panels (`PanelsShowGame`), `PanelInv` says that memory holds the bytes of every
  field of the game's data (`Keeps`), which play keeps because in each of the four tables
  an address belongs to one field (`FieldOfCell`, `CellsApart`), and that the places of the
  other five Pokemon stay empty (`Vacant`). The reader then finds each field again
  (`ReadsOne`, `ReadsWords`, `ReadsMoves`, `ReadsEnemy`, `ReadsBattle`, `ReadsMoney`,
  `ReadsName`): one theorem for six games, both orders of a word's bytes, BCD and binary
  money, and a name cut at its terminator. Last, a line shows where it is due:
  `LinesStand` bounds the height of what stands above a line (`Level`), so that no line of
  a panel reaches the panel that is cleared after it, and the panels' lines are put
  together from pieces whose labels differ (`LeftPanel`, `PlayerPanel`, `BattlePanel`).
  `BarOf` says why a bar is right although its words' bytes are exchanged: both are then
  multiples of 256, as long as neither word has a high byte.

`GameBoyProofs`, for every cartridge (a file of bytes, its header included), every
program on it, and every number of key presses. The property of one component
depends on what all the others write, so there is one invariant of the machine,
`InOrder`, and it is inductive; `MachineInOrder` says `Spec => []InOrder`. It is
built upwards, a predicate for each component and lemmas that its operations keep
it:

- `TimerOK`: types, and `KeepsPace` of the last step; `MbcOK`: the controller's one
  number is `RegisterBank` cut to the ROM, and the registers keep their widths;
  `GpuOK`: mode and clock belong together, and `drawn` is what the line and the mode
  say (each line up to here once, or none in the first frame and in VBlank), which is
  what makes a frame whole. A step runs through `Chunks` of 80 ticks at most; the
  invariant is shown for one chunk and carried over a step, through the recursive
  function `AfterChunks`, by a least-number argument (`DataProofs`).
- `MmuOK` joins them with the memories (every cell a byte), the DMA registers
  (`TransferOK`: a transfer of HDMA ends within video memory) and `RowsOK`. Its lemmas
  are about `rb`, `wb`, `peek`, the three kinds of DMA and `do_cycle`.
- `CpuOK` adds the registers, the delays of EI and DI and the writes under way. An
  instruction is a chain of small steps (`Took`, `Fetched`, `Popped`, `push`, `Write`);
  `Goes` says what such a step keeps, and the opcodes are proved group by group as
  the decoder has them, then `Executed` for all.
- `InOrder` adds `DaaOK` (while a decimal result is due, `alu_daa` of the registers
  would give it), and that while `masked` holds IME is off and no EI is on its way.

From it: `TypeCorrect`, `PaceKept`, `FramesAreWhole`, `RowByRow`, `Banked`, `PeekReads` for
the six invariants of the run, and the action properties `Masks` (`Spec => MaskHolds`)
and `DaaIsDecimal` (`Spec => DaaCorrects`). `DaaIsDecimal` rests on arithmetic with two
digits: `SumOfDigits` and `DifferenceOfDigits` say what a sum of decimal numbers is as
a binary one, which half carries it has, and what is added to put it right.

The assumptions: `DivSizeAssumption` (DIV has 4 to 16 bits, the code's 16 among
them), `LinesAssumption` (at most the code's 144 of 154 lines, and four at least:
the longest step, 1048 ticks with a DMA, must be shorter than a frame),
`CartridgeAssumption` (bytes), and `PeekAssumption` (any addresses but 0xFF00, whose
keypad is in `Input`, and 0xFF46, where the two tables differ). `BankedByRegisters`
speaks of headers that name a ROM size; with an unknown one the code has no banks.

`DataProofs` has the lemmas that several of these use, and those on the operations of
the linked lists.

**Model-checked only.** Of the safety properties: `ReturnsWhereInterrupted`, which is
true of programs that leave the stack alone, as those of the run do; a program is free
to overwrite a return address, so that it is no theorem for all programs. All liveness
(`PendingResolves`, `NoStuckButton`, `TapWakesGame`, `FramesGoOn`, `KeyboardServed`,
`HaltEnds`, `BootSettles`) is out of the prover's reach, which handles neither
fairness nor `ENABLED`. The properties of the runs that expect a violation are
false, or (`SaveConfinedToSlot`, `RestoresExistingSave`) proved under the conditions
above.

## 6. Running

    tlc -config SaveSmall.cfg MCSaveFile
    tlc -config InputKeys.cfg MCInput
    tlc -config GameBoy.cfg MCGameBoy
    tlc -config BootLoad.cfg MCBootLoad
    tlc -config Services.cfg MCServices
    tlapm SaveFileProofs.tla
    tlapm KeyboardProofs.tla
    tlapm InterruptsProofs.tla
    tlapm InputProofs.tla
    tlapm BootLoadProofs.tla
    tlapm DataProofs.tla
    tlapm ServicesProofs.tla
    tlapm GameBoyProofs.tla

`PROJECT.json` lists every run with its module and configuration, the lines of
code behind each definition, the mutants, the findings and the hazards. The
longest run, `InputKeys.cfg`, takes about two minutes with two workers; the longest
proofs, `BootLoadProofs` and `GameBoyProofs`, about ten minutes each, `ServicesProofs`
twice that.

## 7. Plan

Modelled: everything the kernel keeps state for, except what is listed below.
What is left to prove: `ReturnsWhereInterrupted`, for the programs that keep to the
stack discipline it needs.

Not modelled, and why: pixel output (`graphics/`, `gui/` but for the layout,
`gameboy/display.rs`, colours of the picture unit), whose correctness is a picture;
register tables of display adapters (`ati_rage.rs`, `armada_e500_hw.rs`, `vga.rs`),
whose effects are not in the code; tables of names, catch rates, types and base PP;
`drivers/ide_piix4m.rs`, `fs/`, which are not compiled; the context switch in assembly;
the real-mode boot loader and the tools on the host; CPU exceptions, which halt; the
stack guard's counters.
