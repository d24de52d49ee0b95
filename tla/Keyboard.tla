------------------------------ MODULE Keyboard ------------------------------
(***************************************************************************)
(* The keyboard driver, kernel/src/drivers/keyboard.rs: the interrupt      *)
(* handler parses scancode bytes and puts key events in a ring buffer; the *)
(* main loop takes them out with get_key, with interrupts enabled.         *)
(*                                                                         *)
(* KEYBOARD is a plain static mut shared with the interrupt handler, so    *)
(* nothing fixes the order in which get_key empties the slot and advances  *)
(* read_idx: both orders are modelled, with interrupts in between.         *)
(***************************************************************************)
EXTENDS Naturals, Sequences, Scancodes

CONSTANTS
  NoEvent,           \* an empty slot, or no event in the reader's hands
  KEY_BUFFER_SIZE

ASSUME KeyboardAssumption ==
  KEY_BUFFER_SIZE \in Nat \ {0, 1} /\ NoEvent \notin Events

Indices == 0 .. KEY_BUFFER_SIZE - 1
\* Mutant: the index runs off the end of the ring.
SuccUnwrapped(i) == i + 1

Succ(i) == IF i + 1 = KEY_BUFFER_SIZE THEN 0 ELSE i + 1
Pred(i) == IF i = 0 THEN KEY_BUFFER_SIZE - 1 ELSE i - 1

VARIABLES
  buffer,        \* the ring of events
  write_idx,
  read_idx,
  pc,            \* where the main loop is in get_key
  key            \* the event it has taken out of the ring

ring == <<buffer, write_idx, read_idx>>
reader == <<pc, key>>
vars == <<extended, ring, reader>>

-----------------------------------------------------------------------------
Init ==
  /\ extended = FALSE
  /\ buffer = [i \in Indices |-> NoEvent]
  /\ write_idx = 0 /\ read_idx = 0
  /\ pc = "idle" /\ key = NoEvent

RingEmpty == read_idx = write_idx

\* Mutant: every slot is filled, the one being read too.
FullWhenOccupied == buffer[write_idx] # NoEvent

RingFull == Succ(write_idx) = read_idx

\* process_scancode's last part: the newest event is dropped when full.
BufferEvent(e) ==
  IF RingFull
  THEN UNCHANGED <<buffer, write_idx>>
  ELSE /\ buffer' = [buffer EXCEPT ![write_idx] = e]
       /\ write_idx' = Succ(write_idx)

\* The keyboard interrupt: one byte is read and processed.
process_scancode(b) ==
  /\ extended' = PrefixAfter(b)
  /\ IF IsCode(b) THEN BufferEvent(EventOf(b)) ELSE UNCHANGED <<buffer, write_idx>>
  /\ UNCHANGED <<read_idx, reader>>

\* get_key: the slot is emptied before the index moves ...
TakeSlot ==
  /\ pc = "idle" /\ ~ RingEmpty
  /\ key' = buffer[read_idx]
  /\ buffer' = [buffer EXCEPT ![read_idx] = NoEvent]
  /\ pc' = "taken"
  /\ UNCHANGED <<extended, write_idx, read_idx>>

ThenAdvance ==
  /\ pc = "taken"
  /\ read_idx' = Succ(read_idx)
  /\ pc' = "returned"
  /\ UNCHANGED <<extended, buffer, write_idx, key>>

\* ... or the index moves before the slot is emptied.
AdvanceFirst ==
  /\ pc = "idle" /\ ~ RingEmpty
  /\ read_idx' = Succ(read_idx)
  /\ pc' = "advanced"
  /\ UNCHANGED <<extended, buffer, write_idx, key>>

ThenTakeSlot ==
  /\ pc = "advanced"
  /\ key' = buffer[Pred(read_idx)]
  /\ buffer' = [buffer EXCEPT ![Pred(read_idx)] = NoEvent]
  /\ pc' = "returned"
  /\ UNCHANGED <<extended, write_idx, read_idx>>

get_key == TakeSlot \/ ThenAdvance \/ AdvanceFirst \/ ThenTakeSlot

\* The caller is done with the event get_key returned.
HandleKey ==
  /\ pc = "returned"
  /\ pc' = "idle" /\ key' = NoEvent
  /\ UNCHANGED <<extended, ring>>

Next == (\E b \in Bytes : process_scancode(b)) \/ get_key \/ HandleKey

Spec == Init /\ [][Next]_vars

-----------------------------------------------------------------------------
(* Properties *)

\* Indices stay in the ring, slots hold events, and the reader holds one
\* exactly while get_key has one to give.
TypeOK ==
  /\ extended \in BOOLEAN
  /\ buffer \in [Indices -> Events \cup {NoEvent}]
  /\ write_idx \in Indices /\ read_idx \in Indices
  /\ pc \in {"idle", "taken", "advanced", "returned"}
  /\ key \in Events \cup {NoEvent}

\* The number of events waiting, and the ring read as a queue.  While the
\* slot has been emptied but not passed, its event is the reader's key.
Waiting ==
  IF read_idx <= write_idx THEN write_idx - read_idx
  ELSE KEY_BUFFER_SIZE - read_idx + write_idx
SlotAt(n) ==
  IF read_idx + n < KEY_BUFFER_SIZE THEN read_idx + n
  ELSE read_idx + n - KEY_BUFFER_SIZE
Queue ==
  [n \in 1 .. Waiting |->
     IF pc = "taken" /\ n = 1 THEN key ELSE buffer[SlotAt(n - 1)]]
Hand ==
  IF pc = "advanced" THEN buffer[Pred(read_idx)]
  ELSE IF pc = "returned" THEN key ELSE NoEvent

\* Every occupied slot holds an event and every other one is empty, so
\* get_key never returns None from a ring that has something in it
\* (kernel/src/drivers/keyboard.rs:420-427), whenever interrupts strike.
SlotsAccounted ==
  \A i \in Indices :
    buffer[i] # NoEvent <=>
      \/ /\ \E n \in 0 .. KEY_BUFFER_SIZE - 1 : n < Waiting /\ i = SlotAt(n)
         /\ ~ (pc = "taken" /\ i = read_idx)
      \/ pc = "advanced" /\ i = Pred(read_idx)

\* The ring implements a bounded queue that loses an event only when full,
\* whatever the order of get_key's two steps.
Fifo == INSTANCE KeyFifo WITH queue <- Queue, hand <- Hand,
                              Capacity <- KEY_BUFFER_SIZE - 1
ImplementsFifo == Fifo!Spec
=============================================================================
