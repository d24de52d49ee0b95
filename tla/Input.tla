------------------------------- MODULE Input --------------------------------
(***************************************************************************)
(* From the keys under the user's fingers to the ROM list and to the Game  *)
(* Boy's joypad: the keyboard driver with its two readers, the             *)
(* ROM browser (kernel/src/rom_browser.rs) and the drain loop of the       *)
(* emulator (kernel/src/main.rs), and the emulated keypad                  *)
(* (kernel/src/gameboy/keypad.rs).                                         *)
(*                                                                         *)
(* The ring buffer of the driver appears as the bounded queue that module  *)
(* Keyboard shows it to implement.                                         *)
(*                                                                         *)
(* The main loop is elsewhere for long stretches: loading a ROM, emulating *)
(* a frame, saving to disk.  Bytes arrive and events pile up meanwhile.    *)
(***************************************************************************)
EXTENDS Naturals, Sequences, FiniteSets, Scancodes

CONSTANTS
  NoEvent,            \* no event in a reader's hands
  Capacity,           \* events the keyboard buffer holds: KEY_BUFFER_SIZE - 1
  Keys,               \* the physical keys, each named by its KeyCode
  Buttons,            \* KeypadKey
  NoButton,           \* map_keycode's None
  map_keycode,        \* KeyCode -> Buttons \cup {NoButton}
  Row, Bit,           \* the joypad row and line of a button
  SelectKeys,         \* the keys that choose a ROM in the browser
  Selections,         \* the row selections the game makes, sets of rows
  MaxWire             \* bound: bytes the keyboard holds back at most

ASSUME InputAssumption ==
  /\ NoEvent \notin Events /\ Capacity \in Nat
  /\ Keys \subseteq KeyCodes
  /\ map_keycode \in [KeyCodes -> Buttons \cup {NoButton}]
  /\ NoButton \notin Buttons
  /\ Row \in [Buttons -> {0, 1}] /\ Bit \in [Buttons -> 0 .. 3]
  /\ SelectKeys \subseteq KeyCodes
  /\ Selections \subseteq SUBSET {0, 1} /\ MaxWire \in Nat

VARIABLES
  queue,         \* key events in the driver's ring buffer
  hand,          \* the event get_key has returned, not yet handled
  held,          \* keys held down
  wire,          \* bytes the keyboard has sent and no interrupt has read
  mode,          \* "browser", "loading", "halted", "frame" or "drain"
  row_down,      \* the buttons down in row0 and row1
  select,        \* rows the game has selected: the zero bits 4 and 5 of data
  lines,         \* the zero bits 0..3 of data
  interrupt,     \* Keypad.interrupt
  intf,          \* the joypad bit of the MMU's intf
  dropped,       \* history: keys whose latest event the full ring dropped
  eaten          \* history: keys whose latest event was a press the browser took

keypad == <<row_down, select, lines, interrupt>>
driver == <<extended, queue, hand>>
vars == <<driver, held, wire, mode, keypad, intf, dropped, eaten>>

-----------------------------------------------------------------------------
Fifo == INSTANCE KeyFifo

Init ==
  /\ Fifo!Init /\ extended = FALSE
  /\ held = {} /\ wire = <<>>
  /\ mode = "browser"
  /\ row_down = {} /\ select = {} /\ lines = {}
  /\ interrupt = FALSE /\ intf = FALSE
  /\ dropped = {} /\ eaten = {}

(* The user and the keyboard *)

BytesOf(k, released) ==
  (IF k[2] THEN <<E0>> ELSE <<>>) \o <<[code |-> k[1], released |-> released]>>

Send(k, released) ==
  /\ Len(wire) + Len(BytesOf(k, released)) <= MaxWire
  /\ wire' = wire \o BytesOf(k, released)
  /\ UNCHANGED <<driver, mode, keypad, intf, dropped, eaten>>

Press(k) ==
  /\ k \notin held
  /\ held' = held \cup {k}
  /\ Send(k, FALSE)

\* The keyboard repeats a key held down.
Repeat(k) ==
  /\ k \in held
  /\ Send(k, FALSE)
  /\ UNCHANGED held

Release(k) ==
  /\ k \in held
  /\ held' = held \ {k}
  /\ Send(k, TRUE)

\* The keyboard interrupt takes the next byte, wherever the main loop is.
keyboard_handler ==
  /\ wire # <<>>
  /\ wire' = Tail(wire)
  /\ extended' = PrefixAfter(Head(wire))
  /\ IF IsCode(Head(wire))
     THEN LET e == EventOf(Head(wire)) IN
          /\ Fifo!Put(e)
          /\ dropped' = IF Len(queue) = Capacity THEN dropped \cup {e.keycode}
                        ELSE dropped \ {e.keycode}
     ELSE UNCHANGED <<queue, hand, dropped>>
  /\ UNCHANGED <<held, mode, keypad, intf, eaten>>

-----------------------------------------------------------------------------
(* The ROM browser *)

\* The browser reacts to presses and throws releases away.  Moving the
\* cursor over the list is left out here.
BrowserHandles ==
  /\ mode = "browser"
  /\ Fifo!Handle /\ UNCHANGED extended
  /\ mode' = IF hand.pressed /\ hand.keycode \in SelectKeys THEN "loading" ELSE mode
  /\ eaten' = IF hand.pressed THEN eaten \cup {hand.keycode}
              ELSE eaten \ {hand.keycode}
  /\ UNCHANGED <<held, wire, keypad, intf, dropped>>

\* load_rom and the start of the emulator: no key is read.  If either fails
\* the machine halts for good, with interrupts still enabled.
Load ==
  /\ mode = "loading"
  /\ mode' \in {"frame", "halted"}
  /\ UNCHANGED <<driver, held, wire, keypad, intf, dropped, eaten>>

-----------------------------------------------------------------------------
(* The keypad *)

\* The lines pulled low by the selected rows.
LowLines(sel, down) == {Bit[b] : b \in {c \in down : Row[c] \in sel}}

\* Mutant: the interrupt is requested when the last line goes high again.
InterruptOnRelease(sel, down) ==
  interrupt' = (interrupt \/ (lines # {} /\ LowLines(sel, down) = {}))

\* Keypad::update: an interrupt when the first line goes low.
RequestInterrupt(sel, down) ==
  interrupt' = (interrupt \/ (lines = {} /\ LowLines(sel, down) # {}))

\* Mutant: the lines keep their value once the interrupt is requested.
UpdateInterruptOnly(sel, down) ==
  /\ RequestInterrupt(sel, down)
  /\ UNCHANGED lines

update(sel, down) ==
  /\ RequestInterrupt(sel, down)
  /\ lines' = LowLines(sel, down)

\* Mutant: a release is taken for a press.
OnlyDown(b, pressed) == row_down \cup {b}

\* Keypad::keydown and Keypad::keyup.
RowsAfter(b, pressed) == IF pressed THEN row_down \cup {b} ELSE row_down \ {b}

\* One turn of the drain loop.
GameHandles ==
  /\ mode = "drain"
  /\ Fifo!Handle /\ UNCHANGED extended
  /\ LET b == map_keycode[hand.keycode] IN
     IF b = NoButton
     THEN UNCHANGED keypad
     ELSE /\ row_down' = RowsAfter(b, hand.pressed)
          /\ update(select, row_down')
          /\ UNCHANGED select
  /\ eaten' = eaten \ {hand.keycode}
  /\ UNCHANGED <<held, wire, mode, intf, dropped>>

\* The drain loop ends when get_key finds the ring empty.
Drained ==
  /\ mode = "drain" /\ hand = NoEvent /\ queue = <<>>
  /\ mode' = "frame"
  /\ UNCHANGED <<driver, held, wire, keypad, intf, dropped, eaten>>

(* The game: Keypad::wb, and do_cycle, which moves the interrupt to intf. *)

GameSelects(sel) ==
  /\ mode = "frame"
  /\ select' = sel
  /\ update(sel, row_down)
  /\ UNCHANGED <<driver, held, wire, mode, row_down, intf,
                 dropped, eaten>>

do_cycle ==
  /\ mode = "frame" /\ interrupt
  /\ intf' = TRUE /\ interrupt' = FALSE
  /\ UNCHANGED <<driver, held, wire, mode, row_down, select,
                 lines, dropped, eaten>>

\* The game takes the joypad interrupt.
GameAcknowledges ==
  /\ mode = "frame" /\ intf
  /\ intf' = FALSE
  /\ UNCHANGED <<driver, held, wire, mode, keypad, dropped, eaten>>

\* A frame runs many do_cycle: none ends with the interrupt still in keypad.
EndFrame ==
  /\ mode = "frame" /\ ~ interrupt
  /\ mode' = "drain"
  /\ UNCHANGED <<driver, held, wire, keypad, intf, dropped, eaten>>

-----------------------------------------------------------------------------
get_key ==
  /\ mode \in {"browser", "drain"}
  /\ Fifo!Get
  /\ UNCHANGED <<extended, held, wire, mode, keypad, intf, dropped, eaten>>

Next ==
  \/ \E k \in Keys : Press(k) \/ Repeat(k) \/ Release(k)
  \/ keyboard_handler
  \/ get_key
  \/ BrowserHandles
  \/ Load
  \/ GameHandles
  \/ Drained
  \/ \E sel \in Selections : GameSelects(sel)
  \/ do_cycle
  \/ GameAcknowledges
  \/ EndFrame

Spec == Init /\ [][Next]_vars

\* Interrupts are enabled before the browser starts and never disabled, and
\* both loops call get_key for ever; a frame is a fixed number of cycles,
\* whatever the game does with them (SF).  The user and the game owe nothing.
FairSpec ==
  /\ Spec
  /\ WF_vars(keyboard_handler) /\ WF_vars(get_key)
  /\ WF_vars(BrowserHandles) /\ WF_vars(Load)
  /\ WF_vars(GameHandles) /\ WF_vars(Drained)
  /\ WF_vars(do_cycle) /\ SF_vars(EndFrame)

-----------------------------------------------------------------------------
(* Properties *)

\* Besides the types: the lines the game reads are never stale.
TypeOK ==
  /\ extended \in BOOLEAN
  /\ queue \in Seq(Events) /\ Len(queue) <= Capacity
  /\ hand \in Events \cup {NoEvent}
  /\ held \subseteq Keys
  /\ wire \in Seq(Bytes) /\ Len(wire) <= MaxWire
  /\ mode \in {"browser", "loading", "halted", "frame", "drain"}
  /\ row_down \subseteq Buttons /\ select \subseteq {0, 1}
  /\ lines = LowLines(select, row_down)
  /\ interrupt \in BOOLEAN /\ intf \in BOOLEAN
  /\ dropped \subseteq KeyCodes /\ eaten \subseteq KeyCodes

KeysOf(b) == {k \in Keys : map_keycode[k] = b}
Quiet == wire = <<>> /\ queue = <<>> /\ hand = NoEvent

\* Once every byte is processed the joypad shows what the user holds: a
\* button none of whose keys is held is up, and one all of whose keys are
\* held is down.  Excepted are keys whose latest event the full ring dropped
\* or, for presses, the browser took (drivers/keyboard.rs:404-408, main.rs:
\* 441-449).
JoypadFollowsKeys ==
  Quiet => \A b \in Buttons :
    KeysOf(b) \cap dropped = {} =>
      /\ KeysOf(b) \cap held = {} => b \notin row_down
      /\ KeysOf(b) # {} /\ KeysOf(b) \subseteq held \ eaten => b \in row_down

\* A button left down by keys no longer held comes up, unless an event of
\* theirs was dropped or the user presses one again.
NoStuckButton ==
  \A b \in Buttons :
    b \in row_down /\ KeysOf(b) \cap held = {}
      ~> b \notin row_down \/ KeysOf(b) \cap (held \cup dropped) # {}

\* A press on a selected row wakes the game even if the key is up again
\* before the game looks: the request survives in keypad until do_cycle takes
\* it, as long as the keyboard does not keep the drain loop busy for ever.
TapWakesGame ==
  []<>(mode = "frame") =>
    \A b \in Buttons :
      (/\ mode = "drain" /\ hand # NoEvent
       /\ hand.pressed /\ map_keycode[hand.keycode] = b
       /\ lines = {} /\ Row[b] \in select)
      ~> intf
=============================================================================
