----------------------------- MODULE Scancodes ------------------------------
(***************************************************************************)
(* The bytes a keyboard sends and the key events they stand for:           *)
(* KeyCode::from_scancode and the first half of process_scancode, in       *)
(* kernel/src/drivers/keyboard.rs.  The modifier and lock flags and the    *)
(* ASCII code they select are left out: no reader of the events uses them. *)
(***************************************************************************)
CONSTANTS
  Codes,             \* low seven bits of the scancodes the keyboard sends
  E0, E1             \* the two prefix bytes

\* A KeyCode: the same scancode means another key after an E0 prefix.
KeyCodes == Codes \X BOOLEAN

\* A BufferedKey.
Events == [keycode : KeyCodes, pressed : BOOLEAN]

\* What the keyboard sends: make and break codes, and the prefixes.
Scancodes == [code : Codes, released : BOOLEAN]
Bytes == Scancodes \cup {E0, E1}

ASSUME PrefixAssumption == E0 # E1 /\ {E0, E1} \cap Scancodes = {}

VARIABLE extended    \* an E0 prefix has been received

\* Mutant: the prefix is never used up.
StickyPrefix(b) == b = E0 \/ extended

\* E0 marks the next code as extended, which uses the mark up; E1 is skipped.
PrefixAfter(b) == b = E0 \/ (b = E1 /\ extended)

IsCode(b) == b \notin {E0, E1}

EventOf(b) == [keycode |-> <<b.code, extended>>, pressed |-> ~ b.released]
=============================================================================
