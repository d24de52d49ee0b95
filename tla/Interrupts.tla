----------------------------- MODULE Interrupts -----------------------------
(***************************************************************************)
(* Hardware interrupts and what the main loop builds on them: the two      *)
(* 8259s as the kernel sets them up (kernel/src/arch/x86/pic.rs), the      *)
(* stubs and the handler (arch/x86/idt.rs), the tick counter (pit.rs), and *)
(* the frame pacing of the emulator loop (kernel/src/main.rs), which       *)
(* sleeps in HLT until an interrupt.                                       *)
(*                                                                         *)
(* Gates are interrupt gates, so handlers do not nest; devices go on       *)
(* raising lines while one runs.  No line is in service when the kernel    *)
(* starts: pic::init resets both controllers.                              *)
(***************************************************************************)
EXTENDS Naturals

CONSTANTS
  Sources,          \* lines on which a device may raise an edge
  Masked,           \* masks found by pic::init, which restores them
  NoLine,           \* no handler is running
  TickRange,        \* 2^32, the range of TICK_COUNT
  TICKS_PER_FRAME,
  MaxLag            \* bound: ticks the main loop may fall behind

Lines == 0 .. 15
TIMER == 0
KEYBOARD == 1
CASCADE == 2
PS2_MOUSE == 12

Half == TickRange \div 2     \* 0x8000_0000

ASSUME InterruptsAssumption ==
  /\ Sources \subseteq Lines \ {CASCADE} /\ {TIMER, KEYBOARD} \subseteq Sources
  /\ Masked \subseteq Lines \ {TIMER, KEYBOARD, CASCADE}
  /\ NoLine \notin Lines
  /\ TickRange \in Nat /\ Half \in Nat /\ TickRange = 2 * Half
  /\ TICKS_PER_FRAME \in Nat \ {0} /\ TICKS_PER_FRAME < Half
  /\ MaxLag \in Nat
  /\ TICKS_PER_FRAME <= MaxLag /\ MaxLag < Half + TICKS_PER_FRAME

VARIABLES
  irr,                \* interrupt requests latched, of both controllers
  isr,                \* lines in service, of both controllers
  handling,           \* the line whose handler runs, or NoLine
  output_full,        \* a byte waits in the keyboard controller
  ticks,              \* TICK_COUNT
  last_frame_ticks,
  pc,                 \* the main loop: "frame", "test", "halt" or "asleep"
  elapsed             \* history: ticks since last_frame_ticks, not wrapped

pics == <<irr, isr, handling>>
clock == <<ticks, last_frame_ticks, elapsed>>
vars == <<pics, output_full, clock, pc>>

-----------------------------------------------------------------------------
(* u32 arithmetic on tick counts *)

wrapping_add(a, b) == IF a + b < TickRange THEN a + b ELSE (a + b) - TickRange
wrapping_sub(a, b) == IF b <= a THEN a - b ELSE (a + TickRange) - b

-----------------------------------------------------------------------------
(* The controllers.  Lines 8 to 15 reach the master through line 2.        *)

OfSlave(n) == n >= 8
Pin(n) == IF OfSlave(n) THEN CASCADE ELSE n

\* A request passes if nothing of its own or higher priority is in service.
Passes(n) ==
  /\ n \in irr \ Masked
  /\ OfSlave(n) => \A s \in isr : OfSlave(s) => n < s
  /\ \A s \in isr : ~ OfSlave(s) => Pin(n) < s

\* n comes before m: by pin of the master, then by line of the slave.
Before(n, m) == Pin(n) < Pin(m) \/ (Pin(n) = Pin(m) /\ n <= m)

\* A non-specific EOI ends the line of highest priority in service.
EndHighest(S) == {n \in S : \E m \in S : m < n}

\* Mutant: the slave gets no EOI.
EoiMasterOnly(vector) == EndHighest({n \in isr : ~ OfSlave(n)})
                           \cup {n \in isr : OfSlave(n)}

\* send_eoi is called with the vector, not with the line.
send_eoi(vector) ==
  LET slave == {n \in isr : OfSlave(n)} IN
  EndHighest(isr \ slave) \cup (IF vector >= 8 THEN EndHighest(slave) ELSE slave)

-----------------------------------------------------------------------------
Init ==
  /\ irr = {} /\ isr = {} /\ handling = NoLine
  /\ output_full = FALSE
  /\ ticks \in 0 .. TickRange - 1
  /\ last_frame_ticks = ticks /\ elapsed = 0
  /\ pc = "frame"

\* The bound: ticks pass while the main loop is busy, up to MaxLag, and
\* whenever it sleeps.
TimeMayPass ==
  \/ elapsed + (IF handling = TIMER THEN 1 ELSE 0) < MaxLag
  \/ pc = "asleep" /\ handling = NoLine

\* The timer fires, or another device raises its line.
Raise(n) ==
  /\ n # KEYBOARD /\ n \notin irr
  /\ n = TIMER => TimeMayPass
  /\ irr' = irr \cup {n}
  /\ UNCHANGED <<isr, handling, output_full, clock, pc>>

\* The keyboard controller has a byte for the kernel, and raises its line
\* again only for the next one.
KeyboardByte ==
  /\ ~ output_full
  /\ output_full' = TRUE
  /\ irr' = irr \cup {KEYBOARD}
  /\ UNCHANGED <<isr, handling, clock, pc>>

\* The CPU takes the request of highest priority and enters its stub.
Acknowledge(n) ==
  /\ handling = NoLine
  /\ Passes(n) /\ \A m \in Lines : Passes(m) => Before(n, m)
  /\ handling' = n
  /\ irr' = irr \ {n}
  /\ isr' = isr \cup {n, Pin(n)}
  /\ UNCHANGED <<output_full, clock, pc>>

\* Mutants: the timer's stub, or the keyboard's, is the default one.
PushedNoTimer(n) == IF n \in {KEYBOARD, PS2_MOUSE} THEN 32 + n ELSE 255
PushedNoKeyboard(n) == IF n \in {TIMER, PS2_MOUSE} THEN 32 + n ELSE 255

\* The vector the stub of line n pushes: irq_stub_default pushes 255.
Pushed(n) == IF n \in {TIMER, KEYBOARD, PS2_MOUSE} THEN 32 + n ELSE 255

\* Mutant: the counter does not wrap.
TickPlain == ticks + 1

\* pit::tick.
tick == wrapping_add(ticks, 1)

\* interrupt_handler, from the stub to the return, which ends a HLT.
interrupt_handler ==
  /\ handling # NoLine
  /\ LET vector == Pushed(handling) IN
     /\ isr' = IF vector \in 32 .. 47 THEN send_eoi(vector) ELSE isr
     /\ IF vector = 32
        THEN ticks' = tick /\ elapsed' = elapsed + 1
        ELSE UNCHANGED <<ticks, elapsed>>
     /\ output_full' = (output_full /\ vector # 33)
  /\ handling' = NoLine
  /\ pc' = IF pc = "asleep" THEN "test" ELSE pc
  /\ UNCHANGED <<irr, last_frame_ticks>>

-----------------------------------------------------------------------------
(* The main loop runs when no handler does. *)

\* A frame is emulated, drawn, perhaps saved, and the keyboard drained.
EndFrame ==
  /\ pc = "frame" /\ handling = NoLine
  /\ pc' = "test"
  /\ UNCHANGED <<pics, output_full, clock>>

target_ticks == wrapping_add(last_frame_ticks, TICKS_PER_FRAME)

\* Mutant: the comparison does not wrap.
TooEarlyPlain == ticks < target_ticks

TooEarly == wrapping_sub(ticks, target_ticks) > Half

\* The test of the pacing loop.
Test ==
  /\ pc = "test" /\ handling = NoLine
  /\ IF TooEarly
     THEN pc' = "halt" /\ UNCHANGED clock
     ELSE /\ pc' = "frame"
          /\ last_frame_ticks' = target_ticks
          /\ elapsed' = elapsed - TICKS_PER_FRAME
          /\ UNCHANGED ticks
  /\ UNCHANGED <<pics, output_full>>

\* HLT; an interrupt since the test does not prevent it.
Hlt ==
  /\ pc = "halt" /\ handling = NoLine
  /\ pc' = "asleep"
  /\ UNCHANGED <<pics, output_full, clock>>

Next ==
  \/ \E n \in Sources : Raise(n)
  \/ KeyboardByte
  \/ \E n \in Lines : Acknowledge(n)
  \/ interrupt_handler
  \/ EndFrame \/ Test \/ Hlt

Spec == Init /\ [][Next]_vars

\* The timer is periodic and of highest priority; handlers are straight-line
\* code, far shorter than a tick, so that the main loop and the keyboard find
\* time again and again (SF).  Other devices and the user owe nothing.
FairSpec ==
  /\ Spec
  /\ WF_vars(Raise(TIMER)) /\ WF_vars(Acknowledge(TIMER))
  /\ SF_vars(Acknowledge(KEYBOARD)) /\ WF_vars(interrupt_handler)
  /\ SF_vars(EndFrame) /\ SF_vars(Test) /\ SF_vars(Hlt)

-----------------------------------------------------------------------------
(* Properties *)

\* The variables hold what the code's types allow.
TypeOK ==
  /\ irr \subseteq Lines /\ isr \subseteq Lines
  /\ handling \in Lines \cup {NoLine}
  /\ output_full \in BOOLEAN
  /\ ticks \in 0 .. TickRange - 1 /\ last_frame_ticks \in 0 .. TickRange - 1
  /\ elapsed \in 0 .. MaxLag + 1
  /\ pc \in {"frame", "test", "halt", "asleep"}

\* The handlers the kernel has (timer, keyboard, mouse) end the interrupt they
\* were called for, although send_eoi is given a vector where it expects a
\* line (pic.rs:204-213) and lines of lower priority may be left in service.
OwnLineEnded ==
  [][handling' = NoLine /\ handling \in {TIMER, KEYBOARD, PS2_MOUSE}
     => {handling, Pin(handling)} \cap isr' = {}]_vars

\* The pacing loop lets the next frame start exactly when its time has come,
\* wherever the 32-bit counters wrap (main.rs:451-460).
PacingExact ==
  [][pc = "test" /\ handling = NoLine /\ pc' # "test"
     => (pc' = "frame" <=> elapsed >= TICKS_PER_FRAME)]_vars

\* Frames go on for ever: no interrupt, whether its handler ends it or not,
\* may keep the timer from waking the main loop.
FramesGoOn == []<>(pc = "frame") /\ []<>(pc # "frame")

\* A byte of the keyboard is read, unless the timer leaves it no moment.
KeyboardServed ==
  []<>(TIMER \notin irr /\ handling = NoLine) => output_full ~> ~ output_full

\* "Other IRQs" end with send_eoi too (idt.rs:410-413): with no handler running
\* nothing is in service.
NothingLeftInService == handling = NoLine => isr = {}
=============================================================================
