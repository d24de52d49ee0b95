-------------------------- MODULE InterruptsProofs --------------------------
(***************************************************************************)
(* Proofs about Interrupts for every set of devices and masks, every range *)
(* of the tick counter and every frame length below half of it.            *)
(***************************************************************************)
EXTENDS Interrupts, TLAPS

Pending == IF TIMER \in irr THEN 1 ELSE 0
InHandler == IF handling = TIMER THEN 1 ELSE 0
Owed == elapsed + Pending + InHandler

LinesOK ==
  /\ irr \subseteq Lines /\ isr \subseteq Lines
  /\ handling \in Lines \cup {NoLine}
RestOK ==
  /\ output_full \in BOOLEAN
  /\ pc \in {"frame", "test", "halt", "asleep"}
ClockOK ==
  /\ ticks \in 0 .. TickRange - 1 /\ last_frame_ticks \in 0 .. TickRange - 1
  /\ elapsed \in Nat

\* What the handler interrupted is of lower priority than its own line.
Served ==
  handling # NoLine =>
    /\ \A s \in isr : ~ OfSlave(s) => Pin(handling) <= s
    /\ OfSlave(handling) => \A s \in isr : OfSlave(s) => handling <= s

\* The wrapped counters agree with the ticks that passed.
InStep == ticks = wrapping_add(last_frame_ticks, elapsed)

\* The ticks passed, latched and being counted stay within the bound.
LagOK ==
  /\ Owed <= MaxLag + 1
  /\ Owed = MaxLag + 1 => elapsed >= MaxLag
  /\ pc = "halt" => Owed <= MaxLag
  /\ pc = "asleep" => elapsed <= MaxLag

Inv == LinesOK /\ RestOK /\ ClockOK /\ Served /\ InStep /\ LagOK

\* The arithmetic of the constants that the steps use.
LEMMA Constants ==
  /\ TickRange \in Nat /\ Half \in Nat /\ TickRange = Half + Half
  /\ TICKS_PER_FRAME \in Nat /\ 0 < TICKS_PER_FRAME /\ TICKS_PER_FRAME < Half
  /\ MaxLag \in Nat /\ TICKS_PER_FRAME <= MaxLag
  /\ MaxLag < Half + TICKS_PER_FRAME
BY InterruptsAssumption

\* The ticks passed, latched and being counted together are few enough for the wrapped counter.
LEMMA OwedIsSmall ==
  ASSUME ClockOK, LagOK
  PROVE  Owed \in Nat /\ elapsed <= Owed /\ elapsed <= MaxLag + 1
BY Constants DEF ClockOK, LagOK, Owed, Pending, InHandler

\* The inductive invariant includes the types.
LEMMA InvImpliesTypeOK == Inv => TypeOK
BY OwedIsSmall, Constants DEF Inv, LinesOK, RestOK, ClockOK, TypeOK

\* The comparison of wrapped counters tells the truth about the ticks passed.
LEMMA ComparisonExact ==
  ASSUME ClockOK, InStep, LagOK
  PROVE  TooEarly <=> elapsed < TICKS_PER_FRAME
<1>1. elapsed \in Nat /\ elapsed <= Half + TICKS_PER_FRAME
  BY OwedIsSmall, Constants DEF ClockOK
<1>2. QED
  BY <1>1, Constants
  DEF ClockOK, InStep, TooEarly, target_ticks, wrapping_add, wrapping_sub

\* The invariant holds when interrupts are enabled.
LEMMA InvInit == Init => Inv
<1> SUFFICES ASSUME Init PROVE Inv
  OBVIOUS
<1>1. LinesOK /\ RestOK /\ Served
  BY DEF Init, LinesOK, RestOK, Served
<1>2. ClockOK /\ InStep
  BY Constants DEF Init, ClockOK, InStep, wrapping_add
<1>3. NoLine # TIMER
  BY InterruptsAssumption DEF Lines, TIMER
<1>4. LagOK
  BY <1>3, Constants DEF Init, LagOK, Owed, Pending, InHandler
<1>5. QED
  BY <1>1, <1>2, <1>4 DEF Inv

-----------------------------------------------------------------------------
(* Inv is preserved by every action. *)

\* A device that raises its line keeps it.
LEMMA RaiseKeeps ==
  ASSUME Inv, NEW n \in Sources, Raise(n)
  PROVE  Inv'
<1>1. n \in Lines
  BY InterruptsAssumption
<1>2. LinesOK' /\ RestOK' /\ ClockOK' /\ Served' /\ InStep'
  BY <1>1 DEF Raise, Inv, LinesOK, RestOK, ClockOK, Served, InStep, clock
<1>3. LagOK'
  <2>1. UNCHANGED <<elapsed, pc, handling>> /\ InHandler' = InHandler
    BY DEF Raise, clock, InHandler
  <2>2. CASE n = TIMER
    <3>1. Pending = 0 /\ Pending' = 1 /\ TimeMayPass
      BY <2>2 DEF Raise, Pending
    <3>2. NoLine # TIMER
      BY InterruptsAssumption DEF Lines, TIMER
    <3>3. QED
      BY <2>1, <3>1, <3>2, Constants
      DEF Inv, ClockOK, LagOK, Owed, InHandler, TimeMayPass
  <2>3. CASE n # TIMER
    <3>1. Pending' = Pending
      BY <2>3 DEF Raise, Pending
    <3>2. QED
      BY <2>1, <3>1 DEF Inv, LagOK, Owed
  <2>4. QED
    BY <2>2, <2>3
<1>4. QED
  BY <1>2, <1>3 DEF Inv

\* So does a byte from the keyboard.
LEMMA KeyboardByteKeeps ==
  ASSUME Inv, KeyboardByte
  PROVE  Inv'
<1>1. LinesOK' /\ RestOK' /\ ClockOK' /\ Served' /\ InStep'
  BY DEF KeyboardByte, Inv, LinesOK, RestOK, ClockOK, Served, InStep, clock,
         Lines, KEYBOARD
<1>2. UNCHANGED <<elapsed, pc>> /\ InHandler' = InHandler /\ Pending' = Pending
  BY DEF KeyboardByte, clock, InHandler, Pending, KEYBOARD, TIMER
<1>3. LagOK'
  BY <1>2 DEF Inv, LagOK, Owed
<1>4. QED
  BY <1>1, <1>3 DEF Inv

\* The line acknowledged comes before all that is in service.
LEMMA AcknowledgeKeeps ==
  ASSUME Inv, NEW n \in Lines, Acknowledge(n)
  PROVE  Inv'
<1>1. Pin(n) \in Lines /\ n \in Nat
  BY DEF Pin, Lines, CASCADE
<1>2. LinesOK' /\ RestOK' /\ ClockOK' /\ InStep'
  BY <1>1 DEF Acknowledge, Inv, LinesOK, RestOK, ClockOK, InStep, clock
<1>3. Served'
  <2>1. ASSUME NEW s \in isr', ~ OfSlave(s) PROVE Pin(n) <= s
    BY <1>1, <2>1 DEF Acknowledge, Passes, Inv, LinesOK, Lines, Pin, OfSlave, CASCADE
  <2>2. ASSUME NEW s \in isr', OfSlave(s), OfSlave(n) PROVE n <= s
    BY <1>1, <2>2 DEF Acknowledge, Passes, Inv, LinesOK, Lines, Pin, OfSlave, CASCADE
  <2>3. QED
    BY <2>1, <2>2 DEF Served, Acknowledge
<1>4. LagOK'
  <2>1. UNCHANGED <<elapsed, pc>>
    BY DEF Acknowledge, clock
  <2>2. Pending' + InHandler' = Pending + InHandler
    <3>1. NoLine # TIMER /\ n \in irr
      BY InterruptsAssumption DEF Lines, TIMER, Acknowledge, Passes
    <3>2. QED
      BY <3>1 DEF Acknowledge, Pending, InHandler
  <2>3. Owed' = Owed
    BY <2>1, <2>2 DEF Owed, Pending, InHandler, Inv, ClockOK
  <2>4. QED
    BY <2>1, <2>3 DEF Inv, LagOK
<1>5. QED
  BY <1>2, <1>3, <1>4 DEF Inv

\* So does a handler, from its entry to its return.
LEMMA HandlerKeeps ==
  ASSUME Inv, interrupt_handler
  PROVE  Inv'
<1> DEFINE vector == Pushed(handling)
<1>1. handling \in Lines /\ NoLine \notin Lines /\ handling' = NoLine
  BY InterruptsAssumption DEF interrupt_handler, Inv, LinesOK
<1>2. vector = 32 <=> handling = TIMER
  BY <1>1 DEF Pushed, TIMER, KEYBOARD, PS2_MOUSE, Lines
<1>3. LinesOK' /\ RestOK' /\ Served'
  <2>1. isr' \subseteq isr
    BY DEF interrupt_handler, send_eoi, EndHighest
  <2>2. QED
    BY <1>1, <2>1 DEF interrupt_handler, Inv, LinesOK, RestOK, Served
<1>4. /\ UNCHANGED <<irr, last_frame_ticks>>
      /\ pc' = IF pc = "asleep" THEN "test" ELSE pc
      /\ IF handling = TIMER THEN ticks' = tick /\ elapsed' = elapsed + 1
         ELSE UNCHANGED <<ticks, elapsed>>
  BY <1>2 DEF interrupt_handler
<1>5. Owed' = Owed
  <2>1. Pending' = Pending /\ InHandler' = 0
    BY <1>1, <1>4 DEF Pending, InHandler, Lines, TIMER
  <2>2. elapsed' = elapsed + InHandler
    BY <1>4 DEF InHandler, Inv, ClockOK
  <2>3. QED
    BY <2>1, <2>2 DEF Owed, Inv, ClockOK, Pending, InHandler
<1>6. ClockOK' /\ InStep'
  <2>1. elapsed \in Nat /\ elapsed <= Half + TICKS_PER_FRAME
    BY OwedIsSmall, Constants DEF Inv, ClockOK
  <2>2. CASE handling = TIMER
    <3>1. elapsed + 1 <= MaxLag + 1
      BY <2>1, <2>2, Constants DEF Inv, ClockOK, LagOK, Owed, Pending, InHandler
    <3>2. QED
      BY <1>4, <2>1, <2>2, <3>1, Constants
      DEF Inv, ClockOK, InStep, tick, wrapping_add
  <2>3. CASE handling # TIMER
    BY <1>4, <2>3 DEF Inv, ClockOK, InStep, wrapping_add
  <2>4. QED
    BY <2>2, <2>3
<1>7. LagOK'
  <2>1. elapsed' >= elapsed /\ pc' # "asleep" /\ (pc' = "halt" => pc = "halt")
    BY <1>4 DEF Inv, ClockOK
  <2>2. elapsed' \in Nat /\ elapsed \in Nat
    BY <1>6 DEF Inv, ClockOK
  <2>3. QED
    BY <1>5, <2>1, <2>2, Constants DEF Inv, LagOK
<1>8. QED
  BY <1>3, <1>6, <1>7 DEF Inv

\* So does the main loop, with its test of the time and its sleep.
LEMMA MainLoopKeeps ==
  ASSUME Inv, EndFrame \/ Test \/ Hlt
  PROVE  Inv'
<1>1. UNCHANGED <<pics, output_full, ticks>> /\ pc' \in {"frame", "test", "halt", "asleep"}
  BY DEF EndFrame, Test, Hlt, clock
<1>2. LinesOK' /\ RestOK' /\ Served'
  BY <1>1 DEF Inv, LinesOK, RestOK, Served, pics
<1>3. Pending' = Pending /\ InHandler' = InHandler
  BY <1>1 DEF pics, Pending, InHandler
<1>4. CASE Test /\ ~ TooEarly
  <2>1. /\ elapsed >= TICKS_PER_FRAME /\ pc' = "frame"
        /\ last_frame_ticks' = target_ticks
        /\ elapsed' = elapsed - TICKS_PER_FRAME
    BY <1>4, ComparisonExact, Constants DEF Test, Inv, ClockOK
  <2>2. elapsed \in Nat /\ elapsed <= Half + TICKS_PER_FRAME
    BY OwedIsSmall, Constants DEF Inv, ClockOK
  <2>3. ClockOK' /\ InStep'
    BY <1>1, <2>1, <2>2, Constants
    DEF Inv, ClockOK, InStep, target_ticks, wrapping_add
  <2>4. LagOK'
    <3>1. Owed' = Owed - TICKS_PER_FRAME
      BY <1>3, <2>1, <2>2, Constants DEF Owed, Pending, InHandler
    <3>2. Owed \in Nat /\ Owed <= MaxLag + 1
      BY OwedIsSmall DEF Inv, LagOK
    <3>3. QED
      BY <2>1, <3>1, <3>2, Constants DEF LagOK
  <2>5. QED
    BY <1>2, <2>3, <2>4 DEF Inv
<1>5. CASE ~ (Test /\ ~ TooEarly)
  <2>1. UNCHANGED clock
    BY <1>5 DEF EndFrame, Test, Hlt
  <2>2. ClockOK' /\ InStep' /\ Owed' = Owed /\ elapsed' = elapsed
    BY <1>1, <1>3, <2>1 DEF Inv, ClockOK, InStep, wrapping_add, clock, Owed
  <2>3. pc' = "halt" => Owed <= MaxLag
    <3>1. pc' = "halt" => elapsed < TICKS_PER_FRAME
      BY <1>5, ComparisonExact DEF EndFrame, Test, Hlt, Inv
    <3>2. QED
      BY <3>1, OwedIsSmall, Constants DEF Inv, LagOK, ClockOK
  <2>4. pc' = "asleep" => elapsed <= MaxLag
    BY <1>5, OwedIsSmall, Constants DEF EndFrame, Test, Hlt, Inv, LagOK, ClockOK
  <2>5. LagOK'
    BY <2>2, <2>3, <2>4 DEF Inv, LagOK
  <2>6. QED
    BY <1>2, <2>2, <2>5 DEF Inv
<1>6. QED
  BY <1>4, <1>5

\* The conjunction is an invariant.
LEMMA Invariance == Spec => []Inv
<1>1. Inv /\ [Next]_vars => Inv'
  <2> SUFFICES ASSUME Inv, [Next]_vars PROVE Inv'
    OBVIOUS
  <2>1. CASE UNCHANGED vars
    BY <2>1 DEF Inv, LinesOK, RestOK, ClockOK, Served, InStep, LagOK, Owed,
                Pending, InHandler, wrapping_add, vars, pics, clock
  <2>2. QED
    BY <2>1, RaiseKeeps, KeyboardByteKeeps, AcknowledgeKeeps, HandlerKeeps,
       MainLoopKeeps DEF Next
<1>2. QED
  BY <1>1, InvInit, PTL DEF Spec

-----------------------------------------------------------------------------
\* Interrupts' variables keep their types; in particular the main loop's lag
\* stays within its bound.
THEOREM TypeCorrect == Spec => []TypeOK
BY Invariance, InvImpliesTypeOK, PTL

\* The timer's, the keyboard's and the mouse's handlers end their own
\* interrupt (idt.rs:528-580), whatever the default stub has left in service.
THEOREM OwnEnded == Spec => OwnLineEnded
<1>1. Inv /\ [Next]_vars =>
        [handling' = NoLine /\ handling \in {TIMER, KEYBOARD, PS2_MOUSE}
           => {handling, Pin(handling)} \cap isr' = {}]_vars
  <2> SUFFICES ASSUME Inv, Next, handling' = NoLine,
                      handling \in {TIMER, KEYBOARD, PS2_MOUSE}
               PROVE  handling \notin isr' /\ Pin(handling) \notin isr'
    BY DEF vars
  <2>1. NoLine \notin Lines /\ handling \in Lines
    BY InterruptsAssumption DEF Lines, TIMER, KEYBOARD, PS2_MOUSE
  <2>2. interrupt_handler
    BY <2>1 DEF Next, Raise, KeyboardByte, Acknowledge, EndFrame, Test, Hlt,
                pics, clock
  <2>3. isr' = send_eoi(32 + handling)
    BY <2>2 DEF interrupt_handler, Pushed, TIMER, KEYBOARD, PS2_MOUSE
  <2>4. /\ \A s \in isr : ~ OfSlave(s) => Pin(handling) <= s
        /\ OfSlave(handling) => \A s \in isr : OfSlave(s) => handling <= s
    BY <2>1 DEF Inv, Served
  <2>5. isr \subseteq Lines /\ 32 + handling >= 8
    BY <2>1 DEF Inv, LinesOK, Lines
  <2>6. QED
    BY <2>1, <2>3, <2>4, <2>5
    DEF send_eoi, EndHighest, OfSlave, Pin, CASCADE, Lines
<1>2. QED
  BY <1>1, Invariance, PTL DEF Spec, OwnLineEnded

\* The pacing loop of the emulator compares wrapped 32-bit counters and never
\* starts a frame early or sleeps when it is due (main.rs:451-460), while the
\* main loop is less than half the counter's range late.
THEOREM Paced == Spec => PacingExact
<1>1. Inv /\ [Next]_vars =>
        [pc = "test" /\ handling = NoLine /\ pc' # "test"
           => (pc' = "frame" <=> elapsed >= TICKS_PER_FRAME)]_vars
  <2> SUFFICES ASSUME Inv, Next, pc = "test", handling = NoLine, pc' # "test"
               PROVE  pc' = "frame" <=> elapsed >= TICKS_PER_FRAME
    BY DEF vars
  <2>1. Test
    BY DEF Next, Raise, KeyboardByte, Acknowledge, interrupt_handler, EndFrame, Hlt
  <2>2. TooEarly <=> elapsed < TICKS_PER_FRAME
    BY ComparisonExact DEF Inv
  <2>3. QED
    BY <2>1, <2>2, Constants DEF Test, Inv, ClockOK
<1>2. QED
  BY <1>1, Invariance, PTL DEF Spec, PacingExact
=============================================================================
