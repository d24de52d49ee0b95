------------------------------- MODULE Chains -------------------------------
(***************************************************************************)
(* Event chains (event_chains/*.rs) and the two that the kernel builds:    *)
(* driver initialisation (drivers/init.rs) and a system call               *)
(* (syscall/mod.rs).  Middleware is entered last added first, then the     *)
(* event runs, then each is left again; one that retries goes back in.     *)
(*                                                                         *)
(* What the hardware answers is chosen when a driver's event runs.         *)
(***************************************************************************)
EXTENDS Integers, Sequences, SequencesExt

CONSTANTS
  MaxEvents,        \* MAX_EVENTS: 16 in the code
  MaxMiddleware,    \* MAX_MIDDLEWARE: 8
  MaxFailures,      \* MAX_FAILURES of a result: 16
  MaxEntries,       \* MAX_ENTRIES of a context: 32
  Built             \* what callers build: see Chain

ASSUME ChainAssumption ==
  /\ {MaxEvents, MaxMiddleware, MaxFailures, MaxEntries} \subseteq Nat
  /\ MaxFailures # 0

VARIABLES
  chain,        \* EventChain or StaticChain: events, middleware and mode
  context,      \* EventContext
  at,           \* the event that is next or running, and how deep in the middleware
  answer,       \* its EventResult, "none" while it goes down
  tries,        \* attempts left of the retrying middleware that were entered
  result,       \* ChainResult
  touched,      \* history: the drivers started, in order, with the screen they were given
  ran           \* history: the events run, in order, and how they ended

chainVars == <<chain, context, at, answer, tries, result, touched, ran>>
-----------------------------------------------------------------------------
(* context.rs *)
Has(c, key) == key \in DOMAIN c
\* A new key is dropped when the context is full.
Set(c, key, v) ==
  IF ~Has(c, key) /\ Cardinality(DOMAIN c) >= MaxEntries THEN c
  ELSE [k \in DOMAIN c \cup {key} |-> IF k = key THEN v ELSE c[k]]
SetAll(c, pairs) ==
  LET after[n \in 0..Len(pairs)] == IF n = 0 THEN c ELSE Set(after[n - 1], pairs[n][1], pairs[n][2])
  IN  after[Len(pairs)]
GetOr(c, key, v) == IF Has(c, key) THEN c[key] ELSE v
-----------------------------------------------------------------------------
(* chain.rs: building a chain.  An EventChain ignores what is beyond its   *)
(* capacity; a StaticChain is as long as it was built, without middleware. *)
Upto(s, n) == SubSeq(s, 1, IF Len(s) < n THEN Len(s) ELSE n)
Chain(b) ==
  IF b.static THEN [events |-> b.events, mws |-> <<>>, mode |-> b.mode, static |-> TRUE]
  ELSE [events |-> Upto(b.events, MaxEvents), mws |-> Upto(b.mws, MaxMiddleware),
        mode |-> b.mode, static |-> FALSE]

Success == [success |-> TRUE, status |-> "Completed", failures |-> <<>>]
Failures == {"failure", "middleware_failure"}
Event == chain.events[at.event]
\* The next middleware to enter, and the last entered.
Below == chain.mws[Len(chain.mws) - at.depth]
Above == chain.mws[Len(chain.mws) - at.depth + 1]

DependencyMet(c, e) == e \in {"synaptics_init", "ps2_mouse_init"} => Has(c, "scr_width")

\* The ring is read as a u32 and kept in a u8.
Refuses(mw, c, e) ==
  \/ mw.kind = "dependency" /\ ~DependencyMet(c, e)
  \/ mw.kind = "permission" /\ GetOr(c, "ring", 0) % 256 > mw.ring
-----------------------------------------------------------------------------
(* drivers/init.rs: what an event does with the context, and its result.   *)
(* hw is what the hardware answers.                                        *)

Done(c) == [context |-> c, answer |-> "success", touched |-> touched]
Failed(c) == [context |-> c, answer |-> "failure", touched |-> touched]
Started(c, driver, screen) == [Done(c) EXCEPT !.touched = Append(@, <<driver, screen>>)]
Screen(c) == GetOr(c, "scr_width", "default")

Framebuffer(gpu, screen, cursor) ==
  << <<"gpu_init", TRUE>>, <<"gpu_type", gpu>>, <<"fb_addr", screen>>, <<"fb_width", screen>>, <<"fb_height", screen>>,
     <<"fb_bpp", screen>>, <<"fb_pitch", screen>>, <<"hw_cursor", cursor>> >>

ati_rage_probe(c, hw) ==
  IF hw = "works" THEN Started(SetAll(c, Framebuffer("ATI_RAGE", "800x600", TRUE)), "ati_rage", "800x600")
  ELSE Failed(c)

VesaKeys == {"vesa_addr", "vesa_w", "vesa_h", "vesa_bpp", "vesa_pitch"}
vesa_fallback(c, hw) ==
  IF GetOr(c, "gpu_init", FALSE) THEN Done(c)
  ELSE IF ~(VesaKeys \subseteq DOMAIN c) THEN Failed(c)
  ELSE Done(SetAll(c, Framebuffer("VESA", c["vesa_w"], FALSE)))

framebuffer_init(c, hw) ==
  IF ~({"fb_addr", "fb_width", "fb_height", "fb_bpp", "fb_pitch"} \subseteq DOMAIN c) THEN Failed(c)
  ELSE Started(SetAll(c, << <<"scr_width", c["fb_width"]>>, <<"scr_height", c["fb_height"]>> >>),
               "framebuffer", c["fb_width"])

\* An error may come after the touchpad's first commands.
synaptics_init(c, hw) ==
  IF GetOr(c, "input_init", FALSE) THEN Done(c)
  ELSE IF hw = "fails" THEN Failed(c)
  ELSE Started(SetAll(c, << <<"input_init", TRUE>>,
                            <<"input_type", IF hw = "works" THEN "SYNAPTICS" ELSE "PS2_VIA_SYNAPTICS">> >>),
               "synaptics", Screen(c))

ps2_mouse_init(c, hw) ==
  IF GetOr(c, "input_init", FALSE) THEN Done(c)
  ELSE Started(SetAll(c, << <<"input_init", TRUE>>, <<"input_type", "PS2_MOUSE">> >>), "mouse", Screen(c))

keyboard_init(c, hw) == Done(Set(c, "kb_init", TRUE))
-----------------------------------------------------------------------------
(* syscall/mod.rs.  Calls that nothing implements are sys_unknown. *)
Calls == {"Exit", "Read", "Write", "GetPid", "Yield", "Sleep", "Time", "Unknown"}
event_of(number) == CASE number = 0 -> "Exit" [] number = 1 -> "Read" [] number = 2 -> "Write"
                      [] number = 5 -> "GetPid" [] number = 12 -> "Yield" [] number = 13 -> "Sleep"
                      [] number = 14 -> "Time" [] OTHER -> "Unknown"
U32Max == -1    \* as the caller reads it

\* The scheduler's pid and the timer's count come from outside.
syscall(e, c, hw) ==
  CASE e = "Write"  -> Done(Set(c, "result", IF GetOr(c, "arg1", 0) \in {1, 2} THEN GetOr(c, "arg3", 0) ELSE 0))
    [] e = "GetPid" -> Done(Set(c, "result", hw))
    [] e = "Time"   -> Done(SetAll(c, << <<"result64", hw>>, <<"result", hw>> >>))
    [] e = "Yield"  -> Done(c)
    [] e = "Unknown" -> Failed(Set(c, "result", U32Max))
    [] e \in {"Exit", "Read", "Sleep"} -> Done(Set(c, "result", 0))

\* handle_syscall's return value.
ReturnValue == IF result.success THEN GetOr(context, "result", 0) ELSE U32Max
-----------------------------------------------------------------------------
(* What callers build: the kernel's chain of drivers, its chains of one    *)
(* call, and any others of events of their own.                            *)
Drivers == <<"ati_rage_probe", "vesa_fallback", "framebuffer_init", "synaptics_init", "ps2_mouse_init", "keyboard_init">>
DriverKeys == VesaKeys \cup {"gpu_init", "gpu_type", "fb_addr", "fb_width", "fb_height", "fb_bpp", "fb_pitch", "hw_cursor",
                             "scr_width", "scr_height", "input_init", "input_type", "kb_init"}
Events == ToSet(Drivers) \cup Calls \cup {"any"}
Middleware == [kind : {"logging", "audit", "dependency"}] \cup [kind : {"permission"}, ring : 0..255]
              \cup [kind : {"retry"}, max_retries : Nat]
KeysOf(pairs) == {pairs[i][1] : i \in DOMAIN pairs}

\* All that init_all_drivers is told of is the boot loader's screen; vesa_fallback
\* also allows for none.
BuildsDrivers(b) ==
  /\ ~b.static /\ b.events = Drivers /\ b.mode = "BestEffort" /\ KeysOf(b.context) \in {VesaKeys, {}}
  /\ \A i \in DOMAIN b.mws : b.mws[i].kind \in {"logging", "dependency"}
  /\ \E i \in DOMAIN b.mws : b.mws[i].kind = "dependency"
  /\ Len(b.events) <= MaxEvents /\ Len(b.mws) <= MaxMiddleware /\ Cardinality(DriverKeys) <= MaxEntries
\* A write answers its count, so that one of 2^32 - 1 bytes would read as refused:
\* a caller that wants to tell asks for less.
BuildsCall(b) ==
  /\ Len(b.events) = 1 /\ b.mode = "Strict" /\ "result" \notin KeysOf(b.context)
  /\ \A i \in DOMAIN b.context : b.context[i][1] = "arg3" => b.context[i][2] # U32Max
ASSUME BuiltAssumption ==
  /\ Built # {}
  /\ \A b \in Built :
       /\ b.static \in BOOLEAN /\ b.events \in Seq(Events) /\ b.mws \in Seq(Middleware) /\ Len(b.context) \in Nat
       /\ DOMAIN b.context = 1..Len(b.context)
       /\ "keyboard_init" \in ToSet(b.events) => BuildsDrivers(b)
       /\ b.events # <<>> /\ b.events[1] \in Calls => BuildsCall(b)
-----------------------------------------------------------------------------
(* chain.rs and middleware.rs: executing a chain. *)

\* What may come from outside while an event runs; "any" is an event of a caller.
Outside(e) ==
  CASE e = "ati_rage_probe" -> {"works", "fails"}
    [] e = "synaptics_init" -> {"works", "relative", "fails"}
    [] e = "any"            -> {"success"} \cup Failures
    [] e \in {"GetPid", "Time"} -> {0, 7}
    [] OTHER                -> {"nothing"}

Run(e, c, hw) ==
  CASE e = "ati_rage_probe"   -> ati_rage_probe(c, hw)
    [] e = "vesa_fallback"    -> vesa_fallback(c, hw)
    [] e = "framebuffer_init" -> framebuffer_init(c, hw)
    [] e = "synaptics_init"   -> synaptics_init(c, hw)
    [] e = "ps2_mouse_init"   -> ps2_mouse_init(c, hw)
    [] e = "keyboard_init"    -> keyboard_init(c, hw)
    [] e = "any"              -> [Done(c) EXCEPT !.answer = hw]
    [] OTHER                  -> syscall(e, c, hw)

Executing == at.event <= Len(chain.events) /\ result.status = "Completed"

\* A middleware passes the event on, or refuses it.
Enter ==
  /\ Executing /\ answer = "none" /\ at.depth < Len(chain.mws)
  /\ IF Refuses(Below, context, Event)
     THEN answer' = "failure" /\ UNCHANGED <<at, tries>>
     ELSE /\ at' = [at EXCEPT !.depth = @ + 1]
          /\ tries' = IF Below.kind = "retry" THEN Append(tries, Below.max_retries) ELSE tries
          /\ answer' = answer
  /\ UNCHANGED <<chain, context, result, touched, ran>>

Execute ==
  /\ Executing /\ answer = "none" /\ at.depth = Len(chain.mws)
  /\ \E hw \in Outside(Event) :
       LET r == Run(Event, context, hw)
       IN  /\ context' = r.context
           /\ answer' = r.answer
           /\ touched' = r.touched
           /\ ran' = Append(ran, <<at.event, r.answer>>)
  /\ UNCHANGED <<chain, at, tries, result>>

\* 0..=max_retries attempts in all.
\* Mutant: tries again after a success too.
TryAgain_always(mw, a) == mw.kind = "retry" /\ Last(tries) > 0
TryAgain(mw, a) == mw.kind = "retry" /\ a \in Failures /\ Last(tries) > 0

Leave ==
  /\ Executing /\ answer # "none" /\ at.depth > 0
  /\ IF TryAgain(Above, answer)
     THEN /\ answer' = "none"
          /\ tries' = [tries EXCEPT ![Len(tries)] = @ - 1]
          /\ at' = at
     ELSE /\ at' = [at EXCEPT !.depth = @ - 1]
          /\ tries' = IF Above.kind = "retry" THEN Front(tries) ELSE tries
          /\ answer' = answer
  /\ UNCHANGED <<chain, context, result, touched, ran>>

\* A static chain makes no difference between Lenient and BestEffort.
Stops(mode, a) ==
  mode = "Strict" \/ (mode = "BestEffort" /\ ~chain.static /\ a = "middleware_failure")

add_failure(r) == IF Len(r.failures) < MaxFailures THEN [r EXCEPT !.failures = Append(@, at.event)] ELSE r

Settle ==
  /\ Executing /\ answer # "none" /\ at.depth = 0
  /\ LET failed == answer \in Failures
         r      == IF failed THEN add_failure(result) ELSE result
     IN  result' = IF failed /\ Stops(chain.mode, answer) THEN [r EXCEPT !.success = FALSE, !.status = "Failed"]
                   ELSE IF at.event = Len(chain.events) /\ r.failures # <<>>
                        THEN [r EXCEPT !.status = "CompletedWithWarnings"] ELSE r
  /\ at' = [at EXCEPT !.event = @ + 1]
  /\ answer' = "none"
  /\ UNCHANGED <<chain, context, tries, touched, ran>>
-----------------------------------------------------------------------------
ChainInit(built) ==
  /\ \E b \in built : chain = Chain(b) /\ context = SetAll(<<>>, b.context)
  /\ at = [event |-> 1, depth |-> 0]
  /\ answer = "none"
  /\ tries = <<>>
  /\ result = Success
  /\ touched = <<>>
  /\ ran = <<>>

ChainNext == Enter \/ Execute \/ Leave \/ Settle

\* Reports are exact: each event reached succeeds once at most and is not run
\* again then; those that never did are reported, in order, as far as a result has
\* room; events are left out behind a failure that ends the chain, and then only.
Reached == at.event - 1
Reported(i) == i \in ToSet(result.failures)
LeftOut(i) == Len(result.failures) = MaxFailures /\ \A j \in ToSet(result.failures) : j < i
Succeeded == {i \in 1..Len(chain.events) : <<i, "success">> \in ToSet(ran)}
ReportsExact ==
  ~Executing =>
    /\ \A j, k \in DOMAIN ran : j < k => ran[j][1] <= ran[k][1] /\ ran[j] # <<ran[k][1], "success">>
    /\ ToSet(result.failures) \subseteq 1..Reached \ Succeeded
    /\ \A i \in 1..Reached \ Succeeded : Reported(i) \/ LeftOut(i)
    /\ \A j, k \in DOMAIN result.failures : j < k => result.failures[j] < result.failures[k]
    /\ result.success = (Reached = Len(chain.events) /\ result.status # "Failed")
    /\ result.status = "Failed" => Reached \notin Succeeded
    /\ (result.status = "Completed") = (result.failures = <<>>)

\* Drivers: one screen, which is also the one the pointing device was told of,
\* one pointing device, and a failure of one driver stops no other.
StartsOf(drivers) == {i \in DOMAIN touched : touched[i][1] \in drivers}
Once(S) == \A i, j \in S : i = j
DriversReady ==
  ~Executing /\ "keyboard_init" \in ToSet(chain.events) =>
    LET screens == StartsOf({"framebuffer"})
        pointers == StartsOf({"synaptics", "mouse"})
    IN  /\ result.success /\ Has(context, "kb_init")
        /\ (GetOr(context, "gpu_type", "UNKNOWN") = "ATI_RAGE") = (StartsOf({"ati_rage"}) # {})
        /\ Once(screens) /\ Once(pointers) /\ (screens = {}) = (pointers = {})
        /\ \A i \in screens \cup pointers : touched[i][2] = GetOr(context, "fb_width", "none")
        /\ Has(context, "vesa_addr") => screens # {}

\* System calls: the caller reads u32::MAX when the call was refused, which then was
\* not run, or is not implemented, and only then.
CallsAnswer ==
  ~Executing /\ chain.events # <<>> /\ chain.events[1] \in Calls =>
    (ReturnValue = U32Max) = (ran = <<>> \/ chain.events[1] = "Unknown")

ChainsDeliver == ReportsExact /\ DriversReady /\ CallsAnswer
=============================================================================
