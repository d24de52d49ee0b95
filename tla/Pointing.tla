------------------------------ MODULE Pointing ------------------------------
(***************************************************************************)
(* Touchpad and mouse (drivers/synaptics.rs, drivers/mouse.rs) and the     *)
(* handler of IRQ 12 that gives each byte to one of the two (idt.rs).      *)
(*                                                                         *)
(* The device sends packets of 3 bytes, or of 6 once it is in absolute     *)
(* mode.  A byte may be lost on the way, and while the driver waits for an *)
(* answer the handler may take it, because AUX interrupts are on by then.  *)
(* A write to the controller may time out; a read that does is ignored.    *)
(***************************************************************************)
EXTENDS GbBits, SequencesExt

CONSTANTS
  ScreenW, ScreenH,     \* the screen the drivers are told of: 800 and 600 by default
  EdgeMargin,           \* edge_margin: 20 in the code
  RelPackets,           \* packets the device may send in relative mode
  AbsPackets,           \* and in absolute mode
  MaxLost, MaxStray,    \* bounds: bytes lost, and answers taken by the handler
  MaxPackets            \* bound: packets sent

ASSUME PointingAssumption ==
  /\ {ScreenW, ScreenH} \subseteq Nat \ {0}
  /\ {EdgeMargin, MaxLost, MaxStray, MaxPackets} \subseteq Nat
  /\ \A p \in RelPackets : Len(p) = 3 /\ p \in Seq(Byte) /\ 3 \in BitsOf(p[1])
  /\ \A p \in AbsPackets : Len(p) = 6 /\ p \in Seq(Byte)

VARIABLES
  step,         \* how far init is: a step, "ready", or "mouse" after an error
  device,       \* the device: is it a Synaptics, its mode, is it reporting
  wire,         \* what is still to come of its packet
  pad,          \* TOUCHPAD: mode, buffer, cursor, buttons, coasting
  mouse,        \* MOUSE: buffer, position, buttons
  clean,        \* history: the buffer in use holds the start of the current packet
  count         \* history: packets sent, bytes lost, answers taken, packets torn, misled;
                \* whole packets left unread, and whether the current one is whole so far

pointVars == <<step, device, wire, pad, mouse, clean, count>>
-----------------------------------------------------------------------------
(* Movement. *)
Clamp(v, n) == IF v < 0 THEN 0 ELSE IF v > n - 1 THEN n - 1 ELSE v
Sign(v) == IF v > 0 THEN 1 ELSE IF v < 0 THEN -1 ELSE 0
AbsVal(v) == IF v < 0 THEN -v ELSE v

\* dx and dy of a relative packet: sign bits first, then the overflow bits.
Delta(flags, v, sign, overflow) ==
  IF overflow \in BitsOf(flags) THEN 0 ELSE IF sign \in BitsOf(flags) THEN v - 256 ELSE v
Dx(p) == Delta(p[1], p[2], 4, 6)
Dy(p) == Delta(p[1], p[3], 5, 7)
Buttons(p) == BitsOf(p[1]) \cap 0..2

process_packet(m) ==
  [m EXCEPT !.packet = <<>>, !.x = Clamp(@ + Dx(m.packet), ScreenW),
            !.y = Clamp(@ - Dy(m.packet), ScreenH), !.buttons = Buttons(m.packet)]

update_edge_coasting(t, dx, dy) ==
  IF \/ t.x <= EdgeMargin /\ dx < 0
     \/ t.x >= ScreenW - EdgeMargin /\ dx > 0
     \/ t.y <= EdgeMargin /\ dy > 0
     \/ t.y >= ScreenH - EdgeMargin /\ dy < 0
  THEN [t EXCEPT !.coast = <<TRUE, Sign(dx) * 2, -(Sign(dy) * 2)>>]
  ELSE IF AbsVal(dx) > 2 \/ AbsVal(dy) > 2 THEN [t EXCEPT !.coast = <<FALSE, 0, 0>>]
  ELSE t

Sensitivity == 2
parse_relative_packet(t) ==
  LET dx == Dx(t.packet)
      dy == Dy(t.packet)
      u  == update_edge_coasting([t EXCEPT !.buttons = Buttons(t.packet)], dx, dy)
      by == IF u.coast[1] THEN <<u.coast[2], u.coast[3]>> ELSE <<dx * Sensitivity, -(dy * Sensitivity)>>
  IN  [u EXCEPT !.packet = <<>>, !.x = Clamp(@ + by[1], ScreenW), !.y = Clamp(@ + by[2], ScreenH)]

TouchpadMax == 6143
\* Byte 2 is the middle of X and the pressure at once; the buttons are read from
\* bits that are clear in every first byte.
parse_absolute_packet(t) ==
  LET p  == t.packet
      x  == p[2] + 256 * Or8(p[3], Nibble(p[5]) * 16)
      y  == p[6] + 256 * (p[5] \div 16)
      nx == (x * ScreenW) \div TouchpadMax
      ny == ((TouchpadMax - y) * ScreenH) \div TouchpadMax
      u  == [t EXCEPT !.packet = <<>>, !.buttons = BitsOf(p[1]) \cap 0..1]
  IN  IF p[3] > 10
      THEN [u EXCEPT !.x = Clamp((@ * 3 + nx) \div 4, ScreenW), !.y = Clamp((@ * 3 + ny) \div 4, ScreenH)]
      ELSE u
-----------------------------------------------------------------------------
(* The decoders.  Take gives the decoder after a byte, whether it kept the *)
(* byte, as first of a packet or a later one, and whether a packet is full.*)

Kept(d, b)   == [d |-> [d EXCEPT !.packet = Append(@, b)], kept |-> TRUE]
Dropped(d)   == [d |-> d, kept |-> FALSE]

LooksRelative(b) == 3 \in BitsOf(b)
Masked(b) == BitsOf(b) \ (2..5)     \* b & 0xC3
FirstOfSix(b)  == Masked(b) = {7}
FourthOfSix(b) == Masked(b) = {0, 7}

\* Mutant: takes any byte for the first of a packet.
RelativeByte_any(d, b) == Kept(d, b)
RelativeByte(d, b) ==
  IF d.packet = <<>> /\ ~LooksRelative(b) THEN Dropped(d) ELSE Kept(d, b)

\* A first byte that is none but could be one of a relative packet ends absolute mode.
AbsoluteByte(d, b) ==
  CASE d.packet = <<>> /\ ~FirstOfSix(b) ->
         IF LooksRelative(b) THEN RelativeByte([d EXCEPT !.mode = "relative"], b) ELSE Dropped(d)
    [] Len(d.packet) = 3 /\ ~FourthOfSix(b) -> Dropped([d EXCEPT !.packet = <<>>])
    [] OTHER -> Kept(d, b)

Length(mode) == IF mode = "relative" THEN 3 ELSE 6
Full(d) == Len(d.packet) = Length(d.mode)

Parsed(d) == CASE d.is = "mouse" -> process_packet(d)
               [] d.is = "pad" /\ d.mode = "relative" -> parse_relative_packet(d)
               [] d.is = "pad" /\ d.mode = "absolute" -> parse_absolute_packet(d)

\* The bits the decoder asks for in two bytes of six: not those of a packet sent
\* while a button is down.
Checked(b, index) ==
  device.mode = "absolute" => (index = 1 => FirstOfSix(b)) /\ (index = 4 => FourthOfSix(b))

\* mouse_handler: the byte goes to the touchpad if that is initialised.  index is
\* the byte's place in the device's packet, 0 for an answer.
Handle(b, index) ==
  LET d == IF pad.is_initialized THEN pad ELSE mouse
      t == IF d.mode = "relative" THEN RelativeByte(d, b) ELSE AbsoluteByte(d, b)
      e == t.d
      first == Len(e.packet) = 1
      ok == IF first THEN index = 1 ELSE clean /\ index = Len(e.packet)
      done == t.kept /\ Full(e)
      after == IF done THEN Parsed(e) ELSE e
      whole == count.whole /\ Checked(b, index)
  IN  /\ IF pad.is_initialized THEN pad' = after /\ mouse' = mouse ELSE mouse' = after /\ pad' = pad
      /\ clean' = IF t.kept THEN ok ELSE clean
      /\ count' = [count EXCEPT
                     !.misled = @ \/ (t.kept /\ first /\ index # 0 /\ (index # 1 \/ e.mode # device.mode)
                                     /\ (LooksRelative(b) \/ FirstOfSix(b))),
                     !.torn = @ + (IF done /\ ~ok /\ ~count.misled THEN 1 ELSE 0),
                     !.stray = @ + (IF index = 0 THEN 1 ELSE 0),
                     !.whole = whole,
                     !.unread = @ + (IF index = Length(device.mode) /\ whole /\ ~(done /\ ok) THEN 1 ELSE 0)]
-----------------------------------------------------------------------------
(* The device and the line. *)

Send ==
  /\ device.reporting /\ wire = <<>> /\ count.sent < MaxPackets
  /\ \E p \in IF device.mode = "relative" THEN RelPackets ELSE AbsPackets :
       wire' = [i \in DOMAIN p |-> <<p[i], i>>]
  /\ count' = [count EXCEPT !.sent = @ + 1, !.whole = TRUE]
  /\ UNCHANGED <<step, device, pad, mouse, clean>>

Irq12 ==
  /\ wire # <<>>
  /\ Handle(Head(wire)[1], Head(wire)[2])
  /\ wire' = Tail(wire)
  /\ UNCHANGED <<step, device>>

Lose ==
  /\ wire # <<>> /\ count.lost < MaxLost
  /\ wire' = Tail(wire)
  /\ count' = [count EXCEPT !.lost = @ + 1, !.whole = FALSE]
  /\ clean' = FALSE
  /\ UNCHANGED <<step, device, pad, mouse>>

\* An answer that nobody waits for any more, or that the handler is faster to read.
Stray ==
  /\ step \notin {"aux", "config"} /\ count.stray < MaxStray /\ wire = <<>>
  /\ \E b \in {250, 170, 0} : Handle(b, 0)
  /\ UNCHANGED <<step, device, wire>>
-----------------------------------------------------------------------------
(* SynapticsTouchpad::init, from one group of commands to the next, and    *)
(* mouse::init, which init_all_drivers tries after an error.               *)

NextStep == [aux |-> "config", config |-> "reset", reset |-> "defaults", defaults |-> "identify",
             query |-> "absolute", absolute |-> "rate", rate |-> "resolution",
             resolution |-> "enable", enable |-> "ready"]

\* The commands the device obeys, when all of a group reach it.
Obeyed(s) ==
  CASE s = "reset"    -> [device EXCEPT !.mode = "relative", !.reporting = FALSE]
    [] s = "absolute" -> [device EXCEPT !.mode = IF @ = "relative" /\ device.obeys THEN "absolute" ELSE @]
    [] s = "enable"   -> [device EXCEPT !.reporting = TRUE]
    [] OTHER          -> device

Commands ==
  /\ step \in DOMAIN NextStep
  /\ step' = NextStep[step]
  /\ device' = Obeyed(step)
  /\ pad' = CASE step = "absolute" -> [pad EXCEPT !.mode = "absolute"]
              [] step = "enable"   -> [pad EXCEPT !.is_initialized = TRUE, !.packet = <<>>]
              [] OTHER -> pad
  /\ UNCHANGED <<wire, mouse, clean, count>>

\* An answer that was not read counts as that of another device.
Identify ==
  /\ step = "identify"
  /\ \E yes \in {FALSE, device.synaptics} : step' = IF yes THEN "query" ELSE "rate"
  /\ UNCHANGED <<device, wire, pad, mouse, clean, count>>

\* A write that times out: the questions to a Synaptics do without, the rest fails.
WriteTimeout ==
  /\ step \in DOMAIN NextStep \cup {"identify"}
  /\ step' = CASE step = "identify" -> "rate"
               [] step \in {"query", "absolute"} -> NextStep[step]
               [] OTHER -> "failed"
  /\ UNCHANGED <<device, wire, pad, mouse, clean, count>>

MouseInit ==
  /\ step = "failed"
  /\ step' = "mouse"
  /\ device' = [device EXCEPT !.reporting = TRUE]
  /\ mouse' = [mouse EXCEPT !.x = ScreenW \div 2, !.y = ScreenH \div 2]
  /\ UNCHANGED <<wire, pad, clean, count>>
-----------------------------------------------------------------------------
Decoder(is, x, y) == [is |-> is, is_initialized |-> FALSE, mode |-> "relative", packet |-> <<>>,
                      x |-> x, y |-> y, buttons |-> {}, coast |-> <<FALSE, 0, 0>>]
PointInit(kinds) ==
  /\ step = "aux"
  /\ \E k \in kinds : device = [synaptics |-> k # "mouse", obeys |-> k = "synaptics",
                                mode |-> "relative", reporting |-> FALSE]
  /\ wire = <<>>
  /\ pad = Decoder("pad", ScreenW \div 2, ScreenH \div 2)
  /\ mouse = Decoder("mouse", 0, 0)
  /\ clean = TRUE
  /\ count = [sent |-> 0, lost |-> 0, stray |-> 0, torn |-> 0, misled |-> FALSE, unread |-> 0, whole |-> FALSE]

PointNext == Send \/ Irq12 \/ Lose \/ Stray \/ Commands \/ Identify \/ WriteTimeout \/ MouseInit

\* Unless a byte inside a packet, or one of the other protocol, was taken for a first
\* byte: each byte lost and each answer taken by the handler tears one packet at most.
\* As long as no answer came late, each byte lost costs one packet at most of those that
\* arrive whole and with the bits the decoder asks for: the one that gives its first
\* bytes to the end of a packet cut short is not read, the next one is; and the decoder
\* stays in the device's mode.  (After an error of its init the touchpad may be left in
\* absolute mode, which the mouse's decoder does not know.)
OneTornPacket ==
  ~count.misled =>
    /\ count.torn <= count.lost + count.stray
    /\ count.stray = 0 /\ (step = "ready" \/ device.mode = "relative") => count.unread <= count.lost
    /\ step = "ready" /\ count.stray = 0 /\ pad.mode # device.mode =>
         device.mode = "relative" /\ pad.packet = <<>>
=============================================================================
