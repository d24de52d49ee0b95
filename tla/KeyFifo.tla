------------------------------ MODULE KeyFifo -------------------------------
(***************************************************************************)
(* What the keyboard buffer promises its readers: key events come out in   *)
(* the order they went in, each once, and an event is lost only when       *)
(* Capacity events are waiting.                                            *)
(***************************************************************************)
EXTENDS Naturals, Sequences

CONSTANTS
  Events,      \* key events
  NoEvent,     \* no event in the reader's hands
  Capacity     \* events the buffer can hold

VARIABLES
  queue,       \* events waiting, oldest first
  hand         \* the event the reader has taken and not yet handled

Init == queue = <<>> /\ hand = NoEvent

Put(e) ==
  /\ queue' = IF Len(queue) < Capacity THEN Append(queue, e) ELSE queue
  /\ UNCHANGED hand

Get ==
  /\ hand = NoEvent /\ queue # <<>>
  /\ hand' = Head(queue)
  /\ queue' = Tail(queue)

Handle ==
  /\ hand # NoEvent
  /\ hand' = NoEvent
  /\ UNCHANGED queue

Next == (\E e \in Events : Put(e)) \/ Get \/ Handle

Spec == Init /\ [][Next]_<<queue, hand>>
=============================================================================
