--------------------------- MODULE KeyboardProofs ---------------------------
(***************************************************************************)
(* Proofs about Keyboard for every ring size and every set of scancodes:   *)
(* the ring buffer, with get_key interrupted between its two steps,        *)
(* implements the bounded queue of KeyFifo.                                *)
(***************************************************************************)
EXTENDS Keyboard, SequenceTheorems, TLAPS

N == KEY_BUFFER_SIZE

\* Arithmetic of the ring, for any reader and writer positions.
IndicesOK == read_idx \in Indices /\ write_idx \in Indices

\* The slots from read_idx on, around the wrap: how many are waiting, and where they are.
LEMMA RingArithmetic ==
  ASSUME IndicesOK
  PROVE  /\ Waiting \in 0 .. N - 1
         /\ RingEmpty <=> Waiting = 0
         /\ RingFull <=> Waiting = N - 1
         /\ SlotAt(0) = read_idx
         /\ SlotAt(Waiting) = write_idx
         /\ SlotAt(N - 1) = Pred(read_idx)
BY KeyboardAssumption
DEF IndicesOK, Indices, N, Waiting, RingEmpty, RingFull, SlotAt, Succ, Pred

\* Walking once around the ring from read_idx meets every slot once.
LEMMA SlotAtBijective ==
  ASSUME IndicesOK
  PROVE  /\ \A n \in Indices : SlotAt(n) \in Indices
         /\ \A m, n \in Indices : SlotAt(m) = SlotAt(n) => m = n
         /\ \A i \in Indices : \E n \in Indices : SlotAt(n) = i
<1>1. \A n \in Indices : SlotAt(n) \in Indices
  BY KeyboardAssumption DEF IndicesOK, Indices, SlotAt
<1>2. \A m, n \in Indices : SlotAt(m) = SlotAt(n) => m = n
  BY KeyboardAssumption DEF IndicesOK, Indices, SlotAt
<1>3. ASSUME NEW i \in Indices PROVE \E n \in Indices : SlotAt(n) = i
  <2> DEFINE n == IF i >= read_idx THEN i - read_idx ELSE N - read_idx + i
  <2>1. n \in Indices /\ SlotAt(n) = i
    BY KeyboardAssumption DEF IndicesOK, Indices, SlotAt, N
  <2>2. QED
    BY <2>1
<1>4. QED
  BY <1>1, <1>2, <1>3

\* What a step of the writer does to the count and to the slots.
LEMMA WriterArithmetic ==
  ASSUME IndicesOK, ~ RingFull, write_idx' = Succ(write_idx), read_idx' = read_idx
  PROVE  /\ write_idx' \in Indices
         /\ Waiting' = Waiting + 1
         /\ \A n \in Indices : SlotAt(n)' = SlotAt(n)
BY KeyboardAssumption
DEF IndicesOK, Indices, Waiting, RingFull, SlotAt, Succ

\* What a step of the reader does to the count and to the slots.
LEMMA ReaderArithmetic ==
  ASSUME IndicesOK, ~ RingEmpty, read_idx' = Succ(read_idx), write_idx' = write_idx
  PROVE  /\ read_idx' \in Indices
         /\ Waiting' = Waiting - 1
         /\ \A n \in 0 .. N - 2 : SlotAt(n)' = SlotAt(n + 1)
         /\ Pred(read_idx)' = read_idx
         /\ SlotAt(N - 1)' = SlotAt(0)
BY KeyboardAssumption
DEF IndicesOK, Indices, N, Waiting, RingEmpty, SlotAt, Succ, Pred

-----------------------------------------------------------------------------
\* A scancode that is not a prefix stands for an event.
LEMMA ParsedEvent ==
  ASSUME extended \in BOOLEAN, NEW b \in Bytes
  PROVE  /\ PrefixAfter(b) \in BOOLEAN
         /\ IsCode(b) => EventOf(b) \in Events
BY DEF Bytes, PrefixAfter, IsCode, EventOf, Events, Scancodes, KeyCodes

\* Keyboard's variables keep their types, for every ring size of two or more.
THEOREM TypeCorrect == Spec => []TypeOK
<1>1. Init => TypeOK
  <2>1. 0 \in Indices
    BY KeyboardAssumption DEF Indices
  <2>2. QED
    BY <2>1 DEF Init, TypeOK
<1>2. TypeOK /\ [Next]_vars => TypeOK'
  <2> SUFFICES ASSUME TypeOK, [Next]_vars PROVE TypeOK'
    OBVIOUS
  <2> USE DEF TypeOK
  <2>s. /\ \A i \in Indices : Succ(i) \in Indices
        /\ \A i \in Indices : Pred(i) \in Indices
    BY KeyboardAssumption DEF Indices, Succ, Pred
  <2>1. ASSUME NEW b \in Bytes, process_scancode(b) PROVE TypeOK'
    <3>1. extended' \in BOOLEAN
      BY <2>1, ParsedEvent DEF process_scancode
    <3>2. buffer' \in [Indices -> Events \cup {NoEvent}] /\ write_idx' \in Indices
      <4>1. CASE IsCode(b)
        BY <2>1, <2>s, <4>1, ParsedEvent DEF process_scancode, BufferEvent
      <4>2. CASE ~ IsCode(b)
        BY <2>1, <4>2 DEF process_scancode
      <4>3. QED
        BY <4>1, <4>2
    <3>3. QED
      BY <2>1, <3>1, <3>2 DEF process_scancode, reader
  <2>2. CASE TakeSlot
    BY <2>2 DEF TakeSlot
  <2>3. CASE ThenAdvance
    BY <2>3, <2>s DEF ThenAdvance
  <2>4. CASE AdvanceFirst
    BY <2>4, <2>s DEF AdvanceFirst
  <2>5. CASE ThenTakeSlot
    BY <2>5, <2>s DEF ThenTakeSlot
  <2>6. CASE HandleKey
    BY <2>6 DEF HandleKey, ring
  <2>7. CASE UNCHANGED vars
    BY <2>7 DEF vars, ring, reader
  <2>8. QED
    BY <2>1, <2>2, <2>3, <2>4, <2>5, <2>6, <2>7 DEF Next, get_key
<1>3. QED
  BY <1>1, <1>2, PTL DEF Spec

-----------------------------------------------------------------------------
\* The slots in order from read_idx: the first Waiting of them hold events,
\* the others none.  The exceptions are the slot get_key has just emptied but
\* not passed, and the one it has passed but not emptied.
SlotsInOrder ==
  \A n \in Indices :
    buffer[SlotAt(n)] # NoEvent <=>
      \/ n < Waiting /\ ~ (pc = "taken" /\ n = 0)
      \/ pc = "advanced" /\ n = N - 1

\* The reader's event is an event, and its place in the ring is still its own.
ReaderOK ==
  /\ pc \in {"taken", "returned"} <=> key # NoEvent
  /\ pc = "taken" => ~ RingEmpty

RingInv == TypeOK /\ SlotsInOrder /\ ReaderOK

\* SlotsInOrder says of SlotAt(n) what SlotsAccounted says of the slots.
LEMMA InOrderAccounts ==
  ASSUME TypeOK, SlotsInOrder
  PROVE  SlotsAccounted
<1>1. IndicesOK
  BY DEF TypeOK, IndicesOK
<1> SUFFICES ASSUME NEW i \in Indices
             PROVE  buffer[i] # NoEvent <=>
                      \/ /\ \E n \in 0 .. KEY_BUFFER_SIZE - 1 : n < Waiting /\ i = SlotAt(n)
                         /\ ~ (pc = "taken" /\ i = read_idx)
                      \/ pc = "advanced" /\ i = Pred(read_idx)
  BY DEF SlotsAccounted
<1>2. PICK m \in Indices : SlotAt(m) = i
  BY <1>1, SlotAtBijective
<1>3. \A n \in Indices : SlotAt(n) = i => n = m
  BY <1>1, <1>2, SlotAtBijective
<1>4. 0 \in Indices /\ N - 1 \in Indices /\ Indices = 0 .. KEY_BUFFER_SIZE - 1
  BY KeyboardAssumption DEF Indices, N
<1>5. (i = read_idx <=> m = 0) /\ (i = Pred(read_idx) <=> m = N - 1)
  BY <1>1, <1>2, <1>3, <1>4, RingArithmetic
<1>6. (\E n \in 0 .. KEY_BUFFER_SIZE - 1 : n < Waiting /\ i = SlotAt(n)) <=> m < Waiting
  BY <1>2, <1>3, <1>4
<1>7. buffer[i] # NoEvent <=>
        \/ m < Waiting /\ ~ (pc = "taken" /\ m = 0)
        \/ pc = "advanced" /\ m = N - 1
  BY <1>2 DEF SlotsInOrder
<1>8. QED
  BY <1>5, <1>6, <1>7

-----------------------------------------------------------------------------
\* The ring starts in order.
LEMMA RingInvInit == Init => RingInv
<1> SUFFICES ASSUME Init PROVE RingInv
  OBVIOUS
<1>1. 0 \in Indices /\ IndicesOK
  BY KeyboardAssumption DEF Init, Indices, IndicesOK
<1>2. TypeOK
  BY <1>1 DEF Init, TypeOK
<1>3. SlotsInOrder
  <2>1. Waiting = 0
    BY KeyboardAssumption DEF Init, Waiting
  <2>2. \A n \in Indices : SlotAt(n) \in Indices /\ ~ n < 0
    BY <1>1, SlotAtBijective, KeyboardAssumption DEF Indices
  <2>3. QED
    BY <2>1, <2>2 DEF Init, SlotsInOrder
<1>4. ReaderOK
  BY DEF Init, ReaderOK
<1>5. QED
  BY <1>2, <1>3, <1>4 DEF RingInv

\* An event put in the ring goes to the first slot behind those that wait,
\* and never to the one the reader is working on.
LEMMA RingInvWriter ==
  ASSUME RingInv, NEW b \in Bytes, process_scancode(b)
  PROVE  SlotsInOrder' /\ ReaderOK'
<1>1. IndicesOK
  BY DEF RingInv, TypeOK, IndicesOK
<1>2. CASE IsCode(b) /\ ~ RingFull
  <2> DEFINE e == EventOf(b)
  <2>1. e \in Events /\ e # NoEvent
    BY <1>2, ParsedEvent, KeyboardAssumption DEF RingInv, TypeOK
  <2> HIDE DEF e
  <2>2. /\ buffer' = [buffer EXCEPT ![write_idx] = e]
        /\ write_idx' = Succ(write_idx) /\ read_idx' = read_idx
        /\ pc' = pc /\ key' = key
    BY <1>2 DEF process_scancode, BufferEvent, reader, e
  <2>3. /\ Waiting' = Waiting + 1
        /\ \A n \in Indices : SlotAt(n)' = SlotAt(n)
    BY <1>1, <1>2, <2>2, WriterArithmetic
  <2>4. Waiting \in 0 .. N - 2 /\ SlotAt(Waiting) = write_idx
    BY <1>1, <1>2, RingArithmetic, KeyboardAssumption DEF N
  <2>5. \A n \in Indices :
          /\ SlotAt(n) \in Indices
          /\ SlotAt(n) = write_idx <=> n = Waiting
    BY <1>1, <2>4, SlotAtBijective, KeyboardAssumption DEF Indices, N
  <2>6. SlotsInOrder'
    <3> SUFFICES ASSUME NEW n \in Indices
                 PROVE  (buffer[SlotAt(n)])' # NoEvent <=>
                          \/ n < Waiting' /\ ~ (pc' = "taken" /\ n = 0)
                          \/ pc' = "advanced" /\ n = N - 1
      BY DEF SlotsInOrder
    <3>1. (buffer[SlotAt(n)])' = IF n = Waiting THEN e ELSE buffer[SlotAt(n)]
      BY <2>2, <2>3, <2>5 DEF RingInv, TypeOK
    <3>2. pc = "taken" => Waiting # 0
      BY <1>1, RingArithmetic DEF RingInv, ReaderOK
    <3>3. CASE n = Waiting
      BY <2>1, <2>2, <2>3, <2>4, <3>1, <3>2, <3>3 DEF Indices
    <3>4. CASE n # Waiting
      <4>1. n < Waiting' <=> n < Waiting
        BY <2>3, <2>4, <3>4 DEF Indices
      <4>2. QED
        BY <2>2, <3>1, <3>4, <4>1 DEF RingInv, SlotsInOrder
    <3>5. QED
      BY <3>3, <3>4
  <2>7. ReaderOK'
    BY <1>2, <2>2 DEF RingInv, ReaderOK, RingFull, RingEmpty
  <2>8. QED
    BY <2>6, <2>7
<1>3. CASE ~ (IsCode(b) /\ ~ RingFull)
  <2>1. UNCHANGED <<ring, reader>>
    BY <1>3 DEF process_scancode, BufferEvent, ring
  <2>2. QED
    BY <2>1 DEF RingInv, SlotsInOrder, ReaderOK, RingEmpty, Waiting, SlotAt,
                ring, reader
<1>4. QED
  BY <1>2, <1>3

\* The two steps of get_key, in either order, and the return of its event.
LEMMA RingInvReader ==
  ASSUME RingInv, get_key \/ HandleKey
  PROVE  SlotsInOrder' /\ ReaderOK'
<1>1. IndicesOK /\ TypeOK /\ SlotsInOrder /\ ReaderOK
  BY DEF RingInv, TypeOK, IndicesOK
<1>2. 0 \in Indices /\ N - 1 \in Indices /\ N - 1 # 0
  BY KeyboardAssumption DEF Indices, N
<1>3. CASE TakeSlot
  <2>1. /\ UNCHANGED <<read_idx, write_idx>>
        /\ pc = "idle" /\ pc' = "taken" /\ ~ RingEmpty
        /\ key' = buffer[read_idx]
        /\ buffer' = [buffer EXCEPT ![read_idx] = NoEvent]
    BY <1>3 DEF TakeSlot
  <2>2. Waiting' = Waiting /\ (\A n : SlotAt(n)' = SlotAt(n)) /\ ~ RingEmpty'
    BY <2>1 DEF Waiting, SlotAt, RingEmpty
  <2>3. SlotAt(0) = read_idx /\ 0 < Waiting
    BY <1>1, <2>1, RingArithmetic
  <2>4. key' # NoEvent
    BY <1>1, <1>2, <2>1, <2>3 DEF SlotsInOrder
  <2>5. \A n \in Indices :
          SlotAt(n) \in Indices /\ (SlotAt(n) = read_idx <=> n = 0)
    BY <1>1, <1>2, <2>3, SlotAtBijective
  <2>6. \A n \in Indices :
          (buffer[SlotAt(n)])' = IF n = 0 THEN NoEvent ELSE buffer[SlotAt(n)]
    BY <1>1, <2>1, <2>2, <2>5 DEF TypeOK
  <2>7. SlotsInOrder'
    BY <1>1, <1>2, <2>1, <2>2, <2>6 DEF SlotsInOrder
  <2>8. QED
    BY <2>1, <2>2, <2>4, <2>7 DEF ReaderOK
<1>4. CASE ThenAdvance \/ AdvanceFirst
  <2>1. /\ UNCHANGED <<buffer, write_idx, key>> /\ ~ RingEmpty
        /\ read_idx' = Succ(read_idx)
        /\ \/ pc = "taken" /\ pc' = "returned"
           \/ pc = "idle" /\ pc' = "advanced"
    BY <1>1, <1>4 DEF ThenAdvance, AdvanceFirst, ReaderOK
  <2>2. /\ Waiting' = Waiting - 1
        /\ \A n \in 0 .. N - 2 : SlotAt(n)' = SlotAt(n + 1)
        /\ SlotAt(N - 1)' = SlotAt(0)
    BY <1>1, <2>1, ReaderArithmetic
  <2>3. Waiting \in 1 .. N - 1
    BY <1>1, <2>1, RingArithmetic
  <2>4. SlotsInOrder'
    <3> SUFFICES ASSUME NEW n \in Indices
                 PROVE  (buffer[SlotAt(n)])' # NoEvent <=>
                          \/ n < Waiting' /\ ~ (pc' = "taken" /\ n = 0)
                          \/ pc' = "advanced" /\ n = N - 1
      BY DEF SlotsInOrder
    <3>1. CASE n = N - 1
      BY <1>1, <1>2, <2>1, <2>2, <2>3, <3>1 DEF SlotsInOrder
    <3>2. CASE n # N - 1
      <4>1. n \in 0 .. N - 2 /\ n + 1 \in Indices /\ n + 1 # 0
        BY <3>2, KeyboardAssumption DEF Indices, N
      <4>2. (buffer[SlotAt(n)])' = buffer[SlotAt(n + 1)]
        BY <2>1, <2>2, <4>1
      <4>3. n < Waiting' <=> n + 1 < Waiting
        BY <2>2, <2>3, <4>1
      <4>4. QED
        BY <1>1, <2>1, <3>2, <4>1, <4>2, <4>3 DEF SlotsInOrder
    <3>3. QED
      BY <3>1, <3>2
  <2>5. QED
    BY <1>1, <2>1, <2>4 DEF ReaderOK
<1>5. CASE ThenTakeSlot
  <2>1. /\ UNCHANGED <<read_idx, write_idx>>
        /\ pc = "advanced" /\ pc' = "returned"
        /\ key' = buffer[Pred(read_idx)]
        /\ buffer' = [buffer EXCEPT ![Pred(read_idx)] = NoEvent]
    BY <1>5 DEF ThenTakeSlot
  <2>2. Waiting' = Waiting /\ (\A n : SlotAt(n)' = SlotAt(n))
    BY <2>1 DEF Waiting, SlotAt
  <2>3. SlotAt(N - 1) = Pred(read_idx) /\ Waiting \in 0 .. N - 1
    BY <1>1, RingArithmetic
  <2>4. key' # NoEvent
    BY <1>1, <1>2, <2>1, <2>3 DEF SlotsInOrder
  <2>5. \A n \in Indices :
          SlotAt(n) \in Indices /\ (SlotAt(n) = Pred(read_idx) <=> n = N - 1)
    BY <1>1, <1>2, <2>3, SlotAtBijective
  <2>6. \A n \in Indices :
          (buffer[SlotAt(n)])' = IF n = N - 1 THEN NoEvent ELSE buffer[SlotAt(n)]
    BY <1>1, <2>1, <2>2, <2>5 DEF TypeOK
  <2>7. ~ (N - 1 < Waiting)
    BY <2>3, KeyboardAssumption DEF N
  <2>8. SlotsInOrder'
    BY <1>1, <1>2, <2>1, <2>2, <2>6, <2>7 DEF SlotsInOrder
  <2>9. QED
    BY <2>1, <2>4, <2>8 DEF ReaderOK
<1>6. CASE HandleKey
  <2>1. UNCHANGED <<buffer, read_idx, write_idx>>
        /\ pc = "returned" /\ pc' = "idle" /\ key' = NoEvent
    BY <1>6 DEF HandleKey, ring
  <2>2. Waiting' = Waiting /\ (\A n : SlotAt(n)' = SlotAt(n))
    BY <2>1 DEF Waiting, SlotAt
  <2>3. SlotsInOrder'
    BY <1>1, <2>1, <2>2 DEF SlotsInOrder
  <2>4. QED
    BY <2>1, <2>3 DEF ReaderOK
<1>7. QED
  BY <1>3, <1>4, <1>5, <1>6 DEF get_key

\* It stays in order.
LEMMA RingInvariant == Spec => []RingInv
<1>1. TypeOK /\ RingInv /\ [Next]_vars /\ TypeOK' => RingInv'
  <2> SUFFICES ASSUME RingInv, [Next]_vars, TypeOK' PROVE RingInv'
    OBVIOUS
  <2>1. ASSUME NEW b \in Bytes, process_scancode(b) PROVE RingInv'
    BY <2>1, RingInvWriter DEF RingInv
  <2>2. CASE get_key \/ HandleKey
    BY <2>2, RingInvReader DEF RingInv
  <2>3. CASE UNCHANGED vars
    BY <2>3 DEF RingInv, SlotsInOrder, ReaderOK, RingEmpty, Waiting, SlotAt,
                vars, ring, reader
  <2>4. QED
    BY <2>1, <2>2, <2>3 DEF Next
<1>2. QED
  BY <1>1, RingInvInit, TypeCorrect, PTL DEF Spec

\* Every slot is occupied exactly when its event waits, at every point of
\* get_key at which an interrupt may strike: get_key never finds an empty
\* slot in a ring that is not empty (kernel/src/drivers/keyboard.rs:420-427).
THEOREM Accounted == Spec => []SlotsAccounted
<1>1. RingInv => SlotsAccounted
  BY InOrderAccounts DEF RingInv
<1>2. QED
  BY <1>1, RingInvariant, PTL

-----------------------------------------------------------------------------
(* The ring implements the queue.                                          *)

\* A sequence that is another one with an element appended, or removed.
LEMMA IsAppend ==
  ASSUME NEW S, NEW s \in Seq(S), NEW t \in Seq(S), NEW e \in S,
         Len(t) = Len(s) + 1,
         \A n \in 1 .. Len(s) : t[n] = s[n],
         t[Len(s) + 1] = e
  PROVE  t = Append(s, e)
<1>1. /\ Append(s, e) \in Seq(S) /\ Len(Append(s, e)) = Len(s) + 1
      /\ \A n \in 1 .. Len(s) : Append(s, e)[n] = s[n]
      /\ Append(s, e)[Len(s) + 1] = e
  BY AppendProperties
<1>2. \A n \in 1 .. Len(t) : t[n] = Append(s, e)[n]
  BY <1>1
<1>3. QED
  BY <1>1, <1>2, SeqEqual

\* A sequence that has the elements of another from its second on is the tail.
LEMMA IsTail ==
  ASSUME NEW S, NEW s \in Seq(S), NEW t \in Seq(S), s # <<>>,
         Len(t) = Len(s) - 1,
         \A n \in 1 .. Len(t) : t[n] = s[n + 1]
  PROVE  t = Tail(s)
<1>1. /\ Tail(s) \in Seq(S) /\ Len(Tail(s)) = Len(s) - 1
      /\ \A n \in 1 .. Len(Tail(s)) : Tail(s)[n] = s[n + 1]
  BY HeadTailProperties
<1>2. QED
  BY <1>1, SeqEqual

Cells == Events \cup {NoEvent}

\* Queue is the sequence of the events waiting.
QueueIsSeq ==
  /\ Queue \in Seq(Cells)
  /\ Len(Queue) = Waiting
  /\ \A n \in 1 .. Waiting :
       Queue[n] = IF pc = "taken" /\ n = 1 THEN key ELSE buffer[SlotAt(n - 1)]

\* The ring read as a queue is a sequence of events.
LEMMA QueueTyped == TypeOK => QueueIsSeq
<1> SUFFICES ASSUME TypeOK PROVE QueueIsSeq
  OBVIOUS
<1>1. IndicesOK
  BY DEF TypeOK, IndicesOK
<1>2. Waiting \in Nat /\ Waiting <= N - 1
  BY <1>1, RingArithmetic, KeyboardAssumption DEF N
<1>3. \A n \in 1 .. Waiting : SlotAt(n - 1) \in Indices
  <2>1. \A n \in 1 .. Waiting : n - 1 \in Indices
    BY <1>2, KeyboardAssumption DEF N, Indices
  <2>2. QED
    BY <1>1, <2>1, SlotAtBijective
<1>4. Queue \in [1 .. Waiting -> Cells]
  BY <1>3 DEF Queue, TypeOK, Cells
<1>5. QED
  BY <1>2, <1>4 DEF Queue, QueueIsSeq

\* It still is after a step.
LEMMA QueueTypedNext == TypeOK' => QueueIsSeq'
BY QueueTyped, PTL

\* An empty ring is an empty queue.
LEMMA QueueStart == Init => Fifo!Init
<1> SUFFICES ASSUME Init PROVE Fifo!Init
  OBVIOUS
<1>1. Waiting = 0 /\ Hand = NoEvent
  BY KeyboardAssumption DEF Init, Waiting, Hand
<1>2. Queue = <<>>
  BY <1>1 DEF Queue
<1>3. QED
  BY <1>1, <1>2 DEF Fifo!Init

\* A keyboard interrupt puts at most one event in the queue, wherever it
\* strikes in get_key.
LEMMA InterruptPuts ==
  ASSUME RingInv, RingInv', NEW b \in Bytes, process_scancode(b)
  PROVE  [Fifo!Next]_<<Queue, Hand>>
<1>1. TypeOK /\ TypeOK' /\ IndicesOK /\ QueueIsSeq /\ QueueIsSeq'
  BY QueueTyped, QueueTypedNext DEF RingInv, TypeOK, IndicesOK
<1>2. UNCHANGED reader /\ read_idx' = read_idx
  BY DEF process_scancode
<1>3. Waiting \in 0 .. N - 1
  BY <1>1, RingArithmetic
<1>4. CASE ~ (IsCode(b) /\ ~ RingFull)
  <2>1. UNCHANGED <<ring, reader>>
    BY <1>4 DEF process_scancode, BufferEvent, ring
  <2>2. QED
    BY <2>1 DEF Queue, Hand, Waiting, SlotAt, ring, reader
<1>5. CASE IsCode(b) /\ ~ RingFull
  <2> DEFINE e == EventOf(b)
  <2>1. e \in Events /\ e \in Cells
    BY <1>1, <1>5, ParsedEvent DEF TypeOK, Cells
  <2> HIDE DEF e
  <2>2. /\ buffer' = [buffer EXCEPT ![write_idx] = e]
        /\ write_idx' = Succ(write_idx)
    BY <1>5 DEF process_scancode, BufferEvent, e
  <2>3. Waiting' = Waiting + 1 /\ (\A n \in Indices : SlotAt(n)' = SlotAt(n))
    BY <1>1, <1>2, <1>5, <2>2, WriterArithmetic
  <2>4. Waiting < N - 1 /\ SlotAt(Waiting) = write_idx /\ Waiting \in Indices
    BY <1>1, <1>3, <1>5, RingArithmetic, KeyboardAssumption DEF N, Indices
  <2>5. \A n \in Indices :
          (buffer[SlotAt(n)])' = IF n = Waiting THEN e ELSE buffer[SlotAt(n)]
    <3>1. \A n \in Indices :
            SlotAt(n) \in Indices /\ (SlotAt(n) = write_idx <=> n = Waiting)
      BY <1>1, <2>4, SlotAtBijective
    <3>2. QED
      BY <1>1, <2>2, <2>3, <3>1 DEF TypeOK
  <2>6. pc' = pc /\ key' = key /\ (pc = "taken" => Waiting # 0)
    BY <1>1, <1>2, RingArithmetic DEF reader, RingInv, ReaderOK
  <2>7. Queue' = Append(Queue, e)
    <3>1. Len(Queue') = Len(Queue) + 1
      BY <1>1, <2>3 DEF QueueIsSeq
    <3>2. ASSUME NEW n \in 1 .. Len(Queue) PROVE Queue'[n] = Queue[n]
      <4>1. n \in 1 .. Waiting /\ n \in 1 .. Waiting' /\ n - 1 \in Indices
            /\ n - 1 # Waiting
        BY <1>1, <1>3, <2>3, <3>2, KeyboardAssumption DEF QueueIsSeq, Indices, N
      <4>2. (buffer[SlotAt(n - 1)])' = buffer[SlotAt(n - 1)]
        BY <2>5, <4>1
      <4>3. QED
        BY <1>1, <2>6, <4>1, <4>2 DEF QueueIsSeq
    <3>3. Queue'[Len(Queue) + 1] = e
      <4>1. PICK w \in Indices : w = Waiting
        BY <2>4
      <4>2. /\ w + 1 \in 1 .. Waiting' /\ (w + 1) - 1 = w
            /\ ~ (pc' = "taken" /\ w + 1 = 1)
        BY <1>3, <2>3, <2>6, <4>1, KeyboardAssumption DEF N, Indices
      <4>3. (buffer[SlotAt(w)])' = e
        BY <2>5, <4>1
      <4>4. Queue'[w + 1] = (buffer[SlotAt(w)])'
        BY <1>1, <4>2 DEF QueueIsSeq
      <4>5. QED
        BY <1>1, <4>1, <4>3, <4>4 DEF QueueIsSeq
    <3>4. QED
      BY <1>1, <2>1, <3>1, <3>2, <3>3, IsAppend DEF QueueIsSeq
  <2>8. Hand' = Hand
    <3>1. CASE pc = "advanced"
      <4>1. N - 1 \in Indices /\ N - 1 # Waiting /\ SlotAt(N - 1) = Pred(read_idx)
        BY <1>1, <2>4, RingArithmetic, KeyboardAssumption DEF N, Indices
      <4>2. (buffer[SlotAt(N - 1)])' = buffer[SlotAt(N - 1)]
        BY <2>5, <4>1
      <4>3. SlotAt(N - 1)' = SlotAt(N - 1)
        BY <2>3, <4>1
      <4>4. buffer'[Pred(read_idx)] = buffer[Pred(read_idx)]
        BY <4>1, <4>2, <4>3
      <4>5. QED
        BY <1>2, <2>6, <3>1, <4>4 DEF Hand, Pred
    <3>2. CASE pc # "advanced"
      BY <2>6, <3>2 DEF Hand
    <3>3. QED
      BY <3>1, <3>2
  <2>9. Len(Queue) < KEY_BUFFER_SIZE - 1
    BY <1>1, <2>4 DEF QueueIsSeq, N
  <2>10. QED
    BY <2>1, <2>7, <2>8, <2>9 DEF Fifo!Next, Fifo!Put
<1>6. QED
  BY <1>4, <1>5

\* The step of get_key that moves read_idx takes the head of the queue, the
\* other one is invisible, and the caller's return ends the handling.
LEMMA ReaderGets ==
  ASSUME RingInv, RingInv', get_key \/ HandleKey
  PROVE  [Fifo!Next]_<<Queue, Hand>>
<1>1. /\ TypeOK /\ TypeOK' /\ IndicesOK /\ QueueIsSeq /\ QueueIsSeq'
      /\ SlotsInOrder /\ ReaderOK /\ ReaderOK'
  BY QueueTyped, QueueTypedNext DEF RingInv, TypeOK, IndicesOK
<1>2. /\ Waiting \in 0 .. N - 1 /\ SlotAt(0) = read_idx
      /\ RingEmpty <=> Waiting = 0
  BY <1>1, RingArithmetic
<1>3. CASE TakeSlot
  <2>1. /\ UNCHANGED <<read_idx, write_idx>>
        /\ pc = "idle" /\ pc' = "taken" /\ ~ RingEmpty
        /\ key' = buffer[read_idx]
        /\ buffer' = [buffer EXCEPT ![read_idx] = NoEvent]
    BY <1>3 DEF TakeSlot
  <2>2. Waiting' = Waiting /\ (\A n : SlotAt(n)' = SlotAt(n))
    BY <2>1 DEF Waiting, SlotAt
  <2>3. ASSUME NEW n \in 1 .. Waiting PROVE Queue'[n] = Queue[n]
    <3>1. n - 1 \in Indices /\ 0 \in Indices
      BY <1>2, KeyboardAssumption DEF Indices, N
    <3>2. CASE n = 1
      <4>1. Queue'[n] = key'
        BY <1>1, <2>1, <2>2, <2>3, <3>2 DEF QueueIsSeq
      <4>2. Queue[n] = buffer[SlotAt(n - 1)]
        BY <1>1, <2>1, <2>3 DEF QueueIsSeq
      <4>3. QED
        BY <1>2, <2>1, <3>2, <4>1, <4>2
    <3>3. CASE n # 1
      <4>1. SlotAt(n - 1) # read_idx /\ SlotAt(n - 1) \in Indices
        BY <1>1, <1>2, <3>1, <3>3, SlotAtBijective
      <4>2. (buffer[SlotAt(n - 1)])' = buffer[SlotAt(n - 1)]
        BY <1>1, <2>1, <2>2, <4>1 DEF TypeOK
      <4>3. QED
        BY <1>1, <2>1, <2>2, <2>3, <3>3, <4>2 DEF QueueIsSeq
    <3>4. QED
      BY <3>2, <3>3
  <2>4. Queue' = Queue
    BY <1>1, <2>2, <2>3, SeqEqual DEF QueueIsSeq
  <2>5. QED
    BY <2>1, <2>4 DEF Hand
<1>4. CASE ThenAdvance \/ AdvanceFirst
  <2>1. /\ UNCHANGED <<buffer, write_idx, key>> /\ ~ RingEmpty
        /\ read_idx' = Succ(read_idx)
        /\ \/ pc = "taken" /\ pc' = "returned"
           \/ pc = "idle" /\ pc' = "advanced"
    BY <1>1, <1>4 DEF ThenAdvance, AdvanceFirst, ReaderOK
  <2>2. /\ Waiting' = Waiting - 1
        /\ \A n \in 0 .. N - 2 : SlotAt(n)' = SlotAt(n + 1)
        /\ Pred(read_idx)' = read_idx
    BY <1>1, <2>1, ReaderArithmetic
  <2>3. Waiting \in 1 .. N - 1
    BY <1>2, <2>1
  <2>4. Queue # <<>>
    BY <1>1, <2>3 DEF QueueIsSeq
  <2>5. Hand = NoEvent /\ Hand' = Head(Queue)
    <3>1. Head(Queue) = Queue[1] /\ 1 \in 1 .. Waiting
      BY <1>1, <2>3, <2>4 DEF QueueIsSeq
    <3>2. Queue[1] = IF pc = "taken" THEN key ELSE buffer[SlotAt(1 - 1)]
      BY <1>1, <3>1 DEF QueueIsSeq
    <3>3. buffer'[Pred(read_idx)'] = buffer[read_idx]
      BY <2>1, <2>2
    <3>4. Hand' = IF pc = "taken" THEN key ELSE buffer[read_idx]
      BY <2>1, <3>3 DEF Hand
    <3>5. Hand = NoEvent
      BY <2>1 DEF Hand
    <3>6. QED
      BY <1>2, <3>1, <3>2, <3>4, <3>5
  <2>6. Queue' = Tail(Queue)
    <3>1. Len(Queue') = Len(Queue) - 1
      BY <1>1, <2>2 DEF QueueIsSeq
    <3>2. ASSUME NEW n \in 1 .. Len(Queue') PROVE Queue'[n] = Queue[n + 1]
      <4>1. /\ n \in 1 .. Waiting' /\ n + 1 \in 1 .. Waiting /\ n + 1 # 1
            /\ n - 1 \in 0 .. N - 2 /\ (n - 1) + 1 = (n + 1) - 1
        BY <1>1, <2>2, <2>3, <3>2, KeyboardAssumption DEF QueueIsSeq, N
      <4>2. (buffer[SlotAt(n - 1)])' = buffer[SlotAt((n + 1) - 1)]
        BY <2>1, <2>2, <4>1
      <4>3. Queue'[n] = (buffer[SlotAt(n - 1)])'
        BY <1>1, <2>1, <4>1 DEF QueueIsSeq
      <4>4. Queue[n + 1] = buffer[SlotAt((n + 1) - 1)]
        BY <1>1, <4>1 DEF QueueIsSeq
      <4>5. QED
        BY <4>2, <4>3, <4>4
    <3>3. QED
      BY <1>1, <2>4, <3>1, <3>2, IsTail DEF QueueIsSeq
  <2>7. QED
    BY <2>4, <2>5, <2>6 DEF Fifo!Next, Fifo!Get
<1>5. CASE ThenTakeSlot
  <2>1. /\ UNCHANGED <<read_idx, write_idx>>
        /\ pc = "advanced" /\ pc' = "returned"
        /\ key' = buffer[Pred(read_idx)]
        /\ buffer' = [buffer EXCEPT ![Pred(read_idx)] = NoEvent]
    BY <1>5 DEF ThenTakeSlot
  <2>2. Waiting' = Waiting /\ (\A n : SlotAt(n)' = SlotAt(n))
    BY <2>1 DEF Waiting, SlotAt
  <2>3. ASSUME NEW n \in 1 .. Waiting PROVE Queue'[n] = Queue[n]
    <3>1. /\ n - 1 \in Indices /\ N - 1 \in Indices /\ n - 1 # N - 1
          /\ SlotAt(N - 1) = Pred(read_idx)
      BY <1>1, <1>2, RingArithmetic, KeyboardAssumption DEF Indices, N
    <3>2. SlotAt(n - 1) # Pred(read_idx) /\ SlotAt(n - 1) \in Indices
      BY <1>1, <3>1, SlotAtBijective
    <3>3. (buffer[SlotAt(n - 1)])' = buffer[SlotAt(n - 1)]
      BY <1>1, <2>1, <2>2, <3>2 DEF TypeOK
    <3>4. QED
      BY <1>1, <2>1, <2>2, <2>3, <3>3 DEF QueueIsSeq
  <2>4. Queue' = Queue
    BY <1>1, <2>2, <2>3, SeqEqual DEF QueueIsSeq
  <2>5. QED
    BY <2>1, <2>4 DEF Hand
<1>6. CASE HandleKey
  <2>1. /\ UNCHANGED <<buffer, read_idx, write_idx>>
        /\ pc = "returned" /\ pc' = "idle" /\ key # NoEvent
    BY <1>1, <1>6 DEF HandleKey, ring, ReaderOK
  <2>2. Queue' = Queue
    BY <2>1 DEF Queue, Waiting, SlotAt
  <2>3. Hand = key /\ Hand' = NoEvent
    BY <2>1 DEF Hand
  <2>4. QED
    BY <2>1, <2>2, <2>3 DEF Fifo!Next, Fifo!Handle
<1>7. QED
  BY <1>3, <1>4, <1>5, <1>6 DEF get_key

\* The driver's ring implements a bounded queue: whatever the interleaving of
\* interrupts with get_key's two steps and whatever their order, events come
\* out in the order they went in, each once, and none is lost while there is
\* room (kernel/src/drivers/keyboard.rs:398-427).
THEOREM Implements == Spec => ImplementsFifo
<1>1. RingInv /\ RingInv' /\ [Next]_vars => [Fifo!Next]_<<Queue, Hand>>
  <2> SUFFICES ASSUME RingInv, RingInv', [Next]_vars
               PROVE  [Fifo!Next]_<<Queue, Hand>>
    OBVIOUS
  <2>1. CASE UNCHANGED vars
    BY <2>1 DEF Queue, Hand, Waiting, SlotAt, Pred, vars, ring, reader
  <2>2. QED
    BY <2>1, InterruptPuts, ReaderGets DEF Next
<1>2. QED
  BY <1>1, QueueStart, RingInvariant, PTL DEF Spec, ImplementsFifo, Fifo!Spec
=============================================================================
