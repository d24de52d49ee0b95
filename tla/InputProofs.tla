----------------------------- MODULE InputProofs -----------------------------
(***************************************************************************)
(* Proofs about Input for every set of keys and buttons and every size of  *)
(* the keyboard's buffer: once all bytes are processed, the joypad shows   *)
(* what the user holds.                                                    *)
(*                                                                         *)
(* For each key the bytes on the wire, the events in the buffer and the    *)
(* one in a reader's hands tell a story of presses and releases.  The last *)
(* thing it tells is whether the key is held, unless the full buffer       *)
(* dropped the key's latest event; and a button is down, or up, for a      *)
(* reason: a key held or released, dropped, eaten, or one whose story is   *)
(* not over.                                                               *)
(***************************************************************************)
EXTENDS Input, SequenceTheorems, TLAPS

(* Stories: sequences of what each byte or event says of one key. *)
Kinds == {"press", "release", "other"}
Has(s)     == \E i \in 1..Len(s) : s[i] # "other"
\* If the story says anything of the key, x is what it says last.
Ends(s, x) == \A i \in 1..Len(s) :
                s[i] # "other" /\ (\A j \in 1..Len(s) : j > i => s[j] = "other") => s[i] = x

\* A story that grows by one: what it says last is what is new, if that says anything.
LEMMA Longer ==
  ASSUME NEW s \in Seq(Kinds), NEW x \in Kinds
  PROVE  /\ Append(s, x) \in Seq(Kinds)
         /\ Has(Append(s, x)) <=> Has(s) \/ x # "other"
         /\ x = "other" => \A y : Ends(s, y) => Ends(Append(s, x), y)
         /\ x # "other" => Ends(Append(s, x), x)
<1> DEFINE t == Append(s, x)
<1>1. t \in Seq(Kinds) /\ Len(t) = Len(s) + 1 /\ Len(s) \in Nat
  OBVIOUS
<1>2. t[Len(s) + 1] = x /\ \A i \in 1..Len(s) : t[i] = s[i]
  OBVIOUS
<1> HIDE DEF t
<1>3. Has(t) <=> Has(s) \/ x # "other"
  BY <1>1, <1>2 DEF Has
<1>4. ASSUME x = "other", NEW y, Ends(s, y) PROVE Ends(t, y)
  BY <1>1, <1>2, <1>4 DEF Ends
<1>5. ASSUME x # "other" PROVE Ends(t, x)
  BY <1>1, <1>2, <1>5 DEF Ends
<1> QED BY <1>1, <1>3, <1>4, <1>5 DEF t

\* A story of which the beginning is taken away: what it says last is the same while it says anything.
LEMMA Shorter ==
  ASSUME NEW s \in Seq(Kinds), s # <<>>
  PROVE  /\ Head(s) \in Kinds /\ Tail(s) \in Seq(Kinds)
         /\ Has(s) <=> Head(s) # "other" \/ Has(Tail(s))
         /\ \A y : Ends(s, y) => Ends(Tail(s), y)
         /\ \A y : Ends(s, y) /\ ~Has(Tail(s)) /\ Head(s) # "other" => Head(s) = y
<1> DEFINE t == Tail(s)
<1>1. /\ t \in Seq(Kinds) /\ Len(s) \in Nat /\ Len(s) >= 1 /\ Len(t) = Len(s) - 1
      /\ Head(s) = s[1] /\ s[1] \in Kinds
  BY HeadTailProperties, EmptySeq
<1>2. \A i \in 1..Len(t) : t[i] = s[i + 1]
  BY <1>1, HeadTailProperties
<1> HIDE DEF t
<1>3. \A i \in 1..Len(s) : i = 1 \/ (i - 1 \in 1..Len(t) /\ s[i] = t[i - 1])
  BY <1>1, <1>2
<1>4. Has(s) <=> s[1] # "other" \/ Has(t)
  BY <1>1, <1>2, <1>3 DEF Has
<1>5. ASSUME NEW y, Ends(s, y) PROVE Ends(t, y)
  <2>1. SUFFICES ASSUME NEW i \in 1..Len(t), t[i] # "other", \A j \in 1..Len(t) : j > i => t[j] = "other"
                 PROVE  t[i] = y
    BY DEF Ends
  <2>2. i + 1 \in 1..Len(s) /\ s[i + 1] = t[i]
    BY <1>1, <1>2
  <2>3. ASSUME NEW j \in 1..Len(s), j > i + 1 PROVE s[j] = "other"
    <3>1. j - 1 \in 1..Len(t) /\ s[j] = t[j - 1] /\ j - 1 > i
      BY <1>1, <1>3, <2>3
    <3> QED BY <2>1, <3>1
  <2> QED BY <1>5, <2>1, <2>2, <2>3 DEF Ends
<1>6. ASSUME NEW y, Ends(s, y), ~Has(t), s[1] # "other" PROVE s[1] = y
  <2>1. \A j \in 1..Len(s) : j > 1 => s[j] = "other"
    BY <1>1, <1>3, <1>6 DEF Has
  <2> QED BY <1>1, <1>6, <2>1 DEF Ends
<1> QED BY <1>1, <1>4, <1>5, <1>6 DEF t

-----------------------------------------------------------------------------
(* The story of key k. *)
KindOf(keycode, pressed, k) ==
  IF keycode # k THEN "other" ELSE IF pressed THEN "press" ELSE "release"

\* What the bytes w say of k, when x says whether an E0 came before them.
Prefixed(w, x, i)  == IF (i = 1 /\ x) \/ (i # 1 /\ w[i - 1] = E0) THEN TRUE ELSE FALSE
KeyAt(w, x, i)     == <<w[i].code, Prefixed(w, x, i)>>
SaidAt(w, x, i, k) == IF IsCode(w[i]) THEN KindOf(KeyAt(w, x, i), ~w[i].released, k) ELSE "other"
Bytewise(w, x, k)  == [i \in 1..Len(w) |-> SaidAt(w, x, i, k)]
\* What the events s say of k.
Eventwise(s, k) == [i \in 1..Len(s) |-> KindOf(s[i].keycode, s[i].pressed, k)]

OfHand(k)  == IF hand = NoEvent THEN "other" ELSE KindOf(hand.keycode, hand.pressed, k)
OfQueue(k) == Eventwise(queue, k)
OfWire(k)  == Bytewise(wire, extended, k)

Pending(k) == OfHand(k) # "other" \/ Has(OfQueue(k)) \/ Has(OfWire(k))
Told(k)    == IF k \in held THEN "press" ELSE "release"

\* The bytes w are whole scancodes of keys, but for a prefix already read.
Whole(w, x) ==
  /\ \A i \in 1..Len(w) : w[i] # E1
  /\ \A i \in 1..Len(w) : IsCode(w[i]) => KeyAt(w, x, i) \in Keys
  /\ IF w = <<>> THEN ~x ELSE w[Len(w)] # E0

OwnKeys ==
  /\ \A i \in 1..Len(queue) : queue[i].keycode \in Keys
  /\ hand # NoEvent => hand.keycode \in Keys

LastTold ==
  \A k \in Keys :
    /\ Ends(OfWire(k), Told(k))
    /\ k \notin dropped /\ ~Has(OfWire(k)) =>
         /\ Ends(OfQueue(k), Told(k))
         /\ ~Has(OfQueue(k)) /\ OfHand(k) # "other" => OfHand(k) = Told(k)

StoryInv == TypeOK /\ Whole(wire, extended) /\ OwnKeys /\ LastTold

DownForAReason ==
  \A b \in row_down : \E k \in KeysOf(b) : k \in held \/ k \in dropped \/ Pending(k)
UpForAReason ==
  \A b \in Buttons \ row_down : KeysOf(b) # {} =>
    \E k \in KeysOf(b) : k \notin held \/ k \in dropped \/ k \in eaten \/ Pending(k)
PadInv ==
  /\ mode = "browser" => row_down = {}
  /\ DownForAReason /\ UpForAReason

InputInv == StoryInv /\ PadInv

\* Prefixes are no scancodes, and every key has a key code.
LEMMA ByteFacts ==
  /\ Keys \subseteq KeyCodes /\ E0 # E1 /\ ~IsCode(E0) /\ ~IsCode(E1) /\ E0 \in Bytes
  /\ \A b \in Scancodes : IsCode(b) /\ b \in Bytes /\ b # E0 /\ b # E1
  /\ \A b \in Bytes : IsCode(b) => b \in Scancodes
BY InputAssumption, PrefixAssumption DEF IsCode, Bytes

\* What a byte or an event says is one of three things.
LEMMA KindsOf == /\ \A keycode, pressed, k : KindOf(keycode, pressed, k) \in Kinds
                 /\ \A w, x, i, k : SaidAt(w, x, i, k) \in Kinds
BY DEF KindOf, SaidAt, Kinds

\* Stories are as long as what they are read from.
LEMMA Stories ==
  ASSUME NEW T, NEW w \in Seq(T), NEW x, NEW k
  PROVE  /\ Eventwise(w, k) \in Seq(Kinds) /\ Bytewise(w, x, k) \in Seq(Kinds)
         /\ Len(Eventwise(w, k)) = Len(w) /\ Len(Bytewise(w, x, k)) = Len(w) /\ Len(w) \in Nat
         /\ \A i \in 1..Len(w) : /\ Bytewise(w, x, k)[i] = SaidAt(w, x, i, k)
                                 /\ Eventwise(w, k)[i] = KindOf(w[i].keycode, w[i].pressed, k)
<1>1. Len(w) \in Nat
  OBVIOUS
<1>2. Eventwise(w, k) \in Seq(Kinds) /\ Len(Eventwise(w, k)) = Len(w)
  BY <1>1, KindsOf DEF Eventwise
<1>3. Bytewise(w, x, k) \in Seq(Kinds) /\ Len(Bytewise(w, x, k)) = Len(w)
  BY <1>1, KindsOf DEF Bytewise
<1> QED BY <1>1, <1>2, <1>3 DEF Eventwise, Bytewise

\* Two sequences of the same length with the same elements are the same.
LEMMA SameSeq ==
  ASSUME NEW T, NEW s \in Seq(T), NEW t \in Seq(T), Len(s) = Len(t), \A i \in 1..Len(s) : s[i] = t[i]
  PROVE  s = t
OBVIOUS

-----------------------------------------------------------------------------
\* A byte put on the wire lengthens every key's story by what it says.
LEMMA WireGrows ==
  ASSUME NEW w \in Seq(Bytes), NEW b \in Bytes, NEW x, NEW k
  PROVE  Bytewise(Append(w, b), x, k) = Append(Bytewise(w, x, k), SaidAt(Append(w, b), x, Len(w) + 1, k))
<1> DEFINE n == Len(w)
           v == Append(w, b)
           said == SaidAt(v, x, n + 1, k)
           A == Append(Bytewise(w, x, k), said)
           B == Bytewise(v, x, k)
<1>1. /\ n \in Nat /\ v \in Seq(Bytes) /\ Len(v) = n + 1 /\ v[n + 1] = b /\ \A i \in 1..n : v[i] = w[i]
  OBVIOUS
<1>2. B \in Seq(Kinds) /\ Len(B) = n + 1 /\ \A i \in 1..n + 1 : B[i] = SaidAt(v, x, i, k)
  <2> HIDE DEF v, n
  <2> QED BY <1>1, Stories
<1>3. /\ Bytewise(w, x, k) \in Seq(Kinds) /\ Len(Bytewise(w, x, k)) = n
      /\ \A i \in 1..n : Bytewise(w, x, k)[i] = SaidAt(w, x, i, k)
  BY Stories
<1>4. said \in Kinds /\ said = SaidAt(v, x, n + 1, k)
  BY KindsOf
<1> HIDE DEF v, n, said
<1>5. ASSUME NEW i \in 1..n PROVE SaidAt(v, x, i, k) = SaidAt(w, x, i, k)
  <2>1. v[i] = w[i]
    BY <1>1
  <2>2. Prefixed(v, x, i) = Prefixed(w, x, i)
    <3>1. i # 1 => v[i - 1] = w[i - 1]
      BY <1>1
    <3> QED BY <3>1 DEF Prefixed
  <2> QED BY <2>1, <2>2 DEF SaidAt, KeyAt
<1>6. A \in Seq(Kinds) /\ Len(A) = n + 1 /\ A[n + 1] = said /\ \A i \in 1..n : A[i] = Bytewise(w, x, k)[i]
  BY <1>1, <1>3, <1>4
<1> HIDE DEF A, B
<1>7. ASSUME NEW i \in 1..n + 1 PROVE A[i] = B[i]
  <2>1. CASE i = n + 1
    BY <1>2, <1>4, <1>6, <2>1
  <2>2. CASE i # n + 1
    <3>1. i \in 1..n
      BY <1>1, <2>2
    <3> QED BY <1>2, <1>3, <1>5, <1>6, <3>1
  <2> QED BY <2>1, <2>2
<1>8. A = B
  BY <1>2, <1>6, <1>7, SameSeq
<1> QED BY <1>8 DEF A, B, v, n, said

\* What is left of the wire when its first byte is read: the prefix is remembered.
LEMMA Shifted ==
  ASSUME NEW w \in Seq(Bytes), extended \in BOOLEAN, Whole(w, extended), w # <<>>
  PROVE  /\ Tail(w) \in Seq(Bytes) /\ Len(w) \in Nat /\ Len(w) >= 1 /\ Len(Tail(w)) = Len(w) - 1
         /\ Head(w) = w[1] /\ w[1] \in Bytes /\ w[1] # E1
         /\ \A i \in 1..Len(w) - 1 : /\ i + 1 \in 1..Len(w) /\ Tail(w)[i] = w[i + 1]
                                     /\ Prefixed(Tail(w), PrefixAfter(Head(w)), i) = Prefixed(w, extended, i + 1)
<1> DEFINE n == Len(w)
           v == Tail(w)
           y == PrefixAfter(Head(w))
<1>1. /\ n \in Nat /\ n >= 1 /\ v \in Seq(Bytes) /\ Len(v) = n - 1 /\ Head(w) = w[1] /\ w[1] \in Bytes
      /\ \A i \in 1..n - 1 : i + 1 \in 1..n /\ v[i] = w[i + 1]
  BY EmptySeq, HeadTailProperties
<1>2. w[1] # E1
  BY <1>1 DEF Whole
<1>3. y \in BOOLEAN /\ (y <=> w[1] = E0)
  BY <1>1, <1>2 DEF PrefixAfter
<1> HIDE DEF v, n, y
<1>4. ASSUME NEW i \in 1..n - 1 PROVE Prefixed(v, y, i) = Prefixed(w, extended, i + 1)
  <2>1. CASE i = 1
    BY <1>3, <2>1 DEF Prefixed
  <2>2. CASE i # 1
    <3>1. i - 1 \in 1..n - 1 /\ i + 1 # 1 /\ (i - 1) + 1 = i /\ (i + 1) - 1 = i
      BY <1>1, <2>2
    <3>2. v[i - 1] = w[i]
      BY <1>1, <3>1
    <3> QED BY <2>2, <3>1, <3>2 DEF Prefixed
  <2> QED BY <2>1, <2>2
<1> QED BY <1>1, <1>2, <1>4 DEF v, n, y

\* The byte read from the wire is what every key's story begins with.
LEMMA WireShrinks ==
  ASSUME NEW w \in Seq(Bytes), extended \in BOOLEAN, Whole(w, extended), w # <<>>, NEW k
  PROVE  /\ Bytewise(Tail(w), PrefixAfter(Head(w)), k) = Tail(Bytewise(w, extended, k))
         /\ Bytewise(w, extended, k) # <<>>
         /\ Head(Bytewise(w, extended, k)) = SaidAt(w, extended, 1, k)
<1> DEFINE n == Len(w)
           v == Tail(w)
           y == PrefixAfter(Head(w))
           A == Tail(Bytewise(w, extended, k))
           B == Bytewise(v, y, k)
<1>1. /\ n \in Nat /\ n >= 1 /\ v \in Seq(Bytes) /\ Len(v) = n - 1
      /\ \A i \in 1..n - 1 : /\ i + 1 \in 1..n /\ v[i] = w[i + 1]
                             /\ Prefixed(v, y, i) = Prefixed(w, extended, i + 1)
  BY Shifted
<1>2. /\ Bytewise(w, extended, k) \in Seq(Kinds) /\ Len(Bytewise(w, extended, k)) = n
      /\ \A i \in 1..n : Bytewise(w, extended, k)[i] = SaidAt(w, extended, i, k)
  BY Stories
<1> HIDE DEF v, n, y
<1>3. B \in Seq(Kinds) /\ Len(B) = n - 1 /\ \A i \in 1..n - 1 : B[i] = SaidAt(v, y, i, k)
  BY <1>1, Stories
<1>4. \A i \in 1..n - 1 : SaidAt(v, y, i, k) = SaidAt(w, extended, i + 1, k)
  BY <1>1 DEF SaidAt, KeyAt
<1>5. /\ Bytewise(w, extended, k) # <<>> /\ Head(Bytewise(w, extended, k)) = SaidAt(w, extended, 1, k)
      /\ A \in Seq(Kinds) /\ Len(A) = n - 1 /\ \A i \in 1..n - 1 : A[i] = Bytewise(w, extended, k)[i + 1]
  BY <1>1, <1>2, EmptySeq, HeadTailProperties
<1> HIDE DEF A, B
<1>6. \A i \in 1..n - 1 : A[i] = B[i]
  BY <1>1, <1>2, <1>3, <1>4, <1>5
<1>7. A = B
  BY <1>3, <1>5, <1>6, SameSeq
<1> QED BY <1>5, <1>7 DEF A, B, v, y

\* The rest of the wire is whole scancodes too.
LEMMA WholeShrinks ==
  ASSUME NEW w \in Seq(Bytes), extended \in BOOLEAN, Whole(w, extended), w # <<>>
  PROVE  /\ Whole(Tail(w), PrefixAfter(Head(w)))
         /\ IsCode(Head(w)) => <<Head(w).code, extended>> \in Keys
<1> DEFINE n == Len(w)
           v == Tail(w)
           y == PrefixAfter(Head(w))
<1>1. /\ n \in Nat /\ n >= 1 /\ v \in Seq(Bytes) /\ Len(v) = n - 1 /\ Head(w) = w[1] /\ w[1] # E1
      /\ \A i \in 1..n - 1 : /\ i + 1 \in 1..n /\ v[i] = w[i + 1]
                             /\ Prefixed(v, y, i) = Prefixed(w, extended, i + 1)
  BY Shifted
<1>2. /\ \A i \in 1..n : w[i] # E1 /\ (IsCode(w[i]) => KeyAt(w, extended, i) \in Keys)
      /\ w[n] # E0
  BY DEF Whole
<1>3. y => w[1] = E0
  BY <1>1 DEF PrefixAfter
<1>4. v = <<>> => n = 1
  <2> HIDE DEF v, n
  <2> QED BY <1>1, EmptySeq
<1>5. v # <<>> => n - 1 \in 1..n - 1 /\ v[n - 1] = w[n]
  <2>1. v # <<>> => Len(v) # 0
    BY <1>1, EmptySeq
  <2> QED BY <1>1, <2>1
<1> HIDE DEF v, n, y
<1>6. \A i \in 1..n - 1 : v[i] # E1 /\ (IsCode(v[i]) => KeyAt(v, y, i) \in Keys)
  BY <1>1, <1>2 DEF KeyAt
<1>7. Whole(v, y)
  BY <1>1, <1>2, <1>3, <1>4, <1>5, <1>6 DEF Whole
<1>8. IsCode(w[1]) => <<w[1].code, extended>> \in Keys
  <2>1. Prefixed(w, extended, 1) = extended
    BY DEF Prefixed
  <2> QED BY <1>1, <1>2, <2>1 DEF KeyAt
<1> QED BY <1>1, <1>7, <1>8 DEF v, y

\* One or two elements put behind a sequence, together or one by one.
LEMMA Joined ==
  ASSUME NEW T, NEW w \in Seq(T), NEW a \in T, NEW b \in T
  PROVE  /\ w \o (<<a>> \o <<b>>) = Append(Append(w, a), b)
         /\ w \o (<<>> \o <<b>>) = Append(w, b)
         /\ Len(Append(Append(w, a), b)) = Len(w) + Len(<<a>> \o <<b>>)
         /\ Len(Append(w, b)) = Len(w) + Len(<<>> \o <<b>>)
<1>1. <<a>> \in Seq(T) /\ <<b>> \in Seq(T) /\ <<>> \in Seq(T)
  OBVIOUS
<1>2. <<>> \o <<b>> = <<b>>
  OBVIOUS
<1>3. w \o <<b>> = Append(w, b) /\ w \o <<a>> = Append(w, a) /\ Append(w, a) \in Seq(T)
  OBVIOUS
<1>4. Append(w, a) \o <<b>> = Append(Append(w, a), b)
  BY <1>3
<1>5. (w \o <<a>>) \o <<b>> = w \o (<<a>> \o <<b>>)
  BY <1>1, ConcatAssociative
<1>6. Len(<<a>> \o <<b>>) = 2 /\ Len(<<>> \o <<b>>) = 1
  OBVIOUS
<1>7. Len(Append(Append(w, a), b)) = Len(w) + 2 /\ Len(Append(w, b)) = Len(w) + 1
  OBVIOUS
<1> QED BY <1>2, <1>3, <1>4, <1>5, <1>6, <1>7

\* A key's scancode on the wire: what it adds to each story.
LEMMA Sent ==
  ASSUME NEW w \in Seq(Bytes), NEW x \in BOOLEAN, Whole(w, x), NEW k \in Keys, NEW released \in BOOLEAN, NEW q
  PROVE  LET v == w \o BytesOf(k, released)
             what == KindOf(k, ~released, q)
         IN  /\ v \in Seq(Bytes) /\ Len(v) = Len(w) + Len(BytesOf(k, released)) /\ Whole(v, x)
             /\ Has(Bytewise(v, x, q)) <=> Has(Bytewise(w, x, q)) \/ q = k
             /\ q = k => Ends(Bytewise(v, x, q), what)
             /\ q # k => \A y : Ends(Bytewise(w, x, q), y) => Ends(Bytewise(v, x, q), y)
<1> DEFINE c == [code |-> k[1], released |-> released]
           u == IF k[2] THEN Append(w, E0) ELSE w
           v == Append(u, c)
           n == Len(u)
           what == KindOf(k, ~released, q)
<1>1. k \in KeyCodes /\ k = <<k[1], k[2]>> /\ k[1] \in Codes /\ k[2] \in BOOLEAN
  BY ByteFacts DEF KeyCodes
<1>2. c \in Scancodes /\ c \in Bytes /\ IsCode(c) /\ c # E0 /\ c # E1 /\ E0 \in Bytes
  BY <1>1, ByteFacts DEF Scancodes
<1>3. c.code = k[1] /\ c.released = released
  OBVIOUS
<1> HIDE DEF c
<1>4. w \o BytesOf(k, released) = v /\ Len(v) = Len(w) + Len(BytesOf(k, released))
  <2>1. BytesOf(k, released) = (IF k[2] THEN <<E0>> ELSE <<>>) \o <<c>>
    BY DEF BytesOf, c
  <2>2. CASE k[2]
    <3>1. BytesOf(k, released) = <<E0>> \o <<c>>
      BY <2>1, <2>2
    <3> QED BY <1>2, <2>2, <3>1, Joined
  <2>3. CASE ~k[2]
    <3>1. BytesOf(k, released) = <<>> \o <<c>>
      BY <2>1, <2>3
    <3> QED BY <1>2, <2>3, <3>1, Joined
  <2> QED BY <2>2, <2>3
<1>5. /\ u \in Seq(Bytes) /\ n \in Nat /\ v \in Seq(Bytes) /\ Len(v) = n + 1 /\ v[n + 1] = c
      /\ \A i \in 1..n : v[i] = u[i]
  BY <1>2
<1>6. Prefixed(v, x, n + 1) = k[2]
  <2>1. n # 0 => v[n] = u[n] /\ n + 1 # 1 /\ (n + 1) - 1 = n
    BY <1>5
  <2>2. CASE k[2] = TRUE
    <3>1. u = Append(w, E0)
      BY <2>2
    <3>2. n = Len(w) + 1 /\ Len(w) \in Nat /\ u[n] = E0
      BY <1>2, <3>1
    <3> HIDE DEF u, v, n
    <3>3. n + 1 # 1 /\ v[(n + 1) - 1] = E0
      BY <1>5, <2>1, <3>2
    <3>4. Prefixed(v, x, n + 1) = TRUE
      BY <3>3 DEF Prefixed
    <3> QED BY <2>2, <3>4
  <2>3. CASE k[2] = FALSE
    <3>1. u = w
      BY <2>3
    <3>2. CASE w = <<>>
      <4>1. n = 0 /\ x = FALSE
        BY <3>1, <3>2 DEF Whole
      <4> HIDE DEF u, v, n
      <4>2. Prefixed(v, x, 1) = FALSE
        BY <4>1 DEF Prefixed
      <4>3. n + 1 = 1
        BY <4>1
      <4> QED BY <2>3, <4>2, <4>3
    <3>3. CASE w # <<>>
      <4>1. n # 0 /\ u[n] # E0
        BY <3>1, <3>3, EmptySeq DEF Whole
      <4> HIDE DEF u, v, n
      <4>2. n + 1 # 1 /\ v[(n + 1) - 1] # E0
        BY <2>1, <4>1
      <4>3. Prefixed(v, x, n + 1) = FALSE
        BY <4>2 DEF Prefixed
      <4> QED BY <2>3, <4>3
    <3> QED BY <3>2, <3>3
  <2> QED BY <1>1, <2>2, <2>3
<1>7. KeyAt(v, x, n + 1) = k
  BY <1>1, <1>3, <1>5, <1>6 DEF KeyAt
<1>8. SaidAt(v, x, n + 1, q) = what
  <2>1. v[n + 1] = c
    BY <1>5
  <2> HIDE DEF v, n
  <2> QED BY <1>2, <1>3, <1>7, <2>1 DEF SaidAt
<1>9. /\ Has(Bytewise(u, x, q)) <=> Has(Bytewise(w, x, q))
      /\ \A y : Ends(Bytewise(w, x, q), y) => Ends(Bytewise(u, x, q), y)
  <2>1. CASE k[2]
    <3> DEFINE s == Bytewise(w, x, q)
    <3>1. s \in Seq(Kinds)
      BY Stories
    <3>2. SaidAt(Append(w, E0), x, Len(w) + 1, q) = "other"
      <4>1. Append(w, E0)[Len(w) + 1] = E0
        OBVIOUS
      <4> QED BY <4>1, ByteFacts DEF SaidAt
    <3>3. Bytewise(Append(w, E0), x, q) = Append(s, "other")
      BY <1>2, <3>2, WireGrows
    <3> HIDE DEF s
    <3>4. /\ Has(Append(s, "other")) <=> Has(s)
          /\ \A y : Ends(s, y) => Ends(Append(s, "other"), y)
      BY <3>1, Longer DEF Kinds
    <3> QED BY <2>1, <3>3, <3>4 DEF s
  <2>2. CASE ~k[2]
    BY <2>2
  <2> QED BY <2>1, <2>2
<1>10. /\ Has(Bytewise(v, x, q)) <=> Has(Bytewise(u, x, q)) \/ what # "other"
       /\ what = "other" => \A y : Ends(Bytewise(u, x, q), y) => Ends(Bytewise(v, x, q), y)
       /\ what # "other" => Ends(Bytewise(v, x, q), what)
  <2> DEFINE s == Bytewise(u, x, q)
  <2>1. s \in Seq(Kinds) /\ what \in Kinds
    BY <1>5, Stories, KindsOf
  <2>2. Bytewise(v, x, q) = Append(s, what)
    <3> HIDE DEF u
    <3> QED BY <1>2, <1>5, <1>8, WireGrows
  <2> HIDE DEF s, what
  <2>3. /\ Has(Append(s, what)) <=> Has(s) \/ what # "other"
        /\ what = "other" => \A y : Ends(s, y) => Ends(Append(s, what), y)
        /\ what # "other" => Ends(Append(s, what), what)
    BY <2>1, Longer
  <2> HIDE DEF v, u
  <2> QED BY <2>2, <2>3 DEF s
<1>11. what # "other" <=> q = k
  BY DEF KindOf
<1>12. Whole(v, x)
  <2>1. \A i \in 1..n + 1 : i = n + 1 \/ i \in 1..n
    BY <1>5
  <2>2. \A i \in 1..n : u[i] # E1 /\ (IsCode(u[i]) => KeyAt(u, x, i) \in Keys)
    <3>1. CASE k[2]
      <4>1. \A i \in 1..n : i = n \/ i \in 1..Len(w)
        BY <3>1
      <4>2. u[n] = E0
        BY <1>2, <3>1
      <4>3. ASSUME NEW i \in 1..Len(w) PROVE u[i] = w[i] /\ Prefixed(u, x, i) = Prefixed(w, x, i)
        BY <1>2, <3>1 DEF Prefixed
      <4> HIDE DEF u, n
      <4> QED BY <4>1, <4>2, <4>3, ByteFacts DEF Whole, KeyAt
    <3>2. CASE ~k[2]
      BY <3>2 DEF Whole
    <3> QED BY <3>1, <3>2
  <2>3. ASSUME NEW i \in 1..n PROVE v[i] = u[i] /\ KeyAt(v, x, i) = KeyAt(u, x, i)
    BY <1>5 DEF Prefixed, KeyAt
  <2>4. v # <<>>
    BY <1>5
  <2> HIDE DEF v, u, n
  <2> QED BY <1>2, <1>5, <1>7, <2>1, <2>2, <2>3, <2>4 DEF Whole
<1> HIDE DEF u, what
<1> QED BY <1>4, <1>5, <1>9, <1>10, <1>11, <1>12 DEF what

\* An event put in the buffer lengthens its key's story there.
LEMMA QueueGrows ==
  ASSUME NEW s \in Seq(Events), NEW e \in Events, NEW k
  PROVE  Eventwise(Append(s, e), k) = Append(Eventwise(s, k), KindOf(e.keycode, e.pressed, k))
<1> DEFINE n == Len(s)
           v == Append(s, e)
           said == KindOf(e.keycode, e.pressed, k)
           A == Append(Eventwise(s, k), said)
           B == Eventwise(v, k)
<1>1. n \in Nat /\ v \in Seq(Events) /\ Len(v) = n + 1 /\ v[n + 1] = e /\ \A i \in 1..n : v[i] = s[i]
  OBVIOUS
<1>2. B \in Seq(Kinds) /\ Len(B) = n + 1 /\ \A i \in 1..n + 1 : B[i] = KindOf(v[i].keycode, v[i].pressed, k)
  <2> HIDE DEF v, n
  <2> QED BY <1>1, Stories
<1>3. /\ Eventwise(s, k) \in Seq(Kinds) /\ Len(Eventwise(s, k)) = n
      /\ \A i \in 1..n : Eventwise(s, k)[i] = KindOf(s[i].keycode, s[i].pressed, k)
  BY Stories
<1>4. said \in Kinds /\ said = KindOf(e.keycode, e.pressed, k)
  BY KindsOf
<1> HIDE DEF v, n, said
<1>5. A \in Seq(Kinds) /\ Len(A) = n + 1 /\ A[n + 1] = said /\ \A i \in 1..n : A[i] = Eventwise(s, k)[i]
  BY <1>1, <1>3, <1>4
<1> HIDE DEF A, B
<1>6. ASSUME NEW i \in 1..n + 1 PROVE A[i] = B[i]
  <2>1. CASE i = n + 1
    BY <1>1, <1>2, <1>4, <1>5, <2>1
  <2>2. CASE i # n + 1
    <3>1. i \in 1..n
      BY <1>1, <2>2
    <3> QED BY <1>1, <1>2, <1>3, <1>5, <3>1
  <2> QED BY <2>1, <2>2
<1>7. A = B
  BY <1>2, <1>5, <1>6, SameSeq
<1> QED BY <1>7 DEF A, B, v, said

\* The event get_key takes is what its key's story in the buffer begins with.
LEMMA QueueShrinks ==
  ASSUME NEW s \in Seq(Events), s # <<>>, NEW k
  PROVE  /\ Eventwise(Tail(s), k) = Tail(Eventwise(s, k)) /\ Eventwise(s, k) # <<>>
         /\ Head(Eventwise(s, k)) = KindOf(Head(s).keycode, Head(s).pressed, k)
<1> DEFINE n == Len(s)
           v == Tail(s)
           A == Tail(Eventwise(s, k))
           B == Eventwise(v, k)
<1>1. /\ n \in Nat /\ n >= 1 /\ Head(s) = s[1] /\ v \in Seq(Events) /\ Len(v) = n - 1
      /\ \A i \in 1..n - 1 : v[i] = s[i + 1]
  BY EmptySeq, HeadTailProperties
<1>2. /\ Eventwise(s, k) \in Seq(Kinds) /\ Len(Eventwise(s, k)) = n
      /\ \A i \in 1..n : Eventwise(s, k)[i] = KindOf(s[i].keycode, s[i].pressed, k)
  BY Stories
<1>3. B \in Seq(Kinds) /\ Len(B) = n - 1 /\ \A i \in 1..n - 1 : B[i] = KindOf(v[i].keycode, v[i].pressed, k)
  <2>1. v \in Seq(Events) /\ Len(v) = n - 1
    BY <1>1
  <2> HIDE DEF v, n
  <2> QED BY <2>1, Stories
<1> HIDE DEF v, n
<1>4. /\ Eventwise(s, k) # <<>> /\ Head(Eventwise(s, k)) = Eventwise(s, k)[1]
      /\ A \in Seq(Kinds) /\ Len(A) = n - 1 /\ \A i \in 1..n - 1 : A[i] = Eventwise(s, k)[i + 1]
  BY <1>1, <1>2, EmptySeq, HeadTailProperties
<1> HIDE DEF A, B
<1>5. \A i \in 1..n - 1 : A[i] = B[i]
  <2>1. \A i \in 1..n - 1 : i + 1 \in 1..n
    BY <1>1
  <2> QED BY <1>1, <1>2, <1>3, <1>4, <2>1
<1>6. A = B
  BY <1>3, <1>4, <1>5, SameSeq
<1>7. Head(Eventwise(s, k)) = KindOf(Head(s).keycode, Head(s).pressed, k)
  BY <1>1, <1>2, <1>4
<1> QED BY <1>4, <1>6, <1>7 DEF A, B, v

-----------------------------------------------------------------------------
(* Types *)

\* Every step, and every stutter, keeps the types.
LEMMA TypeStep == TypeOK /\ Whole(wire, extended) /\ [Next]_vars => TypeOK'
<1> SUFFICES ASSUME TypeOK, Whole(wire, extended), [Next]_vars PROVE TypeOK'
  OBVIOUS
<1> USE DEF TypeOK
<1>0. Keys \subseteq KeyCodes /\ NoEvent \notin Events /\ Capacity \in Nat
  BY InputAssumption
<1>1. ASSUME NEW k \in Keys, Press(k) \/ Repeat(k) \/ Release(k) PROVE TypeOK'
  <2>1. PICK released \in BOOLEAN : Send(k, released)
    BY <1>1 DEF Press, Repeat, Release
  <2>2. wire' \in Seq(Bytes) /\ Len(wire') = Len(wire) + Len(BytesOf(k, released))
    <3>1. wire \in Seq(Bytes) /\ extended \in BOOLEAN /\ Whole(wire, extended)
      OBVIOUS
    <3>2. LET v == wire \o BytesOf(k, released)
          IN  v \in Seq(Bytes) /\ Len(v) = Len(wire) + Len(BytesOf(k, released))
      <4> HIDE DEF TypeOK
      <4> QED BY <3>1, Sent
    <3> QED BY <2>1, <3>2 DEF Send
  <2>3. held' \subseteq Keys
    BY <1>1 DEF Press, Repeat, Release
  <2> QED BY <2>1, <2>2, <2>3 DEF Send, driver, keypad
<1>2. ASSUME keyboard_handler PROVE TypeOK'
  <2>1. wire' = Tail(wire) /\ wire # <<>> /\ Head(wire) \in Bytes /\ wire' \in Seq(Bytes) /\ Len(wire') = Len(wire) - 1
    <3>1. wire' = Tail(wire) /\ wire # <<>>
      BY <1>2 DEF keyboard_handler
    <3> QED BY <3>1, Shifted
  <2>2. extended' \in BOOLEAN
    BY <1>2 DEF keyboard_handler, PrefixAfter
  <2>3. queue' \in Seq(Events) /\ Len(queue') <= Capacity /\ hand' = hand /\ dropped' \subseteq KeyCodes
    <3>1. CASE IsCode(Head(wire))
      <4>1. Head(wire) \in Scancodes
        BY <2>1, <3>1, ByteFacts
      <4>2. EventOf(Head(wire)) \in Events /\ EventOf(Head(wire)).keycode \in KeyCodes
        BY <4>1 DEF EventOf, Events, Scancodes, KeyCodes
      <4>3. Fifo!Put(EventOf(Head(wire)))
        BY <1>2, <3>1 DEF keyboard_handler
      <4>4. dropped' \subseteq KeyCodes
        BY <1>2, <3>1, <4>2 DEF keyboard_handler
      <4>5. queue' = IF Len(queue) < Capacity THEN Append(queue, EventOf(Head(wire))) ELSE queue
        BY <4>3 DEF Fifo!Put
      <4>6. Len(queue) < Capacity =>
              Append(queue, EventOf(Head(wire))) \in Seq(Events) /\ Len(Append(queue, EventOf(Head(wire)))) = Len(queue) + 1
        BY <4>2
      <4>7. Len(queue) \in Nat /\ hand' = hand
        BY <4>3 DEF Fifo!Put
      <4> QED BY <1>0, <4>4, <4>5, <4>6, <4>7
    <3>2. CASE ~IsCode(Head(wire))
      BY <1>2, <3>2 DEF keyboard_handler
    <3> QED BY <3>1, <3>2
  <2>4. Len(wire) \in Nat /\ MaxWire \in Nat
    BY InputAssumption
  <2> QED BY <1>2, <2>1, <2>2, <2>3, <2>4 DEF keyboard_handler, keypad
<1>3. ASSUME get_key PROVE TypeOK'
  <2>1. queue # <<>> /\ queue' = Tail(queue) /\ hand' = Head(queue)
    BY <1>3 DEF get_key, Fifo!Get
  <2>2. queue' \in Seq(Events) /\ Len(queue') = Len(queue) - 1 /\ Head(queue) \in Events /\ Len(queue) \in Nat
    BY <2>1, HeadTailProperties
  <2> QED BY <1>0, <1>3, <2>1, <2>2 DEF get_key, keypad
<1>4. ASSUME BrowserHandles PROVE TypeOK'
  <2>1. hand # NoEvent /\ hand.keycode \in KeyCodes
    BY <1>4 DEF BrowserHandles, Fifo!Handle, Events
  <2> QED BY <1>4, <2>1 DEF BrowserHandles, Fifo!Handle, keypad
<1>5. ASSUME GameHandles PROVE TypeOK'
  <2>1. hand # NoEvent /\ hand.keycode \in KeyCodes
    BY <1>5 DEF GameHandles, Fifo!Handle, Events
  <2> DEFINE b == map_keycode[hand.keycode]
  <2>2. CASE b = NoButton
    BY <1>5, <2>1, <2>2 DEF GameHandles, Fifo!Handle, keypad
  <2>3. CASE b # NoButton
    <3>1. b \in Buttons
      BY <2>1, <2>3, InputAssumption
    <3>2. row_down' = RowsAfter(b, hand.pressed) /\ update(select, row_down') /\ select' = select
      BY <1>5, <2>3 DEF GameHandles
    <3> HIDE DEF b
    <3>3. row_down' \subseteq Buttons
      BY <3>1, <3>2 DEF RowsAfter
    <3>4. lines' = LowLines(select', row_down') /\ interrupt' \in BOOLEAN
      BY <3>2 DEF update, RequestInterrupt
    <3> QED BY <1>5, <3>2, <3>3, <3>4 DEF GameHandles, Fifo!Handle
  <2> QED BY <2>2, <2>3
<1>6. ASSUME NEW sel \in Selections, GameSelects(sel) PROVE TypeOK'
  <2>1. lines' = LowLines(select', row_down') /\ interrupt' \in BOOLEAN
    BY <1>6 DEF GameSelects, update, RequestInterrupt
  <2>2. select' \subseteq {0, 1}
    BY <1>6, InputAssumption DEF GameSelects
  <2> QED BY <1>6, <2>1, <2>2 DEF GameSelects, driver
<1>7. ASSUME Load \/ Drained \/ do_cycle \/ GameAcknowledges \/ EndFrame PROVE TypeOK'
  BY <1>7 DEF Load, Drained, do_cycle, GameAcknowledges, EndFrame, driver, keypad, LowLines
<1>8. ASSUME UNCHANGED vars PROVE TypeOK'
  BY <1>8 DEF vars, driver, keypad, LowLines
<1> QED BY <1>1, <1>2, <1>3, <1>4, <1>5, <1>6, <1>7, <1>8 DEF Next

-----------------------------------------------------------------------------
(* The stories *)

\* The parts of a state that the stories are read from.
storyVars == <<queue, hand, extended, held, wire, dropped>>

\* A step that leaves those alone leaves the stories alone.
LEMMA StoryKept ==
  ASSUME UNCHANGED storyVars
  PROVE  /\ OwnKeys /\ LastTold => OwnKeys' /\ LastTold'
         /\ Whole(wire, extended) => Whole(wire, extended)'
         /\ \A k : Pending(k)' = Pending(k)
BY DEF storyVars, OwnKeys, LastTold, Told, Pending, OfHand, OfQueue, OfWire, Eventwise, Bytewise, SaidAt, KeyAt,
       Prefixed, Whole

\* What is still to come of a key, by the typed parts of its story.
LEMMA Parts ==
  ASSUME TypeOK, NEW k
  PROVE  /\ wire \in Seq(Bytes) /\ queue \in Seq(Events) /\ extended \in BOOLEAN /\ hand \in Events \cup {NoEvent}
         /\ OfHand(k) \in Kinds /\ OfQueue(k) \in Seq(Kinds) /\ OfWire(k) \in Seq(Kinds)
<1>1. wire \in Seq(Bytes) /\ queue \in Seq(Events) /\ extended \in BOOLEAN /\ hand \in Events \cup {NoEvent}
  BY DEF TypeOK
<1>2. OfHand(k) \in Kinds
  BY KindsOf DEF OfHand, Kinds
<1> QED BY <1>1, <1>2, Stories DEF OfQueue, OfWire

\* The user presses, holds or releases a key: its story ends with that, the others' stay.
LEMMA UserStep ==
  ASSUME StoryInv, NEW k \in Keys, Press(k) \/ Repeat(k) \/ Release(k)
  PROVE  /\ Whole(wire, extended)' /\ OwnKeys' /\ LastTold'
         /\ Pending(k)' /\ \A q : Pending(q) => Pending(q)'
         /\ \A q \in Keys \ {k} : q \in held' <=> q \in held
<1>1. PICK released \in BOOLEAN : Send(k, released) /\ (k \in held' <=> ~released)
  BY DEF Press, Repeat, Release
<1>2. /\ wire' = wire \o BytesOf(k, released) /\ extended' = extended /\ queue' = queue /\ hand' = hand
      /\ dropped' = dropped
  BY <1>1 DEF Send, driver
<1>3. wire \in Seq(Bytes) /\ extended \in BOOLEAN /\ Whole(wire, extended)
  BY DEF StoryInv, TypeOK
<1>4. ASSUME NEW q
      PROVE  /\ Whole(wire, extended)'
             /\ Has(OfWire(q))' <=> Has(OfWire(q)) \/ q = k
             /\ q = k => Ends(OfWire(q)', KindOf(k, ~released, q))
             /\ q # k => \A y : Ends(OfWire(q), y) => Ends(OfWire(q)', y)
  <2>1. OfWire(q) = Bytewise(wire, extended, q) /\ OfWire(q)' = Bytewise(wire', extended, q)
    BY <1>2 DEF OfWire, Bytewise, SaidAt, KeyAt, Prefixed
  <2>2. LET v == wire \o BytesOf(k, released)
        IN  /\ Whole(v, extended)
            /\ Has(Bytewise(v, extended, q)) <=> Has(Bytewise(wire, extended, q)) \/ q = k
            /\ q = k => Ends(Bytewise(v, extended, q), KindOf(k, ~released, q))
            /\ q # k => \A y : Ends(Bytewise(wire, extended, q), y) => Ends(Bytewise(v, extended, q), y)
    BY <1>3, Sent
  <2>3. Has(OfWire(q))' <=> Has(OfWire(q)')
    BY DEF Has
  <2>4. Whole(wire, extended)' <=> Whole(wire', extended')
    BY DEF Whole, KeyAt, Prefixed
  <2> QED BY <1>2, <2>1, <2>2, <2>3, <2>4
<1>5. \A q : OfQueue(q)' = OfQueue(q) /\ OfHand(q)' = OfHand(q) /\ Has(OfQueue(q))' = Has(OfQueue(q))
  BY <1>2 DEF OfQueue, OfHand, Eventwise, Has
<1>6. \A q \in Keys \ {k} : q \in held' <=> q \in held
  BY DEF Press, Repeat, Release
<1>7. OwnKeys'
  BY <1>2 DEF StoryInv, OwnKeys
<1>8. KindOf(k, ~released, k) = Told(k)'
  BY <1>1 DEF KindOf, Told
<1>9. ASSUME NEW q \in Keys
      PROVE  /\ Ends(OfWire(q)', Told(q)')
             /\ q \notin dropped' /\ ~Has(OfWire(q))' =>
                  /\ Ends(OfQueue(q)', Told(q)')
                  /\ ~Has(OfQueue(q))' /\ OfHand(q)' # "other" => OfHand(q)' = Told(q)'
  <2>1. CASE q = k
    BY <1>4, <1>8, <2>1
  <2>2. CASE q # k
    <3>1. Told(q)' = Told(q)
      BY <1>6, <2>2 DEF Told
    <3> QED BY <1>2, <1>4, <1>5, <2>2, <3>1 DEF StoryInv, LastTold
  <2> QED BY <2>1, <2>2
<1>10. LastTold'
  BY <1>9 DEF LastTold, Ends, Has
<1>11. Pending(k)' /\ \A q : Pending(q) => Pending(q)'
  BY <1>4, <1>5 DEF Pending
<1> QED BY <1>4, <1>6, <1>7, <1>10, <1>11

\* The interrupt moves what the first byte says from the wire to the buffer, or drops it.
LEMMA InterruptStep ==
  ASSUME StoryInv, keyboard_handler
  PROVE  /\ Whole(wire, extended)' /\ OwnKeys' /\ LastTold' /\ held' = held
         /\ \A q \in Keys : q \in dropped \/ Pending(q) => q \in dropped' \/ Pending(q)'
<1> DEFINE x == Head(wire)
           e == EventOf(x)
<1>1. /\ wire # <<>> /\ wire' = Tail(wire) /\ extended' = PrefixAfter(x) /\ held' = held /\ hand' = hand
      /\ wire \in Seq(Bytes) /\ extended \in BOOLEAN /\ Whole(wire, extended)
      /\ queue \in Seq(Events) /\ Len(queue) \in Nat /\ Len(queue) <= Capacity /\ Capacity \in Nat
  <2>1. hand' = hand
    BY DEF keyboard_handler, Fifo!Put
  <2> QED BY <2>1, InputAssumption DEF StoryInv, TypeOK, keyboard_handler
<1>2. x = wire[1] /\ x \in Bytes
  BY <1>1, Shifted
<1>3. Whole(wire, extended)' /\ (IsCode(x) => <<x.code, extended>> \in Keys)
  <2>1. Whole(Tail(wire), PrefixAfter(x)) /\ (IsCode(x) => <<x.code, extended>> \in Keys)
    BY <1>1, WholeShrinks
  <2>2. Whole(wire, extended)' <=> Whole(wire', extended')
    BY DEF Whole, KeyAt, Prefixed
  <2> QED BY <1>1, <2>1, <2>2
<1>4. IsCode(x) => e \in Events /\ e.keycode = <<x.code, extended>> /\ e.pressed = ~x.released
  <2>1. IsCode(x) => x \in Scancodes
    BY <1>2, ByteFacts
  <2> QED BY <1>1, <2>1 DEF EventOf, Events, Scancodes, KeyCodes
<1>5. /\ IsCode(x) /\ Len(queue) < Capacity => queue' = Append(queue, e) /\ dropped' = dropped \ {e.keycode}
      /\ IsCode(x) /\ Len(queue) = Capacity => queue' = queue /\ dropped' = dropped \cup {e.keycode}
      /\ ~IsCode(x) => queue' = queue /\ dropped' = dropped
  BY <1>1 DEF keyboard_handler, Fifo!Put
<1>6. OwnKeys'
  <2>1. CASE queue' = queue
    BY <1>1, <2>1 DEF StoryInv, OwnKeys
  <2>2. CASE IsCode(x) /\ queue' = Append(queue, e)
    <3>1. e \in Events /\ e.keycode \in Keys
      BY <1>3, <1>4, <2>2
    <3> HIDE DEF e
    <3>2. Len(queue') = Len(queue) + 1 /\ queue'[Len(queue) + 1] = e /\ \A i \in 1..Len(queue) : queue'[i] = queue[i]
      BY <1>1, <2>2, <3>1
    <3>3. \A i \in 1..Len(queue') : i = Len(queue) + 1 \/ i \in 1..Len(queue)
      BY <1>1, <3>2
    <3> QED BY <1>1, <3>1, <3>2, <3>3 DEF StoryInv, OwnKeys
  <2> QED BY <1>1, <1>5, <2>1, <2>2
<1>7. ASSUME NEW q \in Keys
      PROVE  /\ Ends(OfWire(q)', Told(q)')
             /\ q \notin dropped' /\ ~Has(OfWire(q)') =>
                  /\ Ends(OfQueue(q)', Told(q)')
                  /\ ~Has(OfQueue(q)') /\ OfHand(q)' # "other" => OfHand(q)' = Told(q)'
             /\ q \in dropped \/ Pending(q) => q \in dropped' \/ OfHand(q)' # "other" \/ Has(OfQueue(q)') \/ Has(OfWire(q)')
  <2> DEFINE W == OfWire(q)
             Q == OfQueue(q)
             said == SaidAt(wire, extended, 1, q)
             told == Told(q)
  <2>1. /\ W \in Seq(Kinds) /\ Q \in Seq(Kinds) /\ said \in Kinds
    BY Parts, KindsOf DEF StoryInv
  <2>2. OfWire(q)' = Tail(W) /\ W # <<>> /\ Head(W) = said
    <3>1. OfWire(q)' = Bytewise(wire', extended', q)
      BY DEF OfWire, Bytewise, SaidAt, KeyAt, Prefixed
    <3> QED BY <1>1, <3>1, WireShrinks DEF OfWire
  <2>3. IsCode(x) => said = KindOf(e.keycode, e.pressed, q)
    <3>1. KeyAt(wire, extended, 1) = <<x.code, extended>>
      BY <1>1, <1>2 DEF KeyAt, Prefixed
    <3> QED BY <1>2, <1>4, <3>1 DEF SaidAt
  <2>4. /\ IsCode(x) => (said # "other" <=> q = e.keycode)
        /\ ~IsCode(x) => said = "other"
    BY <1>2, <2>3 DEF KindOf, SaidAt
  <2>5. Told(q)' = told /\ OfHand(q)' = OfHand(q)
    BY <1>1 DEF Told, OfHand
  <2>6. /\ Ends(W, told)
        /\ q \notin dropped /\ ~Has(W) => Ends(Q, told) /\ (~Has(Q) /\ OfHand(q) # "other" => OfHand(q) = told)
    BY DEF StoryInv, LastTold
  <2>7. /\ OfQueue(q)' = Eventwise(queue', q)
        /\ queue' = queue => OfQueue(q)' = Q
    BY DEF OfQueue, Eventwise
  <2>8. IsCode(x) /\ queue' = Append(queue, e) => OfQueue(q)' = Append(Q, said)
    <3>1. CASE IsCode(x)
      <4>1. e \in Events
        BY <1>4, <3>1
      <4>2. Eventwise(Append(queue, e), q) = Append(Eventwise(queue, q), KindOf(e.keycode, e.pressed, q))
        <5> HIDE DEF e
        <5> QED BY <1>1, <4>1, QueueGrows
      <4> HIDE DEF e
      <4> QED BY <2>3, <2>7, <3>1, <4>2 DEF OfQueue
    <3> QED BY <3>1
  <2>9. Pending(q) <=> OfHand(q) # "other" \/ Has(Q) \/ Has(W)
    BY DEF Pending
  <2> HIDE DEF W, Q, said, told, x, e
  <2>10. /\ Has(W) <=> said # "other" \/ Has(Tail(W))
         /\ Ends(Tail(W), told)
         /\ ~Has(Tail(W)) /\ said # "other" => said = told
    BY <2>1, <2>2, <2>6, Shorter
  <2>11. /\ Has(Append(Q, said)) <=> Has(Q) \/ said # "other"
         /\ said = "other" /\ Ends(Q, told) => Ends(Append(Q, said), told)
         /\ said # "other" => Ends(Append(Q, said), said)
    BY <2>1, Longer
  <2>12. CASE IsCode(x) /\ Len(queue) < Capacity
    BY <1>5, <2>2, <2>4, <2>5, <2>6, <2>8, <2>9, <2>10, <2>11, <2>12
  <2>13. CASE IsCode(x) /\ Len(queue) = Capacity
    BY <1>5, <2>2, <2>4, <2>5, <2>6, <2>7, <2>9, <2>10, <2>13
  <2>14. CASE ~IsCode(x)
    BY <1>5, <2>2, <2>4, <2>5, <2>6, <2>7, <2>9, <2>10, <2>14
  <2> QED BY <1>1, <2>12, <2>13, <2>14
<1>8. LastTold'
  BY <1>7 DEF LastTold, Ends, Has
<1>9. \A q \in Keys : q \in dropped \/ Pending(q) => q \in dropped' \/ Pending(q)'
  BY <1>7 DEF Pending, Has
<1> QED BY <1>1, <1>3, <1>6, <1>8, <1>9

\* get_key takes the first event: what it says of its key is said by the hand now.
LEMMA TakeStep ==
  ASSUME StoryInv, get_key
  PROVE  /\ Whole(wire, extended)' /\ OwnKeys' /\ LastTold' /\ held' = held /\ dropped' = dropped
         /\ \A q \in Keys : Pending(q) => Pending(q)'
<1>1. /\ hand = NoEvent /\ queue # <<>> /\ hand' = Head(queue) /\ queue' = Tail(queue)
      /\ held' = held /\ dropped' = dropped /\ wire' = wire /\ extended' = extended
      /\ queue \in Seq(Events)
  BY DEF get_key, Fifo!Get, StoryInv, TypeOK
<1>2. /\ Len(queue) \in Nat /\ Len(queue) >= 1 /\ Head(queue) = queue[1] /\ Len(queue') = Len(queue) - 1
      /\ \A i \in 1..Len(queue) - 1 : queue'[i] = queue[i + 1]
      /\ Head(queue) \in Events /\ Head(queue) # NoEvent
  <2>1. Head(queue) \in Events
    BY <1>1, HeadTailProperties
  <2> QED BY <1>1, <2>1, EmptySeq, HeadTailProperties, InputAssumption
<1>3. Whole(wire, extended)'
  BY <1>1 DEF StoryInv, Whole, KeyAt, Prefixed
<1>4. OwnKeys'
  <2>1. \A i \in 1..Len(queue') : i + 1 \in 1..Len(queue) /\ queue'[i] = queue[i + 1]
    BY <1>2
  <2>2. 1 \in 1..Len(queue)
    BY <1>2
  <2> QED BY <1>1, <1>2, <2>1, <2>2 DEF StoryInv, OwnKeys
<1>5. ASSUME NEW q \in Keys
      PROVE  /\ OfWire(q)' = OfWire(q) /\ Told(q)' = Told(q)
             /\ q \notin dropped' /\ ~Has(OfWire(q)) =>
                  /\ Ends(OfQueue(q)', Told(q))
                  /\ ~Has(OfQueue(q)') /\ OfHand(q)' # "other" => OfHand(q)' = Told(q)
             /\ Pending(q) => OfHand(q)' # "other" \/ Has(OfQueue(q)') \/ Has(OfWire(q))
  <2>1. OfWire(q)' = OfWire(q) /\ Told(q)' = Told(q)
    BY <1>1 DEF OfWire, Bytewise, SaidAt, KeyAt, Prefixed, Told
  <2>2. OfQueue(q)' = Tail(OfQueue(q)) /\ OfQueue(q) # <<>> /\ OfQueue(q) \in Seq(Kinds)
    <3>1. OfQueue(q)' = Eventwise(queue', q)
      BY DEF OfQueue, Eventwise
    <3> QED BY <1>1, <3>1, QueueShrinks, Parts DEF OfQueue, StoryInv
  <2>3. OfHand(q)' = Head(OfQueue(q)) /\ OfHand(q) = "other"
    <3>1. Head(OfQueue(q)) = KindOf(Head(queue).keycode, Head(queue).pressed, q)
      BY <1>1, QueueShrinks DEF OfQueue
    <3> QED BY <1>1, <1>2, <3>1 DEF OfHand
  <2>4. q \notin dropped /\ ~Has(OfWire(q)) => Ends(OfQueue(q), Told(q))
    BY DEF StoryInv, LastTold
  <2> QED BY <1>1, <2>1, <2>2, <2>3, <2>4, Shorter DEF Pending
<1>6. LastTold'
  <2>1. \A q \in Keys : Ends(OfWire(q), Told(q))
    BY DEF StoryInv, LastTold
  <2> QED BY <1>5, <2>1 DEF LastTold, Ends, Has
<1>7. \A q \in Keys : Pending(q) => Pending(q)'
  BY <1>5 DEF Pending, Has
<1> QED BY <1>1, <1>3, <1>4, <1>6, <1>7

\* A reader handles the event in its hands: unless more is to come of the key, or was dropped,
\* the event said what the user does.
LEMMA HandleStep ==
  ASSUME StoryInv, Fifo!Handle, UNCHANGED <<extended, held, wire, dropped>>, NEW k, k = hand.keycode
  PROVE  /\ Whole(wire, extended)' /\ OwnKeys' /\ LastTold' /\ hand # NoEvent /\ k \in Keys
         /\ \A q \in Keys \ {k} : Pending(q)' <=> Pending(q)
         /\ k \in dropped \/ Pending(k)' \/ (hand.pressed <=> k \in held)
<1>1. hand # NoEvent /\ hand' = NoEvent /\ queue' = queue
  BY DEF Fifo!Handle
<1>2. k \in Keys
  BY <1>1 DEF StoryInv, OwnKeys
<1>3. Whole(wire, extended)' /\ OwnKeys'
  BY <1>1 DEF StoryInv, OwnKeys, Whole, KeyAt, Prefixed
<1>4. \A q : /\ OfWire(q)' = OfWire(q) /\ OfQueue(q)' = OfQueue(q) /\ Told(q)' = Told(q) /\ OfHand(q)' = "other"
  BY <1>1 DEF OfWire, Bytewise, SaidAt, KeyAt, Prefixed, OfQueue, Eventwise, Told, OfHand
<1>5. \A q : /\ Has(OfQueue(q))' <=> Has(OfQueue(q))
             /\ Has(OfWire(q))' <=> Has(OfWire(q))
  BY <1>4 DEF Has
<1>6. \A q \in Keys : /\ Ends(OfWire(q), Told(q))
                      /\ q \notin dropped /\ ~Has(OfWire(q)) =>
                           /\ Ends(OfQueue(q), Told(q))
                           /\ ~Has(OfQueue(q)) /\ OfHand(q) # "other" => OfHand(q) = Told(q)
  BY DEF StoryInv, LastTold
<1>7. LastTold'
  <2>1. \A q : /\ Ends(OfWire(q), Told(q))' <=> Ends(OfWire(q), Told(q))
               /\ Ends(OfQueue(q), Told(q))' <=> Ends(OfQueue(q), Told(q))
    BY <1>4 DEF Ends
  <2>2. ASSUME NEW q \in Keys
        PROVE  /\ Ends(OfWire(q), Told(q))'
               /\ q \notin dropped' /\ ~Has(OfWire(q))' =>
                    /\ Ends(OfQueue(q), Told(q))'
                    /\ ~Has(OfQueue(q))' /\ OfHand(q)' # "other" => OfHand(q)' = Told(q)'
    <3>1. Ends(OfWire(q), Told(q))'
      BY <1>6, <2>1
    <3>2. dropped' = dropped /\ OfHand(q)' = "other"
      BY <1>4
    <3>3. ASSUME q \notin dropped', ~Has(OfWire(q))' PROVE Ends(OfQueue(q), Told(q))'
      BY <1>6, <1>5, <2>1, <3>2, <3>3
    <3> QED BY <3>1, <3>2, <3>3
  <2> QED BY <2>2 DEF LastTold
<1>8. \A q \in Keys \ {k} : Pending(q)' <=> Pending(q)
  BY <1>4 DEF Pending, OfHand, KindOf
<1>9. k \in dropped \/ Pending(k)' \/ (hand.pressed <=> k \in held)
  <2>1. OfHand(k) = IF hand.pressed THEN "press" ELSE "release"
    BY <1>1 DEF OfHand, KindOf
  <2>2. ~Pending(k)' => ~Has(OfQueue(k)) /\ ~Has(OfWire(k))
    BY <1>5 DEF Pending
  <2>3. OfHand(k) # "other"
    BY <2>1
  <2>4. k \notin dropped /\ ~Pending(k)' => OfHand(k) = Told(k)
    <3>1. SUFFICES ASSUME k \notin dropped, ~Pending(k)' PROVE OfHand(k) = Told(k)
      OBVIOUS
    <3>2. ~Has(OfQueue(k)) /\ ~Has(OfWire(k))
      BY <2>2, <3>1
    <3> QED BY <1>2, <1>6, <2>3, <3>1, <3>2
  <2> QED BY <2>1, <2>4 DEF Told
<1> QED BY <1>1, <1>2, <1>3, <1>7, <1>8, <1>9

\* Every step, and every stutter, keeps the stories.
LEMMA StoryStep == StoryInv /\ [Next]_vars => StoryInv'
<1> SUFFICES ASSUME StoryInv, [Next]_vars PROVE StoryInv'
  OBVIOUS
<1>1. TypeOK'
  BY TypeStep DEF StoryInv
<1>2. ASSUME NEW k \in Keys, Press(k) \/ Repeat(k) \/ Release(k)
      PROVE  Whole(wire, extended)' /\ OwnKeys' /\ LastTold'
  BY <1>2, UserStep
<1>3. ASSUME keyboard_handler PROVE Whole(wire, extended)' /\ OwnKeys' /\ LastTold'
  BY <1>3, InterruptStep
<1>4. ASSUME get_key PROVE Whole(wire, extended)' /\ OwnKeys' /\ LastTold'
  BY <1>4, TakeStep
<1>5. ASSUME BrowserHandles \/ GameHandles PROVE Whole(wire, extended)' /\ OwnKeys' /\ LastTold'
  <2>1. Fifo!Handle /\ UNCHANGED <<extended, held, wire, dropped>>
    BY <1>5 DEF BrowserHandles, GameHandles
  <2>2. PICK k : k = hand.keycode
    OBVIOUS
  <2> QED BY <2>1, <2>2, HandleStep
<1>6. ASSUME UNCHANGED storyVars PROVE Whole(wire, extended)' /\ OwnKeys' /\ LastTold'
  BY <1>6, StoryKept DEF StoryInv
<1>7. ASSUME Load \/ Drained \/ do_cycle \/ GameAcknowledges \/ EndFrame \/ \E sel \in Selections : GameSelects(sel)
      PROVE  UNCHANGED storyVars
  BY <1>7 DEF Load, Drained, do_cycle, GameAcknowledges, EndFrame, GameSelects, driver, storyVars
<1>8. UNCHANGED vars => UNCHANGED storyVars
  BY DEF vars, driver, storyVars
<1> QED BY <1>1, <1>2, <1>3, <1>4, <1>5, <1>6, <1>7, <1>8 DEF Next, StoryInv

-----------------------------------------------------------------------------
(* The joypad *)

\* While no key of the pad or the browser is handled, every reason stays a reason.
LEMMA ReasonsKept ==
  ASSUME PadInv, row_down' = row_down, eaten' = eaten, mode' = "browser" => mode = "browser",
         \A k \in Keys : /\ k \in dropped \/ Pending(k) => k \in dropped' \/ Pending(k)'
                         /\ (k \in held' <=> k \in held) \/ Pending(k)'
  PROVE  PadInv'
<1>1. \A b : KeysOf(b) \subseteq Keys
  BY DEF KeysOf
<1>2. DownForAReason'
  BY <1>1 DEF PadInv, DownForAReason
<1>3. UpForAReason'
  BY <1>1 DEF PadInv, UpForAReason
<1> QED BY <1>2, <1>3 DEF PadInv

\* The browser takes a press, or throws a release away: no button moves.
LEMMA BrowserPad ==
  ASSUME StoryInv, PadInv, BrowserHandles
  PROVE  PadInv'
<1>0. PICK k : k = hand.keycode
  OBVIOUS
<1>1. /\ mode = "browser" /\ row_down' = row_down /\ dropped' = dropped /\ held' = held
      /\ eaten' = IF hand.pressed THEN eaten \cup {k} ELSE eaten \ {k}
  BY <1>0 DEF BrowserHandles, keypad
<1>2. row_down = {}
  BY <1>1 DEF PadInv
<1>3. /\ k \in Keys /\ \A q \in Keys \ {k} : Pending(q)' <=> Pending(q)
      /\ k \in dropped \/ Pending(k)' \/ (hand.pressed <=> k \in held)
  BY <1>0, HandleStep DEF BrowserHandles
<1>4. \A b : KeysOf(b) \subseteq Keys
  BY DEF KeysOf
<1>5. UpForAReason'
  <2>1. SUFFICES ASSUME NEW b \in Buttons, KeysOf(b) # {}
                 PROVE  \E q \in KeysOf(b) : q \notin held' \/ q \in dropped' \/ q \in eaten' \/ Pending(q)'
    BY DEF UpForAReason
  <2>2. PICK q \in KeysOf(b) : q \notin held \/ q \in dropped \/ q \in eaten \/ Pending(q)
    BY <1>2, <2>1 DEF PadInv, UpForAReason
  <2>3. q \in Keys
    BY <1>4, <2>2
  <2>4. CASE q = k
    BY <1>1, <1>3, <2>2, <2>4
  <2>5. CASE q # k
    BY <1>1, <1>3, <2>2, <2>3, <2>5
  <2> QED BY <2>4, <2>5
<1> QED BY <1>1, <1>2, <1>5 DEF PadInv, DownForAReason

\* The drain loop moves the button of the key it handles; the others keep their reasons.
LEMMA GamePad ==
  ASSUME StoryInv, PadInv, GameHandles
  PROVE  PadInv'
<1>0. PICK k : k = hand.keycode
  OBVIOUS
<1> DEFINE c == map_keycode[k]
<1>1. /\ mode' # "browser" /\ dropped' = dropped /\ held' = held /\ eaten' = eaten \ {k}
      /\ c = NoButton => row_down' = row_down
      /\ c # NoButton => row_down' = RowsAfter(c, hand.pressed)
  BY <1>0 DEF GameHandles, keypad
<1>2. /\ k \in Keys /\ \A q \in Keys \ {k} : Pending(q)' <=> Pending(q)
      /\ k \in dropped \/ Pending(k)' \/ (hand.pressed <=> k \in held)
  BY <1>0, HandleStep DEF GameHandles
<1>3. /\ \A b : KeysOf(b) \subseteq Keys /\ (k \in KeysOf(b) => b = c)
      /\ k \in KeysOf(c) /\ NoButton \notin Buttons
  BY <1>2, InputAssumption DEF KeysOf
<1>4. row_down \subseteq Buttons
  BY DEF StoryInv, TypeOK
<1> HIDE DEF c
<1>5. \A b \in Buttons : /\ b # c => (b \in row_down' <=> b \in row_down)
                         /\ b = c => (b \in row_down' <=> hand.pressed)
  BY <1>1, <1>3 DEF RowsAfter
<1>6. row_down' \subseteq Buttons
  BY <1>1, <1>4, TypeStep DEF StoryInv, TypeOK, Next
<1>7. DownForAReason'
  <2>1. SUFFICES ASSUME NEW b \in row_down'
                 PROVE  \E q \in KeysOf(b) : q \in held' \/ q \in dropped' \/ Pending(q)'
    BY DEF DownForAReason
  <2>2. CASE b = c
    BY <1>1, <1>2, <1>3, <1>5, <1>6, <2>1, <2>2
  <2>3. CASE b # c
    <3>1. b \in row_down
      BY <1>5, <1>6, <2>1, <2>3
    <3>2. PICK q \in KeysOf(b) : q \in held \/ q \in dropped \/ Pending(q)
      BY <3>1 DEF PadInv, DownForAReason
    <3>3. q \in Keys \ {k}
      BY <1>3, <2>3, <3>2
    <3> QED BY <1>1, <1>2, <3>2, <3>3
  <2> QED BY <2>2, <2>3
<1>8. UpForAReason'
  <2>1. SUFFICES ASSUME NEW b \in Buttons, b \notin row_down', KeysOf(b) # {}
                 PROVE  \E q \in KeysOf(b) : q \notin held' \/ q \in dropped' \/ q \in eaten' \/ Pending(q)'
    BY DEF UpForAReason
  <2>2. CASE b = c
    BY <1>1, <1>2, <1>3, <1>5, <2>1, <2>2
  <2>3. CASE b # c
    <3>1. b \in Buttons \ row_down
      BY <1>5, <2>1, <2>3
    <3>2. PICK q \in KeysOf(b) : q \notin held \/ q \in dropped \/ q \in eaten \/ Pending(q)
      BY <2>1, <3>1 DEF PadInv, UpForAReason
    <3>3. q \in Keys \ {k}
      BY <1>3, <2>3, <3>2
    <3> QED BY <1>1, <1>2, <3>2, <3>3
  <2> QED BY <2>2, <2>3
<1> QED BY <1>1, <1>7, <1>8 DEF PadInv

\* Every step, and every stutter, keeps a reason for each button.
LEMMA PadStep == InputInv /\ [Next]_vars => PadInv'
<1> SUFFICES ASSUME StoryInv, PadInv, [Next]_vars PROVE PadInv'
  BY DEF InputInv
<1>1. ASSUME NEW k \in Keys, Press(k) \/ Repeat(k) \/ Release(k) PROVE PadInv'
  <2>1. row_down' = row_down /\ eaten' = eaten /\ mode' = mode /\ dropped' = dropped
    BY <1>1 DEF Press, Repeat, Release, Send, keypad
  <2> QED BY <1>1, <2>1, UserStep, ReasonsKept
<1>2. ASSUME keyboard_handler PROVE PadInv'
  <2>1. row_down' = row_down /\ eaten' = eaten /\ mode' = mode
    BY <1>2 DEF keyboard_handler, keypad
  <2> QED BY <1>2, <2>1, InterruptStep, ReasonsKept
<1>3. ASSUME get_key PROVE PadInv'
  <2>1. row_down' = row_down /\ eaten' = eaten /\ mode' = mode
    BY <1>3 DEF get_key, keypad
  <2> QED BY <1>3, <2>1, TakeStep, ReasonsKept
<1>4. ASSUME BrowserHandles PROVE PadInv'
  BY <1>4, BrowserPad
<1>5. ASSUME GameHandles PROVE PadInv'
  BY <1>5, GamePad
<1>6. ASSUME UNCHANGED storyVars, row_down' = row_down, eaten' = eaten, mode' = "browser" => mode = "browser"
      PROVE  PadInv'
  <2>1. held' = held /\ dropped' = dropped
    BY <1>6 DEF storyVars
  <2> QED BY <1>6, <2>1, StoryKept, ReasonsKept
<1>7. ASSUME Load \/ Drained \/ do_cycle \/ GameAcknowledges \/ EndFrame \/ \E sel \in Selections : GameSelects(sel)
      PROVE  /\ UNCHANGED storyVars
             /\ row_down' = row_down /\ eaten' = eaten /\ (mode' = "browser" => mode = "browser")
  BY <1>7 DEF Load, Drained, do_cycle, GameAcknowledges, EndFrame, GameSelects, driver, keypad, storyVars
<1>8. UNCHANGED vars => UNCHANGED storyVars /\ row_down' = row_down /\ eaten' = eaten /\ mode' = mode
  BY DEF vars, driver, keypad, storyVars
<1> QED BY <1>1, <1>2, <1>3, <1>4, <1>5, <1>6, <1>7, <1>8 DEF Next

\* Nothing is told and nothing is down at first.
LEMMA InputInitInv == Init => InputInv
<1> SUFFICES ASSUME Init PROVE InputInv
  OBVIOUS
<1>1. /\ queue = <<>> /\ hand = NoEvent /\ extended = FALSE /\ held = {} /\ wire = <<>> /\ mode = "browser"
      /\ row_down = {} /\ select = {} /\ lines = {} /\ interrupt = FALSE /\ intf = FALSE
      /\ dropped = {} /\ eaten = {}
  BY DEF Init, Fifo!Init
<1>2. TypeOK
  <2>1. Capacity \in Nat /\ MaxWire \in Nat
    BY InputAssumption
  <2>2. LowLines({}, {}) = {}
    BY DEF LowLines
  <2>3. queue \in Seq(Events) /\ Len(queue) <= Capacity
    BY <1>1, <2>1
  <2>4. wire \in Seq(Bytes) /\ Len(wire) <= MaxWire
    BY <1>1, <2>1
  <2>5. lines = LowLines(select, row_down)
    BY <1>1, <2>2
  <2> QED BY <1>1, <2>3, <2>4, <2>5 DEF TypeOK
<1>3. Whole(wire, extended) /\ OwnKeys
  BY <1>1 DEF Whole, OwnKeys
<1>4. LastTold
  BY <1>1 DEF LastTold, Ends, Has, OfWire, OfQueue, OfHand, Bytewise, Eventwise
<1>5. PadInv
  BY <1>1 DEF PadInv, DownForAReason, UpForAReason, KeysOf
<1> QED BY <1>2, <1>3, <1>4, <1>5 DEF InputInv, StoryInv

\* When nothing is on the way no story goes on.
LEMMA QuietToldAll == ASSUME Quiet, NEW k PROVE ~Pending(k)
BY DEF Quiet, Pending, OfHand, OfQueue, OfWire, Eventwise, Bytewise, Has

-----------------------------------------------------------------------------
(* The types of the input path hold in every state, and the lines the game reads are never stale. *)
THEOREM TypeCorrect == Spec => []TypeOK
<1>1. InputInv /\ [Next]_vars => InputInv'
  BY StoryStep, PadStep DEF InputInv
<1>2. InputInv => TypeOK
  BY DEF InputInv, StoryInv
<1> QED BY <1>1, <1>2, InputInitInv, PTL DEF Spec

(* Whatever the user types, and wherever the main loop is when interrupts strike: once every byte is *)
(* processed, a button none of whose keys is held is up, and one all of whose keys are held is down, *)
(* but for keys whose latest event was dropped or taken by the browser.                              *)
THEOREM Followed == Spec => []JoypadFollowsKeys
<1>1. InputInv /\ [Next]_vars => InputInv'
  BY StoryStep, PadStep DEF InputInv
<1>2. InputInv => JoypadFollowsKeys
  <2>1. SUFFICES ASSUME InputInv, Quiet, NEW b \in Buttons, KeysOf(b) \cap dropped = {}
                 PROVE  /\ KeysOf(b) \cap held = {} => b \notin row_down
                        /\ KeysOf(b) # {} /\ KeysOf(b) \subseteq held \ eaten => b \in row_down
    BY DEF JoypadFollowsKeys
  <2>2. \A k : ~Pending(k)
    BY <2>1, QuietToldAll
  <2> QED BY <2>1, <2>2 DEF InputInv, PadInv, DownForAReason, UpForAReason
<1> QED BY <1>1, <1>2, InputInitInv, PTL DEF Spec
=============================================================================
