------------------------------ MODULE DataProofs ------------------------------
(* What the other proofs need of numbers, sequences and functions: induction over the     *)
(* numbers, functions defined step by step, sequences without repetitions, quotients, and *)
(* what the operations of the kernel's linked lists make of the sequence a list shows.    *)
EXTENDS Integers, FiniteSets, IntrusiveList, SequencesExt, SequenceTheorems, FiniteSetTheorems,
        WellFoundedInduction, TLAPS

(* Induction over the numbers, as a fact about sets: a set of numbers that is not empty has a least one. *)
LEMMA Least ==
  ASSUME NEW T, T \subseteq Nat, T # {}
  PROVE  \E x \in T : \A y \in T : x <= y
<1> DEFINE Less == {ss \in Nat \X Nat : ss[1] < ss[2]}
<1>1. IsWellFoundedOn(Less, Nat)
  BY NatLessThanWellFounded DEF OpToRel
<1>2. PICK x \in T : \A y \in T : <<y, x>> \notin Less
  <2> HIDE DEF Less
  <2> QED BY <1>1, WFMin
<1>3. ASSUME NEW y \in T PROVE x <= y
  <2>1. x \in Nat /\ y \in Nat
    OBVIOUS
  <2>2. ~(y < x)
    BY <1>2, <2>1
  <2> QED BY <2>1, <2>2
<1> QED BY <1>3

-----------------------------------------------------------------------------
(* A list without repetitions is no longer than its set is large. *)
LEMMA InjectiveLength ==
  ASSUME NEW E, IsFiniteSet(E), NEW s \in Seq(E), IsInjective(s)
  PROVE  Len(s) <= Cardinality(E) /\ Cardinality(E) \in Nat
<1>1. DOMAIN s = 1..Len(s) /\ s \in [1..Len(s) -> E] /\ Len(s) \in Nat
  OBVIOUS
<1>2. \A i, j \in 1..Len(s) : s[i] = s[j] => i = j
  BY <1>1 DEF IsInjective
<1>3. IsFiniteSet(1..Len(s)) /\ Cardinality(1..Len(s)) = Len(s)
  <2>1. IsFiniteSet(1..Len(s)) /\ Cardinality(1..Len(s)) = (IF 1 > Len(s) THEN 0 ELSE Len(s) - 1 + 1)
    BY <1>1, FS_Interval
  <2> QED BY <1>1, <2>1
<1>4. s \in Injection(1..Len(s), E)
  BY <1>1, <1>2 DEF Injection, IsInjective
<1>6. Cardinality(1..Len(s)) <= Cardinality(E)
  BY <1>4, FS_Injection
<1>7. Cardinality(E) \in Nat
  BY FS_CardinalityType
<1> QED BY <1>3, <1>6, <1>7

-----------------------------------------------------------------------------
(* A function that is defined step by step, from what it was before, exists. *)
Iterates(f, N, a, step) == \A i \in 0..N : f[i] = IF i = 0 THEN a ELSE step[<<f[i - 1], i>>]

\* A function that each step computes from the one before exists over 0..N.
LEMMA Iterated ==
  ASSUME NEW S, NEW a \in S, NEW N \in Nat, NEW step \in [S \X (1..N) -> S]
  PROVE  \E f \in [0..N -> S] : Iterates(f, N, a, step)
<1> DEFINE Ok(n) == \E f \in [0..n -> S] : Iterates(f, n, a, step)
           bad == {n \in 0..N : ~Ok(n)}
<1>1. bad = {}
  <2>1. SUFFICES ASSUME bad # {} PROVE FALSE
    OBVIOUS
  <2>2. PICK n \in bad : \A m \in bad : n <= m
    <3> HIDE DEF bad
    <3>1. bad \subseteq Nat
      BY DEF bad
    <3> QED BY <2>1, <3>1, Least
  <2>3. n \in 0..N /\ ~Ok(n)
    OBVIOUS
  <2>4. CASE n = 0
    <3> DEFINE f == [i \in 0..0 |-> a]
    <3>1. f \in [0..n -> S] /\ Iterates(f, n, a, step)
      BY <2>4 DEF Iterates
    <3> QED BY <2>3, <3>1
  <2>5. CASE n # 0
    <3>1. n - 1 \in 0..N /\ ~(n <= n - 1)
      BY <2>3, <2>5
    <3>2. Ok(n - 1)
      BY <2>2, <3>1
    <3>3. PICK f \in [0..n - 1 -> S] : Iterates(f, n - 1, a, step)
      BY <3>2
    <3> DEFINE g == [i \in 0..n |-> IF i = n THEN step[<<f[n - 1], n>>] ELSE f[i]]
    <3>4. f[n - 1] \in S /\ n \in 1..N /\ step[<<f[n - 1], n>>] \in S
      <4>1. f[n - 1] \in S /\ n \in 1..N
        BY <2>3, <2>5
      <4>2. <<f[n - 1], n>> \in S \X (1..N)
        BY <4>1
      <4> QED BY <4>1, <4>2
    <3>5. g \in [0..n -> S]
      BY <2>3, <3>4
    <3>6. ASSUME NEW i \in 0..n PROVE g[i] = IF i = 0 THEN a ELSE step[<<g[i - 1], i>>]
      <4>1. CASE i = n
        <5>1. g[i - 1] = f[n - 1] /\ g[i] = step[<<f[n - 1], n>>]
          BY <4>1, <2>3, <2>5
        <5> QED BY <4>1, <5>1, <2>5
      <4>2. CASE i # n
        <5>1. i \in 0..n - 1
          BY <4>2, <2>3
        <5>2. f[i] = IF i = 0 THEN a ELSE step[<<f[i - 1], i>>]
          BY <5>1, <3>3 DEF Iterates
        <5>3. g[i] = f[i] /\ (i # 0 => g[i - 1] = f[i - 1])
          BY <5>1, <4>2, <2>3
        <5> QED BY <5>2, <5>3
      <4> QED BY <4>1, <4>2
    <3> HIDE DEF g
    <3>7. Ok(n)
      BY <3>5, <3>6 DEF Iterates
    <3> QED BY <2>3, <3>7
  <2> QED BY <2>4, <2>5
<1>2. Ok(N)
  <2>1. N \in 0..N
    OBVIOUS
  <2> QED BY <1>1, <2>1
<1> QED BY <1>2

\* Induction over the numbers up to N: a set that has 0 and what follows its members has all of them.
LEMMA UpTo ==
  ASSUME NEW N \in Nat, NEW P, 0 \in P, \A n \in 1..N : n - 1 \in P => n \in P
  PROVE  \A n \in 0..N : n \in P
<1> DEFINE bad == {n \in 0..N : n \notin P}
<1>1. bad = {}
  <2>1. SUFFICES ASSUME bad # {} PROVE FALSE
    OBVIOUS
  <2>2. PICK n \in bad : \A m \in bad : n <= m
    <3> HIDE DEF bad
    <3>1. bad \subseteq Nat
      BY DEF bad
    <3> QED BY <2>1, <3>1, Least
  <2>3. n \in 1..N /\ n - 1 \in 0..N /\ ~(n <= n - 1) /\ n \notin P
    OBVIOUS
  <2>4. n - 1 \in P
    BY <2>2, <2>3
  <2> QED BY <2>3, <2>4
<1> QED BY <1>1

-----------------------------------------------------------------------------
\* x lies between its quotient by k times k and the next multiple of k.
LEMMA Divided ==
  ASSUME NEW x \in Nat, NEW k \in Nat \ {0}
  PROVE  /\ x \div k \in Nat
         /\ (x \div k) * k <= x
         /\ x < (x \div k) * k + k
OBVIOUS

\* n is at most the quotient of x by k exactly when n times k is at most x.
LEMMA DivGe ==
  ASSUME NEW x \in Nat, NEW k \in Nat \ {0}, NEW n \in Nat
  PROVE  n <= x \div k <=> n * k <= x
<1> DEFINE q == x \div k
<1>1. q \in Nat /\ q * k <= x /\ x < q * k + k
  BY Divided
<1> HIDE DEF q
<1>2. ASSUME n <= q PROVE n * k <= q * k
  <2>1. PICK d \in Nat : q = n + d
    <3>1. q - n \in Nat /\ q = n + (q - n)
      BY <1>1, <1>2
    <3> QED BY <3>1
  <2>2. q * k = n * k + d * k
    BY <2>1
  <2>3. d * k \in Nat /\ n * k \in Nat
    BY <2>1
  <2> QED BY <2>2, <2>3
<1>3. ASSUME q < n PROVE q * k + k <= n * k
  <2>1. PICK d \in Nat : n = (q + 1) + d
    <3>1. n - (q + 1) \in Nat /\ n = (q + 1) + (n - (q + 1))
      BY <1>1, <1>3
    <3> QED BY <3>1
  <2>2. n * k = (q * k + k) + d * k
    BY <1>1, <2>1
  <2>3. d * k \in Nat /\ q * k \in Nat
    BY <1>1, <2>1
  <2> QED BY <2>2, <2>3
<1>4. n * k \in Nat /\ q * k \in Nat
  BY <1>1
<1> QED BY <1>1, <1>2, <1>3, <1>4 DEF q

-----------------------------------------------------------------------------
(* Sequences one behind the other; of records with a label, those whose label no other has. *)
OwnElements(s) == s \in Seq({s[i] : i \in DOMAIN s})
Labels(s) == {s[i].label : i \in DOMAIN s}
Labelled(s, l, v) ==
  \E i \in DOMAIN s : /\ s[i].label = l /\ s[i].value = v
                      /\ \A j \in DOMAIN s : s[j].label = l => j = i
Size(s) == Len(s)

\* A sequence is one of its own elements.
LEMMA LinesOf ==
  ASSUME NEW U, NEW r \in Seq(U)
  PROVE  OwnElements(r)
<1> DEFINE R == {r[i] : i \in DOMAIN r}
<1>1. \A i \in 1..Len(r) : r[i] \in R
  OBVIOUS
<1> HIDE DEF R
<1>2. r \in Seq(R)
  <2>1. Len(r) \in Nat /\ DOMAIN r = 1..Len(r) /\ r = [i \in 1..Len(r) |-> r[i]]
    OBVIOUS
  <2>2. r \in [1..Len(r) -> R]
    BY <1>1, <2>1
  <2> QED BY <2>1, <2>2
<1> QED BY <1>2 DEF OwnElements, R

\* Where the elements of two sequences are when one follows the other.
LEMMA Concatenated ==
  ASSUME NEW s, NEW t, OwnElements(s), OwnElements(t)
  PROVE  /\ OwnElements(s \o t) /\ Len(s \o t) = Len(s) + Len(t) /\ Len(s) \in Nat /\ Len(t) \in Nat
         /\ DOMAIN s = 1..Len(s) /\ DOMAIN t = 1..Len(t) /\ DOMAIN (s \o t) = 1..Len(s) + Len(t)
         /\ \A i \in 1..Len(s) : (s \o t)[i] = s[i]
         /\ \A i \in 1..Len(t) : (s \o t)[Len(s) + i] = t[i]
         /\ \A i \in 1..Len(s) + Len(t) : i \notin 1..Len(s) => i - Len(s) \in 1..Len(t) /\ (s \o t)[i] = t[i - Len(s)]
<1> DEFINE S == {s[i] : i \in DOMAIN s}
           T == {t[i] : i \in DOMAIN t}
           U == S \cup T
<1>1. s \in Seq(U) /\ t \in Seq(U)
  BY DEF OwnElements
<1> HIDE DEF U
<1>2. /\ s \o t \in Seq(U) /\ Len(s \o t) = Len(s) + Len(t) /\ Len(s) \in Nat /\ Len(t) \in Nat
      /\ DOMAIN s = 1..Len(s) /\ DOMAIN t = 1..Len(t) /\ DOMAIN (s \o t) = 1..Len(s) + Len(t)
      /\ \A i \in 1..Len(s) : (s \o t)[i] = s[i]
      /\ \A i \in 1..Len(t) : (s \o t)[Len(s) + i] = t[i]
      /\ \A i \in 1..Len(s) + Len(t) : i \notin 1..Len(s) => i - Len(s) \in 1..Len(t) /\ (s \o t)[i] = t[i - Len(s)]
  BY <1>1
<1>4. OwnElements(s \o t)
  BY <1>2, LinesOf
<1> QED BY <1>2, <1>4

\* Their number.
LEMMA SizeOfBoth ==
  ASSUME NEW s, NEW t, OwnElements(s), OwnElements(t)
  PROVE  Size(s \o t) = Size(s) + Size(t) /\ Size(s) \in Nat /\ Size(t) \in Nat
BY Concatenated DEF Size

\* The first sequence's elements stay where they are.
LEMMA FirstOfBoth ==
  ASSUME NEW s, NEW t, OwnElements(s), OwnElements(t), NEW i \in DOMAIN s
  PROVE  (s \o t)[i] = s[i]
BY Concatenated

\* Their labels.
LEMMA LabelsOfBoth ==
  ASSUME NEW s, NEW t, OwnElements(s), OwnElements(t)
  PROVE  Labels(s \o t) = Labels(s) \cup Labels(t)
<1> DEFINE r == s \o t
<1>1. /\ DOMAIN s = 1..Len(s) /\ DOMAIN t = 1..Len(t) /\ DOMAIN r = 1..Len(s) + Len(t)
      /\ Len(s) \in Nat /\ Len(t) \in Nat
      /\ \A i \in 1..Len(s) : r[i] = s[i]
      /\ \A i \in 1..Len(t) : r[Len(s) + i] = t[i]
      /\ \A i \in 1..Len(s) + Len(t) : i \notin 1..Len(s) => i - Len(s) \in 1..Len(t) /\ r[i] = t[i - Len(s)]
  BY Concatenated
<1> HIDE DEF r
<1>2. ASSUME NEW i \in DOMAIN r PROVE r[i].label \in Labels(s) \cup Labels(t)
  BY <1>1 DEF Labels
<1>3. ASSUME NEW i \in DOMAIN s PROVE i \in DOMAIN r /\ r[i] = s[i]
  BY <1>1
<1>4. ASSUME NEW i \in DOMAIN t PROVE Len(s) + i \in DOMAIN r /\ r[Len(s) + i] = t[i]
  BY <1>1
<1>5. ASSUME NEW i \in DOMAIN s PROVE s[i].label \in Labels(r)
  BY <1>3 DEF Labels
<1>6. ASSUME NEW i \in DOMAIN t PROVE t[i].label \in Labels(r)
  BY <1>4 DEF Labels
<1> QED BY <1>2, <1>5, <1>6 DEF Labels, r

\* A label that one of them has once, and the other does not have.
LEMMA LabelledFirst ==
  ASSUME NEW s, NEW t, OwnElements(s), OwnElements(t), NEW l, NEW v, Labelled(s, l, v), l \notin Labels(t)
  PROVE  Labelled(s \o t, l, v)
<1> DEFINE r == s \o t
<1>1. /\ DOMAIN s = 1..Len(s) /\ DOMAIN t = 1..Len(t) /\ DOMAIN r = 1..Len(s) + Len(t)
      /\ Len(s) \in Nat /\ Len(t) \in Nat
      /\ \A i \in 1..Len(s) : r[i] = s[i]
      /\ \A i \in 1..Len(s) + Len(t) : i \notin 1..Len(s) => i - Len(s) \in 1..Len(t) /\ r[i] = t[i - Len(s)]
  BY Concatenated
<1> HIDE DEF r
<1>2. PICK i \in DOMAIN s : s[i].label = l /\ s[i].value = v /\ \A j \in DOMAIN s : s[j].label = l => j = i
  BY DEF Labelled
<1>3. i \in DOMAIN r /\ r[i] = s[i]
  BY <1>1
<1>4. ASSUME NEW j \in DOMAIN r, r[j].label = l PROVE j = i
  <2>1. CASE j \in 1..Len(s)
    BY <1>1, <1>2, <1>4, <2>1
  <2>2. CASE j \notin 1..Len(s)
    BY <1>1, <1>4, <2>2 DEF Labels
  <2> QED BY <2>1, <2>2
<1> QED BY <1>2, <1>3, <1>4 DEF Labelled, r

\* A label that only the second sequence has names the same value in both.
LEMMA LabelledSecond ==
  ASSUME NEW s, NEW t, OwnElements(s), OwnElements(t), NEW l, NEW v, Labelled(t, l, v), l \notin Labels(s)
  PROVE  Labelled(s \o t, l, v)
<1> DEFINE r == s \o t
<1>1. /\ DOMAIN s = 1..Len(s) /\ DOMAIN t = 1..Len(t) /\ DOMAIN r = 1..Len(s) + Len(t)
      /\ Len(s) \in Nat /\ Len(t) \in Nat
      /\ \A i \in 1..Len(s) : r[i] = s[i]
      /\ \A i \in 1..Len(t) : r[Len(s) + i] = t[i]
      /\ \A i \in 1..Len(s) + Len(t) : i \notin 1..Len(s) => i - Len(s) \in 1..Len(t) /\ r[i] = t[i - Len(s)]
  BY Concatenated
<1> HIDE DEF r
<1>2. PICK i \in DOMAIN t : t[i].label = l /\ t[i].value = v /\ \A j \in DOMAIN t : t[j].label = l => j = i
  BY DEF Labelled
<1>3. Len(s) + i \in DOMAIN r /\ r[Len(s) + i] = t[i]
  BY <1>1
<1>4. ASSUME NEW j \in DOMAIN r, r[j].label = l PROVE j = Len(s) + i
  <2>1. j \notin 1..Len(s)
    BY <1>1, <1>4 DEF Labels
  <2>2. j - Len(s) \in DOMAIN t /\ r[j] = t[j - Len(s)]
    BY <1>1, <2>1
  <2>3. j - Len(s) = i
    BY <1>2, <1>4, <2>2
  <2> QED BY <1>1, <2>3
<1> QED BY <1>2, <1>3, <1>4 DEF Labelled, r

\* A record whose label no other has.
LEMMA LabelledAt ==
  ASSUME NEW s, NEW i \in DOMAIN s, \A j \in DOMAIN s : s[j].label = s[i].label => j = i, NEW l, NEW v,
         s[i].label = l, s[i].value = v
  PROVE  Labelled(s, l, v)
BY DEF Labelled

\* A sequence of two, and of four, is the tuple of its elements.
LEMMA PairOf == ASSUME NEW S, NEW s \in Seq(S), Len(s) = 2 PROVE s = <<s[1], s[2]>>
OBVIOUS

\* The same of four.
LEMMA QuadOf == ASSUME NEW S, NEW s \in Seq(S), Len(s) = 4 PROVE s = <<s[1], s[2], s[3], s[4]>>
OBVIOUS

\* The first two of three elements.
LEMMA FirstTwo == ASSUME NEW a, NEW b, NEW c PROVE SubSeq(<<a, b, c>>, 1, 2) = <<a, b>>
<1> DEFINE s == <<a, b, c>>
           S == {a, b, c}
           t == SubSeq(s, 1, 2)
<1>1. s \in Seq(S) /\ Len(s) = 3 /\ s[1] = a /\ s[2] = b
  OBVIOUS
<1> HIDE DEF s, S
<1>2. t \in Seq(S) /\ Len(t) = 2
  BY <1>1, SubSeqProperties
<1>3. t[1] = s[1] /\ t[2] = s[2]
  BY <1>1, SubSeqProperties
<1> HIDE DEF t
<1>4. t = <<a, b>>
  BY <1>1, <1>2, <1>3, PairOf
<1> QED BY <1>4 DEF t, s

\* The first four and the last two of six elements.
LEMMA FourOfSix ==
  ASSUME NEW a, NEW b, NEW c, NEW e, NEW f, NEW h 
  PROVE  /\ SubSeq(<<a, b, c, e, f, h>>, 1, 4) = <<a, b, c, e>>
         /\ SubSeq(<<a, b, c, e, f, h>>, 5, 6) = <<f, h>>
<1> DEFINE s == <<a, b, c, e, f, h>>
           S == {a, b, c, e, f, h}
           t == SubSeq(s, 1, 4)
           u == SubSeq(s, 5, 6)
<1>1. s \in Seq(S) /\ Len(s) = 6 
  OBVIOUS
<1>0. s[1] = a /\ s[2] = b /\ s[3] = c /\ s[4] = e /\ s[5] = f /\ s[6] = h
  OBVIOUS
<1> HIDE DEF s, S
<1>2. t \in Seq(S) /\ Len(t) = 4 /\ u \in Seq(S) /\ Len(u) = 2
  <2>1. t \in Seq(S)
    <3>1. \A k \in 1..4 : s[k] \in S
      BY <1>1
    <3> QED BY <3>1, SubSeqProperties
  <2>2. Len(t) = 4
    BY <1>1, SubSeqProperties
  <2>3. u \in Seq(S)
    <3>1. \A k \in 5..6 : s[k] \in S
      <4>1. s[5] \in S /\ s[6] \in S
        BY <1>0 DEF S
      <4>2. \A k \in 5..6 : k = 5 \/ k = 6
        OBVIOUS
      <4> QED BY <4>1, <4>2
    <3> QED BY <3>1, SubSeqProperties
  <2>4. Len(u) = 2
    BY <1>1, SubSeqProperties
  <2> QED BY <2>1, <2>2, <2>3, <2>4
<1>3. \A i \in 1..4 : t[i] = s[i]
  BY <1>1, SubSeqProperties
<1>6. u[1] = s[5] /\ u[2] = s[6]
  BY <1>1, SubSeqProperties
<1> HIDE DEF t, u
<1>4. t = <<a, b, c, e>>
  <2>1. t[1] = a /\ t[2] = b /\ t[3] = c /\ t[4] = e
    BY <1>0, <1>3
  <2> QED BY <1>2, <2>1, QuadOf
<1>5. u = <<f, h>>
  BY <1>0, <1>2, <1>6, PairOf
<1> QED BY <1>4, <1>5 DEF t, s, u

\* Values of one, one and two elements end to end.
LEMMA OneOneTwo == ASSUME NEW a, NEW b, NEW c, NEW e PROVE <<a>> \o <<b>> \o <<c, e>> = <<a, b, c, e>>
<1> DEFINE S == {a, b, c, e}
           x == <<a>>
           y == <<b>>
           z == <<c, e>>
           t == x \o y \o z
<1>1. x \in Seq(S) /\ Len(x) = 1 /\ x[1] = a /\ y \in Seq(S) /\ Len(y) = 1 /\ y[1] = b
  OBVIOUS
<1>2. z \in Seq(S) /\ Len(z) = 2 /\ z[1] = c /\ z[2] = e
  OBVIOUS
<1> HIDE DEF x, y, z, S
<1>3. (x \o y) \in Seq(S) /\ Len(x \o y) = 2 /\ (x \o y)[1] = a /\ (x \o y)[2] = b
  BY <1>1, ConcatProperties
<1>4. t \in Seq(S) /\ Len(t) = 4
  <2> DEFINE xy == x \o y
  <2>1. xy \in Seq(S) /\ Len(xy) = 2
    BY <1>3
  <2> HIDE DEF xy
  <2>2. (xy \o z) \in Seq(S)
    BY <1>2, <2>1, ConcatProperties
  <2>3. Len(xy \o z) = Len(xy) + Len(z)
    BY <1>2, <2>1, ConcatProperties
  <2>4. Len(xy \o z) = 4
    BY <1>2, <2>1, <2>3
  <2> QED BY <2>2, <2>4 DEF xy
<1>5. t[1] = a /\ t[2] = b 
  BY <1>2, <1>3, ConcatProperties
<1>6. t[3] = c /\ t[4] = e
  BY <1>2, <1>3, ConcatProperties
<1> HIDE DEF t
<1>7. t = <<a, b, c, e>>
  BY <1>4, <1>5, <1>6, QuadOf
<1> QED BY <1>7 DEF t, x, y, z

\* A quotient of numbers that are multiples of 256.
LEMMA ScaledDiv ==
  ASSUME NEW x \in Nat, NEW b \in Nat \ {0}
  PROVE  (256 * x) \div (256 * b) = x \div b
<1> DEFINE y == 256 * x
           c == 256 * b
           q == x \div b
           r == y \div c
<1>1. y \in Nat /\ c \in Nat \ {0} /\ y = 256 * x /\ c = 256 * b
  OBVIOUS
<1> HIDE DEF y, c
<1>2. q \in Nat /\ r \in Nat
  BY <1>1, Divided
<1>3. ASSUME NEW n \in Nat PROVE n <= r <=> n <= q
  <2>1. n <= r <=> n * c <= y
    BY <1>1, DivGe
  <2>2. n <= q <=> n * b <= x
    BY DivGe
  <2>3. PICK k \in Nat : k = n * b
    OBVIOUS
  <2>4. n * c = 256 * k
    BY <1>1, <2>3
  <2> QED BY <1>1, <2>1, <2>2, <2>3, <2>4
<1>4. r = q
  <2>1. r <= r /\ q <= q
    BY <1>2
  <2> HIDE DEF q, r
  <2>2. r <= q /\ q <= r
    BY <1>2, <1>3, <2>1
  <2> QED BY <1>2, <2>2
<1> QED BY <1>4 DEF y, c, q, r

\* A number of six digits is three pairs of digits.
LEMMA Pairs ==
  ASSUME NEW v \in Nat, v <= 999999
  PROVE  \E y, z, r \in Nat : /\ y < 100 /\ z < 100 /\ r < 100 /\ v = 10000 * y + 100 * z + r
                              /\ v \div 10000 = y /\ (v \div 100) % 100 = z /\ v % 100 = r
<1>1. PICK q \in Nat, r \in Nat : v \div 100 = q /\ v % 100 = r /\ v = 100 * q + r /\ r < 100
  BY SMT
<1>2. q <= 9999
  BY SMT, <1>1
<1>3. PICK y \in Nat, z \in Nat : q \div 100 = y /\ q % 100 = z /\ q = 100 * y + z /\ z < 100
  BY SMT
<1>4. y < 100
  BY SMT, <1>2, <1>3
<1>5. 10000 * y + 100 * z + r = v
  BY SMT, <1>1, <1>3
<1>6. (10000 * y + 100 * z + r) \div 10000 = y
  BY SMT, <1>1, <1>3
<1>7. (v \div 100) % 100 = z
  BY <1>1, <1>3
<1> QED BY SMT, <1>1, <1>3, <1>4, <1>5, <1>6, <1>7

\* A place below a length is below the bound.
LEMMA Reach ==
  ASSUME NEW x \in Nat, NEW n \in Nat, NEW k \in 0..n + 1, NEW a \in x..x + k - 1
  PROVE  a \in x..x + n
OBVIOUS
-----------------------------------------------------------------------------
(* Lists.  The nodes of the elements E, and a list that shows s. *)
Ends(E)  == E \cup {None}
Nodes(E) == [next : Ends(E), prev : Ends(E)]
Lists(E) == [head : Ends(E), tail : Ends(E), len : Nat]

Represents(E, list, links, s) ==
  /\ s \in Seq(E) /\ IsInjective(s)
  /\ list \in Lists(E) /\ links \in [E -> Nodes(E)]
  /\ IsList(list, links, s)

Occurs(s, n) == \E i \in DOMAIN s : s[i] = n
Becomes(E, links, x, s, t) ==
  /\ Represents(E, x.list, x.links, t)
  /\ \A m \in E : ~Occurs(s, m) /\ ~Occurs(t, m) => x.links[m] = links[m]

\* A list just made, over nodes that are all unlinked, shows the empty sequence.
LEMMA EmptyShown ==
  ASSUME NEW E, None \notin E, NEW links \in [E -> Nodes(E)]
  PROVE  Represents(E, EmptyList, links, <<>>)
BY DEF Represents, IsInjective, IsList, EmptyList, Lists, Ends

\* The head of a list is None exactly when it shows nothing, and is the first element otherwise.
LEMMA HeadOf ==
  ASSUME NEW E, None \notin E, NEW list, NEW links, NEW s, Represents(E, list, links, s)
  PROVE  /\ Len(s) \in Nat /\ DOMAIN s = 1..Len(s) /\ \A i \in 1..Len(s) : s[i] \in E
         /\ is_empty(list) <=> s = <<>>
         /\ list.tail = None <=> s = <<>>
         /\ list.len = Len(s)
         /\ s = <<>> => list.head = None
         /\ s # <<>> => /\ Len(s) > 0
                        /\ list.head = s[1] /\ list.tail = s[Len(s)] /\ list.head \in E /\ list.tail \in E
<1>1. Len(s) \in Nat /\ DOMAIN s = 1..Len(s) /\ \A i \in 1..Len(s) : s[i] \in E
  BY DEF Represents
<1>2. s # <<>> => Len(s) > 0
  BY DEF Represents
<1>3. s # <<>> => list.head = s[1] /\ list.tail = s[Len(s)]
  BY DEF Represents, IsList
<1>4. s # <<>> => list.head \in E /\ list.tail \in E
  BY <1>1, <1>2, <1>3
<1>5. list.len = Len(s) /\ (s = <<>> => list.head = None /\ list.tail = None)
  BY DEF Represents, IsList
<1> QED BY <1>1, <1>2, <1>3, <1>4, <1>5 DEF is_empty

(* What the helpers do to each node. *)
LEMMA NodeEffects ==
  ASSUME NEW E, None \notin E, NEW links \in [E -> Nodes(E)], NEW n \in Ends(E), NEW m \in Ends(E)
  PROVE  /\ SetPrev(links, n, m) \in [E -> Nodes(E)]
         /\ SetNext(links, n, m) \in [E -> Nodes(E)]
         /\ \A e \in E : SetPrev(links, n, m)[e] =
                           IF e = n THEN [next |-> links[e].next, prev |-> m] ELSE links[e]
         /\ \A e \in E : SetNext(links, n, m)[e] =
                           IF e = n THEN [next |-> m, prev |-> links[e].prev] ELSE links[e]
<1>1. CASE n = None
  BY <1>1 DEF SetPrev, SetNext
<1>2. CASE n \in E
  <2>1. links[n] \in Nodes(E)
    BY <1>2
  <2>2. [links[n] EXCEPT !.prev = m] = [next |-> links[n].next, prev |-> m]
    BY <2>1 DEF Nodes
  <2>3. [links[n] EXCEPT !.next = m] = [next |-> m, prev |-> links[n].prev]
    BY <2>1 DEF Nodes
  <2>4. /\ [next |-> links[n].next, prev |-> m] \in Nodes(E)
        /\ [next |-> m, prev |-> links[n].prev] \in Nodes(E)
    BY <2>1 DEF Nodes
  <2>5. /\ SetPrev(links, n, m) = [links EXCEPT ![n] = [next |-> links[n].next, prev |-> m]]
        /\ SetNext(links, n, m) = [links EXCEPT ![n] = [next |-> m, prev |-> links[n].prev]]
    BY <1>2, <2>2, <2>3 DEF SetPrev, SetNext
  <2> QED BY <1>2, <2>4, <2>5
<1> QED BY <1>1, <1>2 DEF Ends

(* What a shown list is, in terms the provers use, and back. *)
LEMMA ShownFacts ==
  ASSUME NEW E, None \notin E, NEW list, NEW links, NEW s, Represents(E, list, links, s)
  PROVE  /\ list \in Lists(E) /\ links \in [E -> Nodes(E)] /\ s \in Seq(E)
         /\ \A i \in 1..Len(s) : links[s[i]] = [next |-> After(s, i), prev |-> Before(s, i)]
         /\ \A i, j \in 1..Len(s) : s[i] = s[j] => i = j
BY HeadOf DEF Represents, IsList, IsInjective

\* To show t it is enough that the head, the tail, the length and every node's two neighbours are t's.
LEMMA ShownBy ==
  ASSUME NEW E, NEW list \in Lists(E), NEW links \in [E -> Nodes(E)], NEW t \in Seq(E),
         \A i, j \in 1..Len(t) : t[i] = t[j] => i = j,
         list.len = Len(t),
         Len(t) = 0 => list.head = None /\ list.tail = None,
         Len(t) # 0 => list.head = t[1] /\ list.tail = t[Len(t)],
         \A i \in 1..Len(t) : links[t[i]] = [next |-> After(t, i), prev |-> Before(t, i)]
  PROVE  Represents(E, list, links, t)
<1>1. DOMAIN t = 1..Len(t) /\ (t = <<>> <=> Len(t) = 0)
  OBVIOUS
<1> QED BY <1>1 DEF Represents, IsList, IsInjective

\* push_front keeps the types of the list and of the nodes, whatever the node pushed was linked to.
LEMMA PushFrontTyped ==
  ASSUME NEW E, None \notin E, NEW list \in Lists(E), NEW links \in [E -> Nodes(E)], NEW n \in E
  PROVE  LET x == push_front(list, links, n)
         IN  x.list \in Lists(E) /\ x.links \in [E -> Nodes(E)]
<1> DEFINE new == [next |-> list.head, prev |-> None]
           mid == [links EXCEPT ![n] = new]
           x == push_front(list, links, n)
<1>1. new \in Nodes(E) /\ mid \in [E -> Nodes(E)] /\ x.links = SetPrev(mid, list.head, n)
  BY DEF push_front, Nodes, Ends, Lists
<1>2. x.links \in [E -> Nodes(E)]
  <2> HIDE DEF mid, x
  <2> QED BY <1>1, NodeEffects DEF Lists, Ends
<1>3. x.list \in Lists(E)
  BY DEF push_front, Lists, Ends
<1> QED BY <1>2, <1>3

\* push_front of an element that is not in the list puts it before what the list shows.
LEMMA PushFrontShows ==
  ASSUME NEW E, None \notin E, NEW list, NEW links, NEW s, Represents(E, list, links, s),
         NEW n \in E, ~Occurs(s, n)
  PROVE  /\ Becomes(E, links, push_front(list, links, n), s, <<n>> \o s)
         /\ \A m \in E : Occurs(<<n>> \o s, m) <=> m = n \/ Occurs(s, m)
<1> DEFINE t == <<n>> \o s
           x == push_front(list, links, n)
           new == [next |-> list.head, prev |-> None]
           mid == [links EXCEPT ![n] = new]
<1>0. list \in Lists(E) /\ links \in [E -> Nodes(E)] /\ s \in Seq(E)
  BY DEF Represents
<1>h. /\ Len(s) \in Nat /\ DOMAIN s = 1..Len(s) /\ \A i \in 1..Len(s) : s[i] \in E /\ s[i] # n
      /\ is_empty(list) <=> s = <<>>
      /\ list.len = Len(s)
      /\ s = <<>> => list.head = None /\ Len(s) = 0
      /\ s # <<>> => Len(s) > 0 /\ list.head = s[1] /\ list.tail = s[Len(s)] /\ list.head \in E
  BY <1>0, HeadOf DEF Occurs
<1>l. \A i \in 1..Len(s) : links[s[i]] = [next |-> After(s, i), prev |-> Before(s, i)]
  BY <1>h DEF Represents, IsList
<1>j. \A i, j \in 1..Len(s) : s[i] = s[j] => i = j
  BY <1>h DEF Represents, IsInjective
<1>1. /\ t \in Seq(E) /\ Len(t) = Len(s) + 1 /\ t[1] = n
      /\ \A i \in 2..Len(t) : t[i] = s[i - 1] /\ i - 1 \in 1..Len(s)
      /\ \A i \in 1..Len(s) : t[i + 1] = s[i] /\ i + 1 \in 2..Len(t)
      /\ DOMAIN t = 1..Len(t) /\ t # <<>>
  BY <1>0
<1>2. ASSUME NEW m \in E
      PROVE  Occurs(t, m) <=> m = n \/ Occurs(s, m)
  <2>1. ASSUME NEW i \in 1..Len(t), t[i] = m PROVE m = n \/ \E j \in 1..Len(s) : s[j] = m
    BY <1>1, <1>h, <2>1
  <2>2. ASSUME NEW i \in 1..Len(s), s[i] = m PROVE \E j \in 1..Len(t) : t[j] = m
    <3>1. t[i + 1] = m /\ i + 1 \in 1..Len(t)
      BY <1>1, <1>h, <2>2
    <3> QED BY <3>1
  <2>3. t[1] = n /\ 1 \in 1..Len(t)
    BY <1>1, <1>h
  <2> HIDE DEF t
  <2> QED BY <1>1, <1>h, <2>1, <2>2, <2>3 DEF Occurs
<1>3. IsInjective(t)
  BY <1>1, <1>h, <1>j DEF IsInjective
<1>4. new \in Nodes(E) /\ mid \in [E -> Nodes(E)] /\ x.links = SetPrev(mid, list.head, n)
  BY <1>0 DEF push_front, Nodes, Ends, Lists
<1>5. /\ x.links \in [E -> Nodes(E)]
      /\ \A e \in E : x.links[e] = IF e = list.head THEN [next |-> mid[e].next, prev |-> n] ELSE mid[e]
  <2> HIDE DEF mid, x
  <2> QED BY <1>0, <1>4, NodeEffects DEF Lists, Ends
<1>6. /\ x.list = [head |-> n, tail |-> IF is_empty(list) THEN n ELSE list.tail, len |-> list.len + 1]
      /\ x.list \in Lists(E)
  BY <1>0 DEF push_front, Lists, Ends
<1>7. x.links[n] = new
  <2> HIDE DEF x
  <2>1. n # list.head
    <3>1. CASE s = <<>>
      BY <3>1, <1>h
    <3>2. CASE s # <<>>
      BY <3>2, <1>h
    <3> QED BY <3>1, <3>2
  <2>2. mid[n] = new
    BY <1>0
  <2> HIDE DEF new, mid
  <2> QED BY <1>5, <2>1, <2>2
<1>8. ASSUME NEW i \in 1..Len(s)
      PROVE  x.links[s[i]] = [next |-> After(s, i), prev |-> IF i = 1 THEN n ELSE Before(s, i)]
  <2>1. s # <<>> /\ s[i] \in E /\ mid[s[i]] = links[s[i]]
    BY <1>0, <1>h
  <2>2. s[i] = list.head <=> i = 1
    BY <1>h, <1>j, <2>1
  <2> HIDE DEF x, mid
  <2>3. links[s[i]] = [next |-> After(s, i), prev |-> Before(s, i)]
    BY <1>l
  <2>4. CASE i = 1
    BY <1>5, <2>1, <2>2, <2>3, <2>4
  <2>5. CASE i # 1
    BY <1>5, <2>1, <2>2, <2>3, <2>5
  <2> QED BY <2>4, <2>5
<1>10. ASSUME NEW m \in E, m # n, ~Occurs(s, m) PROVE x.links[m] = links[m]
  <2> HIDE DEF x
  <2>1. m # list.head
    BY <1>0, <1>h, <1>10 DEF Occurs
  <2> QED BY <1>0, <1>5, <1>10, <2>1
<1>11. IsList(x.list, x.links, t)
  <2> HIDE DEF x
  <2>1. x.list.len = Len(t) /\ x.list.head = t[1] /\ x.list.tail = t[Len(t)]
    BY <1>1, <1>6, <1>h
  <2>2. ASSUME NEW i \in 1..Len(t)
        PROVE  x.links[t[i]] = [next |-> After(t, i), prev |-> Before(t, i)]
    <3>1. CASE i = 1
      <4>1. list.head = After(t, i) /\ None = Before(t, i)
        BY <3>1, <1>1, <1>h DEF After, Before
      <4> QED BY <3>1, <4>1, <1>1, <1>7
    <3>2. CASE i # 1
      <4> DEFINE j == i - 1
      <4>1. j \in 1..Len(s) /\ t[i] = s[j] /\ i - 1 = j /\ j + 1 = i
        BY <3>2, <1>1, <1>h
      <4>2. After(s, j) = After(t, i) /\ (IF j = 1 THEN n ELSE Before(s, j)) = Before(t, i)
        BY <3>2, <4>1, <1>1, <1>h DEF After, Before
      <4> HIDE DEF j
      <4> QED BY <4>1, <4>2, <1>8
    <3> QED BY <3>1, <3>2
  <2> QED BY <1>1, <2>1, <2>2 DEF IsList
<1>9. \A m \in E : ~Occurs(s, m) /\ ~Occurs(t, m) => x.links[m] = links[m]
  BY <1>2, <1>10
<1> HIDE DEF t, x, mid, new
<1> QED BY <1>1, <1>2, <1>3, <1>5, <1>6, <1>11, <1>9 DEF Becomes, Represents, t, x

(* s without its k-th element. *)
Without(s, k) == [i \in 1..Len(s) - 1 |-> IF i < k THEN s[i] ELSE s[i + 1]]

\* The sequence without its k-th element: its length, and what Tail and SubSeq make of the two ends.
LEMMA WithoutFacts ==
  ASSUME NEW E, NEW s \in Seq(E), NEW k \in 1..Len(s)
  PROVE  /\ Without(s, k) \in Seq(E)
         /\ Len(Without(s, k)) = Len(s) - 1
         /\ RemoveAt(s, k) = Without(s, k)
         /\ k = 1 => Tail(s) = Without(s, k)
         /\ k = Len(s) => SubSeq(s, 1, Len(s) - 1) = Without(s, k)
<1> DEFINE t == Without(s, k)
<1>1. t \in Seq(E) /\ Len(t) = Len(s) - 1 /\ \A i \in 1..Len(s) - 1 : t[i] = IF i < k THEN s[i] ELSE s[i + 1]
  BY DEF Without
<1> HIDE DEF t
<1>2. ASSUME k = 1 PROVE Tail(s) = t
  <2>1. Tail(s) \in Seq(E) /\ Len(Tail(s)) = Len(s) - 1 /\ \A i \in 1..Len(s) - 1 : Tail(s)[i] = s[i + 1]
    BY HeadTailProperties
  <2>2. \A i \in 1..Len(s) - 1 : t[i] = s[i + 1]
    BY <1>1, <1>2
  <2> HIDE DEF t
  <2> QED BY <1>1, <1>2, <2>1, <2>2, SeqEqual
<1> DEFINE a == SubSeq(s, 1, k - 1)
           b == SubSeq(s, k + 1, Len(s))
<1>3. a \in Seq(E) /\ Len(a) = k - 1 /\ \A i \in 1..k - 1 : a[i] = s[i]
  <2>1. \A i \in 1..k - 1 : s[i] \in E
    OBVIOUS
  <2> QED BY <2>1, SubSeqProperties
<1>4. b \in Seq(E) /\ Len(b) = Len(s) - k /\ \A i \in 1..Len(s) - k : b[i] = s[k + i]
  <2>1. \A i \in k + 1..Len(s) : s[i] \in E
    OBVIOUS
  <2>2. b \in Seq(E) /\ Len(b) = (IF k + 1 <= Len(s) THEN Len(s) - (k + 1) + 1 ELSE 0)
        /\ \A i \in 1..Len(s) - (k + 1) + 1 : b[i] = s[(k + 1) + i - 1]
    BY <2>1, SubSeqProperties
  <2> HIDE DEF b
  <2> QED BY <2>2
<1>5. k = Len(s) => a = t
  <2> HIDE DEF a
  <2> QED BY <1>1, <1>3, SeqEqual
<1>6. a \o b = t
  <2> HIDE DEF a, b
  <2>1. a \o b \in Seq(E) /\ Len(a \o b) = Len(s) - 1
    <3>1. Len(s) \in Nat /\ k \in Nat
      OBVIOUS
    <3>2. a \o b \in Seq(E) /\ Len(a \o b) = Len(a) + Len(b)
      BY <1>3, <1>4, ConcatProperties
    <3> QED BY <1>3, <1>4, <3>1, <3>2
  <2>2. \A i \in 1..Len(s) - 1 : (a \o b)[i] = t[i]
    <3> TAKE i \in 1..Len(s) - 1
    <3>1. CASE i < k
      BY <1>1, <1>3, <1>4, <3>1
    <3>2. CASE ~(i < k)
      <4> DEFINE j == i - (k - 1)
      <4>1. j \in 1..Len(s) - k /\ k + j = i + 1 /\ i = Len(a) + j
        BY <1>3, <3>2
      <4>2. (a \o b)[i] = b[j]
        <5> HIDE DEF j
        <5> QED BY <1>3, <1>4, <4>1, ConcatProperties
      <4> HIDE DEF j
      <4> QED BY <1>1, <1>4, <3>2, <4>1, <4>2
    <3> QED BY <3>1, <3>2
  <2> QED BY <1>1, <2>1, <2>2, SeqEqual
<1> QED
  BY <1>1, <1>2, <1>5, <1>6 DEF t, RemoveAt

\* An element's links are its neighbours in the sequence, None beyond either end.
LEMMA Neighbours ==
  ASSUME NEW E, None \notin E, NEW s \in Seq(E), NEW k \in 1..Len(s)
  PROVE  /\ s[k] \in E /\ After(s, k) \in Ends(E) /\ Before(s, k) \in Ends(E)
         /\ k = Len(s) => After(s, k) = None
         /\ k # Len(s) => k + 1 \in 1..Len(s) /\ After(s, k) = s[k + 1] /\ After(s, k) \in E /\ After(s, k) # None
         /\ k = 1 => Before(s, k) = None
         /\ k # 1 => k - 1 \in 1..Len(s) /\ Before(s, k) = s[k - 1] /\ Before(s, k) \in E /\ Before(s, k) # None
<1>1. \A i \in 1..Len(s) : s[i] \in E
  OBVIOUS
<1>2. k # Len(s) => k + 1 \in 1..Len(s)
  OBVIOUS
<1>3. k # 1 => k - 1 \in 1..Len(s)
  OBVIOUS
<1>4. (k = Len(s) => After(s, k) = None) /\ (k # Len(s) => After(s, k) = s[k + 1])
  BY DEF After
<1>5. (k = 1 => Before(s, k) = None) /\ (k # 1 => Before(s, k) = s[k - 1])
  BY DEF Before
<1> QED BY <1>1, <1>2, <1>3, <1>4, <1>5 DEF Ends

\* remove takes an element out of the middle, or either end, of what the list shows, and unlinks it.
LEMMA RemoveShows ==
  ASSUME NEW E, None \notin E, NEW list, NEW links, NEW s, Represents(E, list, links, s),
         NEW k \in 1..Len(s)
  PROVE  /\ Becomes(E, links, remove(list, links, s[k]), s, Without(s, k))
         /\ \A m \in E : Occurs(Without(s, k), m) <=> m # s[k] /\ Occurs(s, m)
         /\ remove(list, links, s[k]).links[s[k]] = Unlinked
<1> DEFINE t == Without(s, k)
           n == s[k]
           before == Before(s, k)
           after == After(s, k)
           x == remove(list, links, n)
           mid == SetPrev(SetNext(links, before, after), after, before)
<1>h. /\ list \in Lists(E) /\ links \in [E -> Nodes(E)] /\ s \in Seq(E)
      /\ Len(s) \in Nat /\ Len(s) > 0 /\ DOMAIN s = 1..Len(s) /\ \A i \in 1..Len(s) : s[i] \in E
      /\ list.len = Len(s) /\ list.head = s[1] /\ list.tail = s[Len(s)]
  BY HeadOf, ShownFacts
<1>l. \A i \in 1..Len(s) : links[s[i]] = [next |-> After(s, i), prev |-> Before(s, i)]
  BY ShownFacts
<1>j. \A i, j \in 1..Len(s) : s[i] = s[j] => i = j
  BY ShownFacts
<1>n. /\ n \in E /\ before \in Ends(E) /\ after \in Ends(E)
      /\ k = Len(s) => after = None
      /\ k # Len(s) => k + 1 \in 1..Len(s) /\ after = s[k + 1] /\ after # None
      /\ k = 1 => before = None
      /\ k # 1 => k - 1 \in 1..Len(s) /\ before = s[k - 1] /\ before # None
  <2>0. s \in Seq(E)
    BY <1>h
  <2>1. n \in E /\ before \in Ends(E) /\ after \in Ends(E)
    BY <2>0, Neighbours
  <2>2. k = Len(s) => after = None
    BY <2>0, Neighbours
  <2>3. k # Len(s) => k + 1 \in 1..Len(s) /\ after = s[k + 1] /\ after # None
    BY <2>0, Neighbours
  <2>4. k = 1 => before = None
    BY <2>0, Neighbours
  <2>5. k # 1 => k - 1 \in 1..Len(s) /\ before = s[k - 1] /\ before # None
    BY <2>0, Neighbours
  <2> QED BY <2>1, <2>2, <2>3, <2>4, <2>5
<1>1. /\ t \in Seq(E) /\ Len(t) = Len(s) - 1 /\ DOMAIN t = 1..Len(t)
      /\ \A i \in 1..Len(t) : t[i] = IF i < k THEN s[i] ELSE s[i + 1]
  BY <1>h, WithoutFacts DEF Without
<1>2. ASSUME NEW m \in E
      PROVE  Occurs(t, m) <=> m # n /\ Occurs(s, m)
  <2>1. ASSUME NEW i \in 1..Len(t), t[i] = m PROVE m # n /\ \E j \in 1..Len(s) : s[j] = m
    <3>1. CASE i < k
      BY <1>1, <1>h, <1>j, <2>1, <3>1
    <3>2. CASE ~(i < k)
      BY <1>1, <1>h, <1>j, <2>1, <3>2
    <3> QED BY <3>1, <3>2
  <2>2. ASSUME NEW j \in 1..Len(s), s[j] = m, m # n PROVE \E i \in 1..Len(t) : t[i] = m
    <3>1. CASE j < k
      BY <1>1, <1>h, <2>2, <3>1
    <3>2. CASE j > k
      <4>1. j - 1 \in 1..Len(t) /\ t[j - 1] = m
        BY <1>1, <1>h, <2>2, <3>2
      <4> QED BY <4>1
    <3> QED BY <2>2, <3>1, <3>2, <1>h
  <2> HIDE DEF t, n
  <2> QED BY <1>1, <1>h, <2>1, <2>2 DEF Occurs
<1>3. \A i, j \in 1..Len(t) : t[i] = t[j] => i = j
  BY <1>1, <1>h, <1>j
<1>4. /\ n \in E /\ before \in Ends(E) /\ after \in Ends(E) /\ before # n /\ after # n
      /\ links[n] = [next |-> after, prev |-> before]
  <2>1. n \in E /\ before \in Ends(E) /\ after \in Ends(E)
    BY <1>n
  <2>2. before # n /\ after # n
    <3>1. k # Len(s) => s[k + 1] # s[k]
      BY <1>n, <1>j
    <3>2. k # 1 => s[k - 1] # s[k]
      BY <1>n, <1>j
    <3> HIDE DEF before, after
    <3> QED BY <3>1, <3>2, <1>n
  <2> QED BY <2>1, <2>2, <1>l
<1>5. /\ mid \in [E -> Nodes(E)]
      /\ \A e \in E : mid[e] = [next |-> IF e = before THEN after ELSE links[e].next,
                                prev |-> IF e = after THEN before ELSE links[e].prev]
  <2> DEFINE half == SetNext(links, before, after)
  <2>1. /\ half \in [E -> Nodes(E)]
        /\ \A e \in E : half[e] = IF e = before THEN [next |-> after, prev |-> links[e].prev] ELSE links[e]
    BY <1>h, <1>4, NodeEffects
  <2> HIDE DEF half
  <2>2. /\ SetPrev(half, after, before) \in [E -> Nodes(E)]
        /\ \A e \in E : SetPrev(half, after, before)[e] =
             IF e = after THEN [next |-> half[e].next, prev |-> before] ELSE half[e]
    BY <1>4, <2>1, NodeEffects
  <2>3. mid = SetPrev(half, after, before)
    BY DEF half
  <2> HIDE DEF mid, before, after
  <2>4. ASSUME NEW e \in E
        PROVE  mid[e] = [next |-> IF e = before THEN after ELSE links[e].next,
                         prev |-> IF e = after THEN before ELSE links[e].prev]
    <3>1. links[e] = [next |-> links[e].next, prev |-> links[e].prev]
      BY <1>h DEF Nodes
    <3>2. CASE e = before /\ e = after
      BY <2>1, <2>2, <2>3, <3>1, <3>2
    <3>3. CASE e = before /\ e # after
      BY <2>1, <2>2, <2>3, <3>1, <3>3
    <3>4. CASE e # before /\ e = after
      BY <2>1, <2>2, <2>3, <3>1, <3>4
    <3>5. CASE e # before /\ e # after
      BY <2>1, <2>2, <2>3, <3>1, <3>5
    <3> QED BY <3>2, <3>3, <3>4, <3>5
  <2> QED BY <2>2, <2>3, <2>4
<1>6. /\ x.list = [head |-> IF before = None THEN after ELSE list.head,
                   tail |-> IF after = None THEN before ELSE list.tail, len |-> list.len - 1]
      /\ x.links = [mid EXCEPT ![n] = Unlinked]
  <2>1. links[n].prev = before /\ links[n].next = after
    BY <1>4
  <2> HIDE DEF before, after, n
  <2> QED BY <2>1 DEF remove
<1>7. /\ x.links \in [E -> Nodes(E)] /\ x.links[n] = Unlinked
      /\ \A e \in E : e # n => x.links[e] = mid[e]
  <2>1. Unlinked \in Nodes(E)
    BY DEF Unlinked, Nodes, Ends
  <2> HIDE DEF mid, n, x
  <2> QED BY <1>4, <1>5, <1>6, <2>1
<1>8. ASSUME NEW m \in E, ~Occurs(s, m)
      PROVE  x.links[m] = links[m]
  <2>1. \A i \in 1..Len(s) : m # s[i]
    BY <1>8, <1>h DEF Occurs
  <2>2. m # n /\ m # before /\ m # after
    <3>1. m # n
      BY <2>1
    <3> HIDE DEF before, after, n
    <3>2. m # before
      BY <2>1, <1>n
    <3>3. m # after
      BY <2>1, <1>n
    <3> QED BY <3>1, <3>2, <3>3
  <2>3. links[m] = [next |-> links[m].next, prev |-> links[m].prev]
    BY <1>h DEF Nodes
  <2> HIDE DEF mid, n, x, before, after
  <2> QED BY <1>5, <1>7, <2>2, <2>3
<1>9. ASSUME NEW i \in 1..Len(t)
      PROVE  x.links[t[i]] = [next |-> After(t, i), prev |-> Before(t, i)]
  <2> DEFINE j == IF i < k THEN i ELSE i + 1
  <2>1. /\ j \in 1..Len(s) /\ t[i] = s[j] /\ j # k /\ s[j] \in E /\ s[j] # n
        /\ j < k => j = i
        /\ j > k => j = i + 1
    <3>1. Len(s) \in Nat /\ k \in 1..Len(s) /\ i \in 1..Len(s) - 1
      BY <1>1, <1>h
    <3>2. /\ j \in 1..Len(s) /\ j # k
          /\ j < k => j = i
          /\ j > k => j = i + 1
      BY <3>1
    <3>3. t[i] = s[j]
      BY <1>1, <3>1
    <3> HIDE DEF j
    <3> QED BY <1>h, <1>j, <3>2, <3>3
  <2> HIDE DEF j
  <2>2. links[s[j]] = [next |-> After(s, j), prev |-> Before(s, j)]
    BY <1>l, <2>1
  <2>3. s[j] = before <=> j = k - 1
    <3> HIDE DEF before, after
    <3>1. Len(s) \in Nat /\ k \in 1..Len(s) /\ j \in 1..Len(s)
      BY <1>h, <2>1
    <3>2. j = k - 1 => s[j] = before
      BY <1>n, <3>1
    <3>3. s[j] = before => j = k - 1
      BY <1>h, <1>j, <1>n, <2>1, <3>1
    <3> QED BY <3>2, <3>3
  <2>x. s[j] = after <=> j = k + 1
    <3> HIDE DEF before, after
    <3>1. CASE k = Len(s)
      BY <3>1, <2>1, <1>h, <1>n
    <3>2. CASE k # Len(s)
      BY <3>2, <2>1, <1>h, <1>j, <1>n
    <3> QED BY <3>1, <3>2
  <2>y. After(t, i) = IF j = k - 1 THEN after ELSE After(s, j)
    <3>1. CASE i = Len(t)
      <4>1. (j = k - 1 /\ k = Len(s)) \/ (j # k - 1 /\ j = Len(s))
        BY <3>1, <2>1, <1>1, <1>h
      <4>2. After(t, i) = None
        BY <3>1 DEF After
      <4>3. j = Len(s) => After(s, j) = None
        BY DEF After
      <4> HIDE DEF before, after, t
      <4> QED BY <4>1, <4>2, <4>3, <1>n
    <3>2. CASE i # Len(t)
      <4>1. After(t, i) = t[i + 1] /\ i + 1 \in 1..Len(t)
        BY <3>2, <1>1, <1>h DEF After
      <4>2. t[i + 1] = IF i + 1 < k THEN s[i + 1] ELSE s[i + 2]
        <5>1. i + 1 \in 1..Len(s) - 1 /\ i \in Nat
          BY <1>1, <1>h, <4>1
        <5>2. (i + 1) + 1 = i + 2
          BY <5>1
        <5> QED BY <1>1, <5>1, <5>2
      <4>3. j # Len(s) => After(s, j) = s[j + 1]
        BY DEF After
      <4>4. CASE j = k - 1
        BY <4>1, <4>2, <4>4, <2>1, <1>n, <1>1, <1>h
      <4>5. CASE j # k - 1 /\ j < k
        BY <4>1, <4>2, <4>3, <4>5, <2>1, <1>n, <1>1, <1>h
      <4>6. CASE j > k
        BY <4>1, <4>2, <4>3, <4>6, <2>1, <1>n, <1>1, <1>h
      <4> QED BY <4>4, <4>5, <4>6, <2>1
    <3> QED BY <3>1, <3>2
  <2>4. Before(t, i) = IF j = k + 1 THEN before ELSE Before(s, j)
    <3>1. CASE i = 1
      <4>1. (j = k + 1 /\ k = 1) \/ (j # k + 1 /\ j = 1)
        BY <3>1, <2>1, <1>1, <1>h
      <4>2. Before(t, i) = None
        BY <3>1 DEF Before
      <4>3. j = 1 => Before(s, j) = None
        BY DEF Before
      <4> HIDE DEF before, after, t
      <4> QED BY <4>1, <4>2, <4>3, <1>n
    <3>2. CASE i # 1
      <4>1. Before(t, i) = t[i - 1] /\ i - 1 \in 1..Len(t)
        BY <3>2, <1>1, <1>h DEF Before
      <4>2. t[i - 1] = IF i - 1 < k THEN s[i - 1] ELSE s[i]
        BY <1>1, <1>h, <4>1
      <4>3. j # 1 => Before(s, j) = s[j - 1]
        BY DEF Before
      <4>4. CASE j = k + 1
        BY <4>1, <4>2, <4>4, <2>1, <1>n, <1>1, <1>h
      <4>5. CASE j # k + 1 /\ j > k
        BY <4>1, <4>2, <4>3, <4>5, <2>1, <1>n, <1>1, <1>h
      <4>6. CASE j < k
        BY <4>1, <4>2, <4>3, <4>6, <2>1, <1>n, <1>1, <1>h
      <4> QED BY <4>4, <4>5, <4>6, <2>1
    <3> QED BY <3>1, <3>2
  <2> HIDE DEF j, mid, n, x, before, after, t
  <2>5. x.links[s[j]] = [next |-> IF s[j] = before THEN after ELSE links[s[j]].next,
                         prev |-> IF s[j] = after THEN before ELSE links[s[j]].prev]
    BY <1>5, <1>7, <2>1, <2>3
  <2>6. links[s[j]].next = After(s, j) /\ links[s[j]].prev = Before(s, j)
    BY <2>2
  <2> QED BY <2>1, <2>3, <2>x, <2>y, <2>4, <2>5, <2>6
<1>10. /\ x.list \in Lists(E) /\ x.list.len = Len(t)
       /\ Len(t) = 0 => x.list.head = None /\ x.list.tail = None
       /\ Len(t) # 0 => x.list.head = t[1] /\ x.list.tail = t[Len(t)]
  <2>0. before = None <=> k = 1
    BY <1>n
  <2>1. after = None <=> k = Len(s)
    BY <1>n
  <2>2. x.list \in Lists(E) /\ x.list.len = Len(t)
    <3> HIDE DEF before, after, x
    <3> QED BY <1>6, <1>h, <1>1, <1>4 DEF Lists, Ends
  <2>3. CASE Len(t) = 0
    <3>1. before = None /\ after = None
      BY <2>0, <2>1, <2>3, <1>1, <1>h
    <3> HIDE DEF before, after, x, t
    <3> QED BY <2>2, <2>3, <3>1, <1>6
  <2>4. CASE Len(t) # 0
    <3>1. t[1] = IF k = 1 THEN after ELSE s[1]
      BY <2>4, <1>1, <1>h DEF After
    <3>2. t[Len(t)] = IF k = Len(s) THEN before ELSE s[Len(s)]
      BY <2>4, <1>1, <1>h DEF Before
    <3> HIDE DEF before, after, x, t
    <3>3. x.list.head = t[1]
      BY <2>0, <3>1, <1>6, <1>h
    <3>4. x.list.tail = t[Len(t)]
      <4>1. x.list.tail = IF after = None THEN before ELSE s[Len(s)]
        BY <1>6, <1>h
      <4> QED BY <2>1, <3>2, <4>1
    <3> QED BY <2>2, <2>4, <3>3, <3>4
  <2> QED BY <2>2, <2>3, <2>4
<1> HIDE DEF t, n, x, mid, before, after
<1>11. Represents(E, x.list, x.links, t)
  BY <1>1, <1>3, <1>7, <1>9, <1>10, ShownBy
<1> QED BY <1>2, <1>7, <1>8, <1>11 DEF Becomes, x, t, n

\* pop_front gives back the first element, None of an empty list, and leaves the rest.
LEMMA PopFrontShows ==
  ASSUME NEW E, None \notin E, NEW list, NEW links, NEW s, Represents(E, list, links, s), s # <<>>
  PROVE  /\ Becomes(E, links, pop_front(list, links), s, Tail(s))
         /\ \A m \in E : Occurs(Tail(s), m) <=> m # list.head /\ Occurs(s, m)
         /\ pop_front(list, links).links[list.head] = Unlinked
<1>1. 1 \in 1..Len(s) /\ s \in Seq(E) /\ list.head = s[1]
  BY HeadOf, ShownFacts
<1>2. links[s[1]].prev = None
  <2>1. links[s[1]] = [next |-> After(s, 1), prev |-> Before(s, 1)]
    BY <1>1, ShownFacts
  <2> QED BY <2>1, <1>1, Neighbours
<1>3. pop_front(list, links) = remove(list, links, s[1])
  BY <1>1, <1>2 DEF pop_front, remove, SetNext
<1>4. Tail(s) = Without(s, 1)
  BY <1>1, WithoutFacts
<1>5. /\ Becomes(E, links, remove(list, links, s[1]), s, Without(s, 1))
      /\ \A m \in E : Occurs(Without(s, 1), m) <=> m # s[1] /\ Occurs(s, m)
      /\ remove(list, links, s[1]).links[s[1]] = Unlinked
  BY <1>1, RemoveShows
<1> QED BY <1>1, <1>3, <1>4, <1>5

\* pop_back gives back the last element, None of an empty list, and leaves the rest.
LEMMA PopBackShows ==
  ASSUME NEW E, None \notin E, NEW list, NEW links, NEW s, Represents(E, list, links, s), s # <<>>
  PROVE  /\ Becomes(E, links, pop_back(list, links), s, SubSeq(s, 1, Len(s) - 1))
         /\ \A m \in E : Occurs(SubSeq(s, 1, Len(s) - 1), m) <=> m # list.tail /\ Occurs(s, m)
         /\ pop_back(list, links).links[list.tail] = Unlinked
<1>1. Len(s) \in 1..Len(s) /\ s \in Seq(E) /\ list.tail = s[Len(s)]
  BY HeadOf, ShownFacts
<1>2. links[s[Len(s)]].next = None
  <2>1. links[s[Len(s)]] = [next |-> After(s, Len(s)), prev |-> Before(s, Len(s))]
    BY <1>1, ShownFacts
  <2> QED BY <2>1, <1>1, Neighbours
<1>3. pop_back(list, links) = remove(list, links, s[Len(s)])
  BY <1>1, <1>2 DEF pop_back, remove, SetPrev
<1>4. SubSeq(s, 1, Len(s) - 1) = Without(s, Len(s))
  BY <1>1, WithoutFacts
<1>5. /\ Becomes(E, links, remove(list, links, s[Len(s)]), s, Without(s, Len(s)))
      /\ \A m \in E : Occurs(Without(s, Len(s)), m) <=> m # s[Len(s)] /\ Occurs(s, m)
      /\ remove(list, links, s[Len(s)]).links[s[Len(s)]] = Unlinked
  BY <1>1, RemoveShows
<1> QED BY <1>1, <1>3, <1>4, <1>5

\* push_back of an element that is not in the list puts it after what the list shows.
LEMMA PushBackShows ==
  ASSUME NEW E, None \notin E, NEW list, NEW links, NEW s, Represents(E, list, links, s),
         NEW n \in E, ~Occurs(s, n)
  PROVE  /\ Becomes(E, links, push_back(list, links, n), s, Append(s, n))
         /\ \A m \in E : Occurs(Append(s, n), m) <=> m = n \/ Occurs(s, m)
<1> DEFINE t == Append(s, n)
           x == push_back(list, links, n)
           new == [next |-> None, prev |-> list.tail]
           mid == [links EXCEPT ![n] = new]
<1>0. list \in Lists(E) /\ links \in [E -> Nodes(E)] /\ s \in Seq(E)
  BY DEF Represents
<1>h. /\ Len(s) \in Nat /\ DOMAIN s = 1..Len(s) /\ \A i \in 1..Len(s) : s[i] \in E /\ s[i] # n
      /\ list.tail = None <=> s = <<>>
      /\ list.len = Len(s)
      /\ s = <<>> => list.tail = None /\ Len(s) = 0
      /\ s # <<>> => Len(s) > 0 /\ list.head = s[1] /\ list.tail = s[Len(s)] /\ list.tail \in E
  BY <1>0, HeadOf DEF Occurs
<1>l. \A i \in 1..Len(s) : links[s[i]] = [next |-> After(s, i), prev |-> Before(s, i)]
  BY <1>h DEF Represents, IsList
<1>j. \A i, j \in 1..Len(s) : s[i] = s[j] => i = j
  BY <1>h DEF Represents, IsInjective
<1>1. /\ t \in Seq(E) /\ Len(t) = Len(s) + 1 /\ t[Len(t)] = n
      /\ \A i \in 1..Len(s) : t[i] = s[i] /\ i \in 1..Len(t)
      /\ DOMAIN t = 1..Len(t) /\ t # <<>>
  BY <1>0
<1>2. ASSUME NEW m \in E
      PROVE  Occurs(t, m) <=> m = n \/ Occurs(s, m)
  <2>1. ASSUME NEW i \in 1..Len(t), t[i] = m PROVE m = n \/ \E j \in 1..Len(s) : s[j] = m
    BY <1>1, <1>h, <2>1
  <2>2. ASSUME NEW i \in 1..Len(s), s[i] = m PROVE \E j \in 1..Len(t) : t[j] = m
    BY <1>1, <1>h, <2>2
  <2>3. t[Len(t)] = n /\ Len(t) \in 1..Len(t)
    BY <1>1, <1>h
  <2> HIDE DEF t
  <2> QED BY <1>1, <1>h, <2>1, <2>2, <2>3 DEF Occurs
<1>3. \A i, j \in 1..Len(t) : t[i] = t[j] => i = j
  BY <1>1, <1>h, <1>j
<1>4. new \in Nodes(E) /\ mid \in [E -> Nodes(E)] /\ x.links = SetNext(mid, list.tail, n)
  BY <1>0 DEF push_back, Nodes, Ends, Lists
<1>5. /\ x.links \in [E -> Nodes(E)]
      /\ \A e \in E : x.links[e] = IF e = list.tail THEN [next |-> n, prev |-> mid[e].prev] ELSE mid[e]
  <2> HIDE DEF mid, x
  <2> QED BY <1>0, <1>4, NodeEffects DEF Lists, Ends
<1>6. /\ x.list = [head |-> IF list.tail = None THEN n ELSE list.head, tail |-> n, len |-> list.len + 1]
      /\ x.list \in Lists(E)
  BY <1>0 DEF push_back, Lists, Ends
<1>7. x.links[n] = new
  <2>1. n # list.tail
    <3>1. CASE s = <<>>
      BY <3>1, <1>h
    <3>2. CASE s # <<>>
      BY <3>2, <1>h
    <3> QED BY <3>1, <3>2
  <2>2. mid[n] = new
    BY <1>0
  <2> HIDE DEF new, mid
  <2> QED BY <1>5, <2>1, <2>2
<1>8. ASSUME NEW i \in 1..Len(s)
      PROVE  x.links[s[i]] = [next |-> IF i = Len(s) THEN n ELSE After(s, i), prev |-> Before(s, i)]
  <2>1. s # <<>> /\ s[i] \in E /\ mid[s[i]] = links[s[i]]
    BY <1>0, <1>h
  <2>2. s[i] = list.tail <=> i = Len(s)
    <3>1. list.tail = s[Len(s)] /\ Len(s) \in 1..Len(s)
      BY <2>1, <1>h
    <3> QED BY <3>1, <1>j
  <2> HIDE DEF x, mid
  <2>3. links[s[i]] = [next |-> After(s, i), prev |-> Before(s, i)]
    BY <1>l
  <2>4. CASE i = Len(s)
    BY <1>5, <2>1, <2>2, <2>3, <2>4
  <2>5. CASE i # Len(s)
    BY <1>5, <2>1, <2>2, <2>3, <2>5
  <2> QED BY <2>4, <2>5
<1>9. ASSUME NEW m \in E, m # n, ~Occurs(s, m) PROVE x.links[m] = links[m]
  <2> HIDE DEF x
  <2>1. m # list.tail
    BY <1>0, <1>h, <1>9 DEF Occurs
  <2> QED BY <1>0, <1>5, <1>9, <2>1
<1>10. x.list.len = Len(t) /\ x.list.head = t[1] /\ x.list.tail = t[Len(t)] /\ Len(t) # 0
  <2> HIDE DEF x
  <2>1. CASE s = <<>>
    BY <1>1, <1>6, <1>h, <2>1
  <2>2. CASE s # <<>>
    BY <1>1, <1>6, <1>h, <2>2
  <2> QED BY <2>1, <2>2
<1>11. ASSUME NEW i \in 1..Len(t)
       PROVE  x.links[t[i]] = [next |-> After(t, i), prev |-> Before(t, i)]
  <2> HIDE DEF x
  <2>1. CASE i = Len(t)
    <3>1. None = After(t, i)
      BY <2>1 DEF After
    <3>2. list.tail = Before(t, i)
      <4>1. CASE s = <<>>
        BY <2>1, <4>1, <1>1, <1>h DEF Before
      <4>2. CASE s # <<>>
        <5>1. i # 1 /\ i - 1 = Len(s) /\ Len(s) \in 1..Len(s)
          BY <2>1, <4>2, <1>1, <1>h
        <5>2. Before(t, i) = t[Len(s)]
          BY <5>1 DEF Before
        <5> QED BY <4>2, <5>1, <5>2, <1>1, <1>h
      <4> QED BY <4>1, <4>2
    <3> QED BY <2>1, <3>1, <3>2, <1>1, <1>7
  <2>2. CASE i # Len(t)
    <3>1. i \in 1..Len(s) /\ t[i] = s[i]
      BY <2>2, <1>1, <1>h
    <3>2. (IF i = Len(s) THEN n ELSE After(s, i)) = After(t, i)
      <4>1. After(t, i) = t[i + 1]
        BY <2>2 DEF After
      <4>2. CASE i = Len(s)
        BY <4>1, <4>2, <1>1, <1>h
      <4>3. CASE i # Len(s)
        <5>1. After(s, i) = s[i + 1] /\ i + 1 \in 1..Len(s)
          BY <4>3, <3>1, <1>0, Neighbours
        <5>2. t[i + 1] = s[i + 1]
          BY <5>1, <1>1
        <5> QED BY <4>1, <4>3, <5>1, <5>2
      <4> QED BY <4>2, <4>3
    <3>3. Before(s, i) = Before(t, i)
      BY <3>1, <1>1, <1>h DEF Before
    <3> HIDE DEF t
    <3> QED BY <3>1, <3>2, <3>3, <1>8
  <2> QED BY <2>1, <2>2
<1>12. \A m \in E : ~Occurs(s, m) /\ ~Occurs(t, m) => x.links[m] = links[m]
  BY <1>2, <1>9
<1> HIDE DEF t, x, mid, new
<1>13. Represents(E, x.list, x.links, t)
  BY <1>1, <1>3, <1>5, <1>6, <1>10, <1>11, ShownBy
<1> QED BY <1>2, <1>12, <1>13 DEF Becomes, t, x

(* A list is shown by whatever agrees on the nodes of its elements. *)
LEMMA FrameShows ==
  ASSUME NEW E, None \notin E, NEW list, NEW links, NEW s, Represents(E, list, links, s),
         NEW others \in [E -> Nodes(E)], \A m \in E : Occurs(s, m) => others[m] = links[m]
  PROVE  Represents(E, list, others, s)
<1>1. \A i \in DOMAIN s : s[i] \in E /\ others[s[i]] = links[s[i]]
  BY HeadOf DEF Occurs
<1> QED BY <1>1 DEF Represents, IsList

(* Walking a shown list from its head gives what it shows. *)
LEMMA WalkedShows ==
  ASSUME NEW E, None \notin E, NEW list, NEW links, NEW s, Represents(E, list, links, s),
         NEW bound \in Nat, Len(s) <= bound
  PROVE  Walked(list, links, bound) = s
<1> DEFINE nth[i \in 1..bound] == IF i = 1 THEN list.head
                                  ELSE IF nth[i - 1] = None THEN None ELSE links[nth[i - 1]].next
           g == [i \in 1..bound |-> IF i <= Len(s) THEN s[i] ELSE None]
           Body(f) == [i \in 1..bound |-> IF i = 1 THEN list.head
                                          ELSE IF f[i - 1] = None THEN None ELSE links[f[i - 1]].next]
<1>h. s \in Seq(E) /\ Len(s) \in Nat /\ \A i \in 1..Len(s) : s[i] \in E /\ s[i] # None
  BY ShownFacts, HeadOf
<1>1. ASSUME NEW i \in 1..bound
      PROVE  g[i] = IF i = 1 THEN list.head ELSE IF g[i - 1] = None THEN None ELSE links[g[i - 1]].next
  <2>1. CASE i = 1
    <3>1. list.head = IF Len(s) = 0 THEN None ELSE s[1]
      BY HeadOf, <1>h
    <3> QED BY <2>1, <3>1, <1>h
  <2>2. CASE i # 1 /\ i - 1 > Len(s)
    BY <2>2, <1>h
  <2>3. CASE i # 1 /\ i - 1 <= Len(s)
    <3> DEFINE j == i - 1
    <3>1. j \in 1..Len(s) /\ j \in 1..bound /\ j + 1 = i
      BY <2>3, <1>h
    <3>2. g[j] = s[j] /\ s[j] # None
      BY <3>1, <1>h
    <3>3. links[s[j]] = [next |-> After(s, j), prev |-> Before(s, j)]
      BY <3>1, ShownFacts
    <3>4. After(s, j) = IF j + 1 <= Len(s) THEN s[j + 1] ELSE None
      BY <3>1, <1>h DEF After
    <3>5. links[g[j]].next = g[i]
      <4> HIDE DEF j
      <4> QED BY <3>1, <3>2, <3>3, <3>4
    <3> HIDE DEF g
    <3> QED BY <2>3, <3>2, <3>5
  <2> QED BY <2>1, <2>2, <2>3, <1>h
<1>2. g = Body(g)
  BY <1>1
<1>3. nth = Body(nth)
  <2> HIDE DEF g
  <2>1. \E f : f = Body(f)
    BY <1>2
  <2> QED BY <2>1
<1> DEFINE wrong == {i \in 1..bound : nth[i] # g[i]}
<1>4. wrong = {}
  <2> HIDE DEF nth, g
  <2>1. SUFFICES ASSUME wrong # {} PROVE FALSE
    OBVIOUS
  <2>2. PICK i \in wrong : \A j \in wrong : i <= j
    <3> HIDE DEF wrong
    <3>1. wrong \subseteq Nat
      BY DEF wrong
    <3> QED BY <2>1, <3>1, Least
  <2>3. i \in 1..bound /\ (i # 1 => nth[i - 1] = g[i - 1])
    <3>1. i # 1 => i - 1 \in 1..bound /\ ~(i <= i - 1)
      OBVIOUS
    <3> QED BY <2>2, <3>1
  <2>4. nth[i] = IF i = 1 THEN list.head ELSE IF nth[i - 1] = None THEN None ELSE links[nth[i - 1]].next
    BY <1>3, <2>3
  <2>5. nth[i] = g[i]
    BY <1>1, <2>3, <2>4
  <2> QED BY <2>5
<1>5. Walked(list, links, bound) = [i \in {j \in 1..bound : nth[j] # None} |-> nth[i]]
  BY DEF Walked
<1> HIDE DEF nth
<1>6. \A i \in 1..bound : nth[i] = IF i <= Len(s) THEN s[i] ELSE None
  BY <1>4
<1>7. {j \in 1..bound : nth[j] # None} = 1..Len(s)
  BY <1>6, <1>h
<1>8. \A i \in 1..Len(s) : nth[i] = s[i]
  BY <1>6, <1>h
<1>9. s = [i \in 1..Len(s) |-> s[i]]
  BY <1>h
<1> QED BY <1>5, <1>7, <1>8, <1>9

=============================================================================
