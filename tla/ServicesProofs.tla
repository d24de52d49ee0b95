----------------------------- MODULE ServicesProofs -----------------------------
(* Proofs about the kernel services that Services composes: what a list shows is what its  *)
(* caller put in it (ListInv), the heap's blocks are apart (HeapInv), the free pages are   *)
(* the usable ones nobody holds, each listed once (PagesInv), a ready task waits once      *)
(* in the queue of its priority (SchedInv), a packet of a pointing device that is torn, or *)
(* whole and not read, has a lost byte or a stray answer to its account (PointInv), a      *)
(* chain of events reports and leaves what it should, however far it came (ChainInv), the  *)
(* overlay's panels show what memory holds (PanelInv), and a valid cache holds what was    *)
(* read for them (TrackInv).  Each is inductive on its own, but for TrackInv, which needs  *)
(* PanelInv; their conjunction ServicesInv gives HandedOutOnce, QueuesExact,               *)
(* OneTornPacket, ChainsDeliver and OverlayFollowsGame.                                    *)
EXTENDS Services, DataProofs, SequencesExt, SequenceTheorems, FiniteSetTheorems, TLAPS

-----------------------------------------------------------------------------
(* The list and its caller. *)

Apart(E, links, s) == \A m \in E : ~Occurs(s, m) => links[m] = Unlinked
ListInv == Represents(Elems, lst, link, content) /\ Apart(Elems, link, content)

(* Whatever an operation does, the elements that are in no list stay unlinked. *)
LEMMA ApartKept ==
  ASSUME NEW E, NEW links, NEW x, NEW s, NEW t, Becomes(E, links, x, s, t), Apart(E, links, s),
         NEW n \in E, \A m \in E : Occurs(s, m) /\ ~Occurs(t, m) => m = n,
         ~Occurs(t, n) => x.links[n] = Unlinked
  PROVE  Apart(E, x.links, t)
BY DEF Becomes, Apart

\* The empty list and its unlinked elements satisfy the invariant.
LEMMA ListInitInv == ListInit => ListInv
<1> SUFFICES ASSUME ListInit PROVE ListInv
  OBVIOUS
<1>1. None \notin Elems
  BY ListAssumption
<1>2. Unlinked \in Nodes(Elems)
  BY DEF Unlinked, Nodes, Ends
<1>3. link \in [Elems -> Nodes(Elems)]
  BY <1>2 DEF ListInit
<1>4. Represents(Elems, lst, link, content)
  BY <1>1, <1>3, EmptyShown DEF ListInit
<1> QED BY <1>4 DEF ListInv, Apart, ListInit

\* Every call of the list's caller keeps the list showing what the caller put in.
LEMMA ListStep == ListInv /\ ListNext => ListInv'
<1> SUFFICES ASSUME ListInv, ListNext PROVE ListInv'
  OBVIOUS
<1>0. None \notin Elems
  BY ListAssumption
<1>1. ASSUME NEW n \in Elems, PushFront(n) PROVE ListInv'
  <2>1. ~Occurs(content, n)
    BY <1>1 DEF PushFront, In, Occurs
  <2>2. /\ Becomes(Elems, link, push_front(lst, link, n), content, <<n>> \o content)
        /\ \A m \in Elems : Occurs(<<n>> \o content, m) <=> m = n \/ Occurs(content, m)
    BY <1>0, <2>1, PushFrontShows DEF ListInv
  <2>3. Apart(Elems, push_front(lst, link, n).links, <<n>> \o content)
    BY <2>2, ApartKept DEF ListInv
  <2> QED BY <1>1, <2>2, <2>3 DEF PushFront, Became, ListInv, Becomes
<1>2. ASSUME NEW n \in Elems, PushBack(n) PROVE ListInv'
  <2>1. ~Occurs(content, n)
    BY <1>2 DEF PushBack, In, Occurs
  <2>2. /\ Becomes(Elems, link, push_back(lst, link, n), content, Append(content, n))
        /\ \A m \in Elems : Occurs(Append(content, n), m) <=> m = n \/ Occurs(content, m)
    BY <1>0, <2>1, PushBackShows DEF ListInv
  <2>3. Apart(Elems, push_back(lst, link, n).links, Append(content, n))
    BY <2>2, ApartKept DEF ListInv
  <2> QED BY <1>2, <2>2, <2>3 DEF PushBack, Became, ListInv, Becomes
<1>3. ASSUME PopFront PROVE ListInv'
  <2>1. content # <<>> /\ lst.head \in Elems
    BY <1>0, <1>3, HeadOf DEF PopFront, ListInv
  <2>2. /\ Becomes(Elems, link, pop_front(lst, link), content, Tail(content))
        /\ \A m \in Elems : Occurs(Tail(content), m) <=> m # lst.head /\ Occurs(content, m)
        /\ pop_front(lst, link).links[lst.head] = Unlinked
    BY <1>0, <2>1, PopFrontShows DEF ListInv
  <2>3. Apart(Elems, pop_front(lst, link).links, Tail(content))
    BY <2>1, <2>2, ApartKept DEF ListInv
  <2> QED BY <1>3, <2>2, <2>3 DEF PopFront, Became, ListInv, Becomes
<1>4. ASSUME PopBack PROVE ListInv'
  <2>1. content # <<>> /\ lst.tail \in Elems
    BY <1>0, <1>4, HeadOf DEF PopBack, ListInv
  <2> DEFINE rest == SubSeq(content, 1, Len(content) - 1)
  <2>2. /\ Becomes(Elems, link, pop_back(lst, link), content, rest)
        /\ \A m \in Elems : Occurs(rest, m) <=> m # lst.tail /\ Occurs(content, m)
        /\ pop_back(lst, link).links[lst.tail] = Unlinked
    BY <1>0, <2>1, PopBackShows DEF ListInv
  <2> HIDE DEF rest
  <2>3. Apart(Elems, pop_back(lst, link).links, rest)
    BY <2>1, <2>2, ApartKept DEF ListInv
  <2> QED BY <1>4, <2>2, <2>3 DEF PopBack, Became, ListInv, Becomes, rest
<1>5. ASSUME NEW i \in DOMAIN content, RemoveElem(i) PROVE ListInv'
  <2> DEFINE rest == RemoveAt(content, i)
             n == content[i]
  <2>1. i \in 1..Len(content) /\ n \in Elems /\ content \in Seq(Elems)
    BY <1>0, HeadOf, ShownFacts DEF ListInv
  <2>2. rest = Without(content, i)
    BY <2>1, WithoutFacts
  <2>3. /\ Becomes(Elems, link, remove(lst, link, n), content, rest)
        /\ \A m \in Elems : Occurs(rest, m) <=> m # n /\ Occurs(content, m)
        /\ remove(lst, link, n).links[n] = Unlinked
    BY <1>0, <2>1, <2>2, RemoveShows DEF ListInv
  <2> HIDE DEF rest, n
  <2>4. Apart(Elems, remove(lst, link, n).links, rest)
    BY <2>1, <2>3, ApartKept DEF ListInv
  <2> QED BY <1>5, <2>3, <2>4 DEF RemoveElem, Became, ListInv, Becomes, rest, n
<1> QED BY <1>1, <1>2, <1>3, <1>4, <1>5 DEF ListNext

\* A list that shows the content has exactly its elements, in order, and no cycle.
LEMMA ListInvExact == ListInv => ListExact
<1> SUFFICES ASSUME ListInv PROVE ListExact
  OBVIOUS
<1>1. ASSUME NEW n \in Elems, ~In(n) PROVE ~is_linked(link, n)
  <2>1. link[n] = Unlinked
    BY <1>1 DEF ListInv, Apart, Occurs, In
  <2> QED BY <2>1 DEF is_linked, Unlinked
<1> QED BY <1>1 DEF ListInv, ListExact, Represents

-----------------------------------------------------------------------------
(* The heap: what it gave lies below next, in order of the addresses. *)
HeapInv ==
  /\ next \in HeapStart..HeapStart + HeapSize
  /\ blocks \subseteq (HeapStart..next) \X (HeapStart..next)
  /\ \A b \in blocks : b[1] <= b[2]
  /\ \A a, b \in blocks : a # b => a[2] <= b[1] \/ b[2] <= a[1]

\* Every call of the heap's caller keeps the blocks inside the heap and apart.
LEMMA HeapStep == HeapInv /\ MemNext => HeapInv'
<1> SUFFICES ASSUME HeapInv, MemNext PROVE HeapInv'
  OBVIOUS
<1>1. ASSUME UNCHANGED <<next, blocks>> PROVE HeapInv'
  BY <1>1 DEF HeapInv
<1>2. ASSUME NEW l \in Layouts, HeapAlloc(l) PROVE HeapInv'
  <2> DEFINE start == AlignUp(next, l.align)
             end   == start + l.size
  <2>1. next \in Nat /\ HeapStart \in Nat /\ HeapSize \in Nat /\ next >= HeapStart
    BY MemAssumption DEF HeapInv
  <2>2. l.size \in Nat /\ l.align \in Nat \ {0}
    BY MemAssumption
  <2>3. start \in Nat /\ start >= next
    <3> DEFINE k == l.align
               x == next + k - 1
    <3>1. x \in Nat /\ x = next + k - 1
      BY <2>1, <2>2
    <3>2. x \div k \in Nat /\ x < (x \div k) * k + k
      BY <2>2, <3>1, Divided
    <3>3. start = (x \div k) * k
      BY DEF AlignUp
    <3> HIDE DEF start
    <3> QED BY <2>1, <2>2, <3>1, <3>2, <3>3
  <2> HIDE DEF start
  <2>4. end \in Nat /\ end >= start /\ end <= HeapStart + HeapSize
    BY <1>2, <2>2, <2>3 DEF HeapAlloc, start
  <2>5. next' = end /\ blocks' = blocks \cup {<<start, end>>}
    BY <1>2 DEF HeapAlloc, start
  <2> HIDE DEF end
  <2>6. next' \in HeapStart..HeapStart + HeapSize
    BY <2>1, <2>3, <2>4, <2>5
  <2>7. HeapStart..next \subseteq HeapStart..next'
    BY <2>1, <2>3, <2>4, <2>5
  <2>8. blocks' \subseteq (HeapStart..next') \X (HeapStart..next')
    <3>1. start \in HeapStart..next' /\ end \in HeapStart..next'
      BY <2>1, <2>3, <2>4, <2>5
    <3> QED BY <2>5, <2>7, <3>1 DEF HeapInv
  <2>9. \A b \in blocks : b[1] <= b[2] /\ b[2] <= start
    BY <2>1, <2>3 DEF HeapInv
  <2>10. <<start, end>>[1] = start /\ <<start, end>>[2] = end
    OBVIOUS
  <2>11. \A b \in blocks' : b[1] <= b[2]
    BY <2>4, <2>5, <2>9, <2>10
  <2>12. \A a, b \in blocks' : a # b => a[2] <= b[1] \/ b[2] <= a[1]
    BY <2>5, <2>9, <2>10 DEF HeapInv
  <2> QED BY <2>6, <2>8, <2>11, <2>12 DEF HeapInv
<1> QED BY <1>1, <1>2 DEF MemNext, MmInit, AllocPage, FreePage

\* The inductive invariant of the heap gives what the run checks.
LEMMA HeapInvExact == HeapInv => HeapExact
<1> SUFFICES ASSUME HeapInv PROVE HeapExact
  OBVIOUS
<1>1. HeapStart \in Nat /\ HeapSize \in Nat
  BY MemAssumption
<1>2. \A b \in blocks : b[1] >= HeapStart /\ b[2] <= HeapStart + HeapSize
  BY <1>1 DEF HeapInv
<1> QED BY <1>2 DEF HeapInv, HeapExact

-----------------------------------------------------------------------------
(* Pages.  F is the pages that are free. *)

PmmRecs == [flags : [Frames -> SUBSET {"FREE", "KERNEL", "RESERVED"}], ref_count : [Frames -> Nat],
            links : [Frames -> Nodes(Frames)], list : Lists(Frames),
            free_pages : Nat, kernel_pages : Nat, reserved_pages : Nat, total_pages : Nat]

\* The fields of the page allocator's record have their types.
LEMMA PmmTyped ==
  ASSUME NEW m \in PmmRecs
  PROVE  /\ m.flags \in [Frames -> SUBSET {"FREE", "KERNEL", "RESERVED"}]
         /\ m.ref_count \in [Frames -> Nat]
         /\ m.links \in [Frames -> Nodes(Frames)]
         /\ m.list \in Lists(Frames)
         /\ m.free_pages \in Nat /\ m.kernel_pages \in Nat /\ m.reserved_pages \in Nat /\ m.total_pages \in Nat
BY DEF PmmRecs

\* The page allocator's record is its eight fields.
LEMMA PmmIs ==
  ASSUME NEW m \in PmmRecs
  PROVE  m = [flags |-> m.flags, ref_count |-> m.ref_count, links |-> m.links, list |-> m.list,
              free_pages |-> m.free_pages, kernel_pages |-> m.kernel_pages,
              reserved_pages |-> m.reserved_pages, total_pages |-> m.total_pages]
<1> DEFINE A == [Frames -> SUBSET {"FREE", "KERNEL", "RESERVED"}]
           B == [Frames -> Nat]
           C == [Frames -> Nodes(Frames)]
           D == Lists(Frames)
<1>1. m \in [flags : A, ref_count : B, links : C, list : D,
              free_pages : Nat, kernel_pages : Nat, reserved_pages : Nat, total_pages : Nat]
  BY DEF PmmRecs
<1> HIDE DEF A, B, C, D
<1> QED BY <1>1

(* m with another list of free pages, flags, reference counts and count. *)
Altered(m, x, f, r, c) == [Listed(m, x) EXCEPT !.flags = f, !.ref_count = r, !.free_pages = c]

\* A record with the changed fields, written out.
LEMMA PmmChanged ==
  ASSUME NEW m \in PmmRecs, NEW x, NEW f, NEW r, NEW c
  PROVE  Altered(m, x, f, r, c) =
           [flags |-> f, ref_count |-> r, links |-> x.links, list |-> x.list,
            free_pages |-> c, kernel_pages |-> m.kernel_pages,
            reserved_pages |-> m.reserved_pages, total_pages |-> m.total_pages]
<1> DEFINE Rec(f0, r0, k0, l0, c0) ==
             [flags |-> f0, ref_count |-> r0, links |-> k0, list |-> l0,
              free_pages |-> c0, kernel_pages |-> m.kernel_pages,
              reserved_pages |-> m.reserved_pages, total_pages |-> m.total_pages]
           a1 == [m EXCEPT !.list = x.list]
           a2 == [a1 EXCEPT !.links = x.links]
           a3 == [a2 EXCEPT !.flags = f]
           a4 == [a3 EXCEPT !.ref_count = r]
<1>0. m = Rec(m.flags, m.ref_count, m.links, m.list, m.free_pages)
  BY PmmIs
<1>1. a1 = Rec(m.flags, m.ref_count, m.links, x.list, m.free_pages)
  BY <1>0
<1>2. a2 = Rec(m.flags, m.ref_count, x.links, x.list, m.free_pages)
  <2> HIDE DEF a1
  <2> QED BY <1>1
<1>3. a3 = Rec(f, m.ref_count, x.links, x.list, m.free_pages)
  <2> HIDE DEF a2
  <2> QED BY <1>2
<1>4. a4 = Rec(f, r, x.links, x.list, m.free_pages)
  <2> HIDE DEF a3
  <2> QED BY <1>3
<1>5. [a4 EXCEPT !.free_pages = c] = Rec(f, r, x.links, x.list, c)
  <2> HIDE DEF a4
  <2> QED BY <1>4
<1>6. Altered(m, x, f, r, c) = [a4 EXCEPT !.free_pages = c]
  BY DEF Listed, Altered
<1> QED BY <1>5, <1>6

\* One page's flags changed: the others' are as before.
LEMMA FlagSet ==
  ASSUME NEW fl \in [Frames -> SUBSET {"FREE", "KERNEL", "RESERVED"}], NEW p \in Frames,
         NEW v \in SUBSET {"FREE", "KERNEL", "RESERVED"}
  PROVE  /\ [fl EXCEPT ![p] = v] \in [Frames -> SUBSET {"FREE", "KERNEL", "RESERVED"}]
         /\ \A q \in Frames : [fl EXCEPT ![p] = v][q] = IF q = p THEN v ELSE fl[q]
OBVIOUS

(* The pages of F are free and on the list, each once, and no other page is either. *)
FreeAre(m, F) ==
  /\ m \in PmmRecs /\ F \subseteq Frames
  /\ \E s : Represents(Frames, m.list, m.links, s) /\ \A p \in Frames : Occurs(s, p) <=> p \in F
  /\ \A p \in Frames : is_free(m, p) <=> p \in F
  /\ m.free_pages = Cardinality(F)

\* The frames are finitely many numbers, None is not one, and counting a set of them goes by one.
LEMMA FramesFinite ==
  ASSUME NEW F \in SUBSET Frames
  PROVE  IsFiniteSet(F) /\ Cardinality(F) \in Nat /\ None \notin Frames /\ Frames \subseteq Nat
         /\ \A p \in Frames \ F : Cardinality(F \cup {p}) = Cardinality(F) + 1
         /\ \A q \in F : Cardinality(F \ {q}) = Cardinality(F) - 1 /\ Cardinality(F) > 0
<1>1. None \notin Frames /\ Frames \subseteq Nat /\ MaxPageFrames \in Nat
  BY MemAssumption DEF Frames
<1>2. IsFiniteSet(Frames)
  BY <1>1, FS_Interval DEF Frames
<1>3. IsFiniteSet(F)
  BY <1>2, FS_Subset
<1>4. Cardinality(F) \in Nat
  BY <1>3, FS_CardinalityType
<1>5. \A p \in Frames \ F : Cardinality(F \cup {p}) = Cardinality(F) + 1
  BY <1>3, FS_AddElement
<1>6. \A p \in F : Cardinality(F \ {p}) = Cardinality(F) - 1 /\ Cardinality(F) > 0
  BY <1>3, <1>4, FS_RemoveElement, FS_EmptySet
<1> QED BY <1>1, <1>3, <1>4, <1>5, <1>6

(* A page that is not free is put on the list. *)
LEMMA PagePushed ==
  ASSUME NEW m, NEW F, FreeAre(m, F), NEW p \in Frames \ F,
         NEW f \in [Frames -> SUBSET {"FREE", "KERNEL", "RESERVED"}], NEW r \in [Frames -> Nat],
         \A q \in Frames : "FREE" \in f[q] <=> q = p \/ is_free(m, q)
  PROVE  LET n == Altered(m, push_front(m.list, m.links, p), f, r, m.free_pages + 1)
         IN  /\ FreeAre(n, F \cup {p})
             /\ n.kernel_pages = m.kernel_pages /\ n.reserved_pages = m.reserved_pages
             /\ n.total_pages = m.total_pages
<1> DEFINE x == push_front(m.list, m.links, p)
           n == Altered(m, x, f, r, m.free_pages + 1)
<1>1. /\ m \in PmmRecs /\ F \subseteq Frames /\ m.free_pages = Cardinality(F)
      /\ \A q \in Frames : is_free(m, q) <=> q \in F
  BY DEF FreeAre
<1>2. PICK s : Represents(Frames, m.list, m.links, s) /\ \A q \in Frames : Occurs(s, q) <=> q \in F
  BY DEF FreeAre
<1>3. /\ Becomes(Frames, m.links, x, s, <<p>> \o s)
      /\ \A q \in Frames : Occurs(<<p>> \o s, q) <=> q = p \/ Occurs(s, q)
  <2>1. None \notin Frames
    BY <1>1, FramesFinite
  <2> QED BY <1>2, <2>1, PushFrontShows
<1>4. Represents(Frames, x.list, x.links, <<p>> \o s)
  BY <1>3 DEF Becomes
<1>5. x.list \in Lists(Frames) /\ x.links \in [Frames -> Nodes(Frames)]
  BY <1>4 DEF Represents
<1>6. n = [flags |-> f, ref_count |-> r, links |-> x.links, list |-> x.list,
           free_pages |-> m.free_pages + 1, kernel_pages |-> m.kernel_pages,
           reserved_pages |-> m.reserved_pages, total_pages |-> m.total_pages]
  BY <1>1, PmmChanged
<1>7. Cardinality(F \cup {p}) = m.free_pages + 1
  BY <1>1, FramesFinite
<1>8. m.free_pages \in Nat /\ m.kernel_pages \in Nat /\ m.reserved_pages \in Nat /\ m.total_pages \in Nat
  BY <1>1, PmmTyped
<1> HIDE DEF n, x
<1>9. n \in PmmRecs
  BY <1>5, <1>6, <1>8 DEF PmmRecs
<1>10. /\ n.flags = f /\ n.list = x.list /\ n.links = x.links /\ n.free_pages = m.free_pages + 1
       /\ n.kernel_pages = m.kernel_pages /\ n.reserved_pages = m.reserved_pages /\ n.total_pages = m.total_pages
  BY <1>6
<1>11. \A q \in Frames : is_free(n, q) <=> q \in F \cup {p}
  BY <1>1, <1>10 DEF is_free
<1>12. FreeAre(n, F \cup {p})
  BY <1>1, <1>2, <1>3, <1>4, <1>7, <1>9, <1>10, <1>11 DEF FreeAre
<1> QED BY <1>10, <1>12 DEF n, x

(* The page at the head of the list is taken. *)
LEMMA PagePopped ==
  ASSUME NEW m, NEW F, FreeAre(m, F), ~is_empty(m.list),
         NEW f \in [Frames -> SUBSET {"FREE", "KERNEL", "RESERVED"}], NEW r \in [Frames -> Nat],
         \A q \in Frames : "FREE" \in f[q] <=> q # m.list.head /\ is_free(m, q)
  PROVE  LET n == Altered(m, pop_front(m.list, m.links), f, r, m.free_pages - 1)
         IN  /\ m.list.head \in F
             /\ FreeAre(n, F \ {m.list.head})
             /\ n.kernel_pages = m.kernel_pages /\ n.reserved_pages = m.reserved_pages
             /\ n.total_pages = m.total_pages
<1> DEFINE x == pop_front(m.list, m.links)
           p == m.list.head
           c == m.free_pages - 1
           n == Altered(m, x, f, r, c)
<1>1. /\ m \in PmmRecs /\ F \subseteq Frames /\ m.free_pages = Cardinality(F)
      /\ \A q \in Frames : is_free(m, q) <=> q \in F
  BY DEF FreeAre
<1>2. PICK s : Represents(Frames, m.list, m.links, s) /\ \A q \in Frames : Occurs(s, q) <=> q \in F
  BY DEF FreeAre
<1>n. None \notin Frames
  BY <1>1, FramesFinite
<1>h. p \in F /\ s # <<>>
  <2>1. s # <<>> /\ p = s[1] /\ p \in Frames /\ 1 \in DOMAIN s
    BY <1>2, <1>n, HeadOf
  <2> QED BY <1>2, <2>1 DEF Occurs
<1>3. /\ Becomes(Frames, m.links, x, s, Tail(s))
      /\ \A q \in Frames : Occurs(Tail(s), q) <=> q # p /\ Occurs(s, q)
  BY <1>2, <1>n, <1>h, PopFrontShows
<1>4. Represents(Frames, x.list, x.links, Tail(s))
  BY <1>3 DEF Becomes
<1>5. x.list \in Lists(Frames) /\ x.links \in [Frames -> Nodes(Frames)]
  BY <1>4 DEF Represents
<1>6. n = [flags |-> f, ref_count |-> r, links |-> x.links, list |-> x.list,
           free_pages |-> c, kernel_pages |-> m.kernel_pages,
           reserved_pages |-> m.reserved_pages, total_pages |-> m.total_pages]
  BY <1>1, PmmChanged
<1>7. Cardinality(F \ {p}) = c /\ c \in Nat
  <2> HIDE DEF p
  <2>1. F \in SUBSET Frames /\ p \in F
    BY <1>1, <1>h
  <2>2. Cardinality(F) \in Nat /\ Cardinality(F \ {p}) = Cardinality(F) - 1 /\ Cardinality(F) > 0
    BY <2>1, FramesFinite
  <2> QED BY <1>1, <2>2
<1>8. m.kernel_pages \in Nat /\ m.reserved_pages \in Nat /\ m.total_pages \in Nat
  BY <1>1, PmmTyped
<1> HIDE DEF n, x, c, p
<1>9. n \in PmmRecs
  BY <1>5, <1>6, <1>7, <1>8 DEF PmmRecs
<1>10. /\ n.flags = f /\ n.list = x.list /\ n.links = x.links /\ n.free_pages = c
       /\ n.kernel_pages = m.kernel_pages /\ n.reserved_pages = m.reserved_pages /\ n.total_pages = m.total_pages
  BY <1>6
<1>11. \A q \in Frames : is_free(n, q) <=> q \in F \ {p}
  BY <1>1, <1>10 DEF is_free, p
<1>12. FreeAre(n, F \ {p})
  BY <1>1, <1>2, <1>3, <1>4, <1>7, <1>9, <1>10, <1>11 DEF FreeAre
<1> QED BY <1>10, <1>12, <1>h DEF n, x, c, p

-----------------------------------------------------------------------------
(* pmm::init, one page and one entry at a time. *)

\* What has been listed, and what has been counted so far.
Listing(m, F) == FreeAre(m, F) /\ m.reserved_pages = 0 /\ F \subseteq {p \in Frames : p >= FirstFreePage}

\* AddPage of a page not yet free lists it when it is a frame behind the kernel, and no other.
LEMMA PageAdded ==
  ASSUME NEW m, NEW F, Listing(m, F), NEW p \in Nat, p \notin F
  PROVE  Listing(AddPage(m, p), F \cup ({p} \cap FirstFreePage..MaxPageFrames - 1))
<1> DEFINE n == AddPage(m, p)
<1>0. /\ FirstKernelPage \in Nat /\ FirstFreePage \in Nat /\ MaxPageFrames \in Nat
      /\ FirstKernelPage <= FirstFreePage /\ Frames = 0..MaxPageFrames - 1
  BY MemAssumption DEF Frames
<1>t. /\ m \in PmmRecs /\ m.flags \in [Frames -> SUBSET {"FREE", "KERNEL", "RESERVED"}]
      /\ m.ref_count \in [Frames -> Nat] /\ m.kernel_pages \in Nat
  BY PmmTyped DEF Listing, FreeAre
<1>1. CASE p < FirstKernelPage \/ p >= MaxPageFrames
  <2>1. n = m
    BY <1>1, <1>0 DEF AddPage
  <2>2. F \cup ({p} \cap FirstFreePage..MaxPageFrames - 1) = F
    BY <1>1, <1>0
  <2> QED BY <2>1, <2>2
<1>2. CASE p \in FirstKernelPage..FirstFreePage - 1 /\ p < MaxPageFrames
  <2> DEFINE f == [m.flags EXCEPT ![p] = {"KERNEL"}]
             c == m.kernel_pages + 1
             m1 == [m EXCEPT !.flags = f]
  <2>1. n = [m1 EXCEPT !.kernel_pages = c]
    <3>1. ~(p < FirstKernelPage \/ p >= MaxPageFrames)
      BY <1>0, <1>2
    <3>2. n = AsKernel(m, p)
      BY <1>0, <1>2, <3>1 DEF AddPage
    <3> QED BY <3>2 DEF AsKernel
  <2>2. m1 = [flags |-> f, ref_count |-> m.ref_count, links |-> m.links, list |-> m.list,
              free_pages |-> m.free_pages, kernel_pages |-> m.kernel_pages,
              reserved_pages |-> m.reserved_pages, total_pages |-> m.total_pages]
    <3> HIDE DEF f
    <3>1. m = [flags |-> m.flags, ref_count |-> m.ref_count, links |-> m.links, list |-> m.list,
              free_pages |-> m.free_pages, kernel_pages |-> m.kernel_pages,
              reserved_pages |-> m.reserved_pages, total_pages |-> m.total_pages]
      BY <1>t, PmmIs
    <3> QED BY <3>1
  <2>3. n = [flags |-> f, ref_count |-> m.ref_count, links |-> m.links, list |-> m.list,
             free_pages |-> m.free_pages, kernel_pages |-> c,
             reserved_pages |-> m.reserved_pages, total_pages |-> m.total_pages]
    <3> HIDE DEF f, m1, n, c
    <3> QED BY <2>1, <2>2
  <2>4. /\ f \in [Frames -> SUBSET {"FREE", "KERNEL", "RESERVED"}] /\ c \in Nat
        /\ \A q \in Frames : "FREE" \in f[q] <=> q # p /\ "FREE" \in m.flags[q]
    <3>1. p \in Frames /\ {"KERNEL"} \in SUBSET {"FREE", "KERNEL", "RESERVED"} /\ "FREE" \notin {"KERNEL"}
      BY <1>0, <1>2
    <3>2. /\ f \in [Frames -> SUBSET {"FREE", "KERNEL", "RESERVED"}]
          /\ \A q \in Frames : f[q] = IF q = p THEN {"KERNEL"} ELSE m.flags[q]
      BY <1>t, <3>1, FlagSet
    <3> HIDE DEF f
    <3> QED BY <1>t, <3>1, <3>2
  <2> HIDE DEF f, m1, n, c
  <2>5. n \in PmmRecs
    BY <1>t, <2>3, <2>4, PmmTyped DEF PmmRecs
  <2>6. /\ n.flags = f /\ n.list = m.list /\ n.links = m.links /\ n.free_pages = m.free_pages
        /\ n.reserved_pages = m.reserved_pages
    BY <2>3
  <2>7. \A q \in Frames : is_free(n, q) <=> q \in F
    BY <1>0, <1>2, <2>4, <2>6 DEF is_free, Listing, FreeAre
  <2>8. FreeAre(n, F)
    BY <2>5, <2>6, <2>7 DEF FreeAre, Listing
  <2>9. F \cup ({p} \cap FirstFreePage..MaxPageFrames - 1) = F
    BY <1>2, <1>0
  <2> QED BY <2>6, <2>8, <2>9 DEF Listing, n
<1>3. CASE p >= FirstFreePage /\ p < MaxPageFrames
  <2> DEFINE f == [m.flags EXCEPT ![p] = {"FREE"}]
             x == push_front(m.list, m.links, p)
             k == Altered(m, x, f, m.ref_count, m.free_pages + 1)
  <2>1. n = k
    <3>1. ~(p < FirstKernelPage \/ p >= MaxPageFrames) /\ p \notin FirstKernelPage..FirstFreePage - 1
      BY <1>0, <1>3
    <3>2. n = AsFree(m, p)
      BY <1>0, <1>3, <3>1 DEF AddPage
    <3>3. Listed(m, x).flags = m.flags /\ Listed(m, x).free_pages = m.free_pages /\ Listed(m, x).ref_count = m.ref_count
      BY <1>t DEF Listed, PmmRecs
    <3>4. AsFree(m, p) = [Listed(m, x) EXCEPT !.flags = f, !.free_pages = m.free_pages + 1]
      BY <3>3 DEF AsFree
    <3>5. k = [Listed(m, x) EXCEPT !.flags = f, !.free_pages = m.free_pages + 1]
      BY <3>3 DEF Altered
    <3> QED BY <3>2, <3>4, <3>5
  <2>2. /\ f \in [Frames -> SUBSET {"FREE", "KERNEL", "RESERVED"}]
        /\ \A q \in Frames : "FREE" \in f[q] <=> q = p \/ is_free(m, q)
    <3>1. p \in Frames /\ {"FREE"} \in SUBSET {"FREE", "KERNEL", "RESERVED"}
      BY <1>0, <1>3
    <3>2. /\ f \in [Frames -> SUBSET {"FREE", "KERNEL", "RESERVED"}]
          /\ \A q \in Frames : f[q] = IF q = p THEN {"FREE"} ELSE m.flags[q]
      BY <1>t, <3>1, FlagSet
    <3> HIDE DEF f
    <3> QED BY <1>t, <3>1, <3>2 DEF is_free
  <2>3. p \in Frames \ F
    BY <1>0, <1>3
  <2> HIDE DEF f
  <2>4. FreeAre(k, F \cup {p}) /\ k.reserved_pages = m.reserved_pages
    <3>1. FreeAre(m, F)
      BY <1>t DEF Listing
    <3>2. m.ref_count \in [Frames -> Nat]
      BY <1>t
    <3>3. f \in [Frames -> SUBSET {"FREE", "KERNEL", "RESERVED"}]
      BY <2>2
    <3>4. \A q \in Frames : "FREE" \in f[q] <=> q = p \/ is_free(m, q)
      BY <2>2
    <3>5. LET u == Altered(m, push_front(m.list, m.links, p), f, m.ref_count, m.free_pages + 1)
          IN  FreeAre(u, F \cup {p}) /\ u.kernel_pages = m.kernel_pages /\ u.reserved_pages = m.reserved_pages
              /\ u.total_pages = m.total_pages
      BY <2>3, <3>1, <3>2, <3>3, <3>4, PagePushed
    <3> QED BY <3>5
  <2> HIDE DEF n, k
  <2>5. F \cup ({p} \cap FirstFreePage..MaxPageFrames - 1) = F \cup {p}
    BY <1>0, <1>3
  <2> QED BY <1>3, <2>1, <2>3, <2>4, <2>5 DEF Listing, n
<1> HIDE DEF n
<1> QED BY <1>0, <1>1, <1>2, <1>3

\* Whatever the map, what pmm::init builds is a page allocator's state.
LEMMA AddPageTyped ==
  ASSUME NEW m \in PmmRecs, NEW p \in Nat
  PROVE  AddPage(m, p) \in PmmRecs
<1> DEFINE n == AddPage(m, p)
<1>0. /\ FirstKernelPage \in Nat /\ FirstFreePage \in Nat /\ MaxPageFrames \in Nat
      /\ FirstKernelPage <= FirstFreePage /\ Frames = 0..MaxPageFrames - 1 /\ None \notin Frames
  BY MemAssumption DEF Frames
<1>t. /\ m.flags \in [Frames -> SUBSET {"FREE", "KERNEL", "RESERVED"}]
      /\ m.ref_count \in [Frames -> Nat] /\ m.kernel_pages \in Nat
      /\ m.links \in [Frames -> Nodes(Frames)] /\ m.list \in Lists(Frames)
      /\ m.free_pages \in Nat /\ m.reserved_pages \in Nat /\ m.total_pages \in Nat
  BY PmmTyped
<1>m. m = [flags |-> m.flags, ref_count |-> m.ref_count, links |-> m.links, list |-> m.list,
           free_pages |-> m.free_pages, kernel_pages |-> m.kernel_pages,
           reserved_pages |-> m.reserved_pages, total_pages |-> m.total_pages]
  BY PmmIs
<1>1. CASE p < FirstKernelPage \/ p >= MaxPageFrames
  BY <1>1, <1>0 DEF AddPage
<1>2. ASSUME p \in Frames PROVE AsKernel(m, p) \in PmmRecs
  <2> DEFINE f == [m.flags EXCEPT ![p] = {"KERNEL"}]
             c == m.kernel_pages + 1
             m1 == [m EXCEPT !.flags = f]
  <2>1. AsKernel(m, p) = [m1 EXCEPT !.kernel_pages = c]
    BY DEF AsKernel
  <2>2. m1 = [flags |-> f, ref_count |-> m.ref_count, links |-> m.links, list |-> m.list,
              free_pages |-> m.free_pages, kernel_pages |-> m.kernel_pages,
              reserved_pages |-> m.reserved_pages, total_pages |-> m.total_pages]
    <3> HIDE DEF f
    <3> QED BY <1>m
  <2>3. AsKernel(m, p) = [flags |-> f, ref_count |-> m.ref_count, links |-> m.links, list |-> m.list,
             free_pages |-> m.free_pages, kernel_pages |-> c,
             reserved_pages |-> m.reserved_pages, total_pages |-> m.total_pages]
    <3> HIDE DEF f, m1, c
    <3> QED BY <2>1, <2>2
  <2>4. f \in [Frames -> SUBSET {"FREE", "KERNEL", "RESERVED"}] /\ c \in Nat
    BY <1>t, <1>2, FlagSet
  <2> HIDE DEF f, m1, c
  <2> QED BY <1>t, <2>3, <2>4 DEF PmmRecs
<1>3. ASSUME p \in Frames PROVE AsFree(m, p) \in PmmRecs
  <2> DEFINE f == [m.flags EXCEPT ![p] = {"FREE"}]
             x == push_front(m.list, m.links, p)
             c == m.free_pages + 1
             k == Altered(m, x, f, m.ref_count, c)
  <2>1. AsFree(m, p) = k
    <3>3. Listed(m, x).flags = m.flags /\ Listed(m, x).free_pages = m.free_pages /\ Listed(m, x).ref_count = m.ref_count
      BY <1>t DEF Listed, PmmRecs
    <3>4. AsFree(m, p) = [Listed(m, x) EXCEPT !.flags = f, !.free_pages = m.free_pages + 1]
      BY <3>3 DEF AsFree
    <3>5. k = [Listed(m, x) EXCEPT !.flags = f, !.free_pages = m.free_pages + 1]
      BY <3>3 DEF Altered
    <3> QED BY <3>4, <3>5
  <2>2. k = [flags |-> f, ref_count |-> m.ref_count, links |-> x.links, list |-> x.list,
             free_pages |-> c, kernel_pages |-> m.kernel_pages,
             reserved_pages |-> m.reserved_pages, total_pages |-> m.total_pages]
    <3> HIDE DEF f, x, c
    <3> QED BY PmmChanged
  <2>3. f \in [Frames -> SUBSET {"FREE", "KERNEL", "RESERVED"}] /\ c \in Nat
    BY <1>t, <1>3, FlagSet
  <2>4. x.list \in Lists(Frames) /\ x.links \in [Frames -> Nodes(Frames)]
    BY <1>0, <1>t, <1>3, PushFrontTyped
  <2> HIDE DEF f, x, c, k
  <2> QED BY <1>t, <2>1, <2>2, <2>3, <2>4 DEF PmmRecs
<1>4. CASE p \in FirstKernelPage..FirstFreePage - 1 /\ p < MaxPageFrames
  <2>1. AddPage(m, p) = AsKernel(m, p) /\ p \in Frames
    BY <1>0, <1>4 DEF AddPage
  <2> QED BY <1>2, <2>1
<1>5. CASE p >= FirstFreePage /\ p < MaxPageFrames /\ ~(p < FirstKernelPage)
  <2>1. AddPage(m, p) = AsFree(m, p) /\ p \in Frames
    BY <1>0, <1>5 DEF AddPage
  <2> QED BY <1>3, <2>1
<1> QED BY <1>0, <1>1, <1>4, <1>5

Entries == [base : Nat, length : Nat, region_type : Nat]

(* The pages of an entry are those that lie whole in it, each once. *)
LEMMA PagesWhole ==
  ASSUME NEW e \in Entries
  PROVE  /\ Len(Pages(e)) \in Nat /\ \A i \in 1..Len(Pages(e)) : Pages(e)[i] \in Nat
         /\ \A i, j \in 1..Len(Pages(e)) : Pages(e)[i] = Pages(e)[j] => i = j
         /\ \A p \in Nat : (\E i \in 1..Len(Pages(e)) : Pages(e)[i] = p) <=> WholeIn(e, p)
<1> DEFINE first == FirstPage(e)
           end == EndPage(e)
           tally == end - first
<1>0. PageSize \in Nat \ {0} /\ e.base \in Nat /\ e.length \in Nat
  BY MemAssumption DEF Entries
<1>1. end \in Nat /\ \A p \in Nat : p < end <=> (p + 1) * PageSize <= EndOf(e)
  <2>1. EndOf(e) \in Nat
    BY <1>0 DEF EndOf
  <2>2. end \in Nat
    BY <1>0, <2>1, Divided DEF EndPage
  <2>3. ASSUME NEW p \in Nat PROVE p + 1 <= end <=> (p + 1) * PageSize <= EndOf(e)
    <3>1. p + 1 \in Nat
      OBVIOUS
    <3> QED BY <1>0, <2>1, <3>1, DivGe DEF EndPage
  <2> HIDE DEF end
  <2> QED BY <2>2, <2>3
<1>2. first \in Nat /\ \A p \in Nat : first <= p <=> e.base <= p * PageSize
  <2> DEFINE x == e.base + PageSize - 1
  <2>1. x \in Nat /\ x = e.base + PageSize - 1
    BY <1>0
  <2>2. first = x \div PageSize
    BY DEF FirstPage
  <2> HIDE DEF x, first
  <2>3. first \in Nat
    BY <1>0, <2>1, <2>2, Divided
  <2>4. ASSUME NEW p \in Nat PROVE p + 1 <= first <=> p * PageSize + PageSize <= x
    <3>1. p + 1 \in Nat /\ (p + 1) * PageSize = p * PageSize + PageSize
      BY <1>0
    <3>2. p + 1 <= x \div PageSize <=> (p + 1) * PageSize <= x
      BY <1>0, <2>1, <3>1, DivGe
    <3> QED BY <2>2, <3>1, <3>2
  <2>5. ASSUME NEW p \in Nat PROVE first <= p <=> e.base <= p * PageSize
    <3>1. p * PageSize \in Nat
      BY <1>0
    <3> QED BY <1>0, <2>1, <2>3, <2>4, <3>1
  <2> QED BY <2>3, <2>5
<1>3. Pages(e) = [i \in 1..tally |-> first + i - 1]
  BY DEF Pages
<1> HIDE DEF first, end
<1>4. CASE tally <= 0
  <2>1. 1..tally = {}
    BY <1>1, <1>2, <1>4
  <2>2. Pages(e) = <<>>
    BY <1>3, <2>1
  <2>3. Len(Pages(e)) = 0
    BY <2>2
  <2>4. \A p \in Nat : ~WholeIn(e, p)
    BY <1>1, <1>2, <1>4 DEF WholeIn
  <2> QED BY <2>3, <2>4
<1>5. CASE tally > 0
  <2>1. Len(Pages(e)) = tally /\ tally \in Nat
    BY <1>1, <1>2, <1>3, <1>5
  <2>2. \A i \in 1..tally : Pages(e)[i] = first + i - 1 /\ first + i - 1 \in Nat
    BY <1>1, <1>2, <1>3
  <2>3. ASSUME NEW p \in Nat PROVE (\E i \in 1..tally : Pages(e)[i] = p) <=> WholeIn(e, p)
    <3>1. WholeIn(e, p) <=> first <= p /\ p < end
      BY <1>1, <1>2 DEF WholeIn
    <3>2. ASSUME NEW i \in 1..tally, Pages(e)[i] = p PROVE first <= p /\ p < end
      BY <1>1, <1>2, <2>2, <3>2
    <3>3. ASSUME first <= p, p < end PROVE \E i \in 1..tally : Pages(e)[i] = p
      <4>1. p - first + 1 \in 1..tally /\ first + (p - first + 1) - 1 = p
        BY <1>1, <1>2, <3>3
      <4> QED BY <2>2, <4>1
    <3> QED BY <3>1, <3>2, <3>3
  <2>4. \A i, j \in 1..tally : Pages(e)[i] = Pages(e)[j] => i = j
    BY <1>1, <1>2, <2>2
  <2> HIDE DEF tally
  <2> QED BY <2>1, <2>2, <2>3, <2>4
<1>6. tally \in Int
  BY <1>1, <1>2
<1> QED BY <1>4, <1>5, <1>6

(* An entry is added page by page. *)
LEMMA EntrySteps ==
  ASSUME NEW m \in PmmRecs, NEW e \in Entries, entry_type(e) = "Usable"
  PROVE  \E f \in [0..Len(Pages(e)) -> PmmRecs] :
           /\ AddEntry(m, e) = f[Len(Pages(e))]
           /\ \A n \in 0..Len(Pages(e)) : f[n] = IF n = 0 THEN m ELSE AddPage(f[n - 1], Pages(e)[n])
<1> DEFINE N == Len(Pages(e))
           after[n \in 0..N] == IF n = 0 THEN m ELSE AddPage(after[n - 1], Pages(e)[n])
           Body(f) == [n \in 0..N |-> IF n = 0 THEN m ELSE AddPage(f[n - 1], Pages(e)[n])]
           advance == [x \in PmmRecs \X (1..N) |-> AddPage(x[1], Pages(e)[x[2]])]
<1>0. AddEntry(m, e) = after[N]
  BY DEF AddEntry
<1>1. N \in Nat /\ \A i \in 1..N : Pages(e)[i] \in Nat
  BY PagesWhole
<1> HIDE DEF N
<1>2. advance \in [PmmRecs \X (1..N) -> PmmRecs]
  <2>1. ASSUME NEW x \in PmmRecs \X (1..N) PROVE AddPage(x[1], Pages(e)[x[2]]) \in PmmRecs
    <3>1. x[1] \in PmmRecs /\ Pages(e)[x[2]] \in Nat
      BY <1>1
    <3> QED BY <3>1, AddPageTyped
  <2> QED BY <2>1
<1>3. PICK g \in [0..N -> PmmRecs] : Iterates(g, N, m, advance)
  <2> HIDE DEF advance
  <2> QED BY <1>1, <1>2, Iterated
<1>4. ASSUME NEW n \in 0..N PROVE g[n] = IF n = 0 THEN m ELSE AddPage(g[n - 1], Pages(e)[n])
  <2>1. g[n] = IF n = 0 THEN m ELSE advance[<<g[n - 1], n>>]
    BY <1>3 DEF Iterates
  <2>2. n # 0 => <<g[n - 1], n>> \in PmmRecs \X (1..N)
    BY <1>1
  <2>3. n # 0 => advance[<<g[n - 1], n>>] = AddPage(g[n - 1], Pages(e)[n])
    BY <2>2
  <2> QED BY <2>1, <2>3
<1>5. g = Body(g)
  BY <1>4
<1>6. after = Body(after)
  <2>1. \E f : f = Body(f)
    BY <1>5
  <2> QED BY <2>1
<1> HIDE DEF advance
<1>7. DOMAIN after = 0..N
  <2> HIDE DEF after
  <2> QED BY <1>6
<1>8. \A n \in 0..N : after[n] = IF n = 0 THEN m ELSE AddPage(after[n - 1], Pages(e)[n])
  <2> HIDE DEF after
  <2> QED BY <1>6
<1> HIDE DEF after
<1> DEFINE wrong == {n \in 0..N : after[n] # g[n]}
<1>9. wrong = {}
  <2>1. SUFFICES ASSUME wrong # {} PROVE FALSE
    OBVIOUS
  <2>2. PICK n \in wrong : \A j \in wrong : n <= j
    <3> HIDE DEF wrong
    <3>1. wrong \subseteq Nat
      BY <1>1 DEF wrong
    <3> QED BY <2>1, <3>1, Least
  <2>3. n \in 0..N /\ (n # 0 => after[n - 1] = g[n - 1])
    <3>1. n # 0 => n - 1 \in 0..N /\ ~(n <= n - 1)
      BY <1>1
    <3> QED BY <2>2, <3>1
  <2>4. after[n] = g[n]
    BY <1>4, <1>8, <2>3
  <2> QED BY <2>4
<1>10. after[N] = g[N]
  <2>1. N \in 0..N
    BY <1>1
  <2> QED BY <1>9, <2>1
<1> QED BY <1>0, <1>1, <1>4, <1>10 DEF N

\* The pages of an entry that may be handed out.
Offered(e) == {p \in FirstFreePage..MaxPageFrames - 1 : WholeIn(e, p)}

\* An entry of the memory map leaves a well-formed allocator.
LEMMA AddEntryTyped ==
  ASSUME NEW m \in PmmRecs, NEW e \in Entries
  PROVE  AddEntry(m, e) \in PmmRecs
<1>1. CASE entry_type(e) = "Usable"
  <2>1. Len(Pages(e)) \in 0..Len(Pages(e))
    BY PagesWhole
  <2> QED BY <1>1, <2>1, EntrySteps
<1>2. CASE entry_type(e) # "Usable"
  BY <1>2 DEF AddEntry
<1> QED BY <1>1, <1>2

\* A usable entry lists exactly the pages that lie whole in it.
LEMMA EntryAdded ==
  ASSUME NEW m, NEW F, Listing(m, F), NEW e \in Entries, entry_type(e) = "Usable",
         F \cap Offered(e) = {}
  PROVE  Listing(AddEntry(m, e), F \cup Offered(e))
<1> DEFINE N == Len(Pages(e))
           Taken(n) == {p \in FirstFreePage..MaxPageFrames - 1 : \E i \in 1..n : Pages(e)[i] = p}
<1>0. FirstFreePage \in Nat /\ MaxPageFrames \in Nat
  BY MemAssumption
<1>1. /\ N \in Nat /\ \A i \in 1..N : Pages(e)[i] \in Nat
      /\ \A i, j \in 1..N : Pages(e)[i] = Pages(e)[j] => i = j
      /\ \A p \in Nat : (\E i \in 1..N : Pages(e)[i] = p) <=> WholeIn(e, p)
  BY PagesWhole
<1>2. PICK f \in [0..N -> PmmRecs] :
        /\ AddEntry(m, e) = f[N]
        /\ \A n \in 0..N : f[n] = IF n = 0 THEN m ELSE AddPage(f[n - 1], Pages(e)[n])
  <2>1. m \in PmmRecs
    BY DEF Listing, FreeAre
  <2> QED BY <2>1, EntrySteps
<1> HIDE DEF N
<1>3. Taken(N) = Offered(e)
  BY <1>0, <1>1 DEF Offered
<1> DEFINE bad == {n \in 0..N : ~Listing(f[n], F \cup Taken(n))}
<1>4. bad = {}
  <2>1. SUFFICES ASSUME bad # {} PROVE FALSE
    OBVIOUS
  <2>2. PICK n \in bad : \A j \in bad : n <= j
    <3> HIDE DEF bad
    <3>1. bad \subseteq Nat
      BY <1>1 DEF bad
    <3> QED BY <2>1, <3>1, Least
  <2>3. n \in 0..N /\ ~Listing(f[n], F \cup Taken(n))
    OBVIOUS
  <2>4. CASE n = 0
    <3>1. f[n] = m
      BY <1>2, <2>3, <2>4
    <3>2. F \cup Taken(n) = F
      BY <2>4
    <3> QED BY <2>3, <3>1, <3>2
  <2>5. CASE n # 0
    <3>1. n - 1 \in 0..N /\ ~(n <= n - 1) /\ n \in 1..N /\ n \in Nat
      BY <1>1, <2>3, <2>5
    <3>2. Listing(f[n - 1], F \cup Taken(n - 1))
      BY <2>2, <3>1
    <3> DEFINE p == Pages(e)[n]
    <3>3. p \in Nat /\ WholeIn(e, p)
      BY <1>1, <3>1
    <3>4. p \notin F \cup Taken(n - 1)
      <4>1. p \notin F
        <5> HIDE DEF p
        <5>1. F \subseteq FirstFreePage..MaxPageFrames - 1
          BY <1>0 DEF Listing, Frames
        <5> QED BY <3>3, <5>1 DEF Offered
      <4>2. \A i \in 1..n - 1 : Pages(e)[i] # p
        BY <1>1, <3>1
      <4> QED BY <4>1, <4>2
    <3>5. f[n] = AddPage(f[n - 1], p)
      BY <1>2, <2>5, <3>1
    <3>6. (F \cup Taken(n - 1)) \cup ({p} \cap FirstFreePage..MaxPageFrames - 1) = F \cup Taken(n)
      <4>1. 1..n = (1..n - 1) \cup {n}
        BY <3>1
      <4> QED BY <4>1
    <3> HIDE DEF p, Taken
    <3> QED BY <2>3, <3>2, <3>3, <3>4, <3>5, <3>6, PageAdded
  <2> QED BY <2>4, <2>5
<1>5. Listing(f[N], F \cup Taken(N))
  <2>1. N \in 0..N
    BY <1>1
  <2> HIDE DEF Taken
  <2> QED BY <1>4, <2>1
<1> HIDE DEF Taken
<1> QED BY <1>2, <1>3, <1>5

\* All pages reserved: the first pass.
LEMMA ReservedListing == Listing(Reserved, {}) /\ Reserved \in PmmRecs /\ NoPmm \in PmmRecs
<1> DEFINE f == [p \in Frames |-> {"RESERVED"}]
           g == [p \in Frames |-> {}]
           r == [p \in Frames |-> 0]
           k == [p \in Frames |-> Unlinked]
<1>1. None \notin Frames /\ IsFiniteSet({}) /\ Cardinality({}) = 0
  BY FramesFinite, FS_EmptySet
<1>2. NoPmm = [flags |-> g, ref_count |-> r, links |-> k, list |-> EmptyList,
               free_pages |-> 0, kernel_pages |-> 0, reserved_pages |-> 0, total_pages |-> 0]
  BY DEF NoPmm
<1>3. Reserved = [NoPmm EXCEPT !.flags = f]
  BY DEF Reserved
<1>4. /\ f \in [Frames -> SUBSET {"FREE", "KERNEL", "RESERVED"}]
      /\ g \in [Frames -> SUBSET {"FREE", "KERNEL", "RESERVED"}]
      /\ r \in [Frames -> Nat]
      /\ \A p \in Frames : "FREE" \notin f[p]
  OBVIOUS
<1>5. k \in [Frames -> Nodes(Frames)] /\ EmptyList \in Lists(Frames)
  BY DEF Unlinked, EmptyList, Nodes, Lists, Ends
<1> HIDE DEF f, g, r, k
<1>6. Reserved = [flags |-> f, ref_count |-> r, links |-> k, list |-> EmptyList,
                  free_pages |-> 0, kernel_pages |-> 0, reserved_pages |-> 0, total_pages |-> 0]
  BY <1>2, <1>3
<1>7. Reserved \in PmmRecs /\ NoPmm \in PmmRecs
  BY <1>2, <1>4, <1>5, <1>6 DEF PmmRecs
<1>8. Represents(Frames, Reserved.list, Reserved.links, <<>>)
  BY <1>1, <1>5, <1>6, EmptyShown
<1>9. \A p \in Frames : ~Occurs(<<>>, p) /\ ~is_free(Reserved, p)
  BY <1>4, <1>6 DEF Occurs, is_free
<1> QED BY <1>1, <1>6, <1>7, <1>8, <1>9 DEF Listing, FreeAre

\* The pages that the first i entries of a map offer.
OfferedBy(map, i) == {p \in FirstFreePage..MaxPageFrames - 1 :
                        \E j \in 1..i : entry_type(map[j]) = "Usable" /\ WholeIn(map[j], p)}

\* Whatever map the BIOS gave, init lists the pages offered by its usable entries, each once.
LEMMA InitListing ==
  ASSUME NEW map \in Maps
  PROVE  /\ FreeAre(pmm_init(map), OfferedBy(map, Len(map)))
         /\ pmm_init(map).total_pages - pmm_init(map).kernel_pages = Cardinality(OfferedBy(map, Len(map)))
<1> DEFINE N == Len(map)
           after[i \in 0..N] == IF i = 0 THEN Reserved ELSE AddEntry(after[i - 1], map[i])
           Body(f) == [i \in 0..N |-> IF i = 0 THEN Reserved ELSE AddEntry(f[i - 1], map[i])]
           advance == [x \in PmmRecs \X (1..N) |-> AddEntry(x[1], map[x[2]])]
           m == after[N]
           t == m.free_pages + m.kernel_pages + m.reserved_pages
<1>0. pmm_init(map) = [m EXCEPT !.total_pages = t]
  BY DEF pmm_init
<1>1. /\ N \in Nat /\ \A i \in 1..N : map[i] \in Entries
      /\ \A i, j \in 1..N, p \in FirstFreePage..MaxPageFrames - 1 :
           /\ entry_type(map[i]) = "Usable" /\ WholeIn(map[i], p)
           /\ entry_type(map[j]) = "Usable" /\ WholeIn(map[j], p)
           => i = j
  <2>1. map \in Seq(Entries) /\ DOMAIN map = 1..N
    BY MapsAssumption DEF Entries
  <2>2. \A i, j \in DOMAIN map, p \in FirstFreePage..MaxPageFrames - 1 :
           /\ entry_type(map[i]) = "Usable" /\ WholeIn(map[i], p)
           /\ entry_type(map[j]) = "Usable" /\ WholeIn(map[j], p)
           => i = j
    BY MapsAssumption
  <2>3. N \in Nat /\ \A i \in 1..N : map[i] \in Entries
    BY <2>1
  <2> HIDE DEF N
  <2> QED BY <2>1, <2>2, <2>3
<1> HIDE DEF N
<1>2. advance \in [PmmRecs \X (1..N) -> PmmRecs]
  <2>1. ASSUME NEW x \in PmmRecs \X (1..N) PROVE AddEntry(x[1], map[x[2]]) \in PmmRecs
    <3>1. x[1] \in PmmRecs /\ map[x[2]] \in Entries
      BY <1>1
    <3> QED BY <3>1, AddEntryTyped
  <2> QED BY <2>1
<1>3. PICK g \in [0..N -> PmmRecs] : Iterates(g, N, Reserved, advance)
  <2> HIDE DEF advance
  <2> QED BY <1>1, <1>2, Iterated, ReservedListing
<1>4. ASSUME NEW i \in 0..N PROVE g[i] = IF i = 0 THEN Reserved ELSE AddEntry(g[i - 1], map[i])
  <2>1. g[i] = IF i = 0 THEN Reserved ELSE advance[<<g[i - 1], i>>]
    BY <1>3 DEF Iterates
  <2>2. i # 0 => <<g[i - 1], i>> \in PmmRecs \X (1..N)
    BY <1>1
  <2>3. i # 0 => advance[<<g[i - 1], i>>] = AddEntry(g[i - 1], map[i])
    BY <2>2
  <2> QED BY <2>1, <2>3
<1>5. g = Body(g)
  BY <1>4
<1>6. after = Body(after)
  <2>1. \E f : f = Body(f)
    BY <1>5
  <2> QED BY <2>1
<1> HIDE DEF advance
<1>8. \A i \in 0..N : after[i] = IF i = 0 THEN Reserved ELSE AddEntry(after[i - 1], map[i])
  <2> HIDE DEF after
  <2> QED BY <1>6
<1> HIDE DEF after
<1> DEFINE bad == {i \in 0..N : ~Listing(after[i], OfferedBy(map, i))}
<1>9. bad = {}
  <2>1. SUFFICES ASSUME bad # {} PROVE FALSE
    OBVIOUS
  <2>2. PICK i \in bad : \A j \in bad : i <= j
    <3> HIDE DEF bad
    <3>1. bad \subseteq Nat
      BY <1>1 DEF bad
    <3> QED BY <2>1, <3>1, Least
  <2>3. i \in 0..N /\ ~Listing(after[i], OfferedBy(map, i))
    OBVIOUS
  <2>4. CASE i = 0
    <3>1. after[i] = Reserved
      BY <1>8, <2>3, <2>4
    <3>2. OfferedBy(map, i) = {}
      BY <2>4 DEF OfferedBy
    <3> QED BY <2>3, <3>1, <3>2, ReservedListing
  <2>5. CASE i # 0
    <3>1. i - 1 \in 0..N /\ ~(i <= i - 1) /\ i \in 1..N /\ i \in Nat
      BY <1>1, <2>3, <2>5
    <3>2. Listing(after[i - 1], OfferedBy(map, i - 1))
      BY <2>2, <3>1
    <3>3. after[i] = AddEntry(after[i - 1], map[i]) /\ map[i] \in Entries
      BY <1>1, <1>8, <2>5, <3>1
    <3>4. 1..i = (1..i - 1) \cup {i}
      BY <3>1
    <3>5. CASE entry_type(map[i]) = "Usable"
      <4>1. OfferedBy(map, i) = OfferedBy(map, i - 1) \cup Offered(map[i])
        BY <3>4, <3>5 DEF OfferedBy, Offered
      <4>2. OfferedBy(map, i - 1) \cap Offered(map[i]) = {}
        <5>1. \A j \in 1..i - 1 : j \in 1..N /\ j # i
          BY <1>1, <3>1
        <5> QED BY <1>1, <3>1, <3>5, <5>1 DEF OfferedBy, Offered
      <4> QED BY <2>3, <3>2, <3>3, <3>5, <4>1, <4>2, EntryAdded
    <3>6. CASE entry_type(map[i]) # "Usable"
      <4>1. OfferedBy(map, i) = OfferedBy(map, i - 1)
        BY <3>4, <3>6 DEF OfferedBy
      <4>2. after[i] = after[i - 1]
        BY <3>3, <3>6 DEF AddEntry
      <4> QED BY <2>3, <3>2, <4>1, <4>2
    <3> QED BY <3>5, <3>6
  <2> QED BY <2>4, <2>5
<1>10. Listing(m, OfferedBy(map, N))
  <2>1. N \in 0..N
    BY <1>1
  <2> QED BY <1>9, <2>1
<1> DEFINE F == OfferedBy(map, N)
           r == [m EXCEPT !.total_pages = t]
<1> HIDE DEF m
<1>11. /\ m \in PmmRecs /\ m.reserved_pages = 0 /\ m.free_pages \in Nat /\ m.kernel_pages \in Nat
       /\ m.free_pages = Cardinality(F)
  BY <1>10, PmmTyped DEF Listing, FreeAre
<1> HIDE DEF F
<1>12. t \in Nat /\ t - m.kernel_pages = Cardinality(F)
  BY <1>11
<1> HIDE DEF t
<1>13. r = [flags |-> m.flags, ref_count |-> m.ref_count, links |-> m.links, list |-> m.list,
            free_pages |-> m.free_pages, kernel_pages |-> m.kernel_pages,
            reserved_pages |-> m.reserved_pages, total_pages |-> t]
  <2>1. m = [flags |-> m.flags, ref_count |-> m.ref_count, links |-> m.links, list |-> m.list,
              free_pages |-> m.free_pages, kernel_pages |-> m.kernel_pages,
              reserved_pages |-> m.reserved_pages, total_pages |-> m.total_pages]
    BY <1>11, PmmIs
  <2> QED BY <2>1
<1> HIDE DEF r
<1>14. r \in PmmRecs
  BY <1>11, <1>12, <1>13, PmmTyped DEF PmmRecs
<1>15. /\ r.flags = m.flags /\ r.links = m.links /\ r.list = m.list /\ r.free_pages = m.free_pages
       /\ r.total_pages = t /\ r.kernel_pages = m.kernel_pages
  BY <1>13
<1>16. FreeAre(r, F)
  <2>1. FreeAre(m, F)
    BY <1>10 DEF Listing, F
  <2> QED BY <2>1, <1>14, <1>15 DEF FreeAre, is_free
<1>17. r = pmm_init(map)
  BY <1>0 DEF r
<1> QED BY <1>12, <1>15, <1>16, <1>17 DEF F, N

\* The pages that may be handed out.
Usable == {p \in Frames : p >= FirstFreePage /\ Whole(p)}

(* Until the map has been read there is no page; from then on each usable one is free or held. *)
PagesInv ==
  /\ e820 \in Maps /\ held \subseteq Usable
  /\ \/ memory_info = None /\ FreeAre(pmm, {}) /\ held = {}
     \/ /\ memory_info # None
        /\ FreeAre(pmm, Usable \ held)
        /\ pmm.total_pages - pmm.kernel_pages = Cardinality(Usable)

\* The pages the model calls usable are those that the entries of the map offer.
LEMMA UsableOffered ==
  ASSUME e820 \in Maps
  PROVE  Usable = OfferedBy(e820, Len(e820))
<1>1. DOMAIN e820 = 1..Len(e820)
  BY MapsAssumption
<1>2. FirstFreePage \in Nat /\ MaxPageFrames \in Nat
  BY MemAssumption
<1>3. \A p : p \in FirstFreePage..MaxPageFrames - 1 <=> p \in Frames /\ p >= FirstFreePage
  BY <1>2 DEF Frames
<1>4. \A p : Whole(p) <=> \E j \in 1..Len(e820) : entry_type(e820[j]) = "Usable" /\ WholeIn(e820[j], p)
  BY <1>1 DEF Whole, UsableEntries
<1> QED BY <1>3, <1>4 DEF Usable, OfferedBy

\* After init the free pages are the usable ones.
LEMMA PagesInitInv ==
  ASSUME NEW maps \in SUBSET Maps, MemInit(maps)
  PROVE  PagesInv
<1>1. FreeAre(NoPmm, {})
  <2>1. None \notin Frames /\ Cardinality({}) = 0
    BY FramesFinite, FS_EmptySet
  <2>2. NoPmm.links \in [Frames -> Nodes(Frames)] /\ NoPmm.list = EmptyList /\ NoPmm \in PmmRecs
    BY ReservedListing, PmmTyped DEF NoPmm
  <2>3. Represents(Frames, NoPmm.list, NoPmm.links, <<>>)
    BY <2>1, <2>2, EmptyShown
  <2>4. \A p \in Frames : ~Occurs(<<>>, p) /\ ~is_free(NoPmm, p)
    BY DEF Occurs, is_free, NoPmm
  <2>5. NoPmm.free_pages = 0
    BY DEF NoPmm
  <2> QED BY <2>1, <2>2, <2>3, <2>4, <2>5 DEF FreeAre
<1> QED BY <1>1 DEF MemInit, PagesInv

\* alloc_page and free_page keep the free list, the flags and the caller's pages in step.
LEMMA PagesStep == PagesInv /\ MemNext => PagesInv'
<1> SUFFICES ASSUME PagesInv, MemNext PROVE PagesInv'
  OBVIOUS
<1>1. ASSUME e820' = e820 PROVE Usable' = Usable
  BY <1>1 DEF Usable, Whole, UsableEntries
<1>2. CASE MmInit
  <2>1. e820' = e820 /\ held' = held /\ memory_info' # None /\ pmm' = pmm_init(e820) /\ held = {}
    BY <1>2, MapsAssumption DEF MmInit, PagesInv
  <2>2. FreeAre(pmm_init(e820), Usable)
        /\ pmm_init(e820).total_pages - pmm_init(e820).kernel_pages = Cardinality(Usable)
    BY InitListing, UsableOffered DEF PagesInv
  <2>3. Usable \ held = Usable
    BY <2>1
  <2> QED BY <1>1, <2>1, <2>2, <2>3 DEF PagesInv
<1>3. CASE AllocPage
  <2> DEFINE p == pmm.list.head
             F == Usable \ held
             f == [pmm.flags EXCEPT ![p] = pmm.flags[p] \ {"FREE"}]
             r == [pmm.ref_count EXCEPT ![p] = 1]
             x == pop_front(pmm.list, pmm.links)
             k == Altered(pmm, x, f, r, pmm.free_pages - 1)
  <2>0. e820' = e820 /\ memory_info' = memory_info /\ held' = held \cup {p} /\ ~is_empty(pmm.list)
    BY <1>3 DEF AllocPage
  <2>1. \A G : FreeAre(pmm, G) => p \in G
    <3> TAKE G
    <3>1. ASSUME FreeAre(pmm, G) PROVE p \in G
      <4>1. PICK s : Represents(Frames, pmm.list, pmm.links, s) /\ (\A q \in Frames : Occurs(s, q) <=> q \in G)
        BY <3>1 DEF FreeAre
      <4>2. None \notin Frames
        BY FramesFinite
      <4>3. s # <<>> /\ p = s[1] /\ p \in Frames /\ 1 \in DOMAIN s
        BY <2>0, <4>1, <4>2, HeadOf
      <4> QED BY <4>1, <4>3 DEF Occurs
    <3> QED BY <3>1
  <2>2. /\ memory_info # None /\ FreeAre(pmm, F) /\ p \in F
        /\ pmm.total_pages - pmm.kernel_pages = Cardinality(Usable)
    BY <2>1 DEF PagesInv
  <2>3. /\ pmm \in PmmRecs /\ pmm.flags \in [Frames -> SUBSET {"FREE", "KERNEL", "RESERVED"}]
        /\ pmm.ref_count \in [Frames -> Nat] /\ p \in Frames /\ F \subseteq Frames
    BY <2>2, PmmTyped DEF FreeAre
  <2>4. pmm' = k
    <3>1. /\ Listed(pmm, x).flags = pmm.flags /\ Listed(pmm, x).free_pages = pmm.free_pages
          /\ Listed(pmm, x).ref_count = pmm.ref_count
      BY <2>3 DEF Listed, PmmRecs
    <3>2. pmm' = [Listed(pmm, x) EXCEPT !.flags = [Listed(pmm, x).flags EXCEPT ![p] = @ \ {"FREE"}],
                                       !.ref_count = [Listed(pmm, x).ref_count EXCEPT ![p] = 1],
                                       !.free_pages = Listed(pmm, x).free_pages - 1]
      BY <1>3 DEF AllocPage
    <3> QED BY <3>1, <3>2 DEF Altered
  <2>5. /\ f \in [Frames -> SUBSET {"FREE", "KERNEL", "RESERVED"}]
        /\ \A q \in Frames : "FREE" \in f[q] <=> q # p /\ is_free(pmm, q)
    <3> DEFINE v == pmm.flags[p] \ {"FREE"}
    <3>1. v \in SUBSET {"FREE", "KERNEL", "RESERVED"} /\ "FREE" \notin v
      BY <2>3
    <3>2. f = [pmm.flags EXCEPT ![p] = v]
      OBVIOUS
    <3> HIDE DEF v, f, p
    <3>3. /\ f \in [Frames -> SUBSET {"FREE", "KERNEL", "RESERVED"}]
          /\ \A q \in Frames : f[q] = IF q = p THEN v ELSE pmm.flags[q]
      BY <2>3, <3>1, <3>2, FlagSet
    <3> QED BY <2>3, <3>1, <3>3 DEF is_free
  <2>6. r \in [Frames -> Nat]
    BY <2>3
  <2> HIDE DEF f, r
  <2>7. FreeAre(k, F \ {p}) /\ k.kernel_pages = pmm.kernel_pages /\ k.total_pages = pmm.total_pages
    <3> HIDE DEF F
    <3>1. FreeAre(pmm, F) /\ ~is_empty(pmm.list)
      BY <2>0, <2>2
    <3>2. \A q \in Frames : "FREE" \in f[q] <=> q # pmm.list.head /\ is_free(pmm, q)
      BY <2>5
    <3>3. f \in [Frames -> SUBSET {"FREE", "KERNEL", "RESERVED"}]
      BY <2>5
    <3> QED BY <2>6, <3>1, <3>2, <3>3, PagePopped
  <2>8. F \ {p} = Usable \ held' /\ held' \subseteq Usable
    BY <2>0, <2>2 DEF PagesInv
  <2> HIDE DEF p, F, x, k
  <2> QED BY <1>1, <2>0, <2>2, <2>4, <2>7, <2>8 DEF PagesInv
<1>4. ASSUME NEW addr \in 0..MaxPageFrames * PageSize, FreePage(addr) PROVE PagesInv'
  <2> DEFINE p == addr \div PageSize
             F == Usable \ held
  <2>0. /\ e820' = e820 /\ memory_info' = memory_info /\ memory_info # None /\ held' = held \ {p}
        /\ (p < MaxPageFrames => p \in held \/ is_free(pmm, p)) /\ pmm' = Returned(pmm, addr)
    BY <1>4 DEF FreePage
  <2>1. p \in Nat /\ MaxPageFrames \in Nat /\ Frames = 0..MaxPageFrames - 1
    <3>1. MaxPageFrames \in Nat /\ PageSize \in Nat \ {0} /\ Frames = 0..MaxPageFrames - 1
      BY MemAssumption DEF Frames
    <3>2. addr \in Nat
      OBVIOUS
    <3> QED BY <3>1, <3>2, Divided
  <2> HIDE DEF p
  <2>2. /\ FreeAre(pmm, F) /\ pmm.total_pages - pmm.kernel_pages = Cardinality(Usable)
        /\ held \subseteq Usable /\ Usable \subseteq Frames /\ e820 \in Maps
    BY <2>0 DEF PagesInv, Usable
  <2>3. CASE p >= MaxPageFrames \/ is_free(pmm, p)
    <3>1. pmm' = pmm
      BY <2>0, <2>3 DEF Returned, p
    <3>2. p \notin held
      <4>1. CASE p >= MaxPageFrames
        BY <2>1, <2>2, <4>1
      <4>2. CASE p < MaxPageFrames /\ is_free(pmm, p)
        BY <2>1, <2>2, <4>2 DEF FreeAre
      <4> QED BY <2>1, <2>3, <4>1, <4>2
    <3>3. held' = held
      BY <2>0, <3>2
    <3> QED BY <1>1, <2>0, <2>2, <3>1, <3>3 DEF PagesInv
  <2>4. CASE ~(p >= MaxPageFrames \/ is_free(pmm, p))
    <3> DEFINE f == [pmm.flags EXCEPT ![p] = pmm.flags[p] \cup {"FREE"}]
               r == [pmm.ref_count EXCEPT ![p] = 0]
               x == push_front(pmm.list, pmm.links, p)
               k == Altered(pmm, x, f, r, pmm.free_pages + 1)
    <3>1. p \in held /\ p \in Frames \ F
      BY <2>0, <2>1, <2>2, <2>4
    <3>2. /\ pmm \in PmmRecs /\ pmm.flags \in [Frames -> SUBSET {"FREE", "KERNEL", "RESERVED"}]
          /\ pmm.ref_count \in [Frames -> Nat]
      BY <2>2, PmmTyped DEF FreeAre
    <3>3. pmm' = k
      <4>1. /\ Listed(pmm, x).flags = pmm.flags /\ Listed(pmm, x).free_pages = pmm.free_pages
            /\ Listed(pmm, x).ref_count = pmm.ref_count
        BY <3>2 DEF Listed, PmmRecs
      <4>2. pmm' = [Listed(pmm, x) EXCEPT !.flags = [Listed(pmm, x).flags EXCEPT ![p] = @ \cup {"FREE"}],
                                         !.ref_count = [Listed(pmm, x).ref_count EXCEPT ![p] = 0],
                                         !.free_pages = Listed(pmm, x).free_pages + 1]
        BY <2>0, <2>4 DEF Returned, p
      <4> QED BY <4>1, <4>2 DEF Altered
    <3>4. /\ f \in [Frames -> SUBSET {"FREE", "KERNEL", "RESERVED"}]
          /\ \A q \in Frames : "FREE" \in f[q] <=> q = p \/ is_free(pmm, q)
      <4> DEFINE v == pmm.flags[p] \cup {"FREE"}
      <4>1. v \in SUBSET {"FREE", "KERNEL", "RESERVED"} /\ "FREE" \in v /\ p \in Frames
        BY <3>1, <3>2
      <4>2. f = [pmm.flags EXCEPT ![p] = v]
        OBVIOUS
      <4> HIDE DEF v, f
      <4>3. /\ f \in [Frames -> SUBSET {"FREE", "KERNEL", "RESERVED"}]
            /\ \A q \in Frames : f[q] = IF q = p THEN v ELSE pmm.flags[q]
        BY <3>2, <4>1, <4>2, FlagSet
      <4> QED BY <3>2, <4>1, <4>3 DEF is_free
    <3>5. r \in [Frames -> Nat]
      BY <3>2
    <3> HIDE DEF f, r
    <3>6. FreeAre(k, F \cup {p}) /\ k.kernel_pages = pmm.kernel_pages /\ k.total_pages = pmm.total_pages
      <4> HIDE DEF F
      <4>1. FreeAre(pmm, F)
        BY <2>2
      <4>2. p \in Frames \ F
        BY <3>1
      <4>3. f \in [Frames -> SUBSET {"FREE", "KERNEL", "RESERVED"}]
        BY <3>4
      <4>4. \A q \in Frames : "FREE" \in f[q] <=> q = p \/ is_free(pmm, q)
        BY <3>4
      <4>5. FreeAre(k, F \cup {p})
        BY <3>5, <4>1, <4>2, <4>3, <4>4, PagePushed
      <4>6. k = [flags |-> f, ref_count |-> r, links |-> x.links, list |-> x.list,
                 free_pages |-> pmm.free_pages + 1, kernel_pages |-> pmm.kernel_pages,
                 reserved_pages |-> pmm.reserved_pages, total_pages |-> pmm.total_pages]
        BY <3>2, PmmChanged
      <4>7. k.kernel_pages = pmm.kernel_pages /\ k.total_pages = pmm.total_pages
        <5> HIDE DEF k, x
        <5> QED BY <4>6
      <4> QED BY <4>5, <4>7
    <3>7. F \cup {p} = Usable \ held' /\ held' \subseteq Usable
      BY <2>0, <2>2, <3>1
    <3> HIDE DEF F, x, k
    <3> QED BY <1>1, <2>0, <2>2, <3>3, <3>6, <3>7 DEF PagesInv
  <2> QED BY <2>3, <2>4
<1>5. ASSUME NEW l \in Layouts, HeapAlloc(l) PROVE PagesInv'
  BY <1>1, <1>5 DEF HeapAlloc, PagesInv
<1> QED BY <1>2, <1>3, <1>4, <1>5 DEF MemNext

\* The inductive invariant of the page allocator gives what the run checks.
LEMMA PagesInvExact == PagesInv => PagesExact
<1> SUFFICES ASSUME PagesInv, memory_info # None PROVE PagesExact
  BY DEF PagesExact
<1>1. /\ FreeAre(pmm, Usable \ held) /\ held \subseteq Usable /\ Usable \subseteq Frames
      /\ pmm.total_pages - pmm.kernel_pages = Cardinality(Usable)
  BY DEF PagesInv, Usable
<1>2. PICK s : Represents(Frames, pmm.list, pmm.links, s) /\ \A q \in Frames : Occurs(s, q) <=> q \in Usable \ held
  BY <1>1 DEF FreeAre
<1>3. MaxPageFrames \in Nat /\ None \notin Frames /\ IsFiniteSet(Frames) /\ Cardinality(Frames) = MaxPageFrames
  <2>1. MaxPageFrames \in Nat /\ None \notin Frames /\ Frames = 0..MaxPageFrames - 1
    BY MemAssumption DEF Frames
  <2>2. IsFiniteSet(0..MaxPageFrames - 1) /\ Cardinality(0..MaxPageFrames - 1) = MaxPageFrames
    BY <2>1, FS_Interval
  <2> QED BY <2>1, <2>2
<1>4. s \in Seq(Frames) /\ IsInjective(s) /\ IsList(pmm.list, pmm.links, s)
  BY <1>2 DEF Represents
<1>5. Len(s) <= MaxPageFrames
  BY <1>3, <1>4, InjectiveLength
<1>6. Walk = s
  BY <1>2, <1>3, <1>5, WalkedShows DEF Walk
<1>7. ToSet(s) = Usable \ held
  <2>1. \A q : q \in ToSet(s) <=> Occurs(s, q)
    BY DEF ToSet, Occurs
  <2>2. ToSet(s) \subseteq Frames
    BY <1>4 DEF ToSet
  <2> QED BY <1>1, <1>2, <2>1, <2>2
<1>8. ToSet(s) = {p \in Frames : is_free(pmm, p)}
  BY <1>1, <1>7 DEF FreeAre
<1>9. pmm.free_pages = Cardinality(Usable \ held)
  BY <1>1 DEF FreeAre
<1> QED BY <1>1, <1>4, <1>6, <1>7, <1>8, <1>9 DEF PagesExact, Usable

-----------------------------------------------------------------------------
(* The scheduler.  w is the tasks in each queue, in order; X the tasks that   *)
(* may be ready without waiting in one.                                       *)

TaskRecs == [state : {"Ready", "Running", "Blocked", "Zombie"}, time_slice : Nat]
SchRecs == [tasks   : UNION {[B -> TaskRecs] : B \in SUBSET Tasks},
            queues  : [Priorities -> Lists(Tasks)],
            node    : [Tasks -> Nodes(Tasks)],
            current : Tasks \cup {None},
            ready   : Nat]

Lengths(w) == Len(w[0]) + Len(w[1]) + Len(w[2]) + Len(w[3]) + Len(w[4])

Queued(s, w, X) ==
  /\ s \in SchRecs /\ w \in [Priorities -> Seq(Tasks)]
  /\ \A p \in Priorities : Represents(Tasks, s.queues[p], s.node, w[p])
  /\ \A p \in Priorities, t \in Tasks :
       Occurs(w[p], t) => t \in DOMAIN s.tasks /\ s.tasks[t].state = "Ready" /\ priority[t] = p
  /\ \A t \in DOMAIN s.tasks : s.tasks[t].state = "Ready" => t \in X \/ Occurs(w[priority[t]], t)
  /\ s.ready = Lengths(w)

\* Only the current task runs.
OneRuns(s) == /\ s.current # None => s.current \in DOMAIN s.tasks
              /\ \A t \in DOMAIN s.tasks : s.tasks[t].state = "Running" => t = s.current

\* The parts of the scheduler's record have their types.
LEMMA SchTyped ==
  ASSUME NEW s \in SchRecs
  PROVE  /\ DOMAIN s.tasks \subseteq Tasks
         /\ \A t \in DOMAIN s.tasks : s.tasks[t] \in TaskRecs
         /\ s.tasks \in [DOMAIN s.tasks -> TaskRecs]
         /\ s.queues \in [Priorities -> Lists(Tasks)]
         /\ s.node \in [Tasks -> Nodes(Tasks)]
         /\ s.current \in Tasks \cup {None}
         /\ s.ready \in Nat
BY DEF SchRecs

\* A record with other queues, nodes and ready count, written out.
LEMMA SchChanged ==
  ASSUME NEW s \in SchRecs, NEW a, NEW b, NEW c
  PROVE  [s EXCEPT !.queues = a, !.node = b, !.ready = c] =
           [tasks |-> s.tasks, queues |-> a, node |-> b, current |-> s.current, ready |-> c]
<1> DEFINE T == UNION {[B -> TaskRecs] : B \in SUBSET Tasks}
           Q == [Priorities -> Lists(Tasks)]
           N == [Tasks -> Nodes(Tasks)]
           C == Tasks \cup {None}
<1>1. s \in [tasks : T, queues : Q, node : N, current : C, ready : Nat]
  BY DEF SchRecs
<1> HIDE DEF T, Q, N, C
<1> DEFINE r1 == [s EXCEPT !.queues = a]
           r2 == [r1 EXCEPT !.node = b]
<1>2. r1 = [tasks |-> s.tasks, queues |-> a, node |-> s.node, current |-> s.current, ready |-> s.ready]
  BY <1>1
<1>3. r2 = [tasks |-> s.tasks, queues |-> a, node |-> b, current |-> s.current, ready |-> s.ready]
  <2> HIDE DEF r1
  <2> QED BY <1>2
<1>4. [r2 EXCEPT !.ready = c] = [tasks |-> s.tasks, queues |-> a, node |-> b, current |-> s.current, ready |-> c]
  <2> HIDE DEF r2
  <2> QED BY <1>3
<1>5. [s EXCEPT !.queues = a, !.node = b, !.ready = c] = [r2 EXCEPT !.ready = c]
  OBVIOUS
<1> HIDE DEF r2
<1> QED BY <1>4, <1>5

\* enqueue puts a ready task that waits nowhere at the end of its priority's queue.
LEMMA EnqueueQueued ==
  ASSUME NEW s, NEW w, NEW X, NEW t \in DOMAIN s.tasks, Queued(s, w, X \cup {t}),
         s.tasks[t].state = "Ready",
         \A p \in Priorities : ~Occurs(w[p], t)
  PROVE  /\ Queued(enqueue(s, t), [w EXCEPT ![priority[t]] = Append(w[priority[t]], t)], X)
         /\ enqueue(s, t).tasks = s.tasks /\ enqueue(s, t).current = s.current
         /\ Waiting(enqueue(s, t)) # {}
<1> DEFINE q == priority[t]
           x == push_back(s.queues[q], s.node, t)
           r == enqueue(s, t)
           v == [w EXCEPT ![q] = Append(w[q], t)]
<1>1. /\ None \notin Tasks /\ t \in Tasks /\ q \in Priorities /\ s \in SchRecs
      /\ \A u \in Tasks : priority[u] \in Priorities
  BY SchedAssumption, SchTyped DEF Queued, Priorities
<1>2. /\ r.tasks = s.tasks /\ r.current = s.current /\ r.node = x.links
      /\ r.queues = [s.queues EXCEPT ![q] = x.list] /\ r.ready = s.ready + 1
  BY <1>1, SchTyped DEF enqueue, SchRecs
<1>3. /\ Becomes(Tasks, s.node, x, w[q], Append(w[q], t))
      /\ \A m \in Tasks : Occurs(Append(w[q], t), m) <=> m = t \/ Occurs(w[q], m)
  BY <1>1, PushBackShows DEF Queued
<1>4. x.list \in Lists(Tasks) /\ x.links \in [Tasks -> Nodes(Tasks)] /\ Append(w[q], t) \in Seq(Tasks)
  BY <1>3 DEF Becomes, Represents
<1>5. v \in [Priorities -> Seq(Tasks)]
  BY <1>1, <1>4 DEF Queued
<1>6. r \in SchRecs
  <2>1. r = [tasks |-> s.tasks, queues |-> [s.queues EXCEPT ![q] = x.list], node |-> x.links,
             current |-> s.current, ready |-> s.ready + 1]
    BY <1>1, SchChanged DEF enqueue
  <2> HIDE DEF r, x, q
  <2> QED BY <1>1, <1>4, <2>1, SchTyped DEF SchRecs
<1> HIDE DEF r, x
<1>7. ASSUME NEW p \in Priorities
      PROVE  /\ Represents(Tasks, r.queues[p], r.node, v[p])
             /\ \A u \in Tasks : Occurs(v[p], u) <=> Occurs(w[p], u) \/ (p = q /\ u = t)
  <2>1. CASE p = q
    <3>1. v[p] = Append(w[q], t)
      BY <2>1, <1>1 DEF Queued
    <3>2. r.queues[p] = x.list
      BY <2>1, <1>1, <1>2, SchTyped
    <3> HIDE DEF v, q
    <3> QED BY <2>1, <3>1, <3>2, <1>2, <1>3 DEF Becomes
  <2>2. CASE p # q
    <3>1. v[p] = w[p]
      BY <2>2, <1>1 DEF Queued
    <3>2. r.queues[p] = s.queues[p]
      BY <2>2, <1>1, <1>2, SchTyped
    <3> HIDE DEF v, q
    <3>3. \A m \in Tasks : Occurs(w[p], m) => m # t /\ ~Occurs(w[q], m)
      BY <1>1, <2>2 DEF Queued
    <3>4. \A m \in Tasks : Occurs(w[p], m) => x.links[m] = s.node[m]
      BY <1>3, <3>3 DEF Becomes
    <3>5. Represents(Tasks, s.queues[p], s.node, w[p])
      BY DEF Queued
    <3>6. Represents(Tasks, s.queues[p], x.links, w[p])
      BY <1>1, <1>4, <3>4, <3>5, FrameShows
    <3> QED BY <2>2, <3>1, <3>2, <3>6, <1>2
  <2> QED BY <2>1, <2>2
<1>8. r.ready = Lengths(v)
  <2>1. Len(Append(w[q], t)) = Len(w[q]) + 1 /\ \A p \in Priorities : Len(w[p]) \in Nat
    BY <1>1 DEF Queued
  <2>2. \A p \in Priorities : Len(v[p]) = IF p = q THEN Len(w[p]) + 1 ELSE Len(w[p])
    BY <1>1, <2>1 DEF Queued
  <2>3. s.ready = Lengths(w)
    BY DEF Queued
  <2>4. q = 0 \/ q = 1 \/ q = 2 \/ q = 3 \/ q = 4
    BY <1>1 DEF Priorities
  <2> HIDE DEF v, q
  <2>5. /\ Len(w[0]) \in Nat /\ Len(w[1]) \in Nat /\ Len(w[2]) \in Nat /\ Len(w[3]) \in Nat /\ Len(w[4]) \in Nat
        /\ Len(v[0]) = IF 0 = q THEN Len(w[0]) + 1 ELSE Len(w[0])
        /\ Len(v[1]) = IF 1 = q THEN Len(w[1]) + 1 ELSE Len(w[1])
        /\ Len(v[2]) = IF 2 = q THEN Len(w[2]) + 1 ELSE Len(w[2])
        /\ Len(v[3]) = IF 3 = q THEN Len(w[3]) + 1 ELSE Len(w[3])
        /\ Len(v[4]) = IF 4 = q THEN Len(w[4]) + 1 ELSE Len(w[4])
    BY <2>1, <2>2 DEF Priorities
  <2>6. r.ready = Lengths(w) + 1
    BY <1>2, <2>3
  <2>7. Lengths(v) = Lengths(w) + 1
    <3> DEFINE a0 == Len(w[0])  b0 == Len(v[0])
               a1 == Len(w[1])  b1 == Len(v[1])
               a2 == Len(w[2])  b2 == Len(v[2])
               a3 == Len(w[3])  b3 == Len(v[3])
               a4 == Len(w[4])  b4 == Len(v[4])
    <3>1. Lengths(w) = a0 + a1 + a2 + a3 + a4 /\ Lengths(v) = b0 + b1 + b2 + b3 + b4
      BY DEF Lengths
    <3>2. /\ a0 \in Nat /\ a1 \in Nat /\ a2 \in Nat /\ a3 \in Nat /\ a4 \in Nat
          /\ b0 = IF 0 = q THEN a0 + 1 ELSE a0
          /\ b1 = IF 1 = q THEN a1 + 1 ELSE a1
          /\ b2 = IF 2 = q THEN a2 + 1 ELSE a2
          /\ b3 = IF 3 = q THEN a3 + 1 ELSE a3
          /\ b4 = IF 4 = q THEN a4 + 1 ELSE a4
      BY <2>5
    <3> HIDE DEF a0, a1, a2, a3, a4, b0, b1, b2, b3, b4
    <3> QED BY <2>4, <3>1, <3>2
  <2> QED BY <2>6, <2>7
<1>9. \A p \in Priorities, u \in Tasks :
        Occurs(v[p], u) => u \in DOMAIN r.tasks /\ r.tasks[u].state = "Ready" /\ priority[u] = p
  <2> HIDE DEF v
  <2> QED BY <1>1, <1>2, <1>7 DEF Queued
<1>10. \A u \in DOMAIN r.tasks : r.tasks[u].state = "Ready" => u \in X \/ Occurs(v[priority[u]], u)
  <2> HIDE DEF v
  <2> QED BY <1>1, <1>2, <1>7, SchTyped DEF Queued
<1>11. Waiting(r) # {}
  <2> HIDE DEF v, q
  <2>1. v[q] # <<>>
    BY <1>1, <1>5, <1>7 DEF Occurs
  <2>2. Represents(Tasks, r.queues[q], r.node, v[q])
    BY <1>1, <1>7
  <2>3. ~is_empty(r.queues[q])
    BY <1>1, <2>1, <2>2, HeadOf
  <2> QED BY <1>1, <2>3 DEF Waiting
<1> HIDE DEF v
<1>12. Queued(r, v, X)
  BY <1>5, <1>6, <1>7, <1>8, <1>9, <1>10 DEF Queued
<1> QED BY <1>2, <1>11, <1>12 DEF v, r

(* Another state of the tasks: those that wait are ready, and those that are ready wait or are in Y. *)
LEMMA TasksQueued ==
  ASSUME NEW s, NEW w, NEW X, Queued(s, w, X), NEW Y, NEW D \in SUBSET Tasks, DOMAIN s.tasks \subseteq D,
         NEW T \in [D -> TaskRecs],
         \A u \in DOMAIN s.tasks : (\E p \in Priorities : Occurs(w[p], u)) => T[u].state = "Ready",
         \A u \in D : T[u].state = "Ready" => u \in Y \/ Occurs(w[priority[u]], u)
  PROVE  /\ Queued([s EXCEPT !.tasks = T], w, Y)
         /\ [s EXCEPT !.tasks = T].tasks = T /\ [s EXCEPT !.tasks = T].current = s.current
<1> DEFINE r == [s EXCEPT !.tasks = T]
<1>1. s \in SchRecs
  BY DEF Queued
<1>2. /\ r.tasks = T /\ r.current = s.current /\ r.queues = s.queues /\ r.node = s.node /\ r.ready = s.ready
      /\ r \in SchRecs
  <2> DEFINE A == UNION {[B -> TaskRecs] : B \in SUBSET Tasks}
             Q == [Priorities -> Lists(Tasks)]
             N == [Tasks -> Nodes(Tasks)]
             C == Tasks \cup {None}
  <2>1. T \in A
    OBVIOUS
  <2>2. s \in [tasks : A, queues : Q, node : N, current : C, ready : Nat]
    BY <1>1 DEF SchRecs
  <2> HIDE DEF A, Q, N, C
  <2>3. /\ r.tasks = T /\ r.current = s.current /\ r.queues = s.queues /\ r.node = s.node /\ r.ready = s.ready
        /\ r \in [tasks : A, queues : Q, node : N, current : C, ready : Nat]
    BY <2>1, <2>2
  <2> QED BY <2>3 DEF SchRecs, A, Q, N, C
<1>3. DOMAIN T = D
  OBVIOUS
<1> HIDE DEF r
<1>4. \A p \in Priorities : Represents(Tasks, r.queues[p], r.node, w[p])
  BY <1>2 DEF Queued
<1>5. \A p \in Priorities, t \in Tasks :
       Occurs(w[p], t) => t \in DOMAIN r.tasks /\ r.tasks[t].state = "Ready" /\ priority[t] = p
  BY <1>2, <1>3 DEF Queued
<1>6. Queued(r, w, Y)
  BY <1>2, <1>3, <1>4, <1>5 DEF Queued
<1> QED BY <1>2, <1>6 DEF r

\* When a task waits somewhere, the queue that dequeue looks in is not empty.
LEMMA HighestWaits ==
  ASSUME NEW s, Waiting(s) # {}
  PROVE  Highest(s) \in Waiting(s)
<1>1. \E p \in Waiting(s) : \A q \in Waiting(s) : q <= p
  <2> Waiting(s) \subseteq {0, 1, 2, 3, 4}
    BY DEF Waiting, Priorities
  <2>0. CASE 4 \in Waiting(s)
    BY <2>0
  <2>1. CASE 4 \notin Waiting(s) /\ 3 \in Waiting(s)
    BY <2>1
  <2>2. CASE 4 \notin Waiting(s) /\ 3 \notin Waiting(s) /\ 2 \in Waiting(s)
    BY <2>2
  <2>3. CASE 4 \notin Waiting(s) /\ 3 \notin Waiting(s) /\ 2 \notin Waiting(s) /\ 1 \in Waiting(s)
    BY <2>3
  <2>4. CASE 4 \notin Waiting(s) /\ 3 \notin Waiting(s) /\ 2 \notin Waiting(s) /\ 1 \notin Waiting(s)
    BY <2>4
  <2> QED BY <2>0, <2>1, <2>2, <2>3, <2>4
<1> QED BY <1>1 DEF Highest

\* dequeue takes a ready task that then waits in no queue, and every queue still holds the rest.
LEMMA DequeuedQueued ==
  ASSUME NEW s, NEW w, NEW X, Queued(s, w, X), Waiting(s) # {}
  PROVE  LET d == Dequeued(s)
             t == d.current
         IN  /\ t \in DOMAIN s.tasks /\ s.tasks[t].state = "Ready" /\ d.tasks = s.tasks
             /\ \E v \in [Priorities -> Seq(Tasks)] :
                  Queued(d, v, X \cup {t}) /\ \A p \in Priorities : ~Occurs(v[p], t)
<1> DEFINE q == Highest(s)
           t == s.queues[q].head
           x == pop_front(s.queues[q], s.node)
           d == Dequeued(s)
           v == [w EXCEPT ![q] = Tail(w[q])]
<1>1. /\ None \notin Tasks /\ q \in Priorities /\ s \in SchRecs /\ w \in [Priorities -> Seq(Tasks)]
      /\ \A u \in Tasks : priority[u] \in Priorities
      /\ Represents(Tasks, s.queues[q], s.node, w[q]) /\ ~is_empty(s.queues[q])
  <2>1. q \in Waiting(s)
    BY HighestWaits
  <2> QED BY <2>1, SchedAssumption DEF Queued, Priorities, Waiting
<1> HIDE DEF q
<1>2. w[q] # <<>> /\ t \in Tasks /\ Occurs(w[q], t) /\ Len(w[q]) \in Nat /\ Len(w[q]) > 0
  BY <1>1, HeadOf DEF Occurs
<1>3. t \in DOMAIN s.tasks /\ s.tasks[t].state = "Ready" /\ priority[t] = q
  BY <1>1, <1>2 DEF Queued
<1>4. /\ Becomes(Tasks, s.node, x, w[q], Tail(w[q]))
      /\ \A m \in Tasks : Occurs(Tail(w[q]), m) <=> m # t /\ Occurs(w[q], m)
  BY <1>1, <1>2, PopFrontShows
<1>5. x.list \in Lists(Tasks) /\ x.links \in [Tasks -> Nodes(Tasks)] /\ Tail(w[q]) \in Seq(Tasks)
  BY <1>4 DEF Becomes, Represents
<1>6. /\ Len(Tail(w[q])) = Len(w[q]) - 1
      /\ s.ready \in Nat /\ s.ready = Lengths(w) /\ s.ready > 0
  <2>1. Len(Tail(w[q])) = Len(w[q]) - 1
    BY <1>1, <1>2, HeadTailProperties
  <2>2. s.ready \in Nat /\ s.ready = Lengths(w)
    BY <1>1, SchTyped DEF Queued
  <2>3. Lengths(w) >= Len(w[q])
    <3> DEFINE a0 == Len(w[0])
               a1 == Len(w[1])
               a2 == Len(w[2])
               a3 == Len(w[3])
               a4 == Len(w[4])
    <3>1. Lengths(w) = a0 + a1 + a2 + a3 + a4
      BY DEF Lengths
    <3>2. a0 \in Nat /\ a1 \in Nat /\ a2 \in Nat /\ a3 \in Nat /\ a4 \in Nat
      BY <1>1 DEF Priorities
    <3>3. Len(w[q]) = a0 \/ Len(w[q]) = a1 \/ Len(w[q]) = a2 \/ Len(w[q]) = a3 \/ Len(w[q]) = a4
      BY <1>1 DEF Priorities
    <3> HIDE DEF a0, a1, a2, a3, a4
    <3> QED BY <3>1, <3>2, <3>3
  <2> QED BY <1>2, <2>1, <2>2, <2>3
<1>7. d = [tasks |-> s.tasks, queues |-> [s.queues EXCEPT ![q] = x.list], node |-> x.links,
           current |-> t, ready |-> s.ready - 1]
  <2> DEFINE r == [s EXCEPT !.queues = [s.queues EXCEPT ![q] = x.list], !.node = x.links, !.ready = s.ready - 1]
  <2>1. d = [r EXCEPT !.current = t]
    BY DEF Dequeued, q
  <2>2. r = [tasks |-> s.tasks, queues |-> [s.queues EXCEPT ![q] = x.list], node |-> x.links,
             current |-> s.current, ready |-> s.ready - 1]
    BY <1>1, SchChanged
  <2> HIDE DEF r, x, t
  <2> QED BY <2>1, <2>2
<1>8. d.tasks = s.tasks /\ d.current = t /\ d.node = x.links /\ d.ready = s.ready - 1
      /\ d.queues = [s.queues EXCEPT ![q] = x.list]
  <2> HIDE DEF d, x, t
  <2> QED BY <1>7
<1>9. d \in SchRecs
  <2> HIDE DEF d, x, t
  <2> QED BY <1>1, <1>2, <1>5, <1>6, <1>7, SchTyped DEF SchRecs
<1>10. v \in [Priorities -> Seq(Tasks)]
  BY <1>1, <1>5
<1> HIDE DEF d, x, t
<1>11. ASSUME NEW p \in Priorities
       PROVE  /\ Represents(Tasks, d.queues[p], d.node, v[p])
              /\ \A u \in Tasks : Occurs(v[p], u) <=> Occurs(w[p], u) /\ u # t
              /\ Len(v[p]) = IF p = q THEN Len(w[p]) - 1 ELSE Len(w[p])
  <2>1. CASE p = q
    <3>1. v[p] = Tail(w[q])
      BY <2>1, <1>1
    <3>2. d.queues[p] = x.list
      BY <2>1, <1>1, <1>8, SchTyped
    <3> HIDE DEF v
    <3> QED BY <2>1, <3>1, <3>2, <1>8, <1>4, <1>6 DEF Becomes
  <2>2. CASE p # q
    <3>1. v[p] = w[p]
      BY <2>2, <1>1
    <3>2. d.queues[p] = s.queues[p]
      BY <2>2, <1>1, <1>8, SchTyped
    <3> HIDE DEF v
    <3>3. \A m \in Tasks : Occurs(w[p], m) => m # t /\ ~Occurs(w[q], m)
      BY <1>1, <1>3, <2>2 DEF Queued
    <3>4. \A m \in Tasks : Occurs(w[p], m) => x.links[m] = s.node[m]
      BY <1>4, <3>3 DEF Becomes
    <3>5. Represents(Tasks, s.queues[p], s.node, w[p])
      BY DEF Queued
    <3>6. Represents(Tasks, s.queues[p], x.links, w[p])
      BY <1>1, <1>5, <3>4, <3>5, FrameShows
    <3> QED BY <2>2, <3>1, <3>2, <3>3, <3>6, <1>8
  <2> QED BY <2>1, <2>2
<1> HIDE DEF v
<1>12. d.ready = Lengths(v)
  <2> DEFINE a0 == Len(w[0])  b0 == Len(v[0])
             a1 == Len(w[1])  b1 == Len(v[1])
             a2 == Len(w[2])  b2 == Len(v[2])
             a3 == Len(w[3])  b3 == Len(v[3])
             a4 == Len(w[4])  b4 == Len(v[4])
  <2>1. Lengths(w) = a0 + a1 + a2 + a3 + a4 /\ Lengths(v) = b0 + b1 + b2 + b3 + b4
    BY DEF Lengths
  <2>2. a0 \in Nat /\ a1 \in Nat /\ a2 \in Nat /\ a3 \in Nat /\ a4 \in Nat
    BY <1>1 DEF Priorities
  <2>3. /\ b0 = IF 0 = q THEN a0 - 1 ELSE a0
        /\ b1 = IF 1 = q THEN a1 - 1 ELSE a1
        /\ b2 = IF 2 = q THEN a2 - 1 ELSE a2
        /\ b3 = IF 3 = q THEN a3 - 1 ELSE a3
        /\ b4 = IF 4 = q THEN a4 - 1 ELSE a4
    BY <1>11 DEF Priorities
  <2>4. q = 0 \/ q = 1 \/ q = 2 \/ q = 3 \/ q = 4
    BY <1>1 DEF Priorities
  <2> HIDE DEF a0, a1, a2, a3, a4, b0, b1, b2, b3, b4
  <2> QED BY <1>6, <1>8, <2>1, <2>2, <2>3, <2>4
<1>13. \A p \in Priorities, u \in Tasks :
         Occurs(v[p], u) => u \in DOMAIN d.tasks /\ d.tasks[u].state = "Ready" /\ priority[u] = p
  BY <1>8, <1>11 DEF Queued
<1>14. \A u \in DOMAIN d.tasks : d.tasks[u].state = "Ready" => u \in X \cup {t} \/ Occurs(v[priority[u]], u)
  BY <1>1, <1>8, <1>11, SchTyped DEF Queued
<1>15. Queued(d, v, X \cup {t})
  BY <1>9, <1>10, <1>11, <1>12, <1>13, <1>14 DEF Queued
<1>16. \A p \in Priorities : ~Occurs(v[p], t)
  BY <1>2, <1>11
<1> QED BY <1>3, <1>8, <1>10, <1>15, <1>16 DEF d

Off == {"Blocked", "Zombie"}
\* The idle task never stops.
IdleOn(s) == Idle \in DOMAIN s.tasks => s.tasks[Idle].state \notin Off
Sound(s) == OneRuns(s) /\ IdleOn(s) /\ \E w : Queued(s, w, {Idle})

\* s has become r, and the tasks that had stopped are as they were.
Passed(s, r) == /\ DOMAIN r.tasks = DOMAIN s.tasks
                /\ \A u \in DOMAIN s.tasks : s.tasks[u].state \in Off => r.tasks[u].state = s.tasks[u].state

\* A new task's record has its type.
LEMMA NewTaskTyped == NewTask \in TaskRecs
BY SchedAssumption DEF NewTask, TaskRecs

\* schedule puts a running task back in its queue before it picks the next one.
LEMMA PutBackSound ==
  ASSUME NEW s, Sound(s)
  PROVE  LET b == PutBack(s)
         IN  /\ \E w : Queued(b, w, {Idle})
             /\ IdleOn(b) /\ Passed(s, b)
             /\ \A u \in DOMAIN b.tasks : b.tasks[u].state # "Running"
             /\ b = s \/ Waiting(b) # {}
<1> DEFINE b == PutBack(s)
           c == s.current
<1> SUFFICES /\ \E w : Queued(b, w, {Idle})
             /\ IdleOn(b) /\ Passed(s, b)
             /\ \A u \in DOMAIN b.tasks : b.tasks[u].state # "Running"
             /\ b = s \/ Waiting(b) # {}
  OBVIOUS
<1>0. PICK w : Queued(s, w, {Idle})
  BY DEF Sound
<1>1. /\ s \in SchRecs /\ DOMAIN s.tasks \subseteq Tasks /\ s.tasks \in [DOMAIN s.tasks -> TaskRecs]
      /\ DOMAIN s.tasks \in SUBSET Tasks /\ DOMAIN s.tasks \subseteq DOMAIN s.tasks
  BY <1>0, SchTyped DEF Queued
<1>2. CASE c = None \/ s.tasks[c].state # "Running"
  <2>1. b = s
    BY <1>2 DEF PutBack
  <2>2. \A u \in DOMAIN s.tasks : s.tasks[u].state # "Running"
    <3>1. None \notin Tasks
      BY SchedAssumption
    <3> QED BY <1>1, <1>2, <3>1 DEF Sound, OneRuns
  <2> HIDE DEF b
  <2> QED BY <1>0, <2>1, <2>2 DEF Sound, Passed
<1>3. CASE ~(c = None \/ s.tasks[c].state # "Running")
  <2> DEFINE T == [s.tasks EXCEPT ![c] = NewTask]
             m == [s EXCEPT !.tasks = T]
  <2>0. c \in DOMAIN s.tasks /\ c \in Tasks /\ s.tasks[c].state = "Running"
    BY <1>1, <1>3 DEF Sound, OneRuns
  <2>1. b = enqueue(m, c)
    BY <1>3 DEF PutBack
  <2>2. T \in [DOMAIN s.tasks -> TaskRecs] /\ \A u \in DOMAIN s.tasks : T[u] = IF u = c THEN NewTask ELSE s.tasks[u]
    BY <1>1, NewTaskTyped
  <2>3. NewTask.state = "Ready"
    BY DEF NewTask
  <2>4. \A p \in Priorities : ~Occurs(w[p], c)
    BY <1>0, <2>0 DEF Queued
  <2> HIDE DEF T
  <2>5. \A u \in DOMAIN s.tasks : (\E p \in Priorities : Occurs(w[p], u)) => T[u].state = "Ready"
    BY <1>0, <1>1, <2>2, <2>3 DEF Queued
  <2>6. \A u \in DOMAIN s.tasks : T[u].state = "Ready" => u \in {Idle} \cup {c} \/ Occurs(w[priority[u]], u)
    BY <1>0, <2>2 DEF Queued
  <2>7. Queued(m, w, {Idle} \cup {c}) /\ m.tasks = T /\ m.current = c
    <3> DEFINE D == DOMAIN s.tasks
               Y == {Idle} \cup {c}
    <3>1. D \in SUBSET Tasks /\ DOMAIN s.tasks \subseteq D /\ T \in [D -> TaskRecs]
      BY <1>1, <2>2
    <3>2. \A u \in D : T[u].state = "Ready" => u \in Y \/ Occurs(w[priority[u]], u)
      BY <2>6
    <3> HIDE DEF D, Y
    <3>3. Queued(m, w, Y) /\ m.tasks = T /\ m.current = s.current
      <4> HIDE DEF b, c
      <4>1. Queued(s, w, {Idle})
        BY <1>0
      <4>2. Queued([s EXCEPT !.tasks = T], w, Y)
        BY <4>1, <2>5, <3>1, <3>2, TasksQueued
      <4>3. [s EXCEPT !.tasks = T].tasks = T /\ [s EXCEPT !.tasks = T].current = s.current
        BY <4>1, <2>5, <3>1, <3>2, TasksQueued
      <4> QED BY <4>2, <4>3
    <3> QED BY <3>3 DEF Y
  <2>8. DOMAIN T = DOMAIN s.tasks
    BY <2>2
  <2> HIDE DEF m
  <2>9. c \in DOMAIN m.tasks /\ m.tasks[c].state = "Ready"
    BY <2>0, <2>2, <2>3, <2>7, <2>8
  <2>10. /\ Queued(enqueue(m, c), [w EXCEPT ![priority[c]] = Append(w[priority[c]], c)], {Idle})
         /\ enqueue(m, c).tasks = m.tasks /\ Waiting(enqueue(m, c)) # {}
    BY <2>4, <2>7, <2>9, EnqueueQueued
  <2> HIDE DEF b
  <2>11. b.tasks = T
    BY <2>1, <2>7, <2>10
  <2>12. IdleOn(b)
    BY <2>0, <2>2, <2>3, <2>8, <2>11 DEF Sound, IdleOn, Off
  <2>13. Passed(s, b)
    BY <2>0, <2>2, <2>8, <2>11 DEF Passed, Off
  <2>14. \A u \in DOMAIN b.tasks : b.tasks[u].state # "Running"
    BY <2>2, <2>3, <2>8, <2>11 DEF Sound, OneRuns
  <2> QED BY <2>1, <2>10, <2>12, <2>13, <2>14
<1> HIDE DEF b, c
<1> QED BY <1>2, <1>3 DEF b

\* Naming another current task changes no queue.
LEMMA CurrentQueued ==
  ASSUME NEW s, NEW w, NEW X, Queued(s, w, X), NEW t \in Tasks
  PROVE  LET r == [s EXCEPT !.current = t]
         IN  Queued(r, w, X) /\ r.tasks = s.tasks /\ r.current = t
<1> DEFINE r == [s EXCEPT !.current = t]
<1>1. s \in SchRecs
  BY DEF Queued
<1>2. /\ r.tasks = s.tasks /\ r.current = t /\ r.queues = s.queues /\ r.node = s.node /\ r.ready = s.ready
      /\ r \in SchRecs
  <2> DEFINE A == UNION {[B -> TaskRecs] : B \in SUBSET Tasks}
             Q == [Priorities -> Lists(Tasks)]
             N == [Tasks -> Nodes(Tasks)]
             C == Tasks \cup {None}
  <2>1. t \in C
    OBVIOUS
  <2>2. s \in [tasks : A, queues : Q, node : N, current : C, ready : Nat]
    BY <1>1 DEF SchRecs
  <2> HIDE DEF A, Q, N, C
  <2>3. /\ r.tasks = s.tasks /\ r.current = t /\ r.queues = s.queues /\ r.node = s.node /\ r.ready = s.ready
        /\ r \in [tasks : A, queues : Q, node : N, current : C, ready : Nat]
    BY <2>1, <2>2
  <2> QED BY <2>3 DEF SchRecs, A, Q, N, C
<1> HIDE DEF r
<1>3. Queued(r, w, X)
  BY <1>2 DEF Queued
<1> QED BY <1>2, <1>3 DEF r

(* The task that was picked, t, begins to run. *)
LEMMA RunSound ==
  ASSUME NEW d, NEW v, Queued(d, v, {Idle} \cup {d.current}), d.current \in DOMAIN d.tasks,
         d.tasks[d.current].state = "Ready",
         \A p \in Priorities : ~Occurs(v[p], d.current),
         IdleOn(d), \A u \in DOMAIN d.tasks : d.tasks[u].state # "Running"
  PROVE  LET r == [d EXCEPT !.tasks[d.current].state = "Running"]
         IN  Sound(r) /\ Passed(d, r)
<1> DEFINE t == d.current
           T == [d.tasks EXCEPT ![t] = [d.tasks[t] EXCEPT !.state = "Running"]]
           r == [d EXCEPT !.tasks = T]
<1>1. /\ d \in SchRecs /\ DOMAIN d.tasks \subseteq Tasks /\ d.tasks \in [DOMAIN d.tasks -> TaskRecs]
      /\ DOMAIN d.tasks \in SUBSET Tasks /\ DOMAIN d.tasks \subseteq DOMAIN d.tasks
  BY SchTyped DEF Queued
<1>2. [d.tasks[t] EXCEPT !.state = "Running"] \in TaskRecs /\ [d.tasks[t] EXCEPT !.state = "Running"].state = "Running"
  <2>1. d.tasks[t] \in TaskRecs
    BY <1>1
  <2> QED BY <2>1 DEF TaskRecs
<1>3. /\ T \in [DOMAIN d.tasks -> TaskRecs] /\ DOMAIN T = DOMAIN d.tasks
      /\ \A u \in DOMAIN d.tasks : T[u].state = IF u = t THEN "Running" ELSE d.tasks[u].state
  BY <1>1, <1>2
<1> HIDE DEF T
<1>4. \A u \in DOMAIN d.tasks : (\E p \in Priorities : Occurs(v[p], u)) => T[u].state = "Ready"
  BY <1>1, <1>3 DEF Queued
<1>5. \A u \in DOMAIN d.tasks : T[u].state = "Ready" => u \in {Idle} \/ Occurs(v[priority[u]], u)
  BY <1>3 DEF Queued
<1>6. Queued(r, v, {Idle}) /\ r.tasks = T /\ r.current = t
  <2> DEFINE D == DOMAIN d.tasks
             Y == {Idle}
  <2>1. D \in SUBSET Tasks /\ DOMAIN d.tasks \subseteq D /\ T \in [D -> TaskRecs]
    BY <1>1, <1>3
  <2>2. \A u \in D : T[u].state = "Ready" => u \in Y \/ Occurs(v[priority[u]], u)
    BY <1>5
  <2> HIDE DEF D, Y
  <2>3. d \in SchRecs /\ Queued(d, v, {Idle} \cup {d.current})
    BY <1>1
  <2>4. Queued(r, v, Y)
    BY <1>4, <2>1, <2>2, <2>3, TasksQueued
  <2>5. r.tasks = T /\ r.current = d.current
    BY <1>4, <2>1, <2>2, <2>3, TasksQueued
  <2> QED BY <2>4, <2>5 DEF Y
<1>7. [d EXCEPT !.tasks[d.current].state = "Running"] = r
  BY DEF T
<1> HIDE DEF r, t
<1>8. OneRuns(r)
  BY <1>3, <1>6 DEF OneRuns, t
<1>9. IdleOn(r)
  BY <1>3, <1>6 DEF IdleOn, Off
<1>10. Passed(d, r)
  BY <1>3, <1>6 DEF Passed, Off, t
<1> QED BY <1>6, <1>7, <1>8, <1>9, <1>10 DEF Sound

\* schedule leaves one running task, the current one, and every other ready task queued once.
LEMMA ScheduleSound ==
  ASSUME NEW s, Sound(s)
  PROVE  Sound(schedule(s)) /\ Passed(s, schedule(s))
<1> DEFINE b == PutBack(s)
           k == pick_next(b)
<1>1. /\ \E w : Queued(b, w, {Idle})
      /\ IdleOn(b) /\ Passed(s, b)
      /\ \A u \in DOMAIN b.tasks : b.tasks[u].state # "Running"
      /\ b = s \/ Waiting(b) # {}
  BY PutBackSound
<1>2. schedule(s) = IF k.current = None THEN s ELSE [k EXCEPT !.tasks[k.current].state = "Running"]
  BY DEF schedule
<1>3. Passed(s, s)
  BY DEF Passed
<1>4. None \notin Tasks /\ Idle \in Tasks
  BY SchedAssumption
<1> HIDE DEF b, k
<1>5. PICK w : Queued(b, w, {Idle})
  BY <1>1
<1>6. b \in SchRecs /\ DOMAIN b.tasks \subseteq Tasks
  BY <1>5, SchTyped DEF Queued
<1>7. SUFFICES ASSUME k.current # None
               PROVE  LET r == [k EXCEPT !.tasks[k.current].state = "Running"] IN Sound(r) /\ Passed(s, r)
  BY <1>2, <1>3
<1>8. CASE Waiting(b) # {}
  <2>1. k = Dequeued(b)
    BY <1>8 DEF k, pick_next
  <2>2. /\ k.current \in DOMAIN b.tasks /\ b.tasks[k.current].state = "Ready" /\ k.tasks = b.tasks
        /\ \E v \in [Priorities -> Seq(Tasks)] :
             Queued(k, v, {Idle} \cup {k.current}) /\ \A p \in Priorities : ~Occurs(v[p], k.current)
    BY <1>5, <1>8, <2>1, DequeuedQueued
  <2>3. PICK v : Queued(k, v, {Idle} \cup {k.current}) /\ \A p \in Priorities : ~Occurs(v[p], k.current)
    BY <2>2
  <2> DEFINE r == [k EXCEPT !.tasks[k.current].state = "Running"]
  <2>4. IdleOn(k) /\ \A u \in DOMAIN k.tasks : k.tasks[u].state # "Running"
    BY <1>1, <2>2 DEF IdleOn
  <2>5. Sound(r) /\ Passed(k, r)
    BY <2>2, <2>3, <2>4, RunSound
  <2> HIDE DEF r
  <2>6. Passed(s, r)
    BY <1>1, <2>2, <2>5 DEF Passed
  <2> QED BY <2>5, <2>6 DEF r
<1>9. CASE Waiting(b) = {}
  <2>1. Idle \in DOMAIN b.tasks
    BY <1>9, <1>7 DEF k, pick_next
  <2>2. k = [b EXCEPT !.current = Idle]
    BY <1>9, <2>1 DEF k, pick_next
  <2>3. Queued(k, w, {Idle}) /\ k.tasks = b.tasks /\ k.current = Idle
    BY <1>4, <1>5, <2>2, CurrentQueued
  <2>4. \A p \in Priorities : ~Occurs(w[p], Idle)
    <3> TAKE p \in Priorities
    <3>1. Represents(Tasks, b.queues[p], b.node, w[p]) /\ is_empty(b.queues[p])
      BY <1>5, <1>9 DEF Queued, Waiting
    <3>2. w[p] = <<>>
      BY <1>4, <3>1, HeadOf
    <3> QED BY <3>2 DEF Occurs
  <2>5. b.tasks[Idle].state = "Ready"
    <3>1. b.tasks[Idle] \in TaskRecs
      BY <1>6, <2>1, SchTyped
    <3>2. b.tasks[Idle].state \in {"Ready", "Running", "Blocked", "Zombie"}
      BY <3>1 DEF TaskRecs
    <3> QED BY <1>1, <2>1, <3>2 DEF IdleOn, Off
  <2>6. {Idle} \cup {k.current} = {Idle}
    BY <2>3
  <2> DEFINE r == [k EXCEPT !.tasks[k.current].state = "Running"]
  <2>7. IdleOn(k) /\ \A u \in DOMAIN k.tasks : k.tasks[u].state # "Running"
    BY <1>1, <2>3 DEF IdleOn
  <2>8. /\ Queued(k, w, {Idle} \cup {k.current}) /\ k.current \in DOMAIN k.tasks
        /\ k.tasks[k.current].state = "Ready" /\ \A p \in Priorities : ~Occurs(w[p], k.current)
    BY <2>1, <2>3, <2>4, <2>5, <2>6
  <2>9. Sound(r) /\ Passed(k, r)
    BY <2>7, <2>8, RunSound
  <2> HIDE DEF r
  <2>10. Passed(s, r)
    BY <1>1, <2>3, <2>9 DEF Passed
  <2> QED BY <2>9, <2>10 DEF r
<1> QED BY <1>8, <1>9

SchedInv == Sound(Sch) /\ stopped \subseteq Born /\ \A t \in stopped : tasks[t].state \in Off

\* A record that satisfies the invariant, written back to the variables, is the invariant's next state.
LEMMA BecomeInv ==
  ASSUME NEW r, Sound(r), Become(r), \A t \in stopped' : t \in DOMAIN r.tasks /\ r.tasks[t].state \in Off
  PROVE  SchedInv'
<1>1. r \in SchRecs
  BY DEF Sound, Queued
<1>2. Sch' = r
  <2>1. r = [tasks |-> r.tasks, queues |-> r.queues, node |-> r.node, current |-> r.current, ready |-> r.ready]
    BY <1>1 DEF SchRecs
  <2> QED BY <2>1 DEF Become, Sch
<1>3. tasks' = r.tasks
  BY DEF Become
<1> QED BY <1>2, <1>3 DEF SchedInv, Born

\* What Sound says of the variables.
LEMMA SchFacts ==
  ASSUME SchedInv
  PROVE  /\ Sch \in SchRecs /\ Sch.tasks = tasks /\ Sch.current = current
         /\ Born \in SUBSET Tasks /\ tasks \in [Born -> TaskRecs]
         /\ current # None => current \in Born
         /\ \A t \in Born : tasks[t].state = "Running" => t = current
         /\ Sound(Sch)
         /\ \A t \in stopped : t \in Born /\ tasks[t].state \in Off
<1>1. Sch \in SchRecs
  BY DEF SchedInv, Sound, Queued
<1>2. Sch.tasks = tasks /\ Sch.current = current
  BY DEF Sch
<1>3. Born \in SUBSET Tasks /\ tasks \in [Born -> TaskRecs]
  BY <1>1, <1>2, SchTyped DEF Born
<1> QED BY <1>1, <1>2, <1>3 DEF SchedInv, Sound, OneRuns, Born

\* Spawning a task queues it and keeps the rest.
LEMMA SpawnInv ==
  ASSUME SchedInv, NEW t \in Tasks, Spawn(t)
  PROVE  SchedInv'
<1> DEFINE D == Born \cup {t}
           T == [u \in D |-> IF u = t THEN NewTask ELSE tasks[u]]
           m == [Sch EXCEPT !.tasks = T]
           r == IF t = Idle THEN m ELSE enqueue(m, t)
           Y == {Idle} \cup {t}
<1>0. PICK w : Queued(Sch, w, {Idle})
  BY DEF SchedInv, Sound
<1>1. t \notin Born /\ Become(r) /\ stopped' = stopped
  BY DEF Spawn, Born
<1>2. /\ D \in SUBSET Tasks /\ DOMAIN Sch.tasks \subseteq D /\ T \in [D -> TaskRecs] /\ DOMAIN T = D
      /\ \A u \in D : T[u] = IF u = t THEN NewTask ELSE tasks[u]
  BY SchFacts, NewTaskTyped DEF Born
<1>3. NewTask.state = "Ready"
  BY DEF NewTask
<1>4. ASSUME NEW p \in Priorities, NEW u \in Tasks, Occurs(w[p], u)
      PROVE  u \in Born /\ u # t /\ tasks[u].state = "Ready"
  <2>1. u \in DOMAIN Sch.tasks /\ Sch.tasks[u].state = "Ready"
    BY <1>0, <1>4 DEF Queued
  <2> QED BY <1>1, <2>1, SchFacts DEF Born
<1>h. \A p \in Priorities : ~Occurs(w[p], t)
  BY <1>4
<1> HIDE DEF D, T
<1>5. \A u \in DOMAIN Sch.tasks : (\E p \in Priorities : Occurs(w[p], u)) => T[u].state = "Ready"
  BY <1>2, <1>4, SchFacts DEF Born
<1>6. \A u \in D : T[u].state = "Ready" => u \in Y \/ Occurs(w[priority[u]], u)
  BY <1>0, <1>2, SchFacts DEF Queued, D, Born
<1>7. Queued(m, w, Y) /\ m.tasks = T /\ m.current = Sch.current
  <2> HIDE DEF Y
  <2>1. Queued([Sch EXCEPT !.tasks = T], w, Y)
    BY <1>0, <1>2, <1>5, <1>6, TasksQueued
  <2>2. [Sch EXCEPT !.tasks = T].tasks = T /\ [Sch EXCEPT !.tasks = T].current = Sch.current
    BY <1>0, <1>2, <1>5, <1>6, TasksQueued
  <2> QED BY <2>1, <2>2
<1> HIDE DEF m
<1>8. /\ r.tasks = T /\ r.current = Sch.current
      /\ \E v : Queued(r, v, {Idle})
  <2>1. CASE t = Idle
    <3>1. Y = {Idle} /\ r = m
      BY <2>1
    <3> QED BY <3>1, <1>7
  <2>2. CASE t # Idle
    <3>1. t \in DOMAIN m.tasks /\ m.tasks[t].state = "Ready"
      BY <1>2, <1>3, <1>7 DEF D
    <3>2. /\ Queued(enqueue(m, t), [w EXCEPT ![priority[t]] = Append(w[priority[t]], t)], {Idle})
          /\ enqueue(m, t).tasks = m.tasks /\ enqueue(m, t).current = m.current
      BY <3>1, <1>7, <1>h, EnqueueQueued
    <3> HIDE DEF Y
    <3> QED BY <2>2, <3>2, <1>7
  <2> QED BY <2>1, <2>2
<1> HIDE DEF r
<1>9. Sound(r)
  <2>1. OneRuns(r)
    BY <1>2, <1>3, <1>8, SchFacts DEF OneRuns, D
  <2>2. IdleOn(r)
    BY <1>2, <1>3, <1>8, SchFacts DEF IdleOn, SchedInv, Sound, D, Off
  <2> QED BY <1>8, <2>1, <2>2 DEF Sound
<1>10. \A u \in stopped' : u \in DOMAIN r.tasks /\ r.tasks[u].state \in Off
  BY <1>1, <1>2, <1>8, SchFacts DEF D
<1> QED BY <1>1, <1>9, <1>10, BecomeInv

\* A timer tick takes one from the time slice, and schedules when none is left.
LEMMA TimerTickInv ==
  ASSUME SchedInv, TimerTick
  PROVE  SchedInv'
<1> DEFINE left == IF tasks[current].time_slice > 0 THEN tasks[current].time_slice - 1 ELSE 0
           T == [tasks EXCEPT ![current] = [tasks[current] EXCEPT !.time_slice = left]]
           s == [Sch EXCEPT !.tasks = T]
           r == IF left = 0 THEN schedule(s) ELSE s
<1>0. PICK w : Queued(Sch, w, {Idle})
  BY DEF SchedInv, Sound
<1>1. current # None /\ Become(r) /\ stopped' = stopped
  <2>1. Sch.tasks = tasks
    BY SchFacts
  <2>2. [Sch EXCEPT !.tasks[current].time_slice = left] = s
    BY <2>1
  <2> QED BY <2>2 DEF TimerTick
<1>2. /\ T \in [Born -> TaskRecs] /\ DOMAIN T = Born
      /\ \A u \in Born : T[u].state = tasks[u].state
  <2>1. current \in Born /\ tasks[current] \in TaskRecs /\ tasks \in [Born -> TaskRecs]
    BY <1>1, SchFacts
  <2>2. tasks[current].time_slice \in Nat
    BY <2>1 DEF TaskRecs
  <2>3. left \in Nat
    BY <2>2
  <2> HIDE DEF left
  <2>4. /\ [tasks[current] EXCEPT !.time_slice = left] \in TaskRecs
        /\ [tasks[current] EXCEPT !.time_slice = left].state = tasks[current].state
    BY <2>1, <2>3 DEF TaskRecs
  <2> QED BY <2>1, <2>4
<1> HIDE DEF T
<1>3. Queued(s, w, {Idle}) /\ s.tasks = T /\ s.current = current
  <2> DEFINE Y == {Idle}
  <2>1. Born \in SUBSET Tasks /\ DOMAIN Sch.tasks \subseteq Born
    BY SchFacts DEF Born
  <2>2. \A u \in DOMAIN Sch.tasks : (\E p \in Priorities : Occurs(w[p], u)) => T[u].state = "Ready"
    BY <1>0, <1>2, <2>1, SchFacts DEF Queued
  <2>3. \A u \in Born : T[u].state = "Ready" => u \in Y \/ Occurs(w[priority[u]], u)
    BY <1>0, <1>2, SchFacts DEF Queued, Born
  <2> HIDE DEF Y
  <2>4. Queued([Sch EXCEPT !.tasks = T], w, Y)
    BY <1>0, <1>2, <2>1, <2>2, <2>3, TasksQueued
  <2>5. [Sch EXCEPT !.tasks = T].tasks = T /\ [Sch EXCEPT !.tasks = T].current = Sch.current
    BY <1>0, <1>2, <2>1, <2>2, <2>3, TasksQueued
  <2> QED BY <2>4, <2>5, SchFacts DEF Y
<1> HIDE DEF s
<1>4. Sound(s)
  <2>1. OneRuns(s)
    BY <1>2, <1>3, SchFacts DEF OneRuns
  <2>2. IdleOn(s)
    BY <1>2, <1>3, SchFacts DEF IdleOn, SchedInv, Sound
  <2> QED BY <1>3, <2>1, <2>2 DEF Sound
<1>5. Sound(r) /\ Passed(s, r)
  BY <1>4, ScheduleSound DEF Passed
<1> HIDE DEF r
<1>6. \A u \in stopped' : u \in DOMAIN r.tasks /\ r.tasks[u].state \in Off
  BY <1>1, <1>2, <1>3, <1>5, SchFacts DEF Passed
<1> QED BY <1>1, <1>5, <1>6, BecomeInv

\* yield schedules with the running task put back.
LEMMA YieldInv ==
  ASSUME SchedInv, Yield
  PROVE  SchedInv'
<1>1. Sound(schedule(Sch)) /\ Passed(Sch, schedule(Sch))
  BY ScheduleSound DEF SchedInv
<1>2. \A u \in stopped' : u \in DOMAIN schedule(Sch).tasks /\ schedule(Sch).tasks[u].state \in Off
  BY <1>1, SchFacts DEF Yield, Passed, Born
<1> QED BY <1>1, <1>2, BecomeInv DEF Yield

\* A task that blocks or exits leaves the scheduler sound, with itself in no queue.
LEMMA StopInv ==
  ASSUME SchedInv, NEW state \in Off, Stop(state)
  PROVE  SchedInv'
<1> DEFINE T == [tasks EXCEPT ![current] = [tasks[current] EXCEPT !.state = state]]
           s == [Sch EXCEPT !.tasks = T]
           r == schedule(s)
<1>0. PICK w : Queued(Sch, w, {Idle})
  BY DEF SchedInv, Sound
<1>1. /\ current # None /\ current # Idle /\ tasks[current].state = "Running"
      /\ Become(r) /\ stopped' = stopped \cup {current}
  <2>1. Sch.tasks = tasks
    BY SchFacts
  <2>2. [Sch EXCEPT !.tasks[current].state = state] = s
    BY <2>1
  <2> QED BY <2>2 DEF Stop
<1>2. /\ T \in [Born -> TaskRecs] /\ DOMAIN T = Born /\ current \in Born
      /\ \A u \in Born : T[u].state = IF u = current THEN state ELSE tasks[u].state
  <2>1. current \in Born /\ tasks[current] \in TaskRecs /\ tasks \in [Born -> TaskRecs]
    BY <1>1, SchFacts
  <2>2. /\ [tasks[current] EXCEPT !.state = state] \in TaskRecs
        /\ [tasks[current] EXCEPT !.state = state].state = state
    BY <2>1 DEF TaskRecs, Off
  <2> QED BY <2>1, <2>2
<1> HIDE DEF T
<1>3. Queued(s, w, {Idle}) /\ s.tasks = T /\ s.current = current
  <2> DEFINE Y == {Idle}
  <2>1. Born \in SUBSET Tasks /\ DOMAIN Sch.tasks \subseteq Born
    BY SchFacts DEF Born
  <2>2. \A u \in DOMAIN Sch.tasks : (\E p \in Priorities : Occurs(w[p], u)) => T[u].state = "Ready"
    <3> TAKE u \in DOMAIN Sch.tasks
    <3>1. HAVE \E p \in Priorities : Occurs(w[p], u)
    <3>2. u \in Born /\ tasks[u].state = "Ready"
      BY <1>0, <2>1, <3>1, SchFacts DEF Queued
    <3> QED BY <1>1, <1>2, <3>2
  <2>3. \A u \in Born : T[u].state = "Ready" => u \in Y \/ Occurs(w[priority[u]], u)
    BY <1>0, <1>2, SchFacts DEF Queued, Born, Off
  <2> HIDE DEF Y
  <2>4. Queued([Sch EXCEPT !.tasks = T], w, Y)
    BY <1>0, <1>2, <2>1, <2>2, <2>3, TasksQueued
  <2>5. [Sch EXCEPT !.tasks = T].tasks = T /\ [Sch EXCEPT !.tasks = T].current = Sch.current
    BY <1>0, <1>2, <2>1, <2>2, <2>3, TasksQueued
  <2> QED BY <2>4, <2>5, SchFacts DEF Y
<1> HIDE DEF s
<1>4. Sound(s)
  <2>1. OneRuns(s)
    BY <1>2, <1>3, SchFacts DEF OneRuns, Off
  <2>2. IdleOn(s)
    BY <1>1, <1>2, <1>3, SchFacts DEF IdleOn, SchedInv, Sound
  <2> QED BY <1>3, <2>1, <2>2 DEF Sound
<1>5. Sound(r) /\ Passed(s, r)
  BY <1>4, ScheduleSound
<1> HIDE DEF r
<1>6. \A u \in stopped' : u \in DOMAIN r.tasks /\ r.tasks[u].state \in Off
  BY <1>1, <1>2, <1>3, <1>5, SchFacts DEF Passed
<1> QED BY <1>1, <1>5, <1>6, BecomeInv

\* Waking a blocked task queues it once.
LEMMA WakeInv ==
  ASSUME SchedInv, NEW t \in Tasks, Wake(t)
  PROVE  SchedInv'
<1> DEFINE T == [tasks EXCEPT ![t] = [tasks[t] EXCEPT !.state = "Ready"]]
           m == [Sch EXCEPT !.tasks = T]
           r == enqueue(m, t)
           Y == {Idle} \cup {t}
<1>0. PICK w : Queued(Sch, w, {Idle})
  BY DEF SchedInv, Sound
<1>1. t \in Born /\ tasks[t].state = "Blocked" /\ Become(r) /\ stopped' = stopped \ {t}
  <2>1. Sch.tasks = tasks
    BY SchFacts
  <2>2. [Sch EXCEPT !.tasks[t].state = "Ready"] = m
    BY <2>1
  <2> QED BY <2>2 DEF Wake
<1>2. /\ T \in [Born -> TaskRecs] /\ DOMAIN T = Born
      /\ \A u \in Born : T[u].state = IF u = t THEN "Ready" ELSE tasks[u].state
  <2>1. tasks[t] \in TaskRecs /\ tasks \in [Born -> TaskRecs]
    BY <1>1, SchFacts
  <2>2. /\ [tasks[t] EXCEPT !.state = "Ready"] \in TaskRecs
        /\ [tasks[t] EXCEPT !.state = "Ready"].state = "Ready"
    BY <2>1 DEF TaskRecs
  <2> QED BY <1>1, <2>1, <2>2
<1> HIDE DEF T
<1>3. \A p \in Priorities : ~Occurs(w[p], t)
  BY <1>0, <1>1, SchFacts DEF Queued
<1>4. Queued(m, w, Y) /\ m.tasks = T /\ m.current = current
  <2>1. Born \in SUBSET Tasks /\ DOMAIN Sch.tasks \subseteq Born
    BY SchFacts DEF Born
  <2>2. \A u \in DOMAIN Sch.tasks : (\E p \in Priorities : Occurs(w[p], u)) => T[u].state = "Ready"
    BY <1>0, <1>2, <2>1, SchFacts DEF Queued
  <2>3. \A u \in Born : T[u].state = "Ready" => u \in Y \/ Occurs(w[priority[u]], u)
    BY <1>0, <1>2, SchFacts DEF Queued, Born
  <2> HIDE DEF Y
  <2>4. Queued([Sch EXCEPT !.tasks = T], w, Y)
    BY <1>0, <1>2, <2>1, <2>2, <2>3, TasksQueued
  <2>5. [Sch EXCEPT !.tasks = T].tasks = T /\ [Sch EXCEPT !.tasks = T].current = Sch.current
    BY <1>0, <1>2, <2>1, <2>2, <2>3, TasksQueued
  <2> QED BY <2>4, <2>5, SchFacts
<1> HIDE DEF m
<1>5. /\ Queued(r, [w EXCEPT ![priority[t]] = Append(w[priority[t]], t)], {Idle})
      /\ r.tasks = T /\ r.current = current
  <2>1. t \in DOMAIN m.tasks /\ m.tasks[t].state = "Ready"
    BY <1>1, <1>2, <1>4
  <2> QED BY <2>1, <1>3, <1>4, EnqueueQueued
<1> HIDE DEF r
<1>6. Sound(r)
  <2>1. OneRuns(r)
    BY <1>2, <1>5, SchFacts DEF OneRuns
  <2>2. IdleOn(r)
    BY <1>2, <1>5, SchFacts DEF IdleOn, SchedInv, Sound, Off
  <2> QED BY <1>5, <2>1, <2>2 DEF Sound
<1>7. \A u \in stopped' : u \in DOMAIN r.tasks /\ r.tasks[u].state \in Off
  BY <1>1, <1>2, <1>5, SchFacts
<1> QED BY <1>1, <1>6, <1>7, BecomeInv

\* Every operation of the scheduler keeps its invariant.
LEMMA SchedStep == SchedInv /\ SchedNext => SchedInv'
BY TimerTickInv, YieldInv, StopInv, SpawnInv, WakeInv DEF SchedNext, Off

\* The scheduler as init leaves it satisfies the invariant.
LEMMA SchedInitInv == SchedInit => SchedInv
<1> SUFFICES ASSUME SchedInit PROVE SchedInv
  OBVIOUS
<1> DEFINE w == [p \in Priorities |-> <<>>]
<1>1. None \notin Tasks
  BY SchedAssumption
<1>2. /\ tasks = <<>> /\ run_queues = [p \in Priorities |-> EmptyList] /\ node = [t \in Tasks |-> Unlinked]
      /\ current = None /\ ready_count = 0 /\ stopped = {}
  BY DEF SchedInit
<1>3. tasks \in [{} -> TaskRecs] /\ DOMAIN tasks = {}
  <2>1. DOMAIN tasks = {} /\ tasks = [x \in {} |-> 0]
    BY <1>2
  <2> QED BY <2>1
<1>4. node \in [Tasks -> Nodes(Tasks)] /\ EmptyList \in Lists(Tasks)
  BY <1>2 DEF Unlinked, Nodes, Ends, EmptyList, Lists
<1>5. Sch = [tasks |-> tasks, queues |-> run_queues, node |-> node, current |-> current, ready |-> ready_count]
  BY DEF Sch
<1>6. Sch \in SchRecs
  <2>1. tasks \in UNION {[B -> TaskRecs] : B \in SUBSET Tasks}
    BY <1>3
  <2>2. run_queues \in [Priorities -> Lists(Tasks)]
    BY <1>2, <1>4
  <2> QED BY <1>2, <1>4, <1>5, <2>1, <2>2 DEF SchRecs
<1>7. Queued(Sch, w, {Idle})
  <2>1. w \in [Priorities -> Seq(Tasks)] /\ \A p \in Priorities : w[p] = <<>>
    OBVIOUS
  <2> HIDE DEF w
  <2>2. \A p \in Priorities : Represents(Tasks, run_queues[p], node, w[p])
    BY <1>1, <1>2, <1>4, <2>1, EmptyShown
  <2>3. \A p \in Priorities, t \in Tasks : ~Occurs(w[p], t)
    BY <2>1 DEF Occurs
  <2>4. Lengths(w) = 0
    BY <2>1 DEF Lengths, Priorities
  <2>5. /\ Sch.tasks = tasks /\ Sch.queues = run_queues /\ Sch.node = node /\ Sch.ready = 0
    BY <1>2, <1>5
  <2> QED BY <1>3, <1>6, <2>1, <2>2, <2>3, <2>4, <2>5 DEF Queued
<1>8. OneRuns(Sch) /\ IdleOn(Sch)
  BY <1>2, <1>3, <1>5 DEF OneRuns, IdleOn
<1> QED BY <1>2, <1>7, <1>8 DEF SchedInv, Sound

\* The inductive invariant of the scheduler gives what the run checks.
LEMMA SchedInvExact == SchedInv => QueuesExact
<1> SUFFICES ASSUME SchedInv PROVE QueuesExact
  OBVIOUS
<1>1. None \notin Tasks /\ IsFiniteSet(Tasks) /\ \A t \in Tasks : priority[t] \in Priorities
  BY SchedAssumption DEF Priorities
<1>2. PICK w : Queued(Sch, w, {Idle})
  BY DEF SchedInv, Sound
<1>3. Sch.tasks = tasks /\ Sch.queues = run_queues /\ Sch.node = node /\ Sch.ready = ready_count
  BY DEF Sch
<1>4. \A p \in Priorities : Represents(Tasks, run_queues[p], node, w[p])
  BY <1>2, <1>3 DEF Queued
<1>5. ASSUME NEW p \in Priorities
      PROVE  /\ Queue(p) = w[p] /\ IsList(run_queues[p], node, w[p]) /\ IsInjective(w[p])
             /\ \A t : t \in ToSet(w[p]) <=> Occurs(w[p], t)
             /\ ToSet(w[p]) \subseteq Tasks /\ run_queues[p].len = Len(w[p])
  <2>1. Represents(Tasks, run_queues[p], node, w[p])
    BY <1>4
  <2>2. /\ w[p] \in Seq(Tasks) /\ IsInjective(w[p]) /\ IsList(run_queues[p], node, w[p])
    BY <2>1 DEF Represents
  <2>3. Len(w[p]) <= Cardinality(Tasks) /\ Cardinality(Tasks) \in Nat
    BY <1>1, <2>2, InjectiveLength
  <2>4. Cardinality(Tasks) + 1 \in Nat /\ Len(w[p]) <= Cardinality(Tasks) + 1
    BY <2>2, <2>3
  <2>5. Queue(p) = w[p]
    BY <1>1, <2>1, <2>4, WalkedShows DEF Queue
  <2>6. \A t : t \in ToSet(w[p]) <=> Occurs(w[p], t)
    BY DEF ToSet, Occurs
  <2>7. ToSet(w[p]) \subseteq Tasks
    BY <2>2 DEF ToSet
  <2>8. run_queues[p].len = Len(w[p])
    BY <2>2 DEF IsList
  <2> QED BY <2>2, <2>5, <2>6, <2>7, <2>8
<1>6. Born \in SUBSET Tasks /\ (\A t \in Born : tasks[t].state = "Running" => t = current)
      /\ \A t \in stopped : tasks[t].state \in Off
  BY SchFacts
<1>7. \A p \in Priorities, t \in Tasks :
        Occurs(w[p], t) => t \in Born /\ tasks[t].state = "Ready" /\ priority[t] = p
  BY <1>2, <1>3 DEF Queued, Born
<1>8. \A t \in Born : tasks[t].state = "Ready" => t = Idle \/ Occurs(w[priority[t]], t)
  BY <1>2, <1>3 DEF Queued, Born
<1>9. \A p \in Priorities : ToSet(Queue(p)) \subseteq {t \in Born : tasks[t].state = "Ready" /\ priority[t] = p}
  BY <1>5, <1>7
<1>10. ready_count = run_queues[0].len + run_queues[1].len + run_queues[2].len
                     + run_queues[3].len + run_queues[4].len
  <2>1. ready_count = Lengths(w)
    BY <1>2, <1>3 DEF Queued
  <2>2. /\ run_queues[0].len = Len(w[0]) /\ run_queues[1].len = Len(w[1]) /\ run_queues[2].len = Len(w[2])
        /\ run_queues[3].len = Len(w[3]) /\ run_queues[4].len = Len(w[4])
    BY <1>5 DEF Priorities
  <2> QED BY <2>1, <2>2 DEF Lengths
<1>11. \A t \in Born :
         /\ tasks[t].state = "Ready" => t = Idle \/ t \in ToSet(Queue(priority[t]))
         /\ tasks[t].state = "Running" => t = current
         /\ t \in stopped => tasks[t].state \in {"Blocked", "Zombie"}
  BY <1>1, <1>5, <1>6, <1>8 DEF Off
<1>12. \A p \in Priorities : IsList(run_queues[p], node, Queue(p)) /\ IsInjective(Queue(p))
  BY <1>5
<1> QED BY <1>9, <1>10, <1>11, <1>12 DEF QueuesExact

\* A step of another component leaves the scheduler's invariant alone.
LEMMA SchedKept == SchedInv /\ UNCHANGED schedVars => SchedInv'
BY DEF SchedInv, schedVars, Sch, Born

-----------------------------------------------------------------------------
(* Pointing devices.  A packet under way is clean, and then what has come of it and what *)
(* is still on the wire make one packet of the device's mode; or it is not, and then it  *)
(* has a lost byte or a stray answer to its account that no torn packet has used.        *)

DecoderFields == {"is", "is_initialized", "mode", "packet", "x", "y", "buttons", "coast"}
DecoderOK(d) ==
  /\ DOMAIN d = DecoderFields /\ d.mode \in {"relative", "absolute"}
  /\ d.packet \in Seq(Byte) /\ Len(d.packet) < Length(d.mode)

\* What mouse_handler makes of a byte, before it looks whether the packet is full.
Read(d, b) == IF d.mode = "relative" THEN RelativeByte(d, b) ELSE AbsoluteByte(d, b)
Listening == IF pad.is_initialized THEN pad ELSE mouse
Debt == IF Listening.packet # <<>> /\ ~clean THEN 1 ELSE 0
CountFields == {"sent", "lost", "stray", "torn", "misled", "unread", "whole"}

PointTyped ==
  /\ DecoderOK(pad) /\ pad.is = "pad" /\ (pad.is_initialized <=> step = "ready")
  /\ DecoderOK(mouse) /\ mouse.is = "mouse" /\ mouse.mode = "relative"
  /\ DOMAIN device = {"synaptics", "obeys", "mode", "reporting"} /\ device.mode \in {"relative", "absolute"}
  /\ wire \in Seq(Byte \X Nat) /\ clean \in BOOLEAN
  /\ DOMAIN count = CountFields
  /\ count.lost \in Nat /\ count.stray \in Nat /\ count.torn \in Nat /\ count.misled \in BOOLEAN
  /\ count.unread \in Nat /\ count.whole \in BOOLEAN

\* The wire holds the end of a packet, and something only once the device reports.
WireInv ==
  /\ device.reporting \/ wire # <<>> => step \in {"ready", "mouse"}
  /\ Len(wire) <= Length(device.mode)
  /\ \A i \in 1..Len(wire) : wire[i][2] = Length(device.mode) - Len(wire) + i
  /\ device.mode = "relative" =>
       \A i \in 1..Len(wire) : wire[i][2] = 1 => LooksRelative(wire[i][1])

\* Until it is initialised the pad is given nothing, and it is in absolute mode if the device is.
PadWaits ==
  step # "ready" => pad.packet = <<>> /\ (device.mode = "absolute" => pad.mode = "absolute")

PacketInv ==
  ~count.misled =>
    /\ count.torn + Debt <= count.lost + count.stray
    /\ Listening.packet # <<>> /\ clean =>
         Listening.mode = device.mode /\ Len(Listening.packet) + Len(wire) = Length(device.mode)
    /\ step = "ready" /\ count.stray = 0 /\ pad.mode # device.mode =>
         device.mode = "relative" /\ pad.packet = <<>>

\* One lost byte is still to be accounted for: the decoder is out of step, or it has
\* given up within a packet that is whole so far.
Owed ==
  LET rest == Listening.packet
  IN  IF (rest # <<>> /\ ~clean) \/ (count.whole /\ wire # <<>> /\ Len(wire) < Length(device.mode) /\ rest = <<>>)
      THEN 1 ELSE 0

\* Whole packets left unread are paid for by lost bytes.  A decoder out of step within a
\* whole packet holds more than what has come of it, so it is rid of that by its end.
ReadInv ==
  /\ step \notin {"ready", "mouse"} =>
       count.unread = 0 /\ ~count.whole /\ (count.stray = 0 => mouse.packet = <<>>)
  /\ ~count.misled /\ count.stray = 0 /\ (step = "ready" \/ device.mode = "relative") =>
       /\ count.unread + Owed <= count.lost
       /\ count.whole /\ wire # <<>> /\ Listening.packet # <<>> /\ ~clean =>
            Len(Listening.packet) + Len(wire) > Length(device.mode)

PointInv == PointTyped /\ WireInv /\ PadWaits /\ PacketInv /\ ReadInv

\* A byte is added to the packet or ends it; only a first byte changes the mode, to
\* relative, and it looks like one.
LEMMA ByteRead ==
  ASSUME NEW d, DecoderOK(d), NEW b \in Byte
  PROVE  LET t == Read(d, b) IN
         /\ t.kept \in BOOLEAN
         /\ DOMAIN t.d = DecoderFields /\ t.d.is = d.is /\ t.d.is_initialized = d.is_initialized
         /\ t.d.mode \in {"relative", "absolute"} /\ (d.mode = "relative" => t.d.mode = "relative")
         /\ d.packet # <<>> \/ ~t.kept => t.d.mode = d.mode
         /\ t.kept => t.d.packet = Append(d.packet, b)
         /\ t.kept /\ d.packet = <<>> => LooksRelative(b) \/ FirstOfSix(b)
         /\ ~t.kept => t.d.packet = <<>>
         /\ d.packet = <<>> /\ (LooksRelative(b) \/ (d.mode = "absolute" /\ FirstOfSix(b))) => t.kept
         /\ ~t.kept /\ d.packet # <<>> => d.mode = "absolute" /\ Len(d.packet) = 3 /\ ~FourthOfSix(b)
<1>1. ASSUME NEW e, DOMAIN e = DecoderFields
      PROVE  LET t == Kept(e, b) IN
             /\ t.kept = TRUE
             /\ DOMAIN t.d = DecoderFields /\ t.d.is = e.is /\ t.d.is_initialized = e.is_initialized
             /\ t.d.mode = e.mode /\ t.d.packet = Append(e.packet, b)
  BY <1>1 DEF Kept, DecoderFields
<1>2. ASSUME NEW e, DOMAIN e = DecoderFields
      PROVE  LET t == Dropped(e) IN t.kept = FALSE /\ t.d = e
  BY DEF Dropped
<1>3. CASE d.mode = "relative"
  <2>1. CASE d.packet = <<>> /\ ~LooksRelative(b)
    <3>1. Read(d, b) = Dropped(d)
      BY <1>3, <2>1 DEF Read, RelativeByte
    <3> QED BY <1>2, <1>3, <2>1, <3>1 DEF DecoderOK
  <2>2. CASE ~(d.packet = <<>> /\ ~LooksRelative(b))
    <3>1. Read(d, b) = Kept(d, b)
      BY <1>3, <2>2 DEF Read, RelativeByte
    <3> QED BY <1>1, <1>3, <2>2, <3>1 DEF DecoderOK
  <2> QED BY <2>1, <2>2
<1>4. CASE d.mode = "absolute"
  <2>0. Read(d, b) = AbsoluteByte(d, b)
    BY <1>4 DEF Read
  <2>1. CASE d.packet = <<>> /\ ~FirstOfSix(b) /\ LooksRelative(b)
    <3> DEFINE e == [d EXCEPT !.mode = "relative"]
    <3>1. /\ DOMAIN e = DecoderFields /\ e.is = d.is /\ e.is_initialized = d.is_initialized
          /\ e.mode = "relative" /\ e.packet = d.packet
      BY DEF DecoderOK, DecoderFields
    <3>2. Read(d, b) = Kept(e, b)
      BY <2>0, <2>1 DEF AbsoluteByte, RelativeByte
    <3> HIDE DEF e
    <3>3. LET t == Kept(e, b) IN
          /\ t.kept = TRUE
          /\ DOMAIN t.d = DecoderFields /\ t.d.is = e.is /\ t.d.is_initialized = e.is_initialized
          /\ t.d.mode = e.mode /\ t.d.packet = Append(e.packet, b)
      BY <1>1, <3>1
    <3> QED BY <1>4, <2>1, <3>1, <3>2, <3>3
  <2>2. CASE d.packet = <<>> /\ ~FirstOfSix(b) /\ ~LooksRelative(b)
    <3>1. Read(d, b) = Dropped(d)
      BY <2>0, <2>2 DEF AbsoluteByte
    <3> QED BY <1>2, <1>4, <2>2, <3>1 DEF DecoderOK
  <2>3. CASE ~(d.packet = <<>> /\ ~FirstOfSix(b)) /\ Len(d.packet) = 3 /\ ~FourthOfSix(b)
    <3> DEFINE e == [d EXCEPT !.packet = <<>>]
    <3>1. /\ DOMAIN e = DecoderFields /\ e.is = d.is /\ e.is_initialized = d.is_initialized
          /\ e.mode = d.mode /\ e.packet = <<>>
      BY DEF DecoderOK, DecoderFields
    <3>2. Read(d, b) = Dropped(e)
      BY <2>0, <2>3 DEF AbsoluteByte
    <3>3. d.packet # <<>>
      BY <2>3
    <3> HIDE DEF e
    <3>4. Read(d, b).kept = FALSE /\ Read(d, b).d = e
      BY <1>2, <3>1, <3>2
    <3> QED BY <1>4, <2>3, <3>1, <3>3, <3>4
  <2>4. CASE ~(d.packet = <<>> /\ ~FirstOfSix(b)) /\ ~(Len(d.packet) = 3 /\ ~FourthOfSix(b))
    <3>1. Read(d, b) = Kept(d, b)
      BY <2>0, <2>4 DEF AbsoluteByte
    <3> QED BY <1>1, <1>4, <2>4, <3>1 DEF DecoderOK
  <2> QED BY <2>1, <2>2, <2>3, <2>4
<1> QED BY <1>3, <1>4 DEF DecoderOK

\* Handling a full packet empties it and leaves the mode.
LEMMA ParsedEmpties ==
  ASSUME NEW d, DOMAIN d = DecoderFields, d.is \in {"mouse", "pad"}, d.mode \in {"relative", "absolute"}
  PROVE  LET e == Parsed(d) IN
         /\ DOMAIN e = DecoderFields /\ e.packet = <<>> /\ e.mode = d.mode
         /\ e.is = d.is /\ e.is_initialized = d.is_initialized
<1> DEFINE Same(e) == /\ DOMAIN e = DecoderFields /\ e.mode = d.mode
                      /\ e.is = d.is /\ e.is_initialized = d.is_initialized
<1>1. CASE d.is = "mouse"
  <2>1. Parsed(d) = process_packet(d)
    BY <1>1 DEF Parsed
  <2> QED BY <1>1, <2>1 DEF process_packet, DecoderFields
<1>2. CASE d.is = "pad" /\ d.mode = "relative"
  <2>1. Parsed(d) = parse_relative_packet(d)
    BY <1>2 DEF Parsed
  <2> DEFINE v == [d EXCEPT !.buttons = Buttons(d.packet)]
             u == update_edge_coasting(v, Dx(d.packet), Dy(d.packet))
  <2>2. Same(v)
    BY DEF DecoderFields
  <2>3. Same(u)
    <3> HIDE DEF v
    <3>1. \A c : Same([v EXCEPT !.coast = c])
      BY <2>2 DEF DecoderFields
    <3> HIDE DEF Same
    <3> QED BY <2>2, <3>1 DEF update_edge_coasting
  <2>4. \E x, y : Parsed(d) = [u EXCEPT !.packet = <<>>, !.x = x, !.y = y]
    BY <2>1 DEF parse_relative_packet
  <2> HIDE DEF u
  <2> QED BY <2>3, <2>4 DEF DecoderFields
<1>3. CASE d.is = "pad" /\ d.mode = "absolute"
  <2>1. Parsed(d) = parse_absolute_packet(d)
    BY <1>3 DEF Parsed
  <2> DEFINE u == [d EXCEPT !.packet = <<>>, !.buttons = BitsOf(d.packet[1]) \cap 0..1]
  <2>2. Same(u) /\ u.packet = <<>>
    BY DEF DecoderFields
  <2>3. Parsed(d) = u \/ \E x, y : Parsed(d) = [u EXCEPT !.x = x, !.y = y]
    BY <2>1 DEF parse_absolute_packet
  <2> HIDE DEF u
  <2> QED BY <2>2, <2>3 DEF DecoderFields
<1> QED BY <1>1, <1>2, <1>3

\* A byte that mouse_handler is given keeps the invariant: index 0 is a stray answer, any
\* other the place of the byte in a packet of the device, next on the wire.
LEMMA Handled ==
  ASSUME PointInv, NEW b \in Byte, NEW index \in Nat, Handle(b, index), step' = step, device' = device,
         \/ index = 0 /\ wire = <<>> /\ wire' = <<>>
         \/ index # 0 /\ wire # <<>> /\ index = wire[1][2] /\ wire' = Tail(wire),
         index = 1 /\ device.mode = "relative" => LooksRelative(b)
  PROVE  PointInv'
<1> DEFINE d == Listening
           t == Read(d, b)
           e == t.d
           first == Len(e.packet) = 1
           ok == IF first THEN index = 1 ELSE clean /\ index = Len(e.packet)
           done == t.kept /\ Full(e)
           after == IF done THEN Parsed(e) ELSE e
           whole == count.whole /\ Checked(b, index)
           miss == IF index = Length(device.mode) /\ whole /\ ~(done /\ ok) THEN 1 ELSE 0
<1>1. PointTyped /\ WireInv /\ PadWaits /\ PacketInv /\ ReadInv
  BY DEF PointInv
<1>2. /\ DecoderOK(d) /\ d.is \in {"mouse", "pad"}
      /\ d.mode \in {"relative", "absolute"} /\ d.packet \in Seq(Byte)
  BY <1>1 DEF PointTyped, Listening, DecoderOK
<1>3. /\ IF pad.is_initialized THEN pad' = after /\ mouse' = mouse ELSE mouse' = after /\ pad' = pad
      /\ clean' = IF t.kept THEN ok ELSE clean
      /\ count' = [count EXCEPT
                     !.misled = @ \/ (t.kept /\ first /\ index # 0 /\ (index # 1 \/ e.mode # device.mode)
                                     /\ (LooksRelative(b) \/ FirstOfSix(b))),
                     !.torn = @ + (IF done /\ ~ok /\ ~count.misled THEN 1 ELSE 0),
                     !.stray = @ + (IF index = 0 THEN 1 ELSE 0),
                     !.whole = whole,
                     !.unread = @ + miss]
  BY DEF Handle, Listening, Read
<1>4. /\ t.kept \in BOOLEAN
      /\ DOMAIN e = DecoderFields /\ e.is = d.is /\ e.is_initialized = d.is_initialized
      /\ e.mode \in {"relative", "absolute"} /\ (d.mode = "relative" => e.mode = "relative")
      /\ d.packet # <<>> \/ ~t.kept => e.mode = d.mode
      /\ t.kept => e.packet = Append(d.packet, b)
      /\ t.kept /\ d.packet = <<>> => LooksRelative(b) \/ FirstOfSix(b)
      /\ ~t.kept => e.packet = <<>>
      /\ d.packet = <<>> /\ (LooksRelative(b) \/ (d.mode = "absolute" /\ FirstOfSix(b))) => t.kept
      /\ ~t.kept /\ d.packet # <<>> => d.mode = "absolute" /\ Len(d.packet) = 3 /\ ~FourthOfSix(b)
  BY <1>2, ByteRead
<1> DEFINE misled == count.misled \/ (t.kept /\ first /\ index # 0 /\ (index # 1 \/ e.mode # device.mode)
                                     /\ (LooksRelative(b) \/ FirstOfSix(b)))
<1>5. /\ DOMAIN count' = CountFields
      /\ count.misled' <=> misled
      /\ count.torn' = count.torn + (IF done /\ ~ok /\ ~count.misled THEN 1 ELSE 0)
      /\ count.stray' = count.stray + (IF index = 0 THEN 1 ELSE 0)
      /\ count.lost' = count.lost /\ count.misled' \in BOOLEAN
      /\ count.unread' = count.unread + miss /\ (count.whole' <=> whole) /\ count.whole' \in BOOLEAN
  <2> HIDE DEF done, ok, first, e, t, d, miss
  <2>0. DOMAIN count = CountFields /\ count.misled \in BOOLEAN
    BY <1>1 DEF PointTyped
  <2> DEFINE M == misled
             T == count.torn + (IF done /\ ~ok /\ ~count.misled THEN 1 ELSE 0)
             S == count.stray + (IF index = 0 THEN 1 ELSE 0)
             W == whole
             U == count.unread + miss
  <2>1. count' = [count EXCEPT !.misled = M, !.torn = T, !.stray = S, !.whole = W, !.unread = U]
    BY <1>3
  <2>2. M \in BOOLEAN /\ W \in BOOLEAN
    BY <2>0 DEF Checked
  <2> HIDE DEF M, T, S, W, U
  <2>3. /\ DOMAIN count' = CountFields
        /\ count.misled' = M /\ count.torn' = T /\ count.stray' = S /\ count.lost' = count.lost
        /\ count.whole' = W /\ count.unread' = U
    BY <2>0, <2>1 DEF CountFields
  <2> QED BY <2>2, <2>3 DEF M, T, S, W, U
<1>6. /\ DOMAIN after = DecoderFields /\ after.is = d.is /\ after.is_initialized = d.is_initialized
      /\ after.mode = e.mode /\ after.packet = IF done THEN <<>> ELSE e.packet
  <2>1. DOMAIN e = DecoderFields /\ e.is \in {"mouse", "pad"} /\ e.mode \in {"relative", "absolute"}
    BY <1>2, <1>4
  <2> HIDE DEF e, t, d
  <2> QED BY <1>4, <2>1, ParsedEmpties
<1> HIDE DEF after
<1>7. e.packet \in Seq(Byte) /\ Len(e.packet) = (IF t.kept THEN Len(d.packet) + 1 ELSE 0)
  <2> HIDE DEF e, t, d
  <2>1. t.kept => e.packet \in Seq(Byte) /\ Len(e.packet) = Len(d.packet) + 1
    <3>1. d.packet \in Seq(Byte) /\ (t.kept => e.packet = Append(d.packet, b))
      BY <1>2, <1>4
    <3>2. \A s \in Seq(Byte) : Append(s, b) \in Seq(Byte) /\ Len(Append(s, b)) = Len(s) + 1
      BY AppendProperties
    <3> QED BY <3>1, <3>2
  <2>2. ~t.kept => e.packet \in Seq(Byte) /\ Len(e.packet) = 0
    BY <1>4, EmptySeq
  <2> QED BY <1>4, <2>1, <2>2
<1>8. after.packet \in Seq(Byte) /\ Len(after.packet) < Length(after.mode)
  <2> HIDE DEF e, t, d
  <2>1. Len(d.packet) < Length(d.mode)
    BY <1>2 DEF DecoderOK
  <2>2. d.packet = <<>> <=> Len(d.packet) = 0
    BY <1>2, EmptySeq
  <2> QED BY <1>2, <1>4, <1>6, <1>7, <2>1, <2>2, EmptySeq DEF Full, Length
<1>9. Listening' = after /\ (pad.is_initialized' <=> pad.is_initialized)
  <2> HIDE DEF e, t, d
  <2>1. CASE pad.is_initialized
    BY <1>3, <1>6, <2>1 DEF Listening, d
  <2>2. CASE ~pad.is_initialized
    BY <1>3, <2>2 DEF Listening
  <2> QED BY <2>1, <2>2
<1>10. PointTyped'
  <2>1. DecoderOK(after)
    BY <1>4, <1>6, <1>8 DEF DecoderOK
  <2>2. clean' \in BOOLEAN
    <3> HIDE DEF e, t, d, done
    <3> QED BY <1>1, <1>3, <1>4 DEF PointTyped
  <2>3. wire' \in Seq(Byte \X Nat)
    <3>1. wire \in Seq(Byte \X Nat) /\ <<>> \in Seq(Byte \X Nat)
      BY <1>1 DEF PointTyped
    <3> QED BY <3>1, HeadTailProperties
  <2>4. /\ count.lost' \in Nat /\ count.stray' \in Nat /\ count.torn' \in Nat /\ count.unread' \in Nat
    <3> HIDE DEF e, t, d, done, ok, whole
    <3> QED BY <1>1, <1>5 DEF PointTyped
  <2>5. /\ DecoderOK(pad') /\ pad'.is = "pad" /\ (pad'.is_initialized <=> step = "ready")
        /\ DecoderOK(mouse') /\ mouse'.is = "mouse" /\ mouse'.mode = "relative"
    <3> HIDE DEF e, t
    <3> QED BY <1>1, <1>3, <1>4, <1>6, <2>1 DEF PointTyped, Listening
  <2> HIDE DEF e, t, d
  <2> QED BY <1>1, <1>5, <2>2, <2>3, <2>4, <2>5 DEF PointTyped, DecoderOK
<1>11. WireInv'
  <2>1. CASE wire' = <<>>
    BY <1>1, <2>1 DEF WireInv, Length
  <2>2. CASE wire # <<>> /\ wire' = Tail(wire)
    <3>1. /\ Len(wire') = Len(wire) - 1 /\ Len(wire) \in Nat
          /\ \A i \in 1..Len(wire') : wire'[i] = wire[i + 1]
      BY <1>1, <2>2, HeadTailProperties DEF PointTyped
    <3> QED BY <1>1, <2>2, <3>1 DEF WireInv, Length
  <2> QED BY <2>1, <2>2
<1>12. PadWaits'
  <2> HIDE DEF e, t, d
  <2> QED BY <1>1, <1>3 DEF PadWaits, PointTyped
<1> DEFINE n == Length(device.mode)
<1>21. n \in {3, 6} /\ Length(d.mode) \in {3, 6}
  BY DEF Length
<1>22. step \notin {"ready", "mouse"} =>
         count.unread' = 0 /\ ~count.whole' /\ (count.stray' = 0 => mouse'.packet = <<>>)
  <2> SUFFICES ASSUME step \notin {"ready", "mouse"}
               PROVE  count.unread' = 0 /\ ~count.whole' /\ (count.stray' = 0 => mouse'.packet = <<>>)
    OBVIOUS
  <2>1. wire = <<>> /\ count.unread = 0 /\ ~count.whole
    BY <1>1 DEF WireInv, ReadInv
  <2>2. index = 0 /\ count.stray \in Nat
    BY <1>1, <2>1 DEF PointTyped
  <2> HIDE DEF done, ok, e, t, d, first
  <2> QED BY <1>5, <2>1, <2>2
<1>23. ASSUME ~count.misled', count.stray' = 0, step = "ready" \/ device.mode = "relative"
       PROVE  /\ count.unread' + Owed' <= count.lost'
              /\ count.whole' /\ wire' # <<>> /\ after.packet # <<>> /\ ~clean' =>
                   Len(after.packet) + Len(wire') > n
  <2> DEFINE k == Len(d.packet)
             w == Len(wire)
  <2>1. /\ ~count.misled /\ ~misled /\ index # 0 /\ count.stray = 0
        /\ count.unread \in Nat /\ count.lost \in Nat /\ clean \in BOOLEAN /\ count.whole \in BOOLEAN
    <3>1. count.stray \in Nat /\ count.stray' = count.stray + (IF index = 0 THEN 1 ELSE 0)
      BY <1>1, <1>5 DEF PointTyped
    <3>2. count.stray = 0 /\ index # 0
      BY <1>23, <3>1
    <3>3. ~count.misled /\ ~misled
      BY <1>5, <1>23
    <3> QED BY <1>1, <3>2, <3>3 DEF PointTyped
  <2>2. /\ count.unread + Owed <= count.lost
        /\ count.whole /\ wire # <<>> /\ d.packet # <<>> /\ ~clean => k + w > n
    BY <1>1, <1>23, <2>1 DEF ReadInv
  <2>3. w \in Nat /\ w \in 1..n /\ index = n - w + 1 /\ wire # <<>> /\ Len(wire') = w - 1
        /\ (wire' = <<>> <=> w = 1)
    <3>1. /\ w \in Nat /\ Len(wire') = w - 1 /\ 1 \in 1..w /\ wire # <<>> /\ wire' \in Seq(Byte \X Nat)
      BY <1>1, <1>10, <2>1, HeadTailProperties, EmptySeq DEF PointTyped
    <3>2. index = n - w + 1 /\ w <= n
      BY <1>1, <2>1, <3>1 DEF WireInv
    <3>3. wire' = <<>> <=> Len(wire') = 0
      BY <3>1, EmptySeq
    <3> QED BY <1>21, <3>1, <3>2, <3>3
  <2>4. k \in Nat /\ k < Length(d.mode) /\ (d.packet = <<>> <=> k = 0)
        /\ (after.packet = <<>> <=> done \/ ~t.kept)
        /\ (t.kept /\ ~done => Len(after.packet) = k + 1)
        /\ (done => t.kept /\ k + 1 = Length(e.mode)) /\ (t.kept /\ k + 1 = Length(e.mode) => done)
        /\ (t.kept => Len(e.packet) = k + 1)
    <3>1. done <=> t.kept /\ Len(e.packet) = Length(e.mode)
      BY DEF Full
    <3>2. /\ k \in Nat /\ k < Length(d.mode) /\ (d.packet = <<>> <=> k = 0)
          /\ (e.packet = <<>> <=> Len(e.packet) = 0)
      <4> HIDE DEF e, t, d, done
      <4> QED BY <1>2, <1>7, EmptySeq DEF DecoderOK
    <3> HIDE DEF e, t, d, done
    <3> QED BY <1>6, <1>7, <3>1, <3>2
  <2>5. k # 0 => d.mode = device.mode
    <3>1. pad.is_initialized => pad = d
      BY DEF Listening
    <3>2. ~pad.is_initialized => d = mouse
      BY DEF Listening
    <3> HIDE DEF d
    <3> QED BY <1>1, <1>23, <2>1, <2>4, <3>1, <3>2 DEF PointTyped, PacketInv
  <2>6. first <=> Len(e.packet) = 1
    OBVIOUS
  <2>7. t.kept /\ k = 0 => index = 1 /\ e.mode = device.mode
    <3> HIDE DEF e, t, d, done
    <3> QED BY <1>4, <2>1, <2>4, <2>6
  <2>8. k # 0 => e.mode = device.mode
    <3> HIDE DEF e, t, d, done
    <3> QED BY <1>4, <2>4, <2>5
  <2>9. ok <=> IF first THEN index = 1 ELSE clean /\ index = Len(e.packet)
    OBVIOUS
  <2>10. clean' <=> IF t.kept THEN ok ELSE clean
    BY <1>3
  <2>11. k # 0 /\ clean => k + w = n
    <3> HIDE DEF k, w
    <3> QED BY <1>1, <2>1, <2>4 DEF PacketInv, k, w
  <2>12. ~t.kept /\ k # 0 /\ clean => ~whole
    <3>1. SUFFICES ASSUME ~t.kept, k # 0, clean PROVE ~whole
      OBVIOUS
    <3>2. d.mode = "absolute" /\ k = 3 /\ ~FourthOfSix(b)
      <4> HIDE DEF e, t
      <4> QED BY <1>4, <2>4, <3>1
    <3>3. index = 4 /\ device.mode = "absolute"
      <4> HIDE DEF d, k, w, n
      <4> QED BY <1>21, <2>3, <2>4, <2>5, <2>11, <3>1, <3>2
    <3> QED BY <3>2, <3>3 DEF Checked
  <2>13. ~t.kept /\ k = 0 /\ index = 1 => ~whole
    <3>1. SUFFICES ASSUME ~t.kept, k = 0, index = 1, whole PROVE FALSE
      OBVIOUS
    <3>2. ~LooksRelative(b) /\ ~(d.mode = "absolute" /\ FirstOfSix(b))
      <4>1. d.packet = <<>>
        BY <2>4, <3>1
      <4>2. d.packet = <<>> /\ (LooksRelative(b) \/ (d.mode = "absolute" /\ FirstOfSix(b))) => t.kept
        BY <1>4
      <4> HIDE DEF e, t, d, k, whole
      <4> QED BY <3>1, <4>1, <4>2
    <3>3. device.mode = "absolute" /\ FirstOfSix(b)
      BY <1>1, <3>1, <3>2 DEF Checked, PointTyped
    <3>4. step = "ready" /\ d = pad
      BY <1>1, <1>23, <3>3 DEF PointTyped, Listening
    <3>5. pad.mode = "absolute"
      BY <1>1, <2>1, <3>3, <3>4 DEF PacketInv, PointTyped
    <3> QED BY <3>2, <3>3, <3>4, <3>5
  <2>14. Owed = (IF (k # 0 /\ ~clean) \/ (count.whole /\ w < n /\ k = 0) THEN 1 ELSE 0)
    BY <2>3, <2>4 DEF Owed
  <2>15. Owed' = (IF (after.packet # <<>> /\ ~clean') \/ (whole /\ w # 1 /\ after.packet = <<>>) THEN 1 ELSE 0)
    <3>1. Listening'.packet = after.packet /\ Length(device.mode)' = n /\ Len(wire)' < n
      BY <1>9, <1>21, <2>3
    <3> QED BY <1>5, <2>3, <3>1 DEF Owed
  <2>16. /\ count.unread' = count.unread + miss /\ count.lost' = count.lost /\ (count.whole' <=> whole)
         /\ (whole => count.whole) /\ miss = (IF index = n /\ whole /\ ~(done /\ ok) THEN 1 ELSE 0)
    BY <1>5
  <2> HIDE DEF n, k, w, e, t, d, done, ok, first, whole, miss
  <2>17. CASE k = 0 /\ index = 1
    <3>1. w = n /\ w # 1 /\ index # n /\ miss = 0
      BY <1>21, <2>3, <2>16, <2>17
    <3>2. CASE t.kept
      <4>1. after.packet # <<>> /\ first
        BY <1>21, <2>4, <2>6, <2>7, <2>17, <3>2 DEF Length
      <4>2. clean'
        BY <2>9, <2>10, <2>17, <3>2, <4>1
      <4> QED BY <2>1, <2>2, <2>14, <2>15, <2>16, <3>1, <4>1, <4>2
    <3>3. CASE ~t.kept
      <4>1. ~whole /\ after.packet = <<>>
        BY <2>4, <2>13, <2>17, <3>3
      <4> QED BY <2>1, <2>2, <2>14, <2>15, <2>16, <3>1, <4>1
    <3> QED BY <1>4, <3>2, <3>3
  <2>18. CASE k = 0 /\ index # 1
    <3>1. ~t.kept /\ after.packet = <<>>
      BY <1>4, <2>4, <2>7, <2>18
    <3>2. w < n /\ (index = n <=> w = 1)
      BY <1>21, <2>3, <2>18
    <3> QED BY <2>1, <2>2, <2>14, <2>15, <2>16, <2>18, <3>1, <3>2
  <2>19. CASE k # 0 /\ clean
    <3>1. k + w = n /\ index = k + 1 /\ (index = n <=> w = 1)
      BY <1>21, <2>3, <2>4, <2>11, <2>19
    <3>2. CASE t.kept
      <4>1. ok /\ clean'
        BY <2>4, <2>6, <2>9, <2>10, <2>19, <3>1, <3>2
      <4>2. done <=> w = 1
        BY <1>21, <2>3, <2>4, <2>8, <2>19, <3>1, <3>2 DEF n
      <4> QED BY <2>1, <2>2, <2>4, <2>14, <2>15, <2>16, <2>19, <3>1, <3>2, <4>1, <4>2
    <3>3. CASE ~t.kept
      <4>1. ~whole /\ after.packet = <<>>
        BY <2>4, <2>12, <2>19, <3>3
      <4> QED BY <2>1, <2>2, <2>14, <2>15, <2>16, <2>19, <4>1
    <3> QED BY <1>4, <3>2, <3>3
  <2>20. CASE k # 0 /\ ~clean
    <3>1. k < n /\ Owed = 1
      BY <2>4, <2>5, <2>14, <2>20 DEF n
    <3>2. whole => k + w > n
      BY <2>2, <2>3, <2>4, <2>16, <2>20
    <3>3. miss = 0
      BY <1>21, <2>3, <2>4, <2>16, <3>1, <3>2
    <3>4. Owed' \in {0, 1}
      BY <2>15
    <3>5. count.unread' + Owed' <= count.lost'
      BY <2>1, <2>2, <2>16, <3>1, <3>3, <3>4
    <3>6. after.packet # <<>> => Len(after.packet) + Len(wire') = k + w
      <4>1. after.packet # <<>> => Len(after.packet) = k + 1
        BY <1>4, <2>4
      <4>2. Len(wire') = w - 1 /\ k \in Nat /\ w \in Nat
        BY <2>3, <2>4
      <4> QED BY <4>1, <4>2
    <3> QED BY <2>16, <3>2, <3>5, <3>6
  <2> QED BY <2>1, <2>17, <2>18, <2>19, <2>20 DEF n
<1>24. ReadInv'
  BY <1>9, <1>22, <1>23 DEF ReadInv
<1>13. PacketInv'
  <2> SUFFICES ASSUME ~count.misled' PROVE PacketInv'
    BY DEF PacketInv
  <2> HIDE DEF n, whole, miss
  <2>1. ~count.misled /\ ~misled
    BY <1>5
  <2>2. /\ count.torn + Debt <= count.lost + count.stray
        /\ d.packet # <<>> /\ clean => d.mode = device.mode /\ Len(d.packet) + Len(wire) = Length(device.mode)
        /\ step = "ready" /\ count.stray = 0 /\ pad.mode # device.mode =>
             device.mode = "relative" /\ pad.packet = <<>>
    BY <1>1, <2>1 DEF PacketInv
  <2>3. Debt = (IF d.packet # <<>> /\ ~clean THEN 1 ELSE 0) /\ Debt' = (IF after.packet # <<>> /\ ~clean' THEN 1 ELSE 0)
    BY <1>9 DEF Debt
  <2>4. /\ index # 0 => Len(wire) \in Nat /\ index = Length(device.mode) - Len(wire) + 1 /\ Len(wire') = Len(wire) - 1
        /\ index = 0 => wire = <<>> /\ wire' = <<>>
    <3>1. index # 0 => /\ Len(wire) \in Nat /\ Len(wire') = Len(wire) - 1 /\ 1 \in 1..Len(wire)
      BY <1>1, HeadTailProperties, EmptySeq DEF PointTyped
    <3>2. index # 0 => index = Length(device.mode) - Len(wire) + 1
      BY <1>1, <3>1 DEF WireInv
    <3> QED BY <3>1, <3>2
  <2>5. /\ Len(d.packet) \in Nat /\ Len(d.packet) < Length(d.mode) /\ (d.packet = <<>> <=> Len(d.packet) = 0)
        /\ (after.packet = <<>> <=> Len(after.packet) = 0) /\ (e.packet = <<>> <=> Len(e.packet) = 0)
        /\ Len(after.packet) = (IF done THEN 0 ELSE Len(e.packet))
    <3> HIDE DEF e, t, d, done
    <3> QED BY <1>2, <1>6, <1>7, <1>8, EmptySeq DEF DecoderOK
  <2>6. device.mode \in {"relative", "absolute"} /\ clean \in BOOLEAN
        /\ count.lost \in Nat /\ count.stray \in Nat /\ count.torn \in Nat
    BY <1>1 DEF PointTyped
  <2>7. done <=> t.kept /\ Len(e.packet) = Length(e.mode)
    BY DEF Full
  <2>8. t.kept /\ first /\ index # 0 => index = 1 /\ e.mode = device.mode
    <3> HIDE DEF e, t, d
    <3> QED BY <1>4, <1>7, <2>1, <2>5
  <2>9. /\ count.torn' = count.torn + (IF done /\ ~ok THEN 1 ELSE 0)
        /\ count.stray' = count.stray + (IF index = 0 THEN 1 ELSE 0) /\ count.lost' = count.lost
    BY <1>5, <2>1
  <2>10. ok <=> IF first THEN index = 1 ELSE clean /\ index = Len(e.packet)
    OBVIOUS
  <2>11. clean' <=> IF t.kept THEN ok ELSE clean
    BY <1>3
  <2>12. pad.is_initialized => pad = d /\ pad' = after
    BY <1>3 DEF Listening
  <2>13. step = "ready" <=> pad.is_initialized
    BY <1>1 DEF PointTyped
  <2>14. first <=> Len(e.packet) = 1
    OBVIOUS
  <2> HIDE DEF e, t, d, done, ok, first
  <2>15. count.torn' + Debt' <= count.lost' + count.stray'
    <3>1. CASE ~t.kept
      BY <1>4, <1>6, <2>2, <2>3, <2>6, <2>7, <2>9, <3>1
    <3>2. CASE t.kept /\ d.packet = <<>>
      <4>1. first /\ ~done
        BY <1>4, <1>7, <2>5, <2>7, <2>14, <3>2 DEF Length
      <4>2. index # 0 => Debt' = 0
        BY <2>3, <2>8, <2>10, <2>11, <3>2, <4>1
      <4>3. count.torn' = count.torn /\ Debt = 0 /\ Debt' \in {0, 1}
        BY <2>3, <2>6, <2>9, <3>2, <4>1
      <4> QED BY <2>2, <2>6, <2>9, <4>2, <4>3
    <3>3. CASE t.kept /\ d.packet # <<>> /\ clean /\ index # 0
      <4>1. ~first /\ ok
        BY <1>7, <2>2, <2>4, <2>5, <2>6, <2>10, <2>14, <3>3 DEF Length
      <4> QED BY <2>2, <2>3, <2>6, <2>9, <2>11, <3>3, <4>1
    <3>4. CASE t.kept /\ d.packet # <<>> /\ clean /\ index = 0
      BY <1>6, <2>2, <2>3, <2>6, <2>9, <3>4
    <3>5. CASE t.kept /\ d.packet # <<>> /\ ~clean
      BY <1>6, <2>2, <2>3, <2>6, <2>9, <3>5
    <3> QED BY <1>4, <2>6, <3>1, <3>2, <3>3, <3>4, <3>5
  <2>16. after.packet # <<>> /\ clean' => after.mode = device.mode /\ Len(after.packet) + Len(wire') = Length(device.mode)
    <3> SUFFICES ASSUME after.packet # <<>>, clean'
                 PROVE  after.mode = device.mode /\ Len(after.packet) + Len(wire') = Length(device.mode)
      OBVIOUS
    <3>1. t.kept /\ ~done /\ after.packet = e.packet /\ after.mode = e.mode /\ ok
      BY <1>4, <1>6, <2>7, <2>11
    <3>2. CASE d.packet = <<>>
      <4>1. Len(e.packet) = 1 /\ first /\ index = 1
        BY <1>7, <2>5, <2>10, <2>14, <3>1, <3>2
      <4> QED BY <2>4, <2>6, <2>8, <3>1, <4>1 DEF Length
    <3>3. CASE d.packet # <<>>
      <4>1. Len(e.packet) = Len(d.packet) + 1 /\ ~first /\ clean /\ index = Len(e.packet) /\ index # 0
        BY <1>7, <2>5, <2>10, <2>14, <3>1, <3>3
      <4>2. d.mode = device.mode /\ Len(d.packet) + Len(wire) = Length(device.mode) /\ e.mode = d.mode
        BY <1>4, <2>2, <3>3, <4>1
      <4>3. Len(wire) \in Nat /\ Len(wire') = Len(wire) - 1 /\ Len(d.packet) \in Nat
        BY <2>4, <2>5, <4>1
      <4>4. Len(d.packet) + 1 + (Len(wire) - 1) = Length(device.mode)
        BY <4>2, <4>3
      <4> QED BY <3>1, <4>1, <4>2, <4>3, <4>4
    <3> QED BY <3>2, <3>3
  <2>17. step = "ready" /\ count.stray' = 0 /\ pad'.mode # device.mode => device.mode = "relative" /\ pad'.packet = <<>>
    <3> SUFFICES ASSUME step = "ready", count.stray' = 0, pad'.mode # device.mode
                 PROVE  device.mode = "relative" /\ pad'.packet = <<>>
      OBVIOUS
    <3>1. pad = d /\ pad' = after /\ e.mode # device.mode /\ index # 0 /\ count.stray = 0
      BY <1>6, <2>6, <2>9, <2>12, <2>13
    <3>2. ~(t.kept /\ d.packet = <<>>)
      BY <1>7, <2>5, <2>8, <2>14, <3>1
    <3>3. e.mode = d.mode
      BY <1>4, <3>2
    <3> QED BY <1>4, <1>6, <2>2, <3>1, <3>2, <3>3
  <2> QED BY <1>9, <2>15, <2>16, <2>17 DEF PacketInv
<1> QED BY <1>10, <1>11, <1>12, <1>13, <1>24 DEF PointInv

\* The pointing devices start with the invariant, whatever is attached.
LEMMA PointInitInv ==
  ASSUME NEW kinds, PointInit(kinds)
  PROVE  PointInv
<1>1. DecoderOK(pad) /\ pad.packet = <<>> /\ pad.is = "pad" /\ pad.is_initialized = FALSE /\ pad.mode = "relative"
  BY EmptySeq DEF PointInit, Decoder, DecoderOK, DecoderFields, Length
<1>2. DecoderOK(mouse) /\ mouse.packet = <<>> /\ mouse.is = "mouse" /\ mouse.mode = "relative"
  BY EmptySeq DEF PointInit, Decoder, DecoderOK, DecoderFields, Length
<1>3. /\ DOMAIN device = {"synaptics", "obeys", "mode", "reporting"} /\ device.mode = "relative"
      /\ device.reporting = FALSE
  BY DEF PointInit
<1>4. /\ count = [sent |-> 0, lost |-> 0, stray |-> 0, torn |-> 0, misled |-> FALSE, unread |-> 0, whole |-> FALSE]
      /\ step = "aux" /\ wire = <<>> /\ clean = TRUE
  BY DEF PointInit
<1>5. PointTyped
  BY <1>1, <1>2, <1>3, <1>4 DEF PointTyped, CountFields
<1>6. WireInv
  BY <1>3, <1>4 DEF WireInv, Length
<1>7. Listening.packet = <<>>
  BY <1>1, <1>2 DEF Listening
<1>8. ReadInv
  BY <1>2, <1>4, <1>7 DEF ReadInv, Owed
<1> QED BY <1>1, <1>3, <1>4, <1>5, <1>6, <1>7, <1>8 DEF PointInv, PadWaits, PacketInv, Debt

\* A packet is sent once the one before is gone, so none is under way and clean.
LEMMA SendInv == PointInv /\ Send => PointInv'
<1> SUFFICES ASSUME PointInv, Send PROVE PointInv'
  OBVIOUS
<1>1. PointTyped /\ WireInv /\ PadWaits /\ PacketInv /\ ReadInv
  BY DEF PointInv
<1>2. PICK p \in IF device.mode = "relative" THEN RelPackets ELSE AbsPackets :
        wire' = [i \in DOMAIN p |-> <<p[i], i>>]
  BY DEF Send
<1>3. p \in Seq(Byte) /\ Len(p) = Length(device.mode)
  BY PointingAssumption, <1>1 DEF Length, PointTyped
<1>4. /\ wire' \in Seq(Byte \X Nat) /\ Len(wire') = Length(device.mode)
      /\ \A i \in 1..Len(wire') : wire'[i] = <<p[i], i>>
  BY <1>2, <1>3
<1>5. /\ device.reporting /\ wire = <<>> /\ UNCHANGED <<step, device, pad, mouse, clean>>
      /\ count' = [count EXCEPT !.sent = @ + 1, !.whole = TRUE]
  BY DEF Send
<1>6. /\ DOMAIN count' = DOMAIN count /\ count'.lost = count.lost /\ count'.stray = count.stray
      /\ count'.torn = count.torn /\ count'.misled = count.misled
      /\ count'.unread = count.unread /\ count'.whole = TRUE
  BY <1>1, <1>5 DEF PointTyped, CountFields
<1>7. PointTyped'
  BY <1>1, <1>4, <1>5, <1>6 DEF PointTyped, DecoderOK
<1>8. WireInv'
  <2>1. device.mode = "relative" => \A i \in 1..Len(wire') : wire'[i][2] = 1 => LooksRelative(wire'[i][1])
    BY <1>2, <1>4, PointingAssumption DEF LooksRelative
  <2> QED BY <1>1, <1>4, <1>5, <2>1 DEF WireInv, Length
<1>9. PadWaits'
  BY <1>1, <1>5 DEF PadWaits
<1>10. PacketInv'
  <2>1. Listening' = Listening /\ Debt' = Debt
    BY <1>5 DEF Listening, Debt
  <2>2. Len(Listening.packet) < Length(Listening.mode) /\ Len(wire) = 0
    BY <1>1, <1>5 DEF PointTyped, DecoderOK, Listening
  <2>3. Listening.packet # <<>> /\ clean /\ ~count.misled => FALSE
    BY <1>1, <2>2 DEF PacketInv, Length
  <2> QED BY <1>1, <1>5, <1>6, <2>1, <2>3 DEF PacketInv
<1>11. ReadInv'
  <2>1. step \in {"ready", "mouse"}
    BY <1>1, <1>5 DEF WireInv
  <2>2. Listening' = Listening /\ Listening.packet \in Seq(Byte) /\ wire' # <<>> /\ ~(Len(wire') < Length(device.mode))
    <3>1. Listening' = Listening
      BY <1>5 DEF Listening
    <3>2. Listening.packet \in Seq(Byte)
      BY <1>1 DEF Listening, PointTyped, DecoderOK
    <3>3. Length(device.mode) \in {3, 6}
      BY DEF Length
    <3>4. wire' # <<>>
      BY <1>4, <3>3
    <3>5. ~(Len(wire') < Length(device.mode))
      BY <1>4, <3>3
    <3> QED BY <3>1, <3>2, <3>4, <3>5
  <2>3. Owed' <= Owed /\ Owed \in {0, 1} /\ Owed' \in {0, 1}
    BY <1>4, <1>5, <2>2 DEF Owed
  <2>4. Listening.packet # <<>> => Len(Listening.packet) + Len(wire') > Length(device.mode)
    <3>1. Listening.packet # <<>> => Len(Listening.packet) \in Nat \ {0}
      BY <2>2, EmptySeq
    <3>2. Len(wire') = Length(device.mode) /\ Length(device.mode) \in {3, 6}
      BY <1>4 DEF Length
    <3> QED BY <3>1, <3>2
  <2>5. count.unread \in Nat /\ count.lost \in Nat
    BY <1>1 DEF PointTyped
  <2>6. ~count.misled /\ count.stray = 0 /\ (step = "ready" \/ device.mode = "relative") =>
          count.unread + Owed' <= count.lost
    BY <1>1, <2>3, <2>5 DEF ReadInv
  <2> QED BY <1>5, <1>6, <2>1, <2>2, <2>4, <2>6 DEF ReadInv
<1> QED BY <1>7, <1>8, <1>9, <1>10, <1>11 DEF PointInv

\* The handler is given the next byte on the wire.
LEMMA IrqInv == PointInv /\ Irq12 => PointInv'
<1> SUFFICES ASSUME PointInv, Irq12 PROVE PointInv'
  OBVIOUS
<1>1. PointTyped /\ WireInv
  BY DEF PointInv
<1>2. wire # <<>> /\ wire \in Seq(Byte \X Nat) /\ wire' = Tail(wire) /\ step' = step /\ device' = device
  BY <1>1 DEF PointTyped, Irq12
<1>3. 1 \in 1..Len(wire) /\ Head(wire) = wire[1] /\ wire[1] \in Byte \X Nat /\ Len(wire) \in Nat
  BY <1>2, EmptySeq
<1>4. wire[1][1] \in Byte /\ wire[1][2] \in Nat /\ wire[1][2] # 0
  BY <1>1, <1>3 DEF WireInv, Length
<1>5. Handle(wire[1][1], wire[1][2])
  BY <1>3 DEF Irq12
<1>6. wire[1][2] = 1 /\ device.mode = "relative" => LooksRelative(wire[1][1])
  BY <1>1, <1>3 DEF WireInv
<1> QED BY <1>2, <1>4, <1>5, <1>6, Handled

\* What is taken for a byte of a packet and is none goes to the account of the stray ones.
LEMMA StrayInv == PointInv /\ Stray => PointInv'
<1> SUFFICES ASSUME PointInv, Stray PROVE PointInv'
  OBVIOUS
<1>1. PICK b \in {250, 170, 0} : Handle(b, 0)
  BY DEF Stray
<1>2. b \in Byte
  BY DEF Byte, ByteMax
<1> QED BY <1>1, <1>2, Handled DEF Stray

\* A lost byte ends the packet under way, which was not on any account.
LEMMA LoseInv == PointInv /\ Lose => PointInv'
<1> SUFFICES ASSUME PointInv, Lose PROVE PointInv'
  OBVIOUS
<1>1. PointTyped /\ WireInv /\ PadWaits /\ PacketInv /\ ReadInv
  BY DEF PointInv
<1>2. /\ wire # <<>> /\ wire' = Tail(wire) /\ clean' = FALSE /\ UNCHANGED <<step, device, pad, mouse>>
      /\ count' = [count EXCEPT !.lost = @ + 1, !.whole = FALSE]
  BY DEF Lose
<1>3. /\ DOMAIN count' = DOMAIN count /\ count'.lost = count.lost + 1 /\ count'.stray = count.stray
      /\ count'.torn = count.torn /\ count'.misled = count.misled
      /\ count'.unread = count.unread /\ count'.whole = FALSE
  BY <1>1, <1>2 DEF PointTyped, CountFields
<1>4. /\ wire' \in Seq(Byte \X Nat) /\ Len(wire') = Len(wire) - 1 /\ Len(wire) \in Nat
      /\ \A i \in 1..Len(wire') : wire'[i] = wire[i + 1]
  <2>1. wire \in Seq(Byte \X Nat)
    BY <1>1 DEF PointTyped
  <2> QED BY <1>2, <2>1, HeadTailProperties
<1>5. PointTyped'
  <2>1. DecoderOK(pad)' /\ DecoderOK(mouse)'
    BY <1>1, <1>2 DEF PointTyped, DecoderOK
  <2>2. /\ pad'.is = "pad" /\ (pad'.is_initialized <=> step' = "ready")
        /\ mouse'.is = "mouse" /\ mouse'.mode = "relative" /\ clean' \in BOOLEAN
        /\ DOMAIN device' = {"synaptics", "obeys", "mode", "reporting"} /\ device'.mode \in {"relative", "absolute"}
    BY <1>1, <1>2 DEF PointTyped
  <2>3. /\ DOMAIN count' = CountFields
        /\ count'.lost \in Nat /\ count'.stray \in Nat /\ count'.torn \in Nat /\ count'.misled \in BOOLEAN
        /\ count'.unread \in Nat /\ count'.whole \in BOOLEAN
    <3>1. /\ DOMAIN count = CountFields /\ count.lost \in Nat /\ count.stray \in Nat
          /\ count.torn \in Nat /\ count.misled \in BOOLEAN /\ count.unread \in Nat
      BY <1>1 DEF PointTyped
    <3>2. count'.misled \in BOOLEAN /\ count'.whole \in BOOLEAN /\ DOMAIN count' = CountFields
      <4>1. FALSE \in BOOLEAN
        OBVIOUS
      <4> QED BY <1>3, <3>1, <4>1, Zenon
    <3>3. \A i \in Nat : i + 1 \in Nat
      OBVIOUS
    <3> QED BY <1>3, <3>1, <3>2, <3>3, Zenon
  <2> QED BY <1>4, <2>1, <2>2, <2>3 DEF PointTyped
<1>6. WireInv'
  <2> DEFINE n == Length(device.mode)
  <2>1. n \in Nat /\ Length(device'.mode) = n
    BY <1>2 DEF Length
  <2>2. /\ step \in {"ready", "mouse"} /\ Len(wire) <= n
        /\ \A i \in 1..Len(wire) : wire[i][2] = n - Len(wire) + i
    BY <1>1, <1>2 DEF WireInv
  <2> HIDE DEF n
  <2>3. \A i \in 1..Len(wire') : wire'[i][2] = n - Len(wire') + i
    <3> SUFFICES ASSUME NEW i \in 1..Len(wire') PROVE wire'[i][2] = n - Len(wire') + i
      OBVIOUS
    <3>1. i + 1 \in 1..Len(wire) /\ wire'[i] = wire[i + 1]
      BY <1>4
    <3>2. wire[i + 1][2] = n - Len(wire) + (i + 1)
      BY <2>2, <3>1
    <3> QED BY <1>4, <2>1, <3>1, <3>2
  <2>4. device.mode = "relative" => \A i \in 1..Len(wire') : wire'[i][2] = 1 => LooksRelative(wire'[i][1])
    <3>1. \A i \in 1..Len(wire') : i + 1 \in 1..Len(wire) /\ wire'[i] = wire[i + 1]
      BY <1>4
    <3> QED BY <1>1, <3>1 DEF WireInv
  <2> QED BY <1>2, <1>4, <2>1, <2>2, <2>3, <2>4 DEF WireInv
<1>7. PadWaits'
  BY <1>1, <1>2 DEF PadWaits
<1>8. PacketInv'
  <2>1. Debt \in {0, 1} /\ Debt' \in {0, 1}
    BY DEF Debt
  <2>2. count.lost \in Nat /\ count.stray \in Nat /\ count.torn \in Nat
    BY <1>1 DEF PointTyped
  <2> QED BY <1>1, <1>2, <1>3, <2>1, <2>2 DEF PacketInv
<1>9. ReadInv'
  <2>1. Owed \in {0, 1} /\ Owed' \in {0, 1} /\ step \in {"ready", "mouse"}
    BY <1>1, <1>2 DEF Owed, WireInv
  <2>2. count.lost \in Nat /\ count.unread \in Nat
    BY <1>1 DEF PointTyped
  <2> QED BY <1>1, <1>2, <1>3, <2>1, <2>2 DEF ReadInv
<1> QED BY <1>5, <1>6, <1>7, <1>8, <1>9 DEF PointInv

\* A step of init finds no packet of the device under way, since it does not report yet.
LEMMA InitSteps ==
  ASSUME PointInv, Commands \/ Identify \/ WriteTimeout \/ MouseInit
  PROVE  PointInv'
<1>1. PointTyped /\ WireInv /\ PadWaits /\ PacketInv /\ ReadInv
  BY DEF PointInv
<1>2. step \in DOMAIN NextStep \cup {"identify", "failed"}
  BY DEF Commands, Identify, WriteTimeout, MouseInit
<1>3. step \notin {"ready", "mouse"} /\ wire = <<>> /\ ~pad.is_initialized
  BY <1>1, <1>2 DEF NextStep, PointTyped, WireInv
<1>4. UNCHANGED <<wire, clean, count>>
  BY DEF Commands, Identify, WriteTimeout, MouseInit
<1>5. count.misled \/ /\ count.torn + Debt <= count.lost + count.stray
                      /\ ~(mouse.packet # <<>> /\ clean)
  <2>1. Listening = mouse /\ Len(wire) = 0 /\ Len(mouse.packet) < 3
    BY <1>1, <1>3 DEF Listening, PointTyped, DecoderOK, Length
  <2> QED BY <1>1, <2>1 DEF PacketInv, Length
<1> DEFINE Fine == /\ DecoderOK(pad') /\ pad'.is = "pad" /\ pad'.packet = <<>>
                   /\ (pad'.is_initialized <=> step' = "ready")
                   /\ DecoderOK(mouse') /\ mouse'.is = "mouse" /\ mouse'.mode = "relative"
                   /\ mouse'.packet = mouse.packet
                   /\ DOMAIN device' = DOMAIN device /\ device'.mode \in {"relative", "absolute"}
                   /\ device'.reporting => step' \in {"ready", "mouse"}
                   /\ device'.mode = "absolute" => pad'.mode = "absolute"
<1>6. ASSUME Fine PROVE PointInv'
  <2>1. PointTyped'
    BY <1>1, <1>4, <1>6 DEF PointTyped, DecoderOK
  <2>2. WireInv' /\ PadWaits'
    BY <1>3, <1>4, <1>6 DEF WireInv, PadWaits, Length
  <2>3. PacketInv'
    <3>1. Debt' <= Debt /\ Debt \in {0, 1} /\ Debt' \in {0, 1}
      BY <1>3, <1>4, <1>6 DEF Debt, Listening
    <3>2. count.lost \in Nat /\ count.stray \in Nat /\ count.torn \in Nat
      BY <1>1 DEF PointTyped
    <3>3. pad'.mode # device'.mode => device'.mode = "relative"
      BY <1>6 DEF DecoderOK
    <3>4. count.misled \/ ~(Listening'.packet # <<>> /\ clean)
      BY <1>5, <1>6 DEF Listening
    <3> QED BY <1>4, <1>5, <1>6, <3>1, <3>2, <3>3, <3>4 DEF PacketInv
  <2>4. ReadInv'
    <3>1. count.unread = 0 /\ ~count.whole /\ (count.stray = 0 => mouse.packet = <<>>)
      BY <1>1, <1>3 DEF ReadInv
    <3>2. count.stray = 0 => mouse'.packet = <<>> /\ Listening'.packet = <<>>
      BY <1>6, <3>1 DEF Listening
    <3>3. count.stray = 0 => Owed' = 0
      BY <1>4, <3>1, <3>2 DEF Owed
    <3>4. count.lost \in Nat
      BY <1>1 DEF PointTyped
    <3> QED BY <1>4, <3>1, <3>2, <3>3, <3>4 DEF ReadInv
  <2> QED BY <2>1, <2>2, <2>3, <2>4 DEF PointInv
<1>7. /\ DecoderOK(pad) /\ pad.is = "pad" /\ pad.packet = <<>>
      /\ DecoderOK(mouse) /\ mouse.is = "mouse" /\ mouse.mode = "relative"
      /\ DOMAIN device = {"synaptics", "obeys", "mode", "reporting"} /\ device.mode \in {"relative", "absolute"}
      /\ ~device.reporting \/ step \in {"ready", "mouse"}
      /\ device.mode = "absolute" => pad.mode = "absolute"
  BY <1>1, <1>3 DEF PointTyped, WireInv, PadWaits
<1>8. CASE Commands
  <2>1. /\ step' = NextStep[step] /\ device' = Obeyed(step) /\ mouse' = mouse
        /\ pad' = CASE step = "absolute" -> [pad EXCEPT !.mode = "absolute"]
                    [] step = "enable"   -> [pad EXCEPT !.is_initialized = TRUE, !.packet = <<>>]
                    [] OTHER -> pad
    BY <1>8 DEF Commands
  <2>2. CASE step = "absolute"
    <3>1. pad' = [pad EXCEPT !.mode = "absolute"] /\ step' = "rate"
      BY <2>1, <2>2 DEF NextStep
    <3>2. DecoderOK(pad') /\ pad'.is = "pad" /\ pad'.packet = <<>> /\ pad'.mode = "absolute"
          /\ pad'.is_initialized = pad.is_initialized
      <4>1. DOMAIN pad = DecoderFields /\ pad.packet = <<>> /\ pad.is = "pad"
        BY <1>7 DEF DecoderOK
      <4>2. /\ DOMAIN pad' = DecoderFields /\ pad'.is = "pad" /\ pad'.packet = <<>>
            /\ pad'.mode = "absolute" /\ pad'.is_initialized = pad.is_initialized
        BY <3>1, <4>1 DEF DecoderFields
      <4> QED BY <4>2, EmptySeq DEF DecoderOK, Length
    <3>3. DOMAIN device' = DOMAIN device /\ device'.mode \in {"relative", "absolute"} /\ device'.reporting = device.reporting
      BY <1>7, <2>1, <2>2 DEF Obeyed
    <3> QED BY <1>3, <1>6, <1>7, <2>1, <3>1, <3>2, <3>3
  <2>3. CASE step = "enable"
    <3>1. pad' = [pad EXCEPT !.is_initialized = TRUE, !.packet = <<>>] /\ step' = "ready"
      BY <2>1, <2>3 DEF NextStep
    <3>2. DecoderOK(pad') /\ pad'.is = "pad" /\ pad'.packet = <<>> /\ pad'.mode = pad.mode /\ pad'.is_initialized
      BY <1>7, <3>1, EmptySeq DEF DecoderOK, DecoderFields, Length
    <3>3. DOMAIN device' = DOMAIN device /\ device'.mode = device.mode
      BY <1>7, <2>1, <2>3 DEF Obeyed
    <3> QED BY <1>6, <1>7, <2>1, <3>1, <3>2, <3>3
  <2>4. CASE step = "reset"
    <3>1. pad' = pad /\ step' = "defaults"
      BY <2>1, <2>4 DEF NextStep
    <3>2. DOMAIN device' = DOMAIN device /\ device'.mode = "relative" /\ device'.reporting = FALSE
      BY <1>7, <2>1, <2>4 DEF Obeyed
    <3> QED BY <1>3, <1>6, <1>7, <2>1, <3>1, <3>2
  <2>5. CASE step \notin {"absolute", "enable", "reset"}
    <3>1. pad' = pad /\ device' = device
      BY <2>1, <2>5 DEF Obeyed
    <3>2. step' # "ready"
      BY <1>8, <2>1, <2>5 DEF NextStep, Commands
    <3> QED BY <1>3, <1>6, <1>7, <2>1, <3>1, <3>2
  <2> QED BY <2>2, <2>3, <2>4, <2>5
<1>9. CASE Identify
  <2>1. step' \in {"query", "rate"} /\ UNCHANGED <<device, pad, mouse>>
    BY <1>9 DEF Identify
  <2> QED BY <1>3, <1>6, <1>7, <2>1
<1>10. CASE WriteTimeout
  <2>1. step' \in {"rate", "absolute", "failed"} /\ UNCHANGED <<device, pad, mouse>>
    BY <1>10 DEF WriteTimeout, NextStep
  <2> QED BY <1>3, <1>6, <1>7, <2>1
<1>11. CASE MouseInit
  <2>1. /\ step' = "mouse" /\ pad' = pad /\ device' = [device EXCEPT !.reporting = TRUE]
        /\ mouse' = [mouse EXCEPT !.x = ScreenW \div 2, !.y = ScreenH \div 2]
    BY <1>11 DEF MouseInit
  <2>2. DOMAIN device' = DOMAIN device /\ device'.mode = device.mode
    BY <1>7, <2>1
  <2>3. DecoderOK(mouse') /\ mouse'.is = "mouse" /\ mouse'.mode = "relative" /\ mouse'.packet = mouse.packet
    BY <1>7, <2>1 DEF DecoderOK, DecoderFields
  <2> QED BY <1>3, <1>6, <1>7, <2>1, <2>2, <2>3
<1> QED BY <1>8, <1>9, <1>10, <1>11

\* Every step of the pointing devices keeps their invariant.
LEMMA PointStep == PointInv /\ PointNext => PointInv'
BY SendInv, IrqInv, LoseInv, StrayInv, InitSteps DEF PointNext

\* A step of another component leaves their invariant alone.
LEMMA PointKept == PointInv /\ UNCHANGED pointVars => PointInv'
<1> SUFFICES ASSUME PointInv, UNCHANGED pointVars PROVE PointInv'
  OBVIOUS
<1>1. UNCHANGED <<step, device, wire, pad, mouse, clean, count>>
  BY DEF pointVars
<1> QED BY <1>1 DEF PointInv, PointTyped, WireInv, PadWaits, PacketInv, ReadInv, Owed, Debt, Listening, DecoderOK

\* The account is never overdrawn.
LEMMA PointInvTorn == PointInv => OneTornPacket
<1> SUFFICES ASSUME PointInv, ~count.misled PROVE OneTornPacket
  BY DEF OneTornPacket
<1>1. Debt \in {0, 1} /\ count.torn \in Nat /\ count.lost \in Nat /\ count.stray \in Nat
  BY DEF Debt, PointInv, PointTyped
<1>2. count.stray = 0 /\ (step = "ready" \/ device.mode = "relative") => count.unread <= count.lost
  BY DEF PointInv, PointTyped, ReadInv, Owed
<1> QED BY <1>1, <1>2 DEF PointInv, PacketInv, OneTornPacket

-----------------------------------------------------------------------------
(* Contexts. *)

IsContext(c) == c = [x \in DOMAIN c |-> c[x]]

\* d is c with v at k, the other keys as they were.
Put(d, c, k, v) ==
  /\ DOMAIN d = DOMAIN c \cup {k} /\ d[k] = v /\ IsContext(d)
  /\ \A x \in DOMAIN c : x # k => d[x] = c[x]

\* A key that is set has its new value, or was dropped.
LEMMA SetKeeps ==
  ASSUME NEW c, NEW k, NEW v
  PROVE  Set(c, k, v) = c \/ Put(Set(c, k, v), c, k, v)
<1> DEFINE d == [x \in DOMAIN c \cup {k} |-> IF x = k THEN v ELSE c[x]]
<1>1. Put(d, c, k, v)
  BY DEF Put, IsContext
<1>2. Set(c, k, v) \in {c, d}
  BY DEF Set
<1> HIDE DEF d
<1> QED BY <1>1, <1>2

\* The contexts that can be made of the keys K and the values V.
ContextsOf(K, V) == UNION {[D -> V] : D \in SUBSET K}

\* Set stays among them.
LEMMA SetTyped ==
  ASSUME NEW K, NEW V, NEW c \in ContextsOf(K, V), NEW k \in K, NEW v \in V
  PROVE  Set(c, k, v) \in ContextsOf(K, V)
<1>1. PICK D \in SUBSET K : c \in [D -> V]
  BY DEF ContextsOf
<1>2. [x \in D \cup {k} |-> IF x = k THEN v ELSE c[x]] \in [D \cup {k} -> V]
  BY <1>1
<1>3. D \cup {k} \in SUBSET K
  BY <1>1
<1>4. DOMAIN c = D
  BY <1>1
<1>5. Set(c, k, v) \in {c, [x \in D \cup {k} |-> IF x = k THEN v ELSE c[x]]}
  BY <1>4 DEF Set
<1> QED BY <1>1, <1>2, <1>3, <1>5 DEF ContextsOf

\* SetAll sets one pair after the other.
LEMMA SetInTurn ==
  ASSUME NEW K, NEW V, NEW c \in ContextsOf(K, V), NEW pairs, Len(pairs) \in Nat,
         \A i \in 1..Len(pairs) : pairs[i][1] \in K /\ pairs[i][2] \in V
  PROVE  \E f \in [0..Len(pairs) -> ContextsOf(K, V)] :
           /\ f[0] = c /\ SetAll(c, pairs) = f[Len(pairs)]
           /\ \A i \in 1..Len(pairs) : f[i] = Set(f[i - 1], pairs[i][1], pairs[i][2])
<1> DEFINE S == ContextsOf(K, V)
           n == Len(pairs)
           put == [p \in S \X (1..n) |-> Set(p[1], pairs[p[2]][1], pairs[p[2]][2])]
           after == CHOOSE g : g = [i \in 0..n |-> IF i = 0 THEN c
                                      ELSE Set(g[i - 1], pairs[i][1], pairs[i][2])]
<1>1. put \in [S \X (1..n) -> S]
  <2> HIDE DEF S, n
  <2> SUFFICES ASSUME NEW p \in S \X (1..n)
               PROVE  Set(p[1], pairs[p[2]][1], pairs[p[2]][2]) \in S
    OBVIOUS
  <2>1. p[1] \in S /\ p[2] \in 1..n
    OBVIOUS
  <2> QED BY <2>1, SetTyped DEF S, n
<1>2. n \in Nat /\ c \in S
  OBVIOUS
<1>3. PICK f \in [0..n -> S] : Iterates(f, n, c, put)
  <2> HIDE DEF S, n, put
  <2> QED BY <1>1, <1>2, Iterated
<1>4. f[0] = c /\ \A i \in 1..n : f[i] = Set(f[i - 1], pairs[i][1], pairs[i][2])
  <2>1. f[0] = c
    <3> HIDE DEF S, n, put
    <3>1. 0 \in 0..n
      BY <1>2
    <3> QED BY <1>3, <3>1 DEF Iterates
  <2>2. ASSUME NEW i \in 1..n PROVE f[i] = Set(f[i - 1], pairs[i][1], pairs[i][2])
    <3>1. f[i] = put[<<f[i - 1], i>>] /\ i - 1 \in 0..n
      <4> HIDE DEF S, n, put
      <4> QED BY <1>2, <1>3, <2>2 DEF Iterates
    <3>2. f[i - 1] \in S
      BY <3>1
    <3>3. put[<<f[i - 1], i>>] = Set(f[i - 1], pairs[i][1], pairs[i][2])
      <4> HIDE DEF S, n
      <4> QED BY <2>2, <3>2
    <3> QED BY <3>1, <3>3
  <2> QED BY <2>1, <2>2
<1>5. f = [i \in 0..n |-> IF i = 0 THEN c ELSE Set(f[i - 1], pairs[i][1], pairs[i][2])]
  <2> HIDE DEF S, n
  <2> QED BY <1>2, <1>3, <1>4
<1>6. after = [i \in 0..n |-> IF i = 0 THEN c ELSE Set(after[i - 1], pairs[i][1], pairs[i][2])]
  <2> HIDE DEF n
  <2> QED BY <1>5
<1>7. after = f
  <2> DEFINE P == {i \in 0..n : after[i] = f[i]}
  <2> HIDE DEF after, S, n
  <2>1. 0 \in P
    BY <1>2, <1>4, <1>6
  <2>2. ASSUME NEW i \in 1..n, i - 1 \in P PROVE i \in P
    <3>1. i \in 0..n /\ i # 0 /\ after[i - 1] = f[i - 1]
      BY <1>2, <2>2
    <3>2. after[i] = Set(after[i - 1], pairs[i][1], pairs[i][2])
      BY <1>6, <3>1
    <3> QED BY <1>4, <3>1, <3>2
  <2> HIDE DEF P
  <2>3. \A i \in 0..n : i \in P
    BY <1>2, <2>1, <2>2, UpTo
  <2>4. \A i \in 0..n : after[i] = f[i]
    BY <2>3 DEF P
  <2>5. DOMAIN f = 0..n /\ f = [i \in 0..n |-> f[i]]
    BY <1>3
  <2>6. after = [i \in 0..n |-> after[i]]
    BY <1>6
  <2> QED BY <2>4, <2>5, <2>6
<1>8. SetAll(c, pairs) = f[n]
  BY <1>7 DEF SetAll
<1> HIDE DEF S, put, after
<1> QED BY <1>3, <1>4, <1>8 DEF S

\* The values that a context and pairs for it hold.
LEMMA ContextTyped ==
  ASSUME NEW c, IsContext(c), NEW pairs, Len(pairs) \in Nat
  PROVE  \E K, V : /\ c \in ContextsOf(K, V)
                   /\ \A i \in 1..Len(pairs) : pairs[i][1] \in K /\ pairs[i][2] \in V
<1> DEFINE K == DOMAIN c \cup {pairs[i][1] : i \in 1..Len(pairs)}
           V == {c[x] : x \in DOMAIN c} \cup {pairs[i][2] : i \in 1..Len(pairs)}
<1>1. c \in [DOMAIN c -> V]
  BY DEF IsContext
<1>2. DOMAIN c \in SUBSET K
  OBVIOUS
<1>3. c \in ContextsOf(K, V)
  <2> HIDE DEF K, V
  <2> QED BY <1>1, <1>2 DEF ContextsOf
<1>4. \A i \in 1..Len(pairs) : pairs[i][1] \in K /\ pairs[i][2] \in V
  OBVIOUS
<1> HIDE DEF K, V
<1> QED BY <1>3, <1>4

\* A member of the contexts of some keys and values is a context.
LEMMA TypedContext ==
  ASSUME NEW K, NEW V, NEW c \in ContextsOf(K, V)
  PROVE  IsContext(c) /\ DOMAIN c \subseteq K
<1>1. PICK D \in SUBSET K : c \in [D -> V]
  BY DEF ContextsOf
<1> QED BY <1>1 DEF IsContext

\* What SetAll leaves: of each key the value it had, or one of the new ones.
LEMMA SetAllKeeps ==
  ASSUME NEW c, IsContext(c), NEW pairs, Len(pairs) \in Nat
  PROVE  LET d == SetAll(c, pairs) IN
         /\ IsContext(d) /\ DOMAIN c \subseteq DOMAIN d
         /\ \A x \in DOMAIN d : \/ x \in DOMAIN c /\ d[x] = c[x]
                                \/ \E i \in 1..Len(pairs) : x = pairs[i][1] /\ d[x] = pairs[i][2]
<1>1. PICK K, V : /\ c \in ContextsOf(K, V)
                  /\ \A i \in 1..Len(pairs) : pairs[i][1] \in K /\ pairs[i][2] \in V
  BY ContextTyped
<1>2. PICK f \in [0..Len(pairs) -> ContextsOf(K, V)] :
           /\ f[0] = c /\ SetAll(c, pairs) = f[Len(pairs)]
           /\ \A i \in 1..Len(pairs) : f[i] = Set(f[i - 1], pairs[i][1], pairs[i][2])
  BY <1>1, SetInTurn
<1> DEFINE n == Len(pairs)
           Ok(d) == /\ DOMAIN c \subseteq DOMAIN d
                    /\ \A x \in DOMAIN d : \/ x \in DOMAIN c /\ d[x] = c[x]
                                           \/ \E i \in 1..n : x = pairs[i][1] /\ d[x] = pairs[i][2]
           P == {i \in 0..n : Ok(f[i])}
<1>3. 0 \in P
  BY <1>2
<1>4. ASSUME NEW i \in 1..n, i - 1 \in P PROVE i \in P
  <2> HIDE DEF n
  <2>1. Ok(f[i - 1]) /\ n \in Nat
    BY <1>4 DEF n
  <2>2. f[i] = Set(f[i - 1], pairs[i][1], pairs[i][2])
    BY <1>2 DEF n
  <2> DEFINE a == f[i - 1]
             b == f[i]
  <2>3. b = a \/ Put(b, a, pairs[i][1], pairs[i][2])
    BY <2>2, SetKeeps
  <2>4. Ok(b)
    <3> HIDE DEF a, b
    <3>1. Ok(a)
      BY <2>1 DEF a
    <3> QED BY <2>3, <3>1 DEF Put
  <2> QED BY <2>1, <2>4
<1> HIDE DEF P
<1>5. \A i \in 0..n : i \in P
  BY <1>3, <1>4, UpTo
<1>6. Ok(f[n]) /\ f[n] \in ContextsOf(K, V)
  BY <1>2, <1>5 DEF P
<1>7. IsContext(f[n])
  BY <1>6, TypedContext
<1> QED BY <1>2, <1>6, <1>7

\* The drivers' keys are finitely many.
LEMMA DriverKeysFinite == IsFiniteSet(DriverKeys) /\ Cardinality(DriverKeys) \in Nat
<1>1. ASSUME NEW a, NEW b, NEW c, NEW d, NEW e
      PROVE  IsFiniteSet({a, b, c, d, e})
  <2>1. IsFiniteSet({}) /\ IsFiniteSet({} \cup {a})
    BY FS_EmptySet, FS_AddElement
  <2>2. IsFiniteSet(({} \cup {a}) \cup {b})
    BY <2>1, FS_AddElement
  <2>3. IsFiniteSet((({} \cup {a}) \cup {b}) \cup {c})
    BY <2>2, FS_AddElement
  <2>4. IsFiniteSet(((({} \cup {a}) \cup {b}) \cup {c}) \cup {d})
    BY <2>3, FS_AddElement
  <2>5. IsFiniteSet((((({} \cup {a}) \cup {b}) \cup {c}) \cup {d}) \cup {e})
    BY <2>4, FS_AddElement
  <2>6. {a, b, c, d, e} = (((({} \cup {a}) \cup {b}) \cup {c}) \cup {d}) \cup {e}
    OBVIOUS
  <2> QED BY <2>5, <2>6
<1> DEFINE A == {"vesa_addr", "vesa_w", "vesa_h", "vesa_bpp", "vesa_pitch"}
           B == {"gpu_init", "gpu_type", "fb_addr", "fb_width", "fb_height"}
           C == {"fb_bpp", "fb_pitch", "hw_cursor", "scr_width", "scr_height"}
           D == {"input_init", "input_type", "kb_init", "kb_init", "kb_init"}
<1>2. IsFiniteSet(A) /\ IsFiniteSet(B) /\ IsFiniteSet(C) /\ IsFiniteSet(D)
  BY <1>1
<1>3. DriverKeys = (A \cup B) \cup (C \cup D)
  BY DEF DriverKeys, VesaKeys
<1> HIDE DEF A, B, C, D
<1>4. IsFiniteSet(A \cup B) /\ IsFiniteSet(C \cup D)
  BY <1>2, FS_Union
<1>5. IsFiniteSet((A \cup B) \cup (C \cup D))
  BY <1>4, FS_Union
<1> QED BY <1>3, <1>5, FS_CardinalityType

\* With room for all keys nothing is dropped.
LEMMA SetFits ==
  ASSUME NEW c, DOMAIN c \subseteq DriverKeys, Cardinality(DriverKeys) <= MaxEntries, NEW k \in DriverKeys, NEW v
  PROVE  Put(Set(c, k, v), c, k, v)
<1> DEFINE d == [x \in DOMAIN c \cup {k} |-> IF x = k THEN v ELSE c[x]]
<1>1. Has(c, k) \/ Cardinality(DOMAIN c) < MaxEntries
  <2> SUFFICES ASSUME k \notin DOMAIN c PROVE Cardinality(DOMAIN c) < MaxEntries
    BY DEF Has
  <2>1. IsFiniteSet(DOMAIN c) /\ Cardinality(DOMAIN c) \in Nat
    BY DriverKeysFinite, FS_Subset, FS_CardinalityType
  <2>2. Cardinality(DOMAIN c \cup {k}) = Cardinality(DOMAIN c) + 1
    BY <2>1, FS_AddElement
  <2>3. Cardinality(DOMAIN c \cup {k}) <= Cardinality(DriverKeys)
    <3>1. DOMAIN c \cup {k} \subseteq DriverKeys
      OBVIOUS
    <3> QED BY <3>1, DriverKeysFinite, FS_Subset
  <2> QED BY <2>1, <2>2, <2>3, DriverKeysFinite, ChainAssumption
<1>2. Set(c, k, v) = d
  <2>1. ~(~Has(c, k) /\ Cardinality(DOMAIN c) >= MaxEntries)
    <3>1. Cardinality(DOMAIN c) \in Nat /\ MaxEntries \in Nat
      BY DriverKeysFinite, FS_Subset, FS_CardinalityType, ChainAssumption
    <3> QED BY <1>1, <3>1
  <2> QED BY <2>1 DEF Set
<1>3. Put(d, c, k, v)
  BY DEF Put, IsContext
<1> HIDE DEF d
<1> QED BY <1>2, <1>3

\* d is c with the first m pairs set, one after the other.
PutAll(d, c, pairs, m) ==
  /\ DOMAIN d = DOMAIN c \cup {pairs[i][1] : i \in 1..m} /\ IsContext(d)
  /\ \A x \in DOMAIN c : (\A i \in 1..m : pairs[i][1] # x) => d[x] = c[x]
  /\ \A i \in 1..m : (\A j \in 1..m : i < j => pairs[j][1] # pairs[i][1]) => d[pairs[i][1]] = pairs[i][2]

\* Nor is it by SetAll; the last pair of a key counts.
LEMMA SetAllFits ==
  ASSUME NEW c, DOMAIN c \subseteq DriverKeys, Cardinality(DriverKeys) <= MaxEntries, IsContext(c),
         NEW pairs, Len(pairs) \in Nat, \A i \in 1..Len(pairs) : pairs[i][1] \in DriverKeys
  PROVE  PutAll(SetAll(c, pairs), c, pairs, Len(pairs))
<1>1. PICK K, V : /\ c \in ContextsOf(K, V)
                  /\ \A i \in 1..Len(pairs) : pairs[i][1] \in K /\ pairs[i][2] \in V
  BY ContextTyped
<1>2. PICK f \in [0..Len(pairs) -> ContextsOf(K, V)] :
           /\ f[0] = c /\ SetAll(c, pairs) = f[Len(pairs)]
           /\ \A i \in 1..Len(pairs) : f[i] = Set(f[i - 1], pairs[i][1], pairs[i][2])
  BY <1>1, SetInTurn
<1> DEFINE n == Len(pairs)
           P == {m \in 0..n : PutAll(f[m], c, pairs, m)}
<1>3. 0 \in P
  BY <1>2 DEF PutAll
<1>4. ASSUME NEW m \in 1..n, m - 1 \in P PROVE m \in P
  <2> HIDE DEF n
  <2> DEFINE a == f[m - 1]
             b == f[m]
             k == pairs[m][1]
             v == pairs[m][2]
  <2>1. PutAll(a, c, pairs, m - 1) /\ n \in Nat /\ m \in 0..n
    BY <1>4 DEF n
  <2>2. b = Set(a, k, v)
    BY <1>2 DEF n
  <2>3. DOMAIN a \subseteq DriverKeys /\ k \in DriverKeys
    BY <2>1 DEF n, PutAll
  <2>4. Put(b, a, k, v)
    <3> HIDE DEF a, b, k, v
    <3> QED BY <2>2, <2>3, SetFits
  <2>5. PutAll(b, c, pairs, m)
    <3> HIDE DEF a, b
    <3>1. IsContext(b) /\ DOMAIN b = DOMAIN a \cup {k}
      BY <2>4 DEF Put
    <3>2. DOMAIN b = DOMAIN c \cup {pairs[i][1] : i \in 1..m}
      BY <2>1, <3>1 DEF PutAll
    <3>3. ASSUME NEW x \in DOMAIN c, \A i \in 1..m : pairs[i][1] # x PROVE b[x] = c[x]
      <4>1. x \in DOMAIN a /\ x # k /\ a[x] = c[x]
        BY <2>1, <3>3 DEF PutAll
      <4> QED BY <2>4, <4>1 DEF Put
    <3>4. ASSUME NEW i \in 1..m, \A j \in 1..m : i < j => pairs[j][1] # pairs[i][1]
          PROVE  b[pairs[i][1]] = pairs[i][2]
      <4>1. CASE i = m
        BY <2>4, <4>1 DEF Put
      <4>2. CASE i # m
        <5>1. i \in 1..m - 1 /\ pairs[i][1] # k /\ pairs[i][1] \in DOMAIN a
          BY <2>1, <3>4, <4>2 DEF PutAll
        <5>2. a[pairs[i][1]] = pairs[i][2]
          BY <2>1, <3>4, <5>1 DEF PutAll
        <5> QED BY <2>4, <5>1, <5>2 DEF Put
      <4> QED BY <4>1, <4>2
    <3> QED BY <3>1, <3>2, <3>3, <3>4 DEF PutAll
  <2> QED BY <2>1, <2>5
<1> HIDE DEF P
<1>5. \A m \in 0..n : m \in P
  BY <1>3, <1>4, UpTo
<1>6. PutAll(f[n], c, pairs, n)
  BY <1>5 DEF P
<1> QED BY <1>2, <1>6
-----------------------------------------------------------------------------
(* The invariant of chains.                                                *)

Answers == {"success", "failure", "middleware_failure"}
Statuses == {"Completed", "CompletedWithWarnings", "Failed"}

\* The types; at is the place of an event or the one behind the last.
ChainTyped ==
  /\ chain.events \in Seq(Events) /\ chain.mws \in Seq(Middleware)
  /\ DOMAIN at = {"event", "depth"} /\ IsContext(at)
  /\ at.event \in 1..Len(chain.events) + 1 /\ at.depth \in 0..Len(chain.mws)
  /\ answer \in {"none"} \cup Answers
  /\ DOMAIN result = {"success", "status", "failures"} /\ IsContext(result)
  /\ result.status \in Statuses /\ result.success \in BOOLEAN /\ result.failures \in Seq(Nat)
  /\ ran \in Seq(Nat \X Answers)
  /\ IsContext(context)
  /\ \E S : touched \in Seq({"ati_rage", "framebuffer", "synaptics", "mouse"} \X S)

\* What has run is reported: the answer says whether the event under way succeeded,
\* the failures are the earlier events that never did, up to the room for them, and
\* the status follows.
Succeeds(r, i) == \E j \in DOMAIN r : r[j] = <<i, "success">>
Noted(fs, i) == \/ \E j \in DOMAIN fs : fs[j] = i
                \/ Len(fs) = MaxFailures /\ \A j \in DOMAIN fs : fs[j] < i
ReportInv ==
  /\ \A i \in DOMAIN ran : ran[i][1] \in 1..at.event /\ ran[i][1] <= Len(chain.events)
  /\ answer = "success" <=> Succeeds(ran, at.event)
  /\ \A j, k \in DOMAIN ran : j < k => ran[j][1] <= ran[k][1] /\ ran[j] # <<ran[k][1], "success">>
  /\ \A i \in DOMAIN result.failures : result.failures[i] \in 1..at.event - 1 /\ ~Succeeds(ran, result.failures[i])
  /\ \A i \in 1..at.event - 1 : ~Succeeds(ran, i) => Noted(result.failures, i)
  /\ \A j, k \in DOMAIN result.failures : j < k => result.failures[j] < result.failures[k]
  /\ Len(result.failures) <= MaxFailures
StatusInv ==
  /\ result.success <=> result.status # "Failed"
  /\ result.status = "Failed" => at.event > 1 /\ ~Succeeds(ran, at.event - 1) /\ result.failures # <<>>
  /\ result.status = "CompletedWithWarnings" => at.event = Len(chain.events) + 1 /\ result.failures # <<>>
  /\ result.status = "Completed" /\ at.event = Len(chain.events) + 1 => result.failures = <<>>
  /\ chain.mode = "Strict" /\ result.failures # <<>> => result.status = "Failed"

\* A call: one event, which succeeds when it runs at all, and a result that can be
\* told from a refusal, unless nothing implements it.
CallInv ==
  chain.events # <<>> /\ chain.events[1] \in Calls =>
    /\ Len(chain.events) = 1 /\ chain.mode = "Strict"
    /\ GetOr(context, "arg3", 0) # U32Max
    /\ IF chain.events[1] = "Unknown" THEN ~Succeeds(ran, 1)
       ELSE GetOr(context, "result", 0) # U32Max /\ (ran # <<>> => Succeeds(ran, 1))

\* The drivers' chain: how far it came, and what the context and the devices then hold.
Came == IF answer = "none" THEN at.event - 1 ELSE at.event
FbKeys == {"fb_addr", "fb_width", "fb_height", "fb_bpp", "fb_pitch", "gpu_init", "gpu_type"}
DriversBuilt ==
  /\ chain.events = Drivers /\ chain.mode = "BestEffort"
  /\ \A i \in DOMAIN chain.mws : chain.mws[i].kind \in {"logging", "dependency"}
  /\ \E i \in DOMAIN chain.mws : chain.mws[i].kind = "dependency"
  /\ Cardinality(DriverKeys) <= MaxEntries
ContextOK(c, p) ==
  /\ DOMAIN c \subseteq DriverKeys
  /\ VesaKeys \subseteq DOMAIN c \/ VesaKeys \cap DOMAIN c = {}
  /\ FbKeys \subseteq DOMAIN c \/ FbKeys \cap DOMAIN c = {}
  /\ Has(c, "gpu_init") => c["gpu_init"] = TRUE
  /\ p = 0 => ~Has(c, "fb_width")
  /\ p >= 2 /\ Has(c, "vesa_addr") => Has(c, "fb_width")
  /\ Has(c, "scr_width") <=> p >= 3 /\ Has(c, "fb_width")
  /\ Has(c, "scr_width") => c["scr_width"] = c["fb_width"]
  /\ Has(c, "input_init") => c["input_init"] = TRUE /\ Has(c, "scr_width")
  /\ p >= 5 /\ Has(c, "scr_width") => Has(c, "input_init")
  /\ p >= 6 => Has(c, "kb_init")
StartsIn(t, drivers) == {i \in DOMAIN t : t[i][1] \in drivers}
Pointers == {"synaptics", "mouse"}
TouchedOK(c, t) ==
  /\ Has(c, "gpu_type") /\ c["gpu_type"] = "ATI_RAGE" <=> StartsIn(t, {"ati_rage"}) # {}
  /\ Once(StartsIn(t, {"framebuffer"})) /\ Once(StartsIn(t, Pointers))
  /\ StartsIn(t, {"framebuffer"}) # {} <=> Has(c, "scr_width")
  /\ StartsIn(t, Pointers) # {} <=> Has(c, "input_init")
  /\ \A i \in StartsIn(t, {"framebuffer"}) \cup StartsIn(t, Pointers) : t[i][2] = c["fb_width"]
\* An event that needs the screen is behind a dependency middleware that saw it.
Behind ==
  answer = "none" /\ at.event \in {4, 5} =>
    \A i \in Len(chain.mws) - at.depth + 1..Len(chain.mws) :
      chain.mws[i].kind = "dependency" => Has(context, "scr_width")
DriverInv ==
  "keyboard_init" \in ToSet(chain.events) =>
    /\ DriversBuilt /\ ContextOK(context, Came) /\ TouchedOK(context, touched)
    /\ answer # "middleware_failure" /\ result.status # "Failed" /\ Behind

ChainInv == ChainTyped /\ ReportInv /\ StatusInv /\ CallInv /\ DriverInv

StartNames == {"ati_rage", "framebuffer", "synaptics", "mouse"}

IsFramebuffer(p, yes, gpu, screen, cursor) ==
  /\ Len(p) = 8
  /\ p[1] = <<"gpu_init", yes>> /\ p[2] = <<"gpu_type", gpu>>
  /\ p[3] = <<"fb_addr", screen>> /\ p[4] = <<"fb_width", screen>> /\ p[5] = <<"fb_height", screen>>
  /\ p[6] = <<"fb_bpp", screen>> /\ p[7] = <<"fb_pitch", screen>> /\ p[8] = <<"hw_cursor", cursor>>

\* The pairs of a framebuffer, by number.
LEMMA FramebufferPairs ==
  ASSUME NEW gpu, NEW screen, NEW cursor
  PROVE  IsFramebuffer(Framebuffer(gpu, screen, cursor), TRUE, gpu, screen, cursor)
BY DEF Framebuffer, IsFramebuffer

\* A list of at most eight pairs sets a context to a context.
LEMMA SetAllContext ==
  ASSUME NEW c, IsContext(c), NEW pairs, Len(pairs) \in Nat
  PROVE  IsContext(SetAll(c, pairs))
BY SetAllKeeps

\* A key more or a new value leaves a context one.
LEMMA SetContext ==
  ASSUME NEW c, IsContext(c), NEW k, NEW v
  PROVE  IsContext(Set(c, k, v))
BY DEF Set, IsContext

\* What the run of an event is made of: a context, a result, and a driver started at most.
RunOK(r) ==
  /\ IsContext(r.context)
  /\ r.answer \in Answers
  /\ r.touched = touched \/ \E n \in StartNames : \E screen : r.touched = Append(touched, <<n, screen>>)

\* What a handler builds with the three constructors is a well formed outcome.
LEMMA MadeOK ==
  ASSUME NEW c, IsContext(c)
  PROVE  /\ RunOK(Done(c)) /\ RunOK(Failed(c))
         /\ \A n \in StartNames : \A screen : RunOK(Started(c, n, screen))
BY DEF RunOK, Done, Failed, Started, Answers

\* The drivers' events, in a set.
LEMMA DriverEvents ==
  ToSet(Drivers) = {"ati_rage_probe", "vesa_fallback", "framebuffer_init", "synaptics_init", "ps2_mouse_init", "keyboard_init"}
<1>1. Len(Drivers) = 6 /\ DOMAIN Drivers = 1..6
  BY DEF Drivers
<1>2. 1..6 = {1, 2, 3, 4, 5, 6}
  OBVIOUS
<1> QED BY <1>1, <1>2 DEF Drivers, ToSet

\* Every event's run is such.
LEMMA RunIsOK ==
  ASSUME ChainTyped, NEW e \in Events, NEW hw \in Outside(e)
  PROVE  RunOK(Run(e, context, hw))
<1> DEFINE c == context
<1>1. IsContext(c)
  BY DEF ChainTyped
<1> HIDE DEF c
<1>2. ASSUME NEW gpu, NEW screen, NEW cursor
      PROVE  IsContext(SetAll(c, Framebuffer(gpu, screen, cursor)))
  BY <1>1, FramebufferPairs, SetAllContext DEF IsFramebuffer
<1>3. ASSUME NEW k, NEW v, NEW l, NEW w
      PROVE  IsContext(SetAll(c, << <<k, v>>, <<l, w>> >>))
  BY <1>1, SetAllContext
<1>4. RunOK(ati_rage_probe(c, hw))
  BY <1>1, <1>2, MadeOK DEF ati_rage_probe, StartNames
<1>5. RunOK(vesa_fallback(c, hw))
  BY <1>1, <1>2, MadeOK DEF vesa_fallback
<1>6. RunOK(framebuffer_init(c, hw))
  BY <1>1, <1>3, MadeOK DEF framebuffer_init, StartNames
<1>7. RunOK(synaptics_init(c, hw))
  BY <1>1, <1>3, MadeOK DEF synaptics_init, StartNames
<1>8. RunOK(ps2_mouse_init(c, hw))
  BY <1>1, <1>3, MadeOK DEF ps2_mouse_init, StartNames
<1>9. RunOK(keyboard_init(c, hw))
  BY <1>1, SetContext, MadeOK DEF keyboard_init
<1>10. CASE e = "any"
  <2>1. hw \in Answers
    BY <1>10 DEF Outside, Failures, Answers
  <2>2. Run(e, c, hw) = [Done(c) EXCEPT !.answer = hw]
    BY <1>10 DEF Run
  <2> QED BY <1>1, <2>1, <2>2 DEF RunOK, Done, c
<1>11. CASE e \notin {"ati_rage_probe", "vesa_fallback", "framebuffer_init", "synaptics_init",
                      "ps2_mouse_init", "keyboard_init", "any"}
  <2> SUFFICES RunOK(syscall(e, c, hw))
    BY <1>11 DEF Run, c
  <2>1. e \in Calls
    BY <1>11, DriverEvents DEF Events
  <2>2. \A k, v : RunOK(Done(Set(c, k, v))) /\ RunOK(Failed(Set(c, k, v)))
    BY <1>1, SetContext, MadeOK
  <2>3. RunOK(Done(c)) /\ \A k, v, l, w : RunOK(Done(SetAll(c, << <<k, v>>, <<l, w>> >>)))
    BY <1>1, <1>3, MadeOK
  <2>4. CASE e = "Time"
    BY <2>3, <2>4 DEF syscall
  <2>5. CASE e # "Time"
    BY <2>1, <2>2, <2>3, <2>5 DEF syscall, Calls
  <2> QED BY <2>4, <2>5
<1> QED BY <1>4, <1>5, <1>6, <1>7, <1>8, <1>9, <1>10, <1>11 DEF Run, c

\* Entering and leaving middleware changes the depth and, when it refuses or tries
\* again, the answer; never from or to a success.
Quiet ==
  /\ UNCHANGED <<chain, context, result, touched, ran>>
  /\ DOMAIN at' = DOMAIN at /\ IsContext(at') /\ at'.event = at.event /\ at'.depth \in 0..Len(chain.mws)
  /\ answer' \in {"none"} \cup Answers /\ (answer' = "success" <=> answer = "success")

\* Entering a middleware runs no handler.
LEMMA EnterQuiet ==
  ASSUME ChainTyped, Enter
  PROVE  Quiet
<1>1. UNCHANGED <<chain, context, result, touched, ran>> /\ answer = "none" /\ at.depth < Len(chain.mws)
  BY DEF Enter
<1>2. DOMAIN at = {"event", "depth"} /\ IsContext(at) /\ at.depth \in 0..Len(chain.mws) /\ Len(chain.mws) \in Nat
  BY DEF ChainTyped
<1>3. CASE Refuses(Below, context, Event)
  BY <1>1, <1>2, <1>3 DEF Enter, Quiet, Answers
<1>4. CASE ~Refuses(Below, context, Event)
  <2>1. at' = [at EXCEPT !.depth = @ + 1] /\ answer' = answer
    BY <1>4 DEF Enter
  <2>2. DOMAIN at' = DOMAIN at /\ IsContext(at') /\ at'.event = at.event /\ at'.depth = at.depth + 1
    BY <1>2, <2>1 DEF IsContext
  <2> QED BY <1>1, <1>2, <2>1, <2>2 DEF Quiet
<1> QED BY <1>3, <1>4

\* Leaving a middleware runs no handler.
LEMMA LeaveQuiet ==
  ASSUME ChainTyped, Leave
  PROVE  Quiet
<1>1. UNCHANGED <<chain, context, result, touched, ran>> /\ answer # "none" /\ at.depth > 0
  BY DEF Leave
<1>2. /\ DOMAIN at = {"event", "depth"} /\ IsContext(at) /\ at.depth \in 0..Len(chain.mws) /\ Len(chain.mws) \in Nat
      /\ answer \in {"none"} \cup Answers
  BY DEF ChainTyped
<1>3. CASE TryAgain(Above, answer)
  <2>1. answer \in Failures /\ answer' = "none" /\ at' = at
    BY <1>3 DEF Leave, TryAgain
  <2> QED BY <1>1, <1>2, <2>1 DEF Quiet, Failures
<1>4. CASE ~TryAgain(Above, answer)
  <2>1. at' = [at EXCEPT !.depth = @ - 1] /\ answer' = answer
    BY <1>4 DEF Leave
  <2>2. DOMAIN at' = DOMAIN at /\ IsContext(at') /\ at'.event = at.event /\ at'.depth = at.depth - 1
    BY <1>2, <2>1 DEF IsContext
  <2> QED BY <1>1, <1>2, <2>1, <2>2 DEF Quiet
<1> QED BY <1>3, <1>4

\* Such a step disturbs no report and no call.
LEMMA QuietReports ==
  ASSUME ChainTyped, ReportInv, StatusInv, CallInv, Quiet
  PROVE  ChainTyped' /\ ReportInv' /\ StatusInv' /\ CallInv'
<1>1. /\ chain' = chain /\ context' = context /\ result' = result /\ touched' = touched /\ ran' = ran
      /\ at'.event = at.event /\ (answer' = "success" <=> answer = "success")
  BY DEF Quiet
<1>2. ChainTyped'
  BY <1>1 DEF ChainTyped, Quiet
<1>3. ReportInv'
  BY <1>1 DEF ReportInv, Succeeds
<1>4. StatusInv'
  BY <1>1 DEF StatusInv, Succeeds
<1>5. CallInv'
  BY <1>1 DEF CallInv, Succeeds
<1> QED BY <1>2, <1>3, <1>4, <1>5

\* What an event that runs leaves: its result at the end of ran.
LEMMA ExecuteShape ==
  ASSUME ChainTyped, Execute
  PROVE  /\ UNCHANGED <<chain, at, tries, result>>
         /\ answer = "none" /\ at.depth = Len(chain.mws) /\ Executing
         /\ Event \in Events /\ at.event \in 1..Len(chain.events)
         /\ \E hw \in Outside(Event) : LET r == Run(Event, context, hw) IN
              /\ RunOK(r) /\ context' = r.context /\ answer' = r.answer /\ touched' = r.touched
              /\ ran' = Append(ran, <<at.event, r.answer>>)
<1>1. at.event \in 1..Len(chain.events)
  BY DEF Execute, Executing, ChainTyped
<1>2. Event \in Events
  BY <1>1 DEF Event, ChainTyped
<1>3. \A hw \in Outside(Event) : RunOK(Run(Event, context, hw))
  BY <1>2, RunIsOK
<1> QED BY <1>1, <1>2, <1>3 DEF Execute

\* Running a handler keeps the types.
LEMMA ExecuteTyped ==
  ASSUME ChainTyped, Execute
  PROVE  ChainTyped'
<1>1. PICK hw \in Outside(Event) : LET r == Run(Event, context, hw) IN
              /\ RunOK(r) /\ context' = r.context /\ answer' = r.answer /\ touched' = r.touched
              /\ ran' = Append(ran, <<at.event, r.answer>>)
  BY ExecuteShape
<1> DEFINE r == Run(Event, context, hw)
<1>2. UNCHANGED <<chain, at, result>> /\ at.event \in Nat
  BY ExecuteShape
<1>3. IsContext(r.context) /\ r.answer \in Answers
  BY <1>1 DEF RunOK
<1>4. ran \in Seq(Nat \X Answers)
  BY DEF ChainTyped
<1>5. ran' \in Seq(Nat \X Answers)
  <2> HIDE DEF r
  <2>1. ran' = Append(ran, <<at.event, r.answer>>)
    BY <1>1 DEF r
  <2> QED BY <1>2, <1>3, <1>4, <2>1
<1>6. \E S : touched' \in Seq(StartNames \X S)
  <2>1. PICK S : touched \in Seq(StartNames \X S)
    BY DEF ChainTyped, StartNames
  <2>2. CASE touched' = touched
    BY <2>1, <2>2
  <2>3. ASSUME NEW n \in StartNames, NEW screen, touched' = Append(touched, <<n, screen>>)
        PROVE  touched' \in Seq(StartNames \X (S \cup {screen}))
    <3>1. <<n, screen>> \in StartNames \X (S \cup {screen})
      OBVIOUS
    <3>2. touched \in Seq(StartNames \X (S \cup {screen}))
      <4> HIDE DEF StartNames
      <4> QED BY <2>1
    <3> QED BY <2>3, <3>1, <3>2
  <2> QED BY <1>1, <2>2, <2>3 DEF RunOK
<1>7. IsContext(context') /\ answer' \in {"none"} \cup Answers
  BY <1>1, <1>3
<1> QED BY <1>2, <1>5, <1>6, <1>7 DEF ChainTyped, StartNames

\* The event that runs has not succeeded before, so that ran stays in order.
LEMMA ExecuteReports ==
  ASSUME ChainTyped, ReportInv, StatusInv, Execute
  PROVE  ReportInv' /\ StatusInv'
<1>1. UNCHANGED <<chain, at, result>> /\ answer = "none" /\ at.event \in 1..Len(chain.events)
  BY ExecuteShape
<1>2. PICK a \in Answers : answer' = a /\ ran' = Append(ran, <<at.event, a>>)
  BY ExecuteShape DEF RunOK
<1>3. ran \in Seq(Nat \X Answers) /\ Len(ran) \in Nat
  BY DEF ChainTyped
<1>4. /\ Len(ran') = Len(ran) + 1 /\ ran'[Len(ran) + 1] = <<at.event, a>>
      /\ \A i \in 1..Len(ran) : ran'[i] = ran[i]
      /\ DOMAIN ran' = 1..Len(ran) + 1 /\ DOMAIN ran = 1..Len(ran)
  BY <1>2, <1>3
<1>5. ~Succeeds(ran, at.event)
  BY <1>1 DEF ReportInv
<1>6. ASSUME NEW i, i # at.event PROVE Succeeds(ran', i) <=> Succeeds(ran, i)
  <2>1. <<at.event, a>> # <<i, "success">>
    BY <1>6
  <2> QED BY <1>4, <2>1 DEF Succeeds
<1>7. Succeeds(ran', at.event) <=> a = "success"
  <2>1. Len(ran) + 1 \in DOMAIN ran'
    BY <1>3, <1>4
  <2>2. a = "success" => Succeeds(ran', at.event)
    BY <1>4, <2>1 DEF Succeeds
  <2>3. ASSUME NEW j \in DOMAIN ran', ran'[j] = <<at.event, "success">> PROVE a = "success"
    <3>1. CASE j = Len(ran) + 1
      BY <1>4, <2>3, <3>1
    <3>2. CASE j # Len(ran) + 1
      BY <1>3, <1>4, <1>5, <2>3, <3>2 DEF Succeeds
    <3> QED BY <3>1, <3>2
  <2> QED BY <2>2, <2>3 DEF Succeeds
<1>8. ReportInv'
  <2>1. (\A i \in DOMAIN ran : ran[i][1] \in 1..at.event /\ ran[i][1] <= Len(chain.events))'
    BY <1>1, <1>4 DEF ReportInv
  <2>2. (answer = "success" <=> Succeeds(ran, at.event))'
    BY <1>1, <1>2, <1>7
  <2>3. (\A j, k \in DOMAIN ran : j < k => ran[j][1] <= ran[k][1] /\ ran[j] # <<ran[k][1], "success">>)'
    <3> SUFFICES ASSUME NEW j \in DOMAIN ran', NEW k \in DOMAIN ran', j < k
                 PROVE  ran'[j][1] <= ran'[k][1] /\ ran'[j] # <<ran'[k][1], "success">>
      OBVIOUS
    <3>1. j \in DOMAIN ran /\ ran'[j] = ran[j]
      BY <1>3, <1>4
    <3>2. CASE k = Len(ran) + 1
      BY <1>4, <1>5, <3>1, <3>2 DEF ReportInv, Succeeds
    <3>3. CASE k # Len(ran) + 1
      <4>1. k \in DOMAIN ran /\ ran'[k] = ran[k]
        BY <1>3, <1>4, <3>3
      <4> QED BY <3>1, <4>1 DEF ReportInv
    <3> QED BY <3>2, <3>3
  <2>4. (\A i \in DOMAIN result.failures : result.failures[i] \in 1..at.event - 1 /\ ~Succeeds(ran, result.failures[i]))'
    <3> SUFFICES ASSUME NEW i \in DOMAIN result.failures
                 PROVE  result.failures[i] \in 1..at.event - 1 /\ ~Succeeds(ran', result.failures[i])
      BY <1>1
    <3>1. result.failures[i] \in 1..at.event - 1 /\ ~Succeeds(ran, result.failures[i])
      BY DEF ReportInv
    <3>2. result.failures[i] # at.event
      BY <1>1, <3>1
    <3> QED BY <1>6, <3>1, <3>2
  <2>5. (\A i \in 1..at.event - 1 : ~Succeeds(ran, i) => Noted(result.failures, i))'
    <3> SUFFICES ASSUME NEW i \in 1..at.event - 1, ~Succeeds(ran', i)
                 PROVE  Noted(result.failures, i)
      BY <1>1 DEF Noted
    <3>1. i # at.event
      BY <1>1
    <3> QED BY <1>6, <3>1 DEF ReportInv
  <2>6. (/\ \A j, k \in DOMAIN result.failures : j < k => result.failures[j] < result.failures[k]
         /\ Len(result.failures) <= MaxFailures)'
    BY <1>1 DEF ReportInv
  <2> QED BY <2>1, <2>2, <2>3, <2>4, <2>5, <2>6 DEF ReportInv
<1>9. StatusInv'
  <2>1. at.event > 1 => (Succeeds(ran', at.event - 1) <=> Succeeds(ran, at.event - 1))
    BY <1>1, <1>6
  <2> QED BY <1>1, <2>1 DEF StatusInv
<1> QED BY <1>8, <1>9

\* What a settled event leaves in the result: a failure, if there is room for it.
NoRoom == Len(result.failures) >= MaxFailures
LEMMA SettleShape ==
  ASSUME ChainTyped, Settle
  PROVE  /\ UNCHANGED <<chain, context, touched, ran>>
         /\ at.event \in 1..Len(chain.events) /\ Executing /\ answer \in Answers /\ at.depth = 0
         /\ answer' = "none" /\ at' = [at EXCEPT !.event = @ + 1]
         /\ at'.event = at.event + 1 /\ at'.depth = at.depth /\ DOMAIN at' = DOMAIN at /\ IsContext(at')
         /\ DOMAIN result' = DOMAIN result /\ IsContext(result')
         /\ result'.failures = IF answer = "success" \/ NoRoom THEN result.failures
                               ELSE Append(result.failures, at.event)
         /\ IF answer # "success" /\ Stops(chain.mode, answer)
            THEN ~result'.success /\ result'.success \in BOOLEAN /\ result'.status = "Failed"
            ELSE /\ result'.success = result.success
                 /\ result'.status = IF at.event = Len(chain.events) /\ result'.failures # <<>>
                                     THEN "CompletedWithWarnings" ELSE "Completed"
<1>1. /\ UNCHANGED <<chain, context, touched, ran>> /\ answer' = "none" /\ at' = [at EXCEPT !.event = @ + 1]
      /\ Executing /\ answer # "none" /\ at.depth = 0
  BY DEF Settle
<1>2. /\ DOMAIN at = {"event", "depth"} /\ IsContext(at) /\ at.event \in 1..Len(chain.events) /\ answer \in Answers
      /\ Len(chain.events) \in Nat
  BY <1>1 DEF ChainTyped, Executing
<1>3. at'.event = at.event + 1 /\ at'.depth = at.depth /\ DOMAIN at' = DOMAIN at /\ IsContext(at')
  BY <1>1, <1>2 DEF IsContext
<1>4. DOMAIN result = {"success", "status", "failures"} /\ IsContext(result) /\ result.status = "Completed"
  BY <1>1 DEF ChainTyped, Executing
<1>5. NoRoom <=> ~(Len(result.failures) < MaxFailures)
  <2>1. Len(result.failures) \in Nat /\ MaxFailures \in Nat
    BY ChainAssumption DEF ChainTyped
  <2> QED BY <2>1 DEF NoRoom
<1> DEFINE r == IF answer \in Failures THEN add_failure(result) ELSE result
           fs == IF answer = "success" \/ NoRoom THEN result.failures ELSE Append(result.failures, at.event)
<1>6. answer \in Failures <=> answer # "success"
  BY <1>2 DEF Failures, Answers
<1>7. /\ DOMAIN r = DOMAIN result /\ IsContext(r) /\ r.status = "Completed" /\ r.success = result.success
      /\ r.failures = fs
  <2>1. CASE answer \in Failures /\ ~NoRoom
    <3>1. r = [result EXCEPT !.failures = Append(@, at.event)]
      BY <1>5, <2>1 DEF add_failure
    <3> DEFINE v == Append(result.failures, at.event)
    <3>2. r = [result EXCEPT !.failures = v] /\ fs = v
      BY <1>6, <2>1, <3>1
    <3> HIDE DEF v, r, fs
    <3> QED BY <1>4, <3>2 DEF IsContext
  <2>2. CASE ~(answer \in Failures /\ ~NoRoom)
    <3>1. r = result
      BY <1>5, <2>2 DEF add_failure
    <3> QED BY <1>4, <1>6, <2>2, <3>1
  <2> QED BY <2>1, <2>2
<1>8. result' = IF answer \in Failures /\ Stops(chain.mode, answer) THEN [r EXCEPT !.success = FALSE, !.status = "Failed"]
                ELSE IF at.event = Len(chain.events) /\ r.failures # <<>>
                     THEN [r EXCEPT !.status = "CompletedWithWarnings"] ELSE r
  BY DEF Settle
<1> HIDE DEF r, fs
<1>9. CASE answer \in Failures /\ Stops(chain.mode, answer)
  <2>1. result' = [r EXCEPT !.success = FALSE, !.status = "Failed"]
    BY <1>8, <1>9
  <2>2. DOMAIN result' = DOMAIN result /\ IsContext(result') /\ result'.failures = fs
    BY <1>4, <1>7, <2>1 DEF IsContext
  <2>3. ~result'.success /\ result'.success \in BOOLEAN /\ result'.status = "Failed"
    BY <1>4, <1>7, <2>1
  <2> QED BY <1>1, <1>2, <1>3, <1>6, <1>9, <2>2, <2>3 DEF fs
<1>10. CASE ~(answer \in Failures /\ Stops(chain.mode, answer))
  <2>1. CASE at.event = Len(chain.events) /\ r.failures # <<>>
    <3>1. result' = [r EXCEPT !.status = "CompletedWithWarnings"]
      BY <1>8, <1>10, <2>1
    <3>2. DOMAIN result' = DOMAIN result /\ IsContext(result') /\ result'.failures = fs
      BY <1>4, <1>7, <3>1 DEF IsContext
    <3>3. result'.success = result.success /\ result'.status = "CompletedWithWarnings"
      BY <1>4, <1>7, <3>1
    <3> QED BY <1>1, <1>2, <1>3, <1>6, <1>7, <1>10, <2>1, <3>2, <3>3 DEF fs
  <2>2. CASE ~(at.event = Len(chain.events) /\ r.failures # <<>>)
    <3>1. result' = r
      BY <1>8, <1>10, <2>2
    <3> QED BY <1>1, <1>2, <1>3, <1>6, <1>7, <1>10, <2>2, <3>1 DEF fs
  <2> QED BY <2>1, <2>2
<1> QED BY <1>9, <1>10

\* Settling an event keeps the types.
LEMMA SettleTyped ==
  ASSUME ChainTyped, Settle
  PROVE  ChainTyped'
<1>1. UNCHANGED <<chain, context, touched, ran>> /\ at'.depth = at.depth /\ answer' = "none"
  BY SettleShape
<1>2. at'.event \in 1..Len(chain.events) + 1 /\ DOMAIN at' = {"event", "depth"} /\ IsContext(at')
  <2>1. Len(chain.events) \in Nat /\ DOMAIN at = {"event", "depth"}
    BY DEF ChainTyped
  <2>2. at.event \in 1..Len(chain.events) /\ at'.event = at.event + 1 /\ DOMAIN at' = DOMAIN at /\ IsContext(at')
    BY SettleShape
  <2> QED BY <2>1, <2>2
<1>3. result'.status \in Statuses /\ result'.success \in BOOLEAN
  <2>1. result.success \in BOOLEAN
    BY DEF ChainTyped
  <2> QED BY <2>1, SettleShape DEF Statuses
<1>4. result'.failures \in Seq(Nat) /\ DOMAIN result' = {"success", "status", "failures"} /\ IsContext(result')
  <2>1. result.failures \in Seq(Nat) /\ at.event \in Nat /\ DOMAIN result = {"success", "status", "failures"}
    BY DEF ChainTyped
  <2>2. result'.failures \in {result.failures, Append(result.failures, at.event)}
    BY SettleShape
  <2>3. Append(result.failures, at.event) \in Seq(Nat)
    BY <2>1
  <2> QED BY <2>1, <2>2, <2>3, SettleShape
<1> QED BY <1>1, <1>2, <1>3, <1>4 DEF ChainTyped

\* A failure is added behind the earlier ones, or all of them are earlier; an event
\* that succeeded is not.
LEMMA SettleReports ==
  ASSUME ChainTyped, ReportInv, StatusInv, Settle
  PROVE  ReportInv' /\ StatusInv'
<1> DEFINE old == result.failures
           new == result'.failures
           n == at.event
<1>1. /\ UNCHANGED <<chain, ran>> /\ n \in 1..Len(chain.events) /\ at'.event = n + 1 /\ answer' = "none"
      /\ answer \in Answers
  BY SettleShape
<1>2. old \in Seq(Nat) /\ ran \in Seq(Nat \X Answers) /\ MaxFailures \in Nat \ {0}
  BY ChainAssumption DEF ChainTyped
<1>3. /\ \A i \in DOMAIN old : old[i] \in 1..n - 1 /\ ~Succeeds(ran, old[i])
      /\ \A i \in 1..n - 1 : ~Succeeds(ran, i) => Noted(old, i)
      /\ \A j, k \in DOMAIN old : j < k => old[j] < old[k]
      /\ Len(old) <= MaxFailures
      /\ answer = "success" <=> Succeeds(ran, n)
  BY DEF ReportInv
<1>4. ~Succeeds(ran, n + 1)
  <2>1. \A i \in DOMAIN ran : ran[i][1] \in 1..n
    BY DEF ReportInv
  <2> QED BY <1>1, <2>1 DEF Succeeds
<1>5. /\ \A i \in DOMAIN new : new[i] \in 1..n /\ ~Succeeds(ran, new[i])
      /\ \A i \in 1..n : ~Succeeds(ran, i) => Noted(new, i)
      /\ \A j, k \in DOMAIN new : j < k => new[j] < new[k]
      /\ Len(new) <= MaxFailures
      /\ answer # "success" => new # <<>>
      /\ answer = "success" => new = old
  <2>1. CASE answer = "success"
    <3>1. new = old
      BY <2>1, SettleShape
    <3> HIDE DEF old, new, n
    <3>2. Succeeds(ran, n) /\ Len(old) \in Nat
      BY <1>2, <1>3, <2>1
    <3>3. \A i \in 1..n : ~Succeeds(ran, i) => Noted(old, i)
      <4>1. \A i \in 1..n : ~Succeeds(ran, i) => i \in 1..n - 1
        BY <1>1, <3>2
      <4> QED BY <1>3, <4>1
    <3>4. \A i \in DOMAIN old : old[i] \in 1..n /\ ~Succeeds(ran, old[i])
      BY <1>1, <1>3
    <3>5. /\ \A j, k \in DOMAIN old : j < k => old[j] < old[k]
          /\ Len(old) <= MaxFailures
      BY <1>3
    <3> QED BY <2>1, <3>1, <3>3, <3>4, <3>5
  <2>2. CASE answer # "success" /\ ~NoRoom
    <3>1. new = Append(old, n) /\ Len(old) < MaxFailures
      <4>1. new = Append(old, n)
        BY <2>2, SettleShape
      <4> HIDE DEF new
      <4> QED BY <1>2, <2>2, <4>1 DEF NoRoom
    <3> HIDE DEF old, new, n
    <3>2. ~Succeeds(ran, n)
      BY <1>3, <2>2
    <3>3. /\ Len(new) = Len(old) + 1 /\ new[Len(old) + 1] = n /\ \A i \in 1..Len(old) : new[i] = old[i]
          /\ DOMAIN new = 1..Len(old) + 1 /\ DOMAIN old = 1..Len(old) /\ Len(old) \in Nat
      BY <1>1, <1>2, <3>1
    <3>4. ASSUME NEW i \in DOMAIN new PROVE new[i] \in 1..n /\ ~Succeeds(ran, new[i])
      <4>1. CASE i = Len(old) + 1
        BY <1>1, <3>2, <3>3, <4>1
      <4>2. CASE i # Len(old) + 1
        <5>1. i \in DOMAIN old /\ new[i] = old[i]
          BY <3>3, <4>2
        <5> QED BY <1>1, <1>3, <5>1
      <4> QED BY <4>1, <4>2
    <3>5. ASSUME NEW i \in 1..n, ~Succeeds(ran, i) PROVE Noted(new, i)
      <4>1. CASE i = n
        <5>1. Len(old) + 1 \in DOMAIN new
          BY <3>3
        <5> QED BY <3>3, <4>1, <5>1 DEF Noted
      <4>2. CASE i # n
        <5>0. i \in 1..n - 1
          BY <1>1, <4>2
        <5>1. PICK j \in DOMAIN old : old[j] = i
          BY <1>3, <3>1, <3>3, <3>5, <5>0 DEF Noted
        <5>2. j \in DOMAIN new /\ new[j] = i
          BY <3>3, <5>1
        <5> QED BY <5>2 DEF Noted
      <4> QED BY <4>1, <4>2
    <3>6. ASSUME NEW j \in DOMAIN new, NEW k \in DOMAIN new, j < k PROVE new[j] < new[k]
      <4>1. j \in DOMAIN old /\ new[j] = old[j]
        BY <3>3, <3>6
      <4>2. CASE k = Len(old) + 1
        BY <1>1, <1>3, <3>3, <4>1, <4>2
      <4>3. CASE k # Len(old) + 1
        BY <1>3, <3>3, <3>6, <4>1, <4>3
      <4> QED BY <4>2, <4>3
    <3>7. Len(new) <= MaxFailures /\ new # <<>>
      BY <1>2, <3>1, <3>3
    <3> QED BY <2>2, <3>4, <3>5, <3>6, <3>7
  <2>3. CASE answer # "success" /\ NoRoom
    <3>1. new = old /\ Len(old) >= MaxFailures
      BY <2>3, SettleShape DEF NoRoom
    <3> HIDE DEF old, new, n
    <3>2. Len(old) = MaxFailures /\ DOMAIN old = 1..MaxFailures
      BY <1>2, <1>3, <3>1
    <3>3. \A i \in DOMAIN old : old[i] < n
      BY <1>1, <1>3
    <3>4. ASSUME NEW i \in 1..n, ~Succeeds(ran, i) PROVE Noted(old, i)
      <4>1. CASE i = n
        BY <3>2, <3>3, <4>1 DEF Noted
      <4>2. CASE i # n
        <5>1. i \in 1..n - 1
          BY <1>1, <4>2
        <5> QED BY <1>3, <3>4, <5>1
      <4> QED BY <4>1, <4>2
    <3>5. \A i \in DOMAIN old : old[i] \in 1..n /\ ~Succeeds(ran, old[i])
      BY <1>1, <1>3
    <3>6. old # <<>>
      BY <1>2, <3>2
    <3>7. /\ \A j, k \in DOMAIN old : j < k => old[j] < old[k]
          /\ Len(old) <= MaxFailures
      BY <1>3
    <3> QED BY <2>3, <3>1, <3>4, <3>5, <3>6, <3>7
  <2> QED BY <2>1, <2>2, <2>3
<1>6. ReportInv'
  <2>1. /\ \A i \in DOMAIN ran : ran[i][1] \in 1..n + 1 /\ ran[i][1] <= Len(chain.events)
        /\ \A j, k \in DOMAIN ran : j < k => ran[j][1] <= ran[k][1] /\ ran[j] # <<ran[k][1], "success">>
    BY <1>1 DEF ReportInv
  <2>2. answer' = "success" <=> Succeeds(ran, n + 1)
    BY <1>1, <1>4
  <2>3. n + 1 - 1 = n
    BY <1>1
  <2> HIDE DEF new, n
  <2> QED BY <1>1, <1>5, <2>1, <2>2, <2>3 DEF ReportInv, new
<1>7. StatusInv'
  <2>1. /\ result.success <=> result.status # "Failed"
        /\ result.status = "Completed" /\ (chain.mode = "Strict" /\ old # <<>> => result.status = "Failed")
    BY SettleShape DEF StatusInv, Executing
  <2>2. result.success \in BOOLEAN /\ Len(chain.events) \in Nat
    BY DEF ChainTyped
  <2>3. CASE answer # "success" /\ Stops(chain.mode, answer)
    <3>1. result'.status = "Failed" /\ ~result'.success
      BY <2>3, SettleShape
    <3>2. new # <<>> /\ ~Succeeds(ran, n)
      BY <1>3, <1>5, <2>3
    <3>3. at'.event > 1 /\ at'.event - 1 = n
      BY <1>1
    <3> QED BY <1>1, <3>1, <3>2, <3>3 DEF StatusInv
  <2>4. CASE ~(answer # "success" /\ Stops(chain.mode, answer))
    <3>1. /\ result'.success = result.success
          /\ result'.status = IF n = Len(chain.events) /\ new # <<>> THEN "CompletedWithWarnings" ELSE "Completed"
      BY <2>4, SettleShape
    <3>2. chain.mode = "Strict" => new = <<>>
      BY <1>5, <2>1, <2>4 DEF Stops
    <3>3. result'.success
      BY <2>1, <3>1
    <3>4. result'.status # "Failed" /\ (n + 1 = Len(chain.events) + 1 <=> n = Len(chain.events))
      BY <1>1, <2>2, <3>1
    <3> QED BY <1>1, <3>1, <3>2, <3>3, <3>4 DEF StatusInv
  <2> QED BY <2>3, <2>4
<1> QED BY <1>6, <1>7

\* What a key holds after another was set, or itself.
LEMMA SetGet ==
  ASSUME NEW c, NEW k, NEW v, NEW x, NEW w
  PROVE  /\ x # k => GetOr(Set(c, k, v), x, w) = GetOr(c, x, w)
         /\ GetOr(Set(c, k, v), k, w) \in {v, GetOr(c, k, w)}
<1> DEFINE d == Set(c, k, v)
<1>1. d = c \/ Put(d, c, k, v)
  BY SetKeeps
<1> HIDE DEF d
<1>2. /\ x # k => GetOr(d, x, w) = GetOr(c, x, w)
      /\ GetOr(d, k, w) \in {v, GetOr(c, k, w)}
  BY <1>1 DEF GetOr, Has, Put
<1> QED BY <1>2 DEF d

\* What is read after SetAll was there before, or is one of the pairs.
LEMMA SetAllGet ==
  ASSUME NEW c, IsContext(c), NEW pairs, Len(pairs) \in Nat, NEW x, NEW w
  PROVE  \/ GetOr(SetAll(c, pairs), x, w) = GetOr(c, x, w)
         \/ \E i \in 1..Len(pairs) : x = pairs[i][1] /\ GetOr(SetAll(c, pairs), x, w) = pairs[i][2]
<1> DEFINE d == SetAll(c, pairs)
<1>1. /\ DOMAIN c \subseteq DOMAIN d
      /\ \A y \in DOMAIN d : \/ y \in DOMAIN c /\ d[y] = c[y]
                             \/ \E i \in 1..Len(pairs) : y = pairs[i][1] /\ d[y] = pairs[i][2]
  BY SetAllKeeps
<1> HIDE DEF d
<1>2. CASE x \in DOMAIN d
  <2>1. GetOr(d, x, w) = d[x]
    BY <1>2 DEF GetOr, Has
  <2>2. x \in DOMAIN c => GetOr(c, x, w) = c[x]
    BY DEF GetOr, Has
  <2> QED BY <1>1, <1>2, <2>1, <2>2 DEF d
<1>3. CASE x \notin DOMAIN d
  BY <1>1, <1>3 DEF GetOr, Has, d
<1> QED BY <1>2, <1>3

\* What a call leaves: a success and a result that is no error code, unless nothing implements it.
LEMMA CallRun ==
  ASSUME NEW c, IsContext(c), NEW e \in Calls, NEW hw \in Outside(e),
         GetOr(c, "arg3", 0) # U32Max, e # "Unknown" => GetOr(c, "result", 0) # U32Max
  PROVE  /\ GetOr(Run(e, c, hw).context, "arg3", 0) # U32Max
         /\ Run(e, c, hw).answer = "success" <=> e # "Unknown"
         /\ e # "Unknown" => GetOr(Run(e, c, hw).context, "result", 0) # U32Max
<1>1. Run(e, c, hw) = syscall(e, c, hw)
  BY DEF Run, Calls
<1> DEFINE Fine(d) == GetOr(d, "arg3", 0) # U32Max /\ GetOr(d, "result", 0) # U32Max
<1>2. \A v : GetOr(Set(c, "result", v), "arg3", 0) # U32Max
  BY SetGet
<1>3. ASSUME NEW v, v # U32Max, e # "Unknown" PROVE Fine(Set(c, "result", v))
  <2>1. GetOr(Set(c, "result", v), "result", 0) \in {v, GetOr(c, "result", 0)}
    BY SetGet
  <2> QED BY <1>2, <1>3, <2>1
<1>4. CASE e = "Unknown"
  BY <1>1, <1>2, <1>4 DEF syscall, Failed
<1>5. CASE e \in {"Exit", "Read", "Sleep"}
  <2>1. syscall(e, c, hw) = Done(Set(c, "result", 0))
    BY <1>5 DEF syscall
  <2>2. Fine(Set(c, "result", 0))
    BY <1>3, <1>5 DEF U32Max
  <2> QED BY <1>1, <1>5, <2>1, <2>2 DEF Done
<1>6. CASE e = "Yield"
  BY <1>1, <1>6 DEF syscall, Done
<1>7. CASE e = "GetPid"
  <2>1. syscall(e, c, hw) = Done(Set(c, "result", hw))
    BY <1>7 DEF syscall
  <2>2. hw \in {0, 7}
    BY <1>7 DEF Outside
  <2>3. Fine(Set(c, "result", hw))
    BY <1>3, <1>7, <2>2 DEF U32Max
  <2> QED BY <1>1, <1>7, <2>1, <2>3 DEF Done
<1>8. CASE e = "Write"
  <2> DEFINE v == IF GetOr(c, "arg1", 0) \in {1, 2} THEN GetOr(c, "arg3", 0) ELSE 0
  <2>1. syscall(e, c, hw) = Done(Set(c, "result", v))
    BY <1>8 DEF syscall
  <2>2. v # U32Max
    BY DEF U32Max
  <2> HIDE DEF v
  <2>3. Fine(Set(c, "result", v))
    BY <1>3, <1>8, <2>2
  <2> QED BY <1>1, <1>8, <2>1, <2>3 DEF Done
<1>9. CASE e = "Time"
  <2> DEFINE p == << <<"result64", hw>>, <<"result", hw>> >>
             d == SetAll(c, p)
  <2>1. syscall(e, c, hw) = Done(d)
    BY <1>9 DEF syscall
  <2>2. hw \in {0, 7}
    BY <1>9 DEF Outside
  <2>3. Len(p) = 2 /\ p[1] = <<"result64", hw>> /\ p[2] = <<"result", hw>>
    OBVIOUS
  <2> HIDE DEF p
  <2>4. GetOr(d, "arg3", 0) = GetOr(c, "arg3", 0)
    <3>1. \A i \in 1..Len(p) : p[i][1] # "arg3"
      BY <2>3
    <3> QED BY <2>3, <3>1, SetAllGet
  <2>5. GetOr(d, "result", 0) \in {GetOr(c, "result", 0), hw}
    <3>1. \A i \in 1..Len(p) : p[i][2] = hw
      BY <2>3
    <3> QED BY <2>3, <3>1, SetAllGet
  <2> HIDE DEF d
  <2> QED BY <1>1, <1>9, <2>1, <2>2, <2>4, <2>5 DEF Done, U32Max
<1> QED BY <1>4, <1>5, <1>6, <1>7, <1>8, <1>9 DEF Calls

\* Running a handler keeps what holds of a chain made for one call.
LEMMA ExecuteCalls ==
  ASSUME ChainTyped, CallInv, Execute
  PROVE  CallInv'
<1> SUFFICES ASSUME chain.events # <<>>, chain.events[1] \in Calls PROVE CallInv'
  BY ExecuteShape DEF CallInv
<1>1. /\ Len(chain.events) = 1 /\ chain.mode = "Strict" /\ GetOr(context, "arg3", 0) # U32Max
      /\ Event # "Unknown" => GetOr(context, "result", 0) # U32Max
      /\ Event = "Unknown" => ~Succeeds(ran, 1)
      /\ Event \in Calls /\ Event = chain.events[1] /\ at.event = 1
  BY ExecuteShape DEF CallInv, Event
<1>2. PICK hw \in Outside(Event) : LET r == Run(Event, context, hw) IN
         context' = r.context /\ ran' = Append(ran, <<at.event, r.answer>>)
  <2>1. \E hw \in Outside(Event) : LET r == Run(Event, context, hw) IN
           /\ RunOK(r) /\ context' = r.context /\ answer' = r.answer /\ touched' = r.touched
           /\ ran' = Append(ran, <<at.event, r.answer>>)
    BY ExecuteShape
  <2> QED BY <2>1
<1>3. UNCHANGED chain /\ IsContext(context) /\ ran \in Seq(Nat \X Answers) /\ Len(ran) \in Nat
  <2>1. UNCHANGED chain
    BY ExecuteShape
  <2>2. IsContext(context) /\ ran \in Seq(Nat \X Answers)
    BY DEF ChainTyped
  <2>3. Len(ran) \in Nat
    BY <2>2
  <2> QED BY <2>1, <2>2, <2>3
<1> DEFINE r == Run(Event, context, hw)
<1>4. /\ GetOr(r.context, "arg3", 0) # U32Max
      /\ r.answer = "success" <=> Event # "Unknown"
      /\ Event # "Unknown" => GetOr(r.context, "result", 0) # U32Max
  BY <1>1, <1>3, CallRun
<1> HIDE DEF r
<1>5. /\ context' = r.context /\ ran' = Append(ran, <<1, r.answer>>)
  BY <1>1, <1>2 DEF r
<1>6. /\ DOMAIN ran' = 1..Len(ran) + 1 /\ ran'[Len(ran) + 1] = <<1, r.answer>>
      /\ \A j \in 1..Len(ran) : ran'[j] = ran[j]
  BY <1>3, <1>5
<1>7. CASE Event = "Unknown"
  <2>1. ASSUME NEW j \in DOMAIN ran' PROVE ran'[j] # <<1, "success">>
    <3>1. CASE j = Len(ran) + 1
      BY <1>4, <1>6, <1>7, <3>1
    <3>2. CASE j # Len(ran) + 1
      <4>1. j \in DOMAIN ran /\ j \in 1..Len(ran)
        BY <1>3, <1>6, <3>2
      <4> QED BY <1>1, <1>3, <1>6, <1>7, <4>1 DEF Succeeds
    <3> QED BY <3>1, <3>2
  <2>2. ~Succeeds(ran', 1)
    BY <2>1 DEF Succeeds
  <2> QED BY <1>1, <1>3, <1>4, <1>5, <1>7, <2>2 DEF CallInv
<1>8. CASE Event # "Unknown"
  <2>1. Len(ran) + 1 \in DOMAIN ran'
    BY <1>3, <1>6
  <2>2. Succeeds(ran', 1)
    BY <1>4, <1>6, <1>8, <2>1 DEF Succeeds
  <2> QED BY <1>1, <1>3, <1>4, <1>5, <1>8, <2>2 DEF CallInv
<1> QED BY <1>7, <1>8

\* So does settling it.
LEMMA SettleCalls ==
  ASSUME ChainTyped, ReportInv, CallInv, Settle
  PROVE  CallInv'
BY SettleShape DEF CallInv

\* u is t with a start behind it.
Starts(u, t, n, screen) ==
  /\ \A D : StartsIn(u, D) = IF n \in D THEN StartsIn(t, D) \cup {Len(t) + 1} ELSE StartsIn(t, D)
  /\ \A i \in DOMAIN t : u[i] = t[i]
  /\ u[Len(t) + 1] = <<n, screen>> /\ Len(t) + 1 \notin DOMAIN t

\* A driver that starts is behind the earlier ones in touched.
LEMMA StartsMore ==
  ASSUME NEW S, NEW t \in Seq(StartNames \X S), NEW n, NEW screen
  PROVE  Starts(Append(t, <<n, screen>>), t, n, screen)
<1> DEFINE u == Append(t, <<n, screen>>)
<1>1. DOMAIN t = 1..Len(t) /\ Len(t) \in Nat
  OBVIOUS
<1>2. /\ DOMAIN u = 1..Len(t) + 1 /\ u[Len(t) + 1] = <<n, screen>>
      /\ \A i \in 1..Len(t) : u[i] = t[i]
  <2> DEFINE F == StartNames \X S
             e == <<n, screen>>
             E == F \cup {e}
  <2>1. t \in Seq(F) /\ u = Append(t, e) /\ e \in E
    OBVIOUS
  <2> HIDE DEF F, e, u
  <2>2. t \in Seq(E)
    BY <2>1
  <2> HIDE DEF E
  <2>3. DOMAIN u = 1..Len(t) + 1 /\ u[Len(t) + 1] = e
    BY <2>1, <2>2
  <2>4. \A i \in 1..Len(t) : u[i] = t[i]
    BY <2>1, <2>2
  <2> QED BY <2>3, <2>4 DEF e
<1> HIDE DEF u
<1>3. ASSUME NEW D
      PROVE  StartsIn(u, D) = IF n \in D THEN StartsIn(t, D) \cup {Len(t) + 1} ELSE StartsIn(t, D)
  <2>1. u[Len(t) + 1][1] = n
    BY <1>2
  <2>2. \A i : i \in DOMAIN u <=> i \in DOMAIN t \/ i = Len(t) + 1
    BY <1>1, <1>2
  <2>3. \A i \in DOMAIN t : u[i] = t[i]
    BY <1>1, <1>2
  <2> QED BY <2>1, <2>2, <2>3 DEF StartsIn
<1>4. Starts(u, t, n, screen)
  BY <1>1, <1>2, <1>3 DEF Starts
<1> QED BY <1>4 DEF u

\* d is c with the keys of a framebuffer.
Screened(d, c, gpu, screen) ==
  /\ DOMAIN d = DOMAIN c \cup FbKeys \cup {"hw_cursor"}
  /\ d["gpu_init"] = TRUE /\ d["gpu_type"] = gpu /\ d["fb_width"] = screen
  /\ \A x \in DOMAIN c \ (FbKeys \cup {"hw_cursor"}) : d[x] = c[x]

\* What a context holds after they were set.
LEMMA FramebufferSet ==
  ASSUME NEW c, DOMAIN c \subseteq DriverKeys, Cardinality(DriverKeys) <= MaxEntries, IsContext(c),
         NEW gpu, NEW screen, NEW cursor
  PROVE  Screened(SetAll(c, Framebuffer(gpu, screen, cursor)), c, gpu, screen)
<1> DEFINE p == Framebuffer(gpu, screen, cursor)
           d == SetAll(c, p)
           yes == TRUE
<1>1. IsFramebuffer(p, yes, gpu, screen, cursor)
  BY FramebufferPairs
<1> HIDE DEF p, yes
<1>2. 1..Len(p) = {1, 2, 3, 4, 5, 6, 7, 8} /\ Len(p) \in Nat
  BY <1>1 DEF IsFramebuffer
<1>3. \A i \in 1..Len(p) : p[i][1] \in DriverKeys
  BY <1>1, <1>2 DEF IsFramebuffer, DriverKeys
<1>4. PutAll(d, c, p, Len(p))
  BY <1>2, <1>3, SetAllFits
<1> HIDE DEF d
<1>5. \A i, j \in 1..Len(p) : i < j => p[j][1] # p[i][1]
  BY <1>1, <1>2 DEF IsFramebuffer
<1>6. \A i \in 1..Len(p) : d[p[i][1]] = p[i][2]
  BY <1>4, <1>5 DEF PutAll
<1>7. d["gpu_init"] = yes /\ d["gpu_type"] = gpu /\ d["fb_width"] = screen
  <2>1. d[p[1][1]] = p[1][2] /\ d[p[2][1]] = p[2][2] /\ d[p[4][1]] = p[4][2]
    BY <1>2, <1>6
  <2>2. p[1] = <<"gpu_init", yes>> /\ p[2] = <<"gpu_type", gpu>> /\ p[4] = <<"fb_width", screen>>
    BY <1>1 DEF IsFramebuffer
  <2> QED BY <2>1, <2>2
<1>8. {p[i][1] : i \in 1..Len(p)} = FbKeys \cup {"hw_cursor"}
  BY <1>1, <1>2 DEF FbKeys, IsFramebuffer
<1>9. \A x \in DOMAIN c \ (FbKeys \cup {"hw_cursor"}) : d[x] = c[x]
  <2> SUFFICES ASSUME NEW x \in DOMAIN c, x \notin FbKeys \cup {"hw_cursor"} PROVE d[x] = c[x]
    OBVIOUS
  <2>1. \A i \in 1..Len(p) : p[i][1] # x
    BY <1>8
  <2> QED BY <1>4, <2>1 DEF PutAll
<1>10. Screened(d, c, gpu, screen)
  BY <1>4, <1>7, <1>8, <1>9 DEF PutAll, Screened, yes
<1> QED BY <1>10 DEF d, p

\* d is c with two keys set.
PutTwo(d, c, k, v, l, w) ==
  /\ DOMAIN d = DOMAIN c \cup {k, l} /\ d[k] = v /\ d[l] = w
  /\ \A x \in DOMAIN c \ {k, l} : d[x] = c[x]

\* Two keys that fit are both set.
LEMMA TwoSet ==
  ASSUME NEW c, DOMAIN c \subseteq DriverKeys, Cardinality(DriverKeys) <= MaxEntries, IsContext(c),
         NEW k \in DriverKeys, NEW v, NEW l \in DriverKeys, NEW w, k # l
  PROVE  PutTwo(SetAll(c, << <<k, v>>, <<l, w>> >>), c, k, v, l, w)
<1> DEFINE p == << <<k, v>>, <<l, w>> >>
           d == SetAll(c, p)
<1>1. Len(p) = 2 /\ p[1] = <<k, v>> /\ p[2] = <<l, w>>
  OBVIOUS
<1> HIDE DEF p
<1>2. 1..Len(p) = {1, 2} /\ Len(p) \in Nat
  BY <1>1
<1>3. \A i \in 1..Len(p) : p[i][1] \in DriverKeys
  BY <1>1, <1>2
<1>4. PutAll(d, c, p, Len(p))
  BY <1>2, <1>3, SetAllFits
<1> HIDE DEF d
<1>5. d[k] = v /\ d[l] = w
  <2>1. \A i, j \in 1..Len(p) : i < j => p[j][1] # p[i][1]
    BY <1>1, <1>2
  <2>2. d[p[1][1]] = p[1][2] /\ d[p[2][1]] = p[2][2]
    BY <1>2, <1>4, <2>1 DEF PutAll
  <2> QED BY <1>1, <2>2
<1>6. {p[i][1] : i \in 1..Len(p)} = {k, l}
  BY <1>1, <1>2
<1>7. \A x \in DOMAIN c \ {k, l} : d[x] = c[x]
  BY <1>1, <1>2, <1>4 DEF PutAll
<1>8. PutTwo(d, c, k, v, l, w)
  BY <1>4, <1>5, <1>6, <1>7 DEF PutAll, PutTwo
<1> QED BY <1>8 DEF d, p

\* Each driver's event takes the context and the devices one place further.
DriverRun(p, e) ==
  \A hw \in Outside(e) : LET r == Run(e, context, hw) IN
    r.answer \in {"success", "failure"} /\ ContextOK(r.context, p + 1) /\ TouchedOK(r.context, r.touched)

\* The Rage probe keeps the screen, the cursor and the keys as they should be.
LEMMA AtiRun ==
  ASSUME ChainTyped, Cardinality(DriverKeys) <= MaxEntries, ContextOK(context, 0), TouchedOK(context, touched)
  PROVE  DriverRun(0, "ati_rage_probe")
<1> SUFFICES ASSUME NEW hw \in Outside("ati_rage_probe")
             PROVE  LET r == ati_rage_probe(context, hw) IN
                    r.answer \in {"success", "failure"} /\ ContextOK(r.context, 1) /\ TouchedOK(r.context, r.touched)
  BY DEF DriverRun, Run
<1> DEFINE r == ati_rage_probe(context, hw)
<1>1. ContextOK(context, 1)
  BY DEF ContextOK
<1>2. CASE hw # "works"
  BY <1>1, <1>2 DEF ati_rage_probe, Failed
<1>3. CASE hw = "works"
  <2> DEFINE c == context
             d == SetAll(c, Framebuffer("ATI_RAGE", "800x600", TRUE))
             u == Append(touched, <<"ati_rage", "800x600">>)
  <2>1. r.context = d /\ r.touched = u /\ r.answer = "success"
    BY <1>3 DEF ati_rage_probe, Started, Done
  <2>2. Screened(d, c, "ATI_RAGE", "800x600")
    BY FramebufferSet DEF ContextOK, ChainTyped
  <2>3. PICK S : touched \in Seq(StartNames \X S)
    BY DEF ChainTyped, StartNames
  <2>4. Starts(u, touched, "ati_rage", "800x600")
    BY <2>3, StartsMore
  <2>5. StartsIn(touched, {"framebuffer"}) = {} /\ StartsIn(touched, Pointers) = {}
        /\ ~Has(c, "scr_width") /\ ~Has(c, "input_init")
    BY DEF ContextOK, TouchedOK
  <2> HIDE DEF c, d, u
  <2>6. ContextOK(d, 1)
    BY <2>2, <2>5 DEF ContextOK, Has, VesaKeys, FbKeys, DriverKeys, Screened, c
  <2>7. TouchedOK(d, u)
    BY <2>2, <2>4, <2>5 DEF TouchedOK, Has, FbKeys, Once, Pointers, Screened, Starts
  <2> HIDE DEF r
  <2> QED BY <2>1, <2>6, <2>7 DEF r
<1> QED BY <1>2, <1>3

\* So does the VESA fallback.
LEMMA VesaRun ==
  ASSUME ChainTyped, Cardinality(DriverKeys) <= MaxEntries, ContextOK(context, 1), TouchedOK(context, touched)
  PROVE  DriverRun(1, "vesa_fallback")
<1> SUFFICES ASSUME NEW hw
             PROVE  LET r == vesa_fallback(context, hw) IN
                    r.answer \in {"success", "failure"} /\ ContextOK(r.context, 2) /\ TouchedOK(r.context, r.touched)
  BY DEF DriverRun, Run
<1> DEFINE r == vesa_fallback(context, hw)
<1>1. CASE Has(context, "gpu_init")
  <2>1. ContextOK(context, 2)
    BY <1>1 DEF ContextOK, FbKeys, Has
  <2>2. r = Done(context)
    BY <1>1 DEF vesa_fallback, GetOr, ContextOK
  <2> QED BY <2>1, <2>2 DEF Done
<1>2. CASE ~Has(context, "gpu_init") /\ ~(VesaKeys \subseteq DOMAIN context)
  <2>1. ContextOK(context, 2)
    BY <1>2 DEF ContextOK, VesaKeys, Has
  <2>2. r = Failed(context)
    BY <1>2 DEF vesa_fallback, GetOr
  <2> QED BY <2>1, <2>2 DEF Failed
<1>3. CASE ~Has(context, "gpu_init") /\ VesaKeys \subseteq DOMAIN context
  <2> DEFINE c == context
             d == SetAll(c, Framebuffer("VESA", c["vesa_w"], FALSE))
  <2>1. r.context = d /\ r.touched = touched /\ r.answer = "success"
    BY <1>3 DEF vesa_fallback, Done, GetOr
  <2>2. Screened(d, c, "VESA", c["vesa_w"])
    BY FramebufferSet DEF ContextOK, ChainTyped
  <2>3. /\ StartsIn(touched, {"framebuffer"}) = {} /\ StartsIn(touched, Pointers) = {}
        /\ ~Has(c, "scr_width") /\ ~Has(c, "input_init")
    BY DEF ContextOK, TouchedOK
  <2>4. StartsIn(touched, {"ati_rage"}) = {}
    BY <1>3 DEF ContextOK, TouchedOK, Has, FbKeys
  <2> HIDE DEF c, d
  <2>5. ContextOK(d, 2)
    BY <1>3, <2>2, <2>3 DEF ContextOK, Has, VesaKeys, FbKeys, DriverKeys, Screened, c
  <2>6. TouchedOK(d, touched)
    BY <2>2, <2>3, <2>4 DEF TouchedOK, Has, FbKeys, Once, Pointers, Screened, Starts
  <2> HIDE DEF r
  <2> QED BY <2>1, <2>5, <2>6 DEF r
<1> QED BY <1>1, <1>2, <1>3

\* So does the framebuffer.
LEMMA FramebufferRun ==
  ASSUME ChainTyped, Cardinality(DriverKeys) <= MaxEntries, ContextOK(context, 2), TouchedOK(context, touched)
  PROVE  DriverRun(2, "framebuffer_init")
<1> SUFFICES ASSUME NEW hw
             PROVE  LET r == framebuffer_init(context, hw) IN
                    r.answer \in {"success", "failure"} /\ ContextOK(r.context, 3) /\ TouchedOK(r.context, r.touched)
  BY DEF DriverRun, Run
<1> DEFINE r == framebuffer_init(context, hw)
           given == {"fb_addr", "fb_width", "fb_height", "fb_bpp", "fb_pitch"} \subseteq DOMAIN context
<1>1. given <=> Has(context, "fb_width")
  BY DEF ContextOK, Has, FbKeys
<1>2. CASE ~given
  <2>1. ContextOK(context, 3)
    BY <1>1, <1>2 DEF ContextOK
  <2>2. r = Failed(context)
    BY <1>2 DEF framebuffer_init
  <2> QED BY <2>1, <2>2 DEF Failed
<1>3. CASE given
  <2> DEFINE c == context
             w == c["fb_width"]
             v == c["fb_height"]
             d == SetAll(c, << <<"scr_width", w>>, <<"scr_height", v>> >>)
             u == Append(touched, <<"framebuffer", w>>)
  <2>1. r.context = d /\ r.touched = u /\ r.answer = "success"
    <3>1. r = Started(d, "framebuffer", w)
      BY <1>3 DEF framebuffer_init
    <3> QED BY <3>1 DEF Started, Done
  <2>2. PutTwo(d, c, "scr_width", w, "scr_height", v)
    <3>1. "scr_width" \in DriverKeys /\ "scr_height" \in DriverKeys
      BY DEF DriverKeys
    <3>2. DOMAIN c \subseteq DriverKeys /\ IsContext(c)
      BY DEF ContextOK, ChainTyped
    <3> HIDE DEF c, w, v
    <3> QED BY <3>1, <3>2, TwoSet
  <2>3. PICK S : touched \in Seq(StartNames \X S)
    BY DEF ChainTyped, StartNames
  <2>4. Starts(u, touched, "framebuffer", w)
    BY <2>3, StartsMore
  <2>5. /\ StartsIn(touched, {"framebuffer"}) = {} /\ StartsIn(touched, Pointers) = {}
        /\ ~Has(c, "scr_width") /\ ~Has(c, "input_init")
    BY DEF ContextOK, TouchedOK
  <2>6. Has(c, "fb_width") /\ w = c["fb_width"]
    BY <1>1, <1>3
  <2> HIDE DEF c, d, u, w, v
  <2>7. ContextOK(d, 3)
    BY <2>2, <2>5, <2>6 DEF ContextOK, Has, VesaKeys, FbKeys, DriverKeys, PutTwo, c
  <2>8. TouchedOK(d, u)
    <3>1. /\ StartsIn(u, {"framebuffer"}) = {Len(touched) + 1} /\ StartsIn(u, Pointers) = {}
          /\ StartsIn(u, {"ati_rage"}) = StartsIn(touched, {"ati_rage"})
          /\ u[Len(touched) + 1][2] = w
      BY <2>4, <2>5 DEF Starts, Pointers
    <3>2. d["fb_width"] = w /\ Has(d, "scr_width") /\ ~Has(d, "input_init")
      BY <2>2, <2>5, <2>6 DEF PutTwo, Has
    <3>3. Has(d, "gpu_type") /\ d["gpu_type"] = "ATI_RAGE" <=> Has(c, "gpu_type") /\ c["gpu_type"] = "ATI_RAGE"
      BY <2>2 DEF PutTwo, Has
    <3> QED BY <3>1, <3>2, <3>3 DEF TouchedOK, Once, c
  <2> HIDE DEF r
  <2> QED BY <2>1, <2>7, <2>8 DEF r
<1> QED BY <1>2, <1>3

\* A pointing device starts at most once, with the screen that was set.
LEMMA PointerStarts ==
  ASSUME ChainTyped, Cardinality(DriverKeys) <= MaxEntries, NEW p \in {3, 4}, ContextOK(context, p),
         TouchedOK(context, touched), Has(context, "scr_width"), ~Has(context, "input_init"),
         NEW n \in Pointers, NEW type
  PROVE  LET d == SetAll(context, << <<"input_init", TRUE>>, <<"input_type", type>> >>)
             u == Append(touched, <<n, Screen(context)>>)
         IN  ContextOK(d, p + 1) /\ TouchedOK(d, u)
<1> DEFINE c == context
           yes == TRUE
           screen == Screen(c)
           d == SetAll(c, << <<"input_init", yes>>, <<"input_type", type>> >>)
           u == Append(touched, <<n, screen>>)
<1>1. PutTwo(d, c, "input_init", yes, "input_type", type)
  <2>1. "input_init" \in DriverKeys /\ "input_type" \in DriverKeys
    BY DEF DriverKeys
  <2>2. DOMAIN c \subseteq DriverKeys /\ IsContext(c)
    BY DEF ContextOK, ChainTyped
  <2> HIDE DEF c, yes
  <2> QED BY <2>1, <2>2, TwoSet
<1>2. Starts(u, touched, n, screen)
  <2>1. PICK S : touched \in Seq(StartNames \X S)
    BY DEF ChainTyped, StartNames
  <2> HIDE DEF screen
  <2> QED BY <2>1, StartsMore
<1>3. screen = c["fb_width"] /\ Has(c, "fb_width")
  BY DEF Screen, GetOr, ContextOK
<1>4. StartsIn(touched, Pointers) = {}
  BY DEF TouchedOK
<1> HIDE DEF c, d, u, screen
<1>5. ContextOK(d, p + 1)
  BY <1>1 DEF ContextOK, Has, VesaKeys, FbKeys, DriverKeys, PutTwo, c
<1>6. TouchedOK(d, u)
  <2>1. /\ StartsIn(u, Pointers) = {Len(touched) + 1}
        /\ StartsIn(u, {"framebuffer"}) = StartsIn(touched, {"framebuffer"})
        /\ StartsIn(u, {"ati_rage"}) = StartsIn(touched, {"ati_rage"})
        /\ u[Len(touched) + 1][2] = screen
    BY <1>2, <1>4 DEF Starts, Pointers
  <2>5. \A i \in StartsIn(touched, {"framebuffer"}) : u[i] = touched[i]
    BY <1>2 DEF Starts, StartsIn
  <2>2. d["fb_width"] = screen /\ Has(d, "scr_width") /\ Has(d, "input_init")
    BY <1>1, <1>3 DEF PutTwo, Has, c
  <2>3. Has(d, "gpu_type") /\ d["gpu_type"] = "ATI_RAGE" <=> Has(c, "gpu_type") /\ c["gpu_type"] = "ATI_RAGE"
    BY <1>1 DEF PutTwo, Has
  <2>4. \A i \in StartsIn(touched, {"framebuffer"}) : touched[i][2] = screen
    BY <1>3 DEF TouchedOK, c
  <2> QED BY <2>1, <2>2, <2>3, <2>4, <2>5 DEF TouchedOK, Once, c
<1> QED BY <1>5, <1>6 DEF c, d, u, screen

\* So does the touchpad, behind the framebuffer.
LEMMA SynapticsRun ==
  ASSUME ChainTyped, Cardinality(DriverKeys) <= MaxEntries, ContextOK(context, 3), TouchedOK(context, touched),
         Has(context, "scr_width")
  PROVE  DriverRun(3, "synaptics_init")
<1> SUFFICES ASSUME NEW hw
             PROVE  LET r == synaptics_init(context, hw) IN
                    r.answer \in {"success", "failure"} /\ ContextOK(r.context, 4) /\ TouchedOK(r.context, r.touched)
  BY DEF DriverRun, Run
<1> DEFINE r == synaptics_init(context, hw)
<1>1. ContextOK(context, 4)
  BY DEF ContextOK
<1>2. CASE Has(context, "input_init")
  <2>1. r = Done(context)
    BY <1>2 DEF synaptics_init, GetOr, ContextOK
  <2> QED BY <1>1, <2>1 DEF Done
<1>3. CASE ~Has(context, "input_init") /\ hw = "fails"
  <2>1. r = Failed(context)
    BY <1>3 DEF synaptics_init, GetOr
  <2> QED BY <1>1, <2>1 DEF Failed
<1>4. CASE ~Has(context, "input_init") /\ hw # "fails"
  <2> DEFINE type == IF hw = "works" THEN "SYNAPTICS" ELSE "PS2_VIA_SYNAPTICS"
             d == SetAll(context, << <<"input_init", TRUE>>, <<"input_type", type>> >>)
             u == Append(touched, <<"synaptics", Screen(context)>>)
  <2>1. r = Started(d, "synaptics", Screen(context))
    BY <1>4 DEF synaptics_init, GetOr
  <2>2. r.context = d /\ r.touched = u /\ r.answer = "success"
    BY <2>1 DEF Started, Done
  <2>3. "synaptics" \in Pointers
    BY DEF Pointers
  <2>4. ContextOK(d, 3 + 1) /\ TouchedOK(d, u)
    <3> HIDE DEF type
    <3> QED BY <1>4, <2>3, PointerStarts
  <2> HIDE DEF r, d, u
  <2> QED BY <2>2, <2>4 DEF r
<1> QED BY <1>2, <1>3, <1>4

\* So does the mouse, whichever came before it.
LEMMA MouseRun ==
  ASSUME ChainTyped, Cardinality(DriverKeys) <= MaxEntries, ContextOK(context, 4), TouchedOK(context, touched),
         Has(context, "scr_width")
  PROVE  DriverRun(4, "ps2_mouse_init")
<1> SUFFICES ASSUME NEW hw
             PROVE  LET r == ps2_mouse_init(context, hw) IN
                    r.answer \in {"success", "failure"} /\ ContextOK(r.context, 5) /\ TouchedOK(r.context, r.touched)
  BY DEF DriverRun, Run
<1> DEFINE r == ps2_mouse_init(context, hw)
<1>1. CASE Has(context, "input_init")
  <2>1. r = Done(context)
    BY <1>1 DEF ps2_mouse_init, GetOr, ContextOK
  <2>2. ContextOK(context, 5)
    BY <1>1 DEF ContextOK
  <2> QED BY <2>1, <2>2 DEF Done
<1>2. CASE ~Has(context, "input_init")
  <2> DEFINE d == SetAll(context, << <<"input_init", TRUE>>, <<"input_type", "PS2_MOUSE">> >>)
             u == Append(touched, <<"mouse", Screen(context)>>)
  <2>1. r = Started(d, "mouse", Screen(context))
    BY <1>2 DEF ps2_mouse_init, GetOr
  <2>2. r.context = d /\ r.touched = u /\ r.answer = "success"
    BY <2>1 DEF Started, Done
  <2>3. "mouse" \in Pointers
    BY DEF Pointers
  <2>4. ContextOK(d, 4 + 1) /\ TouchedOK(d, u)
    BY <1>2, <2>3, PointerStarts
  <2> HIDE DEF r, d, u
  <2> QED BY <2>2, <2>4 DEF r
<1> QED BY <1>1, <1>2

\* So does the keyboard, the last of them.
LEMMA KeyboardRun ==
  ASSUME ChainTyped, Cardinality(DriverKeys) <= MaxEntries, ContextOK(context, 5), TouchedOK(context, touched)
  PROVE  DriverRun(5, "keyboard_init")
<1> SUFFICES ASSUME NEW hw
             PROVE  LET r == keyboard_init(context, hw) IN
                    r.answer \in {"success", "failure"} /\ ContextOK(r.context, 6) /\ TouchedOK(r.context, r.touched)
  BY DEF DriverRun, Run
<1> DEFINE c == context
           d == Set(c, "kb_init", TRUE)
           r == keyboard_init(c, hw)
<1>1. r.context = d /\ r.touched = touched /\ r.answer = "success"
  BY DEF keyboard_init, Done
<1>2. Put(d, c, "kb_init", TRUE)
  <2>1. DOMAIN c \subseteq DriverKeys /\ "kb_init" \in DriverKeys
    BY DEF ContextOK, DriverKeys
  <2> QED BY <2>1, SetFits
<1>3. ContextOK(c, 5) /\ TouchedOK(c, touched)
  OBVIOUS
<1> HIDE DEF c, d
<1>4. DOMAIN d = DOMAIN c \cup {"kb_init"} /\ \A x \in DOMAIN c : x # "kb_init" => d[x] = c[x]
  BY <1>2 DEF Put
<1>5. ContextOK(d, 6)
  BY <1>3, <1>4 DEF ContextOK, Has, VesaKeys, FbKeys, DriverKeys
<1>6. TouchedOK(d, touched)
  BY <1>3, <1>4 DEF TouchedOK, Has, ContextOK, FbKeys
<1> HIDE DEF r
<1> QED BY <1>1, <1>5, <1>6 DEF c, r

\* The drivers' chain, spelled out.
LEMMA DriversInOrder ==
  /\ Len(Drivers) = 6
  /\ Drivers[1] = "ati_rage_probe" /\ Drivers[2] = "vesa_fallback" /\ Drivers[3] = "framebuffer_init"
  /\ Drivers[4] = "synaptics_init" /\ Drivers[5] = "ps2_mouse_init" /\ Drivers[6] = "keyboard_init"
BY DEF Drivers

\* Middleware of the drivers' chain refuses nothing but an event without a screen.
LEMMA EnterDrivers ==
  ASSUME ChainTyped, DriverInv, Enter
  PROVE  DriverInv'
<1>1. UNCHANGED <<chain, context, result, touched, ran>> /\ answer = "none" /\ at.depth < Len(chain.mws) /\ Executing
  BY DEF Enter
<1> SUFFICES ASSUME "keyboard_init" \in ToSet(chain.events) PROVE DriverInv'
  BY <1>1 DEF DriverInv
<1>2. /\ DriversBuilt /\ ContextOK(context, at.event - 1) /\ TouchedOK(context, touched)
      /\ result.status # "Failed" /\ Behind
  BY <1>1 DEF DriverInv, Came
<1>3. /\ at.event \in 1..6 /\ Event = Drivers[at.event] /\ Len(chain.mws) \in Nat /\ at.depth \in 0..Len(chain.mws)
      /\ DOMAIN at = {"event", "depth"} /\ DOMAIN chain.mws = 1..Len(chain.mws)
  BY <1>1, <1>2, DriversInOrder, SMTT(20) DEF ChainTyped, Executing, DriversBuilt, Event
<1>4. Len(chain.mws) - at.depth \in DOMAIN chain.mws
  BY <1>1, <1>3
<1>5. Below.kind \in {"logging", "dependency"}
  BY <1>2, <1>4 DEF DriversBuilt, Below
<1>6. Refuses(Below, context, Event) <=> Below.kind = "dependency" /\ at.event \in {4, 5} /\ ~Has(context, "scr_width")
  <2>1. Event \in {"synaptics_init", "ps2_mouse_init"} <=> at.event \in {4, 5}
    <3>1. at.event \in {1, 2, 3, 4, 5, 6}
      BY <1>3
    <3> QED BY <1>3, <3>1, DriversInOrder
  <2> QED BY <1>5, <2>1 DEF Refuses, DependencyMet
<1>7. DriversBuilt'
  BY <1>1, <1>2 DEF DriversBuilt
<1>8. TouchedOK(context', touched')
  BY <1>1, <1>2
<1>9. CASE Refuses(Below, context, Event)
  <2>1. at' = at /\ answer' = "failure"
    BY <1>9 DEF Enter
  <2>2. ContextOK(context, at.event)
    BY <1>2, <1>3, <1>6, <1>9 DEF ContextOK
  <2>3. ContextOK(context', Came')
    BY <1>1, <2>1, <2>2 DEF Came
  <2> QED BY <1>1, <1>2, <1>7, <1>8, <2>1, <2>3 DEF DriverInv, Behind
<1>10. CASE ~Refuses(Below, context, Event)
  <2>1. at' = [at EXCEPT !.depth = @ + 1] /\ answer' = "none"
    BY <1>1, <1>10 DEF Enter
  <2>2. at'.event = at.event /\ at'.depth = at.depth + 1
    BY <1>3, <2>1
  <2>3. ContextOK(context', Came')
    BY <1>1, <1>2, <2>1, <2>2 DEF Came
  <2>4. Behind'
    <3> SUFFICES ASSUME at.event \in {4, 5}, NEW i \in Len(chain.mws) - (at.depth + 1) + 1..Len(chain.mws),
                        chain.mws[i].kind = "dependency"
                 PROVE  Has(context, "scr_width")
      BY <1>1, <2>1, <2>2 DEF Behind
    <3>1. CASE i = Len(chain.mws) - at.depth
      BY <1>6, <1>10, <3>1 DEF Below
    <3>2. CASE i # Len(chain.mws) - at.depth
      <4>1. i \in Len(chain.mws) - at.depth + 1..Len(chain.mws)
        BY <1>3, <3>2
      <4> QED BY <1>1, <1>2, <4>1 DEF Behind
    <3> QED BY <3>1, <3>2
  <2> QED BY <1>1, <1>2, <1>7, <1>8, <2>1, <2>3, <2>4 DEF DriverInv
<1> QED BY <1>9, <1>10

\* None of it tries again.
LEMMA LeaveDrivers ==
  ASSUME ChainTyped, DriverInv, Leave
  PROVE  DriverInv'
<1>1. UNCHANGED <<chain, context, result, touched, ran>> /\ answer # "none" /\ at.depth > 0
  BY DEF Leave
<1> SUFFICES ASSUME "keyboard_init" \in ToSet(chain.events) PROVE DriverInv'
  BY <1>1 DEF DriverInv
<1>2. /\ DriversBuilt /\ ContextOK(context, at.event) /\ TouchedOK(context, touched)
      /\ answer # "middleware_failure" /\ result.status # "Failed"
  BY <1>1 DEF DriverInv, Came
<1>3. Len(chain.mws) - at.depth + 1 \in DOMAIN chain.mws /\ DOMAIN at = {"event", "depth"}
  BY <1>1 DEF ChainTyped
<1>4. ~TryAgain(Above, answer)
  BY <1>2, <1>3 DEF DriversBuilt, Above, TryAgain
<1>5. at' = [at EXCEPT !.depth = @ - 1] /\ answer' = answer
  BY <1>4 DEF Leave
<1>6. at'.event = at.event
  BY <1>3, <1>5
<1>7. DriversBuilt' /\ ContextOK(context', Came') /\ TouchedOK(context', touched')
  BY <1>1, <1>2, <1>5, <1>6 DEF DriversBuilt, Came
<1> QED BY <1>1, <1>2, <1>5, <1>7 DEF DriverInv, Behind

\* An event runs behind all middleware, the one that saw the screen included.
LEMMA ExecuteDrivers ==
  ASSUME ChainTyped, DriverInv, Execute
  PROVE  DriverInv'
<1>1. /\ UNCHANGED <<chain, at, result>> /\ answer = "none" /\ at.depth = Len(chain.mws)
      /\ at.event \in 1..Len(chain.events)
  BY ExecuteShape
<1> SUFFICES ASSUME "keyboard_init" \in ToSet(chain.events) PROVE DriverInv'
  BY <1>1 DEF DriverInv
<1>2. /\ DriversBuilt /\ ContextOK(context, at.event - 1) /\ TouchedOK(context, touched)
      /\ result.status # "Failed" /\ Behind
  BY <1>1 DEF DriverInv, Came
<1>3. at.event \in {1, 2, 3, 4, 5, 6} /\ Event = Drivers[at.event] /\ Cardinality(DriverKeys) <= MaxEntries
  BY <1>1, <1>2, DriversInOrder DEF DriversBuilt, Event
<1>4. at.event \in {4, 5} => Has(context, "scr_width")
  <2>1. PICK i \in DOMAIN chain.mws : chain.mws[i].kind = "dependency"
    BY <1>2 DEF DriversBuilt
  <2>2. i \in Len(chain.mws) - at.depth + 1..Len(chain.mws)
    BY <1>1, <2>1 DEF ChainTyped
  <2> QED BY <1>1, <1>2, <2>1, <2>2 DEF Behind
<1>5. DriverRun(at.event - 1, Event)
  <2>1. CASE at.event = 1
    BY <1>2, <1>3, <2>1, AtiRun, DriversInOrder
  <2>2. CASE at.event = 2
    BY <1>2, <1>3, <2>2, VesaRun, DriversInOrder
  <2>3. CASE at.event = 3
    BY <1>2, <1>3, <2>3, FramebufferRun, DriversInOrder
  <2>4. CASE at.event = 4
    BY <1>2, <1>3, <1>4, <2>4, SynapticsRun, DriversInOrder
  <2>5. CASE at.event = 5
    BY <1>2, <1>3, <1>4, <2>5, MouseRun, DriversInOrder
  <2>6. CASE at.event = 6
    BY <1>2, <1>3, <2>6, KeyboardRun, DriversInOrder
  <2> QED BY <1>3, <2>1, <2>2, <2>3, <2>4, <2>5, <2>6
<1>6. PICK hw \in Outside(Event) : LET r == Run(Event, context, hw) IN
        context' = r.context /\ answer' = r.answer /\ touched' = r.touched
  BY ExecuteShape
<1>7. answer' \in {"success", "failure"} /\ ContextOK(context', at.event - 1 + 1) /\ TouchedOK(context', touched')
  BY <1>5, <1>6 DEF DriverRun
<1>8. ContextOK(context', Came')
  <2>1. at.event - 1 + 1 = at.event /\ Came' = at.event
    BY <1>1, <1>3, <1>7 DEF Came
  <2> QED BY <1>7, <2>1
<1>9. DriversBuilt' /\ Behind'
  BY <1>1, <1>2, <1>7 DEF DriversBuilt, Behind
<1> QED BY <1>1, <1>2, <1>7, <1>8, <1>9 DEF DriverInv

\* No failure of a driver ends the chain.
LEMMA SettleDrivers ==
  ASSUME ChainTyped, ReportInv, DriverInv, Settle
  PROVE  DriverInv'
<1>1. /\ UNCHANGED <<chain, context, touched, ran>> /\ answer' = "none" /\ at'.event = at.event + 1
      /\ at'.depth = at.depth /\ at.depth = 0 /\ answer \in Answers /\ at.event \in 1..Len(chain.events)
  BY SettleShape
<1> SUFFICES ASSUME "keyboard_init" \in ToSet(chain.events) PROVE DriverInv'
  BY <1>1 DEF DriverInv
<1>2. /\ DriversBuilt /\ ContextOK(context, at.event) /\ TouchedOK(context, touched)
      /\ answer # "middleware_failure"
  BY <1>1 DEF DriverInv, Came, Answers
<1>3. ~Stops(chain.mode, answer)
  BY <1>2 DEF DriversBuilt, Stops
<1>4. result'.status # "Failed"
  BY <1>3, SettleShape
<1>5. DriversBuilt' /\ Behind'
  <2>1. Len(chain.mws) \in Nat
    BY DEF ChainTyped
  <2> QED BY <1>1, <1>2, <2>1 DEF DriversBuilt, Behind
<1>6. ContextOK(context', Came') /\ TouchedOK(context', touched')
  <2>1. Came' = at.event
    BY <1>1 DEF Came
  <2> QED BY <1>1, <1>2, <2>1
<1> QED BY <1>1, <1>4, <1>5, <1>6 DEF DriverInv

\* Every step of a chain keeps the invariant.
LEMMA ChainStep == ChainInv /\ ChainNext => ChainInv'
<1> SUFFICES ASSUME ChainTyped, ReportInv, StatusInv, CallInv, DriverInv, ChainNext PROVE ChainInv'
  BY DEF ChainInv
<1>1. CASE Enter
  BY <1>1, EnterQuiet, QuietReports, EnterDrivers DEF ChainInv
<1>2. CASE Execute
  BY <1>2, ExecuteTyped, ExecuteReports, ExecuteCalls, ExecuteDrivers DEF ChainInv
<1>3. CASE Leave
  BY <1>3, LeaveQuiet, QuietReports, LeaveDrivers DEF ChainInv
<1>4. CASE Settle
  BY <1>4, SettleTyped, SettleReports, SettleCalls, SettleDrivers DEF ChainInv
<1> QED BY <1>1, <1>2, <1>3, <1>4 DEF ChainNext

\* A step of another component leaves it alone.
LEMMA ChainKept == ChainInv /\ UNCHANGED chainVars => ChainInv'
<1> SUFFICES ASSUME ChainTyped, ReportInv, StatusInv, CallInv, DriverInv, UNCHANGED chainVars PROVE ChainInv'
  BY DEF ChainInv
<1>1. UNCHANGED <<chain, context, at, answer, tries, result, touched, ran>>
  BY DEF chainVars
<1>2. ChainTyped'
  BY <1>1 DEF ChainTyped
<1>3. ReportInv' /\ StatusInv'
  BY <1>1 DEF ReportInv, StatusInv
<1>4. CallInv'
  BY <1>1 DEF CallInv
<1>5. DriverInv'
  <2>1. Came' = Came
    BY <1>1 DEF Came
  <2>2. DriversBuilt' <=> DriversBuilt
    BY <1>1 DEF DriversBuilt
  <2>3. Behind' <=> Behind
    BY <1>1 DEF Behind
  <2> QED BY <1>1, <2>1, <2>2, <2>3 DEF DriverInv
<1> QED BY <1>2, <1>3, <1>4, <1>5 DEF ChainInv

\* A chain keeps what fits.
LEMMA UptoFits ==
  ASSUME NEW S, NEW s \in Seq(S), NEW n \in Nat
  PROVE  /\ Upto(s, n) \in Seq(S) /\ Len(Upto(s, n)) <= n /\ Len(Upto(s, n)) <= Len(s)
         /\ \A i \in 1..Len(Upto(s, n)) : Upto(s, n)[i] = s[i]
         /\ Len(s) <= n => Upto(s, n) = s
         /\ Upto(s, n) # <<>> => s # <<>> /\ Upto(s, n)[1] = s[1]
<1> DEFINE m == IF Len(s) < n THEN Len(s) ELSE n
           u == Upto(s, n)
<1>1. m \in 0..Len(s) /\ Len(s) \in Nat /\ m <= n
  OBVIOUS
<1>2. u = SubSeq(s, 1, m)
  BY DEF Upto
<1> HIDE DEF m, u
<1>3. u \in Seq(S) /\ Len(u) = m /\ \A i \in 1..m : u[i] = s[i]
  BY <1>1, <1>2
<1>4. Len(s) <= n => u = s
  <2> SUFFICES ASSUME Len(s) <= n PROVE u = s
    OBVIOUS
  <2>1. m = Len(s)
    BY <1>1 DEF m
  <2> QED BY <1>3, <2>1
<1>5. u # <<>> => s # <<>> /\ u[1] = s[1]
  BY <1>1, <1>3
<1> QED BY <1>1, <1>3, <1>4, <1>5 DEF u

\* The empty context is one.
LEMMA EmptyContext == IsContext(<<>>) /\ DOMAIN <<>> = {}
BY DEF IsContext

\* What callers build satisfies the invariant.
LEMMA ChainInitInv ==
  ASSUME NEW built, built \subseteq Built, ChainInit(built)
  PROVE  ChainInv
<1>1. PICK b \in Built : chain = Chain(b) /\ context = SetAll(<<>>, b.context)
  BY DEF ChainInit
<1>2. /\ b.events \in Seq(Events) /\ b.mws \in Seq(Middleware) /\ Len(b.context) \in Nat
      /\ DOMAIN b.context = 1..Len(b.context) /\ b.static \in BOOLEAN
      /\ "keyboard_init" \in ToSet(b.events) => BuildsDrivers(b)
      /\ b.events # <<>> /\ b.events[1] \in Calls => BuildsCall(b)
  BY BuiltAssumption
<1>3. MaxEvents \in Nat /\ MaxMiddleware \in Nat
  BY ChainAssumption
<1>4. /\ chain.mode = b.mode
      /\ b.static => chain.events = b.events /\ chain.mws = <<>>
      /\ ~b.static => chain.events = Upto(b.events, MaxEvents) /\ chain.mws = Upto(b.mws, MaxMiddleware)
  BY <1>1 DEF Chain
<1> DEFINE events == chain.events
           mws == chain.mws
<1>5. /\ events \in Seq(Events) /\ Len(events) <= Len(b.events)
      /\ \A i \in 1..Len(events) : events[i] = b.events[i]
      /\ Len(b.events) <= MaxEvents => events = b.events
      /\ events # <<>> => b.events # <<>> /\ events[1] = b.events[1]
      /\ events # <<>> /\ Len(b.events) = 1 => Len(events) = 1
  <2>1. CASE b.static
    <3>1. events = b.events
      BY <1>4, <2>1
    <3> HIDE DEF events
    <3> QED BY <1>2, <3>1
  <2>2. CASE ~b.static
    <3>1. /\ events \in Seq(Events) /\ Len(events) <= Len(b.events)
          /\ \A i \in 1..Len(events) : events[i] = b.events[i]
          /\ Len(b.events) <= MaxEvents => events = b.events
          /\ events # <<>> => b.events # <<>> /\ events[1] = b.events[1]
      <4>1. events = Upto(b.events, MaxEvents)
        BY <1>4, <2>2
      <4> HIDE DEF events
      <4> QED BY <1>2, <1>3, <4>1, UptoFits
    <3> HIDE DEF events
    <3>2. events # <<>> => Len(events) \in Nat /\ Len(events) # 0
      BY <3>1, EmptySeq
    <3>3. Len(events) <= Len(b.events)
      BY <3>1
    <3>4. events # <<>> /\ Len(b.events) = 1 => Len(events) = 1
      <4>1. \A n \in Nat : n # 0 /\ n <= 1 => n = 1
        OBVIOUS
      <4> QED BY <3>2, <3>3, <4>1, Zenon
    <3> QED BY <3>1, <3>4, Zenon
  <2> QED BY <2>1, <2>2
<1>6. mws \in Seq(Middleware) /\ (~b.static /\ Len(b.mws) <= MaxMiddleware => mws = b.mws)
  <2>1. CASE b.static
    <3>1. mws = <<>>
      BY <1>4, <2>1
    <3> HIDE DEF mws
    <3> QED BY <2>1, <3>1
  <2>2. CASE ~b.static
    BY <1>2, <1>3, <1>4, <2>2, UptoFits
  <2> QED BY <2>1, <2>2
<1>7. /\ at = [event |-> 1, depth |-> 0] /\ answer = "none" /\ result = Success /\ touched = <<>> /\ ran = <<>>
  BY DEF ChainInit
<1>8. ChainTyped
  <2>1. IsContext(context)
    BY <1>1, <1>2, EmptyContext, SetAllContext
  <2>2. DOMAIN at = {"event", "depth"} /\ IsContext(at) /\ at.event = 1 /\ at.depth = 0
    BY <1>7 DEF IsContext
  <2>3. DOMAIN result = {"success", "status", "failures"} /\ IsContext(result)
        /\ result.status = "Completed" /\ result.success = TRUE /\ result.failures = <<>>
    BY <1>7 DEF IsContext, Success
  <2>4. \E S : touched \in Seq({"ati_rage", "framebuffer", "synaptics", "mouse"} \X S)
    BY <1>7
  <2>5. /\ result.success \in BOOLEAN
        /\ result.status \in Statuses
        /\ result.failures \in Seq(Nat)
    <3>1. result.success \in BOOLEAN
      BY <2>3, Zenon
    <3>2. result.status \in Statuses
      <4>1. result.status = "Completed"
        BY <2>3, Zenon
      <4> QED BY <4>1 DEF Statuses
    <3>3. result.failures \in Seq(Nat)
      <4>1. result.failures = <<>>
        BY <2>3, Zenon
      <4>2. <<>> \in Seq(Nat)
        OBVIOUS
      <4> QED BY <4>1, <4>2, Zenon
    <3> QED BY <3>1, <3>2, <3>3, Zenon
  <2>6. at.event \in 1..Len(events) + 1 /\ at.depth \in 0..Len(mws)
    BY <1>5, <1>6, <2>2
  <2>7. ran \in Seq(Nat \X Answers) /\ answer \in {"none"} \cup Answers
    BY <1>7
  <2> QED BY <1>5, <1>6, <2>1, <2>2, <2>3, <2>4, <2>5, <2>6, <2>7 DEF ChainTyped
<1>9. ReportInv
  BY <1>7, ChainAssumption DEF ReportInv, Success, Succeeds
<1>10. StatusInv
  BY <1>7 DEF StatusInv, Success
<1>11. CallInv
  <2> SUFFICES ASSUME events # <<>>, events[1] \in Calls PROVE CallInv
    BY DEF CallInv
  <2>1. BuildsCall(b)
    BY <1>2, <1>5
  <2>2. Len(events) = 1 /\ chain.mode = "Strict"
    <3>1. Len(b.events) = 1 /\ b.mode = "Strict"
      BY <2>1 DEF BuildsCall
    <3> QED BY <1>4, <1>5, <3>1
  <2>3. \A i \in 1..Len(b.context) : b.context[i][1] # "result" /\ (b.context[i][1] = "arg3" => b.context[i][2] # U32Max)
    BY <1>2, <2>1 DEF BuildsCall, KeysOf
  <2>4. \A k : GetOr(<<>>, k, 0) = 0
    BY EmptyContext DEF GetOr, Has
  <2>5. GetOr(context, "arg3", 0) # U32Max
    <3>1. \/ GetOr(context, "arg3", 0) = GetOr(<<>>, "arg3", 0)
          \/ \E i \in 1..Len(b.context) : "arg3" = b.context[i][1] /\ GetOr(context, "arg3", 0) = b.context[i][2]
      BY <1>1, <1>2, EmptyContext, SetAllGet
    <3> QED BY <2>3, <2>4, <3>1 DEF U32Max
  <2>6. GetOr(context, "result", 0) # U32Max
    <3>1. \/ GetOr(context, "result", 0) = GetOr(<<>>, "result", 0)
          \/ \E i \in 1..Len(b.context) : "result" = b.context[i][1] /\ GetOr(context, "result", 0) = b.context[i][2]
      BY <1>1, <1>2, EmptyContext, SetAllGet
    <3> QED BY <2>3, <2>4, <3>1 DEF U32Max
  <2>7. ran = <<>> /\ ~Succeeds(ran, 1)
    BY <1>7 DEF Succeeds
  <2> QED BY <2>2, <2>5, <2>6, <2>7 DEF CallInv
<1>12. DriverInv
  <2> SUFFICES ASSUME "keyboard_init" \in ToSet(events) PROVE DriverInv
    BY DEF DriverInv
  <2>1. "keyboard_init" \in ToSet(b.events)
    <3>1. PICK i \in DOMAIN events : events[i] = "keyboard_init"
      BY DEF ToSet
    <3>2. i \in 1..Len(events) /\ Len(events) \in Nat /\ Len(b.events) \in Nat /\ DOMAIN b.events = 1..Len(b.events)
      BY <1>2, <1>5
    <3>3. i \in DOMAIN b.events /\ b.events[i] = "keyboard_init"
      BY <1>5, <3>1, <3>2
    <3> QED BY <3>3 DEF ToSet
  <2>2. BuildsDrivers(b)
    BY <1>2, <2>1
  <2>3. DriversBuilt
    BY <1>4, <1>5, <1>6, <2>2 DEF BuildsDrivers, DriversBuilt
  <2>4. DOMAIN context = KeysOf(b.context)
    <3>1. KeysOf(b.context) = {b.context[i][1] : i \in 1..Len(b.context)}
      BY <1>2 DEF KeysOf
    <3>2. \A i \in 1..Len(b.context) : b.context[i][1] \in DriverKeys
      <4>1. VesaKeys \subseteq DriverKeys
        BY DEF VesaKeys, DriverKeys
      <4>2. KeysOf(b.context) \subseteq DriverKeys
        BY <2>2, <4>1 DEF BuildsDrivers
      <4> QED BY <3>1, <4>2
    <3>3. PutAll(SetAll(<<>>, b.context), <<>>, b.context, Len(b.context))
      <4>1. DOMAIN <<>> \subseteq DriverKeys /\ Cardinality(DriverKeys) <= MaxEntries
        BY <2>3, EmptyContext DEF DriversBuilt
      <4> QED BY <1>2, <3>2, <4>1, EmptyContext, SetAllFits
    <3> QED BY <1>1, <3>1, <3>3, EmptyContext DEF PutAll
  <2>5. ContextOK(context, 0)
    <3>1. DOMAIN context \in {VesaKeys, {}}
      BY <2>2, <2>4 DEF BuildsDrivers
    <3> QED BY <3>1 DEF ContextOK, Has, VesaKeys, FbKeys, DriverKeys
  <2>6. TouchedOK(context, touched)
    <3>1. \A D : StartsIn(touched, D) = {}
      BY <1>7 DEF StartsIn
    <3>2. ~Has(context, "gpu_type") /\ ~Has(context, "scr_width") /\ ~Has(context, "input_init")
      BY <2>5 DEF ContextOK, Has, FbKeys
    <3> QED BY <3>1, <3>2 DEF TouchedOK, Once
  <2>7. Came = 0 /\ Behind /\ answer # "middleware_failure" /\ result.status # "Failed"
    BY <1>6, <1>7 DEF Came, Behind, Success
  <2> QED BY <2>3, <2>5, <2>6, <2>7 DEF DriverInv
<1> QED BY <1>8, <1>9, <1>10, <1>11, <1>12 DEF ChainInv

\* Once a chain has ended, the invariant is what was promised.
LEMMA ChainInvDelivers == ChainInv => ChainsDeliver
<1> SUFFICES ASSUME ChainTyped, ReportInv, StatusInv, CallInv, DriverInv PROVE ChainsDeliver
  BY DEF ChainInv
<1>1. Len(chain.events) \in Nat /\ at.event \in 1..Len(chain.events) + 1 /\ result.status \in Statuses
      /\ result.failures \in Seq(Nat) /\ result.success \in BOOLEAN
  BY DEF ChainTyped
<1>2. \A i \in 1..Len(chain.events) : i \in Succeeded <=> Succeeds(ran, i)
  BY DEF Succeeded, Succeeds, ToSet
<1>3. ASSUME ~Executing
      PROVE  \/ result.status \in {"Failed", "CompletedWithWarnings"}
             \/ result.status = "Completed" /\ at.event = Len(chain.events) + 1
  BY <1>1, <1>3 DEF Executing, Statuses
<1>4. ReportsExact
  <2> SUFFICES ASSUME ~Executing PROVE ReportsExact
    BY DEF ReportsExact
  <2>1. /\ ToSet(result.failures) \subseteq 1..Reached \ Succeeded
        /\ \A i \in 1..Reached \ Succeeded : Reported(i) \/ LeftOut(i)
    <3>1. ASSUME NEW i \in ToSet(result.failures) PROVE i \in 1..Reached /\ i \notin Succeeded
      <4>1. PICK j \in DOMAIN result.failures : result.failures[j] = i
        BY DEF ToSet
      <4>2. i \in 1..at.event - 1 /\ ~Succeeds(ran, i)
        BY <4>1 DEF ReportInv
      <4> QED BY <1>1, <1>2, <4>2 DEF Reached
    <3>2. ASSUME NEW i \in 1..Reached, i \notin Succeeded PROVE Reported(i) \/ LeftOut(i)
      <4>1. i \in 1..at.event - 1 /\ ~Succeeds(ran, i)
        BY <1>1, <1>2, <3>2 DEF Reached
      <4>2. Noted(result.failures, i)
        BY <4>1 DEF ReportInv
      <4> QED BY <4>2 DEF Noted, Reported, LeftOut, ToSet
    <3> QED BY <3>1, <3>2
  <2>2. result.success = (Reached = Len(chain.events) /\ result.status # "Failed")
    BY <1>1, <1>3 DEF StatusInv, Reached
  <2>3. result.status = "Failed" => Reached \notin Succeeded
    BY <1>1, <1>2 DEF StatusInv, Reached
  <2>4. (result.status = "Completed") = (result.failures = <<>>)
    BY <1>3 DEF StatusInv
  <2>5. /\ \A j, k \in DOMAIN ran : j < k => ran[j][1] <= ran[k][1] /\ ran[j] # <<ran[k][1], "success">>
        /\ \A j, k \in DOMAIN result.failures : j < k => result.failures[j] < result.failures[k]
    BY DEF ReportInv
  <2> QED BY <2>1, <2>2, <2>3, <2>4, <2>5 DEF ReportsExact
<1>5. DriversReady
  <2> SUFFICES ASSUME ~Executing, "keyboard_init" \in ToSet(chain.events) PROVE DriversReady
    BY DEF DriversReady
  <2>1. /\ ContextOK(context, Came) /\ TouchedOK(context, touched) /\ result.status # "Failed"
        /\ Len(chain.events) = 6
    BY DriversInOrder DEF DriverInv, DriversBuilt
  <2>2. Came >= 6 /\ Came \in Nat
    BY <1>1, <1>3, <2>1 DEF StatusInv, Came
  <2>3. result.success
    BY <2>1 DEF StatusInv
  <2>4. \A D : StartsOf(D) = StartsIn(touched, D)
    BY DEF StartsOf, StartsIn
  <2> DEFINE screens == StartsOf({"framebuffer"})
             pointers == StartsOf({"synaptics", "mouse"})
  <2>5. screens = StartsIn(touched, {"framebuffer"}) /\ pointers = StartsIn(touched, Pointers)
    BY <2>4 DEF Pointers
  <2>6. (GetOr(context, "gpu_type", "UNKNOWN") = "ATI_RAGE") = (StartsOf({"ati_rage"}) # {})
    BY <2>1, <2>4 DEF TouchedOK, GetOr
  <2>7. screens # {} <=> Has(context, "fb_width")
    BY <2>1, <2>2, <2>5 DEF TouchedOK, ContextOK
  <2>8. (screens = {}) = (pointers = {})
    BY <2>1, <2>2, <2>5 DEF TouchedOK, ContextOK
  <2>9. \A i \in screens \cup pointers : touched[i][2] = GetOr(context, "fb_width", "none")
    BY <2>1, <2>5, <2>7, <2>8 DEF TouchedOK, GetOr
  <2>10. Has(context, "kb_init") /\ (Has(context, "vesa_addr") => screens # {})
    BY <2>1, <2>2, <2>7 DEF ContextOK
  <2>11. Once(screens) /\ Once(pointers)
    BY <2>1, <2>5 DEF TouchedOK
  <2> HIDE DEF screens, pointers
  <2> QED BY <2>3, <2>6, <2>8, <2>9, <2>10, <2>11 DEF DriversReady, screens, pointers
<1>6. CallsAnswer
  <2> SUFFICES ASSUME ~Executing, chain.events # <<>>, chain.events[1] \in Calls PROVE CallsAnswer
    BY DEF CallsAnswer
  <2>1. /\ Len(chain.events) = 1 /\ chain.mode = "Strict"
        /\ IF chain.events[1] = "Unknown" THEN ~Succeeds(ran, 1)
           ELSE GetOr(context, "result", 0) # U32Max /\ (ran # <<>> => Succeeds(ran, 1))
    BY DEF CallInv
  <2>2. ran = <<>> => ~Succeeds(ran, 1)
    BY DEF Succeeds
  <2>3. at.event = 2
    BY <1>1, <1>3, <2>1 DEF StatusInv
  <2>4. result.success <=> Succeeds(ran, 1)
    <3>1. CASE Succeeds(ran, 1)
      <4>1. result.status # "Failed"
        BY <2>3, <3>1 DEF StatusInv
      <4> QED BY <3>1, <4>1 DEF StatusInv
    <3>2. CASE ~Succeeds(ran, 1)
      <4>1. result.failures # <<>>
        <5>1. 1 \in 1..at.event - 1
          BY <2>3
        <5>2. Noted(result.failures, 1) /\ MaxFailures \in Nat \ {0}
          BY <3>2, <5>1, ChainAssumption DEF ReportInv
        <5> QED BY <1>1, <5>2 DEF Noted
      <4>2. result.status = "Failed"
        BY <2>1, <4>1 DEF StatusInv
      <4> QED BY <3>2, <4>2 DEF StatusInv
    <3> QED BY <3>1, <3>2
  <2>5. (ReturnValue = U32Max) = (ran = <<>> \/ chain.events[1] = "Unknown")
    BY <2>1, <2>2, <2>4 DEF ReturnValue
  <2> QED BY <2>5 DEF CallsAnswer
<1> QED BY <1>4, <1>5, <1>6 DEF ChainsDeliver

-----------------------------------------------------------------------------
(* The overlay's panels.  What the game keeps at an address belongs to one field,   *)
(* so that memory holds the bytes of every field (Keeps); the reader finds them      *)
(* there, and each line of a panel stands where the next does not clear it.          *)
Games == {"RED", "BLUE", "YELLOW", "GOLD", "SILVER", "CRYSTAL"}
FieldNames ==
  {"name", "money", "owned", "badges", "kanto", "group", "map", "party_count",
   "species", "level", "hp", "hp_max", "attack", "special", "moves", "battle",
   "enemy", "enemies"}

\* The fields have these names.
LEMMA FieldNamesAre == DOMAIN Fields = FieldNames
BY DEF Fields, FieldNames

\* The field that an address belongs to, in each of the four tables.
FieldRed(a) ==
  IF a < 53224 THEN "enemy" ELSE IF a < 53336 THEN "battle" ELSE IF a < 53603 THEN "name" ELSE
  IF a < 53604 THEN "party_count" ELSE IF a < 53612 THEN "species" ELSE
  IF a < 53614 THEN "hp" ELSE IF a < 53644 THEN "moves" ELSE IF a < 53645 THEN "level" ELSE
  IF a < 53647 THEN "hp_max" ELSE IF a < 53649 THEN "attack" ELSE
  IF a < 53655 THEN "special" ELSE IF a < 54007 THEN "none" ELSE IF a < 54026 THEN "owned" ELSE
  IF a < 54090 THEN "money" ELSE IF a < 54103 THEN "badges" ELSE IF a < 54111 THEN "map" ELSE "enemies"
FieldYellow(a) ==
  IF a < 53224 THEN "enemy" ELSE IF a < 53336 THEN "battle" ELSE IF a < 53602 THEN "name" ELSE
  IF a < 53603 THEN "party_count" ELSE IF a < 53611 THEN "species" ELSE
  IF a < 53613 THEN "hp" ELSE IF a < 53643 THEN "moves" ELSE IF a < 53644 THEN "level" ELSE
  IF a < 53646 THEN "hp_max" ELSE IF a < 53648 THEN "attack" ELSE
  IF a < 53654 THEN "special" ELSE IF a < 54006 THEN "none" ELSE IF a < 54025 THEN "owned" ELSE
  IF a < 54089 THEN "money" ELSE IF a < 54102 THEN "badges" ELSE IF a < 54110 THEN "map" ELSE "enemies"
FieldGold(a) ==
  IF a < 53461 THEN "enemies" ELSE IF a < 53505 THEN "enemy" ELSE
  IF a < 53528 THEN "battle" ELSE IF a < 53678 THEN "name" ELSE IF a < 54646 THEN "money" ELSE
  IF a < 54653 THEN "badges" ELSE IF a < 54654 THEN "kanto" ELSE IF a < 55809 THEN "group" ELSE
  IF a < 55810 THEN "map" ELSE IF a < 55843 THEN "party_count" ELSE
  IF a < 55851 THEN "species" ELSE IF a < 55877 THEN "moves" ELSE
  IF a < 55882 THEN "level" ELSE IF a < 55886 THEN "hp" ELSE IF a < 55888 THEN "hp_max" ELSE
  IF a < 55890 THEN "attack" ELSE IF a < 55896 THEN "special" ELSE
  IF a < 56985 THEN "none" ELSE "owned"
FieldCrystal(a) ==
  IF a < 53786 THEN "enemy" ELSE IF a < 53809 THEN "battle" ELSE IF a < 54408 THEN "name" ELSE
  IF a < 55377 THEN "money" ELSE IF a < 55384 THEN "badges" ELSE IF a < 55385 THEN "kanto" ELSE
  IF a < 55453 THEN "enemies" ELSE IF a < 56502 THEN "group" ELSE IF a < 56503 THEN "map" ELSE
  IF a < 56536 THEN "party_count" ELSE IF a < 56544 THEN "species" ELSE
  IF a < 56570 THEN "moves" ELSE IF a < 56575 THEN "level" ELSE IF a < 56579 THEN "hp" ELSE
  IF a < 56581 THEN "hp_max" ELSE IF a < 56583 THEN "attack" ELSE
  IF a < 56589 THEN "special" ELSE IF a < 56985 THEN "none" ELSE "owned"
FieldAt(g, a) ==
  IF g \in {"RED", "BLUE"} THEN FieldRed(a) ELSE IF g = "YELLOW" THEN FieldYellow(a)
  ELSE IF g = "CRYSTAL" THEN FieldCrystal(a) ELSE FieldGold(a)

\* The addresses that a field takes, by the table.
Within(t, f, a) ==
  \/ f = "name" /\ a \in t.name..t.name + 10
  \/ f = "money" /\ a \in t.money..t.money + 2
  \/ f = "owned" /\ a \in t.owned..t.owned + 18
  \/ f = "badges" /\ a = t.badges
  \/ f = "kanto" /\ "kanto" \in DOMAIN t /\ a = t.kanto
  \/ f = "group" /\ "group" \in DOMAIN t /\ a = t.group
  \/ f = "map" /\ a = t.map
  \/ f = "party_count" /\ a = t.party_count
  \/ f = "species" /\ a = t.party + t.mon.species
  \/ f = "level" /\ a = t.party + t.mon.level
  \/ f = "hp" /\ a \in t.party + t.mon.hp..t.party + t.mon.hp + 1
  \/ f = "hp_max" /\ a \in t.party + t.mon.hp_max..t.party + t.mon.hp_max + 1
  \/ f = "attack" /\ a \in t.party + t.mon.attack..t.party + t.mon.attack + 1
  \/ f = "special" /\ a \in t.party + t.mon.special..t.party + t.mon.special + 1
  \/ f = "moves" /\ \/ a \in t.party + t.mon.moves..t.party + t.mon.moves + 3
                    \/ a \in t.party + t.mon.pp..t.party + t.mon.pp + 3
  \/ f = "battle" /\ (a = t.in_battle \/ ("battle_type" \in DOMAIN t /\ a = t.battle_type))
  \/ f = "enemy" /\ (a = t.enemy.species \/ a \in t.enemy.hp..t.enemy.hp + 1)
  \/ f = "enemies" /\ a = t.enemies

\* In each table, an address within a field belongs to that field and no other.
LEMMA RedFields == \A f, a : Within(red_blue, f, a) => FieldRed(a) = f
BY SMTT(30) DEF Within, FieldRed, red_blue, Party1, Enemy1

\* The same of Yellow.
LEMMA YellowFields == \A f, a : Within(yellow, f, a) => FieldYellow(a) = f
BY SMTT(30) DEF Within, FieldYellow, yellow, Party1, Enemy1

\* The same of Gold and Silver.
LEMMA GoldFields == \A f, a : Within(gold_silver, f, a) => FieldGold(a) = f
BY SMTT(30) DEF Within, FieldGold, gold_silver, Party2

\* The same of Crystal.
LEMMA CrystalFields == \A f, a : Within(crystal, f, a) => FieldCrystal(a) = f
BY SMTT(30) DEF Within, FieldCrystal, crystal, Party2

\* An address that a field takes is that field's.
LEMMA FieldOfCell ==
  ASSUME NEW g \in Games, NEW f, NEW a, Within(Tables[g], f, a)
  PROVE  FieldAt(g, a) = f
BY RedFields, YellowFields, GoldFields, CrystalFields DEF FieldAt, Tables, Games

\* No field takes the species of the party's other places.
LEMMA OtherPlaces ==
  ASSUME NEW g \in Games, NEW i \in 2..6
  PROVE  FieldAt(g, Tables[g].party + (i - 1) * Tables[g].mon_size + Tables[g].mon.species) = "none"
<1>1. i \in {2, 3, 4, 5, 6}
  OBVIOUS
<1>2. CASE g \in {"RED", "BLUE"}
  <2>1. Tables[g] = red_blue
    BY <1>2 DEF Tables
  <2>2. red_blue.party = 53611 /\ red_blue.mon_size = 44 /\ red_blue.mon.species = 0
    BY SMT DEF red_blue, Party1
  <2> QED BY SMTT(30), <1>1, <1>2, <2>1, <2>2 DEF FieldAt, FieldRed
<1>3. CASE g = "YELLOW"
  <2>1. Tables[g] = yellow
    BY <1>3 DEF Tables
  <2>2. yellow.party = 53610 /\ yellow.mon_size = 44 /\ yellow.mon.species = 0
    BY SMT DEF yellow, Party1
  <2> QED BY SMTT(30), <1>1, <1>3, <2>1, <2>2 DEF FieldAt, FieldYellow
<1>4. CASE g \in {"GOLD", "SILVER"}
  <2>1. Tables[g] = gold_silver
    BY <1>4 DEF Tables
  <2>2. gold_silver.party = 55850 /\ gold_silver.mon_size = 48 /\ gold_silver.mon.species = 0
    BY SMT DEF gold_silver, Party2
  <2> QED BY SMTT(30), <1>1, <1>4, <2>1, <2>2 DEF FieldAt, FieldGold
<1>5. CASE g = "CRYSTAL"
  <2>1. Tables[g] = crystal
    BY <1>5 DEF Tables
  <2>2. crystal.party = 56543 /\ crystal.mon_size = 48 /\ crystal.mon.species = 0
    BY SMT DEF crystal, Party2
  <2> QED BY SMTT(30), <1>1, <1>5, <2>1, <2>2 DEF FieldAt, FieldCrystal
<1> QED BY <1>2, <1>3, <1>4, <1>5 DEF Games

\* What the six tables have in common.
LEMMA TablesAre ==
  ASSUME NEW g \in Games
  PROVE  LET t == Tables[g]
         IN  /\ generation(g) \in 1..2
             /\ {t.name, t.money, t.owned, t.badges, t.map, t.party_count, t.party, t.mon_size, t.in_battle,
                 t.enemies} \subseteq Nat
             /\ {t.mon.species, t.mon.level, t.mon.hp, t.mon.hp_max, t.mon.attack, t.mon.special, t.mon.moves,
                 t.mon.pp, t.enemy.species, t.enemy.hp} \subseteq Nat
             /\ {"hp", "hp_max", "attack", "special", "pp"} \subseteq DOMAIN t.mon /\ "hp" \in DOMAIN t.enemy
             /\ generation(g) = 1 => {"group", "kanto", "battle_type"} \cap DOMAIN t = {}
             /\ generation(g) = 2 => /\ {"group", "kanto", "battle_type"} \subseteq DOMAIN t
                                     /\ {t.group, t.kanto, t.battle_type} \subseteq Nat
<1>1. CASE g \in {"RED", "BLUE"}
  <2>1. Tables[g] = red_blue /\ generation(g) = 1
    BY <1>1 DEF Tables, generation
  <2> QED BY SMTT(30), <2>1 DEF red_blue, Party1, Enemy1
<1>2. CASE g = "YELLOW"
  <2>1. Tables[g] = yellow /\ generation(g) = 1
    BY <1>2 DEF Tables, generation
  <2> QED BY SMTT(30), <2>1 DEF yellow, Party1, Enemy1
<1>3. CASE g \in {"GOLD", "SILVER"}
  <2>1. Tables[g] = gold_silver /\ generation(g) = 2
    BY <1>3 DEF Tables, generation
  <2> QED BY SMTT(30), <2>1 DEF gold_silver, Party2
<1>4. CASE g = "CRYSTAL"
  <2>1. Tables[g] = crystal /\ generation(g) = 2
    BY <1>4 DEF Tables, generation
  <2> QED BY SMTT(30), <2>1 DEF crystal, Party2
<1> QED BY <1>1, <1>2, <1>3, <1>4 DEF Games

\* The cells of each field, one by one.
LEMMA CellsOfMany ==
  ASSUME NEW g, NEW v
  PROVE  LET t == Tables[g]
         IN  /\ Cells(g, "name", v) = Bytes(t.name, v \o <<Terminator>>)
             /\ Cells(g, "money", v) = Bytes(t.money, MoneyBytes(g, v))
             /\ Cells(g, "owned", v) = Bytes(t.owned, v)
BY DEF Cells

\* What only the second generation keeps.
LEMMA CellsOfSome ==
  ASSUME NEW g, NEW v
  PROVE  LET t == Tables[g]
         IN  /\ "group" \in DOMAIN t => Cells(g, "group", v) = Bytes(t.group, <<v>>)
             /\ "group" \notin DOMAIN t => Cells(g, "group", v) = NoMemory
             /\ "kanto" \in DOMAIN t => Cells(g, "kanto", v) = Bytes(t.kanto, <<v>>)
             /\ "kanto" \notin DOMAIN t => Cells(g, "kanto", v) = NoMemory
BY DEF Cells

\* Whether there is a battle, and of which type.
LEMMA CellsOfBattle ==
  ASSUME NEW g, NEW v
  PROVE  LET t == Tables[g]
         IN  /\ "battle_type" \in DOMAIN t =>
                  Cells(g, "battle", v) = Both(Bytes(t.in_battle, <<v>>), Bytes(t.battle_type, <<v>>))
             /\ "battle_type" \notin DOMAIN t => Cells(g, "battle", v) = Bytes(t.in_battle, <<v>>)
BY DEF Cells

\* Fields of one byte.
LEMMA CellsOfOne ==
  ASSUME NEW g, NEW v
  PROVE  LET t == Tables[g]
         IN  /\ Cells(g, "badges", v) = Bytes(t.badges, <<v>>)
             /\ Cells(g, "map", v) = Bytes(t.map, <<v>>)
             /\ Cells(g, "party_count", v) = Bytes(t.party_count, <<v>>)
             /\ Cells(g, "enemies", v) = Bytes(t.enemies, <<v>>)
             /\ Cells(g, "species", v) = Bytes(t.party + t.mon.species, <<v>>)
             /\ Cells(g, "level", v) = Bytes(t.party + t.mon.level, <<v>>)
BY DEF Cells

\* Fields of one word, high byte first.
LEMMA CellsOfWord ==
  ASSUME NEW g, NEW v
  PROVE  LET t == Tables[g]
         IN  /\ Cells(g, "hp", v) = Bytes(t.party + t.mon.hp, High(v))
             /\ Cells(g, "hp_max", v) = Bytes(t.party + t.mon.hp_max, High(v))
             /\ Cells(g, "attack", v) = Bytes(t.party + t.mon.attack, High(v))
             /\ Cells(g, "special", v) = Bytes(t.party + t.mon.special, High(v))
BY DEF Cells

\* Fields in two places: moves with their PP, and the enemy.
LEMMA CellsOfPair ==
  ASSUME NEW g, NEW v
  PROVE  LET t == Tables[g]
         IN  /\ Cells(g, "moves", v) = Both(Bytes(t.party + t.mon.moves, v[1]), Bytes(t.party + t.mon.pp, v[2]))
             /\ Cells(g, "enemy", v) = Both(Bytes(t.enemy.species, <<v[1]>>), Bytes(t.enemy.hp, High(v[2])))
BY DEF Cells

\* The bytes of a sequence lie one behind the other; those of a word are two, those of money three.
LEMMA BytesLie ==
  ASSUME NEW a \in Nat, NEW S, NEW s \in Seq(S)
  PROVE  /\ DOMAIN Bytes(a, s) = a..a + Len(s) - 1
         /\ \A i \in 1..Len(s) : a + i - 1 \in DOMAIN Bytes(a, s) /\ Bytes(a, s)[a + i - 1] = s[i]
BY DEF Bytes

\* One byte lies at its address.
LEMMA ByteLies ==
  ASSUME NEW a \in Nat, NEW v
  PROVE  DOMAIN Bytes(a, <<v>>) = {a} /\ Bytes(a, <<v>>)[a] = v
<1>1. Len(<<v>>) = 1 /\ <<v>>[1] = v
  OBVIOUS
<1>2. DOMAIN Bytes(a, <<v>>) = a..a
  BY <1>1 DEF Bytes
<1>3. a \in a..a /\ a - a + 1 = 1
  OBVIOUS
<1> QED BY <1>1, <1>2, <1>3 DEF Bytes

\* A word lies high byte first.
LEMMA WordLies ==
  ASSUME NEW a \in Nat, NEW v
  PROVE  DOMAIN Bytes(a, High(v)) = a..a + 1 /\ Bytes(a, High(v))[a] = Hi(v) /\ Bytes(a, High(v))[a + 1] = Lo(v)
<1>1. Len(High(v)) = 2 /\ High(v)[1] = Hi(v) /\ High(v)[2] = Lo(v)
  BY DEF High
<1>2. DOMAIN Bytes(a, High(v)) = a..a + 1
  BY <1>1 DEF Bytes
<1>3. a \in a..a + 1 /\ a + 1 \in a..a + 1 /\ a - a + 1 = 1 /\ a + 1 - a + 1 = 2
  OBVIOUS
<1> QED BY <1>1, <1>2, <1>3 DEF Bytes

\* Four bytes lie one behind the other.
LEMMA FourLie ==
  ASSUME NEW a \in Nat, NEW s \in [1..4 -> Byte]
  PROVE  DOMAIN Bytes(a, s) = a..a + 3 /\ \A i \in 1..4 : Bytes(a, s)[a + i - 1] = s[i]
<1>1. DOMAIN s = 1..4 /\ s = [i \in 1..4 |-> s[i]]
  OBVIOUS
<1>2. s \in Seq(Byte)
  BY <1>1
<1>3. Len(s) = 4
  BY <1>1, <1>2
<1>4. a + Len(s) - 1 = a + 3
  BY <1>3
<1>5. DOMAIN Bytes(a, s) = a..a + 3
  BY <1>2, <1>4, BytesLie
<1>6. ASSUME NEW i \in 1..4 PROVE Bytes(a, s)[a + i - 1] = s[i]
  <2>1. i \in 1..Len(s)
    BY <1>3
  <2> QED BY <1>2, <2>1, BytesLie
<1> QED BY <1>5, <1>6

\* What each field may hold.
LEMMA FieldsAre ==
  /\ Fields["name"] = Texts(Byte \ {Terminator}, 10) /\ Fields["owned"] = Texts(Byte, 19)
  /\ Fields["moves"] = [1..4 -> Byte] \X [1..4 -> Byte] /\ Fields["enemy"] = Byte \X Word
  /\ Fields["hp"] = Word /\ Fields["hp_max"] = Word /\ Fields["attack"] = Word /\ Fields["special"] = Word
  /\ Fields["money"] = Money /\ Fields["battle"] = 0..2
  /\ Fields["badges"] = Byte /\ Fields["kanto"] = Byte /\ Fields["group"] = Byte /\ Fields["map"] = Byte
  /\ Fields["party_count"] = Byte /\ Fields["species"] = Byte /\ Fields["level"] = Byte
  /\ Fields["enemies"] = Byte
BY DEF Fields

\* A text is a sequence of bounded length.
LEMMA TextsAre ==
  ASSUME NEW S, NEW n \in Nat, NEW s \in Texts(S, n)
  PROVE  s \in Seq(S) /\ Len(s) \in 0..n
BY DEF Texts

\* Money takes three bytes, in BCD or binary.
LEMMA MoneyLength ==
  ASSUME NEW g, NEW v
  PROVE  MoneyBytes(g, v) \in Seq({MoneyBytes(g, v)[i] : i \in 1..3}) /\ Len(MoneyBytes(g, v)) = 3
<1>1. \A x, y, z : LET s == <<x, y, z>> IN s \in Seq({s[i] : i \in 1..3}) /\ Len(s) = 3
  OBVIOUS
<1>2. CASE generation(g) = 1
  BY <1>1, <1>2 DEF MoneyBytes
<1>3. CASE generation(g) # 1
  <2>1. MoneyBytes(g, v) = <<v \div 65536, Hi(v % 65536), Lo(v % 65536)>>
    BY <1>3, SMT DEF MoneyBytes
  <2>3. \E x, y, z : MoneyBytes(g, v) = <<x, y, z>>
    BY <2>1, SMT
  <2> QED BY <1>1, <2>3
<1> QED BY <1>2, <1>3

\* Where the cells of a field lie.
LEMMA CellsWithin ==
  ASSUME NEW g \in Games, NEW f \in FieldNames, NEW v \in Fields[f], NEW a \in DOMAIN Cells(g, f, v)
  PROVE  Within(Tables[g], f, a)
<1> DEFINE t == Tables[g]
<1>t. /\ t.name \in Nat /\ t.money \in Nat /\ t.owned \in Nat /\ t.badges \in Nat /\ t.map \in Nat
      /\ t.party_count \in Nat /\ t.party \in Nat /\ t.in_battle \in Nat /\ t.enemies \in Nat
      /\ t.enemy.species \in Nat /\ t.enemy.hp \in Nat
      /\ "group" \in DOMAIN t => t.group \in Nat
      /\ "kanto" \in DOMAIN t => t.kanto \in Nat
      /\ "battle_type" \in DOMAIN t => t.battle_type \in Nat
  BY TablesAre
<1>p. /\ t.party + t.mon.species \in Nat /\ t.party + t.mon.level \in Nat /\ t.party + t.mon.hp \in Nat /\ t.party + t.mon.hp_max \in Nat
      /\ t.party + t.mon.attack \in Nat /\ t.party + t.mon.special \in Nat /\ t.party + t.mon.moves \in Nat /\ t.party + t.mon.pp \in Nat
  BY TablesAre
<1>n. DOMAIN NoMemory = {}
  BY DEF NoMemory
<1> HIDE DEF t
<1>1. CASE f = "name"
  <2>1. Cells(g, "name", v) = Bytes(t.name, v \o <<Terminator>>)
    BY CellsOfMany DEF t
  <2>2. a \in DOMAIN Bytes(t.name, v \o <<Terminator>>)
    BY <1>1, <2>1
  <2>0. v \in Fields["name"]
    BY <1>1
  <2>a. v \in Texts(Byte \ {Terminator}, 10)
    BY <2>0, FieldsAre
  <2>3. v \in Seq(Byte \ {Terminator}) /\ Len(v) \in 0..10
    BY <2>a, TextsAre
  <2>4. v \o <<Terminator>> \in Seq(Byte \cup {Terminator}) /\ Len(v \o <<Terminator>>) = Len(v) + 1
    BY <2>3
  <2>5. t.name \in Nat
    BY <1>t
  <2> DEFINE s == v \o <<Terminator>>
  <2>6. s \in Seq(Byte \cup {Terminator}) /\ Len(s) = Len(v) + 1 /\ a \in DOMAIN Bytes(t.name, s)
    BY <2>2, <2>4
  <2> HIDE DEF s
  <2>7. a \in t.name..t.name + Len(s) - 1
    BY <2>5, <2>6, BytesLie
  <2>8. Len(s) \in 0..11
    <3>1. PICK n \in 0..10 : Len(v) = n
      BY <2>3
    <3>2. Len(s) = n + 1
      BY <2>6, <3>1
    <3> QED BY <3>2
  <2>9. a \in t.name..t.name + 10
    <3>1. 10 \in Nat /\ Len(s) \in 0..10 + 1
      BY <2>8
    <3> QED BY <2>5, <2>7, <3>1, Reach
  <2> QED BY <1>1, <2>9 DEF Within, t
<1>2. CASE f = "money"
  <2>1. Cells(g, "money", v) = Bytes(t.money, MoneyBytes(g, v))
    BY CellsOfMany DEF t
  <2>2. a \in DOMAIN Bytes(t.money, MoneyBytes(g, v))
    BY <1>2, <2>1
  <2>3. MoneyBytes(g, v) \in Seq({MoneyBytes(g, v)[i] : i \in 1..3}) /\ Len(MoneyBytes(g, v)) = 3
    BY MoneyLength
  <2>5. t.money \in Nat
    BY <1>t
  <2>6. DOMAIN Bytes(t.money, MoneyBytes(g, v)) = t.money..t.money + Len(MoneyBytes(g, v)) - 1
    BY <2>3, <2>5, BytesLie
  <2>9. a \in t.money..t.money + 2
    BY <2>2, <2>3, <2>5, <2>6
  <2> QED BY <1>2, <2>9 DEF Within, t
<1>3. CASE f = "owned"
  <2>1. Cells(g, "owned", v) = Bytes(t.owned, v)
    BY CellsOfMany DEF t
  <2>2. a \in DOMAIN Bytes(t.owned, v)
    BY <1>3, <2>1
  <2>0. v \in Fields["owned"]
    BY <1>3
  <2>a. v \in Texts(Byte, 19)
    BY <2>0, FieldsAre
  <2>3. v \in Seq(Byte) /\ Len(v) \in 0..19
    BY <2>a, TextsAre
  <2>5. t.owned \in Nat
    BY <1>t
  <2>6. DOMAIN Bytes(t.owned, v) = t.owned..t.owned + Len(v) - 1
    BY <2>3, <2>5, BytesLie
  <2>7. a \in t.owned..t.owned + Len(v) - 1 /\ Len(v) \in 0..19
    BY <2>2, <2>3, <2>6
  <2>9. a \in t.owned..t.owned + 18
    <3>1. 18 \in Nat /\ Len(v) \in 0..18 + 1
      BY <2>7
    <3> QED BY <2>5, <2>7, <3>1, Reach
  <2> QED BY <1>3, <2>9 DEF Within, t
<1>4. CASE f = "group"
  <2>1. "group" \notin DOMAIN t => Cells(g, "group", v) = NoMemory
    BY CellsOfSome DEF t
  <2>2. "group" \in DOMAIN t => Cells(g, "group", v) = Bytes(t.group, <<v>>)
    BY CellsOfSome DEF t
  <2>3. "group" \in DOMAIN t
    BY <1>4, <1>n, <2>1
  <2>4. a \in DOMAIN Bytes(t.group, <<v>>)
    BY <1>4, <2>2, <2>3
  <2>5. DOMAIN Bytes(t.group, <<v>>) = {t.group}
    BY <1>t, <2>3, ByteLies
  <2>9. "group" \in DOMAIN t /\ a = t.group
    BY <2>3, <2>4, <2>5
  <2> QED BY <1>4, <2>9 DEF Within, t
<1>5. CASE f = "kanto"
  <2>1. "kanto" \notin DOMAIN t => Cells(g, "kanto", v) = NoMemory
    BY CellsOfSome DEF t
  <2>2. "kanto" \in DOMAIN t => Cells(g, "kanto", v) = Bytes(t.kanto, <<v>>)
    BY CellsOfSome DEF t
  <2>3. "kanto" \in DOMAIN t
    BY <1>5, <1>n, <2>1
  <2>4. a \in DOMAIN Bytes(t.kanto, <<v>>)
    BY <1>5, <2>2, <2>3
  <2>5. DOMAIN Bytes(t.kanto, <<v>>) = {t.kanto}
    BY <1>t, <2>3, ByteLies
  <2>9. "kanto" \in DOMAIN t /\ a = t.kanto
    BY <2>3, <2>4, <2>5
  <2> QED BY <1>5, <2>9 DEF Within, t
<1>6. CASE f = "badges"
  <2>1. Cells(g, "badges", v) = Bytes(t.badges, <<v>>)
    BY CellsOfOne DEF t
  <2>2. a \in DOMAIN Bytes(t.badges, <<v>>)
    BY <1>6, <2>1
  <2>3. DOMAIN Bytes(t.badges, <<v>>) = {t.badges}
    BY <1>t, ByteLies
  <2>9. a = t.badges
    BY <2>2, <2>3
  <2> QED BY <1>6, <2>9 DEF Within, t
<1>7. CASE f = "map"
  <2>1. Cells(g, "map", v) = Bytes(t.map, <<v>>)
    BY CellsOfOne DEF t
  <2>2. a \in DOMAIN Bytes(t.map, <<v>>)
    BY <1>7, <2>1
  <2>3. DOMAIN Bytes(t.map, <<v>>) = {t.map}
    BY <1>t, ByteLies
  <2>9. a = t.map
    BY <2>2, <2>3
  <2> QED BY <1>7, <2>9 DEF Within, t
<1>8. CASE f = "party_count"
  <2>1. Cells(g, "party_count", v) = Bytes(t.party_count, <<v>>)
    BY CellsOfOne DEF t
  <2>2. a \in DOMAIN Bytes(t.party_count, <<v>>)
    BY <1>8, <2>1
  <2>3. DOMAIN Bytes(t.party_count, <<v>>) = {t.party_count}
    BY <1>t, ByteLies
  <2>9. a = t.party_count
    BY <2>2, <2>3
  <2> QED BY <1>8, <2>9 DEF Within, t
<1>9. CASE f = "enemies"
  <2>1. Cells(g, "enemies", v) = Bytes(t.enemies, <<v>>)
    BY CellsOfOne DEF t
  <2>2. a \in DOMAIN Bytes(t.enemies, <<v>>)
    BY <1>9, <2>1
  <2>3. DOMAIN Bytes(t.enemies, <<v>>) = {t.enemies}
    BY <1>t, ByteLies
  <2>9. a = t.enemies
    BY <2>2, <2>3
  <2> QED BY <1>9, <2>9 DEF Within, t
<1>10. CASE f = "species"
  <2>1. Cells(g, "species", v) = Bytes(t.party + t.mon.species, <<v>>)
    BY CellsOfOne DEF t
  <2>2. a \in DOMAIN Bytes(t.party + t.mon.species, <<v>>)
    BY <1>10, <2>1
  <2>3. DOMAIN Bytes(t.party + t.mon.species, <<v>>) = {t.party + t.mon.species}
    BY <1>p, ByteLies
  <2>9. a = t.party + t.mon.species
    BY <2>2, <2>3
  <2> QED BY <1>10, <2>9 DEF Within, t
<1>11. CASE f = "level"
  <2>1. Cells(g, "level", v) = Bytes(t.party + t.mon.level, <<v>>)
    BY CellsOfOne DEF t
  <2>2. a \in DOMAIN Bytes(t.party + t.mon.level, <<v>>)
    BY <1>11, <2>1
  <2>3. DOMAIN Bytes(t.party + t.mon.level, <<v>>) = {t.party + t.mon.level}
    BY <1>p, ByteLies
  <2>9. a = t.party + t.mon.level
    BY <2>2, <2>3
  <2> QED BY <1>11, <2>9 DEF Within, t
<1>12. CASE f = "hp"
  <2>1. Cells(g, "hp", v) = Bytes(t.party + t.mon.hp, High(v))
    BY CellsOfWord DEF t
  <2>2. a \in DOMAIN Bytes(t.party + t.mon.hp, High(v))
    BY <1>12, <2>1
  <2>9. a \in t.party + t.mon.hp..t.party + t.mon.hp + 1
    BY <1>p, <2>2, WordLies
  <2> QED BY <1>12, <2>9 DEF Within, t
<1>13. CASE f = "hp_max"
  <2>1. Cells(g, "hp_max", v) = Bytes(t.party + t.mon.hp_max, High(v))
    BY CellsOfWord DEF t
  <2>2. a \in DOMAIN Bytes(t.party + t.mon.hp_max, High(v))
    BY <1>13, <2>1
  <2>9. a \in t.party + t.mon.hp_max..t.party + t.mon.hp_max + 1
    BY <1>p, <2>2, WordLies
  <2> QED BY <1>13, <2>9 DEF Within, t
<1>14. CASE f = "attack"
  <2>1. Cells(g, "attack", v) = Bytes(t.party + t.mon.attack, High(v))
    BY CellsOfWord DEF t
  <2>2. a \in DOMAIN Bytes(t.party + t.mon.attack, High(v))
    BY <1>14, <2>1
  <2>9. a \in t.party + t.mon.attack..t.party + t.mon.attack + 1
    BY <1>p, <2>2, WordLies
  <2> QED BY <1>14, <2>9 DEF Within, t
<1>15. CASE f = "special"
  <2>1. Cells(g, "special", v) = Bytes(t.party + t.mon.special, High(v))
    BY CellsOfWord DEF t
  <2>2. a \in DOMAIN Bytes(t.party + t.mon.special, High(v))
    BY <1>15, <2>1
  <2>9. a \in t.party + t.mon.special..t.party + t.mon.special + 1
    BY <1>p, <2>2, WordLies
  <2> QED BY <1>15, <2>9 DEF Within, t
<1>16. CASE f = "battle"
  <2>1. /\ "battle_type" \in DOMAIN t =>
             Cells(g, "battle", v) = Both(Bytes(t.in_battle, <<v>>), Bytes(t.battle_type, <<v>>))
        /\ "battle_type" \notin DOMAIN t => Cells(g, "battle", v) = Bytes(t.in_battle, <<v>>)
    BY CellsOfBattle DEF t
  <2>2. a \in DOMAIN Bytes(t.in_battle, <<v>>) \/ ("battle_type" \in DOMAIN t /\ a \in DOMAIN Bytes(t.battle_type, <<v>>))
    BY <1>16, <2>1 DEF Both
  <2>3. DOMAIN Bytes(t.in_battle, <<v>>) = {t.in_battle}
    BY <1>t, ByteLies
  <2>4. "battle_type" \in DOMAIN t => DOMAIN Bytes(t.battle_type, <<v>>) = {t.battle_type}
    BY <1>t, ByteLies
  <2>9. a = t.in_battle \/ ("battle_type" \in DOMAIN t /\ a = t.battle_type)
    BY <1>t, <2>2, <2>3, <2>4
  <2> QED BY <1>16, <2>9 DEF Within, t
<1>17. CASE f = "moves"
  <2>1. Cells(g, "moves", v) = Both(Bytes(t.party + t.mon.moves, v[1]), Bytes(t.party + t.mon.pp, v[2]))
    BY CellsOfPair DEF t
  <2>2. a \in DOMAIN Bytes(t.party + t.mon.moves, v[1]) \/ a \in DOMAIN Bytes(t.party + t.mon.pp, v[2])
    BY <1>17, <2>1 DEF Both
  <2>3. v[1] \in [1..4 -> Byte] /\ v[2] \in [1..4 -> Byte]
    BY <1>17 DEF Fields
  <2> DEFINE x == t.party + t.mon.moves
             y == t.party + t.mon.pp
  <2>4. x \in Nat /\ y \in Nat
    BY <1>p
  <2> HIDE DEF x, y
  <2>5. DOMAIN Bytes(x, v[1]) = x..x + 3 /\ DOMAIN Bytes(y, v[2]) = y..y + 3
    BY <2>3, <2>4, FourLie
  <2>6. a \in DOMAIN Bytes(x, v[1]) \/ a \in DOMAIN Bytes(y, v[2])
    BY <2>2 DEF x, y
  <2>7. a \in x..x + 3 \/ a \in y..y + 3
    BY <2>5, <2>6, Zenon
  <2>9. \/ a \in t.party + t.mon.moves..t.party + t.mon.moves + 3
        \/ a \in t.party + t.mon.pp..t.party + t.mon.pp + 3
    BY <2>7, Zenon DEF x, y
  <2> QED BY <1>17, <2>9 DEF Within, t
<1>18. CASE f = "enemy"
  <2>1. Cells(g, "enemy", v) = Both(Bytes(t.enemy.species, <<v[1]>>), Bytes(t.enemy.hp, High(v[2])))
    BY CellsOfPair DEF t
  <2>2. a \in DOMAIN Bytes(t.enemy.species, <<v[1]>>) \/ a \in DOMAIN Bytes(t.enemy.hp, High(v[2]))
    BY <1>18, <2>1 DEF Both
  <2>3. DOMAIN Bytes(t.enemy.species, <<v[1]>>) = {t.enemy.species}
    BY <1>t, ByteLies
  <2>4. DOMAIN Bytes(t.enemy.hp, High(v[2])) = t.enemy.hp..t.enemy.hp + 1
    BY <1>t, WordLies
  <2>9. a = t.enemy.species \/ a \in t.enemy.hp..t.enemy.hp + 1
    BY <2>2, <2>3, <2>4
  <2> QED BY <1>18, <2>9 DEF Within, t
<1> QED BY <1>1, <1>2, <1>3, <1>4, <1>5, <1>6, <1>7, <1>8, <1>9, <1>10, <1>11, <1>12, <1>13, <1>14, <1>15, <1>16, <1>17, <1>18 DEF FieldNames

\* A cell belongs to the field that takes it.
LEMMA CellsApart ==
  ASSUME NEW g \in Games, NEW f \in FieldNames, NEW v \in Fields[f], NEW a \in DOMAIN Cells(g, f, v)
  PROVE  FieldAt(g, a) = f
BY CellsWithin, FieldOfCell

\* Reading memory that was written over.
LEMMA AtOverlaid ==
  ASSUME NEW m, NEW c, NEW a
  PROVE  At(Overlaid(m, c), a) = IF a \in DOMAIN c THEN c[a] ELSE At(m, a)
BY DEF At, Overlaid

\* Data that the game may have, its memory, and the party's places but the first.
FitData(d) == DOMAIN d = FieldNames /\ \A f \in FieldNames : d[f] \in Fields[f]
Keeps(g, d, m) == \A f \in FieldNames : \A a \in DOMAIN Cells(g, f, d[f]) : At(m, a) = Cells(g, f, d[f])[a]
Place(g, i) == Tables[g].party + (i - 1) * Tables[g].mon_size + Tables[g].mon.species
Vacant(g, m) == \A i \in 2..6 : At(m, Place(g, i)) = 0

\* The places of the other Pokemon belong to no field: play leaves them empty.
LEMMA PlaceOfNone ==
  ASSUME NEW g \in Games, NEW i \in 2..6, NEW f \in FieldNames, NEW v \in Fields[f]
  PROVE  Place(g, i) \notin DOMAIN Cells(g, f, v)
<1>1. FieldAt(g, Place(g, i)) = "none"
  BY OtherPlaces DEF Place
<1>2. f # "none"
  BY DEF FieldNames
<1> QED BY <1>1, <1>2, CellsApart

\* Memory holds the data that it was filled with.
LEMMA MemoryKeeps ==
  ASSUME NEW g \in Games, NEW d, FitData(d)
  PROVE  Keeps(g, d, Memory(g, d)) /\ Vacant(g, Memory(g, d))
<1> DEFINE field(a) == CHOOSE f \in DOMAIN d : a \in DOMAIN Cells(g, f, d[f])
           c == [a \in UNION {DOMAIN Cells(g, f, d[f]) : f \in DOMAIN d} |-> Cells(g, field(a), d[field(a)])[a]]
<1>1. Memory(g, d) = Overlaid(NoMemory, c)
  BY DEF Memory
<1>2. DOMAIN d = FieldNames /\ \A f \in FieldNames : d[f] \in Fields[f]
  BY DEF FitData
<1>3. ASSUME NEW f \in FieldNames, NEW a \in DOMAIN Cells(g, f, d[f])
      PROVE  At(Memory(g, d), a) = Cells(g, f, d[f])[a]
  <2>1. a \in DOMAIN c
    BY <1>2, <1>3
  <2>2. field(a) \in FieldNames /\ a \in DOMAIN Cells(g, field(a), d[field(a)])
    BY <1>2, <1>3
  <2>3. field(a) = FieldAt(g, a) /\ f = FieldAt(g, a)
    BY <1>2, <1>3, <2>2, CellsApart
  <2>4. c[a] = Cells(g, f, d[f])[a]
    BY <2>1, <2>3
  <2> QED BY <1>1, <2>1, <2>4, AtOverlaid
<1>4. ASSUME NEW i \in 2..6 PROVE At(Memory(g, d), Place(g, i)) = 0
  <2>1. Place(g, i) \notin DOMAIN c
    BY <1>2, PlaceOfNone
  <2>2. At(NoMemory, Place(g, i)) = 0
    BY DEF At, NoMemory
  <2> QED BY <1>1, <2>1, <2>2, AtOverlaid
<1> QED BY <1>3, <1>4 DEF Keeps, Vacant

\* A field that changes takes its own cells only.
LEMMA PlayKeeps ==
  ASSUME NEW g \in Games, NEW d, NEW m, FitData(d), Keeps(g, d, m), Vacant(g, m),
         NEW f \in FieldNames, NEW v \in Fields[f]
  PROVE  LET e == [d EXCEPT ![f] = v]
             w == Overlaid(m, Cells(g, f, v))
         IN  FitData(e) /\ Keeps(g, e, w) /\ Vacant(g, w)
<1> DEFINE e == [d EXCEPT ![f] = v]
           w == Overlaid(m, Cells(g, f, v))
<1>1. DOMAIN d = FieldNames /\ \A h \in FieldNames : d[h] \in Fields[h]
  BY DEF FitData
<1>2. e[f] = v /\ \A h \in FieldNames : h # f => e[h] = d[h]
  BY <1>1
<1>3. FitData(e)
  BY <1>1, <1>2 DEF FitData
<1>4. ASSUME NEW h \in FieldNames, NEW a \in DOMAIN Cells(g, h, e[h])
      PROVE  At(w, a) = Cells(g, h, e[h])[a]
  <2>1. CASE h = f
    BY <1>2, <1>4, <2>1, AtOverlaid
  <2>2. CASE h # f
    <3>1. e[h] = d[h]
      BY <1>2, <2>2
    <3>2. a \in DOMAIN Cells(g, h, d[h])
      BY <1>4, <3>1
    <3>3. FieldAt(g, a) = h
      BY <1>1, <3>2, CellsApart
    <3>4. a \notin DOMAIN Cells(g, f, v)
      BY <2>2, <3>3, CellsApart
    <3>5. At(w, a) = At(m, a)
      BY <3>4, AtOverlaid
    <3>6. At(m, a) = Cells(g, h, d[h])[a]
      BY <3>2 DEF Keeps
    <3> QED BY <3>1, <3>5, <3>6
  <2> QED BY <2>1, <2>2
<1>5. ASSUME NEW i \in 2..6 PROVE At(w, Place(g, i)) = 0
  <2>1. Place(g, i) \notin DOMAIN Cells(g, f, v)
    BY PlaceOfNone
  <2>2. At(w, Place(g, i)) = At(m, Place(g, i))
    BY <2>1, AtOverlaid
  <2> QED BY <2>2 DEF Vacant
<1> QED BY <1>3, <1>4, <1>5 DEF Keeps, Vacant

\* A read of a cell that memory keeps.
LEMMA KeptAt ==
  ASSUME NEW g, NEW d, NEW m, Keeps(g, d, m), NEW f \in FieldNames, NEW a \in DOMAIN Cells(g, f, d[f])
  PROVE  rb(m, a) = Cells(g, f, d[f])[a]
BY DEF Keeps, rb

\* A field of one byte is read back.
LEMMA KeptByte ==
  ASSUME NEW g, NEW d, NEW m, Keeps(g, d, m), NEW f \in FieldNames, NEW a \in Nat,
         Cells(g, f, d[f]) = Bytes(a, <<d[f]>>)
  PROVE  rb(m, a) = d[f]
<1>1. DOMAIN Bytes(a, <<d[f]>>) = {a} /\ Bytes(a, <<d[f]>>)[a] = d[f]
  BY ByteLies
<1> QED BY <1>1, KeptAt

\* A field of one word is read with its bytes exchanged.
LEMMA KeptWord ==
  ASSUME NEW g, NEW d, NEW m, Keeps(g, d, m), NEW f \in FieldNames, NEW a \in Nat,
         Cells(g, f, d[f]) = Bytes(a, High(d[f]))
  PROVE  rw(m, a) = WordOf(Lo(d[f]), Hi(d[f]))
<1>1. DOMAIN Bytes(a, High(d[f])) = a..a + 1
  BY WordLies
<1>2. Bytes(a, High(d[f]))[a] = Hi(d[f]) /\ Bytes(a, High(d[f]))[a + 1] = Lo(d[f])
  BY WordLies
<1>3. a \in a..a + 1 /\ a + 1 \in a..a + 1
  OBVIOUS
<1>4. rb(m, a) = Hi(d[f]) /\ rb(m, a + 1) = Lo(d[f])
  BY <1>1, <1>2, <1>3, KeptAt
<1> QED BY <1>4 DEF rb, rw

\* The pieces of a field of two do not overlap.
LEMMA PiecesApart ==
  ASSUME NEW g \in Games
  PROVE  Tables[g].enemy.species < Tables[g].enemy.hp /\ Tables[g].mon.moves + 3 < Tables[g].mon.pp
<1>1. CASE g \in {"RED", "BLUE"}
  <2>1. Tables[g] = red_blue
    BY <1>1 DEF Tables
  <2> QED BY SMTT(30), <2>1 DEF red_blue, Party1, Enemy1
<1>2. CASE g = "YELLOW"
  <2>1. Tables[g] = yellow
    BY <1>2 DEF Tables
  <2> QED BY SMTT(30), <2>1 DEF yellow, Party1, Enemy1
<1>3. CASE g \in {"GOLD", "SILVER"}
  <2>1. Tables[g] = gold_silver
    BY <1>3 DEF Tables
  <2> QED BY SMTT(30), <2>1 DEF gold_silver, Party2
<1>4. CASE g = "CRYSTAL"
  <2>1. Tables[g] = crystal
    BY <1>4 DEF Tables
  <2> QED BY SMTT(30), <2>1 DEF crystal, Party2
<1> QED BY <1>1, <1>2, <1>3, <1>4 DEF Games

\* What the reader finds of the fields of a byte and of a word.
LEMMA ReadsOne ==
  ASSUME NEW g \in Games, NEW d, NEW m, Keeps(g, d, m)
  PROVE  LET t == Tables[g]
         IN  /\ rb(m, t.badges) = d["badges"] /\ rb(m, t.map) = d["map"]
             /\ rb(m, t.party_count) = d["party_count"] /\ rb(m, t.enemies) = d["enemies"]
             /\ rb(m, t.party + t.mon.species) = d["species"] /\ rb(m, t.party + t.mon.level) = d["level"]
             /\ generation(g) = 2 => rb(m, t.group) = d["group"] /\ rb(m, t.kanto) = d["kanto"]
<1> DEFINE t == Tables[g]
<1>n. {"badges", "map", "party_count", "enemies", "species", "level", "group", "kanto"} \subseteq FieldNames
  BY DEF FieldNames
<1>t. /\ t.badges \in Nat /\ t.map \in Nat /\ t.party_count \in Nat /\ t.enemies \in Nat
      /\ t.party + t.mon.species \in Nat /\ t.party + t.mon.level \in Nat
      /\ generation(g) = 2 => t.group \in Nat /\ t.kanto \in Nat /\ {"group", "kanto"} \subseteq DOMAIN t
  BY TablesAre
<1>1. Cells(g, "badges", d["badges"]) = Bytes(t.badges, <<d["badges"]>>)
  BY CellsOfOne
<1>2. Cells(g, "map", d["map"]) = Bytes(t.map, <<d["map"]>>)
  BY CellsOfOne
<1>3. Cells(g, "party_count", d["party_count"]) = Bytes(t.party_count, <<d["party_count"]>>)
  BY CellsOfOne
<1>4. Cells(g, "enemies", d["enemies"]) = Bytes(t.enemies, <<d["enemies"]>>)
  BY CellsOfOne
<1>5. Cells(g, "species", d["species"]) = Bytes(t.party + t.mon.species, <<d["species"]>>)
  BY CellsOfOne
<1>6. Cells(g, "level", d["level"]) = Bytes(t.party + t.mon.level, <<d["level"]>>)
  BY CellsOfOne
<1> HIDE DEF t
<1>11. rb(m, t.badges) = d["badges"]
  BY <1>n, <1>t, <1>1, KeptByte
<1>12. rb(m, t.map) = d["map"]
  BY <1>n, <1>t, <1>2, KeptByte
<1>13. rb(m, t.party_count) = d["party_count"]
  BY <1>n, <1>t, <1>3, KeptByte
<1>14. rb(m, t.enemies) = d["enemies"]
  BY <1>n, <1>t, <1>4, KeptByte
<1>15. rb(m, t.party + t.mon.species) = d["species"]
  BY <1>n, <1>t, <1>5, KeptByte
<1>16. rb(m, t.party + t.mon.level) = d["level"]
  BY <1>n, <1>t, <1>6, KeptByte
<1>17. ASSUME generation(g) = 2 PROVE rb(m, t.group) = d["group"] /\ rb(m, t.kanto) = d["kanto"]
  <2>1. Cells(g, "group", d["group"]) = Bytes(t.group, <<d["group"]>>)
    BY <1>t, <1>17, CellsOfSome DEF t
  <2>2. Cells(g, "kanto", d["kanto"]) = Bytes(t.kanto, <<d["kanto"]>>)
    BY <1>t, <1>17, CellsOfSome DEF t
  <2>3. rb(m, t.group) = d["group"]
    BY <1>n, <1>t, <1>17, <2>1, KeptByte
  <2>4. rb(m, t.kanto) = d["kanto"]
    BY <1>n, <1>t, <1>17, <2>2, KeptByte
  <2> QED BY <2>3, <2>4
<1> QED BY <1>11, <1>12, <1>13, <1>14, <1>15, <1>16, <1>17 DEF t

\* The words of the first Pokemon, through the table.
LEMMA ReadsWords ==
  ASSUME NEW g \in Games, NEW d, NEW m, Keeps(g, d, m)
  PROVE  LET t == Tables[g]
         IN  /\ rw(m, t.party + t.mon.hp) = WordOf(Lo(d["hp"]), Hi(d["hp"]))
             /\ rw(m, t.party + t.mon.hp_max) = WordOf(Lo(d["hp_max"]), Hi(d["hp_max"]))
             /\ rw(m, t.party + t.mon.attack) = WordOf(Lo(d["attack"]), Hi(d["attack"]))
             /\ rw(m, t.party + t.mon.special) = WordOf(Lo(d["special"]), Hi(d["special"]))
<1> DEFINE t == Tables[g]
<1>n. {"hp", "hp_max", "attack", "special"} \subseteq FieldNames
  BY DEF FieldNames
<1>t. /\ t.party + t.mon.hp \in Nat /\ t.party + t.mon.hp_max \in Nat
      /\ t.party + t.mon.attack \in Nat /\ t.party + t.mon.special \in Nat
  BY TablesAre
<1>1. Cells(g, "hp", d["hp"]) = Bytes(t.party + t.mon.hp, High(d["hp"]))
  BY CellsOfWord
<1>2. Cells(g, "hp_max", d["hp_max"]) = Bytes(t.party + t.mon.hp_max, High(d["hp_max"]))
  BY CellsOfWord
<1>3. Cells(g, "attack", d["attack"]) = Bytes(t.party + t.mon.attack, High(d["attack"]))
  BY CellsOfWord
<1>4. Cells(g, "special", d["special"]) = Bytes(t.party + t.mon.special, High(d["special"]))
  BY CellsOfWord
<1> HIDE DEF t
<1>11. rw(m, t.party + t.mon.hp) = WordOf(Lo(d["hp"]), Hi(d["hp"]))
  BY <1>n, <1>t, <1>1, KeptWord
<1>12. rw(m, t.party + t.mon.hp_max) = WordOf(Lo(d["hp_max"]), Hi(d["hp_max"]))
  BY <1>n, <1>t, <1>2, KeptWord
<1>13. rw(m, t.party + t.mon.attack) = WordOf(Lo(d["attack"]), Hi(d["attack"]))
  BY <1>n, <1>t, <1>3, KeptWord
<1>14. rw(m, t.party + t.mon.special) = WordOf(Lo(d["special"]), Hi(d["special"]))
  BY <1>n, <1>t, <1>4, KeptWord
<1> QED BY <1>11, <1>12, <1>13, <1>14 DEF t

\* Its moves and their PP.
LEMMA ReadsMoves ==
  ASSUME NEW g \in Games, NEW d, NEW m, Keeps(g, d, m), FitData(d), NEW i \in 1..4
  PROVE  LET t == Tables[g]
         IN  /\ rb(m, t.party + t.mon.moves + i - 1) = d["moves"][1][i]
             /\ rb(m, t.party + t.mon.pp + (i - 1)) = d["moves"][2][i]
             /\ d["moves"][2][i] \in Byte
<1> DEFINE t == Tables[g]
           x == t.party + t.mon.moves
           y == t.party + t.mon.pp
           p == d["moves"][1]
           q == d["moves"][2]
<1>n. "moves" \in FieldNames
  BY DEF FieldNames
<1>1. d["moves"] \in Fields["moves"]
  BY <1>n DEF FitData
<1>2. p \in [1..4 -> Byte] /\ q \in [1..4 -> Byte]
  BY <1>1, FieldsAre
<1>t. t.party \in Nat /\ t.mon.moves \in Nat /\ t.mon.pp \in Nat /\ t.mon.moves + 3 < t.mon.pp
  BY TablesAre, PiecesApart
<1>3. Cells(g, "moves", d["moves"]) = Both(Bytes(x, p), Bytes(y, q))
  BY CellsOfPair
<1>4. x \in Nat /\ y \in Nat /\ x + 3 < y
  BY <1>t
<1> HIDE DEF t, x, y, p, q
<1>5. DOMAIN Bytes(x, p) = x..x + 3 /\ DOMAIN Bytes(y, q) = y..y + 3
  BY <1>2, <1>4, FourLie
<1>6. Bytes(x, p)[x + i - 1] = p[i] /\ Bytes(y, q)[y + i - 1] = q[i]
  BY <1>2, <1>4, FourLie
<1>7. x + i - 1 \in x..x + 3 /\ y + i - 1 \in y..y + 3 /\ y + i - 1 \notin x..x + 3 /\ y + i - 1 = y + (i - 1)
  BY <1>4
<1>8. DOMAIN Both(Bytes(x, p), Bytes(y, q)) = x..x + 3 \cup y..y + 3
  BY <1>5 DEF Both
<1>9. Both(Bytes(x, p), Bytes(y, q))[x + i - 1] = p[i] /\ Both(Bytes(x, p), Bytes(y, q))[y + i - 1] = q[i]
  BY <1>5, <1>6, <1>7 DEF Both
<1>10. x + i - 1 \in DOMAIN Cells(g, "moves", d["moves"]) /\ y + i - 1 \in DOMAIN Cells(g, "moves", d["moves"])
  BY <1>3, <1>7, <1>8
<1>11. rb(m, x + i - 1) = p[i] /\ rb(m, y + i - 1) = q[i]
  BY <1>n, <1>3, <1>9, <1>10, KeptAt
<1>12. rb(m, y + (i - 1)) = q[i] /\ q[i] \in Byte
  BY <1>2, <1>7, <1>11
<1> QED BY <1>11, <1>12 DEF t, x, y, p, q

\* The enemy's species and HP.
LEMMA ReadsEnemy ==
  ASSUME NEW g \in Games, NEW d, NEW m, Keeps(g, d, m)
  PROVE  LET t == Tables[g]
         IN  /\ rb(m, t.enemy.species) = d["enemy"][1]
             /\ rw(m, t.enemy.hp) = WordOf(Lo(d["enemy"][2]), Hi(d["enemy"][2]))
<1> DEFINE t == Tables[g]
           x == t.enemy.species
           y == t.enemy.hp
           v == d["enemy"][1]
           w == d["enemy"][2]
<1>n. "enemy" \in FieldNames
  BY DEF FieldNames
<1>4. x \in Nat /\ y \in Nat /\ x < y
  BY TablesAre, PiecesApart
<1>3. Cells(g, "enemy", d["enemy"]) = Both(Bytes(x, <<v>>), Bytes(y, High(w)))
  BY CellsOfPair
<1> HIDE DEF t, x, y, v, w
<1>5. DOMAIN Bytes(x, <<v>>) = {x} /\ Bytes(x, <<v>>)[x] = v
  BY <1>4, ByteLies
<1>6. DOMAIN Bytes(y, High(w)) = y..y + 1 /\ Bytes(y, High(w))[y] = Hi(w) /\ Bytes(y, High(w))[y + 1] = Lo(w)
  BY <1>4, WordLies
<1>7. y \in y..y + 1 /\ y + 1 \in y..y + 1 /\ y # x /\ y + 1 # x
  BY <1>4
<1> DEFINE c == Both(Bytes(x, <<v>>), Bytes(y, High(w)))
<1>8. x \in DOMAIN c /\ y \in DOMAIN c /\ y + 1 \in DOMAIN c
  BY <1>5, <1>6, <1>7 DEF Both
<1>9. c[x] = v /\ c[y] = Hi(w) /\ c[y + 1] = Lo(w)
  BY <1>5, <1>6, <1>7 DEF Both
<1> HIDE DEF c
<1>10. Cells(g, "enemy", d["enemy"]) = c
  BY <1>3 DEF c
<1>11. rb(m, x) = v /\ rb(m, y) = Hi(w) /\ rb(m, y + 1) = Lo(w)
  BY <1>n, <1>8, <1>9, <1>10, KeptAt
<1>12. rw(m, y) = WordOf(Lo(w), Hi(w))
  BY <1>11 DEF rw, rb
<1> QED BY <1>11, <1>12 DEF t, x, y, v, w

\* Whether there is a battle: no battle is 0 in either place.
LEMMA ReadsBattle ==
  ASSUME NEW g \in Games, NEW d, NEW m, Keeps(g, d, m)
  PROVE  LET t == Tables[g]
         IN  /\ rb(m, t.in_battle) = d["battle"]
             /\ generation(g) = 2 => rb(m, t.battle_type) = d["battle"]
<1> DEFINE t == Tables[g]
           v == d["battle"]
<1>n. "battle" \in FieldNames
  BY DEF FieldNames
<1>t. /\ t.in_battle \in Nat /\ generation(g) \in 1..2
      /\ generation(g) = 2 => t.battle_type \in Nat /\ "battle_type" \in DOMAIN t
      /\ generation(g) = 1 => "battle_type" \notin DOMAIN t
  BY TablesAre
<1>1. CASE generation(g) = 2
  <2>1. Cells(g, "battle", v) = Both(Bytes(t.in_battle, <<v>>), Bytes(t.battle_type, <<v>>))
    BY <1>t, <1>1, CellsOfBattle
  <2> HIDE DEF t, v
  <2>2. DOMAIN Bytes(t.in_battle, <<v>>) = {t.in_battle} /\ Bytes(t.in_battle, <<v>>)[t.in_battle] = v
    BY <1>t, ByteLies
  <2>3. DOMAIN Bytes(t.battle_type, <<v>>) = {t.battle_type} /\ Bytes(t.battle_type, <<v>>)[t.battle_type] = v
    BY <1>t, <1>1, ByteLies
  <2> DEFINE c == Both(Bytes(t.in_battle, <<v>>), Bytes(t.battle_type, <<v>>))
  <2>4. t.in_battle \in DOMAIN c /\ t.battle_type \in DOMAIN c
    BY <2>2, <2>3 DEF Both
  <2>5. c[t.in_battle] = v /\ c[t.battle_type] = v
    BY <2>2, <2>3 DEF Both
  <2> HIDE DEF c
  <2>6. Cells(g, "battle", d["battle"]) = c
    BY <2>1 DEF c, v
  <2>7. rb(m, t.in_battle) = v /\ rb(m, t.battle_type) = v
    BY <1>n, <2>4, <2>5, <2>6, KeptAt
  <2> QED BY <2>7 DEF t, v
<1>2. CASE generation(g) # 2
  <2>1. "battle_type" \notin DOMAIN t
    BY <1>t, <1>2
  <2>2. Cells(g, "battle", d["battle"]) = Bytes(t.in_battle, <<d["battle"]>>)
    BY <2>1, CellsOfBattle
  <2> HIDE DEF t
  <2>3. rb(m, t.in_battle) = d["battle"]
    BY <1>n, <1>t, <2>2, KeptByte
  <2> QED BY <1>2, <2>3 DEF t
<1> QED BY <1>1, <1>2

\* The members of Byte and of Word, as numbers.
LEMMA Ranges ==
  /\ \A x : x \in Byte <=> x \in Int /\ 0 <= x /\ x <= 255
  /\ \A x : x \in Word <=> x \in Int /\ 0 <= x /\ x <= 65535
<1>1. WordMax \in Int /\ ByteMax \in Int
  BY DEF WordMax, ByteMax
<1>2. /\ \A x : x \in Byte <=> x \in Int /\ 0 <= x /\ x <= ByteMax
      /\ \A x : x \in Word <=> x \in Int /\ 0 <= x /\ x <= WordMax
  BY <1>1 DEF Byte, Word
<1> QED BY SMT, <1>2 DEF WordMax, ByteMax

\* A word whose bytes were swapped comes back when they are swapped again.
LEMMA SwapBack ==
  ASSUME NEW w \in Word
  PROVE  swap_bytes(WordOf(Lo(w), Hi(w))) = w
<1>1. w \in Nat /\ w <= 65535
  BY SMT, Ranges
<1> DEFINE h == Hi(w)
           l == Lo(w)
<1>2. h \in Nat /\ h * 256 <= w /\ w < h * 256 + 256
  BY SMT, <1>1, Divided DEF Hi
<1>3. l = w - h * 256
  BY SMT, <1>1, <1>2 DEF Hi, Lo
<1> HIDE DEF h, l
<1>4. h \in 0..255 /\ l \in 0..255 /\ w = h * 256 + l
  BY SMT, <1>1, <1>2, <1>3
<1>5. (l * 256 + h) \div 256 = l /\ (l * 256 + h) % 256 = h
  BY SMT, <1>4
<1>6. swap_bytes(WordOf(l, h)) = h * 256 + l
  BY <1>5 DEF swap_bytes, WordOf, Hi, Lo
<1> QED BY <1>4, <1>6 DEF h, l

\* Two digits kept as BCD, and a number of six digits by its pairs.
LEMMA BcdBack == ASSUME NEW n \in Nat, n < 100 PROVE Tens(Bcd(n)) = n
<1>1. PICK h \in Nat, l \in Nat : n \div 10 = h /\ n % 10 = l /\ n = 10 * h + l /\ l < 10
  BY SMT
<1>2. Bcd(n) = 16 * h + l
  BY <1>1 DEF Bcd
<1>3. (16 * h + l) \div 16 = h /\ (16 * h + l) % 16 = l
  BY SMT, <1>1
<1>4. Tens(Bcd(n)) = 10 * h + l
  BY <1>2, <1>3 DEF Tens, Nibble
<1> QED BY <1>1, <1>4

\* Money is read back, from BCD or binary.
LEMMA ReadsMoney ==
  ASSUME NEW g \in Games, NEW d, NEW m, Keeps(g, d, m), FitData(d)
  PROVE  LET a == Tables[g].money
         IN  (IF generation(g) = 1 THEN read_bcd24(m, a) ELSE read_int24(m, a)) = d["money"]
<1> DEFINE a == Tables[g].money
           v == d["money"]
           s == MoneyBytes(g, v)
<1>n. "money" \in FieldNames
  BY DEF FieldNames
<1>t. a \in Nat
  BY TablesAre
<1>v. v \in Nat /\ v <= 999999
  <2>1. MaxMoney \in Int
    BY DEF MaxMoney
  <2>2. v \in 0..MaxMoney
    BY <1>n, FieldsAre DEF FitData, Money
  <2>3. v \in Nat /\ v <= MaxMoney
    BY <2>1, <2>2
  <2> QED BY SMT, <2>3 DEF MaxMoney
<1>c. Cells(g, "money", v) = Bytes(a, s)
  BY CellsOfMany
<1>s. s \in Seq({s[i] : i \in 1..3}) /\ Len(s) = 3
  BY MoneyLength
<1> HIDE DEF a, v, s
<1>1. /\ a \in DOMAIN Bytes(a, s) /\ a + 1 \in DOMAIN Bytes(a, s) /\ a + 2 \in DOMAIN Bytes(a, s)
      /\ Bytes(a, s)[a] = s[1] /\ Bytes(a, s)[a + 1] = s[2] /\ Bytes(a, s)[a + 2] = s[3]
  <2>0. \A i \in 1..3 : i \in 1..Len(s)
    BY <1>s
  <2>s. PICK S : s \in Seq(S)
    BY <1>s
  <2>a. \A i \in 1..Len(s) : a + i - 1 \in DOMAIN Bytes(a, s) /\ Bytes(a, s)[a + i - 1] = s[i]
    BY ONLY <1>t, <2>s, BytesLie
  <2>1. \A i \in 1..3 : a + i - 1 \in DOMAIN Bytes(a, s) /\ Bytes(a, s)[a + i - 1] = s[i]
    BY <2>0, <2>a
  <2>2. a + 1 - 1 = a /\ a + 2 - 1 = a + 1 /\ a + 3 - 1 = a + 2
    BY <1>t
  <2>3. a + 1 - 1 \in DOMAIN Bytes(a, s) /\ Bytes(a, s)[a + 1 - 1] = s[1]
    BY <2>1
  <2>4. a + 2 - 1 \in DOMAIN Bytes(a, s) /\ Bytes(a, s)[a + 2 - 1] = s[2]
    BY <2>1
  <2>5. a + 3 - 1 \in DOMAIN Bytes(a, s) /\ Bytes(a, s)[a + 3 - 1] = s[3]
    BY <2>1
  <2> QED BY <2>2, <2>3, <2>4, <2>5
<1>2. rb(m, a) = s[1] /\ rb(m, a + 1) = s[2] /\ rb(m, a + 2) = s[3]
  <2>1. Cells(g, "money", d["money"]) = Bytes(a, s)
    BY <1>c DEF v
  <2> QED BY <1>n, <1>1, <2>1, KeptAt
<1>3. CASE generation(g) = 1
  <2>1. s = <<Bcd(v \div 10000), Bcd((v \div 100) % 100), Bcd(v % 100)>>
    BY SMT, <1>3 DEF s, MoneyBytes
  <2>2. PICK y, z, r \in Nat : /\ y < 100 /\ z < 100 /\ r < 100 /\ v = 10000 * y + 100 * z + r
                               /\ v \div 10000 = y /\ (v \div 100) % 100 = z /\ v % 100 = r
    BY SMT, <1>v, Pairs
  <2>3. s[1] = Bcd(y) /\ s[2] = Bcd(z) /\ s[3] = Bcd(r)
    BY SMT, <2>1, <2>2
  <2>4. Tens(s[1]) = y /\ Tens(s[2]) = z /\ Tens(s[3]) = r
    BY <2>2, <2>3, BcdBack
  <2>5. read_bcd24(m, a) = 10000 * Tens(s[1]) + 100 * Tens(s[2]) + Tens(s[3])
    BY SMT, <1>2 DEF read_bcd24
  <2>6. read_bcd24(m, a) = v
    BY SMT, <2>2, <2>4, <2>5
  <2> QED BY <1>3, <2>6 DEF a, v
<1>4. CASE generation(g) # 1
  <2>1. s = <<v \div 65536, Hi(v % 65536), Lo(v % 65536)>>
    BY SMT, <1>4 DEF s, MoneyBytes
  <2>2. s[1] = v \div 65536 /\ s[2] = Hi(v % 65536) /\ s[3] = Lo(v % 65536)
    BY SMT, <2>1
  <2>3. PICK x \in Nat, y \in Nat : v \div 65536 = x /\ v % 65536 = y /\ v = 65536 * x + y
    BY SMT, <1>v
  <2>4. PICK h \in Nat, l \in Nat : y \div 256 = h /\ y % 256 = l /\ y = 256 * h + l
    BY SMT
  <2>5. rb(m, a) = x /\ rb(m, a + 1) = h /\ rb(m, a + 2) = l
    BY SMT, <1>2, <2>2, <2>3, <2>4 DEF Hi, Lo
  <2>6. read_int24(m, a) = 65536 * x + (h * 256 + l)
    BY SMT, <2>5 DEF read_int24, WordOf
  <2>7. read_int24(m, a) = v
    BY SMT, <2>3, <2>4, <2>6
  <2> QED BY <1>4, <2>7 DEF a, v
<1> QED BY <1>3, <1>4

\* The trainer's name ends where the game's does, whatever follows it.
LEMMA ReadsName ==
  ASSUME NEW g \in Games, NEW d, NEW m, Keeps(g, d, m), FitData(d)
  PROVE  decode_text([i \in 1..11 |-> rb(m, Tables[g].name + i - 1)]) = decode_text(d["name"])
<1> DEFINE a == Tables[g].name
           v == d["name"]
           s == v \o <<Terminator>>
           r == [i \in 1..11 |-> rb(m, a + i - 1)]
<1>n. "name" \in FieldNames
  BY DEF FieldNames
<1>t. a \in Nat
  BY TablesAre
<1>v. v \in Seq(Byte \ {Terminator}) /\ Len(v) \in 0..10
  <2>1. v \in Texts(Byte \ {Terminator}, 10)
    BY <1>n, FieldsAre DEF FitData
  <2> QED BY <2>1, TextsAre
<1>s. /\ s \in Seq(Byte \cup {Terminator}) /\ Len(s) = Len(v) + 1 /\ s[Len(v) + 1] = Terminator
      /\ \A i \in 1..Len(v) : s[i] = v[i]
  BY <1>v
<1>c. Cells(g, "name", v) = Bytes(a, s)
  BY CellsOfMany
<1> HIDE DEF a, v, s
<1>1. ASSUME NEW i \in 1..Len(v) + 1 PROVE i \in 1..11 /\ r[i] = s[i]
  <2>1. i \in 1..11
    <3>1. PICK n \in 0..10 : Len(v) = n
      BY <1>v
    <3> QED BY <3>1
  <2>2. a + i - 1 \in DOMAIN Bytes(a, s) /\ Bytes(a, s)[a + i - 1] = s[i]
    BY <1>t, <1>s, BytesLie
  <2>3. Cells(g, "name", d["name"]) = Bytes(a, s)
    BY <1>c DEF v
  <2>4. rb(m, a + i - 1) = s[i]
    BY <1>n, <2>2, <2>3, KeptAt
  <2> QED BY <2>1, <2>4
<1>2. DOMAIN r = 1..11 /\ Len(r) = 11
  OBVIOUS
<1> HIDE DEF r
<1>3. \A i \in 1..Len(v) : r[i] = v[i] /\ v[i] # Terminator
  <2>1. \A i \in 1..Len(v) : v[i] \in Byte \ {Terminator}
    BY <1>v
  <2>2. \A i \in 1..Len(v) : i \in 1..Len(v) + 1
    BY <1>v
  <2> QED BY <1>s, <1>1, <2>1, <2>2
<1>4. Len(v) + 1 \in 1..11 /\ r[Len(v) + 1] = Terminator
  <2>1. Len(v) + 1 \in 1..Len(v) + 1
    BY <1>v
  <2> QED BY <1>s, <1>1, <2>1
<1>5. Len(v) + 1 = Min({Len(r) + 1} \cup {i \in DOMAIN r : r[i] = Terminator})
  <2> DEFINE S == {Len(r) + 1} \cup {i \in DOMAIN r : r[i] = Terminator}
  <2>1. Len(v) + 1 \in S
    BY <1>2, <1>4
  <2>2. ASSUME NEW i \in S PROVE i \in Int /\ Len(v) + 1 <= i
    <3>1. i \in Int
      BY <1>2, <2>2
    <3>2. ~(i \in 1..Len(v))
      <4>1. PICK n \in 0..10 : Len(v) = n
        BY <1>v
      <4> QED BY <1>2, <1>3, <2>2, <4>1
    <3>3. i >= 1
      BY <1>2, <2>2
    <3> QED BY <1>v, <3>1, <3>2, <3>3
  <2> QED BY <1>v, <2>1, <2>2 DEF Min
<1>6. Len(v) + 1 = Min({Len(v) + 1} \cup {i \in DOMAIN v : v[i] = Terminator})
  <2>1. DOMAIN v = 1..Len(v)
    BY <1>v
  <2>2. {i \in DOMAIN v : v[i] = Terminator} = {}
    BY <1>3, <2>1
  <2> QED BY <1>v, <2>2 DEF Min
<1> DEFINE stop(x) == Min({Len(x) + 1} \cup {i \in DOMAIN x : x[i] = Terminator})
<1>d. \A x : decode_text(x) = [i \in 1..stop(x) - 1 |-> DecodedChar(x[i])]
  BY DEF decode_text
<1>e. stop(r) = Len(v) + 1 /\ stop(v) = Len(v) + 1
  BY <1>5, <1>6
<1> HIDE DEF stop
<1>7. decode_text(r) = [i \in 1..Len(v) + 1 - 1 |-> DecodedChar(r[i])]
  BY <1>d, <1>e
<1>8. decode_text(v) = [i \in 1..Len(v) + 1 - 1 |-> DecodedChar(v[i])]
  BY <1>d, <1>e
<1>9. Len(v) + 1 - 1 = Len(v)
  BY <1>v
<1>10. [i \in 1..Len(v) |-> DecodedChar(r[i])] = [i \in 1..Len(v) |-> DecodedChar(v[i])]
  BY <1>3
<1> QED BY <1>7, <1>8, <1>9, <1>10 DEF r, a, v

-----------------------------------------------------------------------------
(* The heights: all but two of at most 21 lines have one line of text at most. *)
Short(s) == \A i \in DOMAIN s : s[i].h \in 0..7
Tallest(i) == IF i = 4 \/ i = 7 THEN 14 ELSE 7
Fits(s) == /\ OwnElements(s) /\ Len(s) \in 0..21
           /\ \A i \in DOMAIN s : s[i].h \in 0..Tallest(i)
Level(i) == 2 + 7 * (i - 1) + (IF i > 4 THEN 7 ELSE 0) + (IF i > 7 THEN 7 ELSE 0)

\* The lesser of two numbers.
LEMMA MinOfTwo ==
  ASSUME NEW a \in Int, NEW b \in Int
  PROVE  Min({a, b}) \in Int /\ Min({a, b}) <= a /\ Min({a, b}) <= b
<1>1. \E x \in {a, b} : \A y \in {a, b} : x <= y
  <2>1. CASE a <= b
    BY <2>1
  <2>2. CASE ~(a <= b)
    BY <2>2
  <2> QED BY <2>1, <2>2
<1> QED BY <1>1 DEF Min

\* The tops of the lines are as Tops defines them, and none is lower than those above it are high.
LEMMA TopsOfLines ==
  ASSUME NEW r, r.y = 0, r.height = 200, NEW s, Fits(s)
  PROVE  \A i \in DOMAIN s : Tops(r, 2, s)[i] \in Int /\ Tops(r, 2, s)[i] <= Level(i)
<1> DEFINE N == Len(s)
           b == BottomOf(r) - 2
           Body(f) == [i \in 1..N |-> IF i = 1 THEN r.y + 2 ELSE Min({f[i - 1] + s[i - 1].h, b})]
           y == CHOOSE f : f = Body(f)
           hop == [x \in Int \X (1..N) |-> IF x[2] = 1 THEN 2 ELSE Min({x[1] + s[x[2] - 1].h, b})]
<1>0. Tops(r, 2, s) = y
  BY DEF Tops
<1>1. N \in Nat /\ N <= 21 /\ DOMAIN s = 1..N /\ \A i \in 1..N : s[i].h \in 0..Tallest(i)
  <2>1. N \in 0..21
    BY DEF Fits
  <2>2. DOMAIN s = 1..N
    BY DEF Fits, OwnElements
  <2>3. \A i \in DOMAIN s : s[i].h \in 0..Tallest(i)
    BY DEF Fits
  <2> HIDE DEF N
  <2> QED BY <2>1, <2>2, <2>3
<1>t. \A i \in Int : Tallest(i) \in Int
  BY DEF Tallest
<1>h. \A i \in 1..N : s[i].h \in Int /\ s[i].h <= Tallest(i)
  <2>1. \A i \in 1..N : Tallest(i) \in Int
    BY <1>1, <1>t
  <2> HIDE DEF N
  <2> QED BY <1>1, <2>1
<1>2. r.y + 2 = 2 /\ b \in Int
  BY DEF BottomOf
<1> HIDE DEF b
<1> HIDE DEF N
<1>3. hop \in [Int \X (1..N) -> Int]
  <2>1. ASSUME NEW x \in Int \X (1..N) PROVE (IF x[2] = 1 THEN 2 ELSE Min({x[1] + s[x[2] - 1].h, b})) \in Int
    <3>1. CASE x[2] # 1
      <4>1. x[2] - 1 \in 1..N /\ x[1] \in Int
        BY <1>1, <3>1
      <4>2. s[x[2] - 1].h \in Int
        BY <1>h, <4>1
      <4> DEFINE p == x[1] + s[x[2] - 1].h
      <4>3. p \in Int
        BY <4>1, <4>2
      <4> HIDE DEF p
      <4>4. Min({p, b}) \in Int
        BY <1>2, <4>3, MinOfTwo
      <4> QED BY <3>1, <4>4 DEF p
    <3> QED BY <3>1
  <2> QED BY <2>1
<1>4. PICK g \in [0..N -> Int] : Iterates(g, N, 2, hop)
  <2> HIDE DEF hop
  <2> DEFINE Z == Int
             two == 2
  <2>1. two \in Z /\ hop \in [Z \X (1..N) -> Z]
    BY <1>3
  <2> HIDE DEF Z, two
  <2>2. \E g \in [0..N -> Z] : Iterates(g, N, two, hop)
    BY <1>1, <2>1, Iterated
  <2> QED BY <2>2 DEF Z, two
<1>5. ASSUME NEW i \in 1..N PROVE g[i] = IF i = 1 THEN 2 ELSE Min({g[i - 1] + s[i - 1].h, b})
  <2>1. i \in 0..N /\ i # 0 /\ i - 1 \in 0..N
    BY <1>1
  <2>2. g[i] = hop[<<g[i - 1], i>>]
    BY <1>4, <2>1 DEF Iterates
  <2>3. <<g[i - 1], i>> \in Int \X (1..N)
    BY <2>1
  <2> QED BY <2>2, <2>3
<1> HIDE DEF hop
<1> DEFINE h == [i \in 1..N |-> g[i]]
<1>6. h = Body(h)
  <2>1. ASSUME NEW i \in 1..N PROVE h[i] = IF i = 1 THEN r.y + 2 ELSE Min({h[i - 1] + s[i - 1].h, b})
    <3>1. i # 1 => i - 1 \in 1..N
      BY <1>1
    <3>2. h[i] = g[i] /\ (i # 1 => h[i - 1] = g[i - 1])
      BY <3>1
    <3> HIDE DEF h
    <3>3. g[i] = IF i = 1 THEN 2 ELSE Min({g[i - 1] + s[i - 1].h, b})
      BY <1>5
    <3>4. CASE i = 1
      BY <1>2, <3>2, <3>3, <3>4
    <3>5. CASE i # 1
      BY <3>2, <3>3, <3>5
    <3> QED BY <3>4, <3>5
  <2> DEFINE k == Body(h)
  <2>2. DOMAIN h = 1..N /\ h = [i \in 1..N |-> h[i]]
    OBVIOUS
  <2>3. k = [i \in 1..N |-> k[i]]
    OBVIOUS
  <2>4. ASSUME NEW i \in 1..N PROVE h[i] = k[i]
    <3>1. h[i] = IF i = 1 THEN r.y + 2 ELSE Min({h[i - 1] + s[i - 1].h, b})
      BY <2>1
    <3> HIDE DEF h
    <3>2. k[i] = IF i = 1 THEN r.y + 2 ELSE Min({h[i - 1] + s[i - 1].h, b})
      OBVIOUS
    <3> HIDE DEF k
    <3> QED BY <3>1, <3>2, Zenon
  <2>5. h = k
    <3> HIDE DEF h, k
    <3> QED BY <2>2, <2>3, <2>4
  <2> QED BY <2>5
<1>7. y = Body(y)
  <2>1. \E f : f = Body(f)
    BY <1>6
  <2> QED BY <2>1
<1>8. \A i \in 1..N : y[i] = IF i = 1 THEN 2 ELSE Min({y[i - 1] + s[i - 1].h, b})
  <2> HIDE DEF y
  <2>1. \A i \in 1..N : Body(y)[i] = IF i = 1 THEN 2 ELSE Min({y[i - 1] + s[i - 1].h, b})
    BY <1>2
  <2>2. \A i \in 1..N : y[i] = Body(y)[i]
    <3> HIDE DEF Body
    <3> QED BY <1>7
  <2> HIDE DEF Body
  <2>3. ASSUME NEW i \in 1..N PROVE y[i] = IF i = 1 THEN 2 ELSE Min({y[i - 1] + s[i - 1].h, b})
    <3>1. y[i] = Body(y)[i]
      BY <2>2
    <3>2. Body(y)[i] = IF i = 1 THEN 2 ELSE Min({y[i - 1] + s[i - 1].h, b})
      BY <2>1
    <3> QED BY <3>1, <3>2, Zenon
  <2> QED BY <2>3
<1> HIDE DEF y
<1> DEFINE P == {n \in 0..N : n > 0 => y[n] \in Int /\ y[n] <= Level(n)}
<1>9. ASSUME NEW n \in 1..N, n - 1 \in P PROVE n \in P
  <2>1. CASE n = 1
    <3>1. y[n] = 2
      BY <1>8, <2>1
    <3> QED BY <1>1, <2>1, <3>1 DEF Level
  <2>2. CASE n # 1
    <3>1. n - 1 \in 1..N /\ n - 1 > 0 /\ n \in 0..N
      BY <1>1, <2>2
    <3>2. y[n - 1] \in Int /\ y[n - 1] <= Level(n - 1)
      BY <1>9, <3>1
    <3>3. s[n - 1].h \in Int /\ s[n - 1].h <= Tallest(n - 1)
      BY <1>h, <3>1
    <3>4. y[n - 1] + s[n - 1].h \in Int
      BY <3>2, <3>3
    <3>5. y[n] = Min({y[n - 1] + s[n - 1].h, b})
      BY <1>8, <2>2
    <3>6. y[n] \in Int /\ y[n] <= y[n - 1] + s[n - 1].h
      <4> DEFINE p == y[n - 1] + s[n - 1].h
      <4>1. p \in Int /\ y[n] = Min({p, b})
        BY <3>4, <3>5
      <4> HIDE DEF p
      <4>2. Min({p, b}) \in Int /\ Min({p, b}) <= p
        BY <1>2, <4>1, MinOfTwo
      <4> DEFINE q == Min({p, b})
                 u == y[n]
      <4>3. u = q /\ q \in Int /\ q <= p
        BY <4>1, <4>2
      <4> HIDE DEF q, u
      <4>4. u \in Int /\ u <= p
        BY <4>3
      <4> QED BY <4>4 DEF p, u
    <3> DEFINE w == s[n - 1].h
    <3>7. w \in Int /\ w <= Tallest(n - 1)
      BY <3>3
    <3> HIDE DEF w
    <3>8. y[n] <= y[n - 1] + w
      BY <3>6 DEF w
    <3>9. Level(n - 1) + Tallest(n - 1) <= Level(n)
      BY <1>1, <2>2 DEF Level, Tallest
    <3>10. Level(n - 1) \in Int /\ Level(n) \in Int /\ Tallest(n - 1) \in Int
      BY <1>1 DEF Level, Tallest
    <3>11. y[n] <= Level(n)
      BY <3>2, <3>6, <3>7, <3>8, <3>9, <3>10
    <3> QED BY <3>1, <3>6, <3>11
  <2> QED BY <2>1, <2>2
<1>10. \A n \in 0..N : n \in P
  <2>1. 0 \in P
    BY <1>1
  <2> HIDE DEF P
  <2> QED BY <1>1, <1>9, <2>1, UpTo
<1> QED BY <1>0, <1>1, <1>10

\* No line reaches the bottom panel.
LEMMA LinesStand ==
  ASSUME NEW r \in {left_sidebar, right_sidebar}, NEW s, Fits(s), NEW i \in DOMAIN s, NEW x, NEW w
  PROVE  ~Meet(Region(x, Tops(r, 2, s)[i], w, s[i].h), bottom_sidebar)
<1>1. r.y = 0 /\ r.height = 200
  BY DEF left_sidebar, right_sidebar, Region, ScreenHeight
<1>2. Tops(r, 2, s)[i] \in Int /\ Tops(r, 2, s)[i] <= Level(i)
  BY <1>1, TopsOfLines
<1>3. s[i].h \in 0..Tallest(i) /\ i \in Int /\ 1 <= i /\ i <= 21
  <2>1. Len(s) \in 0..21
    BY DEF Fits
  <2>2. DOMAIN s = 1..Len(s)
    BY DEF Fits, OwnElements
  <2>3. PICK n \in 0..21 : Len(s) = n
    BY <2>1
  <2>4. i \in 1..n
    BY <2>2, <2>3
  <2> QED BY <2>4 DEF Fits
<1> DEFINE h == s[i].h
           y == Tops(r, 2, s)[i]
<1>4. h \in Int /\ y \in Int /\ y + h <= 176
  <2>1. h \in Int /\ h <= Tallest(i) /\ y \in Int /\ y <= Level(i)
    <3>1. Tallest(i) \in Int
      BY DEF Tallest
    <3> HIDE DEF y
    <3>2. h \in Int /\ h <= Tallest(i)
      BY <1>3, <3>1
    <3> QED BY <1>2, <3>2 DEF y
  <2> HIDE DEF h, y
  <2> QED BY <1>3, <2>1 DEF Level, Tallest
<1>5. bottom_sidebar.y = 176
  BY DEF bottom_sidebar, Region, GB_BOTTOM
<1> QED BY <1>4, <1>5 DEF Meet, BottomOf, Region

\* A label that the lines have once stands with its value; one that they do not have does not.
LEMMA StandsAt ==
  ASSUME NEW r \in {left_sidebar, right_sidebar}, NEW s, Fits(s), NEW l, l # ""
  PROVE  /\ l \notin Labels(s) => l \notin DOMAIN Standing(r, s)
         /\ \A v : Labelled(s, l, v) => l \in DOMAIN Standing(r, s) /\ Standing(r, s)[l] = v
<1> DEFINE y == Tops(r, 2, s)
           kept == {i \in DOMAIN s : /\ s[i].label # ""
                                     /\ ~Meet(Region(r.x + 2, y[i], r.width - 4, s[i].h), bottom_sidebar)}
           stand == [label \in {s[i].label : i \in kept} |-> s[CHOOSE i \in kept : s[i].label = label].value]
<1>1. Standing(r, s) = stand
  BY DEF Standing
<1>2. kept = {i \in DOMAIN s : s[i].label # ""}
  BY LinesStand
<1>3. ASSUME l \notin Labels(s) PROVE l \notin DOMAIN stand
  BY <1>3 DEF Labels
<1> HIDE DEF kept
<1>4. ASSUME NEW v, Labelled(s, l, v) PROVE l \in DOMAIN stand /\ stand[l] = v
  <2>1. PICK i \in DOMAIN s : s[i].label = l /\ s[i].value = v /\ \A j \in DOMAIN s : s[j].label = l => j = i
    BY <1>4 DEF Labelled
  <2>2. i \in kept /\ \A j \in kept : s[j].label = l => j = i
    BY <1>2, <2>1
  <2>3. l \in DOMAIN stand
    BY <2>1, <2>2
  <2>4. (CHOOSE j \in kept : s[j].label = l) = i
    BY <2>1, <2>2
  <2> QED BY <2>1, <2>3, <2>4
<1> QED BY <1>1, <1>3, <1>4

-----------------------------------------------------------------------------
(* The lines of each panel. *)
LEMMA NoLines == OwnElements(<<>>) /\ Size(<<>>) = 0 /\ Labels(<<>>) = {} /\ Short(<<>>)
<1>1. <<>> \in Seq({})
  OBVIOUS
<1>2. OwnElements(<<>>)
  BY <1>1, LinesOf
<1>3. Len(<<>>) = 0
  OBVIOUS
<1> QED BY <1>2, <1>3 DEF Labels, Short, Size

\* More lines of text, as long as there are not too many.
LEMMA FitsWith ==
  ASSUME NEW s, NEW t, Fits(s), OwnElements(t), Short(t), Size(s) + Size(t) <= 21
  PROVE  Fits(s \o t)
<1> DEFINE r == s \o t
<1>1. OwnElements(s)
  BY DEF Fits
<1>2. /\ OwnElements(r) /\ Len(r) = Len(s) + Len(t) /\ Len(s) \in Nat /\ Len(t) \in Nat
      /\ DOMAIN s = 1..Len(s) /\ DOMAIN t = 1..Len(t) /\ DOMAIN r = 1..Len(s) + Len(t)
      /\ \A i \in 1..Len(s) : r[i] = s[i]
      /\ \A i \in 1..Len(s) + Len(t) : i \notin 1..Len(s) => i - Len(s) \in 1..Len(t) /\ r[i] = t[i - Len(s)]
  BY <1>1, Concatenated
<1> HIDE DEF r
<1>3. ASSUME NEW i \in DOMAIN r PROVE r[i].h \in 0..Tallest(i)
  <2>1. CASE i \in 1..Len(s)
    BY <1>2, <2>1 DEF Fits
  <2>2. CASE i \notin 1..Len(s)
    <3>1. r[i].h \in 0..7
      BY <1>2, <2>2 DEF Short
    <3>2. Tallest(i) = 14 \/ Tallest(i) = 7
      BY DEF Tallest
    <3> QED BY <3>1, <3>2
  <2> QED BY <2>1, <2>2
<1>4. Len(r) \in 0..21
  <2> DEFINE n == Len(s) + Len(t)
  <2>1. n \in Nat /\ n <= 21 /\ Len(r) = n
    BY <1>2 DEF Size
  <2> HIDE DEF n
  <2> QED BY <2>1
<1> QED BY <1>2, <1>3, <1>4 DEF Fits, r

\* The head of the panel on the left.
LEMMA MapLines ==
  ASSUME NEW v, NEW b
  PROVE  LET s == <<Line("map", v), Gap(4), Gap(TEXT), Badges("badges", b)>>
         IN  /\ Fits(s) /\ Size(s) = 4 /\ Labels(s) \subseteq {"map", "badges", ""}
             /\ Labelled(s, "map", v) /\ Labelled(s, "badges", BitsOf(b))
<1> DEFINE w == Line("map", v)
           x == Gap(4)
           y == Gap(TEXT)
           z == Badges("badges", b)
           s == <<w, x, y, z>>
<1>1. /\ w.h = 7 /\ w.label = "map" /\ w.value = v /\ x.h = 4 /\ x.label = "" /\ y.h = 7 /\ y.label = ""
      /\ z.h = 14 /\ z.label = "badges" /\ z.value = BitsOf(b)
  BY DEF Line, Badges, Gap, TEXT
<1> HIDE DEF w, x, y, z
<1>2. s \in Seq({w, x, y, z})
  OBVIOUS
<1>3. Len(s) = 4 /\ DOMAIN s = 1..4 /\ s[1] = w /\ s[2] = x /\ s[3] = y /\ s[4] = z
  OBVIOUS
<1>4. OwnElements(s)
  BY <1>2, LinesOf
<1> HIDE DEF s
<1>l. s[1].label = "map" /\ s[2].label = "" /\ s[3].label = "" /\ s[4].label = "badges"
  BY <1>1, <1>3, Zenon
<1>5. \A i \in 1..4 : i = 1 \/ i = 2 \/ i = 3 \/ i = 4
  OBVIOUS
<1>6. Fits(s)
  <2>1. Tallest(1) = 7 /\ Tallest(2) = 7 /\ Tallest(3) = 7 /\ Tallest(4) = 14
    BY DEF Tallest
  <2>a. s[1].h = 7 /\ s[2].h = 4 /\ s[3].h = 7 /\ s[4].h = 14
    BY <1>1, <1>3, Zenon
  <2>2. s[1].h \in 0..Tallest(1) /\ s[2].h \in 0..Tallest(2) /\ s[3].h \in 0..Tallest(3) /\ s[4].h \in 0..Tallest(4)
    BY <2>1, <2>a
  <2>3. \A i \in DOMAIN s : s[i].h \in 0..Tallest(i)
    BY <1>3, <1>5, <2>2
  <2> QED BY <1>3, <1>4, <2>3 DEF Fits
<1>7. Labels(s) \subseteq {"map", "badges", ""}
  BY <1>1, <1>3, <1>5 DEF Labels
<1>8. Labelled(s, "map", v)
  <2>1. 1 \in DOMAIN s
    BY <1>3
  <2>2. ASSUME NEW j \in DOMAIN s, s[j].label = s[1].label PROVE j = 1
    BY <1>3, <1>5, <1>l, <2>2
  <2> QED BY <1>1, <1>3, <2>1, <2>2, LabelledAt
<1>9. Labelled(s, "badges", BitsOf(b))
  <2>1. 4 \in DOMAIN s
    BY <1>3
  <2>2. ASSUME NEW j \in DOMAIN s, s[j].label = s[4].label PROVE j = 4
    BY <1>3, <1>5, <1>l, <2>2
  <2> QED BY <1>1, <1>3, <2>1, <2>2, LabelledAt
<1> QED BY <1>3, <1>6, <1>7, <1>8, <1>9 DEF Size, s, w, x, y, z

\* The badges of Kanto below those of Johto.
LEMMA KantoLines ==
  ASSUME NEW b, NEW q, Fits(q), Size(q) = 4
  PROVE  LET s == <<Gap(2), Gap(TEXT), Badges("kanto", b)>>
         IN  /\ OwnElements(s) /\ Size(s) = 3 /\ Labels(s) \subseteq {"kanto", ""}
             /\ Labelled(s, "kanto", BitsOf(b)) /\ Fits(q \o s)
<1> DEFINE x == Gap(2)
           y == Gap(TEXT)
           z == Badges("kanto", b)
           s == <<x, y, z>>
           r == q \o s
<1>1. /\ x.h = 2 /\ x.label = "" /\ y.h = 7 /\ y.label = ""
      /\ z.h = 14 /\ z.label = "kanto" /\ z.value = BitsOf(b)
  BY DEF Line, Badges, Gap, TEXT
<1> HIDE DEF x, y, z
<1>2. s \in Seq({x, y, z})
  OBVIOUS
<1>3. Len(s) = 3 /\ DOMAIN s = 1..3 /\ s[1] = x /\ s[2] = y /\ s[3] = z
  OBVIOUS
<1>4. OwnElements(s) /\ OwnElements(q)
  BY <1>2, LinesOf DEF Fits
<1> HIDE DEF s
<1>l. s[1].label = "" /\ s[2].label = "" /\ s[3].label = "kanto"
  BY <1>1, <1>3, Zenon
<1>5. \A i \in 1..3 : i = 1 \/ i = 2 \/ i = 3
  OBVIOUS
<1>q. Len(q) = 4
  BY DEF Size
<1>6. /\ OwnElements(r) /\ Len(r) = Len(q) + Len(s) /\ DOMAIN q = 1..Len(q) /\ DOMAIN r = 1..Len(q) + Len(s)
      /\ \A i \in DOMAIN q : r[i] = q[i]
      /\ \A i \in 1..Len(q) + Len(s) : i \notin 1..Len(q) => i - Len(q) \in 1..Len(s) /\ r[i] = s[i - Len(q)]
  <2>1. OwnElements(q) /\ OwnElements(s)
    BY <1>4
  <2>2. /\ OwnElements(q \o s) /\ Len(q \o s) = Len(q) + Len(s)
        /\ DOMAIN q = 1..Len(q) /\ DOMAIN (q \o s) = 1..Len(q) + Len(s)
    BY <2>1, Concatenated
  <2>3. \A i \in DOMAIN q : (q \o s)[i] = q[i]
    BY <2>1, FirstOfBoth
  <2>4. \A i \in 1..Len(q) + Len(s) : i \notin 1..Len(q) => i - Len(q) \in 1..Len(s) /\ (q \o s)[i] = s[i - Len(q)]
    BY <2>1, Concatenated
  <2> QED BY <2>2, <2>3, <2>4
<1> HIDE DEF r
<1>7. ASSUME NEW i \in DOMAIN r PROVE r[i].h \in 0..Tallest(i)
  <2>1. CASE i \in 1..4
    BY <1>6, <1>q, <2>1 DEF Fits
  <2>2. CASE i \notin 1..4
    <3>0. i \in 1..7 /\ i - 4 \in 1..3
      BY <1>3, <1>6, <1>q, <2>2
    <3>1. i = 5 \/ i = 6 \/ i = 7
      BY <2>2, <3>0
    <3>2. Tallest(5) = 7 /\ Tallest(6) = 7 /\ Tallest(7) = 14
      BY DEF Tallest
    <3>3. r[i] = s[i - 4]
      BY <1>6, <1>q, <2>2
    <3>a. s[1].h = 2 /\ s[2].h = 7 /\ s[3].h = 14
      BY <1>1, <1>3, Zenon
    <3>4. s[1].h \in 0..7 /\ s[2].h \in 0..7 /\ s[3].h \in 0..14
      BY <3>a
    <3>5. CASE i = 5
      BY <3>2, <3>3, <3>4, <3>5
    <3>6. CASE i = 6
      BY <3>2, <3>3, <3>4, <3>6
    <3>7. CASE i = 7
      BY <3>2, <3>3, <3>4, <3>7
    <3> QED BY <3>1, <3>5, <3>6, <3>7
  <2> QED BY <2>1, <2>2
<1>8. Fits(r)
  BY <1>3, <1>6, <1>7, <1>q DEF Fits
<1>9. Labels(s) \subseteq {"kanto", ""}
  BY <1>1, <1>3, <1>5 DEF Labels
<1>10. Labelled(s, "kanto", BitsOf(b))
  <2>1. 3 \in DOMAIN s
    BY <1>3
  <2>2. ASSUME NEW j \in DOMAIN s, s[j].label = s[3].label PROVE j = 3
    BY <1>3, <1>5, <1>l, <2>2
  <2> QED BY <1>1, <1>3, <2>1, <2>2, LabelledAt
<1> QED BY <1>3, <1>4, <1>8, <1>9, <1>10 DEF Size, r, s, x, y, z

\* A gap alone.
LEMMA GapLines ==
  ASSUME NEW n \in 0..7
  PROVE  OwnElements(<<Gap(n)>>) /\ Size(<<Gap(n)>>) = 1 /\ Labels(<<Gap(n)>>) \subseteq {""} /\ Short(<<Gap(n)>>)
<1> DEFINE x == Gap(n)
           s == <<x>>
<1>1. x.h = n /\ x.label = ""
  BY DEF Line, Badges, Gap, TEXT
<1> HIDE DEF x
<1>2. s \in Seq({x}) /\ Len(s) = 1 /\ DOMAIN s = 1..1 /\ s[1] = x
  OBVIOUS
<1>3. OwnElements(s)
  BY <1>2, LinesOf
<1> HIDE DEF s
<1>4. \A i \in DOMAIN s : i = 1
  BY <1>2
<1>5. Labels(s) \subseteq {""}
  BY <1>1, <1>2, <1>4 DEF Labels
<1>6. Short(s)
  BY <1>1, <1>2, <1>4 DEF Short
<1> QED BY <1>2, <1>3, <1>5, <1>6 DEF Size, s, x

\* One line of text.
LEMMA OneLine ==
  ASSUME NEW l, NEW v
  PROVE  LET s == <<Line(l, v)>>
         IN  OwnElements(s) /\ Size(s) = 1 /\ Labels(s) = {l} /\ Short(s) /\ Labelled(s, l, v)
<1> DEFINE x == Line(l, v)
           s == <<x>>
<1>1. x.h = 7 /\ x.label = l /\ x.value = v
  BY DEF Line, Badges, Gap, TEXT
<1> HIDE DEF x
<1>2. s \in Seq({x}) /\ Len(s) = 1 /\ DOMAIN s = 1..1 /\ s[1] = x
  OBVIOUS
<1>3. OwnElements(s)
  BY <1>2, LinesOf
<1> HIDE DEF s
<1>4. 1 \in DOMAIN s /\ \A i \in DOMAIN s : i = 1
  BY <1>2
<1>5. Labels(s) = {l}
  BY <1>1, <1>2, <1>4 DEF Labels
<1>6. Short(s)
  BY <1>1, <1>2, <1>4 DEF Short
<1>7. Labelled(s, l, v)
  BY <1>1, <1>2, <1>4, LabelledAt
<1> QED BY <1>2, <1>3, <1>5, <1>6, <1>7 DEF Size, s, x

\* Short lines behind short lines are short.
LEMMA ShortBoth ==
  ASSUME NEW s, NEW t, OwnElements(s), OwnElements(t), Short(s), Short(t)
  PROVE  Short(s \o t)
<1> DEFINE r == s \o t
<1>1. /\ DOMAIN s = 1..Len(s) /\ DOMAIN t = 1..Len(t) /\ DOMAIN r = 1..Len(s) + Len(t)
      /\ \A i \in 1..Len(s) : r[i] = s[i]
      /\ \A i \in 1..Len(s) + Len(t) : i \notin 1..Len(s) => i - Len(s) \in 1..Len(t) /\ r[i] = t[i - Len(s)]
  BY Concatenated
<1> HIDE DEF r
<1>2. ASSUME NEW i \in DOMAIN r PROVE r[i].h \in 0..7
  <2>1. CASE i \in 1..Len(s)
    BY <1>1, <2>1 DEF Short
  <2>2. CASE i \notin 1..Len(s)
    BY <1>1, <2>2 DEF Short
  <2> QED BY <2>1, <2>2
<1> QED BY <1>2 DEF Short, r

\* The trainer's lines.
LEMMA PlayerLines ==
  ASSUME NEW n, NEW v
  PROVE  LET s == <<Line("player", n), Gap(2), Line("money", v), Gap(4), Gap(TEXT)>>
         IN  /\ OwnElements(s) /\ Size(s) = 5 /\ Short(s)
             /\ Labels(s) \subseteq {"player", "", "money"}
             /\ Labelled(s, "player", n)
             /\ Labelled(s, "money", v)
<1> DEFINE x1 == Line("player", n)
           x2 == Gap(2)
           x3 == Line("money", v)
           x4 == Gap(4)
           x5 == Gap(TEXT)
           s == <<x1, x2, x3, x4, x5>>
<1>1. /\ x1.h = 7 /\ x1.label = "player" /\ x1.value = n
      /\ x2.h = 2 /\ x2.label = ""
      /\ x3.h = 7 /\ x3.label = "money" /\ x3.value = v
      /\ x4.h = 4 /\ x4.label = ""
      /\ x5.h = 7 /\ x5.label = ""
  BY DEF Line, Gap, TEXT
<1> HIDE DEF x1, x2, x3, x4, x5
<1>2. s \in Seq({x1, x2, x3, x4, x5})
  OBVIOUS
<1>3. Len(s) = 5 /\ DOMAIN s = 1..5
  OBVIOUS
<1>4. s[1] = x1 /\ s[2] = x2 /\ s[3] = x3 /\ s[4] = x4 /\ s[5] = x5
  OBVIOUS
<1>5. OwnElements(s)
  BY <1>2, LinesOf
<1> HIDE DEF s
<1>6. s[1].label = "player" /\ s[2].label = "" /\ s[3].label = "money" /\ s[4].label = "" /\
      s[5].label = ""
  BY <1>1, <1>4, Zenon
<1>7. s[1].h = 7 /\ s[2].h = 2 /\ s[3].h = 7 /\ s[4].h = 4 /\ s[5].h = 7
  BY <1>1, <1>4, Zenon
<1>8. \A i \in DOMAIN s : i = 1 \/ i = 2 \/ i = 3 \/ i = 4 \/ i = 5
  BY <1>3
<1>9. Short(s)
  BY <1>7, <1>8 DEF Short
<1>10. Labels(s) \subseteq {"player", "", "money"}
  <2>1. ASSUME NEW i \in DOMAIN s PROVE s[i].label \in {"player", "", "money"}
    BY <1>6, <1>8
  <2> QED BY <2>1 DEF Labels
<1>11. Labelled(s, "player", n)
  <2>1. 1 \in DOMAIN s
    BY <1>3
  <2>2. ASSUME NEW j \in DOMAIN s, s[j].label = s[1].label PROVE j = 1
    BY <1>6, <1>8, <2>2
  <2> QED BY <1>1, <1>4, <2>1, <2>2, LabelledAt
<1>12. Labelled(s, "money", v)
  <2>1. 3 \in DOMAIN s
    BY <1>3
  <2>2. ASSUME NEW j \in DOMAIN s, s[j].label = s[3].label PROVE j = 3
    BY <1>6, <1>8, <2>2
  <2> QED BY <1>1, <1>4, <2>1, <2>2, LabelledAt
<1> QED BY <1>3, <1>5, <1>9, <1>10, <1>11, <1>12 DEF Size, s, x1, x2, x3, x4, x5

\* The head of a battle's panel.
LEMMA BattleLines ==
  ASSUME NEW v
  PROVE  LET s == <<Line("battle", v), Gap(2)>>
         IN  /\ OwnElements(s) /\ Size(s) = 2 /\ Short(s)
             /\ Labels(s) \subseteq {"battle", ""}
             /\ Labelled(s, "battle", v)
<1> DEFINE x1 == Line("battle", v)
           x2 == Gap(2)
           s == <<x1, x2>>
<1>1. /\ x1.h = 7 /\ x1.label = "battle" /\ x1.value = v
      /\ x2.h = 2 /\ x2.label = ""
  BY DEF Line, Gap, TEXT
<1> HIDE DEF x1, x2
<1>2. s \in Seq({x1, x2})
  OBVIOUS
<1>3. Len(s) = 2 /\ DOMAIN s = 1..2
  OBVIOUS
<1>4. s[1] = x1 /\ s[2] = x2
  OBVIOUS
<1>5. OwnElements(s)
  BY <1>2, LinesOf
<1> HIDE DEF s
<1>6. s[1].label = "battle" /\ s[2].label = ""
  BY <1>1, <1>4, Zenon
<1>7. s[1].h = 7 /\ s[2].h = 2
  BY <1>1, <1>4, Zenon
<1>8. \A i \in DOMAIN s : i = 1 \/ i = 2
  BY <1>3
<1>9. Short(s)
  BY <1>7, <1>8 DEF Short
<1>10. Labels(s) \subseteq {"battle", ""}
  <2>1. ASSUME NEW i \in DOMAIN s PROVE s[i].label \in {"battle", ""}
    BY <1>6, <1>8
  <2> QED BY <2>1 DEF Labels
<1>11. Labelled(s, "battle", v)
  <2>1. 1 \in DOMAIN s
    BY <1>3
  <2>2. ASSUME NEW j \in DOMAIN s, s[j].label = s[1].label PROVE j = 1
    BY <1>6, <1>8, <2>2
  <2> QED BY <1>1, <1>4, <2>1, <2>2, LabelledAt
<1> QED BY <1>3, <1>5, <1>9, <1>10, <1>11 DEF Size, s, x1, x2

\* The enemy's lines.
LEMMA EnemyLines ==
  ASSUME NEW n, NEW l, NEW h
  PROVE  LET s == <<Line("name", n), Line("level", l), Line("hp", h), Gap(2), Gap(TEXT)>>
         IN  /\ OwnElements(s) /\ Size(s) = 5 /\ Short(s)
             /\ Labels(s) \subseteq {"name", "level", "hp", ""}
             /\ Labelled(s, "name", n)
             /\ Labelled(s, "level", l)
             /\ Labelled(s, "hp", h)
<1> DEFINE x1 == Line("name", n)
           x2 == Line("level", l)
           x3 == Line("hp", h)
           x4 == Gap(2)
           x5 == Gap(TEXT)
           s == <<x1, x2, x3, x4, x5>>
<1>1. /\ x1.h = 7 /\ x1.label = "name" /\ x1.value = n
      /\ x2.h = 7 /\ x2.label = "level" /\ x2.value = l
      /\ x3.h = 7 /\ x3.label = "hp" /\ x3.value = h
      /\ x4.h = 2 /\ x4.label = ""
      /\ x5.h = 7 /\ x5.label = ""
  BY DEF Line, Gap, TEXT
<1> HIDE DEF x1, x2, x3, x4, x5
<1>2. s \in Seq({x1, x2, x3, x4, x5})
  OBVIOUS
<1>3. Len(s) = 5 /\ DOMAIN s = 1..5
  OBVIOUS
<1>4. s[1] = x1 /\ s[2] = x2 /\ s[3] = x3 /\ s[4] = x4 /\ s[5] = x5
  OBVIOUS
<1>5. OwnElements(s)
  BY <1>2, LinesOf
<1> HIDE DEF s
<1>6. s[1].label = "name" /\ s[2].label = "level" /\ s[3].label = "hp" /\ s[4].label = "" /\
      s[5].label = ""
  BY <1>1, <1>4, Zenon
<1>7. s[1].h = 7 /\ s[2].h = 7 /\ s[3].h = 7 /\ s[4].h = 2 /\ s[5].h = 7
  BY <1>1, <1>4, Zenon
<1>8. \A i \in DOMAIN s : i = 1 \/ i = 2 \/ i = 3 \/ i = 4 \/ i = 5
  BY <1>3
<1>9. Short(s)
  BY <1>7, <1>8 DEF Short
<1>10. Labels(s) \subseteq {"name", "level", "hp", ""}
  <2>1. ASSUME NEW i \in DOMAIN s PROVE s[i].label \in {"name", "level", "hp", ""}
    BY <1>6, <1>8
  <2> QED BY <2>1 DEF Labels
<1>11. Labelled(s, "name", n)
  <2>1. 1 \in DOMAIN s
    BY <1>3
  <2>2. ASSUME NEW j \in DOMAIN s, s[j].label = s[1].label PROVE j = 1
    BY <1>6, <1>8, <2>2
  <2> QED BY <1>1, <1>4, <2>1, <2>2, LabelledAt
<1>12. Labelled(s, "level", l)
  <2>1. 2 \in DOMAIN s
    BY <1>3
  <2>2. ASSUME NEW j \in DOMAIN s, s[j].label = s[2].label PROVE j = 2
    BY <1>6, <1>8, <2>2
  <2> QED BY <1>1, <1>4, <2>1, <2>2, LabelledAt
<1>13. Labelled(s, "hp", h)
  <2>1. 3 \in DOMAIN s
    BY <1>3
  <2>2. ASSUME NEW j \in DOMAIN s, s[j].label = s[3].label PROVE j = 3
    BY <1>6, <1>8, <2>2
  <2> QED BY <1>1, <1>4, <2>1, <2>2, LabelledAt
<1> QED BY <1>3, <1>5, <1>9, <1>10, <1>11, <1>12, <1>13 DEF Size, s, x1, x2, x3, x4, x5

\* A wild enemy's line.
LEMMA CatchLines ==
  ASSUME NEW v
  PROVE  LET s == <<Gap(TEXT), Line("catch", v)>>
         IN  /\ OwnElements(s) /\ Size(s) = 2 /\ Short(s)
             /\ Labels(s) \subseteq {"", "catch"}
             /\ Labelled(s, "catch", v)
<1> DEFINE x1 == Gap(TEXT)
           x2 == Line("catch", v)
           s == <<x1, x2>>
<1>1. /\ x1.h = 7 /\ x1.label = ""
      /\ x2.h = 7 /\ x2.label = "catch" /\ x2.value = v
  BY DEF Line, Gap, TEXT
<1> HIDE DEF x1, x2
<1>2. s \in Seq({x1, x2})
  OBVIOUS
<1>3. Len(s) = 2 /\ DOMAIN s = 1..2
  OBVIOUS
<1>4. s[1] = x1 /\ s[2] = x2
  OBVIOUS
<1>5. OwnElements(s)
  BY <1>2, LinesOf
<1> HIDE DEF s
<1>6. s[1].label = "" /\ s[2].label = "catch"
  BY <1>1, <1>4, Zenon
<1>7. s[1].h = 7 /\ s[2].h = 7
  BY <1>1, <1>4, Zenon
<1>8. \A i \in DOMAIN s : i = 1 \/ i = 2
  BY <1>3
<1>9. Short(s)
  BY <1>7, <1>8 DEF Short
<1>10. Labels(s) \subseteq {"", "catch"}
  <2>1. ASSUME NEW i \in DOMAIN s PROVE s[i].label \in {"", "catch"}
    BY <1>6, <1>8
  <2> QED BY <2>1 DEF Labels
<1>11. Labelled(s, "catch", v)
  <2>1. 2 \in DOMAIN s
    BY <1>3
  <2>2. ASSUME NEW j \in DOMAIN s, s[j].label = s[2].label PROVE j = 2
    BY <1>6, <1>8, <2>2
  <2> QED BY <1>1, <1>4, <2>1, <2>2, LabelledAt
<1> QED BY <1>3, <1>5, <1>9, <1>10, <1>11 DEF Size, s, x1, x2

\* The lines of the first Pokemon.
LEMMA DetailLines ==
  ASSUME NEW g, NEW p
  PROVE  LET d == Details(g, p)
         IN  /\ OwnElements(d) /\ Size(d) \in Nat /\ Size(d) <= 13 /\ Short(d)
             /\ Labels(d) \subseteq {"name", "level", "", "move1", "move2", "move3", "move4", "hp", "attack", "speed",
                                     "special"}
             /\ Labelled(d, "name", <<p.species>>) /\ Labelled(d, "level", <<p.level>>)
             /\ Labelled(d, "hp", <<swap_bytes(p.hp_current), swap_bytes(p.hp_max)>>)
             /\ Labelled(d, "attack", <<swap_bytes(p.attack), swap_bytes(p.defense)>>)
             /\ Labelled(d, "speed", <<swap_bytes(p.speed), swap_bytes(p.special)>>)
             /\ Labelled(d, "move1", MoveLine(p, 1).value) /\ Labelled(d, "move2", MoveLine(p, 2).value)
             /\ Labelled(d, "move3", MoveLine(p, 3).value) /\ Labelled(d, "move4", MoveLine(p, 4).value)
<1> DEFINE n == <<p.species>>
           l == <<p.level>>
           h == <<swap_bytes(p.hp_current), swap_bytes(p.hp_max)>>
           t == <<swap_bytes(p.attack), swap_bytes(p.defense)>>
           v == <<swap_bytes(p.speed), swap_bytes(p.special)>>
           a == MoveLine(p, 1).value
           b == MoveLine(p, 2).value
           c == MoveLine(p, 3).value
           e == MoveLine(p, 4).value
           f == <<swap_bytes(p.special_def), p.friendship>>
<1>a. /\ MoveLine(p, 1) = Line("move1", a) /\ MoveLine(p, 2) = Line("move2", b)
      /\ MoveLine(p, 3) = Line("move3", c) /\ MoveLine(p, 4) = Line("move4", e)
  BY DEF MoveLine, MoveLabels, Line
<1> DEFINE x1 == Line("name", n)
           x2 == Line("level", l)
           x3 == Gap(2)
           x4 == Gap(TEXT)
           x5 == Line("move1", a)
           x6 == Line("move2", b)
           x7 == Line("move3", c)
           x8 == Line("move4", e)
           x9 == Gap(2)
           x10 == Line("hp", h)
           x11 == Line("attack", t)
           x12 == Line("speed", v)
           s == <<x1, x2, x3, x4, x5, x6, x7, x8, x9, x10, x11, x12>>
           y == <<Line("special", f)>>
           r == IF generation(g) = 2 THEN y ELSE <<>>
           d == s \o r
<1>b. Details(g, p) = d
  <2> HIDE DEF a, b, c, e
  <2> QED BY <1>a, Zenon DEF Details
<1> HIDE DEF n, l, h, t, v, a, b, c, e, f, y, r, d
<1>1. /\ x1.h = 7 /\ x1.label = "name" /\ x1.value = n
      /\ x2.h = 7 /\ x2.label = "level" /\ x2.value = l
      /\ x3.h = 2 /\ x3.label = ""
      /\ x4.h = 7 /\ x4.label = ""
      /\ x5.h = 7 /\ x5.label = "move1" /\ x5.value = a
      /\ x6.h = 7 /\ x6.label = "move2" /\ x6.value = b
      /\ x7.h = 7 /\ x7.label = "move3" /\ x7.value = c
      /\ x8.h = 7 /\ x8.label = "move4" /\ x8.value = e
      /\ x9.h = 2 /\ x9.label = ""
      /\ x10.h = 7 /\ x10.label = "hp" /\ x10.value = h
      /\ x11.h = 7 /\ x11.label = "attack" /\ x11.value = t
      /\ x12.h = 7 /\ x12.label = "speed" /\ x12.value = v
  BY DEF Line, Gap, TEXT
<1> HIDE DEF x1, x2, x3, x4, x5, x6, x7, x8, x9, x10, x11, x12
<1>2. s \in Seq({x1, x2, x3, x4, x5, x6, x7, x8, x9, x10, x11, x12})
  OBVIOUS
<1>3. Len(s) = 12 /\ DOMAIN s = 1..12
  OBVIOUS
<1>4. s[1] = x1 /\ s[2] = x2 /\ s[3] = x3 /\ s[4] = x4 /\ s[5] = x5 /\ s[6] = x6 /\ s[7] = x7 /\
      s[8] = x8 /\ s[9] = x9 /\ s[10] = x10 /\ s[11] = x11 /\ s[12] = x12
  OBVIOUS
<1>5. OwnElements(s)
  BY <1>2, LinesOf
<1> HIDE DEF s
<1>6. s[1].label = "name" /\ s[2].label = "level" /\ s[3].label = "" /\ s[4].label = "" /\
      s[5].label = "move1" /\ s[6].label = "move2" /\ s[7].label = "move3" /\
      s[8].label = "move4" /\ s[9].label = "" /\ s[10].label = "hp" /\
      s[11].label = "attack" /\ s[12].label = "speed"
  BY <1>1, <1>4, Zenon
<1>7. s[1].h = 7 /\ s[2].h = 7 /\ s[3].h = 2 /\ s[4].h = 7 /\ s[5].h = 7 /\ s[6].h = 7 /\
      s[7].h = 7 /\ s[8].h = 7 /\ s[9].h = 2 /\ s[10].h = 7 /\ s[11].h = 7 /\ s[12].h = 7
  BY <1>1, <1>4, Zenon
<1>8. \A i \in DOMAIN s : i = 1 \/ i = 2 \/ i = 3 \/ i = 4 \/ i = 5 \/ i = 6 \/ i = 7 \/
      i = 8 \/ i = 9 \/ i = 10 \/ i = 11 \/ i = 12
  BY <1>3
<1>9. Short(s)
  BY <1>7, <1>8 DEF Short
<1>10. Labels(s) \subseteq {"name", "level", "", "move1", "move2", "move3", "move4", "hp",
                           "attack", "speed"}
  <2>1. ASSUME NEW i \in DOMAIN s PROVE s[i].label \in {"name", "level", "", "move1", "move2", "move3",
                                                          "move4", "hp", "attack", "speed"}
    BY <1>6, <1>8
  <2> QED BY <2>1 DEF Labels
<1>11. Labelled(s, "name", n)
  <2>1. 1 \in DOMAIN s
    BY <1>3
  <2>2. ASSUME NEW j \in DOMAIN s, s[j].label = s[1].label PROVE j = 1
    BY <1>6, <1>8, <2>2
  <2> QED BY <1>1, <1>4, <2>1, <2>2, LabelledAt
<1>12. Labelled(s, "level", l)
  <2>1. 2 \in DOMAIN s
    BY <1>3
  <2>2. ASSUME NEW j \in DOMAIN s, s[j].label = s[2].label PROVE j = 2
    BY <1>6, <1>8, <2>2
  <2> QED BY <1>1, <1>4, <2>1, <2>2, LabelledAt
<1>13. Labelled(s, "move1", a)
  <2>1. 5 \in DOMAIN s
    BY <1>3
  <2>2. ASSUME NEW j \in DOMAIN s, s[j].label = s[5].label PROVE j = 5
    BY <1>6, <1>8, <2>2
  <2> QED BY <1>1, <1>4, <2>1, <2>2, LabelledAt
<1>14. Labelled(s, "move2", b)
  <2>1. 6 \in DOMAIN s
    BY <1>3
  <2>2. ASSUME NEW j \in DOMAIN s, s[j].label = s[6].label PROVE j = 6
    BY <1>6, <1>8, <2>2
  <2> QED BY <1>1, <1>4, <2>1, <2>2, LabelledAt
<1>15. Labelled(s, "move3", c)
  <2>1. 7 \in DOMAIN s
    BY <1>3
  <2>2. ASSUME NEW j \in DOMAIN s, s[j].label = s[7].label PROVE j = 7
    BY <1>6, <1>8, <2>2
  <2> QED BY <1>1, <1>4, <2>1, <2>2, LabelledAt
<1>16. Labelled(s, "move4", e)
  <2>1. 8 \in DOMAIN s
    BY <1>3
  <2>2. ASSUME NEW j \in DOMAIN s, s[j].label = s[8].label PROVE j = 8
    BY <1>6, <1>8, <2>2
  <2> QED BY <1>1, <1>4, <2>1, <2>2, LabelledAt
<1>17. Labelled(s, "hp", h)
  <2>1. 10 \in DOMAIN s
    BY <1>3
  <2>2. ASSUME NEW j \in DOMAIN s, s[j].label = s[10].label PROVE j = 10
    BY <1>6, <1>8, <2>2
  <2> QED BY <1>1, <1>4, <2>1, <2>2, LabelledAt
<1>18. Labelled(s, "attack", t)
  <2>1. 11 \in DOMAIN s
    BY <1>3
  <2>2. ASSUME NEW j \in DOMAIN s, s[j].label = s[11].label PROVE j = 11
    BY <1>6, <1>8, <2>2
  <2> QED BY <1>1, <1>4, <2>1, <2>2, LabelledAt
<1>19. Labelled(s, "speed", v)
  <2>1. 12 \in DOMAIN s
    BY <1>3
  <2>2. ASSUME NEW j \in DOMAIN s, s[j].label = s[12].label PROVE j = 12
    BY <1>6, <1>8, <2>2
  <2> QED BY <1>1, <1>4, <2>1, <2>2, LabelledAt
<1>c. /\ OwnElements(s) /\ Size(s) = 12 /\ Short(s)
      /\ Labels(s) \subseteq {"name", "level", "", "move1", "move2", "move3", "move4", "hp", "attack", "speed"}
      /\ Labelled(s, "name", n) /\ Labelled(s, "level", l) /\ Labelled(s, "move1", a)
      /\ Labelled(s, "move2", b) /\ Labelled(s, "move3", c) /\ Labelled(s, "move4", e)
      /\ Labelled(s, "hp", h) /\ Labelled(s, "attack", t) /\ Labelled(s, "speed", v)
  BY <1>3, <1>5, <1>9, <1>10, <1>11, <1>12, <1>13, <1>14, <1>15, <1>16, <1>17, <1>18, <1>19, Zenon DEF Size
<1>24. OwnElements(y) /\ Size(y) = 1 /\ Labels(y) = {"special"} /\ Short(y)
  BY OneLine DEF y
<1>25. OwnElements(r) /\ Size(r) \in Nat /\ Size(r) <= 1 /\ Labels(r) \subseteq {"special"} /\ Short(r)
  <2>1. CASE generation(g) = 2
    BY <1>24, <2>1 DEF r
  <2>2. CASE generation(g) # 2
    <3>1. r = <<>>
      BY <2>2 DEF r
    <3> QED BY <3>1, NoLines
  <2> QED BY <2>1, <2>2
<1>26. OwnElements(d) /\ Size(d) = Size(s) + Size(r)
  BY <1>c, <1>25, SizeOfBoth, Concatenated DEF d
<1>27. Labels(d) = Labels(s) \cup Labels(r)
  BY <1>c, <1>25, LabelsOfBoth DEF d
<1>28. Short(d)
  BY <1>c, <1>25, ShortBoth DEF d
<1>29. ASSUME NEW i \in {"name", "level", "hp", "attack", "speed", "move1", "move2", "move3", "move4"},
             NEW w, Labelled(s, i, w)
      PROVE  Labelled(d, i, w)
  <2>1. i \notin Labels(r)
    BY <1>25
  <2> QED BY <1>c, <1>25, <1>29, <2>1, LabelledFirst DEF d
<1>30. Size(d) \in Nat /\ Size(d) <= 13
  <2>1. Size(s) = 12
    BY <1>c
  <2>2. Size(r) \in Nat /\ Size(r) <= 1
    BY <1>25
  <2>3. Size(d) = Size(s) + Size(r)
    BY <1>26
  <2> QED BY <2>1, <2>2, <2>3
<1>31. /\ Labelled(d, "name", n) /\ Labelled(d, "level", l) /\ Labelled(d, "move1", a)
       /\ Labelled(d, "move2", b) /\ Labelled(d, "move3", c) /\ Labelled(d, "move4", e)
       /\ Labelled(d, "hp", h) /\ Labelled(d, "attack", t) /\ Labelled(d, "speed", v)
  BY <1>c, <1>29
<1>32. Labels(d) \subseteq {"name", "level", "", "move1", "move2", "move3", "move4", "hp", "attack", "speed",
                            "special"}
  BY <1>c, <1>25, <1>27
<1> QED BY <1>b, <1>26, <1>28, <1>30, <1>31, <1>32 DEF n, l, h, t, v, a, b, c, e

\* The panel on the left, whose lines are at most 21.
LEMMA LeftPanel ==
  ASSUME NEW g \in Games, NEW m
  PROVE  LET s == left_items(g, m)
             t == read_trainer(g, m)
             p == read_party(g, m)[1]
         IN  /\ Fits(s) /\ Labelled(s, "map", <<read_map_group(g, m), read_location(g, m)[1]>>)
             /\ Labelled(s, "badges", BitsOf(t.badges))
             /\ generation(g) = 2 => Labelled(s, "kanto", BitsOf(t.badges_kanto))
             /\ generation(g) # 2 => "kanto" \notin Labels(s)
             /\ p = NoPokemon => "name" \notin Labels(s) /\ "level" \notin Labels(s)
             /\ p # NoPokemon =>
                  /\ Labelled(s, "name", <<p.species>>) /\ Labelled(s, "level", <<p.level>>)
                  /\ Labelled(s, "hp", <<swap_bytes(p.hp_current), swap_bytes(p.hp_max)>>)
                  /\ Labelled(s, "attack", <<swap_bytes(p.attack), swap_bytes(p.defense)>>)
                  /\ Labelled(s, "speed", <<swap_bytes(p.speed), swap_bytes(p.special)>>)
                  /\ Labelled(s, "move1", MoveLine(p, 1).value) /\ Labelled(s, "move2", MoveLine(p, 2).value)
                  /\ Labelled(s, "move3", MoveLine(p, 3).value) /\ Labelled(s, "move4", MoveLine(p, 4).value)
<1> DEFINE t == read_trainer(g, m)
           p == read_party(g, m)[1]
           v == <<read_map_group(g, m), read_location(g, m)[1]>>
           a == <<Line("map", v), Gap(4), Gap(TEXT), Badges("badges", t.badges)>>
           kanto == <<Gap(2), Gap(TEXT), Badges("kanto", t.badges_kanto)>>
           b == IF generation(g) = 2 THEN kanto ELSE <<>>
           c == <<Gap(4)>>
           d == IF p = NoPokemon THEN <<>> ELSE Details(g, p)
           s == a \o b \o c \o d
<1>1. left_items(g, m) = s
  BY DEF left_items
<1>a. /\ Fits(a) /\ OwnElements(a) /\ Size(a) = 4 /\ Labels(a) \subseteq {"map", "badges", ""}
      /\ Labelled(a, "map", v) /\ Labelled(a, "badges", BitsOf(t.badges))
  BY MapLines DEF Fits
<1>k. /\ OwnElements(kanto) /\ Size(kanto) = 3 /\ Labels(kanto) \subseteq {"kanto", ""}
      /\ Labelled(kanto, "kanto", BitsOf(t.badges_kanto)) /\ Fits(a \o kanto)
  <2> HIDE DEF a
  <2> QED BY <1>a, KantoLines
<1> HIDE DEF a, kanto
<1>b. /\ OwnElements(b) /\ Size(b) \in Nat /\ Size(b) <= 3 /\ Labels(b) \subseteq {"kanto", ""} /\ Fits(a \o b)
      /\ generation(g) = 2 => Labelled(b, "kanto", BitsOf(t.badges_kanto))
      /\ generation(g) # 2 => Labels(b) = {}
  <2>1. CASE generation(g) = 2
    <3>1. b = kanto
      BY <2>1
    <3> HIDE DEF b
    <3>2. Size(b) \in Nat /\ Size(b) <= 3
      <4>1. Size(b) = 3
        BY <1>k, <3>1
      <4> QED BY <4>1
    <3>3. OwnElements(b) /\ Labels(b) \subseteq {"kanto", ""} /\ Fits(a \o b)
      BY <1>k, <3>1
    <3>4. Labelled(b, "kanto", BitsOf(t.badges_kanto))
      BY <1>k, <3>1
    <3> QED BY <2>1, <3>2, <3>3, <3>4
  <2>2. CASE generation(g) # 2
    <3>1. b = <<>>
      BY <2>2
    <3> HIDE DEF b
    <3>3. OwnElements(b) /\ Size(b) = 0 /\ Labels(b) = {} /\ Short(b)
      BY <3>1, NoLines
    <3>2. Size(a) + Size(b) <= 21
      <4>1. Size(a) = 4 /\ Size(b) = 0
        BY <1>a, <3>3
      <4> QED BY <4>1
    <3>4. Fits(a \o b)
      BY <1>a, <3>2, <3>3, FitsWith
    <3> QED BY <2>2, <3>3, <3>4
  <2> QED BY <2>1, <2>2
<1>c. OwnElements(c) /\ Size(c) = 1 /\ Labels(c) \subseteq {""} /\ Short(c)
  <2>1. 4 \in 0..7
    OBVIOUS
  <2> QED BY <2>1, GapLines
<1>d. /\ OwnElements(d) /\ Size(d) \in Nat /\ Size(d) <= 13 /\ Short(d)
      /\ p = NoPokemon => Labels(d) = {}
      /\ Labels(d) \subseteq {"name", "level", "", "move1", "move2", "move3", "move4", "hp", "attack", "speed",
                              "special"}
      /\ p # NoPokemon =>
           /\ Labelled(d, "name", <<p.species>>) /\ Labelled(d, "level", <<p.level>>)
           /\ Labelled(d, "hp", <<swap_bytes(p.hp_current), swap_bytes(p.hp_max)>>)
           /\ Labelled(d, "attack", <<swap_bytes(p.attack), swap_bytes(p.defense)>>)
           /\ Labelled(d, "speed", <<swap_bytes(p.speed), swap_bytes(p.special)>>)
           /\ Labelled(d, "move1", MoveLine(p, 1).value) /\ Labelled(d, "move2", MoveLine(p, 2).value)
           /\ Labelled(d, "move3", MoveLine(p, 3).value) /\ Labelled(d, "move4", MoveLine(p, 4).value)
  <2>1. CASE p = NoPokemon
    <3>1. d = <<>>
      BY <2>1
    <3> HIDE DEF d
    <3>2. OwnElements(d) /\ Size(d) = 0 /\ Labels(d) = {} /\ Short(d)
      BY <3>1, NoLines
    <3>3. Size(d) \in Nat /\ Size(d) <= 13
      <4>1. Size(d) = 0
        BY <3>2
      <4> QED BY <4>1
    <3> QED BY <2>1, <3>2, <3>3
  <2>2. CASE p # NoPokemon
    <3>1. d = Details(g, p)
      BY <2>2
    <3> HIDE DEF d, p
    <3> QED BY <2>2, <3>1, DetailLines
  <2> QED BY <2>1, <2>2
<1> HIDE DEF b, c, d, t, p, v
<1> DEFINE ab == a \o b
           abc == ab \o c
           all == abc \o d
<1>2. OwnElements(ab) /\ Size(ab) \in Nat /\ Size(ab) <= 7 /\ Fits(ab) /\ Labels(ab) = Labels(a) \cup Labels(b)
  <2>1. Size(ab) = Size(a) + Size(b)
    BY <1>a, <1>b, SizeOfBoth
  <2>2. Size(ab) \in Nat /\ Size(ab) <= 7
    <3>1. Size(a) = 4 /\ Size(b) \in Nat /\ Size(b) <= 3
      BY <1>a, <1>b
    <3> QED BY <2>1, <3>1
  <2> QED BY <1>a, <1>b, <2>2, LabelsOfBoth DEF Fits
<1>3. Labelled(ab, "map", v) /\ Labelled(ab, "badges", BitsOf(t.badges))
  <2>1. "map" \notin Labels(b) /\ "badges" \notin Labels(b)
    BY <1>b
  <2> QED BY <1>a, <1>b, <2>1, LabelledFirst
<1>4. generation(g) = 2 => Labelled(ab, "kanto", BitsOf(t.badges_kanto))
  <2>1. "kanto" \notin Labels(a)
    BY <1>a
  <2> QED BY <1>a, <1>b, <2>1, LabelledSecond
<1> HIDE DEF ab
<1>5. OwnElements(abc) /\ Size(abc) \in Nat /\ Size(abc) <= 8 /\ Fits(abc) /\ Labels(abc) = Labels(ab) \cup Labels(c)
  <2>1. Size(abc) = Size(ab) + Size(c)
    BY <1>2, <1>c, SizeOfBoth
  <2>2. Size(abc) \in Nat /\ Size(abc) <= 8 /\ Size(ab) + Size(c) <= 21
    <3>1. Size(ab) \in Nat /\ Size(ab) <= 7 /\ Size(c) = 1
      BY <1>2, <1>c
    <3> QED BY <2>1, <3>1
  <2>3. Fits(abc)
    BY <1>2, <1>c, <2>2, FitsWith
  <2> QED BY <1>2, <1>c, <2>2, <2>3, LabelsOfBoth DEF Fits
<1>6. /\ Labelled(abc, "map", v) /\ Labelled(abc, "badges", BitsOf(t.badges))
      /\ generation(g) = 2 => Labelled(abc, "kanto", BitsOf(t.badges_kanto))
  <2>1. "map" \notin Labels(c) /\ "badges" \notin Labels(c) /\ "kanto" \notin Labels(c)
    BY <1>c
  <2> QED BY <1>2, <1>3, <1>4, <1>c, <2>1, LabelledFirst
<1>l. /\ Labels(abc) \subseteq {"map", "badges", "kanto", ""}
      /\ generation(g) # 2 => "kanto" \notin Labels(abc)
  BY <1>a, <1>b, <1>c, <1>2, <1>5
<1> HIDE DEF abc
<1>7. Fits(all) /\ Labels(all) = Labels(abc) \cup Labels(d)
  <2>1. Size(abc) + Size(d) <= 21
    <3>1. Size(abc) \in Nat /\ Size(abc) <= 8 /\ Size(d) \in Nat /\ Size(d) <= 13
      BY <1>5, <1>d
    <3> QED BY <3>1
  <2> QED BY <1>5, <1>d, <2>1, FitsWith, LabelsOfBoth
<1>8. /\ Labelled(all, "map", v) /\ Labelled(all, "badges", BitsOf(t.badges))
      /\ generation(g) = 2 => Labelled(all, "kanto", BitsOf(t.badges_kanto))
  <2>1. "map" \notin Labels(d) /\ "badges" \notin Labels(d) /\ "kanto" \notin Labels(d)
    BY <1>d
  <2> QED BY <1>5, <1>6, <1>d, <2>1, LabelledFirst
<1>9. ASSUME NEW l \in {"name", "level", "hp", "attack", "speed", "move1", "move2", "move3", "move4"},
             NEW w, Labelled(d, l, w)
      PROVE  Labelled(all, l, w)
  <2>1. l \notin Labels(abc)
    BY <1>l
  <2> QED BY <1>5, <1>9, <1>d, <2>1, LabelledSecond
<1>10. /\ p = NoPokemon => "name" \notin Labels(all) /\ "level" \notin Labels(all)
       /\ generation(g) # 2 => "kanto" \notin Labels(all)
  BY <1>7, <1>d, <1>l
<1> HIDE DEF all
<1>11. p # NoPokemon =>
         /\ Labelled(all, "name", <<p.species>>) /\ Labelled(all, "level", <<p.level>>)
         /\ Labelled(all, "hp", <<swap_bytes(p.hp_current), swap_bytes(p.hp_max)>>)
         /\ Labelled(all, "attack", <<swap_bytes(p.attack), swap_bytes(p.defense)>>)
         /\ Labelled(all, "speed", <<swap_bytes(p.speed), swap_bytes(p.special)>>)
         /\ Labelled(all, "move1", MoveLine(p, 1).value) /\ Labelled(all, "move2", MoveLine(p, 2).value)
         /\ Labelled(all, "move3", MoveLine(p, 3).value) /\ Labelled(all, "move4", MoveLine(p, 4).value)
  BY <1>9, <1>d
<1>12. left_items(g, m) = all
  BY <1>1 DEF all, abc, ab, s
<1> QED BY <1>7, <1>8, <1>10, <1>11, <1>12 DEF t, p, v

\* At most 21 short lines fit in a panel.
LEMMA ShortFits ==
  ASSUME NEW s, OwnElements(s), Short(s), Size(s) <= 21
  PROVE  Fits(s)
<1>1. Len(s) \in 0..21
  <2>1. PICK n \in Nat : Len(s) = n
    BY DEF OwnElements
  <2>2. n <= 21
    BY <2>1 DEF Size
  <2> QED BY <2>1, <2>2
<1>2. ASSUME NEW i \in DOMAIN s PROVE s[i].h \in 0..Tallest(i)
  <2>1. s[i].h \in 0..7
    BY DEF Short
  <2>2. Tallest(i) = 7 \/ Tallest(i) = 14
    BY DEF Tallest
  <2> QED BY <2>1, <2>2
<1> QED BY <1>1, <1>2 DEF Fits

\* The panel on the right outside a battle.
LEMMA PlayerPanel ==
  ASSUME NEW g, NEW m
  PROVE  LET s == player_items(g, m)
             t == read_trainer(g, m)
         IN  Fits(s) /\ Labelled(s, "player", decode_text(t.name)) /\ Labelled(s, "money", <<t.money>>)
<1> DEFINE t == read_trainer(g, m)
           n == decode_text(t.name)
           v == <<t.money>>
           s == <<Line("player", n), Gap(2), Line("money", v), Gap(4), Gap(TEXT)>>
<1>1. player_items(g, m) = s
  BY DEF player_items
<1> HIDE DEF n, v
<1>2. OwnElements(s) /\ Size(s) = 5 /\ Short(s) /\ Labelled(s, "player", n) /\ Labelled(s, "money", v)
  BY PlayerLines
<1> HIDE DEF s
<1>3. Size(s) <= 21
  <2>1. Size(s) = 5
    BY <1>2
  <2> QED BY <2>1
<1>4. Fits(s)
  BY <1>2, <1>3, ShortFits
<1> QED BY <1>1, <1>2, <1>4 DEF n, v

\* The enemy's moves are at most four lines.
LEMMA MoveLinesOf ==
  ASSUME NEW p
  PROVE  LET s == EnemyMoves(p)
         IN  /\ OwnElements(s) /\ Size(s) \in Nat /\ Size(s) <= 4 /\ Short(s)
             /\ Labels(s) \subseteq {"move1", "move2", "move3", "move4"}
<1> DEFINE line(i) == IF p.moves[i] = 0 THEN <<>> ELSE <<Line(MoveLabels[i], <<p.moves[i]>>)>>
           a == line(1)
           b == line(2)
           c == line(3)
           d == line(4)
           ab == a \o b
           abc == ab \o c
           s == abc \o d
<1>1. EnemyMoves(p) = s
  BY Zenon DEF EnemyMoves
<1>2. \A i : OwnElements(line(i)) /\ Size(line(i)) \in Nat /\ Size(line(i)) <= 1 /\ Short(line(i))
             /\ Labels(line(i)) \subseteq {MoveLabels[i]}
  <2> TAKE i
  <2>1. CASE p.moves[i] = 0
    <3>1. line(i) = <<>>
      BY <2>1
    <3> HIDE DEF line
    <3>2. OwnElements(line(i)) /\ Size(line(i)) = 0 /\ Labels(line(i)) = {} /\ Short(line(i))
      BY <3>1, NoLines
    <3>3. Size(line(i)) \in Nat /\ Size(line(i)) <= 1
      BY <3>2
    <3> QED BY <3>2, <3>3
  <2>2. CASE p.moves[i] # 0
    <3> DEFINE l == MoveLabels[i]
               v == <<p.moves[i]>>
               o == <<Line(l, v)>>
    <3>1. line(i) = o
      BY <2>2
    <3> HIDE DEF line, l, v
    <3>0. OwnElements(o) /\ Size(o) = 1 /\ Labels(o) = {l} /\ Short(o)
      BY OneLine
    <3> HIDE DEF o
    <3>2. OwnElements(line(i)) /\ Size(line(i)) = 1 /\ Labels(line(i)) = {MoveLabels[i]} /\ Short(line(i))
      BY <3>0, <3>1 DEF l
    <3>3. Size(line(i)) \in Nat /\ Size(line(i)) <= 1
      BY <3>2
    <3> QED BY <3>2, <3>3
  <2> QED BY <2>1, <2>2
<1>3. MoveLabels[1] = "move1" /\ MoveLabels[2] = "move2" /\ MoveLabels[3] = "move3" /\ MoveLabels[4] = "move4"
  BY DEF MoveLabels
<1>4. /\ OwnElements(a) /\ Short(a) /\ Labels(a) \subseteq {"move1"} /\ OwnElements(b) /\ Short(b) /\ Labels(b) \subseteq {"move2"}
      /\ OwnElements(c) /\ Short(c) /\ Labels(c) \subseteq {"move3"} /\ OwnElements(d) /\ Short(d) /\ Labels(d) \subseteq {"move4"}
  <2> HIDE DEF line
  <2> QED BY <1>2, <1>3
<1>5. /\ Size(a) \in Nat /\ Size(a) <= 1 /\ Size(b) \in Nat /\ Size(b) <= 1
      /\ Size(c) \in Nat /\ Size(c) <= 1 /\ Size(d) \in Nat /\ Size(d) <= 1
  <2> HIDE DEF line
  <2> QED BY <1>2
<1> HIDE DEF a, b, c, d
<1>6. OwnElements(ab) /\ Short(ab) /\ Size(ab) = Size(a) + Size(b) /\ Labels(ab) = Labels(a) \cup Labels(b)
  BY <1>4, Concatenated, SizeOfBoth, LabelsOfBoth, ShortBoth
<1> HIDE DEF ab
<1>7. OwnElements(abc) /\ Short(abc) /\ Size(abc) = Size(ab) + Size(c) /\ Labels(abc) = Labels(ab) \cup Labels(c)
  BY <1>4, <1>6, Concatenated, SizeOfBoth, LabelsOfBoth, ShortBoth
<1> HIDE DEF abc
<1>8. OwnElements(s) /\ Short(s) /\ Size(s) = Size(abc) + Size(d) /\ Labels(s) = Labels(abc) \cup Labels(d)
  BY <1>4, <1>7, Concatenated, SizeOfBoth, LabelsOfBoth, ShortBoth
<1> HIDE DEF s
<1>9. Size(s) \in Nat /\ Size(s) <= 4
  <2>1. Size(ab) = Size(a) + Size(b) /\ Size(abc) = Size(ab) + Size(c) /\ Size(s) = Size(abc) + Size(d)
    BY <1>6, <1>7, <1>8
  <2> QED BY <1>5, <2>1
<1>10. Labels(s) \subseteq {"move1", "move2", "move3", "move4"}
  BY <1>4, <1>6, <1>7, <1>8
<1> QED BY <1>1, <1>8, <1>9, <1>10

\* The panel on the right in a battle.
LEMMA BattlePanel ==
  ASSUME NEW g, NEW m
  PROVE  LET s == battle_items(g, m)
             p == read_battle_enemy_pokemon(g, m)
             type == read_battle_type(g, m)
         IN  /\ Fits(s) /\ Labelled(s, "battle", <<type>>)
             /\ "player" \notin Labels(s) /\ "money" \notin Labels(s)
             /\ p # NoPokemon =>
                  /\ Labelled(s, "name", <<p.species>>)
                  /\ Labelled(s, "hp", <<swap_bytes(p.hp_current), swap_bytes(p.hp_max)>>)
                  /\ type = 1 => Labelled(s, "catch", <<p.species>>)
                  /\ type = 2 => Labelled(s, "party", <<read_enemy_party_count(g, m)>>)
<1> DEFINE p == read_battle_enemy_pokemon(g, m)
           type == read_battle_type(g, m)
           v == <<type>>
           n == <<p.species>>
           l == <<p.level>>
           h == <<swap_bytes(p.hp_current), swap_bytes(p.hp_max)>>
           k == <<read_enemy_party_count(g, m)>>
           a == <<Line("battle", v), Gap(2)>>
           b == <<Line("name", n), Line("level", l), Line("hp", h), Gap(2), Gap(TEXT)>>
           c == EnemyMoves(p)
           d == <<Gap(2)>>
           catch == <<Gap(TEXT), Line("catch", n)>>
           party == <<Line("party", k)>>
           e == CASE type = 1 -> catch [] type = 2 -> party [] OTHER -> <<>>
           bc == b \o c
           bcd == bc \o d
           all == bcd \o e
           rest == IF p = NoPokemon THEN <<>> ELSE all
           s == a \o rest
<1>1. battle_items(g, m) = s
  BY Zenon DEF battle_items
<1> HIDE DEF p, type, v, n, l, h, k
<1>a. OwnElements(a) /\ Size(a) = 2 /\ Short(a) /\ Labels(a) \subseteq {"battle", ""} /\ Labelled(a, "battle", v)
  BY BattleLines
<1>b. /\ OwnElements(b) /\ Size(b) = 5 /\ Short(b) /\ Labels(b) \subseteq {"name", "level", "hp", ""}
      /\ Labelled(b, "name", n) /\ Labelled(b, "hp", h)
  BY EnemyLines
<1>c. /\ OwnElements(c) /\ Size(c) \in Nat /\ Size(c) <= 4 /\ Short(c)
      /\ Labels(c) \subseteq {"move1", "move2", "move3", "move4"}
  BY MoveLinesOf
<1>d. OwnElements(d) /\ Size(d) = 1 /\ Labels(d) \subseteq {""} /\ Short(d)
  <2>1. 2 \in 0..7
    OBVIOUS
  <2> QED BY <2>1, GapLines
<1>x. OwnElements(catch) /\ Size(catch) = 2 /\ Short(catch) /\ Labels(catch) \subseteq {"", "catch"} /\ Labelled(catch, "catch", n)
  BY CatchLines
<1>y. OwnElements(party) /\ Size(party) = 1 /\ Labels(party) = {"party"} /\ Short(party) /\ Labelled(party, "party", k)
  BY OneLine
<1> HIDE DEF a, b, c, d, catch, party
<1>e. /\ OwnElements(e) /\ Size(e) \in Nat /\ Size(e) <= 2 /\ Short(e) /\ Labels(e) \subseteq {"", "catch", "party"}
      /\ type = 1 => Labelled(e, "catch", n)
      /\ type = 2 => Labelled(e, "party", k)
  <2>1. CASE type = 1
    <3>1. e = catch /\ type # 2
      BY <2>1
    <3> HIDE DEF e
    <3>2. Size(e) \in Nat /\ Size(e) <= 2
      <4>1. Size(e) = 2
        BY <1>x, <3>1
      <4> QED BY <4>1
    <3>3. OwnElements(e) /\ Short(e) /\ Labels(e) \subseteq {"", "catch", "party"} /\ Labelled(e, "catch", n)
      BY <1>x, <3>1
    <3> QED BY <3>1, <3>2, <3>3
  <2>2. CASE type = 2
    <3>1. e = party /\ type # 1
      BY <2>2
    <3> HIDE DEF e
    <3>2. Size(e) \in Nat /\ Size(e) <= 2
      <4>1. Size(e) = 1
        BY <1>y, <3>1
      <4> QED BY <4>1
    <3>3. OwnElements(e) /\ Short(e) /\ Labels(e) \subseteq {"", "catch", "party"} /\ Labelled(e, "party", k)
      BY <1>y, <3>1
    <3> QED BY <3>1, <3>2, <3>3
  <2>3. CASE type # 1 /\ type # 2
    <3>1. e = <<>>
      BY <2>3
    <3> HIDE DEF e
    <3>2. OwnElements(e) /\ Size(e) = 0 /\ Labels(e) = {} /\ Short(e)
      BY <3>1, NoLines
    <3>3. Size(e) \in Nat /\ Size(e) <= 2
      <4>1. Size(e) = 0
        BY <3>2
      <4> QED BY <4>1
    <3> QED BY <2>3, <3>2, <3>3
  <2> QED BY <2>1, <2>2, <2>3
<1> HIDE DEF e
<1>2. OwnElements(bc) /\ Short(bc) /\ Size(bc) = Size(b) + Size(c) /\ Labels(bc) = Labels(b) \cup Labels(c)
  BY <1>b, <1>c, Concatenated, SizeOfBoth, LabelsOfBoth, ShortBoth
<1>3. Labelled(bc, "name", n) /\ Labelled(bc, "hp", h)
  <2>1. "name" \notin Labels(c) /\ "hp" \notin Labels(c)
    BY <1>c
  <2> QED BY <1>b, <1>c, <2>1, LabelledFirst
<1> HIDE DEF bc
<1>4. OwnElements(bcd) /\ Short(bcd) /\ Size(bcd) = Size(bc) + Size(d) /\ Labels(bcd) = Labels(bc) \cup Labels(d)
  BY <1>2, <1>d, Concatenated, SizeOfBoth, LabelsOfBoth, ShortBoth
<1>5. Labelled(bcd, "name", n) /\ Labelled(bcd, "hp", h)
  <2>1. "name" \notin Labels(d) /\ "hp" \notin Labels(d)
    BY <1>d
  <2> QED BY <1>2, <1>3, <1>d, <2>1, LabelledFirst
<1>6. /\ "catch" \notin Labels(bcd) /\ "party" \notin Labels(bcd) /\ "battle" \notin Labels(bcd)
      /\ "player" \notin Labels(bcd) /\ "money" \notin Labels(bcd)
  BY <1>2, <1>4, <1>b, <1>c, <1>d
<1> HIDE DEF bcd
<1>7. OwnElements(all) /\ Short(all) /\ Size(all) = Size(bcd) + Size(e) /\ Labels(all) = Labels(bcd) \cup Labels(e)
  BY <1>4, <1>e, Concatenated, SizeOfBoth, LabelsOfBoth, ShortBoth
<1>8. Labelled(all, "name", n) /\ Labelled(all, "hp", h)
  <2>1. "name" \notin Labels(e) /\ "hp" \notin Labels(e)
    BY <1>e
  <2> QED BY <1>4, <1>5, <1>e, <2>1, LabelledFirst
<1>9. /\ type = 1 => Labelled(all, "catch", n)
      /\ type = 2 => Labelled(all, "party", k)
  BY <1>4, <1>6, <1>e, LabelledSecond
<1>10. /\ "battle" \notin Labels(all)
       /\ "player" \notin Labels(all) /\ "money" \notin Labels(all)
  BY <1>6, <1>7, <1>e
<1> HIDE DEF all
<1>11. Size(all) \in Nat /\ Size(all) <= 12
  <2>1. Size(bc) = Size(b) + Size(c) /\ Size(bcd) = Size(bc) + Size(d) /\ Size(all) = Size(bcd) + Size(e)
    BY <1>2, <1>4, <1>7
  <2>2. Size(b) = 5 /\ Size(c) \in Nat /\ Size(c) <= 4 /\ Size(d) = 1 /\ Size(e) \in Nat /\ Size(e) <= 2
    BY <1>b, <1>c, <1>d, <1>e
  <2> QED BY <2>1, <2>2
<1>12. /\ OwnElements(rest) /\ Short(rest) /\ Size(rest) \in Nat /\ Size(rest) <= 12 /\ "battle" \notin Labels(rest)
       /\ "player" \notin Labels(rest) /\ "money" \notin Labels(rest)
       /\ p # NoPokemon => rest = all
  <2>1. CASE p = NoPokemon
    <3>1. rest = <<>>
      BY <2>1
    <3> HIDE DEF rest
    <3>2. OwnElements(rest) /\ Size(rest) = 0 /\ Labels(rest) = {} /\ Short(rest)
      BY <3>1, NoLines
    <3>3. Size(rest) \in Nat /\ Size(rest) <= 12
      <4>1. Size(rest) = 0
        BY <3>2
      <4> QED BY <4>1
    <3> QED BY <2>1, <3>2, <3>3
  <2>2. CASE p # NoPokemon
    <3>1. rest = all
      BY <2>2
    <3> HIDE DEF rest
    <3> QED BY <1>7, <1>10, <1>11, <3>1
  <2> QED BY <2>1, <2>2
<1> HIDE DEF rest
<1>13. OwnElements(s) /\ Short(s) /\ Size(s) = Size(a) + Size(rest)
  BY <1>a, <1>12, Concatenated, SizeOfBoth, ShortBoth
<1>14. Labelled(s, "battle", v)
  BY <1>a, <1>12, LabelledFirst
<1>15. ASSUME p # NoPokemon
       PROVE  /\ Labelled(s, "name", n) /\ Labelled(s, "hp", h)
              /\ type = 1 => Labelled(s, "catch", n)
              /\ type = 2 => Labelled(s, "party", k)
  <2>1. "name" \notin Labels(a) /\ "hp" \notin Labels(a) /\ "catch" \notin Labels(a) /\ "party" \notin Labels(a)
    BY <1>a
  <2>2. rest = all
    BY <1>12, <1>15
  <2> QED BY <1>8, <1>9, <1>12, <1>a, <2>1, <2>2, LabelledSecond
<1>17. "player" \notin Labels(s) /\ "money" \notin Labels(s)
  <2>1. "player" \notin Labels(a) /\ "money" \notin Labels(a)
    BY <1>a
  <2>2. Labels(s) = Labels(a) \cup Labels(rest)
    BY <1>a, <1>12, LabelsOfBoth
  <2> HIDE DEF s
  <2> QED BY <1>12, <2>1, <2>2
<1> HIDE DEF s
<1>16. Fits(s)
  <2>1. Size(a) = 2 /\ Size(rest) \in Nat /\ Size(rest) <= 12 /\ Size(s) = Size(a) + Size(rest)
    BY <1>a, <1>12, <1>13
  <2>2. Size(s) <= 21
    BY <2>1
  <2> QED BY <1>13, <2>2, ShortFits
<1> QED BY <1>1, <1>14, <1>15, <1>16, <1>17 DEF p, type, v, n, h, k

-----------------------------------------------------------------------------
(* What the panels show of the data that memory keeps. *)
LEMMA LeadOf ==
  ASSUME NEW g \in Games, NEW d, NEW m, Keeps(g, d, m), FitData(d)
  PROVE  LET p == read_party(g, m)[1]
         IN  IF d["party_count"] = 0 \/ d["species"] \in {0, 255} THEN p = NoPokemon
             ELSE p = Pokemon(m, Tables[g].party, Tables[g].mon) /\ p # NoPokemon
<1> DEFINE t == Tables[g]
           c == d["party_count"]
           lead == IF 1 <= party_count(g, m) /\ Named(m, t.party, t.mon) THEN Pokemon(m, t.party, t.mon) ELSE NoPokemon
<1>t. t.party \in Nat /\ t.mon_size \in Nat /\ t.mon.species \in Nat
  BY TablesAre
<1>1. read_party(g, m)[1] = lead
  <2>1. t.party + (1 - 1) * t.mon_size = t.party
    BY <1>t
  <2> HIDE DEF t
  <2>2. 1 \in 1..6
    OBVIOUS
  <2> DEFINE base(i) == t.party + (i - 1) * t.mon_size
             e(i) == IF i <= party_count(g, m) /\ Named(m, base(i), t.mon) THEN Pokemon(m, base(i), t.mon) ELSE NoPokemon
  <2>3. read_party(g, m) = [i \in 1..6 |-> e(i)]
    BY DEF read_party, t
  <2>4. e(1) = lead
    BY <2>1
  <2> HIDE DEF e
  <2> QED BY <2>2, <2>3, <2>4
<1>2. rb(m, t.party_count) = c /\ rb(m, t.party + t.mon.species) = d["species"]
  BY ReadsOne
<1>3. c \in Byte
  BY FieldsAre DEF FitData, FieldNames
<1>4. 1 <= party_count(g, m) <=> c # 0
  <2>1. party_count(g, m) = Min({6, c})
    BY <1>2 DEF party_count
  <2>2. c \in Int /\ 0 <= c
    BY <1>3, Ranges
  <2>3. \E x \in {6, c} : \A y \in {6, c} : x <= y
    <3>1. CASE c <= 6
      BY <2>2, <3>1
    <3>2. CASE ~(c <= 6)
      BY <2>2, <3>2
    <3> QED BY <3>1, <3>2
  <2>4. Min({6, c}) \in {6, c} /\ Min({6, c}) <= c
    BY <2>3 DEF Min
  <2> DEFINE x == Min({6, c})
  <2>5. x \in {6, c} /\ x <= c /\ party_count(g, m) = x
    BY <2>1, <2>4
  <2> HIDE DEF x, c
  <2> QED BY <2>2, <2>5
<1>5. Named(m, t.party, t.mon) <=> d["species"] \notin {0, 255}
  BY <1>2 DEF Named
<1>6. d["species"] \notin {0, 255} => Pokemon(m, t.party, t.mon) # NoPokemon
  <2>1. Pokemon(m, t.party, t.mon).species = d["species"]
    BY <1>2 DEF Pokemon
  <2>2. NoPokemon.species = 0
    BY DEF NoPokemon
  <2> QED BY <2>1, <2>2
<1> HIDE DEF t
<1>7. CASE c = 0 \/ d["species"] \in {0, 255}
  <2>1. lead = NoPokemon
    BY <1>4, <1>5, <1>7
  <2> QED BY <1>1, <1>7, <2>1
<1>8. CASE ~(c = 0 \/ d["species"] \in {0, 255})
  <2>1. lead = Pokemon(m, t.party, t.mon) /\ lead # NoPokemon
    BY <1>4, <1>5, <1>6, <1>8
  <2> QED BY <1>1, <1>8, <2>1 DEF t
<1> QED BY <1>7, <1>8

\* The other places of the party are empty.
LEMMA OthersOf ==
  ASSUME NEW g \in Games, NEW m, Vacant(g, m), NEW i \in 2..6
  PROVE  read_party(g, m)[i] = NoPokemon
<1> DEFINE t == Tables[g]
           base == t.party + (i - 1) * t.mon_size
<1>1. rb(m, base + t.mon.species) = 0
  BY DEF Vacant, Place, rb
<1>2. ~Named(m, base, t.mon)
  BY <1>1 DEF Named
<1>3. i \in 1..6
  OBVIOUS
<1> HIDE DEF t
<1>4. read_party(g, m)[i] = IF i <= party_count(g, m) /\ Named(m, base, t.mon) THEN Pokemon(m, base, t.mon) ELSE NoPokemon
  BY <1>3, Zenon DEF read_party, t
<1> QED BY <1>2, <1>4

\* The lines of the first Pokemon have its words as the game does; its bar has their bytes swapped.
LEMMA LeadReads ==
  ASSUME NEW g \in Games, NEW d, NEW m, Keeps(g, d, m), FitData(d)
  PROVE  LET p == Pokemon(m, Tables[g].party, Tables[g].mon)
         IN  /\ p.species = d["species"] /\ p.level = d["level"]
             /\ swap_bytes(p.hp_current) = d["hp"] /\ swap_bytes(p.hp_max) = d["hp_max"]
             /\ swap_bytes(p.attack) = d["attack"] /\ swap_bytes(p.special) = d["special"]
             /\ p.hp_current = WordOf(Lo(d["hp"]), Hi(d["hp"])) /\ p.hp_max = WordOf(Lo(d["hp_max"]), Hi(d["hp_max"]))
             /\ \A i \in 1..4 : p.moves[i] = d["moves"][1][i] /\ p.pp[i] = d["moves"][2][i] % 64
<1> DEFINE t == Tables[g]
           p == Pokemon(m, t.party, t.mon)
<1>1. p.species = rb(m, t.party + t.mon.species) /\ p.level = rb(m, t.party + t.mon.level)
  BY DEF Pokemon
<1>2. /\ p.hp_current = Has16(m, t.party, t.mon, "hp") /\ p.hp_max = Has16(m, t.party, t.mon, "hp_max")
      /\ p.attack = Has16(m, t.party, t.mon, "attack") /\ p.special = Has16(m, t.party, t.mon, "special")
  BY DEF Pokemon
<1>3. \A i \in 1..4 : p.moves[i] = rb(m, t.party + t.mon.moves + i - 1) /\ p.pp[i] = Has8(m, t.party, t.mon, "pp", i - 1) % 64
  BY DEF Pokemon
<1> HIDE DEF p
<1>4. {"hp", "hp_max", "attack", "special", "pp"} \subseteq DOMAIN t.mon
  BY TablesAre
<1>5. /\ p.hp_current = rw(m, t.party + t.mon.hp) /\ p.hp_max = rw(m, t.party + t.mon.hp_max)
      /\ p.attack = rw(m, t.party + t.mon.attack) /\ p.special = rw(m, t.party + t.mon.special)
  <2> HIDE DEF t
  <2> QED BY <1>2, <1>4, Zenon DEF Has16
<1>6. \A i \in 1..4 : p.pp[i] = rb(m, t.party + t.mon.pp + (i - 1)) % 64
  <2> HIDE DEF t
  <2> QED BY <1>3, <1>4, Zenon DEF Has8
<1>7. p.species = d["species"] /\ p.level = d["level"]
  BY <1>1, ReadsOne
<1>8. /\ p.hp_current = WordOf(Lo(d["hp"]), Hi(d["hp"])) /\ p.hp_max = WordOf(Lo(d["hp_max"]), Hi(d["hp_max"]))
      /\ p.attack = WordOf(Lo(d["attack"]), Hi(d["attack"])) /\ p.special = WordOf(Lo(d["special"]), Hi(d["special"]))
  BY <1>5, ReadsWords
<1>9. \A i \in 1..4 : p.moves[i] = d["moves"][1][i] /\ p.pp[i] = d["moves"][2][i] % 64
  BY <1>3, <1>6, ReadsMoves
<1>10. d["hp"] \in Word /\ d["hp_max"] \in Word /\ d["attack"] \in Word /\ d["special"] \in Word
  BY FieldsAre DEF FitData, FieldNames
<1>11. /\ swap_bytes(p.hp_current) = d["hp"] /\ swap_bytes(p.hp_max) = d["hp_max"]
       /\ swap_bytes(p.attack) = d["attack"] /\ swap_bytes(p.special) = d["special"]
  BY <1>8, <1>10, SwapBack
<1> QED BY <1>7, <1>8, <1>9, <1>11 DEF p

\* The enemy, in a battle.
LEMMA EnemyReads ==
  ASSUME NEW g \in Games, NEW d, NEW m, Keeps(g, d, m), FitData(d), d["battle"] # 0
  PROVE  LET p == read_battle_enemy_pokemon(g, m)
         IN  /\ in_battle(g, m) /\ read_battle_type(g, m) = d["battle"]
             /\ read_enemy_party_count(g, m) = d["enemies"]
             /\ d["enemy"][1] \notin {0, 255} =>
                  p # NoPokemon /\ p.species = d["enemy"][1] /\ swap_bytes(p.hp_current) = d["enemy"][2]
<1> DEFINE t == Tables[g]
           p == Pokemon(m, 0, t.enemy)
<1>1. rb(m, t.in_battle) = d["battle"] /\ (generation(g) = 2 => rb(m, t.battle_type) = d["battle"])
  BY ReadsBattle
<1>2. in_battle(g, m)
  BY <1>1 DEF in_battle
<1>3. read_battle_type(g, m) = d["battle"]
  <2>1. generation(g) = 1 \/ generation(g) = 2
    BY TablesAre
  <2> QED BY <1>1, <1>2, <2>1 DEF read_battle_type
<1>4. read_enemy_party_count(g, m) = d["enemies"]
  BY <1>2, ReadsOne DEF read_enemy_party_count
<1>5. rb(m, t.enemy.species) = d["enemy"][1] /\ rw(m, t.enemy.hp) = WordOf(Lo(d["enemy"][2]), Hi(d["enemy"][2]))
  BY ReadsEnemy
<1>t. t.enemy.species \in Nat /\ t.enemy.hp \in Nat /\ "hp" \in DOMAIN t.enemy
  BY TablesAre
<1>6. 0 + t.enemy.species = t.enemy.species /\ 0 + t.enemy.hp = t.enemy.hp
  BY <1>t
<1>7. ASSUME d["enemy"][1] \notin {0, 255}
      PROVE  LET q == read_battle_enemy_pokemon(g, m)
             IN  q # NoPokemon /\ q.species = d["enemy"][1] /\ swap_bytes(q.hp_current) = d["enemy"][2]
  <2>1. Named(m, 0, t.enemy)
    BY <1>5, <1>6, <1>7 DEF Named
  <2>2. read_battle_enemy_pokemon(g, m) = p
    BY <1>2, <2>1 DEF read_battle_enemy_pokemon
  <2>3. p.species = rb(m, 0 + t.enemy.species) /\ p.hp_current = Has16(m, 0, t.enemy, "hp")
    BY DEF Pokemon
  <2> HIDE DEF p, t
  <2>4. p.hp_current = rw(m, t.enemy.hp)
    BY <1>t, <1>6, <2>3, Zenon DEF Has16
  <2>5. d["enemy"][2] \in Word
    <3>1. d["enemy"] \in Byte \X Word
      BY FieldsAre DEF FitData, FieldNames
    <3> QED BY <3>1
  <2>6. swap_bytes(p.hp_current) = d["enemy"][2]
    BY <1>5, <2>4, <2>5, SwapBack
  <2>7. p.species = d["enemy"][1]
    BY <1>5, <1>6, <2>3
  <2>8. p # NoPokemon
    <3>1. NoPokemon.species = 0
      BY DEF NoPokemon
    <3> QED BY <1>7, <2>7, <3>1
  <2> QED BY <2>2, <2>6, <2>7, <2>8
<1> QED BY <1>2, <1>3, <1>4, <1>7

\* The lesser and the greater of two numbers.
LEMMA LesserOf ==
  ASSUME NEW a \in Int, NEW b \in Int
  PROVE  Min({a, b}) = (IF a <= b THEN a ELSE b) /\ Max({a, b}) = (IF a <= b THEN b ELSE a)
<1>1. CASE a <= b
  <2>1. \A x \in {a, b} : a <= x /\ x <= b
    BY <1>1
  <2>2. \A x \in {a, b} : x <= a => x = a
    BY <1>1
  <2>3. \A x \in {a, b} : b <= x => x = b
    BY <1>1
  <2>4. Min({a, b}) = a
    BY <2>1, <2>2 DEF Min
  <2>5. Max({a, b}) = b
    BY <2>1, <2>3 DEF Max
  <2> QED BY <1>1, <2>4, <2>5
<1>2. CASE ~(a <= b)
  <2>1. \A x \in {a, b} : b <= x /\ x <= a
    BY <1>2
  <2>2. \A x \in {a, b} : x <= b => x = b
    BY <1>2
  <2>3. \A x \in {a, b} : a <= x => x = a
    BY <1>2
  <2>4. Min({a, b}) = b
    BY <2>1, <2>2 DEF Min
  <2>5. Max({a, b}) = a
    BY <2>1, <2>3 DEF Max
  <2> QED BY <1>2, <2>4, <2>5
<1> QED BY <1>1, <1>2

\* The length of a bar is the same for bytes, and for bytes that were taken for high ones.
LEMMA BarOf ==
  ASSUME NEW a \in Byte, NEW b \in Byte
  PROVE  Bar(WordOf(Lo(a), Hi(a)), WordOf(Lo(b), Hi(b)))[1] = Min({20, (a * 20) \div Max({b, 1})})
<1>1. a \in Nat /\ b \in Nat /\ a <= 255 /\ b <= 255
  BY Ranges
<1>2. WordOf(Lo(a), Hi(a)) = 256 * a /\ WordOf(Lo(b), Hi(b)) = 256 * b
  BY <1>1, SMT DEF WordOf, Lo, Hi
<1> DEFINE x == 256 * a
           y == 256 * b
           full == (x * 20) \div Max({y, 1})
           part20 == (a * 20) \div Max({b, 1})
<1>3. Bar(x, y)[1] = Min({20, full})
  BY DEF Bar
<1>4. CASE b = 0
  <2>1. Max({y, 1}) = 1 /\ Max({b, 1}) = 1
    BY <1>4, LesserOf
  <2>2. full = x * 20 /\ part20 = a * 20
    BY <1>1, <2>1
  <2>3. full \in Int /\ part20 \in Int /\ (a = 0 => full = 0 /\ part20 = 0) /\ (a # 0 => full >= 20 /\ part20 >= 20)
    BY <1>1, <2>2
  <2> HIDE DEF full, part20
  <2>4. Min({20, full}) = (IF 20 <= full THEN 20 ELSE full) /\ Min({20, part20}) = (IF 20 <= part20 THEN 20 ELSE part20)
    BY <2>3, LesserOf
  <2>5. Min({20, full}) = Min({20, part20})
    <3>1. CASE a = 0
      BY <2>3, <3>1
    <3>2. CASE a # 0
      BY <2>3, <2>4, <3>2
    <3> QED BY <3>1, <3>2
  <2> QED BY <1>2, <1>3, <2>5 DEF part20
<1>5. CASE b # 0
  <2>1. Max({y, 1}) = y /\ Max({b, 1}) = b
    <3>1. y \in Int /\ b \in Int /\ ~(y <= 1) /\ (b <= 1 => b = 1)
      BY <1>1, <1>5
    <3> HIDE DEF y
    <3> QED BY <3>1, LesserOf
  <2>2. full = (256 * (a * 20)) \div (256 * b)
    <3>1. x * 20 = 256 * (a * 20)
      BY <1>1
    <3> QED BY <2>1, <3>1
  <2>3. part20 = (a * 20) \div b
    BY <2>1
  <2>4. a * 20 \in Nat /\ b \in Nat \ {0}
    BY <1>1, <1>5
  <2>5. full = part20
    BY <2>2, <2>3, <2>4, ScaledDiv
  <2> QED BY <1>2, <1>3, <2>5
<1> QED BY <1>4, <1>5

\* A move's line has the move and its PP without the PP-ups.
LEMMA MoveReads ==
  ASSUME NEW g \in Games, NEW d, NEW m, Keeps(g, d, m), FitData(d), NEW i \in 1..4
  PROVE  SubSeq(MoveLine(Pokemon(m, Tables[g].party, Tables[g].mon), i).value, 1, 2)
           = <<d["moves"][1][i], d["moves"][2][i] % 64>>
<1> DEFINE p == Pokemon(m, Tables[g].party, Tables[g].mon)
           v == d["moves"][2][i]
<1>1. p.moves[i] = d["moves"][1][i] /\ p.pp[i] = v % 64
  BY LeadReads
<1>2. (v % 64) % 64 = v % 64
  <2>1. v \in Byte
    BY ReadsMoves
  <2>2. v \in Nat
    BY <2>1, Ranges
  <2> HIDE DEF v
  <2> QED BY <2>2
<1>3. \A a, b, c : SubSeq(<<a, b, c>>, 1, 2) = <<a, b>>
  BY FirstTwo
<1>4. MoveLine(p, i).value = <<p.moves[i], p.pp[i] % 64, p.pp[i] \div 64>>
  BY DEF MoveLine, Line
<1> HIDE DEF p
<1>5. SubSeq(MoveLine(p, i).value, 1, 2) = <<p.moves[i], p.pp[i] % 64>>
  BY <1>3, <1>4
<1> QED BY <1>1, <1>2, <1>5 DEF p

\* What a player expects to see of the first Pokemon, and whether there is one.
LEMMA LeadExpected ==
  ASSUME NEW g, NEW d
  PROVE  LET x == Expected(g, d)
         IN  /\ (x.lead = <<>>) <=> (d["party_count"] = 0 \/ d["species"] \in {0, 255})
             /\ x.lead # <<>> =>
                  /\ SubSeq(x.lead, 1, 4) = <<d["species"], d["level"], d["hp"], d["hp_max"]>>
                  /\ SubSeq(x.lead, 5, 6) = <<d["attack"], d["special"]>>
<1> DEFINE none == d["party_count"] = 0 \/ d["species"] \in {0, 255}
           all == <<d["species"], d["level"], d["hp"], d["hp_max"], d["attack"], d["special"]>>
<1>1. Expected(g, d).lead = IF none THEN <<>> ELSE all
  BY DEF Expected
<1>2. all # <<>>
  <2>1. Len(all) = 6 /\ Len(<<>>) = 0
    OBVIOUS
  <2> HIDE DEF all
  <2> QED BY <2>1
<1>3. \A a, b, c, e, f, h : /\ SubSeq(<<a, b, c, e, f, h>>, 1, 4) = <<a, b, c, e>>
                            /\ SubSeq(<<a, b, c, e, f, h>>, 5, 6) = <<f, h>>
  BY FourOfSix
<1>4. SubSeq(all, 1, 4) = <<d["species"], d["level"], d["hp"], d["hp_max"]>> /\ SubSeq(all, 5, 6) = <<d["attack"], d["special"]>>
  BY <1>3
<1> HIDE DEF none, all
<1>5. CASE none
  BY <1>1, <1>5 DEF none
<1>6. CASE ~none
  <2>1. Expected(g, d).lead = all
    BY <1>1, <1>6
  <2> QED BY <1>2, <1>4, <1>6, <2>1 DEF none
<1> QED BY <1>5, <1>6

\* The panel on the left.
LEMMA LeftShows ==
  ASSUME NEW g \in Games, NEW d, NEW m, Keeps(g, d, m), FitData(d)
  PROVE  LET x == Expected(g, d)
             l == Standing(left_sidebar, left_items(g, m))
         IN  /\ l["map"] = x.map /\ l["badges"] = x.badges
             /\ generation(g) = 2 => l["kanto"] = x.kanto
             /\ ("name" \in DOMAIN l) <=> (x.lead # <<>>)
             /\ x.lead # <<>> =>
                  /\ l["name"] \o l["level"] \o l["hp"] = SubSeq(x.lead, 1, 4)
                  /\ <<l["attack"][1], l["speed"][2]>> = SubSeq(x.lead, 5, 6)
                  /\ \A i \in 1..4 : SubSeq(l[MoveLabels[i]], 1, 2) = <<x.moves[i], x.pp[i]>>
<1> DEFINE x == Expected(g, d)
           s == left_items(g, m)
           l == Standing(left_sidebar, s)
           t == read_trainer(g, m)
           p == read_party(g, m)[1]
           q == Pokemon(m, Tables[g].party, Tables[g].mon)
<1>1. /\ x.map = <<IF generation(g) = 2 THEN d["group"] ELSE 0, d["map"]>> /\ x.badges = BitsOf(d["badges"])
      /\ x.kanto = BitsOf(IF generation(g) = 2 THEN d["kanto"] ELSE 0)
      /\ x.moves = d["moves"][1] /\ \A i \in 1..4 : x.pp[i] = d["moves"][2][i] % 64
  BY DEF Expected
<1>2. Fits(s)
  BY LeftPanel
<1>3. ASSUME NEW k, NEW v, k # "", Labelled(s, k, v) PROVE k \in DOMAIN l /\ l[k] = v
  <2> HIDE DEF s
  <2> QED BY <1>2, <1>3, StandsAt
<1>4. l["map"] = x.map
  <2>1. Labelled(s, "map", <<read_map_group(g, m), read_location(g, m)[1]>>)
    BY LeftPanel
  <2>2. read_location(g, m)[1] = d["map"]
    BY ReadsOne DEF read_location
  <2>3. read_map_group(g, m) = IF generation(g) = 2 THEN d["group"] ELSE 0
    <3> DEFINE T == Tables[g]
    <3>1. /\ generation(g) \in 1..2
          /\ generation(g) = 1 => "group" \notin DOMAIN T
          /\ generation(g) = 2 => "group" \in DOMAIN T /\ T["group"] \in Nat /\ rb(m, T["group"]) = d["group"]
      BY TablesAre, ReadsOne
    <3> HIDE DEF T
    <3>2. read_map_group(g, m) = IF "group" \in DOMAIN T THEN rb(m, 0 + T["group"] + 0) ELSE 0
      BY DEF read_map_group, Has8, T
    <3>3. CASE generation(g) = 2
      <4>1. 0 + T["group"] + 0 = T["group"]
        BY <3>1, <3>3
      <4> QED BY <3>1, <3>2, <3>3, <4>1
    <3>4. CASE generation(g) # 2
      BY <3>1, <3>2, <3>4
    <3> QED BY <3>3, <3>4
  <2> HIDE DEF s, l, x
  <2>4. l["map"] = <<read_map_group(g, m), read_location(g, m)[1]>>
    BY <1>3, <2>1
  <2> QED BY <1>1, <2>2, <2>3, <2>4
<1>5. l["badges"] = x.badges
  <2>1. Labelled(s, "badges", BitsOf(t.badges))
    BY LeftPanel
  <2>2. t.badges = d["badges"]
    BY ReadsOne DEF read_trainer
  <2> HIDE DEF s, l, x, t
  <2> QED BY <1>1, <1>3, <2>1, <2>2
<1>6. generation(g) = 2 => l["kanto"] = x.kanto
  <2>1. SUFFICES ASSUME generation(g) = 2 PROVE l["kanto"] = x.kanto
    OBVIOUS
  <2>2. Labelled(s, "kanto", BitsOf(t.badges_kanto))
    BY <2>1, LeftPanel
  <2>3. t.badges_kanto = d["kanto"]
    <3> DEFINE T == Tables[g]
    <3>1. "kanto" \in DOMAIN T /\ T["kanto"] \in Nat /\ rb(m, T["kanto"]) = d["kanto"]
      BY <2>1, TablesAre, ReadsOne
    <3> HIDE DEF T
    <3>2. t.badges_kanto = Has8(m, 0, T, "kanto", 0)
      BY DEF read_trainer, T
    <3>3. 0 + T["kanto"] + 0 = T["kanto"]
      BY <3>1
    <3> HIDE DEF t
    <3> QED BY <3>1, <3>2, <3>3, Zenon DEF Has8
  <2> HIDE DEF s, l, x, t
  <2> QED BY <1>1, <1>3, <2>1, <2>2, <2>3
<1>7. x.lead # <<>> => p = q /\ p # NoPokemon
  BY LeadOf, LeadExpected
<1>8. x.lead = <<>> => p = NoPokemon
  BY LeadOf, LeadExpected
<1>9. ("name" \in DOMAIN l) <=> (x.lead # <<>>)
  <2>1. CASE x.lead = <<>>
    <3>1. "name" \notin Labels(s)
      BY <1>8, <2>1, LeftPanel
    <3> HIDE DEF s
    <3> QED BY <1>2, <2>1, <3>1, StandsAt
  <2>2. CASE x.lead # <<>>
    <3>1. Labelled(s, "name", <<p.species>>)
      BY <1>7, <2>2, LeftPanel
    <3> HIDE DEF s
    <3> QED BY <1>3, <2>2, <3>1
  <2> QED BY <2>1, <2>2
<1>10. ASSUME x.lead # <<>>
       PROVE  /\ l["name"] \o l["level"] \o l["hp"] = SubSeq(x.lead, 1, 4)
              /\ <<l["attack"][1], l["speed"][2]>> = SubSeq(x.lead, 5, 6)
              /\ \A i \in 1..4 : SubSeq(l[MoveLabels[i]], 1, 2) = <<x.moves[i], x.pp[i]>>
  <2>0. p # NoPokemon /\ p = q
    BY <1>7, <1>10
  <2>1. /\ Labelled(s, "name", <<p.species>>) /\ Labelled(s, "level", <<p.level>>)
        /\ Labelled(s, "hp", <<swap_bytes(p.hp_current), swap_bytes(p.hp_max)>>)
        /\ Labelled(s, "attack", <<swap_bytes(p.attack), swap_bytes(p.defense)>>)
        /\ Labelled(s, "speed", <<swap_bytes(p.speed), swap_bytes(p.special)>>)
        /\ Labelled(s, "move1", MoveLine(p, 1).value) /\ Labelled(s, "move2", MoveLine(p, 2).value)
        /\ Labelled(s, "move3", MoveLine(p, 3).value) /\ Labelled(s, "move4", MoveLine(p, 4).value)
    BY <2>0, LeftPanel
  <2>2. /\ q.species = d["species"] /\ q.level = d["level"]
        /\ swap_bytes(q.hp_current) = d["hp"] /\ swap_bytes(q.hp_max) = d["hp_max"]
        /\ swap_bytes(q.attack) = d["attack"] /\ swap_bytes(q.special) = d["special"]
    BY LeadReads
  <2>3. \A i \in 1..4 : SubSeq(MoveLine(q, i).value, 1, 2) = <<x.moves[i], x.pp[i]>>
    <3> HIDE DEF x
    <3> QED BY <1>1, MoveReads
  <2>4. /\ SubSeq(x.lead, 1, 4) = <<d["species"], d["level"], d["hp"], d["hp_max"]>>
        /\ SubSeq(x.lead, 5, 6) = <<d["attack"], d["special"]>>
    BY <1>10, LeadExpected
  <2> HIDE DEF s, l, x, p, q
  <2>5. /\ l["name"] = <<p.species>> /\ l["level"] = <<p.level>>
        /\ l["hp"] = <<swap_bytes(p.hp_current), swap_bytes(p.hp_max)>>
        /\ l["attack"] = <<swap_bytes(p.attack), swap_bytes(p.defense)>>
        /\ l["speed"] = <<swap_bytes(p.speed), swap_bytes(p.special)>>
    BY <1>3, <2>1
  <2>6. /\ l["move1"] = MoveLine(p, 1).value /\ l["move2"] = MoveLine(p, 2).value
        /\ l["move3"] = MoveLine(p, 3).value /\ l["move4"] = MoveLine(p, 4).value
    <3>1. /\ Labelled(s, "move1", MoveLine(p, 1).value) /\ Labelled(s, "move2", MoveLine(p, 2).value)
          /\ Labelled(s, "move3", MoveLine(p, 3).value) /\ Labelled(s, "move4", MoveLine(p, 4).value)
      BY <2>1
    <3>2. \A k, v : k # "" /\ Labelled(s, k, v) => l[k] = v
      BY <1>3
    <3>3. "move1" # "" /\ "move2" # "" /\ "move3" # "" /\ "move4" # ""
      OBVIOUS
    <3> QED BY <3>1, <3>2, <3>3, Zenon
  <2>7. \A a, b, c, e : <<a>> \o <<b>> \o <<c, e>> = <<a, b, c, e>>
    BY OneOneTwo
  <2>8. l["name"] \o l["level"] \o l["hp"] = SubSeq(x.lead, 1, 4)
    <3>1. l["name"] = <<d["species"]>> /\ l["level"] = <<d["level"]>> /\ l["hp"] = <<d["hp"], d["hp_max"]>>
      BY <2>0, <2>2, <2>5
    <3>2. l["name"] \o l["level"] \o l["hp"] = <<d["species"]>> \o <<d["level"]>> \o <<d["hp"], d["hp_max"]>>
      BY <3>1
    <3>3. <<d["species"]>> \o <<d["level"]>> \o <<d["hp"], d["hp_max"]>> = <<d["species"], d["level"], d["hp"], d["hp_max"]>>
      BY <2>7
    <3> QED BY <2>4, <3>2, <3>3, Zenon
  <2>9. l["attack"][1] = d["attack"] /\ l["speed"][2] = d["special"]
    BY <2>0, <2>2, <2>5
  <2>10. <<l["attack"][1], l["speed"][2]>> = SubSeq(x.lead, 5, 6)
    BY <2>4, <2>9
  <2>11. ASSUME NEW i \in 1..4 PROVE SubSeq(l[MoveLabels[i]], 1, 2) = <<x.moves[i], x.pp[i]>>
    <3>1. MoveLabels[1] = "move1" /\ MoveLabels[2] = "move2" /\ MoveLabels[3] = "move3" /\ MoveLabels[4] = "move4"
      BY DEF MoveLabels
    <3>2. i = 1 \/ i = 2 \/ i = 3 \/ i = 4
      OBVIOUS
    <3>3. l[MoveLabels[i]] = MoveLine(p, i).value
      BY <2>6, <3>1, <3>2
    <3> QED BY <2>0, <2>3, <3>3
  <2> QED BY <2>8, <2>10, <2>11
<1> QED BY <1>4, <1>5, <1>6, <1>9, <1>10

\* The panel on the right: the trainer, or the enemy.
LEMMA RightShows ==
  ASSUME NEW g \in Games, NEW d, NEW m, Keeps(g, d, m), FitData(d)
  PROVE  LET r == render_full(g, m).right
         IN  IF d["battle"] = 0
             THEN r["money"] = <<d["money"]>> /\ r["player"] = decode_text(d["name"])
             ELSE /\ r["battle"] = <<d["battle"]>>
                  /\ d["enemy"][1] \notin {0, 255} =>
                       /\ r["name"] = <<d["enemy"][1]>> /\ r["hp"][1] = d["enemy"][2]
                       /\ d["battle"] = 1 => r["catch"] = <<d["enemy"][1]>>
                       /\ d["battle"] = 2 => r["party"] = <<d["enemies"]>>
<1> DEFINE r == render_full(g, m).right
           pl == player_items(g, m)
           ba == battle_items(g, m)
<1>1. r = Standing(right_sidebar, IF in_battle(g, m) THEN ba ELSE pl)
  BY DEF render_full
<1>2. \A s, k, v : Fits(s) /\ Labelled(s, k, v) /\ k # "" => Standing(right_sidebar, s)[k] = v
  BY StandsAt
<1> HIDE DEF r, pl, ba
<1>3. CASE d["battle"] = 0
  <2> DEFINE t == read_trainer(g, m)
  <2>1. ~in_battle(g, m)
    BY <1>3, ReadsBattle DEF in_battle
  <2>2. Fits(pl) /\ Labelled(pl, "player", decode_text(t.name)) /\ Labelled(pl, "money", <<t.money>>)
    BY PlayerPanel DEF pl
  <2>3. t.money = d["money"]
    BY ReadsMoney DEF read_trainer
  <2>4. decode_text(t.name) = decode_text(d["name"])
    <3>1. t.name = [i \in 1..11 |-> rb(m, Tables[g].name + i - 1)]
      BY DEF read_trainer
    <3> HIDE DEF t
    <3> QED BY <3>1, ReadsName
  <2> HIDE DEF t
  <2>5. r = Standing(right_sidebar, pl)
    BY <1>1, <2>1
  <2>6. r["money"] = <<t.money>> /\ r["player"] = decode_text(t.name)
    BY <1>2, <2>2, <2>5
  <2> QED BY <1>3, <2>3, <2>4, <2>6 DEF r
<1>4. CASE d["battle"] # 0
  <2> DEFINE p == read_battle_enemy_pokemon(g, m)
             type == read_battle_type(g, m)
  <2>1. /\ in_battle(g, m) /\ type = d["battle"] /\ read_enemy_party_count(g, m) = d["enemies"]
        /\ d["enemy"][1] \notin {0, 255} =>
             p # NoPokemon /\ p.species = d["enemy"][1] /\ swap_bytes(p.hp_current) = d["enemy"][2]
    BY <1>4, EnemyReads
  <2>2. /\ Fits(ba) /\ Labelled(ba, "battle", <<type>>)
        /\ p # NoPokemon =>
             /\ Labelled(ba, "name", <<p.species>>)
             /\ Labelled(ba, "hp", <<swap_bytes(p.hp_current), swap_bytes(p.hp_max)>>)
             /\ type = 1 => Labelled(ba, "catch", <<p.species>>)
             /\ type = 2 => Labelled(ba, "party", <<read_enemy_party_count(g, m)>>)
    BY BattlePanel DEF ba
  <2> HIDE DEF p, type
  <2>3. r = Standing(right_sidebar, ba)
    BY <1>1, <2>1
  <2>4. r["battle"] = <<d["battle"]>>
    BY <1>2, <2>1, <2>2, <2>3
  <2>5. ASSUME d["enemy"][1] \notin {0, 255}
        PROVE  /\ r["name"] = <<d["enemy"][1]>> /\ r["hp"][1] = d["enemy"][2]
               /\ d["battle"] = 1 => r["catch"] = <<d["enemy"][1]>>
               /\ d["battle"] = 2 => r["party"] = <<d["enemies"]>>
    <3>1. p # NoPokemon /\ p.species = d["enemy"][1] /\ swap_bytes(p.hp_current) = d["enemy"][2]
      BY <2>1, <2>5
    <3>2. r["name"] = <<p.species>> /\ r["hp"] = <<swap_bytes(p.hp_current), swap_bytes(p.hp_max)>>
      BY <1>2, <2>2, <2>3, <3>1
    <3>3. r["hp"][1] = swap_bytes(p.hp_current)
      BY <3>2
    <3>4. d["battle"] = 1 => r["catch"] = <<p.species>>
      BY <1>2, <2>1, <2>2, <2>3, <3>1
    <3>5. d["battle"] = 2 => r["party"] = <<read_enemy_party_count(g, m)>>
      BY <1>2, <2>1, <2>2, <2>3, <3>1
    <3> QED BY <2>1, <3>1, <3>2, <3>3, <3>4, <3>5
  <2> QED BY <1>4, <2>4, <2>5 DEF r
<1> QED BY <1>3, <1>4

\* A bar and its level.
LEMMA BarShown ==
  ASSUME NEW c, NEW e, NEW v, NEW b, NEW a, b = Bar(c, e), a = Append(b, v)
  PROVE  a # <<>> /\ a[1] = b[1] /\ a[3] = v
<1> DEFINE y == Min({20, (c * 20) \div Max({e, 1})})
           z == BarColor(IF e > 0 THEN (c * 100) \div e ELSE 0)
           s == Append(<<y, z>>, v)
<1>1. b = <<y, z>>
  BY DEF Bar
<1> HIDE DEF y, z
<1>2. b[1] = y
  BY <1>1
<1>3. Len(s) = 3 /\ s[1] = y /\ s[3] = v
  OBVIOUS
<1>4. a = s
  BY <1>1
<1> HIDE DEF s
<1>5. a # <<>>
  <2>1. Len(<<>>) = 0
    OBVIOUS
  <2> QED BY <1>3, <1>4, <2>1
<1> QED BY <1>2, <1>3, <1>4, <1>5, Zenon

\* The panel below.
LEMMA BottomShows ==
  ASSUME NEW g \in Games, NEW d, NEW m, Keeps(g, d, m), FitData(d), Vacant(g, m)
  PROVE  LET x == Expected(g, d)
             b == bottom_slots(g, m)
         IN  /\ (b[1] # <<>>) <=> (x.lead # <<>>)
             /\ x.lead # <<>> /\ {d["hp"], d["hp_max"]} \subseteq Byte => <<b[1][1], b[1][3]>> = x.bar
             /\ \A i \in 2..6 : b[i] = <<>>
<1> DEFINE x == Expected(g, d)
           b == bottom_slots(g, m)
           p == read_party(g, m)
           q == Pokemon(m, Tables[g].party, Tables[g].mon)
<1>1. \A i \in 1..6 : b[i] = IF p[i] = NoPokemon THEN <<>>
                             ELSE Append(Bar(p[i].hp_current, p[i].hp_max), p[i].level)
  BY Zenon DEF bottom_slots
<1>2. \A i \in 2..6 : b[i] = <<>>
  <2>1. \A i \in 2..6 : i \in 1..6 /\ p[i] = NoPokemon
    BY OthersOf
  <2> HIDE DEF b, p
  <2> QED BY <1>1, <2>1
<1>5. x.lead = <<>> => p[1] = NoPokemon
  BY LeadOf, LeadExpected
<1>6. x.lead # <<>> => p[1] = q /\ p[1] # NoPokemon
  BY LeadOf, LeadExpected
<1>7. 1 \in 1..6
  OBVIOUS
<1>8. x.bar = <<Min({20, (d["hp"] * 20) \div Max({d["hp_max"], 1})}), d["level"]>>
  BY DEF Expected
<1>9. /\ q.level = d["level"]
      /\ q.hp_current = WordOf(Lo(d["hp"]), Hi(d["hp"])) /\ q.hp_max = WordOf(Lo(d["hp_max"]), Hi(d["hp_max"]))
  BY LeadReads
<1> HIDE DEF x, b, p, q
<1>10. (b[1] # <<>>) <=> (x.lead # <<>>)
  <2>1. CASE x.lead = <<>>
    BY <1>1, <1>5, <1>7, <2>1, Zenon
  <2>2. CASE x.lead # <<>>
    <3>1. b[1] = Append(Bar(p[1].hp_current, p[1].hp_max), p[1].level)
      BY <1>1, <1>6, <1>7, <2>2
    <3>2. Append(Bar(p[1].hp_current, p[1].hp_max), p[1].level) # <<>>
      BY BarShown
    <3> DEFINE a == Append(Bar(p[1].hp_current, p[1].hp_max), p[1].level)
    <3>3. b[1] = a /\ a # <<>>
      BY <3>1, <3>2
    <3> HIDE DEF a
    <3> QED BY <2>2, <3>3
  <2> QED BY <2>1, <2>2
<1>11. ASSUME x.lead # <<>>, {d["hp"], d["hp_max"]} \subseteq Byte PROVE <<b[1][1], b[1][3]>> = x.bar
  <2>1. b[1] = Append(Bar(q.hp_current, q.hp_max), q.level)
    BY <1>1, <1>6, <1>7, <1>11
  <2>2. b[1][1] = Bar(q.hp_current, q.hp_max)[1] /\ b[1][3] = q.level
    <3> DEFINE y == Bar(q.hp_current, q.hp_max)[1]
               z == Bar(q.hp_current, q.hp_max)[2]
               a == Append(<<y, z>>, q.level)
    <3>1. Bar(q.hp_current, q.hp_max) = <<y, z>>
      BY DEF Bar
    <3>2. b[1] = a
      BY <2>1, <3>1, Zenon
    <3> HIDE DEF y, z
    <3>3. a[1] = y /\ a[3] = q.level
      OBVIOUS
    <3> HIDE DEF a
    <3>4. b[1][1] = y /\ b[1][3] = q.level
      BY <3>2, <3>3
    <3> QED BY <3>4 DEF y
  <2>3. Bar(q.hp_current, q.hp_max)[1] = Min({20, (d["hp"] * 20) \div Max({d["hp_max"], 1})})
    <3>1. d["hp"] \in Byte /\ d["hp_max"] \in Byte
      BY <1>11
    <3> QED BY <1>9, <3>1, BarOf
  <2> QED BY <1>8, <1>9, <2>2, <2>3
<1> QED BY <1>2, <1>10, <1>11 DEF x, b

\* What is drawn from memory that keeps the data shows it.
LEMMA PanelsOf ==
  ASSUME NEW g \in Games, NEW d, NEW m, Keeps(g, d, m), FitData(d), Vacant(g, m)
  PROVE  Shown(render_full(g, m), g, d)
<1> DEFINE x == Expected(g, d)
           l == Standing(left_sidebar, left_items(g, m))
           r == render_full(g, m).right
           b == bottom_slots(g, m)
           p == render_full(g, m)
<1>1. p.left = l /\ p.bottom = b
  BY DEF render_full
<1>2. /\ l["map"] = x.map /\ l["badges"] = x.badges
      /\ generation(g) = 2 => l["kanto"] = x.kanto
      /\ ("name" \in DOMAIN l) <=> (x.lead # <<>>)
      /\ x.lead # <<>> =>
           /\ l["name"] \o l["level"] \o l["hp"] = SubSeq(x.lead, 1, 4)
           /\ <<l["attack"][1], l["speed"][2]>> = SubSeq(x.lead, 5, 6)
           /\ \A i \in 1..4 : SubSeq(l[MoveLabels[i]], 1, 2) = <<x.moves[i], x.pp[i]>>
  BY LeftShows
<1>3. /\ (b[1] # <<>>) <=> (x.lead # <<>>)
      /\ x.lead # <<>> /\ {d["hp"], d["hp_max"]} \subseteq Byte => <<b[1][1], b[1][3]>> = x.bar
      /\ \A i \in 2..6 : b[i] = <<>>
  BY BottomShows
<1>4. IF d["battle"] = 0
      THEN r["money"] = <<d["money"]>> /\ r["player"] = decode_text(d["name"])
      ELSE /\ r["battle"] = <<d["battle"]>>
           /\ d["enemy"][1] \notin {0, 255} =>
                /\ r["name"] = <<d["enemy"][1]>> /\ r["hp"][1] = d["enemy"][2]
                /\ d["battle"] = 1 => r["catch"] = <<d["enemy"][1]>>
                /\ d["battle"] = 2 => r["party"] = <<d["enemies"]>>
  BY RightShows
<1>5. p.right = r
  OBVIOUS
<1> HIDE DEF l, b, r, p
<1>6. /\ p.left["map"] = x.map /\ p.left["badges"] = x.badges
      /\ generation(g) = 2 => p.left["kanto"] = x.kanto
      /\ ("name" \in DOMAIN p.left) = (x.lead # <<>>)
  <2> HIDE DEF x
  <2> QED BY <1>1, <1>2
<1>7. x.lead # <<>> =>
        /\ p.left["name"] \o p.left["level"] \o p.left["hp"] = SubSeq(x.lead, 1, 4)
        /\ <<p.left["attack"][1], p.left["speed"][2]>> = SubSeq(x.lead, 5, 6)
        /\ \A i \in 1..4 : SubSeq(p.left[MoveLabels[i]], 1, 2) = <<x.moves[i], x.pp[i]>>
  <2> HIDE DEF x
  <2> QED BY <1>1, <1>2, Zenon
<1>8. /\ (p.bottom[1] # <<>>) = (x.lead # <<>>)
      /\ x.lead # <<>> /\ {d.hp, d.hp_max} \subseteq Byte => <<p.bottom[1][1], p.bottom[1][3]>> = x.bar
      /\ \A i \in 2..6 : p.bottom[i] = <<>>
  <2> HIDE DEF x
  <2> QED BY <1>1, <1>3
<1>9. IF d.battle = 0
      THEN p.right["money"] = <<d.money>> /\ p.right["player"] = decode_text(d.name)
      ELSE /\ p.right["battle"] = <<d.battle>>
           /\ d.enemy[1] \notin {0, 255} =>
                /\ p.right["name"] = <<d.enemy[1]>> /\ p.right["hp"][1] = d.enemy[2]
                /\ d.battle = 1 => p.right["catch"] = <<d.enemy[1]>>
                /\ d.battle = 2 => p.right["party"] = <<d.enemies>>
  BY <1>4, <1>5
<1>10. Shown(p, g, d)
  <2> HIDE DEF x
  <2> QED BY <1>6, <1>7, <1>8, <1>9, Zenon DEF Shown, x
<1> QED BY <1>10 DEF p
-----------------------------------------------------------------------------
(* The panels.  Memory keeps the data whatever the game writes, so a frame that *)
(* is drawn with bank 1 selected reads it back through the tables.              *)
PanelInv ==
  /\ game \in Games \cup {"UNKNOWN"}
  /\ FitData(data)
  /\ game # "UNKNOWN" => Keeps(game, data, ram) /\ Vacant(game, ram)
  /\ PanelsShowGame

\* A title names one of the six games, or none.
LEMMA DetectsOne == ASSUME NEW w PROVE detect(w) \in Games \cup {"UNKNOWN"}
<1> DEFINE found == {i \in DOMAIN Detected : Detected[i] \in w}
<1>1. DOMAIN Detected = 1..6 /\ \A i \in 1..6 : Detected[i] \in Games
  BY DEF Detected, Games
<1>2. CASE found = {}
  BY <1>2 DEF detect
<1>3. CASE found # {}
  <2>1. found \in SUBSET Nat
    BY <1>1
  <2>2. Min(found) \in found
    <3> HIDE DEF found
    <3>1. \E x \in found : \A y \in found : x <= y
      BY <1>3, <2>1, Least
    <3> QED BY <3>1 DEF Min
  <2>3. detect(w) = Detected[Min(found)]
    BY <1>3 DEF detect
  <2> QED BY <1>1, <2>2, <2>3
<1> QED BY <1>2, <1>3

\* A new game keeps its data in memory; nothing is drawn yet.
LEMMA PanelInitInv == ASSUME NEW T, OverlayInit(T) PROVE PanelInv
<1>1. game \in Games \cup {"UNKNOWN"}
  BY DetectsOne DEF OverlayInit
<1>2. FitData(Start)
  BY OverlayAssumption, FieldNamesAre DEF FitData
<1>3. game # "UNKNOWN" => ram = Memory(game, Start)
  BY DEF OverlayInit
<1>4. data = Start /\ ~seen.drawn
  BY DEF OverlayInit
<1>5. game # "UNKNOWN" => Keeps(game, data, ram) /\ Vacant(game, ram)
  BY <1>1, <1>2, <1>3, <1>4, MemoryKeeps
<1> QED BY <1>1, <1>2, <1>4, <1>5 DEF PanelInv, PanelsShowGame

\* Play, a bank switch, a frame and an invalidation keep the panels' invariant.
LEMMA PanelStep == PanelInv /\ OverlayNext => PanelInv'
<1> SUFFICES ASSUME PanelInv, OverlayNext PROVE PanelInv'
  OBVIOUS
<1>1. CASE \E f \in DOMAIN Values : \E v \in Values[f] : Play(f, v)
  <2>0. PICK f \in DOMAIN Values : \E v \in Values[f] : Play(f, v)
    BY <1>1
  <2>1. PICK v \in Values[f] : Play(f, v)
    BY <2>0
  <2>2. /\ game # "UNKNOWN" /\ game' = game /\ seen' = seen /\ shown' = shown
        /\ data' = [data EXCEPT ![f] = v] /\ ram' = Overlaid(ram, Cells(game, f, v))
    BY <2>1 DEF Play
  <2>3. f \in FieldNames /\ v \in Fields[f]
    BY OverlayAssumption, FieldNamesAre
  <2>4. game \in Games /\ FitData(data) /\ Keeps(game, data, ram) /\ Vacant(game, ram)
    BY <2>2 DEF PanelInv
  <2>5. FitData(data') /\ Keeps(game, data', ram') /\ Vacant(game, ram')
    BY <2>2, <2>3, <2>4, PlayKeeps
  <2>6. PanelsShowGame'
    BY <2>2 DEF PanelInv, PanelsShowGame
  <2> QED BY <2>2, <2>4, <2>5, <2>6 DEF PanelInv
<1>2. CASE \E b \in 1..2 : SelectBank(b)
  <2>1. game' = game /\ data' = data /\ ram' = ram /\ seen' = seen /\ shown' = shown
    BY <1>2 DEF SelectBank
  <2> QED BY <2>1 DEF PanelInv, PanelsShowGame
<1>3. CASE Render
  <2>1. /\ game # "UNKNOWN" /\ game' = game /\ data' = data /\ ram' = ram
        /\ shown' = render_full(game, Peeked) /\ seen'.data = data /\ seen'.bank = bank
    BY <1>3 DEF Render
  <2>2. game \in Games /\ FitData(data) /\ Keeps(game, data, ram) /\ Vacant(game, ram)
    BY <2>1 DEF PanelInv
  <2>3. seen'.bank = 1 => Shown(shown', game', seen'.data)
    <3>1. bank = 1 => Peeked = ram
      BY DEF Peeked
    <3>2. Shown(render_full(game, ram), game, data)
      BY <2>2, PanelsOf
    <3> QED BY <2>1, <3>1, <3>2
  <2>4. PanelsShowGame'
    BY <2>3 DEF PanelsShowGame
  <2> QED BY <2>1, <2>2, <2>4 DEF PanelInv
<1>4. CASE Invalidate
  <2>1. game' = game /\ data' = data /\ ram' = ram /\ seen' = seen /\ shown' = shown
    BY <1>4 DEF Invalidate
  <2> QED BY <2>1 DEF PanelInv, PanelsShowGame
<1> QED BY <1>1, <1>2, <1>3, <1>4 DEF OverlayNext

\* A step of another component leaves the panels alone.
LEMMA PanelKept == PanelInv /\ UNCHANGED overlayVars => PanelInv'
<1> SUFFICES ASSUME PanelInv, UNCHANGED overlayVars PROVE PanelInv'
  OBVIOUS
<1>1. game' = game /\ data' = data /\ ram' = ram /\ seen' = seen /\ shown' = shown
  BY DEF overlayVars
<1> QED BY <1>1 DEF PanelInv, PanelsShowGame

-----------------------------------------------------------------------------
(* The tracker.  Once valid, its cache holds what was read for the panels that are *)
(* shown; and every value that two drawings show differently, of the lines that    *)
(* the elements stand for, was read from data that the tracker compares.           *)
TrackInv ==
  /\ missed = {} /\ "initialized" \in DOMAIN cache
  /\ cache.initialized => \E m : shown = render_full(game, m) /\ cache = Cached(game, m)

\* The six party slots, one by one.
LEMMA SlotsAre ==
  /\ Slots[1] = "PARTY_SLOT_0" /\ Slots[2] = "PARTY_SLOT_1" /\ Slots[3] = "PARTY_SLOT_2"
  /\ Slots[4] = "PARTY_SLOT_3" /\ Slots[5] = "PARTY_SLOT_4" /\ Slots[6] = "PARTY_SLOT_5"
  /\ DOMAIN Slots = 1..6
BY DEF Slots

\* What the panel on the left shows of the elements it has.
LEMMA LeftDrawn ==
  ASSUME NEW g \in Games, NEW m
  PROVE  LET l == render_full(g, m).left
             t == read_trainer(g, m)
             p == read_party(g, m)[1]
         IN  /\ l["map"][2] = read_location(g, m)[1] /\ l["badges"] = BitsOf(t.badges)
             /\ "kanto" \in DOMAIN l => l["kanto"] = BitsOf(t.badges_kanto)
             /\ "name" \in DOMAIN l \/ "level" \in DOMAIN l => p # NoPokemon
             /\ p # NoPokemon => l["name"] = <<p.species>> /\ l["level"] = <<p.level>>
<1> DEFINE s == left_items(g, m)
           l == Standing(left_sidebar, s)
           t == read_trainer(g, m)
           p == read_party(g, m)[1]
           v == <<read_map_group(g, m), read_location(g, m)[1]>>
<1>1. render_full(g, m).left = l
  BY DEF render_full
<1>2. /\ Fits(s) /\ Labelled(s, "map", v) /\ Labelled(s, "badges", BitsOf(t.badges))
      /\ generation(g) = 2 => Labelled(s, "kanto", BitsOf(t.badges_kanto))
      /\ generation(g) # 2 => "kanto" \notin Labels(s)
      /\ p = NoPokemon => "name" \notin Labels(s) /\ "level" \notin Labels(s)
      /\ p # NoPokemon => Labelled(s, "name", <<p.species>>) /\ Labelled(s, "level", <<p.level>>)
  BY LeftPanel
<1>3. v[2] = read_location(g, m)[1]
  OBVIOUS
<1> HIDE DEF s, t, p, v
<1>4. ASSUME NEW k, k # "" PROVE /\ k \notin Labels(s) => k \notin DOMAIN l
                                 /\ \A w : Labelled(s, k, w) => l[k] = w
  BY <1>2, <1>4, StandsAt
<1> HIDE DEF l
<1>5. "map" # "" /\ "badges" # "" /\ "kanto" # "" /\ "name" # "" /\ "level" # ""
  OBVIOUS
<1>6. l["map"] = v /\ l["badges"] = BitsOf(t.badges)
  BY <1>2, <1>4, <1>5
<1>7. "kanto" \in DOMAIN l => l["kanto"] = BitsOf(t.badges_kanto)
  BY <1>2, <1>4, <1>5
<1>8. /\ "name" \in DOMAIN l \/ "level" \in DOMAIN l => p # NoPokemon
      /\ p # NoPokemon => l["name"] = <<p.species>> /\ l["level"] = <<p.level>>
  BY <1>2, <1>4, <1>5
<1> QED BY <1>1, <1>3, <1>6, <1>7, <1>8 DEF t, p

\* What the panel on the right shows of them, which is nothing during a battle.
LEMMA RightDrawn ==
  ASSUME NEW g, NEW m
  PROVE  LET r == render_full(g, m).right
             t == read_trainer(g, m)
         IN  /\ "player" \in DOMAIN r => r["player"] = decode_text(t.name)
             /\ "money" \in DOMAIN r => r["money"] = <<t.money>>
<1> DEFINE s == IF in_battle(g, m) THEN battle_items(g, m) ELSE player_items(g, m)
           r == Standing(right_sidebar, s)
           t == read_trainer(g, m)
           n == decode_text(t.name)
           v == <<t.money>>
<1>1. render_full(g, m).right = r
  BY DEF render_full
<1>2. /\ Fits(battle_items(g, m)) /\ "player" \notin Labels(battle_items(g, m))
      /\ "money" \notin Labels(battle_items(g, m))
  BY BattlePanel
<1>3. /\ Fits(player_items(g, m)) /\ Labelled(player_items(g, m), "player", n)
      /\ Labelled(player_items(g, m), "money", v)
  BY PlayerPanel
<1>4. /\ Fits(s)
      /\ \/ "player" \notin Labels(s) /\ "money" \notin Labels(s)
         \/ Labelled(s, "player", n) /\ Labelled(s, "money", v)
  BY <1>2, <1>3
<1> HIDE DEF s, t, n, v
<1>5. ASSUME NEW k, k # "" PROVE /\ k \notin Labels(s) => k \notin DOMAIN r
                                 /\ \A w : Labelled(s, k, w) => r[k] = w
  BY <1>4, <1>5, StandsAt
<1> HIDE DEF r
<1>6. "player" # "" /\ "money" # ""
  OBVIOUS
<1> QED BY <1>1, <1>4, <1>5, <1>6 DEF t, n, v

\* A slot of the panel below: its bar changes with the HP, its level with the level, and
\* both when the Pokemon comes or goes.
BarPart(slot) == {<<i, slot[i]>> : i \in DOMAIN slot \ {3}}
LevelPart(slot) == {<<i, slot[i]>> : i \in DOMAIN slot \cap {3}}
SlotOf(p) == IF p = NoPokemon THEN <<>> ELSE Append(Bar(p.hp_current, p.hp_max), p.level)
LEMMA SlotDrawn ==
  ASSUME NEW p, NEW q
  PROVE  /\ BarPart(SlotOf(p)) # BarPart(SlotOf(q)) => hp_changed(CachedPokemon(p), CachedPokemon(q))
         /\ LevelPart(SlotOf(p)) # LevelPart(SlotOf(q)) => sidebar_changed(CachedPokemon(p), CachedPokemon(q))
<1>1. /\ p = NoPokemon => ~CachedPokemon(p).present
      /\ q = NoPokemon => ~CachedPokemon(q).present
  BY DEF CachedPokemon, EmptyCache
<1>2. /\ p # NoPokemon => /\ CachedPokemon(p).present = TRUE /\ CachedPokemon(p).level = p.level
                           /\ CachedPokemon(p).hp = <<p.hp_current, p.hp_max>>
      /\ q # NoPokemon => /\ CachedPokemon(q).present = TRUE /\ CachedPokemon(q).level = q.level
                           /\ CachedPokemon(q).hp = <<q.hp_current, q.hp_max>>
  BY DEF CachedPokemon
<1>3. CASE p = NoPokemon /\ q = NoPokemon
  BY <1>3
<1>4. CASE (p = NoPokemon) # (q = NoPokemon)
  BY <1>1, <1>2, <1>4 DEF hp_changed, sidebar_changed
<1>5. CASE p # NoPokemon /\ q # NoPokemon
  <2>1. \A y, z, v : /\ BarPart(Append(<<y, z>>, v)) = {<<1, y>>, <<2, z>>}
                     /\ LevelPart(Append(<<y, z>>, v)) = {<<3, v>>}
    <3> TAKE y, z, v
    <3> DEFINE a == Append(<<y, z>>, v)
    <3>1. DOMAIN a = {1, 2, 3} /\ a[1] = y /\ a[2] = z /\ a[3] = v
      OBVIOUS
    <3> HIDE DEF a
    <3>2. DOMAIN a \ {3} = {1, 2} /\ DOMAIN a \cap {3} = {3}
      BY <3>1
    <3> QED BY <3>1, <3>2, Zenon DEF BarPart, LevelPart, a
  <2>2. PICK y, z : Bar(p.hp_current, p.hp_max) = <<y, z>>
    BY DEF Bar
  <2>3. PICK u, w : Bar(q.hp_current, q.hp_max) = <<u, w>>
    BY DEF Bar
  <2>4. SlotOf(p) = Append(<<y, z>>, p.level) /\ SlotOf(q) = Append(<<u, w>>, q.level)
    BY <1>5, <2>2, <2>3, Zenon DEF SlotOf
  <2>5. /\ BarPart(SlotOf(p)) = {<<1, y>>, <<2, z>>} /\ BarPart(SlotOf(q)) = {<<1, u>>, <<2, w>>}
        /\ LevelPart(SlotOf(p)) = {<<3, p.level>>} /\ LevelPart(SlotOf(q)) = {<<3, q.level>>}
    <3>1. SlotOf(p) = Append(<<y, z>>, p.level)
      BY <2>4
    <3>2. SlotOf(q) = Append(<<u, w>>, q.level)
      BY <2>4
    <3> HIDE DEF BarPart, LevelPart, SlotOf
    <3>3. /\ BarPart(Append(<<y, z>>, p.level)) = {<<1, y>>, <<2, z>>}
          /\ LevelPart(Append(<<y, z>>, p.level)) = {<<3, p.level>>}
      BY <2>1
    <3>4. /\ BarPart(Append(<<u, w>>, q.level)) = {<<1, u>>, <<2, w>>}
          /\ LevelPart(Append(<<u, w>>, q.level)) = {<<3, q.level>>}
      BY <2>1
    <3> QED BY <3>1, <3>2, <3>3, <3>4
  <2>6. <<p.hp_current, p.hp_max>> = <<q.hp_current, q.hp_max>> => <<y, z>> = <<u, w>>
    BY <2>2, <2>3
  <2>7. BarPart(SlotOf(p)) # BarPart(SlotOf(q)) => <<p.hp_current, p.hp_max>> # <<q.hp_current, q.hp_max>>
    BY <2>5, <2>6
  <2>8. LevelPart(SlotOf(p)) # LevelPart(SlotOf(q)) => p.level # q.level
    BY <2>5
  <2> HIDE DEF BarPart, LevelPart, SlotOf
  <2> QED BY <1>2, <1>5, <2>7, <2>8 DEF hp_changed, sidebar_changed
<1> QED BY <1>3, <1>4, <1>5

\* What two drawings show differently is what the tracker finds changed between them.
LEMMA Covered ==
  ASSUME NEW g \in Games, NEW m, NEW n
  PROVE  Redrawn(render_full(g, m), render_full(g, n)) \subseteq Changed(Cached(g, m), Cached(g, n))
<1> DEFINE p == render_full(g, m)
           q == render_full(g, n)
           c == Cached(g, m)
           d == Cached(g, n)
           tm == read_trainer(g, m)
           tn == read_trainer(g, n)
           pm == read_party(g, m)
           pn == read_party(g, n)
<1>1. /\ c.trainer.name = tm.name /\ c.trainer.money = tm.money /\ c.trainer.badges = <<tm.badges, tm.badges_kanto>>
      /\ c.location = read_location(g, m) /\ \A i \in 1..6 : c.party[i] = CachedPokemon(pm[i])
  <2> HIDE DEF tm, pm
  <2> QED BY DEF Cached, tm, pm
<1>2. /\ d.trainer.name = tn.name /\ d.trainer.money = tn.money /\ d.trainer.badges = <<tn.badges, tn.badges_kanto>>
      /\ d.location = read_location(g, n) /\ \A i \in 1..6 : d.party[i] = CachedPokemon(pn[i])
  <2> HIDE DEF tn, pn
  <2> QED BY DEF Cached, tn, pn
<1>3. \A i \in 1..6 : p.bottom[i] = SlotOf(pm[i]) /\ q.bottom[i] = SlotOf(pn[i])
  <2>1. p.bottom = bottom_slots(g, m) /\ q.bottom = bottom_slots(g, n)
    BY DEF render_full
  <2>2. \A i \in 1..6 : bottom_slots(g, m)[i] = SlotOf(pm[i]) /\ bottom_slots(g, n)[i] = SlotOf(pn[i])
    BY Zenon DEF bottom_slots, SlotOf
  <2> HIDE DEF p, q, pm, pn
  <2> QED BY <2>1, <2>2
<1>4. /\ p.left["map"][2] = read_location(g, m)[1] /\ p.left["badges"] = BitsOf(tm.badges)
      /\ "kanto" \in DOMAIN p.left => p.left["kanto"] = BitsOf(tm.badges_kanto)
      /\ "name" \in DOMAIN p.left \/ "level" \in DOMAIN p.left => pm[1] # NoPokemon
      /\ pm[1] # NoPokemon => p.left["name"] = <<pm[1].species>> /\ p.left["level"] = <<pm[1].level>>
  BY LeftDrawn
<1>5. /\ q.left["map"][2] = read_location(g, n)[1] /\ q.left["badges"] = BitsOf(tn.badges)
      /\ "kanto" \in DOMAIN q.left => q.left["kanto"] = BitsOf(tn.badges_kanto)
      /\ "name" \in DOMAIN q.left \/ "level" \in DOMAIN q.left => pn[1] # NoPokemon
      /\ pn[1] # NoPokemon => q.left["name"] = <<pn[1].species>> /\ q.left["level"] = <<pn[1].level>>
  BY LeftDrawn
<1>6. /\ "player" \in DOMAIN p.right => p.right["player"] = decode_text(tm.name)
      /\ "money" \in DOMAIN p.right => p.right["money"] = <<tm.money>>
      /\ "player" \in DOMAIN q.right => q.right["player"] = decode_text(tn.name)
      /\ "money" \in DOMAIN q.right => q.right["money"] = <<tn.money>>
  BY RightDrawn
<1> HIDE DEF p, q, c, d, tm, tn, pm, pn
<1> DEFINE differ(a, b, label) == label \in DOMAIN a \cap DOMAIN b /\ a[label] # b[label]
           lead == differ(p.left, q.left, "name") \/ differ(p.left, q.left, "level")
<1>7. ASSUME NEW e \in Elements, e \notin ToSet(Slots), e \in Redrawn(p, q)
      PROVE  e \in Changed(c, d)
  <2>1. CASE e = "LOCATION"
    <3>1. p.left["map"][2] # q.left["map"][2]
      BY <1>7, <2>1 DEF Redrawn
    <3>2. c.location # d.location
      BY <1>1, <1>2, <1>4, <1>5, <3>1
    <3> QED BY <2>1, <3>2 DEF Changed, Elements
  <2>2. CASE e = "BADGES"
    <3>1. differ(p.left, q.left, "badges") \/ differ(p.left, q.left, "kanto")
      BY <1>7, <2>2 DEF Redrawn
    <3>2. tm.badges # tn.badges \/ tm.badges_kanto # tn.badges_kanto
      BY <1>4, <1>5, <3>1
    <3>3. c.trainer.badges # d.trainer.badges
      BY <1>1, <1>2, <3>2
    <3> QED BY <2>2, <3>3 DEF Changed, Elements
  <2>3. CASE e = "TRAINER_NAME"
    <3>1. differ(p.right, q.right, "player")
      BY <1>7, <2>3 DEF Redrawn
    <3>2. c.trainer.name # d.trainer.name
      BY <1>1, <1>2, <1>6, <3>1
    <3> QED BY <2>3, <3>2 DEF Changed, Elements
  <2>4. CASE e = "MONEY"
    <3>1. differ(p.right, q.right, "money")
      BY <1>7, <2>4 DEF Redrawn
    <3>2. c.trainer.money # d.trainer.money
      BY <1>1, <1>2, <1>6, <3>1
    <3> QED BY <2>4, <3>2 DEF Changed, Elements
  <2>5. CASE e = "BOTTOM_BAR"
    <3>1. PICK i \in 1..6 : BarPart(p.bottom[i]) # BarPart(q.bottom[i])
      BY <1>7, <2>5 DEF Redrawn, BarPart
    <3>2. hp_changed(CachedPokemon(pm[i]), CachedPokemon(pn[i]))
      BY <1>3, <3>1, SlotDrawn
    <3>3. hp_changed(c.party[i], d.party[i])
      BY <1>1, <1>2, <3>2
    <3> QED BY <2>5, <3>3 DEF Changed, Elements
  <2>6. CASE e \notin {"LOCATION", "BADGES", "TRAINER_NAME", "MONEY", "BOTTOM_BAR"}
    BY <1>7, <2>6 DEF Redrawn
  <2> QED BY <2>1, <2>2, <2>3, <2>4, <2>5, <2>6
<1>8. ASSUME NEW e \in ToSet(Slots), e \in Redrawn(p, q)
      PROVE  e \in Changed(c, d)
  <2>1. /\ e \in Elements
        /\ e \notin {"GAME_TITLE", "TRAINER_NAME", "MONEY", "POKEDEX", "BADGES", "PLAYTIME", "LOCATION",
                     "BOTTOM_BAR", "PARTY_HEADER"}
    <3>1. PICK i \in 1..6 : e = Slots[i]
      BY SlotsAre DEF ToSet
    <3>2. i \in {1, 2, 3, 4, 5, 6}
      OBVIOUS
    <3> QED BY <3>1, <3>2, SlotsAre DEF Elements
  <2>2. \/ \E i \in 1..6 : e = Slots[i] /\ LevelPart(p.bottom[i]) # LevelPart(q.bottom[i])
        \/ e = Slots[1] /\ lead
    BY <1>8, <2>1 DEF Redrawn, LevelPart
  <2>3. \E i \in 1..6 : e = Slots[i] /\ sidebar_changed(c.party[i], d.party[i])
    <3>1. CASE \E i \in 1..6 : e = Slots[i] /\ LevelPart(p.bottom[i]) # LevelPart(q.bottom[i])
      <4>1. PICK i \in 1..6 : e = Slots[i] /\ LevelPart(p.bottom[i]) # LevelPart(q.bottom[i])
        BY <3>1
      <4>2. sidebar_changed(CachedPokemon(pm[i]), CachedPokemon(pn[i]))
        BY <1>3, <4>1, SlotDrawn
      <4> QED BY <1>1, <1>2, <4>1, <4>2
    <3>2. CASE e = Slots[1] /\ lead
      <4>1. pm[1] # NoPokemon /\ pn[1] # NoPokemon
        BY <1>4, <1>5, <3>2
      <4>2. pm[1].species # pn[1].species \/ pm[1].level # pn[1].level
        BY <1>4, <1>5, <3>2, <4>1
      <4>3. /\ CachedPokemon(pm[1]).species = pm[1].species /\ CachedPokemon(pm[1]).level = pm[1].level
            /\ CachedPokemon(pn[1]).species = pn[1].species /\ CachedPokemon(pn[1]).level = pn[1].level
        BY <4>1 DEF CachedPokemon
      <4>4. 1 \in 1..6
        OBVIOUS
      <4>5. sidebar_changed(c.party[1], d.party[1])
        BY <1>1, <1>2, <4>2, <4>3, <4>4 DEF sidebar_changed
      <4> QED BY <3>2, <4>4, <4>5
    <3> QED BY <2>2, <3>1, <3>2
  <2> QED BY <2>1, <2>3 DEF Changed
<1>9. Redrawn(p, q) \subseteq Elements
  BY DEF Redrawn
<1>10. Redrawn(p, q) \subseteq Changed(c, d)
  BY <1>7, <1>8, <1>9
<1> QED BY <1>10 DEF p, q, c, d

\* Nothing is cached before the first frame.
LEMMA TrackInitInv == ASSUME NEW T, OverlayInit(T) PROVE TrackInv
BY DEF TrackInv, OverlayInit, EmptyCache

\* A frame is compared with the one its cache was taken from; after invalidate_all
\* everything is dirty.
LEMMA TrackStep == TrackInv /\ PanelInv /\ OverlayNext => TrackInv'
<1> SUFFICES ASSUME TrackInv, PanelInv, OverlayNext PROVE TrackInv'
  OBVIOUS
<1>1. CASE UNCHANGED <<game, shown, cache, missed>>
  BY <1>1 DEF TrackInv
<1>2. CASE Render
  <2> DEFINE m == Peeked
             d == Cached(game, m)
             panels == render_full(game, m)
  <2>1. game \in Games /\ game' = game /\ shown' = panels /\ cache' = d
        /\ missed' = IF seen.drawn THEN Redrawn(shown, panels) \ Dirty(cache, d) ELSE {}
    BY <1>2 DEF Render, PanelInv, Updated
  <2>2. "initialized" \in DOMAIN d
    BY DEF Cached
  <2>3. Redrawn(shown, panels) \subseteq Dirty(cache, d)
    <3>1. CASE cache.initialized
      <4>1. PICK k : shown = render_full(game, k) /\ cache = Cached(game, k)
        BY <3>1 DEF TrackInv
      <4>2. Redrawn(shown, panels) \subseteq Changed(cache, d)
        BY <2>1, <4>1, Covered
      <4> HIDE DEF panels, d
      <4> QED BY <3>1, <4>2 DEF Dirty
    <3>2. CASE ~cache.initialized
      <4>1. Redrawn(shown, panels) \subseteq Elements
        BY DEF Redrawn
      <4> HIDE DEF panels, d
      <4> QED BY <3>2, <4>1 DEF Dirty
    <3> QED BY <3>1, <3>2
  <2> HIDE DEF d, panels
  <2>4. missed' = {}
    BY <2>1, <2>3
  <2>5. \E k : panels = render_full(game, k) /\ d = Cached(game, k)
    BY DEF panels, d
  <2> QED BY <2>1, <2>2, <2>4, <2>5 DEF TrackInv
<1>3. CASE Invalidate
  <2>1. cache' = [cache EXCEPT !.initialized = FALSE] /\ missed' = missed
    BY <1>3 DEF Invalidate
  <2>2. "initialized" \in DOMAIN cache' /\ cache'.initialized = FALSE
    BY <2>1 DEF TrackInv
  <2> QED BY <2>1, <2>2 DEF TrackInv
<1> QED BY <1>1, <1>2, <1>3 DEF OverlayNext, Play, SelectBank

\* A step of another component leaves the tracker alone.
LEMMA TrackKept == TrackInv /\ UNCHANGED overlayVars => TrackInv'
BY DEF TrackInv, overlayVars

-----------------------------------------------------------------------------
(* The services together: each step is a step of one of them.                    *)

ServicesInv == ListInv /\ HeapInv /\ PagesInv /\ SchedInv /\ PointInv /\ ChainInv /\ TrackInv /\ PanelInv

\* The maps a behaviour starts from are among the constant's.
LEMMA GivenMaps == Given("memory", Maps) \subseteq Maps
BY MemAssumption DEF Given

\* The chains a behaviour starts from are among the constant's.
LEMMA GivenBuilt == Given("chains", Built) \subseteq Built
BY BuiltAssumption DEF Given

\* No block is allocated from the heap as it starts.
LEMMA HeapInitInv ==
  ASSUME NEW maps, MemInit(maps)
  PROVE  HeapInv
BY MemAssumption DEF MemInit, HeapInv

\* Every initial state of the services satisfies the eight invariants.
LEMMA ServicesInitInv == Init => ServicesInv
BY ListInitInv, GivenMaps, PagesInitInv, HeapInitInv, SchedInitInv, PointInitInv, GivenBuilt, ChainInitInv,
   TrackInitInv, PanelInitInv
   DEF Init, ServicesInv

\* A step of another component leaves the list's invariant alone.
LEMMA ListKept == ListInv /\ UNCHANGED listVars => ListInv'
BY DEF ListInv, listVars, Apart

\* A step of another component leaves both memory invariants alone.
LEMMA MemKept == HeapInv /\ PagesInv /\ UNCHANGED memVars => HeapInv' /\ PagesInv'
<1> SUFFICES ASSUME HeapInv, PagesInv, UNCHANGED memVars PROVE HeapInv' /\ PagesInv'
  OBVIOUS
<1>1. e820' = e820 /\ pmm' = pmm /\ memory_info' = memory_info /\ next' = next /\ held' = held /\ blocks' = blocks
  BY DEF memVars
<1>2. Usable' = Usable
  BY <1>1 DEF Usable, Whole, UsableEntries
<1> QED BY <1>1, <1>2 DEF HeapInv, PagesInv

\* Every step of the services, and every stutter, keeps the eight invariants.
LEMMA ServicesStep == ServicesInv /\ [Next]_vars => ServicesInv'
<1> SUFFICES ASSUME ServicesInv, [Next]_vars PROVE ServicesInv'
  OBVIOUS
<1>1. ListNext \/ UNCHANGED listVars
  BY DEF Next, vars
<1>2. MemNext \/ UNCHANGED memVars
  BY DEF Next, vars
<1>3. SchedNext \/ UNCHANGED schedVars
  BY DEF Next, vars
<1>4. ListInv'
  BY <1>1, ListStep, ListKept DEF ServicesInv
<1>5. HeapInv' /\ PagesInv'
  BY <1>2, HeapStep, PagesStep, MemKept DEF ServicesInv
<1>6. SchedInv'
  BY <1>3, SchedStep, SchedKept DEF ServicesInv
<1>7. PointNext \/ UNCHANGED pointVars
  BY DEF Next, vars
<1>8. PointInv'
  BY <1>7, PointStep, PointKept DEF ServicesInv
<1>9. ChainNext \/ UNCHANGED chainVars
  BY DEF Next, vars
<1>10. ChainInv'
  BY <1>9, ChainStep, ChainKept DEF ServicesInv
<1>11. OverlayNext \/ UNCHANGED overlayVars
  BY DEF Next, vars
<1>12. TrackInv'
  BY <1>11, TrackStep, TrackKept DEF ServicesInv
<1>13. PanelInv'
  BY <1>11, PanelStep, PanelKept DEF ServicesInv
<1> QED BY <1>4, <1>5, <1>6, <1>8, <1>10, <1>12, <1>13 DEF ServicesInv

(* Whatever the map, the requests and the order of the operations: a list is what was put in it, *)
(* alloc_page hands out no page that a caller still holds, and the blocks of the heap are apart. *)
(* A page and a block may be the same memory (pmm.rs:207-214).                                   *)
THEOREM Owned == Spec => []HandedOutOnce
<1>1. ServicesInv => HandedOutOnce
  BY ListInvExact, PagesInvExact, HeapInvExact DEF ServicesInv, HandedOutOnce
<1> QED BY <1>1, ServicesInitInv, ServicesStep, PTL DEF Spec

(* Whatever the tasks and their priorities, each is where its state says, once. *)
THEOREM QueuedOnce == Spec => []QueuesExact
<1>1. ServicesInv => QueuesExact
  BY SchedInvExact DEF ServicesInv
<1> QED BY <1>1, ServicesInitInv, ServicesStep, PTL DEF Spec

(* Whatever packets the device sends, wherever a byte of them is lost and whenever an answer *)
(* comes late: each such event tears one packet at most; and while no answer comes late, each *)
(* byte lost leaves one packet at most unread of those that arrive whole (process_byte).      *)
THEOREM Torn == Spec => []OneTornPacket
<1>1. ServicesInv => OneTornPacket
  BY PointInvTorn DEF ServicesInv
<1> QED BY <1>1, ServicesInitInv, ServicesStep, PTL DEF Spec

(* Whatever chain a caller builds, static ones of any length among them, and whichever      *)
(* handlers fail: the report names the first MaxFailures events that never succeeded, in     *)
(* order, and the promises of the execution modes, the system calls and the drivers' chain hold. *)
THEOREM Delivered == Spec => []ChainsDeliver
<1>1. ServicesInv => ChainsDeliver
  BY ChainInvDelivers DEF ServicesInv
<1> QED BY <1>1, ServicesInitInv, ServicesStep, PTL DEF Spec

(* Whatever the game and its data, and the order of play, bank switches, frames and calls of *)
(* invalidate_all: a frame that is drawn with bank 1 selected shows the data of the game      *)
(* where each line is due, none of it lost under another panel; and where it shows another    *)
(* map number, badge, name, sum of money, species or level of the lead, bar or level of a     *)
(* slot than the frame before, compare_and_update calls the element dirty.                     *)
THEOREM Follows == Spec => []OverlayFollowsGame
<1>1. ServicesInv => OverlayFollowsGame
  BY DEF ServicesInv, PanelInv, TrackInv, ChangesAreDirty, OverlayFollowsGame
<1> QED BY <1>1, ServicesInitInv, ServicesStep, PTL DEF Spec
=============================================================================
