---------------------------- MODULE IntrusiveList ----------------------------
(***************************************************************************)
(* The doubly linked lists of mm/intrusive.rs.  A list is its ends and a   *)
(* count; the links are fields of the elements, so the operations take and *)
(* return both: x.list and x.links.  No operation checks that an element   *)
(* is free to be linked (debug_assert! is not compiled into a release).    *)
(***************************************************************************)
EXTENDS Naturals, Sequences

CONSTANT None   \* Option::None

Unlinked  == [next |-> None, prev |-> None]
EmptyList == [head |-> None, tail |-> None, len |-> 0]

is_linked(links, n) == links[n].next # None \/ links[n].prev # None
is_empty(list) == list.head = None

\* The field of a neighbour, where there is one.
SetPrev(links, n, m) == IF n = None THEN links ELSE [links EXCEPT ![n].prev = m]
SetNext(links, n, m) == IF n = None THEN links ELSE [links EXCEPT ![n].next = m]
-----------------------------------------------------------------------------
push_front(list, links, n) ==
  [list  |-> [head |-> n, tail |-> IF is_empty(list) THEN n ELSE list.tail, len |-> list.len + 1],
   links |-> SetPrev([links EXCEPT ![n] = [next |-> list.head, prev |-> None]], list.head, n)]

push_back(list, links, n) ==
  [list  |-> [head |-> IF list.tail = None THEN n ELSE list.head, tail |-> n, len |-> list.len + 1],
   links |-> SetNext([links EXCEPT ![n] = [next |-> None, prev |-> list.tail]], list.tail, n)]

\* pop_front and pop_back of a list that is not empty; the element is the old end.
\* Mutant: the new first element keeps its pointer to the one that left.
pop_front_stale(list, links) ==
  LET rest == links[list.head].next
  IN  [list  |-> [head |-> rest, tail |-> IF rest = None THEN None ELSE list.tail, len |-> list.len - 1],
       links |-> [links EXCEPT ![list.head] = Unlinked]]
pop_front(list, links) ==
  LET rest == links[list.head].next
  IN  [list  |-> [head |-> rest, tail |-> IF rest = None THEN None ELSE list.tail, len |-> list.len - 1],
       links |-> [SetPrev(links, rest, None) EXCEPT ![list.head] = Unlinked]]

pop_back(list, links) ==
  LET rest == links[list.tail].prev
  IN  [list  |-> [head |-> IF rest = None THEN None ELSE list.head, tail |-> rest, len |-> list.len - 1],
       links |-> [SetNext(links, rest, None) EXCEPT ![list.tail] = Unlinked]]

remove(list, links, n) ==
  LET before == links[n].prev
      after  == links[n].next
  IN  [list  |-> [head |-> IF before = None THEN after ELSE list.head,
                  tail |-> IF after = None THEN before ELSE list.tail, len |-> list.len - 1],
       links |-> [SetPrev(SetNext(links, before, after), after, before) EXCEPT ![n] = Unlinked]]
-----------------------------------------------------------------------------
\* Following next from the head, for at most bound elements.
Walked(list, links, bound) ==
  LET nth[i \in 1..bound] == IF i = 1 THEN list.head
                             ELSE IF nth[i - 1] = None THEN None ELSE links[nth[i - 1]].next
  IN  [i \in {j \in 1..bound : nth[j] # None} |-> nth[i]]

\* The neighbours of s[i].
After(s, i)  == IF i = Len(s) THEN None ELSE s[i + 1]
Before(s, i) == IF i = 1 THEN None ELSE s[i - 1]

(* The list s from either end, which is what it is for whoever walks it. *)
IsList(list, links, s) ==
  /\ list.len = Len(s)
  /\ IF s = <<>> THEN list.head = None /\ list.tail = None
     ELSE list.head = s[1] /\ list.tail = s[Len(s)]
  /\ \A i \in DOMAIN s : links[s[i]] = [next |-> After(s, i), prev |-> Before(s, i)]
=============================================================================
