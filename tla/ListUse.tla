------------------------------- MODULE ListUse -------------------------------
(***************************************************************************)
(* A caller of mm/intrusive.rs that keeps the contract of every operation: *)
(* it links an element that is in no list and removes one that is in this. *)
(***************************************************************************)
EXTENDS IntrusiveList, SequencesExt

CONSTANT Elems      \* elements that may be linked

ASSUME ListAssumption == None \notin Elems

VARIABLES
  lst, link,        \* the list and the elements' nodes
  content           \* history: the elements in order

listVars == <<lst, link, content>>

ListInit ==
  /\ lst = EmptyList
  /\ link = [n \in Elems |-> Unlinked]
  /\ content = <<>>

Became(x) == lst' = x.list /\ link' = x.links
In(n) == \E i \in DOMAIN content : content[i] = n

PushFront(n) == ~In(n) /\ Became(push_front(lst, link, n)) /\ content' = <<n>> \o content
PushBack(n)  == ~In(n) /\ Became(push_back(lst, link, n)) /\ content' = Append(content, n)

\* `self.head?`: an empty list gives nothing.
PopFront == ~is_empty(lst) /\ Became(pop_front(lst, link)) /\ content' = Tail(content)
PopBack  == ~is_empty(lst) /\ Became(pop_back(lst, link)) /\ content' = SubSeq(content, 1, Len(content) - 1)

RemoveElem(i) == Became(remove(lst, link, content[i])) /\ content' = RemoveAt(content, i)

ListNext ==
  \/ PopFront
  \/ PopBack
  \/ \E n \in Elems : PushFront(n) \/ PushBack(n)
  \/ \E i \in DOMAIN content : RemoveElem(i)

\* The list holds what was put in, in order from either end, and nobody else is linked.
ListExact ==
  /\ IsList(lst, link, content)
  /\ \A n \in Elems : ~In(n) => ~is_linked(link, n)
=============================================================================
