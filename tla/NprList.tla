------------------------------ MODULE NprList ------------------------------
(***************************************************************************)
(* Linked lists (npr/list.c).  A singly linked list keeps the address of   *)
(* the link to hang the next element on: that of its last element, or its  *)
(* own head.  A doubly linked list has both sentinels in itself and takes  *)
(* its elements from a chunk allocator.                                    *)
(***************************************************************************)
EXTENDS CHeap, NprChunkAlloc

CONSTANTS HeadLink, Head0, Tail0  \* &l->head; &l->head and &l->tail of a dlist

(* These lie in the list itself, apart from blocks and elements.           *)
ASSUME ListAssumption ==
  /\ HeadLink \notin Addr /\ Head0 # Tail0
  /\ Head0 \notin Nat \X Nat /\ Tail0 \notin Nat \X Nat

singly_list_init == [head |-> Null, tail_chain |-> HeadLink, elem |-> [e \in {} |-> Null]]

Elem(chain, value) == [chain |-> chain, value |-> value]

(* Mutant: a list that was empty keeps its tail link.                      *)
BugTailAfterHead(l, e) == l.tail_chain

TailAfterHead(l, e) == IF l.head = Null THEN e ELSE l.tail_chain

push_head(l, e, ptr) ==
  [head |-> e,
   tail_chain |-> TailAfterHead(l, e),
   elem |-> With(l.elem, e, Elem(l.head, ptr))]

push_tail(l, e, ptr) ==
  LET elem == With(l.elem, e, Elem(Null, ptr))
  IN  IF l.tail_chain = HeadLink
      THEN [head |-> e, tail_chain |-> e, elem |-> elem]
      ELSE [head |-> l.head, tail_chain |-> e,
            elem |-> [elem EXCEPT ![l.tail_chain].chain = e]]

(* The elements in the order FOR_EACH visits them, n at most.              *)
Follow(link, first, end, n) ==
  LET after[i \in 0 .. n] ==
        IF i = 0 THEN first
        ELSE IF after[i - 1] = end THEN end ELSE link[after[i - 1]]
      over == {i \in 0 .. n : after[i] = end}
  IN  [i \in 1 .. (IF over = {} THEN n ELSE Min(over)) |-> after[i - 1]]

Visited(l) ==
  Follow([e \in DOMAIN l.elem |-> l.elem[e].chain], l.head, Null,
         Cardinality(DOMAIN l.elem))

(* The value an element carries is the client's and stays with it.         *)
dlist_init ==
  [next |-> [e \in {Head0} |-> Tail0], prev |-> [e \in {Tail0} |-> Head0]]

dlist_push_back(l, e) ==
  LET last == l.prev[Tail0]
  IN  [next |-> With(With(l.next, e, Tail0), last, e),
       prev |-> With(With(l.prev, e, last), Tail0, e)]

Without(f, e) == Restrict(f, DOMAIN f \ {e})

dlist_remove(l, e) ==
  [next |-> Without(With(l.next, l.prev[e], l.next[e]), e),
   prev |-> Without(With(l.prev, l.next[e], l.prev[e]), e)]

DElems(l) == DOMAIN l.next \ {Head0}
DVisited(l) == Follow(l.next, l.next[Head0], Tail0, Cardinality(DElems(l)))
=============================================================================
