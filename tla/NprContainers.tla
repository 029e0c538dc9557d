--------------------------- MODULE NprContainers ---------------------------
(***************************************************************************)
(* The npr containers on one heap.  One container is open at a time; what  *)
(* it gave back stays in the client's hand, and what it freed may be the   *)
(* next one's storage.                                                     *)
(***************************************************************************)
EXTENDS NprVarray, NprStrbuf, NprList, NprSymbol

CONSTANTS
  Values,     \* elements of arrays, characters of texts
  Names,      \* strings to intern
  ChainSize,  \* first size of the arrays of a free chain (16)
  MaxLen,     \* bound: elements or characters in a container
  MaxSize,    \* bound: sizes arrays are made with or resized to
  MaxHand     \* bound: blocks the client mallocs for itself

ASSUME ContainersAssumption ==
  /\ hash \in [Names -> Nat]
  /\ ChainSize \in Nat /\ MaxSize \in Nat

VARIABLES
  hand,   \* blocks that belong to the client
  kind,   \* which container is open
  c,      \* the container
  asked,  \* history: what the client put into it, in order
  init    \* npr_symbol_init's static flag

vars == <<live, top, chunks, hand, kind, c, asked, init>>

Nothing == <<>>
Texts == UNION {[1 .. n -> Values] : n \in 0 .. 2}

Becomes(k, container, contents) == kind' = k /\ c' = container /\ asked' = contents

(* The container's storage, now at old, moves to at.                       *)
Moves(old, at) == live' = Reallocated(old, at)
Places(grows, old) == IF grows THEN Moved(old) ELSE {old}

Frees(blocks) == live' = live \ ToSet(blocks)
Closed == Becomes("none", Nothing, <<>>)

Init ==
  /\ live = {} /\ hand = {} /\ top = <<>> /\ chunks = 0
  /\ kind = "none" /\ c = Nothing /\ asked = <<>> /\ init = FALSE

(* --- the client's own blocks ------------------------------------------- *)

ClientMalloc ==
  /\ kind \in {"none", "list", "chain"}
  /\ Cardinality(hand) < MaxHand
  /\ \E p \in Fresh : hand' = hand \cup {p} /\ live' = live \cup {p}
  /\ UNCHANGED <<chunk_vars, kind, c, asked, init>>

ClientFree ==
  /\ \E p \in hand : hand' = hand \ {p} /\ live' = live \ {p}
  /\ UNCHANGED <<chunk_vars, kind, c, asked, init>>

(* --- arrays ------------------------------------------------------------ *)

ArrayInit ==
  /\ kind = "none"
  /\ \E n \in 0 .. MaxSize, at \in Fresh \cup {InPool} :
       Becomes("array", varray_init(n, at), <<>>) /\ Moves(Null, at)
  /\ UNCHANGED <<chunk_vars, hand, init>>

(* An array of size 0 doubles to 0, so the client must not push to it.     *)
CanPush(a) == a.nelem < MaxLen /\ a.size > 0

ArrayPush ==
  /\ kind = "array" /\ CanPush(c)
  /\ \E e \in Values, at \in Places(Full(c), c.at) :
       Becomes("array", VA_PUSH(c, e, at), Append(asked, e)) /\ Moves(c.at, at)
  /\ UNCHANGED <<chunk_vars, hand, init>>

ArrayPop ==
  /\ kind = "array" /\ c.nelem > 0
  /\ Becomes("array", VA_POP(c), Front(asked))
  /\ UNCHANGED <<live, chunk_vars, hand, init>>

(* The elements a larger nelem adds are whatever the storage holds.        *)
ArrayResize ==
  /\ kind = "array"
  /\ \E n \in 0 .. MaxSize :
       \E at \in Places(ResizeGrows(c, n), c.at) :
         LET a == varray_resize(c, n, at)
         IN  /\ Becomes("array", a, [i \in 1 .. n |-> IF i <= Len(asked) THEN asked[i] ELSE a.cells[i]])
             /\ Moves(c.at, at)
  /\ UNCHANGED <<chunk_vars, hand, init>>

(* _malloc_copy, and _malloc_close when the array goes with it.            *)
ArrayCopy ==
  /\ kind = "array" /\ Cardinality(hand) < MaxHand
  /\ \E p \in Fresh :
       /\ hand' = hand \cup {p}
       /\ \/ live' = live \cup {p} /\ UNCHANGED <<kind, c, asked>>
          \/ c.at \in Addr /\ live' = (live \cup {p}) \ {c.at} /\ Closed
  /\ UNCHANGED <<chunk_vars, init>>

(* _discard and _close; an array in a pool is left to the pool.            *)
ArrayDiscard ==
  /\ kind = "array"
  /\ Frees(<<c.at>>) /\ Closed
  /\ UNCHANGED <<chunk_vars, hand, init>>

(* --- string buffer ----------------------------------------------------- *)

StrbufInit ==
  /\ kind = "none"
  /\ Becomes("strbuf", strbuf_init, <<>>)
  /\ UNCHANGED <<live, chunk_vars, hand, init>>

StrbufPuts ==
  /\ kind = "strbuf"
  /\ \E s \in Texts :
       /\ c.cur + Len(s) <= MaxLen
       /\ \E at \in Places(Grows(c, Len(s)), c.at) :
            Becomes("strbuf", strbuf_puts(c, s, at), asked \o s) /\ Moves(c.at, at)
  /\ UNCHANGED <<chunk_vars, hand, init>>

StrbufPrintf ==
  /\ kind = "strbuf"
  /\ \E s \in Texts :
       /\ c.cur + Len(s) <= MaxLen
       /\ \E at \in Places(PrintGrows(c, s), c.at) :
            Becomes("strbuf", strbuf_vprintf(c, s, at), asked \o s) /\ Moves(c.at, at)
  /\ UNCHANGED <<chunk_vars, hand, init>>

StrbufCStr ==
  /\ kind = "strbuf"
  /\ \E at \in Places(Grows(c, 1), c.at) :
       Becomes("strbuf", strbuf_c_str(c, at), asked) /\ Moves(c.at, at)
  /\ UNCHANGED <<chunk_vars, hand, init>>

StrbufStrdup ==
  /\ kind = "strbuf" /\ Cardinality(hand) < MaxHand
  /\ \E p \in Fresh : hand' = hand \cup {p} /\ live' = live \cup {p}
  /\ UNCHANGED <<chunk_vars, kind, c, asked, init>>

StrbufFini ==
  /\ kind = "strbuf"
  /\ Frees(<<c.at>>) /\ Closed
  /\ UNCHANGED <<chunk_vars, hand, init>>

(* --- free chain -------------------------------------------------------- *)

(* A destructor frees the block it was registered with; a block is         *)
(* registered once, as a pointer to free or with a destructor.             *)
ChainInit ==
  /\ kind = "none"
  /\ \E f, d \in Fresh :
       /\ f # d
       /\ Becomes("chain", [frees |-> varray_init(ChainSize, f), dtors |-> varray_init(ChainSize, d)], <<>>)
       /\ live' = live \cup {f, d}
  /\ UNCHANGED <<chunk_vars, hand, init>>

ChainAppend ==
  /\ kind = "chain" /\ CanPush(c.frees)
  /\ \E p \in hand, at \in Places(Full(c.frees), c.frees.at) :
       /\ hand' = hand \ {p}
       /\ Becomes("chain", [c EXCEPT !.frees = VA_PUSH(@, p, at)], asked)
       /\ Moves(c.frees.at, at)
  /\ UNCHANGED <<chunk_vars, init>>

ChainAppendMalloc ==
  /\ kind = "chain" /\ CanPush(c.frees)
  /\ \E p \in Fresh :
       \E at \in Places(Full(c.frees), c.frees.at) \ {p} :
         /\ Becomes("chain", [c EXCEPT !.frees = VA_PUSH(@, p, at)], asked)
         /\ live' = Reallocated(c.frees.at, at) \cup {p}
  /\ UNCHANGED <<chunk_vars, hand, init>>

ChainAppendDtor ==
  /\ kind = "chain" /\ CanPush(c.dtors)
  /\ \E p \in hand, at \in Places(Full(c.dtors), c.dtors.at) :
       /\ hand' = hand \ {p}
       /\ Becomes("chain", [c EXCEPT !.dtors = VA_PUSH(@, p, at)], asked)
       /\ Moves(c.dtors.at, at)
  /\ UNCHANGED <<chunk_vars, init>>

Registered(fc) == VaElements(fc.frees) \o VaElements(fc.dtors)

(* Mutant: the array of destructors is not discarded.                      *)
BugChainBlocks(fc) == VaElements(fc.frees) \o <<fc.frees.at>> \o VaElements(fc.dtors)

ChainBlocks(fc) ==
  VaElements(fc.frees) \o <<fc.frees.at>> \o VaElements(fc.dtors) \o <<fc.dtors.at>>

ChainFreeAll ==
  /\ kind = "chain"
  /\ Frees(ChainBlocks(c)) /\ Closed
  /\ UNCHANGED <<chunk_vars, hand, init>>

ChainClose ==
  /\ kind = "chain"
  /\ Frees(<<c.frees.at, c.dtors.at>>) /\ Closed
  /\ hand' = hand \cup ToSet(Registered(c))
  /\ UNCHANGED <<chunk_vars, init>>

(* --- singly linked list ------------------------------------------------ *)

ListInit ==
  /\ kind = "none"
  /\ Becomes("list", singly_list_init, <<>>)
  /\ UNCHANGED <<live, chunk_vars, hand, init>>

ListPush ==
  /\ kind = "list"
  /\ \E p \in hand, e \in Fresh :
       /\ \/ Becomes("list", push_head(c, e, p), <<p>> \o asked)
          \/ Becomes("list", push_tail(c, e, p), Append(asked, p))
       /\ live' = live \cup {e}
       /\ hand' = hand \ {p}
  /\ UNCHANGED <<chunk_vars, init>>

ListFini ==
  /\ kind = "list"
  /\ LET es == Visited(c)
         values == [i \in DOMAIN es |-> c.elem[es[i]].value]
     IN  \/ Frees(values \o es) /\ UNCHANGED hand
         \/ Frees(es) /\ hand' = hand \cup ToSet(values)
  /\ Closed
  /\ UNCHANGED <<chunk_vars, init>>

(* --- doubly linked list ------------------------------------------------ *)

DlistInit ==
  /\ kind = "none"
  /\ OneChunk /\ Becomes("dlist", dlist_init, <<>>)
  /\ UNCHANGED <<live, hand, init>>

DlistPush ==
  /\ kind = "dlist" /\ Len(asked) < MaxLen
  /\ Take /\ Becomes("dlist", dlist_push_back(c, Taken), Append(asked, Taken))
  /\ UNCHANGED <<live, hand, init>>

Gone(e) == RemoveAt(asked, CHOOSE i \in DOMAIN asked : asked[i] = e)

DlistRemove ==
  /\ kind = "dlist"
  /\ \E e \in DElems(c) :
       /\ Becomes("dlist", dlist_remove(c, e), Gone(e))
       /\ Release(<<e>>)
  /\ UNCHANGED <<live, hand, init>>

DlistFini ==
  /\ kind = "dlist"
  /\ NoChunk /\ Closed
  /\ UNCHANGED <<live, hand, init>>

(* --- symbols ----------------------------------------------------------- *)

(* The flag is never reset: what follows a finish is not modelled.         *)
SymbolInit ==
  /\ kind = "none" /\ ~init /\ init' = TRUE
  /\ \E at \in Fresh : Becomes("symbols", EmptyTable(at), [s \in {} |-> Null]) /\ live' = live \cup {at}
  /\ UNCHANGED <<chunk_vars, hand>>

(* A name that has a symbol gets it; the history keeps the symbol each     *)
(* name was first given.                                                   *)
Intern ==
  /\ kind = "symbols"
  /\ \E s \in Names :
       \/ Matches(c, s) # {} /\ UNCHANGED <<live, kind, c, asked>>
       \/ /\ Matches(c, s) = {}
          /\ \E sym \in Fresh :
               /\ Becomes("symbols", Created(c, s, sym), With(asked, s, sym))
               /\ live' = live \cup {sym}
  /\ UNCHANGED <<chunk_vars, hand, init>>

SymbolFinish ==
  /\ kind = "symbols"
  /\ Frees(TableBlocks(c)) /\ Closed
  /\ UNCHANGED <<chunk_vars, hand, init>>

Next ==
  \/ ClientMalloc \/ ClientFree
  \/ ArrayInit \/ ArrayPush \/ ArrayPop \/ ArrayResize \/ ArrayCopy \/ ArrayDiscard
  \/ StrbufInit \/ StrbufPuts \/ StrbufPrintf \/ StrbufCStr \/ StrbufStrdup \/ StrbufFini
  \/ ChainInit \/ ChainAppend \/ ChainAppendMalloc \/ ChainAppendDtor \/ ChainFreeAll \/ ChainClose
  \/ ListInit \/ ListPush \/ ListFini
  \/ DlistInit \/ DlistPush \/ DlistRemove \/ DlistFini
  \/ SymbolInit \/ Intern \/ SymbolFinish

Spec == Init /\ [][Next]_vars
-----------------------------------------------------------------------------
Arrays == CASE kind = "array" -> {c} [] kind = "chain" -> {c.frees, c.dtors} [] OTHER -> {}

(* The blocks the open container has to free, once each.                   *)
ContainerBlocks ==
  CASE kind = "array"   -> IF c.at = InPool THEN <<>> ELSE <<c.at>>
    [] kind = "strbuf"  -> IF c.at = Null THEN <<>> ELSE <<c.at>>
    [] kind = "chain"   -> <<c.frees.at, c.dtors.at>> \o Registered(c)
    [] kind = "list"    -> SetToSeq(DOMAIN c.elem) \o asked
    [] kind = "symbols" -> <<c.at>> \o SetToSeq(DOMAIN c.symstr)
    [] OTHER            -> <<>>

(* Every block malloc'ed and not freed belongs to the client or to the     *)
(* open container, and to one place of it only: nothing leaks over the     *)
(* life of a container and nothing will be freed twice; the elements of a  *)
(* doubly linked list and its allocator's free list share out its chunks.  *)
Owned ==
  /\ IsInjective(ContainerBlocks)
  /\ ToSet(ContainerBlocks) \cap hand = {}
  /\ live = hand \cup ToSet(ContainerBlocks)
  /\ Accounted(IF kind = "dlist" THEN DElems(c) ELSE {})

(* Nothing was written behind the end of an array's or a buffer's storage, *)
(* terminators included, and what is in use lies inside it.                *)
WithinCapacity ==
  /\ \A a \in Arrays : a.nelem <= a.size /\ DOMAIN a.cells = 1 .. a.size
  /\ kind = "strbuf" => c.cur <= c.buflen /\ DOMAIN c.buf = 1 .. c.buflen

(* An array, a text or a list holds what the client put into it, in order, *)
(* through every growth and every removal.                                 *)
ContentsAsAsked ==
  CASE kind = "array"  -> VaElements(c) = asked
    [] kind = "strbuf" -> Text(c) = asked
    [] kind = "list"   -> [i \in DOMAIN Visited(c) |-> c.elem[Visited(c)[i]].value] = asked
    [] kind = "dlist"  -> DVisited(c) = asked
    [] OTHER           -> TRUE

(* The links agree: a singly linked list's tail link is that of the last   *)
(* element the head reaches, or the head itself, and every element of a    *)
(* doubly linked one is its successor's predecessor.                       *)
Linked ==
  CASE kind = "list"  -> /\ ToSet(Visited(c)) = DOMAIN c.elem
                         /\ c.tail_chain = (IF c.head = Null THEN HeadLink ELSE Last(Visited(c)))
    [] kind = "dlist" -> \A e \in DOMAIN c.next : c.prev[c.next[e]] = e
    [] OTHER          -> TRUE

(* A name interned once is found for ever as the symbol it was given       *)
(* first, and as no other: symbols can be compared instead of names.       *)
SameSymbol ==
  kind = "symbols" =>
    \A s \in Names : Matches(c, s) = IF s \in DOMAIN asked THEN {asked[s]} ELSE {}
=============================================================================
