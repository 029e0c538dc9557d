------------------------------- MODULE NprHeap -------------------------------
(***************************************************************************)
(* The executable heap (npr/heap.c): first fit over chunks with boundary   *)
(* tags, in mappings each twice the size of the one before; large requests *)
(* get a mapping of their own.  One action per path of alloc and free.     *)
(*                                                                         *)
(* The tags and links of the heap live in the memory it hands out, so the  *)
(* model keeps the memory, in words of 4 bytes (a 32-bit build, ARM):      *)
(* sizes and addresses count words.  Page 0 stands for struct npr_heap     *)
(* itself; the list of mappings is taken as a set.  mmap succeeds and      *)
(* gives the lowest pages that are free.  A failed assertion or a wild     *)
(* pointer ends the program: the step is missing.                          *)
(***************************************************************************)
EXTENDS Integers, FiniteSets

CONSTANTS
  page_size,           \* words in a page (1024)
  SIZEOF_PAGE_HEADER,  \* words (8)
  Margin,              \* a chunk within Margin of a page is large (32)
  THIS_ALLOCATED_BIT,  \* 2^30; NEXT_ALLOCATED_BIT is the bit above
  MaxPage,             \* bound: pages of address space
  MaxGiven,            \* bound: regions outstanding
  MaxFree,             \* bound: chunks the free list is followed over; with the
                       \* disciplined client it is never longer
  Size,                \* words requested
  Disciplined,         \* the client keeps within the limits below
  Data                 \* words the client stores

ASSUME HeapAssumption ==
  /\ page_size \in Nat /\ page_size % 2 = 0 /\ page_size > 6
  /\ SIZEOF_PAGE_HEADER \in Nat \ {0} /\ SIZEOF_PAGE_HEADER % 2 = 0
  /\ Margin \in Nat /\ SIZEOF_PAGE_HEADER < Margin /\ Margin < page_size
  /\ MaxPage \in Nat /\ MaxGiven \in Nat
  /\ MaxFree \in Nat /\ MaxFree >= MaxGiven + MaxPage
  /\ THIS_ALLOCATED_BIT \in Nat /\ page_size * (MaxPage + 1) < THIS_ALLOCATED_BIT
  /\ Size \subseteq Nat \ {0} /\ Disciplined \in BOOLEAN
  /\ Data \subseteq 0 .. 4 * THIS_ALLOCATED_BIT - 1  \* words

(* What a power of two is, which the proofs cannot compute.                *)
ASSUME PowersOfTwo == 2 ^ 0 = 1 /\ \A i \in 0 .. MaxPage : 2 ^ (i + 1) = 2 * 2 ^ i

VARIABLES
  mem,         \* the words of page 0 and of the pages behind it
  pages,       \* the mappings listed from page_head
  mapped,      \* numbers of the pages mmap'ed and not munmap'ed
  chunk_size,  \* size of the next mapping
  given,       \* history: regions the client holds
  up           \* npr_heap_init was called, npr_heap_fini was not

vars == <<mem, pages, mapped, chunk_size, given, up>>

-----------------------------------------------------------------------------
NEXT_ALLOCATED_BIT == 2 * THIS_ALLOCATED_BIT

Cells == 0 .. page_size * (MaxPage + 1) - 1

ThisBit(w) == (w \div THIS_ALLOCATED_BIT) % 2 = 1
NextBit(w) == (w \div NEXT_ALLOCATED_BIT) % 2 = 1
SizeOf(w)  == w % THIS_ALLOCATED_BIT            \* w & SIZE_MASK

(* Mutant: the bit is added, not or-ed.                                    *)
BugSetNext(w) == w + NEXT_ALLOCATED_BIT

SetNext(w)   == IF NextBit(w) THEN w ELSE w + NEXT_ALLOCATED_BIT
ClearNext(w) == IF NextBit(w) THEN w - NEXT_ALLOCATED_BIT ELSE w

(* Mutant: no room for the tag.                                            *)
BugAllocSize(n) == 2 * ((n + 1) \div 2)

(* n words and the tag, in double words.                                   *)
calc_alloc_size(n) == 2 * ((n + 2) \div 2)

IsLarge(n) == calc_alloc_size(n) >= page_size - Margin

(* Mutant: the page header is left out.                                    *)
BugLargePages(n) == (calc_alloc_size(n) + page_size - 1) \div page_size

LargePages(n) ==
  (calc_alloc_size(n) + SIZEOF_PAGE_HEADER + page_size - 1) \div page_size

(* The tests the code makes of an address for the first and the behind of  *)
(* the last chunk of a page.                                               *)
PageFirst(a) == a % page_size = SIZEOF_PAGE_HEADER
PageLast(a)  == a % page_size = 0

(* struct npr_free_chunk_header: sz, next and prev of the chunk at f.      *)
next(f) == f + 1
prev(f) == f + 2
free_head == 1
free_tail == 4

add_free(m, f) ==
  LET m1 == [m EXCEPT ![next(m[prev(free_tail)])] = f]
      m2 == [m1 EXCEPT ![prev(f)] = m1[prev(free_tail)],
                       ![next(f)] = free_tail]
  IN  [m2 EXCEPT ![prev(free_tail)] = f]

(* Mutant: the back link keeps pointing at the chunk.                      *)
BugDelFree(m, f) == [m EXCEPT ![next(m[prev(f)])] = m[next(f)]]

del_free(m, f) ==
  LET m1 == [m EXCEPT ![next(m[prev(f)])] = m[next(f)]]
  IN  [m1 EXCEPT ![prev(m1[next(f)])] = m1[prev(f)]]

(* The chunk at f can be unlinked: neither link is NULL or wild.           *)
Linked(m, f) ==
  /\ prev(f) \in Cells /\ m[prev(f)] # 0 /\ m[next(f)] # 0
  /\ next(m[prev(f)]) \in Cells
  /\ prev(m[next(f)]) \in Cells

(* The k-th chunk of the free list, in memory m.                           *)
Follow(m, f) == IF f # free_tail /\ prev(f) \in Cells THEN m[next(f)] ELSE f

Nodes(m) ==
  LET node[k \in 0 .. MaxFree] ==
        IF k = 0 THEN m[next(free_head)] ELSE Follow(m, node[k - 1])
  IN  node

(* Where the search for sz words stops: at a chunk that fits or at the     *)
(* tail.  On a list that was tied into a ring it need not stop.            *)
Stops(m, sz, k) ==
  LET f == Nodes(m)[k] IN f = free_tail \/ (f \in Cells /\ m[f] >= sz)

StopsFirst(m, sz, k) == Stops(m, sz, k) /\ \A j \in 0 .. k - 1 : ~Stops(m, sz, j)

FreeChunksOf(m) == {Nodes(m)[k] : k \in 0 .. MaxFree} \ {free_tail}
FreeChunks == FreeChunksOf(mem)

-----------------------------------------------------------------------------
(* Regions, mappings and the limits of the client.                         *)

Unwritten == -1
Region(p, n) == [ptr |-> p, n |-> n, data |-> Unwritten]
End(r) == r.ptr + calc_alloc_size(r.n)

(* The abstract memory this heap implements.                               *)
View(r) == [ptr |-> r.ptr, len |-> r.n, written |-> r.data # Unwritten]

E == INSTANCE NprExecMemory WITH
       owned <- {c \in Cells : c \div page_size \in mapped},
       held  <- {View(r) : r \in given},
       store <- mem,
       alive <- up

Mapping(p, n, large) == [first |-> p, count |-> n, large |-> large]
PagesOf(g)  == g.first .. g.first + g.count - 1
StartOf(g)  == g.first * page_size + SIZEOF_PAGE_HEADER
EndOf(g)    == (g.first + g.count) * page_size

(* alloc_page of n pages at page p.  Pages that are not mapped are kept    *)
(* zero, as mmap gives them.                                               *)
MapAt(p, n) ==
  /\ p .. p + n - 1 \subseteq (1 .. MaxPage) \ mapped
  /\ \A q \in 1 .. p - 1 : q .. q + n - 1 \cap mapped # {}
  /\ mapped' = mapped \cup p .. p + n - 1

Zeroed(m, p, n) ==
  [c \in Cells |-> IF c \div page_size \in p .. p + n - 1 THEN 0 ELSE m[c]]

(* Words neither the heap nor the client reads again.  For a disciplined   *)
(* client they are taken to be zero, which keeps the model small.          *)
Read(m, gs) ==
  (0 .. page_size - 1)
    \cup (UNION {{f, next(f), prev(f), f + m[f] - 1} : f \in FreeChunksOf(m)})
    \cup {End(r) - 1 : r \in gs}
    \cup (UNION {r.ptr .. r.ptr + r.n - 1 : r \in {w \in gs : w.data # Unwritten}})

Forget(m, gs) ==
  LET kept == Read(m, gs)
  IN  IF Disciplined THEN [c \in Cells |-> IF c \in kept THEN m[c] ELSE 0] ELSE m

(* The smallest chunk holds a free header and its tag.                     *)
MinChunk == 4

(* The limits within which the heap is right: it carves sz words off f     *)
(* only at the end of a mapping, never off a hole between two chunks;      *)
(* neither chunk nor remainder is too small for a free header; and no      *)
(* chunk starts where a page header would be, in the middle of a mapping.  *)
Limits(m, gs, f, sz) ==
  /\ sz >= MinChunk /\ m[f] - sz \notin 1 .. MinChunk - 1
  /\ \E g \in gs : ~g.large /\ f + m[f] = EndOf(g)
  /\ PageFirst(f) => \E g \in gs : f = StartOf(g)

-----------------------------------------------------------------------------
BlankMem ==
  [c \in Cells |-> IF c = next(free_head) THEN free_tail
                   ELSE IF c = prev(free_tail) THEN free_head ELSE 0]

(* npr_heap_init.                                                          *)
Init ==
  /\ mem = BlankMem
  /\ pages = {}
  /\ mapped = {}
  /\ chunk_size = page_size
  /\ given = {}
  /\ up = TRUE

HeapInit ==
  /\ ~up
  /\ chunk_size' = page_size
  /\ pages' = {}
  /\ up' = TRUE
  /\ UNCHANGED <<mem, mapped, given>>

CanAlloc == up /\ Cardinality(given) < MaxGiven

AllocLarge(n) ==
  /\ CanAlloc /\ IsLarge(n)
  /\ \E p \in 1 .. MaxPage :
       LET g == Mapping(p, LargePages(n), TRUE)
       IN  /\ MapAt(p, LargePages(n))
           /\ pages' = pages \cup {g}
           /\ given' = given \cup {Region(StartOf(g), n)}
  /\ UNCHANGED <<mem, chunk_size, up>>

(* Mutant: the remainder gets the size of the whole chunk.                 *)
BugSplit(m, f, sz) ==
  IF m[f] > sz THEN add_free([m EXCEPT ![f + sz] = m[f]], f + sz) ELSE m

(* What is left of the chunk at f becomes a free chunk.                    *)
Split(m, f, sz) ==
  IF m[f] > sz THEN add_free([m EXCEPT ![f + sz] = m[f] - sz], f + sz) ELSE m

(* Mutant: the chunk before is not told.                                   *)
BugMarkPrev(m, f) == m

MarkPrev(m, f) == IF PageFirst(f) THEN m ELSE [m EXCEPT ![f - 1] = SetNext(@)]

(* From label found on.  The tag is written anew, without the bit for the  *)
(* chunk behind.                                                           *)
Carve(m, f, sz) ==
  MarkPrev(Split([m EXCEPT ![f + sz - 1] = sz + THIS_ALLOCATED_BIT], f, sz), f)

(* A chunk of the free list fits.                                          *)
AllocFit(n) ==
  LET sz == calc_alloc_size(n)
  IN  /\ CanAlloc /\ ~IsLarge(n)
      /\ \E k \in 0 .. MaxFree :
           LET f == Nodes(mem)[k]
           IN  /\ StopsFirst(mem, sz, k)
               /\ f # free_tail /\ Linked(mem, f)
               /\ mem[f] > sz => prev(f + sz) \in Cells
               /\ Disciplined => Limits(mem, pages, f, sz)
               /\ given' = given \cup {Region(f, n)}
               /\ mem' = Forget(Carve(del_free(mem, f), f, sz), given')
      /\ UNCHANGED <<pages, mapped, chunk_size, up>>

(* None does: a new mapping.                                               *)
AllocFresh(n) ==
  LET sz == calc_alloc_size(n)
      np == chunk_size \div page_size
  IN  /\ CanAlloc /\ ~IsLarge(n)
      /\ \E k \in 0 .. MaxFree :
           StopsFirst(mem, sz, k) /\ Nodes(mem)[k] = free_tail
      /\ \E p \in 1 .. MaxPage :
           LET g  == Mapping(p, np, FALSE)
               f  == StartOf(g)
               m1 == [mem EXCEPT ![f] = chunk_size - SIZEOF_PAGE_HEADER]
           IN  /\ MapAt(p, np)
               /\ pages' = pages \cup {g}
               /\ Disciplined => Limits(m1, pages', f, sz)
               /\ given' = given \cup {Region(f, n)}
               /\ mem' = Forget(Carve(m1, f, sz), given')
      /\ chunk_size' = 2 * chunk_size
      /\ UNCHANGED up

(* The client writes its region.                                           *)
Fill(r, d) ==
  /\ r \in given
  /\ mem' = [c \in Cells |-> IF c \in r.ptr .. r.ptr + r.n - 1 THEN d ELSE mem[c]]
  /\ given' = (given \ {r}) \cup {[r EXCEPT !.data = d]}
  /\ UNCHANGED <<pages, mapped, chunk_size, up>>

FreeLarge(r) ==
  /\ r \in given /\ IsLarge(r.n)
  /\ LET p == r.ptr \div page_size
         n == LargePages(r.n)
     IN  /\ mapped' = mapped \ p .. p + n - 1
         /\ mem' = Zeroed(mem, p, n)
  /\ pages' = {g \in pages : StartOf(g) # r.ptr}
  /\ given' = given \ {r}
  /\ UNCHANGED <<chunk_size, up>>

-----------------------------------------------------------------------------
(* Freeing a small chunk: first what lies behind it, then what lies before. *)

(* The assertion that the tag holds the size.                              *)
TagAsserted(m, p, sz) == SizeOf(m[p + sz - 1]) = sz

MergeNext(m, p, sz) ==
  LET m1  == del_free(m, p + sz)
      all == sz + m1[p + sz]
  IN  [m1 EXCEPT ![p] = all, ![p + all - 1] = all + NEXT_ALLOCATED_BIT]

(* Mutant: a free neighbour is left alone.                                 *)
BugBehind(m, p, sz) ==
  IF PageLast(p + sz) THEN [m EXCEPT ![p] = sz]
  ELSE [m EXCEPT ![p] = sz, ![p + sz - 1] = sz + NEXT_ALLOCATED_BIT]

Behind(m, p, sz) ==
  IF PageLast(p + sz) THEN [m EXCEPT ![p] = sz]
  ELSE IF NextBit(m[p + sz - 1])
  THEN [m EXCEPT ![p] = sz, ![p + sz - 1] = sz + NEXT_ALLOCATED_BIT]
  ELSE MergeNext(m, p, sz)

BehindSane(m, p, sz) ==
  \/ PageLast(p + sz)
  \/ /\ TagAsserted(m, p, sz)
     /\ ~NextBit(m[p + sz - 1]) =>
          /\ Linked(m, p + sz)
          /\ p + sz + del_free(m, p + sz)[p + sz] - 1 \in Cells

MergePrev(m, p) ==
  LET q   == p - SizeOf(m[p - 1])
      all == m[p] + m[q]
  IN  [m EXCEPT ![q] = all, ![q + all - 1] = all + NEXT_ALLOCATED_BIT]

(* Mutant: the chunk before still believes its neighbour is in use.        *)
BugBefore(m, p) ==
  IF PageFirst(p) \/ ThisBit(m[p - 1]) THEN add_free(m, p) ELSE MergePrev(m, p)

Before(m, p) ==
  IF PageFirst(p) THEN add_free(m, p)
  ELSE IF ThisBit(m[p - 1])
  THEN [add_free(m, p) EXCEPT ![p - 1] = ClearNext(@)]
  ELSE MergePrev(m, p)

BeforeSane(m, p) ==
  IF PageFirst(p) \/ ThisBit(m[p - 1]) THEN next(m[prev(free_tail)]) \in Cells
  ELSE LET q == p - SizeOf(m[p - 1]) IN q \in Cells /\ q + m[p] + m[q] - 1 \in Cells

FreeSmall(r) ==
  LET sz == calc_alloc_size(r.n)
      m1 == Behind(mem, r.ptr, sz)
  IN  /\ r \in given /\ ~IsLarge(r.n)
      /\ BehindSane(mem, r.ptr, sz) /\ BeforeSane(m1, r.ptr)
      /\ given' = given \ {r}
      /\ mem' = Forget(Before(m1, r.ptr), given')
      /\ UNCHANGED <<pages, mapped, chunk_size, up>>

(* npr_heap_fini unmaps one page of a mapping that is not large.  The rest *)
(* stays mapped; what it holds is not read again.                          *)
Unmapped(g) == IF g.large THEN PagesOf(g) ELSE {g.first}

HeapFini ==
  /\ up
  /\ mapped' = mapped \ UNION {Unmapped(g) : g \in pages}
  /\ up' = FALSE
  /\ given' = {}
  /\ mem' = BlankMem
  /\ UNCHANGED <<pages, chunk_size>>

Next ==
  \/ HeapInit
  \/ \E n \in Size : AllocLarge(n) \/ AllocFit(n) \/ AllocFresh(n)
  \/ \E r \in given : FreeLarge(r) \/ FreeSmall(r)
  \/ \E r \in given, d \in Data : Fill(r, d)
  \/ HeapFini

Spec == Init /\ [][Next]_vars

-----------------------------------------------------------------------------
(* Properties.                                                             *)

Words == 0 .. 2 * NEXT_ALLOCATED_BIT - 1

TypeOK ==
  /\ mem \in [Cells -> Words]
  /\ pages \subseteq [first : 1 .. MaxPage, count : 1 .. MaxPage, large : BOOLEAN]
  /\ mapped \subseteq 1 .. MaxPage
  /\ chunk_size \in {page_size * 2 ^ i : i \in 0 .. MaxPage}
  /\ \A r \in given : r.ptr \in Cells /\ r.n \in Size /\ r.data \in Data \cup {Unwritten}
  /\ up \in BOOLEAN

Small == {r \in given : ~IsLarge(r.n)}

Spans ==
  {[at |-> r.ptr, size |-> calc_alloc_size(r.n), used |-> TRUE] : r \in Small}
    \cup {[at |-> f, size |-> mem[f], used |-> FALSE] : f \in FreeChunks}

Covering(c) == {s \in Spans : c \in s.at .. s.at + s.size - 1}

Usable == UNION {StartOf(g) .. EndOf(g) - 1 : g \in {h \in pages : ~h.large}}

(* Every word of every mapping belongs to one chunk, in use or on the free *)
(* list: nothing is lost, nothing is handed out twice, and the list is     *)
(* linked both ways (the assertion of npr_heap_dump, heap.c:296), however  *)
(* frees and allocations are ordered.                                      *)
Tiled ==
  up =>
    /\ \A c \in Usable : Cardinality(Covering(c)) = 1
    /\ \A s \in Spans : s.at .. s.at + s.size - 1 \subseteq Usable
    /\ \A f \in FreeChunks \cup {free_head} : mem[prev(mem[next(f)])] = f

(* The tag of a chunk in use has its size, and the bit for the chunk       *)
(* behind is set just when that one is in use: npr_heap_free trusts both.  *)
TagsRight ==
  \A r \in Small :
    LET tag == mem[End(r) - 1]
    IN  ~PageLast(End(r)) =>
          /\ SizeOf(tag) = End(r) - r.ptr /\ ThisBit(tag)
          /\ NextBit(tag) <=> \E s \in Small : s.ptr = End(r)

(* No two free chunks are neighbours, except across the end of a page.     *)
Coalesced ==
  up =>
    \A f \in FreeChunks : PageLast(f + mem[f]) \/ f + mem[f] \notin FreeChunks

(* No free is missing: the step is there for every region, its assertion   *)
(* holds, and no link that alloc or free follows is NULL or wild.          *)
NoFault ==
  up =>
    /\ \A r \in Small :
         LET sz == calc_alloc_size(r.n)
         IN  BehindSane(mem, r.ptr, sz) /\ BeforeSane(Behind(mem, r.ptr, sz), r.ptr)
    /\ \A f \in FreeChunks : Linked(mem, f)

(* The heap writes no word the client holds.                               *)
DataKept ==
  \A r \in given :
    r.data # Unwritten => \A c \in r.ptr .. r.ptr + r.n - 1 : mem[c] = r.data

(* Every listed mapping is mapped as a whole and every region lies in one; *)
(* fini returns all of a large mapping, but of a small one the first page  *)
(* only, so the pages behind it stay mapped for good.                      *)
MappedIsOwned ==
  /\ \A g \in pages :
       IF up THEN PagesOf(g) \subseteq mapped
       ELSE PagesOf(g) \cap mapped = IF g.large THEN {} ELSE PagesOf(g) \ {g.first}
  /\ \A r \in given : \E g \in pages : StartOf(g) <= r.ptr /\ End(r) <= EndOf(g)

(* The heap implements NprExecMemory: the client's regions are mapped and  *)
(* apart, and what it wrote stays in them through every other call.        *)
RefinesExecMemory == E!Spec

-----------------------------------------------------------------------------
(* What the source says and the code does not do.                          *)

(* heap.c:226 asserts, of any chunk that is freed, that its tag holds its  *)
(* size.  False once a hole was reused, even if no chunk is small and the  *)
(* client writes nothing.                                                  *)
TagAssertion ==
  \A r \in Small :
    PageLast(End(r)) \/ TagAsserted(mem, r.ptr, calc_alloc_size(r.n))
=============================================================================
