----------------------------- MODULE NprMempool -----------------------------
(***************************************************************************)
(* The memory pool (npr/mempool-c.c): small requests are carved out of the *)
(* newest of a list of data entries, each twice the size of the one        *)
(* before; requests of 1024 bytes and more get a block of their own.  One  *)
(* action per function; the retry loop of the allocation takes one step    *)
(* per round.                                                              *)
(*                                                                         *)
(* Addresses matter up to their alignment: a block has the residue of its  *)
(* base.  unsigned int arithmetic is modulo Word, and its conversion to    *)
(* int is Signed.  entry_index is Len(entries) - 1 and large_index is      *)
(* Len(large).  malloc succeeds.  The statistics of GATHER_STAT are off.   *)
(***************************************************************************)
EXTENDS Integers, Sequences, FiniteSets

CONSTANTS
  Bits, Word, \* width of unsigned int (32) and 2^32
  Large,     \* requests from this size on get their own block (1024)
  InitNum,   \* initial capacity of both pointer arrays (16)
  Base,      \* residues of malloc'ed addresses
  Hint,      \* values of size_hint
  Size,      \* sizes requested
  Shift,     \* values of align_shift
  MaxGiven   \* bound: regions outstanding

ASSUME MempoolAssumption ==
  /\ Bits \in Nat /\ Word \in Nat \ {0} /\ Word = 2 ^ Bits /\ Word % 4 = 0
  /\ Large \in Nat \ {0} /\ InitNum \in Nat \ {0, 1}
  /\ Base \subseteq Nat /\ Base # {}
  /\ Hint \subseteq 0 .. Word - 1 /\ Hint # {}
  /\ Size \subseteq Nat \ {0} /\ MaxGiven \in Nat
  /\ Shift \subseteq 0 .. Bits - 2  \* 1 << align_shift is an int
  /\ \A n \in Size, s \in Shift : n < Large => 2 * (n + 2 ^ s) < Word \div 2

(* What a power of two is, which the proofs cannot compute.                *)
ASSUME PowersOfTwo == \A i \in 0 .. Bits - 1 : 2 ^ (i + 1) = 2 * 2 ^ i

VARIABLES
  entries,            \* data_entry: blocks [base, size]
  entry_num,          \* capacity of data_entry
  entry_byte_size, entry_byte_remain, entry_byte_pos,
  large,              \* the blocks of large requests
  large_num,          \* capacity of large
  alloc_small,        \* bytes carved out since the pool was initialised
  pc,                 \* "idle", "retry" (in an allocation) or "destroyed"
  req,                \* the request being served: [size, shift]
  opened,             \* entries opened for it
  given,              \* history: regions handed out
  live                \* mallocs not freed

vars == <<entries, entry_num, entry_byte_size, entry_byte_remain,
          entry_byte_pos, large, large_num, alloc_small, pc, req, opened,
          given, live>>

-----------------------------------------------------------------------------
Signed(x) == IF x >= Word \div 2 THEN x - Word ELSE x

(* (x + (align - 1)) & align_mask                                          *)
AlignUp(x, a) == ((x + a - 1) \div a) * a

(* The least power of two not below x; 0 for 0 and where it is 2^32.       *)
roundup2(x) ==
  IF x = 0 \/ x > Word \div 2 THEN 0
  ELSE CHOOSE p \in {2 ^ i : i \in 0 .. Bits - 1} : p >= x /\ p < 2 * x

Block(base, size) == [base |-> base, size |-> size]
NoReq == [size |-> 0, shift |-> 0]

Region(block, off, n, shift) ==
  [block |-> block, off |-> off, len |-> n, shift |-> shift]

EntryId(i) == <<"entry", i>>
LargeId(i) == <<"large", i>>

(* The abstract allocator this pool implements.                            *)
A == INSTANCE NprAllocator WITH
       blocks <- [b \in {EntryId(i) : i \in 1 .. Len(entries)}
                          \cup {LargeId(i) : i \in 1 .. Len(large)} |->
                    IF b[1] = "entry" THEN entries[b[2]].size
                    ELSE large[b[2]].size],
       given  <- {[block |-> r.block, off |-> r.off, len |-> r.len] : r \in given},
       alive  <- pc # "destroyed"

-----------------------------------------------------------------------------
(* npr_mempool_init of a struct in any state: what it mallocs and stores.  *)
Fresh(hint, base) ==
  /\ entries' = <<Block(base, hint)>>
  /\ entry_num' = InitNum
  /\ entry_byte_size' = hint
  /\ entry_byte_remain' = hint
  /\ entry_byte_pos' = 0
  /\ large' = <<>>
  /\ large_num' = InitNum
  /\ alloc_small' = 0

Init ==
  \E hint \in Hint, base \in Base :
    /\ entries = <<Block(base, hint)>>
    /\ entry_num = InitNum
    /\ entry_byte_size = hint
    /\ entry_byte_remain = hint
    /\ entry_byte_pos = 0
    /\ large = <<>>
    /\ large_num = InitNum
    /\ alloc_small = 0
    /\ pc = "idle"
    /\ req = NoReq
    /\ opened = 0
    /\ given = {}
    /\ live = 3

(* npr_mempool_init after npr_mempool_destroy.                             *)
Create ==
  /\ pc = "destroyed"
  /\ \E hint \in Hint, base \in Base : Fresh(hint, base)
  /\ pc' = "idle"
  /\ live' = live + 3
  /\ UNCHANGED <<req, opened, given>>

-----------------------------------------------------------------------------
(* Allocation.                                                             *)

(* Mutant: the array of blocks grows one block too late.                   *)
BugRoomFor(next, num) == IF next > num THEN num * 2 ELSE num

(* The capacity of a pointer array before slot next (from 0) is written.   *)
RoomFor(next, num) == IF next >= num THEN num * 2 ELSE num

CanAlloc == pc = "idle" /\ Cardinality(given) < MaxGiven

(* alloc_large: the alignment asked for is not passed on.                  *)
AllocLarge(n, shift) ==
  /\ CanAlloc
  /\ n >= Large
  /\ large_num' = RoomFor(Len(large) + 1, large_num)
  /\ \E base \in Base : large' = Append(large, Block(base, n))
  /\ given' = given \cup {Region(LargeId(Len(large) + 1), 0, n, shift)}
  /\ live' = live + 1
  /\ UNCHANGED <<entries, entry_num, entry_byte_size, entry_byte_remain,
                 entry_byte_pos, alloc_small, pc, req, opened>>

(* npr_mempool_alloc_align_stat up to its label retry.                     *)
Alloc(n, shift) ==
  /\ CanAlloc
  /\ n < Large
  /\ pc' = "retry"
  /\ req' = [size |-> n, shift |-> shift]
  /\ opened' = 0
  /\ UNCHANGED <<entries, entry_num, entry_byte_size, entry_byte_remain,
                 entry_byte_pos, large, large_num, alloc_small, given, live>>

align == 2 ^ req.shift

(* Mutant: the offset is aligned, not the address.                         *)
BugPtr == entry_byte_pos

ptr == entries[Len(entries)].base + entry_byte_pos
ptr_diff == AlignUp(ptr, align) - ptr

(* Mutant: the padding is forgotten.                                       *)
BugRemain == Signed(entry_byte_remain)

remain == Signed((entry_byte_remain - ptr_diff) % Word)

(* Mutant: the doubled size, whether or not the request fits.              *)
BugNextSize == (entry_byte_size * 2) % Word

next_size ==
  LET doubled == (entry_byte_size * 2) % Word
  IN  IF req.size + align > doubled THEN (req.size + align) * 2 ELSE doubled

(* The newest entry cannot serve the request: open another and retry.      *)
OpenEntry ==
  /\ pc = "retry"
  /\ req.size > remain
  /\ \E base \in Base : entries' = Append(entries, Block(base, next_size))
  /\ entry_num' = RoomFor(Len(entries), entry_num)
  /\ entry_byte_size' = next_size
  /\ entry_byte_remain' = next_size
  /\ entry_byte_pos' = 0
  /\ opened' = opened + 1
  /\ live' = live + 1
  /\ UNCHANGED <<large, large_num, alloc_small, pc, req, given>>

(* Mutant: the space used is not taken from what remains.                  *)
BugLeft(used) == remain % Word

(* Mutant: entry_byte_remain is an int.                                    *)
BugLeftInt(used) == remain - used

(* What remains: the padding, already taken off remain, is taken twice and *)
(* the size rounded up, so it may end below zero.                          *)
Left(used) == (remain - used) % Word

(* The request is carved out of the newest entry.                          *)
Carve ==
  LET used == ptr_diff + AlignUp(req.size, align)
  IN  /\ pc = "retry"
      /\ req.size <= remain
      /\ entry_byte_remain' = Left(used)
      /\ entry_byte_pos' = (entry_byte_pos + used) % Word
      /\ alloc_small' = (alloc_small + used) % Word
      /\ given' = given \cup {Region(EntryId(Len(entries)),
                                     entry_byte_pos + ptr_diff,
                                     req.size, req.shift)}
      /\ pc' = "idle"
      /\ req' = NoReq
      /\ opened' = 0
      /\ UNCHANGED <<entries, entry_num, entry_byte_size, large, large_num,
                     live>>

-----------------------------------------------------------------------------
(* Mutant: the newest entry is not freed.                                  *)
BugFreed == Len(entries) - 1 + Len(large) + 2

(* What npr_mempool_destroy frees.                                         *)
Freed == Len(entries) + Len(large) + 2

Destroy ==
  /\ pc = "idle"
  /\ pc' = "destroyed"
  /\ entries' = <<>>
  /\ large' = <<>>
  /\ given' = {}
  /\ live' = live - Freed
  /\ UNCHANGED <<entry_num, entry_byte_size, entry_byte_remain,
                 entry_byte_pos, large_num, alloc_small, req, opened>>

(* npr_mempool_clear.  A pool of one entry only forgets its position: what *)
(* remains of the entry is not restored.                                   *)
ClearInPlace ==
  /\ pc = "idle"
  /\ Len(entries) = 1 /\ large = <<>>
  /\ entry_byte_pos' = 0
  /\ given' = {}
  /\ UNCHANGED <<entries, entry_num, entry_byte_size, entry_byte_remain,
                 large, large_num, alloc_small, pc, req, opened, live>>

(* Any other is destroyed and made anew, as large as it was used.          *)
ClearAnew ==
  /\ pc = "idle"
  /\ Len(entries) > 1 \/ large # <<>>
  /\ \E base \in Base : Fresh(roundup2(alloc_small), base)
  /\ given' = {}
  /\ live' = live - Freed + 3
  /\ UNCHANGED <<pc, req, opened>>

Next ==
  \/ Create
  \/ \E n \in Size, shift \in Shift : AllocLarge(n, shift) \/ Alloc(n, shift)
  \/ OpenEntry
  \/ Carve
  \/ Destroy
  \/ ClearInPlace
  \/ ClearAnew

Spec == Init /\ [][Next]_vars

-----------------------------------------------------------------------------
(* Properties.                                                             *)

(* The counters are unsigned ints, a request is pending exactly in the     *)
(* retry loop, regions name blocks of the pool.                            *)
TypeOK ==
  /\ entries \in Seq([base : Base, size : 0 .. Word - 1])
  /\ large \in Seq([base : Base, size : Size])
  /\ pc \in {"idle", "retry", "destroyed"}
  /\ pc = "destroyed" <=> entries = <<>>
  /\ pc = "retry" <=> req # NoReq
  /\ {entry_byte_size, entry_byte_remain, entry_byte_pos, alloc_small}
        \subseteq 0 .. Word - 1

(* The pool never believes to have more than there is behind its position, *)
(* though clearing, the padding taken twice and the rounded size make it   *)
(* believe less, and below zero.                                           *)
CapacityHonest ==
  pc # "destroyed" =>
    /\ entry_byte_size = entries[Len(entries)].size
    /\ Signed(entry_byte_remain) <= entry_byte_size - entry_byte_pos

(* An entry opened for a request serves it: the only ones passed over are  *)
(* those of 2^31 bytes or more, whose size is negative as an int.          *)
RetryFits ==
  \A k \in 1 .. opened - 1 : Signed(entries[Len(entries) - k].size) < 0

(* A pointer is only stored within the capacity of its array.              *)
ArraysFit == Len(entries) <= entry_num /\ Len(large) <= large_num

(* Every malloc is freed by npr_mempool_destroy, once.                     *)
NoLeak == live = IF pc = "destroyed" THEN 0 ELSE Len(entries) + Len(large) + 2

Address(r) ==
  r.off + (IF r.block[1] = "entry" THEN entries[r.block[2]].base
           ELSE large[r.block[2]].base)

Aligned(r) == Address(r) % (2 ^ r.shift) = 0

(* Small requests are aligned as asked for.                                *)
SmallAligned == \A r \in given : r.len < Large => Aligned(r)

(* mempool.h:72: "memory is aligend to `2^align'".  False of a large       *)
(* request, which is aligned as malloc aligns.                             *)
AlignedAsAsked == \A r \in given : Aligned(r)

(* The pool implements NprAllocator: regions are inside blocks and apart.  *)
RefinesAllocator == A!Spec
=============================================================================
