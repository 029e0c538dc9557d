---------------------------- MODULE NprChunkAlloc ----------------------------
(***************************************************************************)
(* The chunk allocator (npr/chunk-alloc.c): elements of one size, handed   *)
(* out from a free list that is refilled one chunk at a time.  An element  *)
(* is named by its chunk and its index in it.  The operations are steps    *)
(* for the modules whose structures live in such elements.                 *)
(***************************************************************************)
EXTENDS Integers, SequencesExt

CONSTANT chunk_count  \* elements in a chunk

ASSUME ChunkAssumption == chunk_count \in Nat \ {0}

VARIABLES
  top,    \* the free list, from a->top
  chunks  \* how many chunks were malloc'ed

chunk_vars == <<top, chunks>>

Elements == (1 .. chunks) \X (1 .. chunk_count)

(* alloc_chunk threads the elements of a chunk in order.                   *)
alloc_chunk(c) == [i \in 1 .. chunk_count |-> <<c, i>>]

(* npr_chunk_allocator_alloc: the element it returns, and its step.        *)
Taken == IF top # <<>> THEN Head(top) ELSE <<chunks + 1, 1>>

Take ==
  IF top # <<>>
  THEN top' = Tail(top) /\ UNCHANGED chunks
  ELSE top' = Tail(alloc_chunk(chunks + 1)) /\ chunks' = chunks + 1

(* npr_chunk_allocator_free of each element of s, in order.                *)
Release(s) == top' = Reverse(s) \o top /\ UNCHANGED chunks

(* npr_chunk_allocator_init and _fini.                                     *)
OneChunk == top' = alloc_chunk(1) /\ chunks' = 1
NoChunk  == top' = <<>> /\ chunks' = 0

(* Every element is free or used, not both, and free only once.            *)
Accounted(used) ==
  /\ IsInjective(top)
  /\ ToSet(top) \cap used = {}
  /\ ToSet(top) \cup used = Elements
=============================================================================
