------------------------------ MODULE NprSymtab ------------------------------
(***************************************************************************)
(* Symbol tables (npr/int-map.c): chained hash tables that grow when their *)
(* chains get long, all taking their entries from one chunk allocator.     *)
(* The client keeps the entry pointers a lookup returns and writes their   *)
(* data through them, across growth of the table.  A symbol is its         *)
(* pointer; hashcode is fixed when it is interned.                         *)
(***************************************************************************)
EXTENDS NprChunkAlloc

CONSTANTS
  Tab, Sym, Data, Null,
  hashcode,  \* Sym -> Nat
  MINSIZE,   \* 8
  primes,    \* bin counts: primes[i] exceeds MINSIZE * 2^(i-1)
  MaxRatio,  \* entries per bin tolerated (3)
  Hint,      \* values of size_hint
  MaxEntries \* bound: entries in use

ASSUME SymtabAssumption ==
  /\ hashcode \in [Sym -> Nat]
  /\ MINSIZE \in Nat \ {0} /\ MaxRatio \in Nat
  /\ primes \in Seq(Nat \ {0})
  /\ \A i \in 1 .. Len(primes) : primes[i] > MINSIZE * 2 ^ (i - 1)
  /\ Hint \subseteq Nat /\ MaxEntries \in Nat

VARIABLES
  tabs,   \* initialised tables: [num_bin, num_entry, entries]
  entry,  \* element in use -> [sym, data]
  held,   \* history: table, symbol -> the entry pointer the client got
  up      \* npr_symtab_global_init was called

vars == <<top, chunks, tabs, entry, held, up>>

-----------------------------------------------------------------------------
Entry(sym, data) == [sym |-> sym, data |-> data]
Table(n, count, bins) == [num_bin |-> n, num_entry |-> count, entries |-> bins]

(* f, with v at x.                                                         *)
With(f, x, v) == [y \in DOMAIN f \cup {x} |-> IF y = x THEN v ELSE f[y]]

(* Index i of primes would be taken for size; the code aborts if there is  *)
(* none.                                                                   *)
Suits(i, size) ==
  /\ MINSIZE * 2 ^ (i - 1) > size
  /\ \A j \in 1 .. i - 1 : MINSIZE * 2 ^ (j - 1) <= size

HasSize(size) == \E i \in 1 .. Len(primes) : Suits(i, size)
new_size(size) == primes[CHOOSE i \in 1 .. Len(primes) : Suits(i, size)]

(* Bins count from 1 here.                                                 *)
BinOf(s, n) == (hashcode[s] % n) + 1

EmptyBins(n) == [j \in 1 .. n |-> <<>>]

(* The walk of npr_symtab_lookup_entry: places of s in its bin.            *)
Places(t, s) ==
  LET bin == tabs[t].entries[BinOf(s, tabs[t].num_bin)]
  IN  {i \in 1 .. Len(bin) : entry[bin[i]].sym = s}

Found(t, s) == Places(t, s) # {}

Find(t, s) ==
  tabs[t].entries[BinOf(s, tabs[t].num_bin)][Min(Places(t, s))]

Entries(t) == FlattenSeq(tabs[t].entries)

(* The abstract map: what lookups find.                                    *)
A == INSTANCE NprMap WITH
       map <- [t \in DOMAIN tabs |->
                 [s \in {x \in Sym : Found(t, x)} |-> entry[Find(t, s)].data]],
       ready <- up

-----------------------------------------------------------------------------
(* The program starts with npr_symtab_global_init.                         *)
Init ==
  /\ top = alloc_chunk(1)
  /\ chunks = 1
  /\ tabs = [t \in {} |-> Table(0, 0, <<>>)]
  /\ entry = [e \in {} |-> Entry(Null, Null)]
  /\ held = [t \in {} |-> {}]
  /\ up = TRUE

(* npr_symtab_init.                                                        *)
InitTable(t, hint) ==
  /\ up
  /\ t \notin DOMAIN tabs
  /\ HasSize(hint)
  /\ LET n == new_size(hint)
     IN  tabs' = With(tabs, t, Table(n, 0, EmptyBins(n)))
  /\ held' = With(held, t, [s \in {} |-> Null])
  /\ UNCHANGED <<top, chunks, entry, up>>

(* The chain of bin j after the loop of alloc_entry has taken the entries   *)
(* es, in order, and put each at the head of its bin among n.              *)
Rechained(es, j, n) ==
  LET chain[i \in 0 .. Len(es)] ==
        IF i = 0 THEN <<>>
        ELSE IF BinOf(entry[es[i]].sym, n) = j THEN <<es[i]>> \o chain[i - 1]
        ELSE chain[i - 1]
  IN  chain[Len(es)]

(* Mutant: the next entry is read after the link was overwritten, and the  *)
(* walk of a bin ends with its first entry.                                *)
BugRehashed(bins, size) ==
  LET firsts == [i \in 1 .. Len(bins) |->
                   IF bins[i] = <<>> THEN <<>> ELSE <<Head(bins[i])>>]
  IN  [j \in 1 .. size |-> Rechained(FlattenSeq(firsts), j, size)]

(* The loop goes through the old bins in order, each from its head.        *)
Rehashed(bins, size) ==
  [j \in 1 .. size |-> Rechained(FlattenSeq(bins), j, size)]

(* Mutant: the table grows one entry too late.                             *)
BugTooFull(count, n) == count \div n > MaxRatio + 1

TooFull(count, n) == count \div n > MaxRatio

(* Mutant: num_bin keeps its value.                                        *)
BugGrown(tab) ==
  LET count == tab.num_entry + 1
      size  == new_size(tab.num_bin + 1)
  IN  IF TooFull(count, tab.num_bin)
      THEN Table(tab.num_bin, count, Rehashed(tab.entries, size))
      ELSE Table(tab.num_bin, count, tab.entries)

(* What alloc_entry does to the table: it counts the new entry, not yet in *)
(* a chain, and grows a table too full.                                    *)
Grown(tab) ==
  LET count == tab.num_entry + 1
      size  == new_size(tab.num_bin + 1)
  IN  IF TooFull(count, tab.num_bin)
      THEN Table(size, count, Rehashed(tab.entries, size))
      ELSE Table(tab.num_bin, count, tab.entries)

(* Mutant: do_rehash ignored, the bin found before the growth is used.     *)
BugChained(old, tab, s, e) ==
  [tab EXCEPT !.entries[BinOf(s, old.num_bin)] = Append(@, e)]

(* The new entry goes to the end of its chain, or to the head of its bin   *)
(* in a table just grown: the end found before is then that of another.    *)
Chained(old, tab, s, e) ==
  [tab EXCEPT !.entries[BinOf(s, tab.num_bin)] =
     IF TooFull(tab.num_entry, old.num_bin) THEN <<e>> \o @ ELSE Append(@, e)]

(* npr_symtab_lookup_entry with NPR_LOOKUP_APPEND of a symbol not found.   *)
(* The other lookups change nothing.                                       *)
Lookup(t, s) ==
  /\ t \in DOMAIN tabs
  /\ ~Found(t, s)
  /\ Cardinality(DOMAIN entry) < MaxEntries
  /\ TooFull(tabs[t].num_entry + 1, tabs[t].num_bin) =>
       HasSize(tabs[t].num_bin + 1)
  /\ Take
  /\ tabs' = [tabs EXCEPT ![t] = Chained(@, Grown(@), s, Taken)]
  /\ entry' = With(entry, Taken, Entry(s, Null))
  /\ held' = [held EXCEPT ![t] = With(@, s, Taken)]
  /\ UNCHANGED up

(* The client stores through the pointer it got when it entered s.         *)
Store(t, s, v) ==
  /\ t \in DOMAIN tabs
  /\ s \in DOMAIN held[t]
  /\ entry' = [entry EXCEPT ![held[t][s]].data = v]
  /\ UNCHANGED <<top, chunks, tabs, held, up>>

(* Mutant: only the first entry of each chain is freed.                    *)
BugFreed(t) ==
  FlattenSeq([j \in 1 .. tabs[t].num_bin |->
                IF tabs[t].entries[j] = <<>> THEN <<>>
                ELSE <<Head(tabs[t].entries[j])>>])

Freed(t) == FlattenSeq(tabs[t].entries)

(* npr_symtab_fini.                                                        *)
FiniTable(t) ==
  /\ t \in DOMAIN tabs
  /\ Release(Freed(t))
  /\ entry' = [e \in DOMAIN entry \ ToSet(Freed(t)) |-> entry[e]]
  /\ tabs' = [u \in DOMAIN tabs \ {t} |-> tabs[u]]
  /\ held' = [u \in DOMAIN held \ {t} |-> held[u]]
  /\ UNCHANGED up

(* npr_symtab_global_fini, when the client has no table left, and          *)
(* npr_symtab_global_init again.                                           *)
GlobalFini ==
  /\ up
  /\ DOMAIN tabs = {}
  /\ NoChunk
  /\ up' = FALSE
  /\ UNCHANGED <<tabs, entry, held>>

GlobalInit ==
  /\ ~up
  /\ OneChunk
  /\ up' = TRUE
  /\ UNCHANGED <<tabs, entry, held>>

Next ==
  \/ \E t \in Tab, hint \in Hint : InitTable(t, hint)
  \/ \E t \in Tab, s \in Sym : Lookup(t, s)
  \/ \E t \in Tab, s \in Sym, v \in Data : Store(t, s, v)
  \/ \E t \in Tab : FiniTable(t)
  \/ GlobalFini
  \/ GlobalInit

Spec == Init /\ [][Next]_vars

-----------------------------------------------------------------------------
(* Properties.                                                             *)

(* Tables have num_bin chains of elements in use, counted by num_entry.    *)
TypeOK ==
  /\ up \in BOOLEAN /\ chunks \in Nat
  /\ ToSet(top) \subseteq Elements /\ DOMAIN entry \subseteq Elements
  /\ \A e \in DOMAIN entry : entry[e] \in [sym : Sym, data : Data \cup {Null}]
  /\ DOMAIN held = DOMAIN tabs
  /\ \A t \in DOMAIN tabs :
       /\ Len(tabs[t].entries) = tabs[t].num_bin
       /\ ToSet(Entries(t)) \subseteq DOMAIN entry
       /\ Len(Entries(t)) = tabs[t].num_entry

(* Across all tables and the free list every element of every chunk is in  *)
(* one place, and in it once: growth, fini and reuse lose and share none.  *)
ElementsAccounted ==
  /\ Accounted(DOMAIN entry)
  /\ \A t \in DOMAIN tabs : IsInjective(Entries(t))
  /\ \A t, u \in DOMAIN tabs :
       t # u => ToSet(Entries(t)) \cap ToSet(Entries(u)) = {}
  /\ DOMAIN entry = UNION {ToSet(Entries(t)) : t \in DOMAIN tabs}

(* The pointer the client got for a symbol stays the one a lookup returns, *)
(* and still is that symbol's, whatever grew meanwhile.                    *)
PointersStable ==
  \A t \in DOMAIN tabs : \A s \in DOMAIN held[t] :
    /\ Found(t, s) /\ Find(t, s) = held[t][s]
    /\ entry[held[t][s]].sym = s

(* One growth per entry is enough: after every operation there are fewer   *)
(* than MaxRatio + 1 entries per bin.                                      *)
LoadBounded ==
  \A t \in DOMAIN tabs : tabs[t].num_entry < (MaxRatio + 1) * tabs[t].num_bin

(* The tables implement NprMap.                                            *)
RefinesMap == A!Spec
=============================================================================
