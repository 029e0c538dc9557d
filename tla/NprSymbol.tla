----------------------------- MODULE NprSymbol -----------------------------
(***************************************************************************)
(* Symbol interning (npr/symbol.c): a table of chains that never grows.    *)
(* The three blocks of a symbol (itself, its string, its chain link) are   *)
(* one address, which is the symbol; names that differ in length or bytes  *)
(* are different names.                                                    *)
(***************************************************************************)
EXTENDS CHeap, SequencesExt

CONSTANTS
  num_backets,  \* 173
  hash          \* name -> Nat

ASSUME SymbolAssumption == num_backets \in Nat \ {0}

EmptyTable(at) ==
  [at |-> at,
   backets |-> [h \in 0 .. num_backets - 1 |-> <<>>],
   symstr |-> [sym \in {} |-> Null]]

Chain(t, s) == t.backets[hash[s] % num_backets]

(* Mutant: only the newest symbol of a chain is compared.                  *)
BugMatches(t, s) ==
  IF Chain(t, s) = <<>> THEN {} ELSE {sym \in {Head(Chain(t, s))} : t.symstr[sym] = s}

Matches(t, s) == {sym \in ToSet(Chain(t, s)) : t.symstr[sym] = s}

(* npr_intern when no symbol has the name: sym becomes it.                 *)
Created(t, s, sym) ==
  [at |-> t.at,
   backets |-> [t.backets EXCEPT ![hash[s] % num_backets] = <<sym>> \o @],
   symstr |-> With(t.symstr, sym, s)]

(* What npr_symbol_finish frees, block by block, in order.                 *)
TableBlocks(t) ==
  FlattenSeq([i \in 1 .. num_backets |-> t.backets[i - 1]]) \o <<t.at>>
=============================================================================
