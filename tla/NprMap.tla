-------------------------------- MODULE NprMap --------------------------------
(***************************************************************************)
(* What the symbol tables promise: each open table maps symbols to data.   *)
(* A symbol entered for the first time has Null; the data changes only     *)
(* when the client assigns it through the entry it was given.              *)
(***************************************************************************)
EXTENDS Integers

CONSTANTS Tab, Sym, Data, Null

VARIABLES
  map,   \* open table -> symbol -> data
  ready  \* the element allocator is initialised

vars == <<map, ready>>

Init == map = [t \in {} |-> {}] /\ ready = TRUE

Open(t) ==
  /\ ready /\ t \notin DOMAIN map
  /\ map' = [u \in DOMAIN map \cup {t} |-> IF u = t THEN [s \in {} |-> Null]
                                           ELSE map[u]]
  /\ UNCHANGED ready

Enter(t, s) ==
  /\ t \in DOMAIN map /\ s \notin DOMAIN map[t]
  /\ map' = [map EXCEPT ![t] = [x \in DOMAIN map[t] \cup {s} |->
                                  IF x = s THEN Null ELSE map[t][x]]]
  /\ UNCHANGED ready

Assign(t, s, v) ==
  /\ t \in DOMAIN map /\ s \in DOMAIN map[t]
  /\ map' = [map EXCEPT ![t][s] = v]
  /\ UNCHANGED ready

Close(t) ==
  /\ t \in DOMAIN map
  /\ map' = [u \in DOMAIN map \ {t} |-> map[u]]
  /\ UNCHANGED ready

Switch == DOMAIN map = {} /\ ready' = ~ready /\ UNCHANGED map

Next ==
  \/ \E t \in Tab : Open(t) \/ Close(t)
  \/ \E t \in Tab, s \in Sym : Enter(t, s)
  \/ \E t \in Tab, s \in Sym, v \in Data : Assign(t, s, v)
  \/ Switch

Spec == Init /\ [][Next]_vars
=============================================================================
