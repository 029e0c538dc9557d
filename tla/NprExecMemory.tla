---------------------------- MODULE NprExecMemory ----------------------------
(***************************************************************************)
(* What the executable heap promises a client that keeps within its        *)
(* limits: every region is memory that is mapped, apart from every other   *)
(* region, and holds what the client wrote to it until it is freed,        *)
(* whatever else is allocated, written or freed meanwhile.                 *)
(***************************************************************************)
EXTENDS Integers

CONSTANTS Size, Data  \* words requested, words written

VARIABLES
  owned,  \* addresses of the words that are mapped
  held,   \* regions the client holds
  store,  \* address -> word
  alive   \* initialised and not finished

vars == <<owned, held, store, alive>>

Region(p, n, w) == [ptr |-> p, len |-> n, written |-> w]

WordsOf(r) == r.ptr .. r.ptr + r.len - 1

Apart(r, s) == WordsOf(r) \cap WordsOf(s) = {}

(* The regions R stay mapped, with what was written to them.               *)
Keeps(R) ==
  \A r \in R :
    /\ WordsOf(r) \subseteq owned'
    /\ r.written => \A c \in WordsOf(r) : store'[c] = store[c]

-----------------------------------------------------------------------------
Init == held = {} /\ alive = TRUE

(* A region no other has a word of; its contents are any.                  *)
Alloc(n) ==
  /\ alive
  /\ \E r \in held' :
       /\ r.len = n /\ ~r.written /\ held' = held \cup {r}
       /\ \A s \in held : Apart(r, s)
       /\ WordsOf(r) \subseteq owned'
  /\ Keeps(held)
  /\ UNCHANGED alive

Write(r, d) ==
  /\ alive /\ r \in held
  /\ held' = (held \ {r}) \cup {Region(r.ptr, r.len, TRUE)}
  /\ \A c \in WordsOf(r) : c \in owned' /\ store'[c] = d
  /\ Keeps(held \ {r})
  /\ UNCHANGED alive

Free(r) ==
  /\ alive /\ r \in held
  /\ held' = held \ {r}
  /\ Keeps(held')
  /\ UNCHANGED alive

Fini == alive /\ ~alive' /\ held' = {}

Create == ~alive /\ alive' /\ UNCHANGED held

Next ==
  \/ \E n \in Size : Alloc(n)
  \/ \E r \in held : Free(r) \/ \E d \in Data : Write(r, d)
  \/ Fini \/ Create

Spec == Init /\ [][Next]_vars
=============================================================================
