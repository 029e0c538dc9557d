----------------------------- MODULE NprStrbuf -----------------------------
(***************************************************************************)
(* The string buffer (npr/strbuf.c): text without its terminator, which    *)
(* c_str and printf write behind it.  A text is a sequence of characters.  *)
(***************************************************************************)
EXTENDS CHeap

CONSTANT NUL

strbuf_init == [buflen |-> 0, cur |-> 0, buf |-> <<>>, at |-> Null]

(* Mutant: room for exactly len - 1 more is enough.                        *)
BugGrows(b, len) == b.buflen - b.cur < len - 1

Grows(b, len) == b.buflen - b.cur < len

reserve(b, len, at) ==
  IF Grows(b, len)
  THEN LET alloc == 2 * (b.buflen + len)
       IN  [buflen |-> alloc, cur |-> b.cur, buf |-> Resized(b.buf, alloc), at |-> at]
  ELSE b

Put(b, s) ==
  [buflen |-> b.buflen, cur |-> b.cur + Len(s), buf |-> Written(b.buf, b.cur + 1, s),
   at |-> b.at]

(* strbuf_putc, _puts and _putsn.                                          *)
strbuf_puts(b, s, at) == Put(reserve(b, Len(s), at), s)

(* vsnprintf into n bytes: what fits, always terminated.                   *)
vsnprintf(b, n, s) ==
  IF n = 0 THEN b
  ELSE LET text == IF Len(s) < n THEN s ELSE SubSeq(s, 1, n - 1)
       IN  [b EXCEPT !.buf = Written(@, b.cur + 1, Append(text, NUL))]

Remaining(b) == b.buflen - b.cur

PrintGrows(b, s) == Len(s) >= Remaining(b) /\ Grows(b, Len(s) + 1)

strbuf_vprintf(b, s, at) ==
  LET once == vsnprintf(b, Remaining(b), s)
      grown == vsnprintf(reserve(once, Len(s) + 1, at), Len(s) + 1, s)
  IN  IF Len(s) < Remaining(b)
      THEN [once EXCEPT !.cur = @ + Len(s)]
      ELSE [grown EXCEPT !.cur = @ + Len(s)]

strbuf_c_str(b, at) ==
  LET r == reserve(b, 1, at)
  IN  [r EXCEPT !.buf = Written(@, r.cur + 1, <<NUL>>)]

Text(b) == [i \in 1 .. b.cur |-> b.buf[i]]
=============================================================================
