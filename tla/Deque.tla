------------------------------- MODULE Deque -------------------------------
(* internal/store/deque.go: the growable ring buffer behind list values.   *)
(* A deque is a record: cap is len(buf), and buf is indexed from 0 as in   *)
(* the code.  One instance under any sequence of pushes and pops.          *)
EXTENDS Integers, Sequences, SequencesExt

CONSTANTS
  Values,   \* the elements
  Nothing,  \* the nil of an empty slot, and of a pop that found none
  MinCap,   \* the first capacity grow allocates; 8 in the code
  MaxLen    \* bound on the number of elements

ASSUME DequeConstants == Nothing \notin Values /\ MinCap \in Nat \ {0} /\ MaxLen \in Nat

VARIABLES
  d,        \* the deque
  out       \* what the last pop returned

vars == <<d, out>>

Zero == [cap |-> 0, buf |-> [i \in {} |-> Nothing], head |-> 0, count |-> 0]

at(q, i) == q.buf[(q.head + i) % q.cap]

\* Variant: copy the slots in place, without linearising.
growInPlace(q) ==
  LET newCap == IF 2 * q.cap > MinCap THEN 2 * q.cap ELSE MinCap
  IN  [q EXCEPT !.cap = newCap,
                !.buf = [i \in 0 .. newCap - 1 |-> IF i < q.cap THEN q.buf[i] ELSE Nothing]]

\* Double the capacity and lay the elements out from slot 0.
grow(q) ==
  LET newCap == IF 2 * q.cap > MinCap THEN 2 * q.cap ELSE MinCap
  IN  [cap |-> newCap, head |-> 0, count |-> q.count,
       buf |-> [i \in 0 .. newCap - 1 |-> IF i < q.count THEN at(q, i) ELSE Nothing]]

room(q) == IF q.count = q.cap THEN grow(q) ELSE q

\* The ring of r with slot i set to v, from head on.
setSlot(r, i, v, head, count) == [cap |-> r.cap, head |-> head, count |-> count, buf |-> [r.buf EXCEPT ![i] = v]]

pushFront(q, v) ==
  LET r == room(q)
      h == (r.head - 1 + r.cap) % r.cap
  IN  setSlot(r, h, v, h, r.count + 1)

pushBack(q, v) ==
  LET r == room(q)
  IN  setSlot(r, (r.head + r.count) % r.cap, v, r.head, r.count + 1)

popFront(q) ==
  IF q.count = 0 THEN [st |-> q, val |-> Nothing]
  ELSE [st |-> setSlot(q, q.head, Nothing, (q.head + 1) % q.cap, q.count - 1), val |-> q.buf[q.head]]

\* Variant: the popped slot is not released.
popBackKeepsSlot(q) ==
  IF q.count = 0 THEN [st |-> q, val |-> Nothing]
  ELSE [st |-> [q EXCEPT !.count = @ - 1], val |-> at(q, q.count - 1)]

popBack(q) ==
  IF q.count = 0 THEN [st |-> q, val |-> Nothing]
  ELSE LET i == (q.head + q.count - 1) % q.cap
       IN  [st |-> setSlot(q, i, Nothing, q.head, q.count - 1), val |-> q.buf[i]]

elements(q) == [i \in 1 .. q.count |-> at(q, i - 1)]

clone(q) == FoldLeft(pushBack, Zero, elements(q))

\* Variant: a negative bound that stays negative is not clamped.
rngUnclamped(q, start, stop) ==
  LET n == q.count
      lo == IF start < 0 THEN start + n ELSE start
      b == IF stop < 0 THEN stop + n ELSE stop
      hi == IF b >= n THEN n - 1 ELSE b
  IN  IF lo < 0 \/ lo > hi THEN <<>> ELSE [i \in 1 .. hi - lo + 1 |-> at(q, lo + i - 1)]

\* LRANGE: negative indices count from the tail, out-of-range ones clamp.
rng(q, start, stop) ==
  LET n == q.count
      a == IF start < 0 THEN start + n ELSE start
      b == IF stop < 0 THEN stop + n ELSE stop
      lo == IF a < 0 THEN 0 ELSE a
      hi == IF b >= n THEN n - 1 ELSE b
  IN  IF lo > hi \/ lo >= n THEN <<>> ELSE [i \in 1 .. hi - lo + 1 |-> at(q, lo + i - 1)]

----------------------------------------------------------------------------
Init == d = Zero /\ out = Nothing

PushFront(v) == d.count < MaxLen /\ d' = pushFront(d, v) /\ UNCHANGED out

PushBack(v) == d.count < MaxLen /\ d' = pushBack(d, v) /\ UNCHANGED out

PopFront == d' = popFront(d).st /\ out' = popFront(d).val

PopBack == d' = popBack(d).st /\ out' = popBack(d).val

Next == PopFront \/ PopBack \/ \E v \in Values : PushFront(v) \/ PushBack(v)

Spec == Init /\ [][Next]_vars

----------------------------------------------------------------------------
(* Properties.                                                             *)

\* The deque implements a sequence: wrapping, growing and releasing slots
\* are invisible, and every pop returns the element at its end.
List == INSTANCE AbstractList WITH list <- elements(d)
ImplementsList == List!Spec

\* The ring's own invariant (deque.go's fields): the indices stay inside the
\* buffer, and of the slots from head on exactly the first count hold an
\* element, so that popped elements are released and none is overwritten.
Ring(q) ==
  /\ q.cap \in Nat
  /\ q.cap # 0 => q.cap >= MinCap /\ q.head \in 0 .. q.cap - 1
  /\ q.cap = 0 => q.head = 0
  /\ q.count \in 0 .. q.cap
  /\ q.buf \in [0 .. q.cap - 1 -> Values \cup {Nothing}]
  /\ \A i \in 0 .. q.cap - 1 : at(q, i) # Nothing <=> i < q.count

\* The ring invariant holds after every push and pop, and a pop returns an
\* element or Nothing.
RingOK == Ring(d) /\ out \in Values \cup {Nothing}
============================================================================
