---------------------------- MODULE AbstractList ---------------------------
(* What a list value promises: a sequence with four operations at its two  *)
(* ends, of which the two pops return what they remove.                    *)
EXTENDS Integers, Sequences

CONSTANTS
  Values,   \* the elements
  Nothing,  \* no element: what a pop of an empty list returns
  MaxLen    \* bound on the length

VARIABLES
  list,     \* the elements, front first
  out       \* what the last pop returned

Init == list = <<>> /\ out = Nothing

PushFront(v) == Len(list) < MaxLen /\ list' = <<v>> \o list /\ UNCHANGED out

PushBack(v) == Len(list) < MaxLen /\ list' = Append(list, v) /\ UNCHANGED out

PopFront ==
  \/ list = <<>> /\ out' = Nothing /\ UNCHANGED list
  \/ list # <<>> /\ out' = Head(list) /\ list' = Tail(list)

PopBack ==
  \/ list = <<>> /\ out' = Nothing /\ UNCHANGED list
  \/ list # <<>> /\ out' = list[Len(list)] /\ list' = SubSeq(list, 1, Len(list) - 1)

Next == PopFront \/ PopBack \/ \E v \in Values : PushFront(v) \/ PushBack(v)

Spec == Init /\ [][Next]_<<list, out>>

----------------------------------------------------------------------------
\* LRANGE by its meaning: the elements whose position is at or after start
\* and at or before stop, a negative bound counting from the end.
From(n, i) == IF i < 0 THEN n + i ELSE i
Between(s, start, stop) ==
  LET n == Len(s)
      in == {i \in 0 .. n - 1 : From(n, start) <= i /\ i <= From(n, stop)}
  IN  IF in = {} THEN <<>>
      ELSE SubSeq(s, 1 + CHOOSE i \in in : i - 1 \notin in, 1 + CHOOSE i \in in : i + 1 \notin in)
============================================================================
