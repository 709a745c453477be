---------------------------- MODULE DequeProofs ----------------------------
(* Deque implements AbstractList for all values, capacities and lengths.   *)
EXTENDS Deque, TLAPS

----------------------------------------------------------------------------
(* Slots: the arithmetic of the ring, without the modulus.                 *)

\* A position below the capacity is its own slot.
LEMMA ModSmall == \A c \in Nat \ {0} : \A x \in 0 .. c - 1 : x % c = x
OBVIOUS

\* One capacity further it wraps once.
LEMMA ModWrap == \A c \in Nat \ {0} : \A x \in c .. 2 * c - 1 : x % c = x - c
OBVIOUS

\* Slot of the i-th element from head h in a buffer of c (deque.at).
Slot(c, h, i) == IF h + i < c THEN h + i ELSE h + i - c

LEMMA SlotOf ==
  ASSUME NEW c \in Nat \ {0}, NEW h \in 0 .. c - 1, NEW i \in 0 .. c
  PROVE  (h + i) % c = Slot(c, h, i)
<1>1. CASE h + i < c
  <2>1. h + i \in 0 .. c - 1
    BY <1>1
  <2>2. (h + i) % c = h + i
    BY <2>1, ModSmall, Zenon
  <2>. QED BY <1>1, <2>2 DEF Slot
<1>2. CASE ~(h + i < c)
  <2>1. h + i \in c .. 2 * c - 1
    BY <1>2
  <2>2. \A x \in c .. 2 * c - 1 : x % c = x - c
    BY ModWrap, Zenon
  <2>3. (h + i) % c = (h + i) - c
    BY <2>1, <2>2
  <2>. QED BY <1>2, <2>3 DEF Slot
<1>. QED BY <1>1, <1>2

\* The positions of a ring and its slots correspond one to one.
LEMMA SlotOneToOne ==
  ASSUME NEW c \in Nat \ {0}, NEW h \in 0 .. c - 1, NEW i \in 0 .. c - 1, NEW k \in 0 .. c - 1
  PROVE  /\ Slot(c, h, i) \in 0 .. c - 1
         /\ Slot(c, h, i) = Slot(c, h, k) <=> i = k
BY DEF Slot

\* at, in a ring.
LEMMA AtSlot ==
  ASSUME NEW q, Ring(q), q.cap # 0, NEW i \in 0 .. q.cap
  PROVE  /\ at(q, i) = q.buf[Slot(q.cap, q.head, i)]
         /\ (q.head + i) % q.cap = Slot(q.cap, q.head, i)
         /\ Slot(q.cap, q.head, i) \in 0 .. q.cap - 1
<1>1. q.cap \in Nat \ {0} /\ q.head \in 0 .. q.cap - 1
  BY DEF Ring
<1>2. (q.head + i) % q.cap = Slot(q.cap, q.head, i)
  BY <1>1, SlotOf, Zenon
<1>3. Slot(q.cap, q.head, i) \in 0 .. q.cap - 1
  BY <1>1 DEF Slot
<1>. QED BY <1>2, <1>3, Zenon DEF at

\* What the first count positions hold.
LEMMA AtType ==
  ASSUME NEW q, Ring(q), q.cap # 0, NEW i \in 0 .. q.cap - 1
  PROVE  /\ at(q, i) \in Values \cup {Nothing}
         /\ i < q.count => at(q, i) \in Values
<1>0. q.cap \in Nat /\ i \in 0 .. q.cap
  BY DEF Ring
<1>1. at(q, i) = q.buf[Slot(q.cap, q.head, i)] /\ Slot(q.cap, q.head, i) \in 0 .. q.cap - 1
  BY <1>0, AtSlot, Zenon
<1>2. at(q, i) \in Values \cup {Nothing}
  BY <1>1 DEF Ring
<1>3. i < q.count => at(q, i) # Nothing
  BY DEF Ring
<1>. QED BY <1>2, <1>3

\* Ring r is q with position k set to v, and a new head and count.
Written(r, q, k, v, h, c) ==
  /\ r.cap = q.cap /\ r.head = h /\ r.count = c
  /\ r.buf \in [0 .. q.cap - 1 -> Values \cup {Nothing}]
  /\ \A i \in 0 .. q.cap - 1 :
       r.buf[Slot(q.cap, q.head, i)] = IF i = k THEN v ELSE at(q, i)

\* Two positions are two slots: a write to the slot of position k changes
\* what is read there and nowhere else.
LEMMA SetSlotAt ==
  ASSUME NEW q, Ring(q), q.cap # 0, NEW k \in 0 .. q.cap - 1, NEW v \in Values \cup {Nothing},
         NEW h, NEW c
  PROVE  Written(setSlot(q, Slot(q.cap, q.head, k), v, h, c), q, k, v, h, c)
<1>. DEFINE r == setSlot(q, Slot(q.cap, q.head, k), v, h, c)
<1>0. q.cap \in Nat \ {0} /\ q.head \in 0 .. q.cap - 1
      /\ q.buf \in [0 .. q.cap - 1 -> Values \cup {Nothing}]
  BY DEF Ring
<1>1. r.cap = q.cap /\ r.head = h /\ r.count = c /\ r.buf = [q.buf EXCEPT ![Slot(q.cap, q.head, k)] = v]
  BY DEF setSlot
<1>. HIDE DEF r
<1>2. ASSUME NEW i \in 0 .. q.cap - 1
      PROVE  r.buf[Slot(q.cap, q.head, i)] = IF i = k THEN v ELSE at(q, i)
  <2>1. Slot(q.cap, q.head, i) \in 0 .. q.cap - 1 /\ Slot(q.cap, q.head, k) \in 0 .. q.cap - 1
    BY <1>0, SlotOneToOne, Zenon
  <2>2. Slot(q.cap, q.head, i) = Slot(q.cap, q.head, k) <=> i = k
    BY <1>0, SlotOneToOne
  <2>3. i \in 0 .. q.cap
    BY <1>0
  <2>4. at(q, i) = q.buf[Slot(q.cap, q.head, i)]
    BY <2>3, AtSlot, Zenon
  <2>. QED BY <1>0, <1>1, <2>1, <2>2, <2>4
<1>3. r.buf \in [0 .. q.cap - 1 -> Values \cup {Nothing}]
  BY <1>0, <1>1
<1>. QED BY <1>1, <1>2, <1>3 DEF Written, r

\* A ring is known by what its positions read.
LEMMA RingFromAt ==
  ASSUME NEW r, r.cap \in Nat \ {0}, r.cap >= MinCap, r.head \in 0 .. r.cap - 1,
         r.count \in 0 .. r.cap, r.buf \in [0 .. r.cap - 1 -> Values \cup {Nothing}],
         \A i \in 0 .. r.cap - 1 : r.buf[Slot(r.cap, r.head, i)] # Nothing <=> i < r.count
  PROVE  Ring(r) /\ \A i \in 0 .. r.cap - 1 : at(r, i) = r.buf[Slot(r.cap, r.head, i)]
<1>1. ASSUME NEW i \in 0 .. r.cap - 1
      PROVE  at(r, i) = r.buf[Slot(r.cap, r.head, i)]
  <2>1. i \in 0 .. r.cap
    OBVIOUS
  <2>2. (r.head + i) % r.cap = Slot(r.cap, r.head, i)
    BY <2>1, SlotOf, Zenon
  <2>. QED BY <2>2 DEF at
<1>. QED BY <1>1 DEF Ring

----------------------------------------------------------------------------
(* The ring operations preserve the ring and act on its elements.          *)

\* grow keeps the elements and leaves room for one more.
LEMMA GrowRing ==
  ASSUME NEW q, Ring(q), q.count = q.cap
  PROVE  LET r == grow(q) IN
         /\ Ring(r)
         /\ r.count = q.count /\ r.count < r.cap
         /\ \A i \in 0 .. q.count - 1 : at(r, i) = at(q, i)
<1>. DEFINE r == grow(q)
            n == IF 2 * q.cap > MinCap THEN 2 * q.cap ELSE MinCap
<1>1. q.cap \in Nat /\ q.count \in Nat /\ n \in Nat \ {0} /\ n >= MinCap /\ q.count < n
  BY DequeConstants DEF Ring
<1>2. r = [cap |-> n, head |-> 0, count |-> q.count,
           buf |-> [i \in 0 .. n - 1 |-> IF i < q.count THEN at(q, i) ELSE Nothing]]
  BY DEF grow
<1>. HIDE DEF n, r
<1>3. \A i \in 0 .. q.count - 1 : at(q, i) \in Values /\ at(q, i) # Nothing
  <2>1. SUFFICES ASSUME NEW i \in 0 .. q.count - 1 PROVE at(q, i) \in Values /\ at(q, i) # Nothing
    OBVIOUS
  <2>2. q.cap # 0 /\ i \in 0 .. q.cap - 1 /\ i < q.count
    BY <1>1
  <2>3. at(q, i) \in Values
    BY <2>2, AtType, Zenon
  <2>. QED BY <2>3, DequeConstants
<1>4. \A i \in 0 .. n - 1 : at(r, i) = IF i < q.count THEN at(q, i) ELSE Nothing
  <2>1. SUFFICES ASSUME NEW i \in 0 .. n - 1
                 PROVE  at(r, i) = IF i < q.count THEN at(q, i) ELSE Nothing
    OBVIOUS
  <2>2. (0 + i) % n = i
    BY <1>1, ModSmall
  <2>3. at(r, i) = r.buf[i]
    BY <1>2, <2>2 DEF at
  <2>. QED BY <1>2, <2>3
<1>5. r.buf \in [0 .. n - 1 -> Values \cup {Nothing}]
  BY <1>1, <1>2, <1>3
<1>6. Ring(r)
  BY <1>1, <1>2, <1>3, <1>4, <1>5 DEF Ring
<1>. QED BY <1>1, <1>2, <1>4, <1>6 DEF r

\* room leaves a ring with a free slot and the same elements.
LEMMA RoomRing ==
  ASSUME NEW q, Ring(q)
  PROVE  LET r == room(q) IN
         /\ Ring(r) /\ r.count = q.count /\ r.count < r.cap
         /\ \A i \in 0 .. q.count - 1 : at(r, i) = at(q, i)
<1>1. CASE q.count = q.cap
  BY <1>1, GrowRing DEF room
<1>2. CASE q.count # q.cap
  <2>1. q.count < q.cap
    BY <1>2 DEF Ring
  <2>. QED BY <1>2, <2>1 DEF room
<1>. QED BY <1>1, <1>2

\* LPUSH: the new element comes first and the others move one place.
LEMMA PushFrontRing ==
  ASSUME NEW q, Ring(q), NEW v \in Values
  PROVE  LET p == pushFront(q, v) IN
         /\ Ring(p) /\ p.count = q.count + 1
         /\ at(p, 0) = v
         /\ \A i \in 0 .. q.count - 1 : at(p, i + 1) = at(q, i)
<1>. DEFINE r == room(q)
            h == (r.head - 1 + r.cap) % r.cap
            p == setSlot(r, h, v, h, r.count + 1)
<1>1. Ring(r) /\ r.count = q.count /\ r.count < r.cap
      /\ \A i \in 0 .. q.count - 1 : at(r, i) = at(q, i)
  BY RoomRing
<1>2. p = pushFront(q, v)
  BY DEF pushFront
<1>. HIDE DEF r
<1>3. /\ r.cap \in Nat \ {0} /\ r.cap >= MinCap /\ r.head \in 0 .. r.cap - 1
      /\ r.count \in Nat /\ r.count + 1 \in 0 .. r.cap
  BY <1>1 DEF Ring
<1>4. h = Slot(r.cap, r.head, r.cap - 1) /\ h \in 0 .. r.cap - 1
  <2>1. r.cap - 1 \in 0 .. r.cap - 1 /\ r.cap - 1 \in 0 .. r.cap /\ r.head - 1 + r.cap = r.head + (r.cap - 1)
    BY <1>3
  <2>2. (r.head + (r.cap - 1)) % r.cap = Slot(r.cap, r.head, r.cap - 1)
    BY <1>3, <2>1, SlotOf, Zenon
  <2>3. Slot(r.cap, r.head, r.cap - 1) \in 0 .. r.cap - 1
    BY <1>3, <2>1, SlotOneToOne, Zenon
  <2>. QED BY <2>1, <2>2, <2>3
<1>. HIDE DEF h
<1>5. Written(p, r, r.cap - 1, v, h, r.count + 1)
  <2>1. r.cap - 1 \in 0 .. r.cap - 1 /\ r.cap # 0 /\ v \in Values \cup {Nothing}
    BY <1>3
  <2>. QED BY <1>1, <1>4, <2>1, SetSlotAt
<1>. HIDE DEF p
<1>6. ASSUME NEW i \in 0 .. r.cap - 1
      PROVE  p.buf[Slot(r.cap, h, i)] = IF i = 0 THEN v ELSE at(r, i - 1)
  <2>1. CASE i = 0
    <3>1. Slot(r.cap, h, 0) = h
      BY <1>3, <1>4 DEF Slot
    <3>2. p.buf[h] = v
      BY <1>3, <1>4, <1>5 DEF Written
    <3>. QED BY <2>1, <3>1, <3>2
  <2>2. CASE i # 0
    <3>1. Slot(r.cap, h, i) = Slot(r.cap, r.head, i - 1)
      BY <1>3, <1>4, <2>2 DEF Slot
    <3>2. i - 1 \in 0 .. r.cap - 1 /\ i - 1 # r.cap - 1
      BY <1>3, <2>2
    <3>. QED BY <1>5, <2>2, <3>1, <3>2 DEF Written
  <2>. QED BY <2>1, <2>2
<1>7. ASSUME NEW i \in 0 .. r.cap - 1
      PROVE  p.buf[Slot(r.cap, h, i)] # Nothing <=> i < r.count + 1
  <2>1. CASE i = 0
    BY <1>3, <1>6, <2>1, DequeConstants
  <2>2. CASE i # 0
    <3>1. i - 1 \in 0 .. r.cap - 1
      BY <1>3, <2>2
    <3>2. at(r, i - 1) # Nothing <=> i - 1 < r.count
      BY <1>1, <3>1 DEF Ring
    <3>. QED BY <1>3, <1>6, <2>2, <3>2
  <2>. QED BY <2>1, <2>2
<1>8. Ring(p) /\ \A i \in 0 .. r.cap - 1 : at(p, i) = p.buf[Slot(r.cap, h, i)]
  BY <1>3, <1>4, <1>5, <1>7, RingFromAt DEF Written
<1>9. at(p, 0) = v
  BY <1>3, <1>6, <1>8
<1>10. ASSUME NEW i \in 0 .. q.count - 1
       PROVE  at(p, i + 1) = at(q, i)
  <2>1. i + 1 \in 0 .. r.cap - 1 /\ i + 1 # 0 /\ (i + 1) - 1 = i
    BY <1>1, <1>3
  <2>. QED BY <1>1, <1>6, <1>8, <2>1
<1>. QED BY <1>1, <1>2, <1>5, <1>8, <1>9, <1>10 DEF Written

\* RPUSH: the new element comes last and the others stay.
LEMMA PushBackRing ==
  ASSUME NEW q, Ring(q), NEW v \in Values
  PROVE  LET p == pushBack(q, v) IN
         /\ Ring(p) /\ p.count = q.count + 1
         /\ at(p, q.count) = v
         /\ \A i \in 0 .. q.count - 1 : at(p, i) = at(q, i)
<1>. DEFINE r == room(q)
            p == setSlot(r, (r.head + r.count) % r.cap, v, r.head, r.count + 1)
<1>1. Ring(r) /\ r.count = q.count /\ r.count < r.cap
      /\ \A i \in 0 .. q.count - 1 : at(r, i) = at(q, i)
  BY RoomRing
<1>2. p = pushBack(q, v)
  BY DEF pushBack
<1>. HIDE DEF r
<1>3. /\ r.cap \in Nat \ {0} /\ r.cap >= MinCap /\ r.head \in 0 .. r.cap - 1
      /\ r.count \in 0 .. r.cap - 1 /\ r.count \in 0 .. r.cap /\ r.count + 1 \in 0 .. r.cap
  BY <1>1 DEF Ring
<1>4. (r.head + r.count) % r.cap = Slot(r.cap, r.head, r.count)
  BY <1>3, SlotOf, Zenon
<1>5. Written(p, r, r.count, v, r.head, r.count + 1)
  <2>1. r.cap # 0 /\ v \in Values \cup {Nothing}
    BY <1>3
  <2>. QED BY <1>1, <1>3, <1>4, <2>1, SetSlotAt
<1>. HIDE DEF p
<1>6. ASSUME NEW i \in 0 .. r.cap - 1
      PROVE  p.buf[Slot(r.cap, r.head, i)] # Nothing <=> i < r.count + 1
  <2>1. at(r, i) # Nothing <=> i < r.count
    BY <1>1 DEF Ring
  <2>. QED BY <1>3, <1>5, <2>1, DequeConstants DEF Written
<1>7. Ring(p) /\ \A i \in 0 .. r.cap - 1 : at(p, i) = p.buf[Slot(r.cap, r.head, i)]
  BY <1>3, <1>5, <1>6, RingFromAt DEF Written
<1>8. at(p, q.count) = v
  BY <1>1, <1>3, <1>5, <1>7 DEF Written
<1>9. ASSUME NEW i \in 0 .. q.count - 1
      PROVE  at(p, i) = at(q, i)
  <2>1. i \in 0 .. r.cap - 1 /\ i # r.count
    BY <1>1, <1>3
  <2>. QED BY <1>1, <1>5, <1>7, <2>1 DEF Written
<1>. QED BY <1>1, <1>2, <1>5, <1>7, <1>8, <1>9 DEF Written

\* LPOP: the first element is returned and the others move one place.
LEMMA PopFrontRing ==
  ASSUME NEW q, Ring(q), q.count # 0
  PROVE  LET p == popFront(q).st IN
         /\ Ring(p) /\ p.count = q.count - 1
         /\ popFront(q).val = at(q, 0) /\ at(q, 0) \in Values
         /\ \A i \in 0 .. q.count - 2 : at(p, i) = at(q, i + 1)
<1>. DEFINE h == (q.head + 1) % q.cap
            p == setSlot(q, q.head, Nothing, h, q.count - 1)
<1>2. p = popFront(q).st /\ popFront(q).val = q.buf[q.head]
  BY DEF popFront
<1>3. /\ q.cap \in Nat \ {0} /\ q.cap >= MinCap /\ q.head \in 0 .. q.cap - 1
      /\ q.count \in 1 .. q.cap /\ q.count - 1 \in 0 .. q.cap
      /\ 0 \in 0 .. q.cap - 1 /\ 0 \in 0 .. q.cap /\ 1 \in 0 .. q.cap
  BY DEF Ring
<1>4. h = Slot(q.cap, q.head, 1) /\ q.head = Slot(q.cap, q.head, 0)
  <2>1. h = Slot(q.cap, q.head, 1)
    BY <1>3, SlotOf, Zenon
  <2>. QED BY <1>3, <2>1 DEF Slot
<1>. HIDE DEF h
<1>5. h \in 0 .. q.cap - 1
  BY <1>3, <1>4 DEF Slot
<1>6. Written(p, q, 0, Nothing, h, q.count - 1)
  <2>1. q.cap # 0 /\ Nothing \in Values \cup {Nothing}
    BY <1>3
  <2>. QED BY <1>3, <1>4, <2>1, SetSlotAt
<1>. HIDE DEF p
<1>7. at(q, 0) = q.buf[q.head] /\ at(q, 0) \in Values
  <2>1. at(q, 0) = q.buf[Slot(q.cap, q.head, 0)]
    BY <1>3, AtSlot
  <2>2. at(q, 0) \in Values
    BY <1>3, AtType
  <2>. QED BY <1>4, <2>1, <2>2
<1>8. ASSUME NEW i \in 0 .. q.cap - 1
      PROVE  p.buf[Slot(q.cap, h, i)] = IF i = q.cap - 1 THEN Nothing ELSE at(q, i + 1)
  <2>1. CASE i = q.cap - 1
    <3>1. Slot(q.cap, h, i) = Slot(q.cap, q.head, 0)
      BY <1>3, <1>4, <1>5, <2>1 DEF Slot
    <3>. QED BY <1>3, <1>6, <2>1, <3>1 DEF Written
  <2>2. CASE i # q.cap - 1
    <3>1. Slot(q.cap, h, i) = Slot(q.cap, q.head, i + 1)
      BY <1>3, <1>4, <1>5, <2>2 DEF Slot
    <3>2. i + 1 \in 0 .. q.cap - 1 /\ i + 1 # 0
      BY <1>3, <2>2
    <3>. QED BY <1>6, <2>2, <3>1, <3>2 DEF Written
  <2>. QED BY <2>1, <2>2
<1>9. ASSUME NEW i \in 0 .. q.cap - 1
      PROVE  p.buf[Slot(q.cap, h, i)] # Nothing <=> i < q.count - 1
  <2>1. CASE i = q.cap - 1
    BY <1>3, <1>8, <2>1
  <2>2. CASE i # q.cap - 1
    <3>1. i + 1 \in 0 .. q.cap - 1
      BY <1>3, <2>2
    <3>2. at(q, i + 1) # Nothing <=> i + 1 < q.count
      BY <3>1 DEF Ring
    <3>. QED BY <1>3, <1>8, <2>2, <3>2
  <2>. QED BY <2>1, <2>2
<1>10. Ring(p) /\ \A i \in 0 .. q.cap - 1 : at(p, i) = p.buf[Slot(q.cap, h, i)]
  BY <1>3, <1>5, <1>6, <1>9, RingFromAt DEF Written
<1>11. ASSUME NEW i \in 0 .. q.count - 2
       PROVE  at(p, i) = at(q, i + 1)
  <2>1. i \in 0 .. q.cap - 1 /\ i # q.cap - 1
    BY <1>3
  <2>. QED BY <1>8, <1>10, <2>1
<1>. QED BY <1>2, <1>6, <1>7, <1>10, <1>11 DEF Written

\* RPOP: the last element is returned and the others stay.
LEMMA PopBackRing ==
  ASSUME NEW q, Ring(q), q.count # 0
  PROVE  LET p == popBack(q).st IN
         /\ Ring(p) /\ p.count = q.count - 1
         /\ popBack(q).val = at(q, q.count - 1) /\ at(q, q.count - 1) \in Values
         /\ \A i \in 0 .. q.count - 2 : at(p, i) = at(q, i)
<1>. DEFINE s == (q.head + q.count - 1) % q.cap
            p == setSlot(q, s, Nothing, q.head, q.count - 1)
<1>2. p = popBack(q).st /\ popBack(q).val = q.buf[s]
  BY DEF popBack
<1>3. /\ q.cap \in Nat \ {0} /\ q.cap >= MinCap /\ q.head \in 0 .. q.cap - 1
      /\ q.count \in 1 .. q.cap /\ q.count - 1 \in 0 .. q.cap /\ q.count - 1 \in 0 .. q.cap - 1
  BY DEF Ring
<1>4. s = Slot(q.cap, q.head, q.count - 1)
  <2>1. q.head + q.count - 1 = q.head + (q.count - 1)
    BY <1>3
  <2>2. (q.head + (q.count - 1)) % q.cap = Slot(q.cap, q.head, q.count - 1)
    BY <1>3, SlotOf, Zenon
  <2>. QED BY <2>1, <2>2
<1>. HIDE DEF s
<1>5. Written(p, q, q.count - 1, Nothing, q.head, q.count - 1)
  <2>1. q.cap # 0 /\ Nothing \in Values \cup {Nothing}
    BY <1>3
  <2>. QED BY <1>3, <1>4, <2>1, SetSlotAt
<1>. HIDE DEF p
<1>6. at(q, q.count - 1) = q.buf[s] /\ at(q, q.count - 1) \in Values
  <2>1. at(q, q.count - 1) = q.buf[Slot(q.cap, q.head, q.count - 1)]
    BY <1>3, AtSlot
  <2>2. at(q, q.count - 1) \in Values
    BY <1>3, AtType
  <2>. QED BY <1>4, <2>1, <2>2
<1>7. ASSUME NEW i \in 0 .. q.cap - 1
      PROVE  p.buf[Slot(q.cap, q.head, i)] # Nothing <=> i < q.count - 1
  <2>1. at(q, i) # Nothing <=> i < q.count
    BY DEF Ring
  <2>. QED BY <1>3, <1>5, <2>1 DEF Written
<1>8. Ring(p) /\ \A i \in 0 .. q.cap - 1 : at(p, i) = p.buf[Slot(q.cap, q.head, i)]
  BY <1>3, <1>5, <1>7, RingFromAt DEF Written
<1>9. ASSUME NEW i \in 0 .. q.count - 2
      PROVE  at(p, i) = at(q, i)
  <2>1. i \in 0 .. q.cap - 1 /\ i # q.count - 1
    BY <1>3
  <2>. QED BY <1>5, <1>8, <2>1 DEF Written
<1>. QED BY <1>2, <1>5, <1>6, <1>8, <1>9 DEF Written

----------------------------------------------------------------------------
(* The refinement.                                                         *)

\* The elements of a ring are a sequence.
LEMMA ElementsSeq ==
  ASSUME NEW q, Ring(q)
  PROVE  /\ q.count \in Nat
         /\ elements(q) \in Seq(Values) /\ Len(elements(q)) = q.count
         /\ \A i \in 1 .. q.count : elements(q)[i] = at(q, i - 1)
<1>1. q.count \in Nat
  BY DEF Ring
<1>2. ASSUME NEW i \in 1 .. q.count PROVE at(q, i - 1) \in Values
  <2>1. q.cap # 0 /\ i - 1 \in 0 .. q.cap - 1 /\ i - 1 < q.count
    BY DEF Ring
  <2>. QED BY <2>1, AtType
<1>. QED BY <1>1, <1>2 DEF elements

\* LPUSH prepends to the elements.
LEMMA PushFrontElements ==
  ASSUME NEW q, Ring(q), NEW v \in Values
  PROVE  elements(pushFront(q, v)) = <<v>> \o elements(q)
<1>. DEFINE p == pushFront(q, v)
<1>1. Ring(p) /\ p.count = q.count + 1 /\ at(p, 0) = v
      /\ \A i \in 0 .. q.count - 1 : at(p, i + 1) = at(q, i)
  BY PushFrontRing
<1>. HIDE DEF p
<1>2. /\ q.count \in Nat /\ elements(q) \in Seq(Values) /\ Len(elements(q)) = q.count
      /\ \A i \in 1 .. q.count : elements(q)[i] = at(q, i - 1)
  BY ElementsSeq
<1>3. /\ elements(p) \in Seq(Values) /\ Len(elements(p)) = q.count + 1
      /\ \A i \in 1 .. q.count + 1 : elements(p)[i] = at(p, i - 1)
  BY <1>1, ElementsSeq
<1>4. ASSUME NEW i \in 1 .. q.count + 1
      PROVE  elements(p)[i] = (<<v>> \o elements(q))[i]
  <2>1. CASE i = 1
    BY <1>1, <1>2, <1>3, <2>1
  <2>2. CASE i # 1
    <3>1. i - 1 \in 1 .. q.count /\ i - 2 \in 0 .. q.count - 1 /\ (i - 2) + 1 = i - 1 /\ (i - 1) - 1 = i - 2
      BY <1>2, <2>2
    <3>2. elements(p)[i] = elements(q)[i - 1]
      BY <1>1, <1>2, <1>3, <3>1
    <3>. QED BY <1>2, <3>1, <3>2
  <2>. QED BY <2>1, <2>2
<1>5. <<v>> \o elements(q) \in Seq(Values) /\ Len(<<v>> \o elements(q)) = q.count + 1
  BY <1>2
<1>. DEFINE t == <<v>> \o elements(q)
            e == elements(p)
<1>6. e \in Seq(Values) /\ t \in Seq(Values) /\ Len(e) = Len(t) /\ \A i \in 1 .. Len(e) : e[i] = t[i]
  BY <1>3, <1>4, <1>5
<1>. HIDE DEF t, e
<1>7. e = t
  BY <1>6
<1>. QED BY <1>7 DEF p, t, e

\* RPUSH appends to the elements.
LEMMA PushBackElements ==
  ASSUME NEW q, Ring(q), NEW v \in Values
  PROVE  elements(pushBack(q, v)) = Append(elements(q), v)
<1>. DEFINE p == pushBack(q, v)
<1>1. Ring(p) /\ p.count = q.count + 1 /\ at(p, q.count) = v
      /\ \A i \in 0 .. q.count - 1 : at(p, i) = at(q, i)
  BY PushBackRing
<1>. HIDE DEF p
<1>2. /\ q.count \in Nat /\ elements(q) \in Seq(Values) /\ Len(elements(q)) = q.count
      /\ \A i \in 1 .. q.count : elements(q)[i] = at(q, i - 1)
  BY ElementsSeq
<1>3. /\ elements(p) \in Seq(Values) /\ Len(elements(p)) = q.count + 1
      /\ \A i \in 1 .. q.count + 1 : elements(p)[i] = at(p, i - 1)
  BY <1>1, ElementsSeq
<1>4. ASSUME NEW i \in 1 .. q.count + 1
      PROVE  elements(p)[i] = Append(elements(q), v)[i]
  <2>1. CASE i = q.count + 1
    BY <1>1, <1>2, <1>3, <2>1
  <2>2. CASE i # q.count + 1
    <3>1. i \in 1 .. q.count /\ i - 1 \in 0 .. q.count - 1
      BY <1>2, <2>2
    <3>. QED BY <1>1, <1>2, <1>3, <3>1
  <2>. QED BY <2>1, <2>2
<1>5. Append(elements(q), v) \in Seq(Values) /\ Len(Append(elements(q), v)) = q.count + 1
  BY <1>2
<1>. QED BY <1>3, <1>4, <1>5 DEF p

\* LPOP takes the head of the elements.
LEMMA PopFrontElements ==
  ASSUME NEW q, Ring(q), q.count # 0
  PROVE  /\ elements(q) # <<>> /\ popFront(q).val = Head(elements(q))
         /\ elements(popFront(q).st) = Tail(elements(q))
<1>. DEFINE p == popFront(q).st
<1>1. Ring(p) /\ p.count = q.count - 1 /\ popFront(q).val = at(q, 0)
      /\ \A i \in 0 .. q.count - 2 : at(p, i) = at(q, i + 1)
  BY PopFrontRing
<1>. HIDE DEF p
<1>2. /\ q.count \in Nat \ {0} /\ elements(q) \in Seq(Values) /\ Len(elements(q)) = q.count
      /\ \A i \in 1 .. q.count : elements(q)[i] = at(q, i - 1)
  BY ElementsSeq
<1>3. /\ elements(p) \in Seq(Values) /\ Len(elements(p)) = q.count - 1
      /\ \A i \in 1 .. q.count - 1 : elements(p)[i] = at(p, i - 1)
  BY <1>1, ElementsSeq
<1>4. ASSUME NEW i \in 1 .. q.count - 1
      PROVE  elements(p)[i] = Tail(elements(q))[i]
  <2>1. /\ i - 1 \in 0 .. q.count - 2 /\ (i - 1) + 1 = i
        /\ i + 1 \in 1 .. q.count /\ (i + 1) - 1 = i
    BY <1>2
  <2>2. elements(p)[i] = elements(q)[i + 1]
    BY <1>1, <1>2, <1>3, <2>1
  <2>. QED BY <1>2, <2>2
<1>. DEFINE t == Tail(elements(q))
            e == elements(p)
<1>5. e \in Seq(Values) /\ t \in Seq(Values) /\ Len(e) = Len(t) /\ \A i \in 1 .. Len(e) : e[i] = t[i]
  BY <1>2, <1>3, <1>4
<1>6. elements(q) # <<>> /\ Head(elements(q)) = at(q, 0)
  BY <1>2
<1>. HIDE DEF t, e
<1>7. e = t
  BY <1>5
<1>. QED BY <1>1, <1>6, <1>7 DEF p, t, e

\* RPOP takes the last of the elements.
LEMMA PopBackElements ==
  ASSUME NEW q, Ring(q), q.count # 0
  PROVE  /\ elements(q) # <<>> /\ popBack(q).val = elements(q)[Len(elements(q))]
         /\ elements(popBack(q).st) = SubSeq(elements(q), 1, Len(elements(q)) - 1)
<1>. DEFINE p == popBack(q).st
<1>1. Ring(p) /\ p.count = q.count - 1 /\ popBack(q).val = at(q, q.count - 1)
      /\ \A i \in 0 .. q.count - 2 : at(p, i) = at(q, i)
  BY PopBackRing
<1>. HIDE DEF p
<1>2. /\ q.count \in Nat \ {0} /\ elements(q) \in Seq(Values) /\ Len(elements(q)) = q.count
      /\ \A i \in 1 .. q.count : elements(q)[i] = at(q, i - 1)
  BY ElementsSeq
<1>3. /\ elements(p) \in Seq(Values) /\ Len(elements(p)) = q.count - 1
      /\ \A i \in 1 .. q.count - 1 : elements(p)[i] = at(p, i - 1)
  BY <1>1, ElementsSeq
<1>4. ASSUME NEW i \in 1 .. q.count - 1
      PROVE  elements(p)[i] = SubSeq(elements(q), 1, q.count - 1)[i]
  <2>1. i - 1 \in 0 .. q.count - 2 /\ i \in 1 .. q.count
    BY <1>2
  <2>2. elements(p)[i] = elements(q)[i]
    BY <1>1, <1>2, <1>3, <2>1
  <2>. QED BY <1>2, <2>2
<1>. DEFINE t == SubSeq(elements(q), 1, q.count - 1)
            e == elements(p)
<1>5. e \in Seq(Values) /\ t \in Seq(Values) /\ Len(e) = Len(t) /\ \A i \in 1 .. Len(e) : e[i] = t[i]
  BY <1>2, <1>3, <1>4
<1>6. elements(q) # <<>> /\ elements(q)[Len(elements(q))] = at(q, q.count - 1)
  BY <1>2
<1>. HIDE DEF t, e
<1>7. e = t
  BY <1>5
<1>. QED BY <1>1, <1>2, <1>6, <1>7 DEF p, t, e

\* The ring invariant holds in every reachable state (deque.go).
THEOREM RingThm == Spec => []RingOK
<1>1. Init => RingOK
  BY DequeConstants DEF Init, RingOK, Ring, Zero
<1>2. RingOK /\ [Next]_vars => RingOK'
  <2>. SUFFICES ASSUME RingOK, [Next]_vars PROVE RingOK'
    OBVIOUS
  <2>0. Ring(d) /\ out \in Values \cup {Nothing}
    BY DEF RingOK
  <2>1. ASSUME NEW v \in Values, PushFront(v) PROVE RingOK'
    <3>1. Ring(pushFront(d, v))
      BY <2>0, PushFrontRing
    <3>. QED BY <2>0, <2>1, <3>1 DEF PushFront, RingOK
  <2>2. ASSUME NEW v \in Values, PushBack(v) PROVE RingOK'
    <3>1. Ring(pushBack(d, v))
      BY <2>0, PushBackRing
    <3>. QED BY <2>0, <2>2, <3>1 DEF PushBack, RingOK
  <2>3. CASE PopFront
    <3>1. CASE d.count = 0
      BY <2>0, <2>3, <3>1 DEF PopFront, popFront, RingOK
    <3>2. CASE d.count # 0
      <4>1. Ring(popFront(d).st) /\ popFront(d).val \in Values
        BY <2>0, <3>2, PopFrontRing
      <4>. QED BY <2>3, <4>1 DEF PopFront, RingOK
    <3>. QED BY <3>1, <3>2
  <2>4. CASE PopBack
    <3>1. CASE d.count = 0
      BY <2>0, <2>4, <3>1 DEF PopBack, popBack, RingOK
    <3>2. CASE d.count # 0
      <4>1. Ring(popBack(d).st) /\ popBack(d).val \in Values
        BY <2>0, <3>2, PopBackRing
      <4>. QED BY <2>4, <4>1 DEF PopBack, RingOK
    <3>. QED BY <3>1, <3>2
  <2>5. CASE UNCHANGED vars
    BY <2>0, <2>5 DEF vars, RingOK
  <2>. QED BY <2>1, <2>2, <2>3, <2>4, <2>5 DEF Next
<1>. QED BY <1>1, <1>2, PTL DEF Spec

\* The ring buffer implements the sequence: each push and pop is the push
\* or pop of the abstract list, with the same result (deque.go's exported
\* behaviour, which commands_list.go relies on).
THEOREM RefinementThm == Spec => ImplementsList
<1>1. Init => List!Init
  <2>. SUFFICES ASSUME Init PROVE List!Init
    OBVIOUS
  <2>1. elements(d) = <<>>
    BY DEF Init, Zero, elements
  <2>. QED BY <2>1 DEF Init, List!Init
<1>2. RingOK /\ [Next]_vars => [List!Next]_<<elements(d), out>>
  <2>. SUFFICES ASSUME RingOK, [Next]_vars PROVE List!Next \/ UNCHANGED <<elements(d), out>>
    OBVIOUS
  <2>0. Ring(d) /\ d.count \in Nat /\ elements(d) \in Seq(Values) /\ Len(elements(d)) = d.count
    BY ElementsSeq DEF RingOK
  <2>1. ASSUME NEW v \in Values, PushFront(v) PROVE List!PushFront(v)
    <3>1. elements(d)' = <<v>> \o elements(d)
      BY <2>0, <2>1, PushFrontElements DEF PushFront
    <3>. QED BY <2>0, <2>1, <3>1 DEF PushFront, List!PushFront
  <2>2. ASSUME NEW v \in Values, PushBack(v) PROVE List!PushBack(v)
    <3>1. elements(d)' = Append(elements(d), v)
      BY <2>0, <2>2, PushBackElements DEF PushBack
    <3>. QED BY <2>0, <2>2, <3>1 DEF PushBack, List!PushBack
  <2>3. CASE PopFront
    <3>1. CASE d.count = 0
      <4>1. d' = d /\ out' = Nothing /\ elements(d) = <<>>
        BY <2>0, <2>3, <3>1 DEF PopFront, popFront
      <4>. QED BY <4>1 DEF List!Next, List!PopFront
    <3>2. CASE d.count # 0
      <4>1. elements(d) # <<>> /\ out' = Head(elements(d)) /\ elements(d)' = Tail(elements(d))
        BY <2>0, <2>3, <3>2, PopFrontElements DEF PopFront
      <4>. QED BY <4>1 DEF List!Next, List!PopFront
    <3>. QED BY <3>1, <3>2
  <2>4. CASE PopBack
    <3>1. CASE d.count = 0
      <4>1. d' = d /\ out' = Nothing /\ elements(d) = <<>>
        BY <2>0, <2>4, <3>1 DEF PopBack, popBack
      <4>. QED BY <4>1 DEF List!Next, List!PopBack
    <3>2. CASE d.count # 0
      <4>1. elements(d) # <<>> /\ out' = elements(d)[Len(elements(d))]
            /\ elements(d)' = SubSeq(elements(d), 1, Len(elements(d)) - 1)
        BY <2>0, <2>4, <3>2, PopBackElements DEF PopBack
      <4>. QED BY <4>1 DEF List!Next, List!PopBack
    <3>. QED BY <3>1, <3>2
  <2>5. CASE UNCHANGED vars
    BY <2>5 DEF vars
  <2>. QED BY <2>1, <2>2, <2>3, <2>4, <2>5 DEF Next, List!Next
<1>. QED BY <1>1, <1>2, RingThm, PTL DEF Spec, ImplementsList, List!Spec
============================================================================
