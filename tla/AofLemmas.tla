----------------------------- MODULE AofLemmas -----------------------------
(***************************************************************************)
(* Lemmas about the files of module Aof, what a replay finds in them, and  *)
(* the types of its variables.                                             *)
(***************************************************************************)
EXTENDS Aof, TLAPS

----------------------------------------------------------------------------
(* Files.                                                                  *)

LEMMA WholeType ==
  ASSUME NEW S \in SUBSET Record
  PROVE  /\ Whole(S) \in Item
         /\ Whole(S).recs = S
         /\ Whole(S).torn = "no"
BY AofConstants DEF Whole, Item

LEMMA StubType ==
  ASSUME NEW stub \in Stubs
  PROVE  stub \in Item /\ stub.recs = {}
BY AofConstants DEF Stubs, Item

LEMMA NewFileType ==
  NoFile \in File /\ NewFile \in File /\ Recs(NoFile) = {} /\ Recs(NewFile) = {}
BY DEF NoFile, NewFile, File, CurrentVersion, Recs, RecsOf

LEMMA AddItemType ==
  ASSUME NEW f \in File, NEW item \in Item
  PROVE  /\ AddItem(f, item) \in File
         /\ AddItem(f, item).ver = f.ver
         /\ AddItem(f, item).dver = f.dver
         /\ AddItem(f, item).synced = f.synced
         /\ AddItem(f, item).items = Append(f.items, item)
<1>1. f \in [ver : -1 .. CurrentVersion, dver : -1 .. CurrentVersion, items : Seq(Item), synced : Nat]
      /\ f.synced <= Len(f.items)
  BY DEF File
<1> DEFINE s == Append(f.items, item)
<1>2. s \in Seq(Item) /\ f.synced <= Len(s)
  BY <1>1
<1> HIDE DEF s
<1>3. AddItem(f, item) = [f EXCEPT !.items = s]
  BY DEF AddItem, s
<1>4. AddItem(f, item) \in File
  BY <1>1, <1>2, <1>3 DEF File
<1> QED BY <1>1, <1>3, <1>4 DEF s

LEMMA SyncType ==
  ASSUME NEW f \in File
  PROVE  /\ Sync(f) \in File
         /\ Sync(f).ver = f.ver
         /\ Sync(f).dver = f.ver
         /\ Sync(f).synced = Len(f.items)
         /\ Sync(f).items = f.items
BY DEF Sync, File

LEMMA HeaderType ==
  ASSUME NEW f \in File
  PROVE  LET g == [f EXCEPT !.ver = CurrentVersion]
         IN  g \in File /\ g.ver = CurrentVersion /\ g.dver = f.dver
             /\ g.items = f.items /\ g.synced = f.synced
<1>1. CurrentVersion \in -1 .. CurrentVersion
  BY DEF CurrentVersion
<1>2. f \in [ver : -1 .. CurrentVersion, dver : -1 .. CurrentVersion, items : Seq(Item), synced : Nat]
      /\ f.synced <= Len(f.items)
  BY DEF File
<1> QED BY <1>1, <1>2 DEF File

LEMMA FoldType ==
  ASSUME NEW f \in File, NEW items \in Seq(Item)
  PROVE  LET g == [f EXCEPT !.items = @ \o items]
         IN  g \in File /\ g.ver = f.ver /\ g.items = f.items \o items
<1>1. f.items \in Seq(Item) /\ f.synced \in Nat /\ f.synced <= Len(f.items)
  BY DEF File
<1>2. f.items \o items \in Seq(Item) /\ Len(f.items \o items) = Len(f.items) + Len(items)
      /\ Len(items) \in Nat /\ Len(f.items) \in Nat
  BY <1>1
<1>3. f.synced <= Len(f.items \o items)
  BY <1>1, <1>2
<1> QED BY <1>1, <1>2, <1>3, Zenon DEF File

LEMMA RecsOfAppend ==
  ASSUME NEW items \in Seq(Item), NEW item \in Item
  PROVE  RecsOf(Append(items, item)) = RecsOf(items) \cup item.recs
<1> DEFINE s == Append(items, item)
<1>1. /\ DOMAIN s = 1 .. Len(items) + 1
      /\ DOMAIN items = 1 .. Len(items)
      /\ \A i \in DOMAIN items : s[i] = items[i]
      /\ s[Len(items) + 1] = item
      /\ Len(items) \in Nat
  OBVIOUS
<1>2. ASSUME NEW r PROVE r \in RecsOf(s) <=> r \in RecsOf(items) \cup item.recs
  <2>1. r \in RecsOf(s) <=> \E i \in DOMAIN s : r \in s[i].recs
    BY DEF RecsOf
  <2>2. r \in RecsOf(items) <=> \E i \in DOMAIN items : r \in items[i].recs
    BY DEF RecsOf
  <2> QED BY <1>1, <2>1, <2>2
<1> QED BY <1>2

LEMMA RecsOfConcat ==
  ASSUME NEW s \in Seq(Item), NEW t \in Seq(Item)
  PROVE  RecsOf(s \o t) = RecsOf(s) \cup RecsOf(t)
<1> DEFINE u == s \o t
<1>1. /\ DOMAIN u = 1 .. Len(s) + Len(t)
      /\ DOMAIN s = 1 .. Len(s) /\ DOMAIN t = 1 .. Len(t)
      /\ \A i \in DOMAIN s : u[i] = s[i]
      /\ \A i \in DOMAIN t : u[Len(s) + i] = t[i]
      /\ Len(s) \in Nat /\ Len(t) \in Nat
      /\ \A i \in DOMAIN u : i \notin DOMAIN s => i - Len(s) \in DOMAIN t /\ u[i] = t[i - Len(s)]
  OBVIOUS
<1>2. ASSUME NEW r PROVE r \in RecsOf(u) <=> r \in RecsOf(s) \cup RecsOf(t)
  <2>1. r \in RecsOf(u) <=> \E i \in DOMAIN u : r \in u[i].recs
    BY DEF RecsOf
  <2>2. r \in RecsOf(s) <=> \E i \in DOMAIN s : r \in s[i].recs
    BY DEF RecsOf
  <2>3. r \in RecsOf(t) <=> \E i \in DOMAIN t : r \in t[i].recs
    BY DEF RecsOf
  <2>4. \A i \in DOMAIN s : i \in DOMAIN u
    BY <1>1
  <2>5. \A i \in DOMAIN t : Len(s) + i \in DOMAIN u
    BY <1>1
  <2> HIDE DEF u
  <2> QED BY <1>1, <2>1, <2>2, <2>3, <2>4, <2>5
<1> QED BY <1>2

LEMMA RecsType ==
  ASSUME NEW items \in Seq(Item)
  PROVE  RecsOf(items) \subseteq Record
<1>1. \A i \in DOMAIN items : items[i] \in Item
  OBVIOUS
<1> QED BY <1>1 DEF RecsOf, Item

LEMMA SyncedRecsBelow ==
  ASSUME NEW f \in File
  PROVE  SyncedRecs(f) \subseteq Recs(f)
BY DEF SyncedRecs, Recs, RecsOf

LEMMA SyncRecs ==
  ASSUME NEW f \in File
  PROVE  Recs(Sync(f)) = Recs(f) /\ SyncedRecs(Sync(f)) = Recs(f)
<1>1. f.items \in Seq(Item) /\ DOMAIN f.items = 1 .. Len(f.items)
  BY DEF File
<1>2. \A j \in DOMAIN f.items : j <= Len(f.items)
  BY <1>1
<1>3. {j \in DOMAIN f.items : j <= Len(f.items)} = DOMAIN f.items
  BY <1>2
<1> QED BY <1>3, SyncType DEF SyncedRecs, Recs, RecsOf

LEMMA AddItemRecs ==
  ASSUME NEW f \in File, NEW item \in Item
  PROVE  /\ Recs(AddItem(f, item)) = Recs(f) \cup item.recs
         /\ SyncedRecs(f) \subseteq SyncedRecs(AddItem(f, item))
<1>1. f.items \in Seq(Item)
  BY DEF File
<1>2. Recs(AddItem(f, item)) = Recs(f) \cup item.recs
  BY <1>1, AddItemType, RecsOfAppend, Zenon DEF Recs
<1>3. \A i \in DOMAIN f.items :
         i \in DOMAIN Append(f.items, item) /\ Append(f.items, item)[i] = f.items[i]
  BY <1>1
<1>4. SyncedRecs(f) \subseteq SyncedRecs(AddItem(f, item))
  <2>1. SUFFICES ASSUME NEW r, NEW i \in DOMAIN f.items, i <= f.synced, r \in f.items[i].recs
                 PROVE  r \in SyncedRecs(AddItem(f, item))
    BY DEF SyncedRecs
  <2> QED BY <1>3, <2>1, AddItemType, ZenonT(40) DEF SyncedRecs
<1> QED BY <1>2, <1>4

LEMMA AddStubRecs ==
  ASSUME NEW f \in File, NEW stub \in Stubs
  PROVE  /\ Recs(AddItem(f, stub)) = Recs(f)
         /\ SyncedRecs(f) \subseteq SyncedRecs(AddItem(f, stub))
<1>1. stub \in Item /\ stub.recs = {}
  BY StubType
<1>2. /\ Recs(AddItem(f, stub)) = Recs(f) \cup stub.recs
      /\ SyncedRecs(f) \subseteq SyncedRecs(AddItem(f, stub))
  BY <1>1, AddItemRecs
<1> QED BY <1>1, <1>2

----------------------------------------------------------------------------
(* What a replay finds: the records of the items before the first stub.    *)

\* The part of them an fsync has covered.
SyncedFound(f) ==
  UNION {f.items[i].recs : i \in {j \in DOMAIN f.items : j <= f.synced /\ ~InStub(f.items, j)}}

LEMMA FoundBelow ==
  ASSUME NEW f \in File
  PROVE  SyncedFound(f) \subseteq Found(f) /\ Found(f) \subseteq Recs(f) /\ Found(f) \subseteq Record
<1>1. f.items \in Seq(Item)
  BY DEF File
<1>2. Found(f) \subseteq Recs(f)
  BY DEF Found, Recs, RecsOf
<1>3. Recs(f) \subseteq Record
  BY <1>1, RecsType, Zenon DEF Recs
<1>4. SyncedFound(f) \subseteq Found(f)
  BY DEF SyncedFound, Found
<1> QED BY <1>2, <1>3, <1>4

LEMMA FoundNone ==
  ASSUME NEW f, f.items = <<>>
  PROVE  Found(f) = {} /\ SyncedFound(f) = {} /\ ~HasStub(f)
BY DEF Found, SyncedFound, HasStub

\* Without a stub a replay finds every record.
LEMMA FoundClean ==
  ASSUME NEW f \in File, ~HasStub(f)
  PROVE  Found(f) = Recs(f)
<1>1. f.items \in Seq(Item) /\ DOMAIN f.items = 1 .. Len(f.items) /\ Len(f.items) \in Nat
  BY DEF File
<1>2. \A j \in DOMAIN f.items : ~InStub(f.items, j)
  BY <1>1 DEF HasStub, InStub
<1>3. {j \in DOMAIN f.items : ~InStub(f.items, j)} = DOMAIN f.items
  BY <1>2
<1> QED BY <1>3 DEF Found, Recs, RecsOf

\* A file with the same items, and no fewer of them synced.
LEMMA FoundSame ==
  ASSUME NEW f \in File, NEW g \in File, g.items = f.items, f.synced <= g.synced
  PROVE  /\ Found(g) = Found(f) /\ SyncedFound(f) \subseteq SyncedFound(g)
         /\ HasStub(g) = HasStub(f)
<1>1. f.synced \in Nat /\ g.synced \in Nat /\ DOMAIN f.items = 1 .. Len(f.items)
  BY DEF File
<1>2. \A j \in DOMAIN f.items : j <= f.synced => j <= g.synced
  BY <1>1
<1>3. SyncedFound(f) \subseteq SyncedFound(g)
  BY <1>2 DEF SyncedFound
<1> QED BY <1>3 DEF Found, HasStub

LEMMA FoundAllSynced ==
  ASSUME NEW f \in File, f.synced = Len(f.items)
  PROVE  SyncedFound(f) = Found(f)
<1>1. f.items \in Seq(Item) /\ DOMAIN f.items = 1 .. Len(f.items) /\ Len(f.items) \in Nat
  BY DEF File
<1>2. \A j \in DOMAIN f.items : j <= f.synced
  BY <1>1
<1> QED BY <1>2 DEF SyncedFound, Found

LEMMA FoundSync ==
  ASSUME NEW f \in File
  PROVE  /\ Found(Sync(f)) = Found(f) /\ SyncedFound(Sync(f)) = Found(f)
         /\ SyncedFound(f) \subseteq SyncedFound(Sync(f))
         /\ HasStub(Sync(f)) = HasStub(f)
<1> DEFINE g == Sync(f)
<1>1. g \in File /\ g.items = f.items /\ g.synced = Len(g.items) /\ f.synced <= g.synced
  BY SyncType DEF File
<1> HIDE DEF g
<1>2. /\ Found(g) = Found(f) /\ SyncedFound(f) \subseteq SyncedFound(g)
      /\ HasStub(g) = HasStub(f)
  BY <1>1, FoundSame
<1>3. SyncedFound(g) = Found(g)
  BY <1>1, FoundAllSynced
<1> QED BY <1>2, <1>3 DEF g

\* What lies before an item decides whether it is found.
LEMMA FoundPrefix ==
  ASSUME NEW f \in File, NEW g \in File, NEW n \in Nat, n <= Len(f.items), n <= Len(g.items),
         \A i \in 1 .. n : g.items[i] = f.items[i]
  PROVE  \A i \in 1 .. n : /\ i \in DOMAIN f.items /\ i \in DOMAIN g.items
                           /\ InStub(g.items, i) = InStub(f.items, i)
<1>1. /\ DOMAIN f.items = 1 .. Len(f.items) /\ Len(f.items) \in Nat
      /\ DOMAIN g.items = 1 .. Len(g.items) /\ Len(g.items) \in Nat
  BY DEF File
<1> SUFFICES ASSUME NEW i \in 1 .. n
             PROVE  /\ i \in DOMAIN f.items /\ i \in DOMAIN g.items
                    /\ InStub(g.items, i) = InStub(f.items, i)
  OBVIOUS
<1>2. \A j \in 1 .. i : g.items[j] = f.items[j]
  OBVIOUS
<1> QED BY <1>1, <1>2, SMTT(30) DEF InStub, IsStub

LEMMA FoundAddItem ==
  ASSUME NEW f \in File, NEW item \in Item
  PROVE  /\ Found(f) \subseteq Found(AddItem(f, item))
         /\ Found(AddItem(f, item)) \subseteq Found(f) \cup item.recs
         /\ SyncedFound(f) \subseteq SyncedFound(AddItem(f, item))
         /\ ~HasStub(f) /\ item.torn = "no" => /\ item.recs \subseteq Found(AddItem(f, item))
                                               /\ ~HasStub(AddItem(f, item))
<1> DEFINE g == AddItem(f, item)
           n == Len(f.items)
<1>1. /\ f.items \in Seq(Item) /\ DOMAIN f.items = 1 .. n /\ n \in Nat
      /\ f.synced \in Nat /\ f.synced <= n
  BY DEF File
<1>2. g \in File /\ g.items = Append(f.items, item) /\ g.synced = f.synced
  BY AddItemType
<1>3. /\ DOMAIN g.items = 1 .. n + 1 /\ Len(g.items) = n + 1
      /\ g.items[n + 1] = item
      /\ \A i \in 1 .. n : g.items[i] = f.items[i]
  BY <1>1, <1>2
<1> HIDE DEF g
<1>4. \A i \in 1 .. n : i \in DOMAIN g.items /\ InStub(g.items, i) = InStub(f.items, i)
  <2>1. n <= Len(f.items) /\ n <= Len(g.items)
    BY <1>1, <1>3
  <2> HIDE DEF n
  <2> QED BY <1>1, <1>2, <1>3, <2>1, FoundPrefix, Zenon
<1>5. Found(f) \subseteq Found(g)
  <2>1. SUFFICES ASSUME NEW r, NEW i \in DOMAIN f.items, ~InStub(f.items, i), r \in f.items[i].recs
                 PROVE  r \in Found(g)
    BY DEF Found
  <2> QED BY <1>1, <1>3, <1>4, <2>1 DEF Found
<1>6. SyncedFound(f) \subseteq SyncedFound(g)
  <2>1. SUFFICES ASSUME NEW r, NEW i \in DOMAIN f.items, i <= f.synced, ~InStub(f.items, i),
                        r \in f.items[i].recs
                 PROVE  r \in SyncedFound(g)
    BY DEF SyncedFound
  <2> QED BY <1>1, <1>2, <1>3, <1>4, <2>1 DEF SyncedFound
<1>7. Found(g) \subseteq Found(f) \cup item.recs
  <2>1. SUFFICES ASSUME NEW r, NEW i \in DOMAIN g.items, ~InStub(g.items, i), r \in g.items[i].recs
                 PROVE  r \in Found(f) \cup item.recs
    BY DEF Found
  <2>2. CASE i = n + 1
    BY <1>3, <2>1, <2>2
  <2>3. CASE i # n + 1
    <3>1. i \in 1 .. n
      BY <1>1, <1>3, <2>3
    <3> QED BY <1>1, <1>3, <1>4, <2>1, <3>1 DEF Found
  <2> QED BY <2>2, <2>3
<1>8. ASSUME ~HasStub(f), item.torn = "no"
      PROVE  item.recs \subseteq Found(g) /\ ~HasStub(g)
  <2>1. \A i \in 1 .. n + 1 : ~IsStub(g.items, i)
    <3> SUFFICES ASSUME NEW i \in 1 .. n + 1 PROVE ~IsStub(g.items, i)
      OBVIOUS
    <3>1. CASE i = n + 1
      BY <1>3, <1>8, <3>1 DEF IsStub
    <3>2. CASE i # n + 1
      <4>1. i \in 1 .. n
        BY <1>1, <3>2
      <4> QED BY <1>1, <1>3, <1>8, <4>1, Zenon DEF HasStub, IsStub
    <3> QED BY <3>1, <3>2
  <2>2. n + 1 \in DOMAIN g.items /\ ~InStub(g.items, n + 1)
    BY <1>1, <1>3, <2>1 DEF InStub
  <2>3. ~HasStub(g)
    BY <1>3, <2>1 DEF HasStub
  <2> QED BY <1>3, <2>2, <2>3 DEF Found
<1> QED BY <1>5, <1>6, <1>7, <1>8 DEF g

LEMMA FoundAddStub ==
  ASSUME NEW f \in File, NEW stub \in Stubs
  PROVE  Found(AddItem(f, stub)) = Found(f) /\ SyncedFound(f) \subseteq SyncedFound(AddItem(f, stub))
<1>1. stub \in Item /\ stub.recs = {}
  BY StubType
<1>2. /\ Found(f) \subseteq Found(AddItem(f, stub))
      /\ Found(AddItem(f, stub)) \subseteq Found(f) \cup stub.recs
      /\ SyncedFound(f) \subseteq SyncedFound(AddItem(f, stub))
  BY <1>1, FoundAddItem, Zenon
<1> QED BY ONLY <1>1, <1>2

\* A file a power loss leaves is a prefix of the one before, at least as long
\* as its synced part, and perhaps a stub.
LEMMA PowerLossShape ==
  ASSUME NEW f \in File, NEW g \in AfterPowerLoss(f)
  PROVE  /\ g \in File
         /\ g.ver \in {f.ver, f.dver} /\ g.dver = g.ver /\ g.synced = Len(g.items)
         /\ \/ g.ver = f.ver /\ Len(g.items) <= Len(f.items)
            \/ g.ver = f.dver /\ Len(g.items) = f.synced
         /\ \E n \in f.synced .. Len(f.items) :
              /\ n <= Len(g.items) /\ \A i \in 1 .. n : g.items[i] = f.items[i]
              /\ "torn" \notin Faults => n = Len(g.items)
<1>1. f.items \in Seq(Item) /\ f.synced \in Nat /\ f.synced <= Len(f.items) /\ Len(f.items) \in Nat
  BY DEF File
<1>2. f.ver \in -1 .. CurrentVersion /\ f.dver \in -1 .. CurrentVersion
  BY DEF File
<1>3. ASSUME NEW n \in f.synced .. Len(f.items), NEW v \in {f.ver, f.dver},
             g = [ver |-> v, dver |-> v, items |-> SubSeq(f.items, 1, n), synced |-> n]
      PROVE  /\ g \in File /\ g.ver = v /\ g.dver = v /\ g.synced = n /\ Len(g.items) = n
             /\ n \in Nat /\ n <= Len(f.items) /\ f.synced <= n
             /\ \A i \in 1 .. n : g.items[i] = f.items[i]
  <2>1. n \in Nat /\ f.synced <= n /\ n <= Len(f.items)
    BY <1>1
  <2> DEFINE p == SubSeq(f.items, 1, n)
  <2>2. p \in Seq(Item) /\ Len(p) = n /\ \A i \in 1 .. n : p[i] = f.items[i]
    BY <1>1, <2>1
  <2>3. g = [ver |-> v, dver |-> v, items |-> p, synced |-> n]
    BY <1>3
  <2> HIDE DEF p
  <2> QED BY <1>2, <2>1, <2>2, <2>3 DEF File
<1>4. ASSUME NEW m \in f.synced + 1 .. Len(f.items), NEW stub \in Stubs, "torn" \in Faults,
             g = [ver |-> f.ver, dver |-> f.ver, synced |-> m,
                  items |-> Append(SubSeq(f.items, 1, m - 1), stub)]
      PROVE  /\ g \in File /\ g.ver = f.ver /\ g.dver = f.ver /\ g.synced = m /\ Len(g.items) = m
             /\ m - 1 \in f.synced .. Len(f.items) /\ m - 1 <= m /\ m <= Len(f.items)
             /\ \A i \in 1 .. m - 1 : g.items[i] = f.items[i]
  <2>1. m \in Nat /\ m - 1 \in Nat /\ f.synced <= m - 1 /\ m <= Len(f.items)
    BY <1>1
  <2> DEFINE p == SubSeq(f.items, 1, m - 1)
             q == Append(p, stub)
  <2>2. p \in Seq(Item) /\ Len(p) = m - 1 /\ \A i \in 1 .. m - 1 : p[i] = f.items[i]
    BY <1>1, <2>1
  <2>3. stub \in Item
    BY StubType
  <2> HIDE DEF p
  <2>4. q \in Seq(Item) /\ Len(q) = m /\ \A i \in 1 .. m - 1 : q[i] = p[i]
    BY <2>1, <2>2, <2>3
  <2>5. g = [ver |-> f.ver, dver |-> f.ver, synced |-> m, items |-> q]
    BY <1>4 DEF p
  <2> HIDE DEF q
  <2>6. g \in File /\ g.ver = f.ver /\ g.dver = f.ver /\ g.synced = m /\ g.items = q
    BY <1>2, <2>1, <2>4, <2>5 DEF File
  <2> QED BY <1>1, <2>1, <2>2, <2>4, <2>6
<1>5. CASE \E n \in f.synced .. Len(f.items) :
             g = [ver |-> f.ver, dver |-> f.ver, items |-> SubSeq(f.items, 1, n), synced |-> n]
  <2>1. PICK n \in f.synced .. Len(f.items) :
             g = [ver |-> f.ver, dver |-> f.ver, items |-> SubSeq(f.items, 1, n), synced |-> n]
    BY <1>5, Zenon
  <2>2. /\ g \in File /\ g.ver = f.ver /\ g.dver = f.ver /\ g.synced = n /\ Len(g.items) = n
        /\ n \in Nat /\ n <= Len(f.items) /\ \A i \in 1 .. n : g.items[i] = f.items[i]
    BY <1>3, <2>1, Zenon
  <2> QED BY <2>2
<1>6. CASE "torn" \in Faults /\ \E n \in f.synced + 1 .. Len(f.items), stub \in Stubs :
             g = [ver |-> f.ver, dver |-> f.ver, synced |-> n,
                  items |-> Append(SubSeq(f.items, 1, n - 1), stub)]
  BY <1>4, <1>6, Zenon
<1>7. CASE g = [ver |-> f.dver, dver |-> f.dver, items |-> SubSeq(f.items, 1, f.synced),
                synced |-> f.synced]
  <2>1. f.synced \in f.synced .. Len(f.items)
    BY <1>1
  <2> QED BY <1>3, <1>7, <2>1, Zenon
<1> QED BY <1>5, <1>6, <1>7 DEF AfterPowerLoss

\* A power loss keeps what was fsynced.
LEMMA PowerLossKeeps ==
  ASSUME NEW f \in File, NEW g \in AfterPowerLoss(f)
  PROVE  /\ g \in File
         /\ SyncedFound(f) \subseteq Found(g)
         /\ SyncedFound(g) = Found(g)
         /\ "torn" \notin Faults /\ ~HasStub(f) => ~HasStub(g)
<1>1. PICK n \in f.synced .. Len(f.items) :
         /\ n <= Len(g.items) /\ \A i \in 1 .. n : g.items[i] = f.items[i]
         /\ "torn" \notin Faults => n = Len(g.items)
  BY PowerLossShape
<1>2. g \in File /\ g.synced = Len(g.items)
  BY PowerLossShape
<1>3. /\ f.synced \in Nat /\ n \in Nat /\ f.synced <= n /\ n <= Len(f.items)
      /\ DOMAIN f.items = 1 .. Len(f.items) /\ DOMAIN g.items = 1 .. Len(g.items)
      /\ Len(f.items) \in Nat /\ Len(g.items) \in Nat
  BY <1>2 DEF File
<1>4. \A i \in 1 .. n : /\ i \in DOMAIN f.items /\ i \in DOMAIN g.items
                        /\ InStub(g.items, i) = InStub(f.items, i)
  BY <1>1, <1>2, <1>3, FoundPrefix, SMTT(30)
<1>5. SyncedFound(f) \subseteq Found(g)
  <2>1. SUFFICES ASSUME NEW r, NEW i \in DOMAIN f.items, i <= f.synced, ~InStub(f.items, i),
                        r \in f.items[i].recs
                 PROVE  r \in Found(g)
    BY DEF SyncedFound
  <2>2. i \in 1 .. n
    BY <1>3, <2>1
  <2> QED BY <1>1, <1>4, <2>1, <2>2 DEF Found
<1>6. SyncedFound(g) = Found(g)
  BY <1>2, FoundAllSynced
<1>7. "torn" \notin Faults /\ ~HasStub(f) => ~HasStub(g)
  BY <1>1, <1>3, <1>4 DEF HasStub, IsStub
<1> QED BY <1>2, <1>5, <1>6, <1>7

----------------------------------------------------------------------------
(* Types.  A handler past its mutation works on a record.                  *)

TypeInv ==
  /\ TypeOK
  /\ \A c \in Clients : pc[c] # "idle" => rec[c] \in Record

LEMMA TypeInit == Init => TypeInv
<1> SUFFICES ASSUME Init PROVE TypeInv
  OBVIOUS
<1>1. aof \in File
  BY NewFileType DEF Init, File, CurrentVersion
<1>2. side \in [armed : BOOLEAN, items : Seq(Item)]
  BY DEF Init, NoSide
<1>3. 1 \in 1 .. MaxRecords + 1 /\ 0 \in 0 .. MaxRecords /\ 0 \in Nat
  BY AofConstants
<1>4. TypeOK
  BY <1>1, <1>2, <1>3, NewFileType, Zenon DEF Init, TypeOK
<1> QED BY <1>4 DEF TypeInv, Init

LEMMA TypeStep == TypeInv /\ [Next]_vars => TypeInv'
<1> SUFFICES ASSUME TypeInv, [Next]_vars PROVE TypeInv'
  OBVIOUS
<1> USE AofConstants DEF TypeInv, TypeOK
<1> NoSide \in [armed : BOOLEAN, items : Seq(Item)]
  BY DEF NoSide
<1>1. CASE Replay
  <2>1. Found(aof) \subseteq Record
    BY FoundBelow
  <2> QED BY <1>1, <2>1 DEF Replay, diskVars, writerVars, countVars
<1>2. CASE Open
  <2>1. [aof EXCEPT !.ver = CurrentVersion] \in File
    BY HeaderType
  <2>2. aof' \in File /\ dirSynced' \in BOOLEAN /\ prev' \in File
        /\ proc' \in {"created", "headed", "up"}
    BY <1>2, <2>1, NewFileType, Zenon DEF Open
  <2> QED BY <1>2, <2>2, NewFileType, Zenon DEF Open, countVars
<1>3. CASE OpenWriteHeader
  BY <1>3, HeaderType DEF OpenWriteHeader, writerVars, countVars
<1>4. CASE OpenSyncHeader
  BY <1>4, SyncType DEF OpenSyncHeader, SyncCanonical, writerVars, countVars
<1>5. ASSUME NEW c \in Clients, Mutate(c) PROVE TypeInv'
  <2>1. next \in Record /\ next' \in 1 .. MaxRecords + 1 /\ next \in 0 .. MaxRecords
    BY <1>5 DEF Mutate, Record
  <2> QED BY <1>5, <2>1 DEF Mutate, diskVars, writerVars
<1>6. ASSUME NEW c \in Clients, pc[c] = "mutated" PROVE Mirror(c) \in [armed : BOOLEAN, items : Seq(Item)]
  <2>1. Whole({rec[c]}) \in Item
    BY <1>6, WholeType
  <2>2. Append(side.items, Whole({rec[c]})) \in Seq(Item)
    BY <2>1, SMTT(30)
  <2> QED BY <2>2, Zenon DEF Mirror
<1>7. ASSUME NEW c \in Clients, AppendWrite(c) PROVE TypeInv'
  <2>1. aof' \in File
    BY <1>7, WholeType, AddItemType DEF AppendWrite
  <2>2. buried' \subseteq Record
    BY <1>7, Zenon DEF AppendWrite
  <2> QED BY <1>6, <1>7, <2>1, <2>2 DEF AppendWrite
<1>8. ASSUME NEW c \in Clients, AppendWriteFail(c) PROVE TypeInv'
  <2>1. aof' \in File
    BY <1>8, StubType, AddItemType DEF AppendWriteFail
  <2> QED BY <1>6, <1>8, <2>1 DEF AppendWriteFail, countVars
<1>9. ASSUME NEW c \in Clients, AppendReturn(c) PROVE TypeInv'
  <2>1. aof' \in File /\ dirSynced' \in BOOLEAN /\ dirty' \in BOOLEAN
    BY <1>9, SyncType, Zenon DEF AppendReturn, SyncCanonical
  <2> QED BY <1>9, <2>1 DEF AppendReturn, countVars
<1>10. ASSUME NEW c \in Clients, AppendSyncFail(c) PROVE TypeInv'
  BY <1>10 DEF AppendSyncFail, diskVars, countVars
<1>11. ASSUME NEW c \in Clients, Reply(c) PROVE TypeInv'
  BY <1>11 DEF Reply, diskVars, writerVars, countVars
<1>12. CASE EverysecTick \/ EverysecTickFail
  <2>1. aof' \in File /\ dirSynced' \in BOOLEAN
    BY <1>12, SyncType DEF EverysecTick, EverysecTickFail, SyncCanonical, diskVars
  <2> QED BY <1>12, <2>1, ZenonT(40) DEF EverysecTick, EverysecTickFail, diskVars, countVars
<1>13. CASE StartRewrite
  BY <1>13 DEF StartRewrite, diskVars, writerVars
<1>14. CASE BeginRewrite
  BY <1>14 DEF BeginRewrite, diskVars, countVars
<1>15. CASE WriteSnapshot
  <2>1. <<Whole(store)>> \in Seq(Item)
    BY WholeType
  <2>2. tmp' \in File
    BY <1>15, <2>1 DEF WriteSnapshot, File, CurrentVersion
  <2> QED BY <1>15, <2>2, ZenonT(40) DEF WriteSnapshot, writerVars, countVars
<1>16. CASE SyncSnapshot
  BY <1>16, SyncType DEF SyncSnapshot, writerVars, countVars
<1>17. CASE AbortRewrite \/ FoldFail
  BY <1>17, NewFileType DEF AbortRewrite, FoldFail, countVars
<1>18. CASE FoldSideBuffer
  <2>1. [tmp EXCEPT !.items = @ \o side.items] \in File
    BY FoldType, Zenon
  <2> QED BY <1>18, <2>1, SyncType DEF FoldSideBuffer, countVars
<1>19. CASE RenameTmp
  BY <1>19, NewFileType, ZenonT(40) DEF RenameTmp, countVars
<1>20. CASE FsyncDir
  BY <1>20, NewFileType, ZenonT(40) DEF FsyncDir, writerVars, countVars
<1>21. CASE SwapTo \/ SwapFail
  BY <1>21, Zenon DEF SwapTo, SwapFail, diskVars, countVars
<1> DEFINE DiskType == aof' \in File /\ prev' \in File /\ tmp' \in File /\ dirSynced' \in BOOLEAN
<1>22. ASSUME LoseMemory, DiskType, crashes' \in Nat PROVE TypeInv'
  <2>1. 0 \in 0 .. MaxRecords
    OBVIOUS
  <2>2. pc' \in [Clients -> {"idle", "mutated", "written", "appended", "failed"}]
        /\ rec' \in [Clients -> 0 .. MaxRecords]
        /\ \A c \in Clients : pc'[c] = "idle"
    BY <1>22, <2>1, SMTT(30) DEF LoseMemory
  <2> QED BY <1>22, <2>2, Zenon DEF LoseMemory
<1>23. CASE Close
  <2>1. CASE fd = "aof"
    BY <1>22, <1>23, <2>1, SyncType, SMTT(30) DEF Close, SyncCanonical
  <2>2. CASE fd # "aof"
    BY <1>22, <1>23, <2>2, SMTT(30) DEF Close
  <2> QED BY <2>1, <2>2, SMTT(30)
<1>24. CASE Kill
  <2>1. aof' \in File
    BY <1>24, StubType, AddItemType, SMTT(30) DEF Kill
  <2> QED BY <1>22, <1>24, <2>1, SMTT(30) DEF Kill
<1>26. CASE PowerLoss
  <2>1. aof' \in File
    BY <1>26, PowerLossKeeps DEF PowerLoss
  <2> QED BY <1>22, <1>26, <2>1, NewFileType DEF PowerLoss
<1>25. CASE UNCHANGED vars
  BY <1>25 DEF vars, diskVars, writerVars, countVars
<1> QED BY Zenon, <1>1, <1>2, <1>3, <1>4, <1>5, <1>7, <1>8, <1>9, <1>10, <1>11, <1>12, <1>13, <1>14,
           <1>15, <1>16, <1>17, <1>18, <1>19, <1>20, <1>21, <1>23, <1>24, <1>25, <1>26 DEF Next
============================================================================
