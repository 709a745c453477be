----------------------------- MODULE AofSafety -----------------------------
(***************************************************************************)
(* The inductive invariant of module Aof: what the canonical file, the     *)
(* directory, the side buffer and the file of a rewrite hold at every step.*)
(***************************************************************************)
EXTENDS AofLemmas

----------------------------------------------------------------------------
(* Safety.  The conditions under which an acknowledged record survives: no *)
(* power loss, or appendfsync=always on a file system whose fsync also     *)
(* makes the directory entry durable.                                      *)

Regime == "power" \notin Faults \/ (Policy = "always" /\ "lazydir" \notin Faults)

HeaderOK(f) ==
  /\ f.items # <<>> => f.ver = CurrentVersion
  /\ f.synced > 0 => f.dver = CurrentVersion

\* The header is current wherever there are records, in all three files.
InvHeader ==
  /\ HeaderOK(aof) /\ HeaderOK(prev) /\ HeaderOK(tmp)
  /\ proc \in {"headed", "up"} => aof.ver = CurrentVersion
  /\ rw \in {"snapped", "synced", "folded"} => tmp.ver = CurrentVersion
  /\ rw = "folded" => tmp.dver = CurrentVersion

\* A process that does not serve has no handler, no rewrite and no lock.
InvDown ==
  proc # "up" =>
    rw = "idle" /\ mu = "free" /\ side = NoSide /\ \A c \in Clients : pc[c] = "idle"

\* Writer.mu: one appender, or the second half of a rewrite.
InvLock ==
  /\ rw \in {"folded", "renamed", "swapping"} => mu = "rewrite"
  /\ \A c \in Clients : pc[c] = "written" =>
       mu = "append" /\ \A d \in Clients : pc[d] = "written" => d = c

\* The store of a running process is ahead of every file and buffer.
InvStore ==
  Running =>
    /\ Found(aof) \subseteq store
    /\ RecsOf(side.items) \subseteq store
    /\ rw \in {"snapped", "synced", "folded"} => Recs(tmp) \subseteq store
    /\ \A c \in Clients : pc[c] # "idle" => rec[c] \in store

\* The side buffer is armed from before the snapshot until the fold.
InvSide == rw \in {"begun", "snapped", "synced"} => side.armed

Clean(items) == \A i \in DOMAIN items : ~IsStub(items, i)

\* Neither the side buffer nor the file of a rewrite has a stub.
InvClean ==
  /\ Clean(side.items)
  /\ rw \in {"snapped", "synced", "folded"} => Clean(tmp.items)

\* S has what a replay finds, what was acknowledged to a client of this
\* process, and what Append is about to return for.
Covers(S) ==
  /\ Found(aof) \subseteq S
  /\ acked \cap store \subseteq S
  /\ \A c \in Clients : pc[c] \in {"written", "appended"} => rec[c] \in S

InvRewrite ==
  /\ rw \in {"snapped", "synced"} => Covers(Recs(tmp) \cup RecsOf(side.items))
  /\ rw = "folded" => Covers(Found(tmp)) /\ tmp.synced = Len(tmp.items)

\* Every promised record that is not buried is in S.
HeldBy(S) ==
  /\ acked \subseteq S \cup buried
  /\ \A c \in Clients : pc[c] = "appended" => rec[c] \in S \cup buried

\* In the regime, a replay of the canonical file finds what was promised and
\* what is being appended.
InvHeld ==
  Regime =>
    /\ HeldBy(Found(aof))
    /\ \A c \in Clients : pc[c] = "written" => rec[c] \in Found(aof) \cup buried

\* Where power can fail, so does a replay of what is on the disk, whichever
\* file the directory names there.
InvDurable ==
  Regime /\ "power" \in Faults =>
    /\ HeldBy(SyncedFound(aof))
    /\ ~dirSynced => HeldBy(SyncedFound(prev))

\* A header that survives what can happen to it.
Stamped(f) == f.ver = CurrentVersion /\ ("power" \in Faults => f.dver = CurrentVersion)

\* Once a record is promised the header is there for good.
InvStamp ==
  Regime /\ (acked # {} \/ \E c \in Clients : pc[c] = "appended") =>
    /\ Stamped(aof)
    /\ "power" \in Faults /\ ~dirSynced => Stamped(prev)

\* Where no write is torn there is no stub, and nothing is buried.
InvTorn == "torn" \notin Faults => Clean(aof.items) /\ Clean(prev.items) /\ buried = {}

InvRefused == Regime => RefusesOnlyEmpty

\* The inductive invariant, together with TypeInv.
InvFile == InvHeld /\ InvDurable /\ InvStamp /\ InvTorn
SafeInv ==
  /\ InvHeader /\ InvDown /\ InvLock /\ InvStore /\ InvSide /\ InvClean
  /\ InvRewrite /\ InvFile /\ InvRefused

LEMMA CleanNoStub ==
  ASSUME NEW f
  PROVE  Clean(f.items) <=> ~HasStub(f)
BY DEF Clean, HasStub

LEMMA CleanAppend ==
  ASSUME NEW items \in Seq(Item), Clean(items), NEW item \in Item, item.torn = "no"
  PROVE  Clean(Append(items, item))
<1>1. /\ DOMAIN Append(items, item) = 1 .. Len(items) + 1
      /\ DOMAIN items = 1 .. Len(items) /\ Len(items) \in Nat
      /\ \A i \in DOMAIN items : Append(items, item)[i] = items[i]
      /\ Append(items, item)[Len(items) + 1] = item
  OBVIOUS
<1> QED BY <1>1 DEF Clean, IsStub

LEMMA CleanConcat ==
  ASSUME NEW s \in Seq(Item), NEW t \in Seq(Item), Clean(s), Clean(t)
  PROVE  Clean(s \o t)
<1> DEFINE u == s \o t
<1>1. /\ DOMAIN u = 1 .. Len(s) + Len(t)
      /\ DOMAIN s = 1 .. Len(s) /\ DOMAIN t = 1 .. Len(t)
      /\ \A i \in DOMAIN s : u[i] = s[i]
      /\ Len(s) \in Nat /\ Len(t) \in Nat
      /\ \A i \in DOMAIN u : i \notin DOMAIN s => i - Len(s) \in DOMAIN t /\ u[i] = t[i - Len(s)]
  OBVIOUS
<1> HIDE DEF u
<1>2. ASSUME NEW i \in DOMAIN u PROVE ~IsStub(u, i)
  <2>1. CASE i \in DOMAIN s
    BY <1>1, <2>1 DEF Clean, IsStub
  <2>2. CASE i \notin DOMAIN s
    BY <1>1, <2>2 DEF Clean, IsStub
  <2> QED BY <2>1, <2>2
<1> QED BY <1>2 DEF Clean, u

LEMMA NoSideEmpty ==
  NoSide.items = <<>> /\ ~NoSide.armed /\ RecsOf(NoSide.items) = {} /\ Clean(NoSide.items)
BY DEF NoSide, RecsOf, Clean

LEMMA NoFileOK == HeaderOK(NoFile) /\ HeaderOK(NewFile) /\ Clean(NoFile.items) /\ Clean(NewFile.items)
BY DEF NoFile, NewFile, HeaderOK, Clean

LEMMA AddItemOK ==
  ASSUME NEW f \in File, NEW item \in Item, f.ver = CurrentVersion, HeaderOK(f)
  PROVE  HeaderOK(AddItem(f, item)) /\ AddItem(f, item).ver = CurrentVersion
BY AddItemType DEF HeaderOK

LEMMA SyncOK ==
  ASSUME NEW f \in File, HeaderOK(f)
  PROVE  HeaderOK(Sync(f))
<1>1. f.items \in Seq(Item) /\ (Len(f.items) > 0 => f.items # <<>>)
  BY DEF File
<1> QED BY <1>1, SyncType DEF HeaderOK

LEMMA PowerLossOK ==
  ASSUME NEW f \in File, HeaderOK(f), NEW g \in AfterPowerLoss(f)
  PROVE  HeaderOK(g)
<1>1. /\ g \in File /\ g.dver = g.ver /\ g.synced = Len(g.items)
      /\ \/ g.ver = f.ver /\ Len(g.items) <= Len(f.items)
         \/ g.ver = f.dver /\ Len(g.items) = f.synced
  BY PowerLossShape
<1>2. /\ f.items \in Seq(Item) /\ f.synced \in Nat /\ Len(f.items) \in Nat
      /\ (Len(f.items) > 0 => f.items # <<>>)
  BY DEF File
<1>3. g.items \in Seq(Item) /\ Len(g.items) \in Nat /\ (g.items # <<>> => Len(g.items) > 0)
  BY <1>1 DEF File
<1> QED BY <1>1, <1>2, <1>3 DEF HeaderOK

FilesTyped ==
  /\ aof \in File /\ prev \in File /\ tmp \in File /\ dirSynced \in BOOLEAN
  /\ store \subseteq Record
  /\ side \in [armed : BOOLEAN, items : Seq(Item)] /\ side.items \in Seq(Item)

HandlersTyped ==
  /\ pc \in [Clients -> {"idle", "mutated", "written", "appended", "failed"}]
  /\ rec \in [Clients -> 0 .. MaxRecords]
  /\ \A c \in Clients : pc[c] # "idle" => rec[c] \in Record

LEMMA TypeFacts ==
  ASSUME TypeInv
  PROVE  FilesTyped /\ HandlersTyped
BY DEF TypeInv, TypeOK, FilesTyped, HandlersTyped

\* A record is new: no record of a handler or a client has its number.
Fresh ==
  /\ \A r \in acked : r < next
  /\ \A c \in Clients : pc[c] # "idle" => rec[c] < next

LEMMA FreshStep == TypeInv /\ Fresh /\ [Next]_vars => Fresh'
<1> SUFFICES ASSUME TypeInv, Fresh, [Next]_vars PROVE Fresh'
  OBVIOUS
<1> next \in Nat /\ acked \subseteq Nat /\ HandlersTyped
  BY AofConstants, TypeFacts DEF TypeInv, TypeOK, Record
<1> USE DEF Fresh
<1>1. ASSUME NEW c \in Clients, Mutate(c) PROVE Fresh'
  BY <1>1 DEF Mutate, HandlersTyped
<1>2. ASSUME NEW c \in Clients, Reply(c) PROVE Fresh'
  BY <1>2 DEF Reply, HandlersTyped, countVars
<1>3. ASSUME UNCHANGED <<acked, rec, next>>, \A c \in Clients : pc'[c] # "idle" => pc[c] # "idle"
      PROVE  Fresh'
  BY <1>3, Zenon
<1>4. ASSUME NEW c \in Clients,
             AppendWrite(c) \/ AppendWriteFail(c) \/ AppendReturn(c) \/ AppendSyncFail(c)
      PROVE  Fresh'
  <2>1. \A d \in Clients : pc'[d] # "idle" => pc[d] # "idle"
    BY <1>4 DEF AppendWrite, AppendWriteFail, AppendReturn, AppendSyncFail, HandlersTyped
  <2>2. UNCHANGED <<acked, rec, next>>
    BY <1>4, Zenon DEF AppendWrite, AppendWriteFail, AppendReturn, AppendSyncFail, countVars
  <2> QED BY <1>3, <2>1, <2>2, SMTT(30)
<1>5. CASE LoseMemory
  <2>1. \A c \in Clients : pc'[c] = "idle"
    BY <1>5 DEF LoseMemory
  <2> QED BY <1>5, <2>1, Zenon DEF LoseMemory
<1>6. CASE UNCHANGED <<acked, pc, rec, next>>
  BY <1>3, <1>6, Zenon
<1> QED
  BY <1>1, <1>2, <1>4, <1>5, <1>6, Zenon
  DEF Next, Replay, Open, OpenWriteHeader, OpenSyncHeader, EverysecTick, EverysecTickFail,
      StartRewrite, BeginRewrite, WriteSnapshot, SyncSnapshot, AbortRewrite, FoldSideBuffer,
      FoldFail, RenameTmp, FsyncDir, SwapTo, SwapFail, Close, Kill, PowerLoss, countVars, vars

\* What a step that leaves the canonical file, the directory and the handlers
\* alone keeps.
LEMMA FileFrame ==
  ASSUME InvFile, UNCHANGED <<aof, prev, dirSynced, pc, rec, acked, buried>>
  PROVE  InvFile'
<1>1. InvHeld' /\ InvDurable'
  BY Zenon DEF InvFile, InvHeld, InvDurable, HeldBy
<1>2. InvStamp' /\ InvTorn'
  BY Zenon DEF InvFile, InvStamp, Stamped, InvTorn
<1> QED BY <1>1, <1>2 DEF InvFile

\* What a step keeps that touches the canonical file alone: it neither loses
\* a record of it nor its header.
LEMMA FileGrows ==
  ASSUME InvFile,
         Found(aof) \subseteq Found(aof'), SyncedFound(aof) \subseteq SyncedFound(aof'),
         aof.ver = CurrentVersion => aof'.ver = CurrentVersion,
         aof.dver = CurrentVersion => aof'.dver = CurrentVersion,
         "torn" \notin Faults /\ Clean(aof.items) => Clean(aof'.items),
         dirSynced => dirSynced',
         UNCHANGED <<prev, pc, rec, acked, buried>>
  PROVE  InvFile'
<1>1. InvHeld' /\ InvDurable'
  BY DEF InvFile, InvHeld, InvDurable, HeldBy
<1>2. InvStamp' /\ InvTorn'
  BY DEF InvFile, InvStamp, Stamped, InvTorn
<1> QED BY <1>1, <1>2, SMTT(30) DEF InvFile

----------------------------------------------------------------------------
(* One lemma per action: the action keeps SafeInv.                         *)

LEMMA ReplaySafe ==
  ASSUME TypeInv, SafeInv, Replay
  PROVE  SafeInv'
<1> USE DEF SafeInv, Replay, diskVars, writerVars, countVars
<1>1. InvFile'
  BY FileFrame, Zenon
<1>2. InvStore'
  BY NoSideEmpty, Zenon DEF InvStore, Running, InvDown
<1>3. InvRefused'
  <2>1. Exists(aof) /\ ~Readable(aof) /\ ~HasStub(aof) => aof.ver # CurrentVersion
    BY DEF Readable, HasStub, CurrentVersion
  <2>2. Regime /\ aof.ver # CurrentVersion => acked = {}
    BY Zenon DEF InvFile, InvStamp, Stamped
  <2> QED BY <2>1, <2>2, Zenon DEF InvRefused, RefusesOnlyEmpty
<1> QED BY <1>1, <1>2, <1>3, Zenon DEF InvHeader, InvDown, InvLock, InvSide, InvClean, InvRewrite

LEMMA OpenSafe ==
  ASSUME TypeInv, SafeInv, Open
  PROVE  SafeInv'
<1> USE DEF SafeInv, Open, countVars
<1>1. rw = "idle" /\ mu = "free" /\ \A c \in Clients : pc[c] = "idle"
  BY Zenon DEF InvDown
<1>2. proc' # "down" /\ proc' # "refused" /\ Running /\ proc' # "replayed"
  BY DEF Running
<1>3. InvDown' /\ InvLock' /\ InvSide' /\ InvClean' /\ InvRewrite' /\ InvRefused'
  BY <1>1, <1>2, NoSideEmpty, Zenon
     DEF InvDown, InvLock, InvSide, InvClean, InvRewrite, InvRefused, RefusesOnlyEmpty
<1>4. CASE Exists(aof)
  <2> DEFINE f == [aof EXCEPT !.ver = CurrentVersion]
  <2>1. /\ f \in File /\ f.ver = CurrentVersion /\ f.dver = aof.dver
        /\ f.items = aof.items /\ f.synced = aof.synced
    BY HeaderType, TypeFacts DEF FilesTyped
  <2>2. aof' = f /\ dirSynced' = dirSynced /\ prev' = prev
    BY <1>4
  <2> HIDE DEF f
  <2>3. Found(f) = Found(aof) /\ SyncedFound(f) = SyncedFound(aof)
    BY <2>1 DEF Found, SyncedFound
  <2>4. InvHeader'
    BY <1>1, <2>1, <2>2, NoFileOK DEF InvHeader, HeaderOK
  <2>5. InvFile'
    BY <2>1, <2>2, <2>3, FileGrows
  <2>6. InvStore'
    BY <1>1, <1>2, <2>2, <2>3, NoSideEmpty, Zenon DEF InvStore
  <2> QED BY <1>3, <2>4, <2>5, <2>6
<1>5. CASE ~Exists(aof)
  <2>1. aof' = NewFile /\ dirSynced' = FALSE /\ prev' = NoFile /\ proc' = "created"
    BY <1>5
  <2>2. aof.ver # CurrentVersion /\ aof.items = <<>>
    BY <1>5 DEF Exists, CurrentVersion, InvHeader, HeaderOK
  <2>3. (Regime => acked = {}) /\ Found(aof') = {}
    BY <2>1, <2>2, FoundNone DEF InvFile, InvStamp, Stamped, NewFile
  <2>4. InvHeader'
    BY <1>1, <2>1, NoFileOK, Zenon DEF InvHeader
  <2>5. InvHeld' /\ InvDurable' /\ InvStamp'
    BY <1>1, <2>3, Zenon DEF InvHeld, InvDurable, InvStamp, HeldBy
  <2>6. InvTorn'
    BY <2>1, NoFileOK, Zenon DEF InvFile, InvTorn
  <2>7. InvStore'
    BY <1>1, <2>3, NoSideEmpty, Zenon DEF InvStore
  <2> QED BY <1>3, <2>4, <2>5, <2>6, <2>7, Zenon DEF InvFile
<1> QED BY <1>4, <1>5

LEMMA OpenWriteHeaderSafe ==
  ASSUME TypeInv, SafeInv, OpenWriteHeader
  PROVE  SafeInv'
<1> USE DEF SafeInv, OpenWriteHeader, writerVars, countVars
<1>1. /\ aof'.ver = CurrentVersion /\ aof'.dver = aof.dver
      /\ aof'.items = aof.items /\ aof'.synced = aof.synced
  BY HeaderType, TypeFacts DEF FilesTyped
<1>2. Found(aof') = Found(aof) /\ SyncedFound(aof') = SyncedFound(aof)
  BY <1>1 DEF Found, SyncedFound
<1>3. InvHeader' /\ InvRefused'
  BY <1>1 DEF InvHeader, HeaderOK, InvRefused, RefusesOnlyEmpty, InvDown
<1>4. InvFile'
  BY <1>1, <1>2, FileGrows
<1>5. InvStore'
  BY <1>2, Zenon DEF InvStore, Running, InvDown
<1> QED BY <1>3, <1>4, <1>5, Zenon DEF InvDown, InvLock, InvSide, InvClean, InvRewrite

\* An fsync of the canonical file, with nothing else that matters changed.
LEMMA SyncSafe ==
  ASSUME TypeInv, SafeInv, SyncCanonical(aof),
         prev' = prev, tmp' = tmp, side' = side, mu' = mu, store' = store,
         pc' = pc, rec' = rec, rw' = rw, acked' = acked, buried' = buried,
         proc' = proc \/ (proc = "headed" /\ proc' = "up"),
         aof.ver = CurrentVersion
  PROVE  SafeInv'
<1> USE DEF SafeInv
<1>1. aof' = Sync(aof) /\ (dirSynced => dirSynced')
  BY Zenon DEF SyncCanonical
<1>2. /\ Found(aof') = Found(aof) /\ SyncedFound(aof) \subseteq SyncedFound(aof')
      /\ HasStub(aof') = HasStub(aof)
  BY <1>1, FoundSync, TypeFacts DEF FilesTyped
<1>3. /\ HeaderOK(aof') /\ aof'.ver = CurrentVersion /\ aof'.dver = CurrentVersion
      /\ aof'.items = aof.items
  BY <1>1, SyncOK, SyncType, TypeFacts, SMTT(30) DEF FilesTyped, InvHeader
<1>4. InvHeader' /\ InvRefused'
  BY <1>2, <1>3, SMTT(30) DEF InvHeader, InvRefused, RefusesOnlyEmpty
<1>5. InvFile'
  BY <1>1, <1>2, <1>3, FileGrows
<1>6. InvStore'
  BY <1>2, Zenon DEF InvStore, Running
<1>7. InvRewrite'
  BY <1>2, Zenon DEF InvRewrite, Covers
<1> QED BY <1>4, <1>5, <1>6, <1>7, Zenon DEF InvDown, InvLock, InvSide, InvClean

LEMMA MutateSafe ==
  ASSUME TypeInv, Fresh, SafeInv, NEW c \in Clients, Mutate(c)
  PROVE  SafeInv'
<1> USE DEF SafeInv, Mutate, diskVars, writerVars
<1>1. InvHeld' /\ InvDurable' /\ InvStamp' /\ InvTorn'
  BY TypeFacts DEF HandlersTyped, InvFile, InvHeld, InvDurable, InvStamp, InvTorn, Stamped, HeldBy
<1>2. InvStore'
  BY TypeFacts DEF HandlersTyped, InvStore, Running
<1>3. InvRewrite'
  <2>1. acked' \cap store' = acked \cap store
    BY AofConstants DEF Fresh, TypeInv, TypeOK, Record
  <2>2. \A d \in Clients : pc'[d] \in {"written", "appended"} => pc[d] = pc'[d] /\ rec'[d] = rec[d]
    BY TypeFacts DEF HandlersTyped
  <2> QED BY <2>1, <2>2, Zenon DEF InvRewrite, Covers
<1> QED BY <1>1, <1>2, <1>3, TypeFacts, SMTT(30)
        DEF HandlersTyped, InvHeader, InvDown, InvLock, InvSide, InvClean, InvFile, InvRefused, RefusesOnlyEmpty

LEMMA AppendWriteSafe ==
  ASSUME TypeInv, SafeInv, NEW c \in Clients, AppendWrite(c)
  PROVE  SafeInv'
<1> USE DEF SafeInv, AppendWrite
<1> DEFINE item == Whole({rec[c]})
<1>1. item \in Item /\ item.recs = {rec[c]} /\ item.torn = "no"
  BY WholeType, TypeFacts, SMTT(30) DEF HandlersTyped
<1> HIDE DEF item
<1>2. /\ Found(aof) \subseteq Found(aof') /\ Found(aof') \subseteq Found(aof) \cup {rec[c]}
      /\ SyncedFound(aof) \subseteq SyncedFound(aof')
      /\ ~HasStub(aof) => rec[c] \in Found(aof') /\ ~HasStub(aof')
  <2>1. aof \in File /\ aof' = AddItem(aof, item)
    BY TypeFacts DEF FilesTyped, item
  <2> HIDE DEF SafeInv, AppendWrite
  <2> QED BY <1>1, <2>1, FoundAddItem, Zenon
<1>3. HeaderOK(aof') /\ aof'.ver = CurrentVersion /\ aof'.dver = aof.dver
  BY <1>1, AddItemType, AddItemOK, TypeFacts, Zenon DEF FilesTyped, InvHeader, item
<1>4. /\ RecsOf(side'.items) \subseteq RecsOf(side.items) \cup {rec[c]}
      /\ RecsOf(side.items) \subseteq RecsOf(side'.items)
      /\ side.armed => rec[c] \in RecsOf(side'.items)
      /\ side'.armed = side.armed
      /\ Clean(side'.items)
  <2>1. CASE side.armed
    <3>1. side'.items = Append(side.items, item) /\ side'.armed = side.armed
      BY <2>1, TypeFacts, Zenon DEF FilesTyped, Mirror, item
    <3>2. RecsOf(Append(side.items, item)) = RecsOf(side.items) \cup {rec[c]}
      BY <1>1, RecsOfAppend, TypeFacts, SMTT(30) DEF FilesTyped
    <3>3. Clean(Append(side.items, item))
      BY <1>1, CleanAppend, TypeFacts DEF FilesTyped, InvClean
    <3> QED BY <3>1, <3>2, <3>3
  <2>2. CASE ~side.armed
    BY <2>2, Zenon DEF Mirror, InvClean
  <2> QED BY <2>1, <2>2, SMTT(30)
<1>5. rw # "folded"
  BY Zenon DEF InvLock
<1>6. InvHeader' /\ InvRefused' /\ InvClean'
  BY <1>3, <1>4, <1>5, Zenon DEF InvHeader, InvRefused, RefusesOnlyEmpty, InvClean
<1>7. InvLock'
  BY TypeFacts, SMTT(30) DEF HandlersTyped, InvLock
<1>8. /\ pc[c] # "idle" /\ pc'[c] = "written" /\ rec' = rec
      /\ \A d \in Clients : d # c => pc'[d] = pc[d]
  BY TypeFacts DEF HandlersTyped
<1>9. InvStore'
  <2>1. \A d \in Clients : pc'[d] # "idle" => pc[d] # "idle"
    BY <1>8, Zenon
  <2>2. rec[c] \in store /\ \A d \in Clients : pc'[d] # "idle" => rec'[d] \in store'
    BY <1>8, <2>1, Zenon DEF InvStore, Running
  <2> QED BY <1>2, <1>4, <2>2, Zenon DEF InvStore, Running
<1>10. InvRewrite'
  <2>1. CASE rw \in {"snapped", "synced"}
    <3> DEFINE S == Recs(tmp) \cup RecsOf(side.items)
    <3>1. S \subseteq S' /\ rec[c] \in S'
      BY <1>4, <2>1, Zenon DEF InvSide
    <3>2. Covers(S)
      BY <2>1, Zenon DEF InvRewrite
    <3>3. Covers(S)'
      BY <1>2, <1>8, <3>1, <3>2, Zenon DEF Covers
    <3> QED BY <1>5, <3>3, Zenon DEF InvRewrite
  <2>2. CASE rw \notin {"snapped", "synced"}
    BY <1>5, <2>2, Zenon DEF InvRewrite
  <2> QED BY <2>1, <2>2
<1>11. buried \subseteq buried' /\ rec[c] \in Found(aof') \cup buried'
  BY <1>2, Zenon
<1>12. InvHeld' /\ InvDurable'
  <2>1. \A S, T : HeldBy(S) /\ S \subseteq T =>
           /\ acked' \subseteq T \cup buried'
           /\ \A d \in Clients : pc'[d] = "appended" => rec'[d] \in T \cup buried'
    BY <1>8, <1>11, Zenon DEF HeldBy
  <2>2. Regime => /\ acked' \subseteq Found(aof') \cup buried'
                  /\ \A d \in Clients : pc'[d] = "appended" => rec'[d] \in Found(aof') \cup buried'
    BY <1>2, <2>1, Zenon DEF InvFile, InvHeld
  <2>3. Regime => \A d \in Clients : pc'[d] = "written" => rec'[d] \in Found(aof') \cup buried'
    BY <1>2, <1>8, <1>11, Zenon DEF InvFile, InvHeld
  <2>4. Regime /\ "power" \in Faults =>
          /\ acked' \subseteq SyncedFound(aof') \cup buried'
          /\ \A d \in Clients : pc'[d] = "appended" => rec'[d] \in SyncedFound(aof') \cup buried'
    BY <1>2, <2>1, Zenon DEF InvFile, InvDurable
  <2>5. Regime /\ "power" \in Faults /\ ~dirSynced =>
          /\ acked' \subseteq SyncedFound(prev) \cup buried'
          /\ \A d \in Clients : pc'[d] = "appended" => rec'[d] \in SyncedFound(prev) \cup buried'
    BY <2>1, Zenon DEF InvFile, InvDurable
  <2> QED BY <2>2, <2>3, <2>4, <2>5, Zenon DEF InvHeld, InvDurable, HeldBy
<1>13. InvStamp'
  <2>1. (\E d \in Clients : pc'[d] = "appended") => \E d \in Clients : pc[d] = "appended"
    BY <1>8, Zenon
  <2> QED BY <1>3, <2>1, Zenon DEF InvFile, InvStamp, Stamped
<1>14. InvTorn'
  BY <1>2, CleanNoStub, Zenon DEF InvFile, InvTorn
<1> QED BY <1>4, <1>6, <1>7, <1>8, <1>9, <1>10, <1>12, <1>13, <1>14, Zenon DEF InvFile, InvDown, InvSide

LEMMA AppendWriteFailSafe ==
  ASSUME TypeInv, SafeInv, NEW c \in Clients, AppendWriteFail(c)
  PROVE  SafeInv'
<1> USE DEF SafeInv, AppendWriteFail, countVars
<1>1. /\ Found(aof') = Found(aof) /\ SyncedFound(aof) \subseteq SyncedFound(aof')
      /\ HeaderOK(aof') /\ aof'.ver = CurrentVersion /\ aof'.dver = aof.dver
      /\ "torn" \notin Faults => aof' = aof
  <2>1. CASE aof' = aof
    BY <2>1 DEF InvHeader
  <2>2. CASE aof' # aof
    <3>1. PICK stub \in Stubs : aof' = AddItem(aof, stub) /\ "torn" \in Faults
      BY <2>2
    <3>2. stub \in Item /\ stub.recs = {}
      BY StubType, SMTT(30)
    <3>3. aof \in File /\ aof.ver = CurrentVersion /\ HeaderOK(aof)
      BY TypeFacts DEF FilesTyped, InvHeader
    <3>4. Found(aof') = Found(aof) /\ SyncedFound(aof) \subseteq SyncedFound(aof')
      BY <3>1, <3>3, FoundAddStub, SMTT(30)
    <3>5. HeaderOK(aof') /\ aof'.ver = CurrentVersion /\ aof'.dver = aof.dver
      BY <3>1, <3>2, <3>3, AddItemOK, AddItemType
    <3> QED BY <3>1, <3>4, <3>5
  <2> QED BY <2>1, <2>2, SMTT(30)
<1>2. /\ RecsOf(side'.items) \subseteq RecsOf(side.items) \cup {rec[c]}
      /\ RecsOf(side.items) \subseteq RecsOf(side'.items)
      /\ side'.armed = side.armed
      /\ Clean(side'.items)
  <2> DEFINE item == Whole({rec[c]})
  <2>1. item \in Item /\ item.recs = {rec[c]} /\ item.torn = "no"
    BY WholeType, TypeFacts DEF HandlersTyped
  <2>2. side' = side \/ (side'.items = Append(side.items, item) /\ side'.armed = side.armed)
    BY TypeFacts, SMTT(30) DEF FilesTyped, Mirror
  <2> HIDE DEF item
  <2>3. RecsOf(Append(side.items, item)) = RecsOf(side.items) \cup {rec[c]}
        /\ Clean(Append(side.items, item))
    BY <2>1, RecsOfAppend, CleanAppend, TypeFacts DEF FilesTyped, InvClean
  <2> QED BY <2>2, <2>3, Zenon DEF InvClean
<1>3. /\ c \in Clients /\ pc[c] = "mutated" /\ pc'[c] = "failed" /\ rec' = rec
      /\ \A d \in Clients : d # c => pc'[d] = pc[d]
  BY TypeFacts DEF HandlersTyped
<1>a. UNCHANGED <<dirSynced, prev, tmp, mu, proc, store, rec, rw, acked, buried>>
  BY Zenon
<1>b. /\ InvHeader /\ InvDown /\ InvLock /\ InvStore /\ InvSide /\ InvClean /\ InvRewrite
      /\ InvHeld /\ InvDurable /\ InvStamp /\ InvTorn /\ InvRefused
  BY Zenon DEF InvFile
<1> HIDE DEF SafeInv, AppendWriteFail, countVars
<1>c. proc = "up"
  BY Zenon DEF AppendWriteFail
<1>4. InvHeader' /\ InvRefused' /\ InvClean'
  BY ONLY <1>a, <1>b, <1>c, <1>1, <1>2, Zenon DEF InvHeader, InvRefused, RefusesOnlyEmpty, InvClean
<1>5. InvStore'
  BY ONLY <1>a, <1>b, <1>c, <1>1, <1>2, <1>3 DEF InvStore, Running
<1>6. \A d \in Clients : pc'[d] \in {"written", "appended"} => pc[d] = pc'[d]
  BY ONLY <1>a, <1>b, <1>c, <1>3, SMTT(30)
<1>7. InvRewrite'
  BY ONLY <1>a, <1>b, <1>c, <1>1, <1>2, <1>6, SMTT(30) DEF InvRewrite, Covers
<1>8. InvHeld' /\ InvDurable'
  BY ONLY <1>a, <1>b, <1>c, <1>1, <1>3, <1>6, SMTT(30) DEF InvFile, InvHeld, InvDurable, HeldBy
<1>9. InvStamp' /\ InvTorn'
  BY ONLY <1>a, <1>b, <1>c, <1>1, <1>3, <1>6 DEF InvFile, InvStamp, Stamped, InvTorn
<1> QED BY ONLY <1>a, <1>b, <1>c, <1>2, <1>3, <1>4, <1>5, <1>7, <1>8, <1>9, SMTT(30)
        DEF SafeInv, InvFile, InvDown, InvLock, InvSide

LEMMA AppendReturnSafe ==
  ASSUME TypeInv, SafeInv, NEW c \in Clients, AppendReturn(c)
  PROVE  SafeInv'
<1> USE DEF SafeInv, AppendReturn, countVars
<1>1. /\ Found(aof') = Found(aof) /\ SyncedFound(aof) \subseteq SyncedFound(aof')
      /\ HeaderOK(aof') /\ aof'.ver = CurrentVersion
      /\ HasStub(aof') = HasStub(aof)
      /\ aof.dver = CurrentVersion => aof'.dver = CurrentVersion
  <2>1. aof \in File /\ HeaderOK(aof) /\ aof.ver = CurrentVersion /\ aof' \in {aof, Sync(aof)}
    BY TypeFacts, Zenon DEF FilesTyped, InvHeader, SyncCanonical
  <2> HIDE DEF SafeInv, AppendReturn
  <2> QED BY <2>1, FoundSync, SyncOK, SyncType
<1>2. Regime /\ "power" \in Faults =>
        SyncedFound(aof') = Found(aof) /\ dirSynced' /\ aof'.dver = CurrentVersion
  <2>1. aof \in File /\ aof.ver = CurrentVersion
    BY TypeFacts, Zenon DEF FilesTyped, InvHeader
  <2>2. Regime /\ "power" \in Faults => aof' = Sync(aof) /\ dirSynced'
    BY Zenon DEF Regime, SyncCanonical
  <2> QED BY <2>1, <2>2, FoundSync, SyncType, Zenon
<1>3. /\ c \in Clients /\ pc[c] = "written" /\ pc'[c] = "appended" /\ rec' = rec
      /\ \A d \in Clients : d # c => pc'[d] = pc[d]
  BY TypeFacts DEF HandlersTyped
<1>a. UNCHANGED <<prev, tmp, side, proc, store, rec, rw, acked, buried>>
  BY Zenon
<1>c. /\ mu' = "free" /\ proc = "up"
      /\ dirSynced => dirSynced'
  BY Zenon DEF SyncCanonical
<1>b. /\ InvHeader /\ InvDown /\ InvLock /\ InvStore /\ InvSide /\ InvClean /\ InvRewrite
      /\ InvHeld /\ InvDurable /\ InvStamp /\ InvTorn /\ InvRefused
  BY Zenon DEF InvFile
<1> HIDE DEF SafeInv, AppendReturn, countVars
<1>4. InvHeader' /\ InvRefused' /\ InvClean'
  BY ONLY <1>a, <1>b, <1>c, <1>1, Zenon DEF InvHeader, InvRefused, RefusesOnlyEmpty, InvClean
<1>5. InvLock'
  BY ONLY <1>a, <1>b, <1>c, <1>3, Zenon DEF InvLock
<1>6. InvStore'
  BY ONLY <1>a, <1>b, <1>c, <1>1, <1>3, SMTT(30) DEF InvStore, Running
<1>7. InvRewrite'
  BY ONLY <1>a, <1>b, <1>c, <1>1, <1>3, SMTT(30) DEF InvRewrite, Covers
<1>8. InvHeld'
  BY ONLY <1>a, <1>b, <1>c, <1>1, <1>3, SMTT(30) DEF InvFile, InvHeld, HeldBy
<1>9. InvDurable'
  BY ONLY <1>a, <1>b, <1>c, <1>2, <1>3, SMTT(30) DEF InvFile, InvHeld, InvDurable, HeldBy
<1>10. InvStamp'
  BY ONLY <1>a, <1>b, <1>c, <1>1, <1>2, Zenon DEF InvStamp, Stamped
<1>11. InvTorn'
  BY ONLY <1>a, <1>b, <1>c, <1>1, CleanNoStub, Zenon DEF InvFile, InvTorn
<1> QED BY ONLY <1>a, <1>b, <1>c, <1>3, <1>4, <1>5, <1>6, <1>7, <1>8, <1>9, <1>10, <1>11, Zenon
        DEF SafeInv, InvFile, InvDown, InvSide

LEMMA AppendSyncFailSafe ==
  ASSUME TypeInv, SafeInv, NEW c \in Clients, AppendSyncFail(c)
  PROVE  SafeInv'
<1> USE DEF SafeInv, AppendSyncFail, diskVars, countVars
<1>1. /\ c \in Clients /\ pc[c] = "written" /\ pc'[c] = "failed" /\ rec' = rec
      /\ \A d \in Clients : d # c => pc'[d] = pc[d]
  BY TypeFacts DEF HandlersTyped
<1>a. UNCHANGED <<aof, dirSynced, prev, tmp, side, proc, store, rec, rw, acked, buried>>
  BY Zenon
<1>c. mu' = "free" /\ proc = "up"
  BY Zenon
<1>b. /\ InvHeader /\ InvDown /\ InvLock /\ InvStore /\ InvSide /\ InvClean /\ InvRewrite
      /\ InvHeld /\ InvDurable /\ InvStamp /\ InvTorn /\ InvRefused
  BY Zenon DEF InvFile
<1> HIDE DEF SafeInv, AppendSyncFail, diskVars, countVars
<1>2. InvLock'
  BY ONLY <1>a, <1>b, <1>c, <1>1, Zenon DEF InvLock
<1>3. InvStore'
  BY ONLY <1>a, <1>b, <1>c, <1>1, SMTT(30) DEF InvStore, Running
<1>4. InvHeld' /\ InvDurable'
  BY ONLY <1>a, <1>b, <1>c, <1>1, SMTT(30) DEF InvFile, InvHeld, InvDurable, HeldBy
<1>5. InvStamp' /\ InvTorn'
  BY ONLY <1>a, <1>b, <1>c, <1>1, SMTT(30) DEF InvFile, InvStamp, Stamped, InvTorn
<1>6. InvRewrite'
  BY ONLY <1>a, <1>b, <1>c, <1>1, SMTT(30) DEF InvRewrite, Covers
<1> QED BY ONLY <1>a, <1>b, <1>c, <1>1, <1>2, <1>3, <1>4, <1>5, <1>6
        DEF InvHeader, InvDown, InvSide, InvClean, SafeInv, InvFile, InvRefused, RefusesOnlyEmpty

LEMMA ReplySafe ==
  ASSUME TypeInv, SafeInv, NEW c \in Clients, Reply(c)
  PROVE  SafeInv'
<1> USE DEF SafeInv, Reply, diskVars, writerVars, countVars
<1>1. /\ c \in Clients /\ pc[c] # "idle" /\ pc'[c] = "idle"
      /\ \A d \in Clients : d # c => pc'[d] = pc[d] /\ rec'[d] = rec[d]
  BY TypeFacts DEF HandlersTyped
<1>2. acked' \subseteq acked \cup {rec[c]} /\ (pc[c] # "appended" => acked' = acked)
  OBVIOUS
<1>a. UNCHANGED <<aof, dirSynced, prev, tmp, side, mu, proc, store, rw, buried>>
  BY Zenon
<1>b. /\ InvHeader /\ InvDown /\ InvLock /\ InvStore /\ InvSide /\ InvClean /\ InvRewrite
      /\ InvHeld /\ InvDurable /\ InvStamp /\ InvTorn /\ InvRefused
  BY Zenon DEF InvFile
<1>c. InvHeld /\ InvDurable
  BY <1>b, Zenon
<1> HIDE DEF SafeInv, Reply, diskVars, writerVars, countVars
<1>3. InvStore'
  BY ONLY <1>a, <1>b, <1>1, SMTT(30) DEF InvStore, Running
<1>4. InvHeld'
  BY ONLY <1>a, <1>c, <1>1, <1>2, SMTT(30) DEF InvHeld, HeldBy
<1>7. InvDurable'
  BY ONLY <1>a, <1>c, <1>1, <1>2, Zenon DEF InvHeld, InvDurable, HeldBy
<1>5. InvStamp' /\ InvTorn'
  BY ONLY <1>a, <1>b, <1>1, <1>2, SMTT(30) DEF InvFile, InvStamp, Stamped, InvTorn
<1>6. InvRewrite'
  BY ONLY <1>a, <1>b, <1>1, <1>2 DEF InvRewrite, Covers
<1> QED BY ONLY <1>a, <1>b, <1>1, <1>3, <1>4, <1>5, <1>6, <1>7
        DEF InvHeader, InvDown, InvLock, InvSide, InvClean, SafeInv, InvFile, InvRefused, RefusesOnlyEmpty

LEMMA EverysecTickFailSafe ==
  ASSUME TypeInv, SafeInv, EverysecTickFail
  PROVE  SafeInv'
<1> USE DEF SafeInv, EverysecTickFail, diskVars
<1>1. InvFile'
  BY FileFrame, Zenon
<1> QED BY <1>1, Zenon DEF InvHeader, InvDown, InvLock, InvStore, Running, InvSide, InvClean,
                    InvRewrite, Covers, InvRefused, RefusesOnlyEmpty

LEMMA EverysecTickSafe ==
  ASSUME TypeInv, SafeInv, EverysecTick
  PROVE  SafeInv'
<1>1. CASE fd = "aof"
  BY <1>1, SyncSafe DEF EverysecTick, SafeInv, InvHeader
<1>2. CASE fd # "aof"
  <2> USE <1>2 DEF SafeInv, EverysecTick
  <2>1. InvFile'
    BY FileFrame, Zenon
  <2> QED BY <2>1, Zenon DEF InvHeader, InvDown, InvLock, InvStore, Running, InvSide, InvClean,
                      InvRewrite, Covers, InvRefused, RefusesOnlyEmpty
<1> QED BY <1>1, <1>2, Zenon

LEMMA StartRewriteSafe ==
  ASSUME TypeInv, SafeInv, StartRewrite
  PROVE  SafeInv'
<1> USE DEF SafeInv, StartRewrite, diskVars, writerVars
<1>1. InvFile'
  BY FileFrame, Zenon
<1> QED BY <1>1, Zenon DEF InvHeader, InvDown, InvLock, InvStore, Running, InvSide, InvClean,
                    InvRewrite, InvRefused, RefusesOnlyEmpty

LEMMA BeginRewriteSafe ==
  ASSUME TypeInv, SafeInv, BeginRewrite
  PROVE  SafeInv'
<1> USE DEF SafeInv, BeginRewrite, diskVars, countVars
<1>1. side'.items = <<>> /\ side'.armed /\ RecsOf(side'.items) = {} /\ Clean(side'.items)
  <2>1. side' = [armed |-> TRUE, items |-> <<>>]
    OBVIOUS
  <2>2. side'.items = <<>> /\ side'.armed
    BY ONLY <2>1
  <2> QED BY <2>2, NoSideEmpty, Zenon
<1>2. InvFile'
  BY FileFrame, Zenon
<1>3. InvStore' /\ InvRefused'
  BY <1>1, Zenon DEF InvStore, Running, InvRefused, RefusesOnlyEmpty
<1> QED BY <1>1, <1>2, <1>3, Zenon DEF InvHeader, InvDown, InvLock, InvSide, InvClean, InvRewrite

LEMMA WriteSnapshotSafe ==
  ASSUME TypeInv, SafeInv, WriteSnapshot
  PROVE  SafeInv'
<1> USE DEF SafeInv, WriteSnapshot, writerVars, countVars
<1>1. Whole(store) \in Item /\ Whole(store).recs = store /\ Whole(store).torn = "no"
  BY WholeType, TypeFacts, Zenon DEF FilesTyped
<1>2. Recs(tmp') = store /\ HeaderOK(tmp') /\ tmp'.ver = CurrentVersion /\ Clean(tmp'.items)
  <2>1. tmp' = [ver |-> CurrentVersion, dver |-> 0, items |-> <<Whole(store)>>, synced |-> 0]
    OBVIOUS
  <2> QED BY ONLY <1>1, <2>1 DEF Recs, RecsOf, HeaderOK, Clean, IsStub
<1>3. InvFile'
  BY FileFrame, Zenon
<1>4. InvStore'
  BY <1>2, Zenon DEF InvStore, Running
<1>5. InvRewrite'
  <2>1. Covers(store)
    BY Zenon DEF InvStore, Running, Covers
  <2>2. Covers(Recs(tmp) \cup RecsOf(side.items))'
    BY <1>2, <2>1, Zenon DEF Covers
  <2> QED BY <2>2, Zenon DEF InvRewrite
<1> QED BY <1>2, <1>3, <1>4, <1>5, Zenon
        DEF InvHeader, InvDown, InvLock, InvSide, InvClean, InvRefused, RefusesOnlyEmpty

LEMMA SyncSnapshotSafe ==
  ASSUME TypeInv, SafeInv, SyncSnapshot
  PROVE  SafeInv'
<1> USE DEF SafeInv, SyncSnapshot, writerVars, countVars
<1>1. /\ Recs(tmp') = Recs(tmp) /\ HeaderOK(tmp') /\ tmp'.ver = tmp.ver /\ tmp'.items = tmp.items
  <2>1. tmp \in File /\ HeaderOK(tmp) /\ tmp' = Sync(tmp)
    BY TypeFacts, SMTT(30) DEF FilesTyped, InvHeader
  <2>2. Sync(tmp).ver = tmp.ver /\ Sync(tmp).items = tmp.items
    BY <2>1, SyncType
  <2> HIDE DEF SafeInv, SyncSnapshot
  <2> QED BY <2>1, <2>2, SyncRecs, SyncOK, Zenon
<1>2. InvFile'
  BY FileFrame, Zenon
<1>3. InvStore' /\ InvRewrite'
  BY <1>1, Zenon DEF InvStore, Running, InvRewrite, Covers
<1> QED BY <1>1, <1>2, <1>3, Zenon
        DEF InvHeader, InvDown, InvLock, InvSide, InvClean, InvRefused, RefusesOnlyEmpty

LEMMA AbandonSafe ==
  ASSUME TypeInv, SafeInv, AbortRewrite \/ FoldFail
  PROVE  SafeInv'
<1> USE DEF SafeInv, AbortRewrite, FoldFail, countVars
<1>1. InvFile'
  BY FileFrame, Zenon
<1>2. InvHeader' /\ InvRefused'
  BY NoFileOK, NoSideEmpty, Zenon DEF InvHeader, InvRefused, RefusesOnlyEmpty
<1>3. InvStore'
  BY NoSideEmpty DEF InvStore, Running
<1> QED BY <1>1, <1>2, <1>3, NoSideEmpty, Zenon DEF InvDown, InvLock, InvSide, InvClean, InvRewrite

LEMMA FoldSideBufferSafe ==
  ASSUME TypeInv, SafeInv, FoldSideBuffer
  PROVE  SafeInv'
<1> USE DEF SafeInv, FoldSideBuffer, countVars
<1> DEFINE f == [tmp EXCEPT !.items = @ \o side.items]
<1>1. f \in File /\ f.ver = tmp.ver /\ f.items = tmp.items \o side.items
  BY FoldType, TypeFacts, Zenon DEF FilesTyped
<1>2. /\ tmp' = Sync(f) /\ tmp'.ver = tmp.ver /\ tmp'.dver = tmp.ver /\ tmp'.items = f.items
      /\ tmp'.synced = Len(tmp'.items) /\ tmp' \in File
  BY <1>1, SyncType, TypeFacts, Zenon DEF FilesTyped
<1> HIDE DEF f
<1>3. Recs(f) = Recs(tmp) \cup RecsOf(side.items)
  BY <1>1, RecsOfConcat, TypeFacts, Zenon DEF FilesTyped, Recs, File
<1>4. Clean(tmp'.items)
  <2>1. tmp.items \in Seq(Item) /\ side.items \in Seq(Item) /\ Clean(tmp.items) /\ Clean(side.items)
    BY TypeFacts DEF FilesTyped, File, InvClean
  <2> QED BY <1>1, <1>2, <2>1, CleanConcat, Zenon
<1>5. Recs(tmp') = Recs(f) /\ Found(tmp') = Recs(f)
  <2>1. Found(tmp') = Recs(tmp')
    BY <1>2, <1>4, CleanNoStub, FoundClean
  <2> QED BY <1>1, <1>2, <2>1, SyncRecs, Zenon
<1>6. InvHeader'
  BY <1>2 DEF InvHeader, HeaderOK
<1>7. InvRefused' /\ InvClean'
  BY <1>4, Zenon DEF InvRefused, RefusesOnlyEmpty, InvClean
<1>8. InvStore'
  BY <1>3, <1>5, Zenon DEF InvStore, Running
<1>9. InvRewrite'
  <2>1. Covers(Recs(tmp) \cup RecsOf(side.items))
    BY Zenon DEF InvRewrite
  <2>2. Covers(Found(tmp))'
    BY <1>3, <1>5, <2>1, Zenon DEF Covers
  <2> QED BY <1>2, <2>2, Zenon DEF InvRewrite
<1>10. InvFile'
  BY FileFrame, Zenon
<1>11. InvLock'
  BY DEF InvLock
<1> QED BY <1>6, <1>7, <1>8, <1>9, <1>10, <1>11, Zenon DEF InvDown, InvSide

LEMMA RenameTmpSafe ==
  ASSUME TypeInv, SafeInv, RenameTmp
  PROVE  SafeInv'
<1> USE DEF SafeInv, RenameTmp, countVars
<1>1. /\ Found(aof) \subseteq Found(aof') /\ SyncedFound(aof') = Found(aof')
      /\ aof'.ver = CurrentVersion /\ aof'.dver = CurrentVersion
  <2>1. tmp \in File /\ tmp.synced = Len(tmp.items) /\ Found(aof) \subseteq Found(tmp)
        /\ tmp.ver = CurrentVersion /\ tmp.dver = CurrentVersion
    BY TypeFacts, Zenon DEF FilesTyped, InvRewrite, Covers, InvHeader
  <2> QED BY <2>1, FoundAllSynced, Zenon
<1> UNCHANGED <<side, mu, proc, store, pc, rec, acked, buried>>
  BY Zenon
<1> /\ proc = "up" /\ rw = "folded" /\ rw' = "renamed" /\ aof' = tmp /\ tmp' = NoFile
    /\ prev' = (IF dirSynced THEN aof ELSE prev) /\ dirSynced' = FALSE
  BY Zenon
<1> /\ InvHeader /\ InvDown /\ InvLock /\ InvStore /\ InvSide /\ InvClean /\ InvRewrite
    /\ InvHeld /\ InvDurable /\ InvStamp /\ InvTorn /\ InvRefused
  BY Zenon DEF InvFile
<1> HIDE DEF SafeInv, RenameTmp, countVars
<1>2. InvHeader' /\ InvRefused' /\ InvClean'
  BY NoFileOK, Zenon DEF InvHeader, InvRefused, RefusesOnlyEmpty, InvClean
<1>3. InvStore'
  <2>1. Found(tmp) \subseteq Recs(tmp)
    BY FoundBelow, TypeFacts, SMTT(30) DEF FilesTyped
  <2> QED BY <2>1, Zenon DEF InvStore, Running
<1>4. InvHeld'
  BY <1>1, SMTT(30) DEF InvFile, InvHeld, HeldBy
<1>5. InvDurable'
  BY <1>1, SMTT(30) DEF InvFile, InvHeld, InvDurable, HeldBy
<1>6. InvStamp'
  BY <1>1, Zenon DEF InvFile, InvStamp, Stamped
<1>7. InvTorn'
  BY Zenon DEF InvFile, InvTorn, InvClean
<1> QED BY <1>2, <1>3, <1>4, <1>5, <1>6, <1>7, Zenon
        DEF SafeInv, InvFile, InvDown, InvLock, InvSide, InvRewrite

LEMMA FsyncDirSafe ==
  ASSUME TypeInv, SafeInv, FsyncDir
  PROVE  SafeInv'
<1> USE DEF SafeInv, FsyncDir, writerVars, countVars
<1>1. InvHeader' /\ InvRefused'
  BY NoFileOK, Zenon DEF InvHeader, InvRefused, RefusesOnlyEmpty
<1>2. InvHeld' /\ InvDurable'
  BY SMTT(30) DEF InvFile, InvHeld, InvDurable, HeldBy
<1>3. InvStamp' /\ InvTorn'
  BY NoFileOK, Zenon DEF InvFile, InvStamp, Stamped, InvTorn
<1> QED BY <1>1, <1>2, <1>3, Zenon
        DEF InvFile, InvDown, InvLock, InvStore, Running, InvSide, InvClean, InvRewrite

LEMMA SwapSafe ==
  ASSUME TypeInv, SafeInv, SwapTo \/ SwapFail
  PROVE  SafeInv'
<1> USE DEF SafeInv, SwapTo, SwapFail, diskVars, countVars
<1>1. InvFile'
  BY FileFrame, Zenon
<1>2. InvStore' /\ InvRefused'
  BY NoSideEmpty, SMTT(30) DEF InvStore, Running, InvRefused, RefusesOnlyEmpty
<1> QED BY <1>1, <1>2, NoSideEmpty, Zenon DEF InvHeader, InvDown, InvLock, InvSide, InvClean, InvRewrite

\* The process ends: only the canonical file and what the directory names
\* matter from then on.
LEMMA LoseMemorySafe ==
  ASSUME TypeInv, SafeInv, LoseMemory,
         aof' \in File, HeaderOK(aof'),
         prev' \in {prev, NoFile}, tmp' = tmp, dirSynced' \in BOOLEAN,
         Regime => acked \subseteq Found(aof') \cup buried,
         Regime /\ "power" \in Faults =>
           /\ acked \subseteq SyncedFound(aof') \cup buried
           /\ ~dirSynced' => acked \subseteq SyncedFound(prev') \cup buried,
         Regime /\ acked # {} => Stamped(aof'),
         Regime /\ acked # {} /\ "power" \in Faults /\ ~dirSynced' => Stamped(prev'),
         "torn" \notin Faults => Clean(aof'.items)
  PROVE  SafeInv'
<1> USE DEF LoseMemory
<1>1. \A c \in Clients : pc'[c] = "idle"
  BY SMTT(30)
<1>2. InvHeader' /\ InvRefused'
  BY NoFileOK, NoSideEmpty, Zenon DEF SafeInv, InvHeader, InvRefused, RefusesOnlyEmpty
<1>3. InvHeld' /\ InvDurable'
  BY <1>1, Zenon DEF InvHeld, InvDurable, HeldBy
<1>4. InvStamp' /\ InvTorn'
  BY <1>1, NoFileOK, Zenon DEF SafeInv, InvFile, InvStamp, Stamped, InvTorn
<1>5. InvDown' /\ InvLock' /\ InvStore' /\ InvSide' /\ InvClean' /\ InvRewrite'
  BY <1>1, NoSideEmpty DEF InvDown, InvLock, InvStore, Running, InvSide, InvClean, InvRewrite
<1> QED BY <1>2, <1>3, <1>4, <1>5, SMTT(30) DEF SafeInv, InvFile

LEMMA EndSafe ==
  ASSUME TypeInv, SafeInv, Close \/ Kill \/ PowerLoss
  PROVE  SafeInv'
<1> aof \in File /\ prev \in File
  BY TypeFacts, Zenon DEF FilesTyped
<1>1. /\ Regime => acked \subseteq Found(aof) \cup buried
      /\ HeaderOK(aof) /\ HeaderOK(prev)
      /\ "torn" \notin Faults => Clean(aof.items) /\ Clean(prev.items)
  BY SMTT(30) DEF SafeInv, InvFile, InvHeld, HeldBy, InvHeader, InvTorn
<1>2. Regime /\ "power" \in Faults => /\ acked \subseteq SyncedFound(aof) \cup buried
                                      /\ ~dirSynced => acked \subseteq SyncedFound(prev) \cup buried
  BY SMTT(30) DEF SafeInv, InvFile, InvDurable, HeldBy
<1>3. Regime /\ acked # {} => /\ Stamped(aof)
                              /\ "power" \in Faults /\ ~dirSynced => Stamped(prev)
  BY Zenon DEF SafeInv, InvFile, InvStamp
<1>4. CASE Close
  <2>1. LoseMemory /\ prev' = prev /\ tmp' = tmp
    BY <1>4, SMTT(30) DEF Close
  <2>2. CASE fd = "aof"
    <3>1. aof' = Sync(aof) /\ (dirSynced => dirSynced') /\ dirSynced' \in BOOLEAN
      BY <1>4, <2>2, Zenon DEF Close, SyncCanonical
    <3>2. aof' \in File /\ HeaderOK(aof') /\ aof'.ver = aof.ver /\ aof'.dver = aof.ver
      BY <1>1, <3>1, SyncType, SyncOK, SMTT(30)
    <3>3. Found(aof') = Found(aof) /\ SyncedFound(aof') = Found(aof) /\ HasStub(aof') = HasStub(aof)
      BY <3>1, FoundSync
    <3>4. "torn" \notin Faults => Clean(aof'.items)
      BY <1>1, <3>3, CleanNoStub, SMTT(30)
    <3>5. Stamped(aof) => Stamped(aof')
      BY <3>2, SMTT(30) DEF Stamped
    <3> QED BY <1>1, <1>2, <1>3, <2>1, <3>1, <3>2, <3>3, <3>4, <3>5, LoseMemorySafe, Zenon
  <2>3. CASE fd # "aof"
    <3>1. aof' = aof /\ dirSynced' = dirSynced
      BY <1>4, <2>3 DEF Close
    <3> QED BY <1>1, <1>2, <1>3, <2>1, <3>1, LoseMemorySafe, TypeFacts DEF FilesTyped
  <2> QED BY <2>2, <2>3
<1>5. CASE Kill
  <2>1. LoseMemory /\ dirSynced' = dirSynced /\ prev' = prev /\ tmp' = tmp
    BY <1>5, SMTT(30) DEF Kill
  <2>2. CASE aof' = aof
    BY <1>1, <1>2, <1>3, <2>1, <2>2, LoseMemorySafe, TypeFacts, Zenon DEF FilesTyped
  <2>3. CASE aof' # aof
    <3>1. PICK stub \in Stubs : aof' = AddItem(aof, stub) /\ "torn" \in Faults
      BY <1>5, <2>3, SMTT(30) DEF Kill
    <3>2. aof.ver = CurrentVersion
      BY <1>5, <2>3 DEF Kill, SafeInv, InvDown, InvHeader
    <3>3. stub \in Item
      BY StubType, SMTT(30)
    <3>4. aof' \in File /\ HeaderOK(aof') /\ aof'.ver = aof.ver /\ aof'.dver = aof.dver
      BY <1>1, <3>1, <3>2, <3>3, AddItemType, AddItemOK, SMTT(30)
    <3>5. Found(aof') = Found(aof) /\ SyncedFound(aof) \subseteq SyncedFound(aof')
      BY <3>1, FoundAddStub, Zenon
    <3>6. Stamped(aof) => Stamped(aof')
      BY <3>4, SMTT(30) DEF Stamped
    <3> QED
      BY <1>1, <1>2, <1>3, <2>1, <3>1, <3>4, <3>5, <3>6, LoseMemorySafe, TypeFacts, SMTT(30)
      DEF FilesTyped
  <2> QED BY <2>2, <2>3
<1>6. CASE PowerLoss
  <2>1. LoseMemory /\ "power" \in Faults /\ dirSynced' = TRUE /\ prev' = NoFile /\ tmp' = tmp
    BY <1>6 DEF PowerLoss
  <2>2. PICK f \in {aof, prev} : aof' \in AfterPowerLoss(f) /\ (f = prev => f = aof \/ ~dirSynced)
    BY <1>6 DEF PowerLoss
  <2>3. /\ f \in File /\ HeaderOK(f) /\ (Regime => acked \subseteq SyncedFound(f) \cup buried)
        /\ Regime /\ acked # {} => Stamped(f)
        /\ "torn" \notin Faults => Clean(f.items)
    BY <1>1, <1>2, <1>3, <2>1, <2>2, SMTT(30)
  <2>4. aof' \in File /\ HeaderOK(aof')
    BY <2>2, <2>3, PowerLossKeeps, PowerLossOK, SMTT(30)
  <2>5. Regime => acked \subseteq Found(aof') \cup buried /\ acked \subseteq SyncedFound(aof') \cup buried
    BY <2>2, <2>3, PowerLossKeeps, SMTT(30)
  <2>6. "torn" \notin Faults => Clean(aof'.items)
    BY <2>2, <2>3, PowerLossKeeps, CleanNoStub, Zenon
  <2>7. Regime /\ acked # {} => Stamped(aof')
    BY <2>1, <2>2, <2>3, PowerLossShape DEF Stamped
  <2> QED BY <2>1, <2>3, <2>4, <2>5, <2>6, <2>7, LoseMemorySafe, SMTT(30)
<1> QED BY <1>4, <1>5, <1>6
============================================================================
