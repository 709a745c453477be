----------------------------- MODULE AofProofs -----------------------------
(***************************************************************************)
(* What module Aof guarantees for every number of clients, records,        *)
(* rewrites and crashes.                                                   *)
(***************************************************************************)
EXTENDS AofSafety

----------------------------------------------------------------------------
(* The theorems.                                                           *)

\* Every variable keeps its type, for every number of clients, records,
\* rewrites and crashes and every combination of faults.
THEOREM TypeCorrect == Spec => []TypeOK
<1>1. TypeInv => TypeOK
  BY DEF TypeInv
<1> QED BY <1>1, TypeInit, TypeStep, PTL DEF Spec

LEMMA SafeInit == Init => Fresh /\ SafeInv
<1> SUFFICES ASSUME Init PROVE Fresh /\ SafeInv
  BY SMTT(30)
<1>1. aof.items = <<>> /\ aof.synced = 0
  BY DEF Init, NoFile
<1>2. HeaderOK(aof) /\ Clean(aof.items)
  BY <1>1, SMTT(30) DEF HeaderOK, Clean
<1>3. InvHeader /\ InvRefused
  BY <1>2, NoFileOK, NoSideEmpty, Zenon DEF Init, InvHeader, InvRefused, RefusesOnlyEmpty
<1>4. InvHeld /\ InvDurable /\ InvStamp
  BY SMTT(30) DEF Init, InvHeld, InvDurable, InvStamp, HeldBy
<1>5. InvTorn
  BY <1>2, NoFileOK, Zenon DEF Init, InvTorn
<1>6. InvDown /\ InvLock /\ InvStore /\ InvSide /\ InvClean /\ InvRewrite
  BY NoSideEmpty, SMTT(30) DEF Init, InvDown, InvLock, InvStore, Running, InvSide, InvClean, InvRewrite
<1>7. Fresh
  BY DEF Init, Fresh
<1> QED BY <1>3, <1>4, <1>5, <1>6, <1>7 DEF SafeInv, InvFile

LEMMA SafeStep == TypeInv /\ Fresh /\ SafeInv /\ [Next]_vars => SafeInv'
<1> SUFFICES ASSUME TypeInv, Fresh, SafeInv, [Next]_vars PROVE SafeInv'
  BY SMTT(30)
<1>1. CASE OpenSyncHeader
  BY <1>1, SyncSafe, Zenon DEF OpenSyncHeader, SafeInv, InvHeader, writerVars, countVars
<1>2. CASE UNCHANGED vars
  <2> USE <1>2 DEF vars, diskVars, writerVars, countVars
  <2>1. InvFile'
    BY FileFrame, Zenon DEF SafeInv
  <2> QED BY <2>1, Zenon DEF SafeInv, InvHeader, InvDown, InvLock, InvStore, Running, InvSide,
                      InvClean, InvRewrite, Covers, InvRefused, RefusesOnlyEmpty
<1> QED BY <1>1, <1>2, ReplaySafe, OpenSafe, OpenWriteHeaderSafe, MutateSafe, AppendWriteSafe,
           AppendWriteFailSafe, AppendReturnSafe, AppendSyncFailSafe, ReplySafe,
           EverysecTickSafe, EverysecTickFailSafe, StartRewriteSafe, BeginRewriteSafe,
           WriteSnapshotSafe, SyncSnapshotSafe, AbandonSafe, FoldSideBufferSafe,
           RenameTmpSafe, FsyncDirSafe, SwapSafe, EndSafe, Zenon DEF Next

LEMMA Safe == Spec => [](TypeInv /\ SafeInv)
<1>1. Init => TypeInv /\ Fresh /\ SafeInv
  BY TypeInit, SafeInit
<1>2. TypeInv /\ Fresh /\ SafeInv /\ [Next]_vars => (TypeInv /\ Fresh /\ SafeInv)'
  BY TypeStep, FreshStep, SafeStep
<1> QED BY <1>1, <1>2, PTL DEF Spec

\* PRD G6, as far as the code keeps it: as long as no power is lost, or under
\* appendfsync=always on a file system whose fsync makes the directory entry
\* durable too, the store of a running server holds every acknowledged record
\* that was not appended behind the stub of another one, whatever was killed,
\* torn or failed before, at whatever step of an append, a rewrite or a
\* startup.
THEOREM AckedSurvivesThm ==
  ASSUME Regime
  PROVE  Spec => []AckedSurvives
<1>1. TypeInv /\ SafeInv => AckedSurvives
  BY Zenon DEF SafeInv, InvFile, AckedSurvives, InvStore, InvHeld, HeldBy
<1> QED BY <1>1, Safe, PTL

\* PRD G6 in full where no write is cut short inside a record: then nothing
\* is ever appended behind a stub.
THEOREM AckedNeverLostThm ==
  ASSUME Regime, "torn" \notin Faults
  PROVE  Spec => []AckedNeverLost
<1>1. TypeInv /\ SafeInv => AckedNeverLost
  BY DEF SafeInv, InvFile, AckedNeverLost, InvStore, InvHeld, HeldBy, InvTorn
<1> QED BY <1>1, Safe, PTL

\* A server that refuses to start either met a torn record or has never
\* acknowledged anything: the only other unreadable file is the one a crash
\* left without its header on first boot.
THEOREM RefusesOnlyEmptyThm ==
  ASSUME Regime
  PROVE  Spec => []RefusesOnlyEmpty
<1>1. TypeInv /\ SafeInv => RefusesOnlyEmpty
  BY DEF SafeInv, InvRefused
<1> QED BY <1>1, Safe, PTL

\* ADR-0005: at every step of a rewrite a replay of the canonical file finds
\* every record Append has returned for and that was not appended behind a
\* stub; the snapshot with the side buffer, and then the folded file, hold
\* whatever such a replay finds and whatever this process has promised,
\* buried or not.
THEOREM RewriteSafeThm ==
  /\ Spec => []RewriteLosesNothing
  /\ Regime => (Spec => []CanonicalComplete)
<1>1. TypeInv /\ SafeInv => RewriteLosesNothing
  BY DEF SafeInv, InvRewrite, Covers, RewriteLosesNothing, Promised
<1>2. Spec => []RewriteLosesNothing
  BY <1>1, Safe, PTL
<1>3. ASSUME Regime PROVE Spec => []CanonicalComplete
  <2>1. TypeInv /\ SafeInv => CanonicalComplete
    BY <1>3, Zenon DEF SafeInv, InvFile, InvHeld, HeldBy, CanonicalComplete, Promised
  <2> QED BY <2>1, Safe, PTL
<1> QED BY <1>2, <1>3, SMTT(30)

\* format.go: no record is ever in a file, or on disk, under a header older
\* than its format.
THEOREM HeaderGatesThm == Spec => []HeaderGates
<1>1. TypeInv /\ SafeInv => HeaderGates
  BY DEF SafeInv, InvHeader, HeaderOK, HeaderGates
<1> QED BY <1>1, Safe, PTL

\* Nothing a running server does takes a record out of what a replay of the
\* canonical file finds, whatever its policy and the file system: an append
\* adds to it, an fsync leaves it, and what the rename of a rewrite puts in
\* its place was folded from a snapshot and a side buffer that hold at least
\* as much.
THEOREM CanonicalNeverShrinksThm == Spec => CanonicalNeverShrinks
<1> DEFINE Kept == proc = "up" /\ proc' = "up" => Found(aof) \subseteq Found(aof')
<1>1. TypeInv /\ SafeInv /\ [Next]_vars => [Kept]_vars
  <2> SUFFICES ASSUME TypeInv, SafeInv, Next, proc = "up", proc' = "up"
               PROVE  Found(aof) \subseteq Found(aof')
    OBVIOUS
  <2> aof \in File /\ tmp \in File
    BY TypeFacts, SMTT(30) DEF FilesTyped
  <2>1. ASSUME NEW c \in Clients, AppendWrite(c) PROVE Found(aof) \subseteq Found(aof')
    BY <2>1, WholeType, FoundAddItem, TypeFacts, Zenon DEF AppendWrite, HandlersTyped
  <2>2. ASSUME NEW c \in Clients, AppendWriteFail(c) PROVE Found(aof) \subseteq Found(aof')
    BY <2>2, FoundAddStub, SMTT(30) DEF AppendWriteFail
  <2>3. ASSUME NEW c \in Clients, AppendReturn(c) PROVE Found(aof) \subseteq Found(aof')
    BY <2>3, FoundSync, SMTT(30) DEF AppendReturn, SyncCanonical
  <2>4. CASE EverysecTick
    BY <2>4, FoundSync, Zenon DEF EverysecTick, SyncCanonical
  <2>5. CASE RenameTmp
    BY <2>5 DEF RenameTmp, SafeInv, InvRewrite, Covers
  <2>6. CASE UNCHANGED aof
    BY <2>6
  <2> QED
    BY <2>1, <2>2, <2>3, <2>4, <2>5, <2>6, ZenonT(40)
    DEF Next, Replay, Open, OpenWriteHeader, OpenSyncHeader, Mutate, AppendSyncFail, Reply,
        EverysecTickFail, StartRewrite, BeginRewrite, WriteSnapshot, SyncSnapshot, AbortRewrite,
        FoldSideBuffer, FoldFail, FsyncDir, SwapTo, SwapFail, Close, Kill, PowerLoss, LoseMemory,
        diskVars
<1> QED BY <1>1, Safe, PTL DEF Spec, CanonicalNeverShrinks

----------------------------------------------------------------------------
(* What Writer.dirty says.                                                 *)

\* Every whole record of the file is on disk.
AllSynced(f) == Recs(f) \subseteq SyncedRecs(f)

\* The inductive invariant: Append holds the lock with dirty set; the file a
\* rewrite is about to rename is durable, so the canonical file is too from
\* the rename until the writer has a descriptor for it again, and after Close.
CleanInv ==
  /\ rw = "folded" => AllSynced(tmp)
  /\ rw \in {"renamed", "swapping"} => fd # "aof"
  /\ mu = "append" => dirty
  /\ crashes = 0 /\ (proc # "up" \/ fd # "aof") => AllSynced(aof)
  /\ CleanIsDurable

LEMMA SyncAllSynced ==
  ASSUME NEW f \in File
  PROVE  AllSynced(Sync(f))
BY SyncRecs DEF AllSynced

LEMMA EmptyAllSynced ==
  ASSUME NEW f \in File, f.items = <<>>
  PROVE  AllSynced(f)
BY DEF AllSynced, Recs, RecsOf

LEMMA StubAllSynced ==
  ASSUME NEW f \in File, AllSynced(f), NEW stub \in Stubs
  PROVE  AllSynced(AddItem(f, stub))
BY AddStubRecs DEF AllSynced

LEMMA CleanStep == TypeInv /\ SafeInv /\ CleanInv /\ [Next]_vars => CleanInv'
<1> SUFFICES ASSUME TypeInv, SafeInv, CleanInv, [Next]_vars PROVE CleanInv'
  OBVIOUS
<1> aof \in File /\ tmp \in File /\ crashes \in Nat
  BY SMTT(30) DEF TypeInv, TypeOK
<1> USE DEF CleanInv, CleanIsDurable
<1>1. CASE Replay
  BY <1>1 DEF Replay, AllSynced, diskVars, writerVars, countVars
<1>2. CASE Open
  <2>1. crashes = 0 => AllSynced(aof')
    <3>1. CASE Exists(aof)
      <4>1. aof'.items = aof.items /\ aof'.synced = aof.synced
        BY <1>2, <3>1, HeaderType, Zenon DEF Open
      <4>2. crashes = 0 => AllSynced(aof)
        BY <1>2 DEF Open
      <4> QED BY <4>1, <4>2 DEF AllSynced, Recs, SyncedRecs
    <3>2. CASE ~Exists(aof)
      BY <1>2, <3>2, NewFileType, EmptyAllSynced DEF Open, NewFile
    <3> QED BY <3>1, <3>2, Zenon
  <2>2. rw = "idle"
    BY <1>2 DEF Open, SafeInv, InvDown
  <2> QED BY <1>2, <2>1, <2>2, SMTT(30) DEF Open, AllSynced, countVars
<1>3. CASE OpenWriteHeader
  <2>1. aof'.items = aof.items /\ aof'.synced = aof.synced
    BY <1>3, HeaderType DEF OpenWriteHeader
  <2>2. AllSynced(aof) => AllSynced(aof')
    BY <2>1 DEF AllSynced, Recs, SyncedRecs
  <2> QED BY <1>3, <2>2 DEF OpenWriteHeader, AllSynced, writerVars, countVars
<1>4. CASE OpenSyncHeader
  BY <1>4, SyncAllSynced, Zenon DEF OpenSyncHeader, SyncCanonical, AllSynced, writerVars, countVars
<1>5. ASSUME NEW c \in Clients, Mutate(c) \/ Reply(c) PROVE CleanInv'
  BY <1>5, SMTT(30) DEF Mutate, Reply, AllSynced, diskVars, writerVars, countVars
<1>6. ASSUME NEW c \in Clients, AppendWrite(c) PROVE CleanInv'
  BY <1>6, Zenon DEF AppendWrite, AllSynced, countVars
<1>7. ASSUME NEW c \in Clients, AppendWriteFail(c) PROVE CleanInv'
  <2>1. AllSynced(aof) => AllSynced(aof')
    BY <1>7, StubAllSynced DEF AppendWriteFail
  <2> QED BY <1>7, <2>1, SMTT(30) DEF AppendWriteFail, AllSynced, countVars
<1>8. ASSUME NEW c \in Clients, AppendReturn(c) \/ AppendSyncFail(c) PROVE CleanInv'
  <2>1. mu = "append" /\ rw # "folded" /\ dirty
    BY <1>8, SMTT(30) DEF AppendReturn, AppendSyncFail, SafeInv, InvLock
  <2>2. AllSynced(aof) => AllSynced(aof')
    BY <1>8, SyncAllSynced DEF AppendReturn, AppendSyncFail, SyncCanonical, diskVars
  <2>3. ~dirty' => AllSynced(aof')
    BY <1>8, <2>1, SyncAllSynced, Zenon DEF AppendReturn, AppendSyncFail, SyncCanonical
  <2> QED BY <1>8, <2>1, <2>2, <2>3, Zenon DEF AppendReturn, AppendSyncFail, AllSynced, diskVars, countVars
<1>9. CASE EverysecTick
  <2>1. CASE fd = "aof"
    BY <1>9, <2>1, SyncAllSynced, SMTT(30) DEF EverysecTick, SyncCanonical, AllSynced
  <2>2. CASE fd # "aof"
    BY <1>9, <2>2, SMTT(30) DEF EverysecTick, AllSynced
  <2> QED BY <2>1, <2>2, SMTT(30)
<1>10. CASE EverysecTickFail
  BY <1>10, SMTT(30) DEF EverysecTickFail, AllSynced, diskVars
<1>11. CASE StartRewrite \/ BeginRewrite \/ WriteSnapshot \/ SyncSnapshot \/ AbortRewrite \/ FoldFail
  BY <1>11, Zenon DEF StartRewrite, BeginRewrite, WriteSnapshot, SyncSnapshot, AbortRewrite, FoldFail,
               AllSynced, diskVars, writerVars, countVars
<1>12. CASE FoldSideBuffer
  <2>1. [tmp EXCEPT !.items = @ \o side.items] \in File
    BY FoldType, TypeFacts, Zenon DEF FilesTyped
  <2>2. AllSynced(tmp')
    BY <1>12, <2>1, SyncAllSynced, SMTT(30) DEF FoldSideBuffer
  <2> QED BY <1>12, <2>2, Zenon DEF FoldSideBuffer, AllSynced, countVars
<1>13. CASE RenameTmp
  BY <1>13, SMTT(30) DEF RenameTmp, AllSynced, countVars
<1>14. CASE FsyncDir
  BY <1>14, SMTT(30) DEF FsyncDir, AllSynced, writerVars, countVars
<1>15. CASE SwapTo \/ SwapFail
  BY <1>15, SMTT(30) DEF SwapTo, SwapFail, AllSynced, diskVars, countVars
<1>16. CASE Close
  <2>1. crashes = 0 => AllSynced(aof')
    BY <1>16, SyncAllSynced, SMTT(30) DEF Close, SyncCanonical, SafeInv, InvDown
  <2> QED BY <1>16, <2>1, SMTT(30) DEF Close, LoseMemory, AllSynced
<1>17. CASE Kill \/ PowerLoss
  <2>1. crashes' # 0
    BY <1>17, SMTT(30) DEF Kill, PowerLoss
  <2> QED BY <1>17, <2>1, SMTT(30) DEF Kill, PowerLoss, LoseMemory
<1>18. CASE UNCHANGED vars
  BY <1>18 DEF vars, AllSynced, diskVars, writerVars, countVars
<1> QED BY <1>1, <1>2, <1>3, <1>4, <1>5, <1>6, <1>7, <1>8, <1>9, <1>10, <1>11, <1>12, <1>13,
           <1>14, <1>15, <1>16, <1>17, <1>18, Zenon DEF Next

\* writer.go, Writer.dirty: whatever the policy, once a process that never
\* crashed has dirty unset and the lock free, every record of the file is on
\* disk, unless a tick dropped the error of its fsync and neither a later tick
\* nor a rewrite has made up for it.  A failed append, an aborted rewrite and
\* a failed swap do not break this.
THEOREM CleanIsDurableThm == Spec => []CleanIsDurable
<1>1. Init => CleanInv
  <2> SUFFICES ASSUME Init PROVE CleanInv
    OBVIOUS
  <2>1. aof \in File /\ aof.items = <<>>
    BY TypeInit DEF TypeInv, TypeOK, Init, NoFile
  <2> QED BY <2>1, EmptyAllSynced, SMTT(30) DEF Init, CleanInv, CleanIsDurable
<1>2. CleanInv => CleanIsDurable
  BY DEF CleanInv
<1> QED BY <1>1, <1>2, Safe, CleanStep, PTL DEF Spec

=============================================================================
