-------------------------------- MODULE Aof --------------------------------
(***************************************************************************)
(* The append-only file of toykv: aof.Writer, aof.Rewriter, aof.Replay and *)
(* the part of server.New / server.Close that drives them, over a file     *)
(* system that can fail and a process that can be killed at every step.    *)
(*                                                                         *)
(* A record is a number: the n-th mutation any handler applied to the      *)
(* store.  What a record does to the keyspace is the business of module    *)
(* Keyspace; here only its whereabouts matter: in the store, in the file,  *)
(* in the durable part of the file, in the side buffer of a rewrite.       *)
(***************************************************************************)
EXTENDS Integers, Sequences, FiniteSetsExt

CONSTANTS
  Clients,      \* connections that issue mutating commands
  Policy,       \* appendfsync: "always", "everysec" or "no"
  Faults,       \* which of AllFaults the environment may inject
  MaxLacks,     \* bound: elements a record cut between two of them lacks
  MaxRecords,   \* bound: mutations in a behaviour
  MaxRewrites,  \* bound: BGREWRITEAOF commands in a behaviour
  MaxCrashes    \* bound: kills and power losses in a behaviour

\* power    a power loss drops what no fsync has made durable
\* lazydir  fsync of a file does not make its directory entry durable
\*          (POSIX promises no more; ext4 and xfs do)
\* torn     a write that fails or is cut short leaves part of a record
\* write, sync, dirsync, swap   write, fsync, fsync of the directory, and
\*          the close and reopen of swapTo may return an error
AllFaults == {"power", "lazydir", "torn", "write", "sync", "dirsync", "swap"}

ASSUME AofConstants ==
  /\ Policy \in {"always", "everysec", "no"}
  /\ Faults \subseteq AllFaults
  /\ MaxLacks \in Nat
  /\ MaxRecords \in Nat
  /\ MaxRewrites \in Nat
  /\ MaxCrashes \in Nat

VARIABLES
  aof,     \* the file under the canonical name toykv.aof
  dirSynced, \* the directory on disk names that file
  prev,    \* what the directory on disk names while dirSynced is FALSE
  tmp,     \* the file under toykv.aof.tmp
  fd,      \* where Writer.f points: "aof", "old" (an unlinked inode), "closed"
  bwErr,   \* Writer.bw has failed: bufio keeps the first error for ever
  dirty,   \* Writer.dirty
  side,    \* Writer.sideBuf
  mu,      \* who holds Writer.mu: "free", "append", "rewrite"
  proc,    \* the process: "down", "replayed", "created", "headed", "up",
           \* "refused" (server.New returned an error)
  store,   \* the records whose effect is in the in-memory store
  pc,      \* where each connection's handler is
  rec,     \* the record each handler is working on
  rw,      \* where the rewrite goroutine is
  acked,   \* history: the records whose reply a client has received
  buried,  \* history: the records appended behind the stub of another one
  missed,  \* history: a tick's fsync failed and no later one covered the file
  next, rewrites, crashes

diskVars   == <<aof, dirSynced, prev, tmp>>
writerVars == <<fd, bwErr, dirty, side, mu>>
countVars  == <<buried, missed, next, rewrites, crashes>>
vars == <<diskVars, writerVars, proc, store, pc, rec, rw, acked, countVars>>

----------------------------------------------------------------------------
(* Files.  A file is its header version as the page cache and as the disk  *)
(* have it (0: no complete header), its items in order, and how many of    *)
(* them an fsync has made durable.  An item is a set of records (one for   *)
(* an appended command, all of the store's for a snapshot), or a stub, the *)
(* beginning of a record that was cut short:                               *)
(*   "body"     inside the body of a bulk string;                          *)
(*   "line"     inside a length line, or right before a body or the line   *)
(*              end behind it;                                             *)
(*   "between"  between two elements, with `lacks' of them missing.        *)

Record == 1 .. MaxRecords

Item == [recs : SUBSET Record, torn : {"no", "body", "line", "between"},
         lacks : 0 .. MaxLacks]

Whole(S) == [recs |-> S, torn |-> "no", lacks |-> 0]

Stubs == {[recs |-> {}, torn |-> kind, lacks |-> 0] : kind \in {"body", "line"}}
         \cup {[recs |-> {}, torn |-> "between", lacks |-> m] : m \in 1 .. MaxLacks}

CurrentVersion == 3

File == {f \in [ver : -1 .. CurrentVersion, dver : -1 .. CurrentVersion,
               items : Seq(Item), synced : Nat] : f.synced <= Len(f.items)}

NoFile   == [ver |-> -1, dver |-> -1, items |-> <<>>, synced |-> 0]
NewFile  == [ver |-> 0, dver |-> 0, items |-> <<>>, synced |-> 0]
Exists(f) == f.ver # -1

\* Write one item at the end of a file (O_APPEND).
AddItem(f, item) == [f EXCEPT !.items = Append(@, item)]

\* File.Sync: everything written so far is durable.
Sync(f) == [ver |-> f.ver, dver |-> f.ver, items |-> f.items, synced |-> Len(f.items)]

\* fsync through a descriptor of the canonical file f.
SyncCanonical(f) ==
  /\ aof' = Sync(f)
  /\ dirSynced' = (dirSynced \/ "lazydir" \notin Faults)

\* The records that are in the file, and those of them an fsync covers.
RecsOf(items) == UNION {items[i].recs : i \in DOMAIN items}
Recs(f)       == RecsOf(f.items)
SyncedRecs(f) == UNION {f.items[i].recs : i \in {j \in DOMAIN f.items : j <= f.synced}}

\* The items from the first stub on, of which the reader takes every one for
\* an element of the array the stub began.
IsStub(items, i) == items[i].torn # "no"
HasStub(f)       == \E i \in DOMAIN f.items : IsStub(f.items, i)
InStub(items, i) == \E j \in 1 .. i : IsStub(items, j)

\* The records a replay of the file applies.
Found(f) == UNION {f.items[i].recs : i \in {j \in DOMAIN f.items : ~InStub(f.items, j)}}

\* The elements the arrays that are open after item k still want, when item i
\* is the first stub: each later item is one element, and a stub cut between
\* two elements wants its own.
Wanted(items, i, k) == MapThenSumSet(LAMBDA j : items[j].lacks, i .. k) - (k - i)

\* Replay reads the file to its end and reports no error: there is a header,
\* and the first stub, if any, is still waiting for elements when the file
\* ends, which Reader.ReadCommand answers with io.EOF and Replay takes for a
\* clean end.  A body cut short is ErrProtocol, so is whatever follows a cut
\* length line, and so is the stub itself once it has all its elements, as
\* one of them is an array.
Readable(f) ==
  /\ f.ver > 0
  /\ \A i \in DOMAIN f.items : IsStub(f.items, i) =>
       /\ f.items[i].torn # "body"
       /\ f.items[i].torn = "line" => i = Len(f.items)
       /\ (\A j \in 1 .. i - 1 : ~IsStub(f.items, j)) =>
            \A k \in i + 1 .. Len(f.items) :
              f.items[k].torn = "line" \/ Wanted(f.items, i, k) >= 1

----------------------------------------------------------------------------
NoSide == [armed |-> FALSE, items |-> <<>>]

TypeOK ==
  /\ aof \in File /\ prev \in File /\ tmp \in File /\ dirSynced \in BOOLEAN
  /\ fd \in {"aof", "old", "closed"}
  /\ bwErr \in BOOLEAN /\ dirty \in BOOLEAN
  /\ side \in [armed : BOOLEAN, items : Seq(Item)]
  /\ mu \in {"free", "append", "rewrite"}
  /\ proc \in {"down", "replayed", "created", "headed", "up", "refused"}
  /\ store \subseteq Record
  /\ pc \in [Clients -> {"idle", "mutated", "written", "appended", "failed"}]
  /\ rec \in [Clients -> 0 .. MaxRecords]
  /\ rw \in {"idle", "started", "begun", "snapped", "synced", "folded",
             "renamed", "swapping"}
  /\ acked \subseteq Record
  /\ next \in 1 .. MaxRecords + 1
  /\ buried \subseteq Record
  /\ missed \in BOOLEAN /\ rewrites \in Nat /\ crashes \in Nat

\* First boot in an empty directory, or with the file an older binary left:
\* a complete header of any supported version and no records of this run.
Init ==
  /\ \E v \in 0 .. CurrentVersion :
       aof = IF v = 0 THEN NoFile
                      ELSE [ver |-> v, dver |-> v, items |-> <<>>, synced |-> 0]
  /\ dirSynced = TRUE /\ prev = NoFile /\ tmp = NoFile
  /\ fd = "closed" /\ bwErr = FALSE /\ dirty = FALSE /\ side = NoSide /\ mu = "free"
  /\ proc = "down"
  /\ store = {}
  /\ pc = [c \in Clients |-> "idle"]
  /\ rec = [c \in Clients |-> 0]
  /\ rw = "idle"
  /\ acked = {} /\ buried = {} /\ missed = FALSE
  /\ next = 1 /\ rewrites = 0 /\ crashes = 0

----------------------------------------------------------------------------
(* Plausible bugs, one for each property: every operator is a mutation of  *)
(* the definition its name begins with.                                    *)

\* Append returns before the fsync of appendfsync=always.
AppendReturnUnsynced(c) ==
  /\ proc = "up" /\ pc[c] = "written"
  /\ dirty' = FALSE /\ mu' = "free"
  /\ pc' = [pc EXCEPT ![c] = "appended"]
  /\ UNCHANGED <<diskVars, fd, bwErr, side, proc, store, rec, rw, acked, countVars>>

\* writeSnapshot forgets the header.
WriteSnapshotNoHeader ==
  /\ proc = "up" /\ rw = "begun"
  /\ tmp' = [ver |-> 0, dver |-> 0, items |-> <<Whole(store)>>, synced |-> 0]
  /\ rw' = "snapped"
  /\ UNCHANGED <<aof, dirSynced, prev, writerVars, proc, store, pc, rec, acked, countVars>>

\* The fold renames the snapshot without the side buffer.
FoldSideBufferDropped ==
  /\ proc = "up" /\ rw = "synced" /\ mu = "free" /\ ~bwErr
  /\ tmp' = Sync(tmp)
  /\ mu' = "rewrite" /\ rw' = "folded"
  /\ UNCHANGED <<aof, dirSynced, prev, fd, bwErr, dirty, side, proc, store, pc, rec, acked, countVars>>

\* Append writes to the canonical file only.
MirrorNothing(c) == side

\* Open keeps an older header.
OpenKeepsHeader ==
  /\ proc = "replayed"
  /\ tmp' = NoFile
  /\ IF Exists(aof)
       THEN proc' = "up" /\ UNCHANGED <<aof, dirSynced, prev>>
       ELSE proc' = "created" /\ aof' = NewFile /\ dirSynced' = FALSE /\ prev' = NoFile
  /\ fd' = "aof" /\ bwErr' = FALSE /\ dirty' = FALSE /\ side' = NoSide /\ mu' = "free"
  /\ UNCHANGED <<store, pc, rec, rw, acked, countVars>>

\* Append forgets that the file has unsynced bytes.
AppendWriteClean(c) ==
  /\ proc = "up" /\ pc[c] = "mutated" /\ mu = "free" /\ ~bwErr /\ fd = "aof"
  /\ aof' = AddItem(aof, Whole({rec[c]}))
  /\ mu' = "append"
  /\ pc' = [pc EXCEPT ![c] = "written"]
  /\ UNCHANGED <<dirSynced, prev, tmp, fd, bwErr, dirty, side, proc, store, rec, rw, acked, countVars>>

\* FinalizeRewrite returns an error without releasing the lock.
FoldFailLocked ==
  /\ proc = "up" /\ rw = "synced" /\ mu = "free"
  /\ bwErr \/ "write" \in Faults
  /\ tmp' = NoFile /\ side' = NoSide /\ mu' = "rewrite" /\ rw' = "idle"
  /\ UNCHANGED <<aof, dirSynced, prev, fd, bwErr, dirty, proc, store, pc, rec, acked, countVars>>

\* runRewrite leaves rewriteInFlight set when the swap fails.
SwapFailInFlight ==
  /\ proc = "up" /\ rw = "swapping"
  /\ fd = "closed" \/ "swap" \in Faults
  /\ fd' = "closed" /\ side' = NoSide /\ mu' = "free"
  /\ UNCHANGED <<diskVars, bwErr, dirty, proc, store, pc, rec, rw, acked, countVars>>

\* The tick clears dirty and does not fsync.
EverysecTickIdle ==
  /\ proc = "up" /\ Policy = "everysec" /\ mu = "free" /\ dirty
  /\ dirty' = FALSE
  /\ UNCHANGED <<diskVars, fd, bwErr, side, mu, proc, store, pc, rec, rw, acked, countVars>>

----------------------------------------------------------------------------
(* Startup: server.New calls aof.Replay, then aof.Open.                    *)

Replay ==
  /\ proc = "down"
  /\ \/ /\ Exists(aof) => Readable(aof)
        /\ store' = Found(aof)
        /\ proc' = "replayed"
     \/ /\ Exists(aof) /\ ~Readable(aof)
        /\ proc' = "refused"
        /\ UNCHANGED store
  /\ UNCHANGED <<diskVars, writerVars, pc, rec, rw, acked, countVars>>

\* Open up to the point where the file exists: remove a stale .tmp, create
\* the file if there is none, overwrite the version of an older header.
Open ==
  /\ proc = "replayed"
  /\ tmp' = NoFile
  /\ \/ /\ ~Exists(aof)
        /\ aof' = NewFile
        /\ dirSynced' = FALSE /\ prev' = NoFile
        /\ proc' = "created"
     \/ /\ Exists(aof)
        /\ aof' = [aof EXCEPT !.ver = CurrentVersion]
        /\ proc' = IF aof.ver < CurrentVersion THEN "headed" ELSE "up"
        /\ UNCHANGED <<dirSynced, prev>>
  /\ fd' = "aof" /\ bwErr' = FALSE /\ dirty' = FALSE /\ side' = NoSide /\ mu' = "free"
  /\ UNCHANGED <<store, pc, rec, rw, acked, countVars>>

\* Open of a fresh file: write the header.
OpenWriteHeader ==
  /\ proc = "created"
  /\ aof' = [aof EXCEPT !.ver = CurrentVersion]
  /\ proc' = "headed"
  /\ UNCHANGED <<dirSynced, prev, tmp, writerVars, store, pc, rec, rw, acked, countVars>>

\* The header, new or upgraded, is fsynced before the first append.
OpenSyncHeader ==
  /\ proc = "headed"
  /\ SyncCanonical(aof)
  /\ proc' = "up"
  /\ UNCHANGED <<prev, tmp, writerVars, store, pc, rec, rw, acked, countVars>>

----------------------------------------------------------------------------
(* A mutating handler: mutate the store, Append, reply.                    *)

Mutate(c) ==
  /\ proc = "up" /\ pc[c] = "idle" /\ next <= MaxRecords
  /\ store' = store \cup {next}
  /\ rec' = [rec EXCEPT ![c] = next]
  /\ pc' = [pc EXCEPT ![c] = "mutated"]
  /\ next' = next + 1
  /\ UNCHANGED <<diskVars, writerVars, proc, rw, acked, buried, missed, rewrites, crashes>>

\* The side buffer gets the record as soon as bw accepts it.
Mirror(c) == IF side.armed /\ ~bwErr
               THEN [side EXCEPT !.items = Append(@, Whole({rec[c]}))]
               ELSE side

\* Append: take the lock, write the record through bw and flush it.
AppendWrite(c) ==
  /\ proc = "up" /\ pc[c] = "mutated" /\ mu = "free"
  /\ ~bwErr /\ fd = "aof"
  /\ aof' = AddItem(aof, Whole({rec[c]}))
  /\ side' = Mirror(c)
  /\ dirty' = TRUE
  /\ mu' = "append"
  /\ pc' = [pc EXCEPT ![c] = "written"]
  /\ buried' = IF HasStub(aof) THEN buried \cup {rec[c]} ELSE buried
  /\ UNCHANGED <<dirSynced, prev, tmp, fd, bwErr, proc, store, rec, rw, acked,
                 missed, next, rewrites, crashes>>

\* Append when bw or the descriptor fails: bufio remembers the error, and
\* the part of the record that went out stays in the file.  The side buffer
\* has the record when it is the Flush that failed, not when a record larger
\* than the buffer failed in Write.
AppendWriteFail(c) ==
  /\ proc = "up" /\ pc[c] = "mutated" /\ mu = "free"
  /\ bwErr \/ fd # "aof" \/ "write" \in Faults
  /\ \/ UNCHANGED aof
     \/ /\ "torn" \in Faults /\ ~bwErr /\ fd = "aof"
        /\ \E stub \in Stubs : aof' = AddItem(aof, stub)
  /\ side' \in {side, Mirror(c)}
  /\ bwErr' = TRUE
  /\ pc' = [pc EXCEPT ![c] = "failed"]
  /\ UNCHANGED <<dirSynced, prev, tmp, fd, dirty, mu, proc, store, rec, rw, acked, countVars>>

\* The end of Append: under "always" fsync first, then release the lock.
AppendReturn(c) ==
  /\ proc = "up" /\ pc[c] = "written"
  /\ IF Policy = "always"
       THEN SyncCanonical(aof) /\ dirty' = FALSE
       ELSE UNCHANGED <<aof, dirSynced, dirty>>
  /\ mu' = "free"
  /\ pc' = [pc EXCEPT ![c] = "appended"]
  /\ UNCHANGED <<prev, tmp, fd, bwErr, side, proc, store, rec, rw, acked, countVars>>

AppendSyncFail(c) ==
  /\ proc = "up" /\ pc[c] = "written"
  /\ Policy = "always" /\ "sync" \in Faults
  /\ mu' = "free"
  /\ pc' = [pc EXCEPT ![c] = "failed"]
  /\ UNCHANGED <<diskVars, fd, bwErr, dirty, side, proc, store, rec, rw, acked, countVars>>

\* The connection loop writes the reply: +OK, or -ERR aof append failed.
Reply(c) ==
  /\ proc = "up" /\ pc[c] \in {"appended", "failed"}
  /\ acked' = IF pc[c] = "appended" THEN acked \cup {rec[c]} ELSE acked
  /\ pc' = [pc EXCEPT ![c] = "idle"]
  /\ rec' = [rec EXCEPT ![c] = 0]
  /\ UNCHANGED <<diskVars, writerVars, proc, store, rw, countVars>>

\* One tick of runEverysec; the error of Sync is dropped.
EverysecTick ==
  /\ proc = "up" /\ Policy = "everysec" /\ mu = "free" /\ dirty
  /\ IF fd = "aof" THEN SyncCanonical(aof) /\ missed' = FALSE
                   ELSE UNCHANGED <<aof, dirSynced, missed>>
  /\ dirty' = FALSE
  /\ UNCHANGED <<prev, tmp, fd, bwErr, side, mu, proc, store, pc, rec, rw, acked,
                 buried, next, rewrites, crashes>>

EverysecTickFail ==
  /\ proc = "up" /\ Policy = "everysec" /\ mu = "free" /\ dirty
  /\ "sync" \in Faults
  /\ dirty' = FALSE /\ missed' = TRUE
  /\ UNCHANGED <<diskVars, fd, bwErr, side, mu, proc, store, pc, rec, rw, acked,
                 buried, next, rewrites, crashes>>

----------------------------------------------------------------------------
(* BGREWRITEAOF: the handler's single-flight gate, then Rewriter.Rewrite   *)
(* in its own goroutine.                                                   *)

StartRewrite ==
  /\ proc = "up" /\ rw = "idle" /\ rewrites < MaxRewrites
  /\ rw' = "started"
  /\ rewrites' = rewrites + 1
  /\ UNCHANGED <<diskVars, writerVars, proc, store, pc, rec, acked, buried, missed,
                 next, crashes>>

BeginRewrite ==
  /\ proc = "up" /\ rw = "started" /\ mu = "free"
  /\ side' = [armed |-> TRUE, items |-> <<>>]
  /\ rw' = "begun"
  /\ UNCHANGED <<diskVars, fd, bwErr, dirty, mu, proc, store, pc, rec, acked, countVars>>

\* writeSnapshot: truncate .tmp, write the header and a copy of the store.
WriteSnapshot ==
  /\ proc = "up" /\ rw = "begun"
  /\ tmp' = [ver |-> CurrentVersion, dver |-> 0,
             items |-> <<Whole(store)>>, synced |-> 0]
  /\ rw' = "snapped"
  /\ UNCHANGED <<aof, dirSynced, prev, writerVars, proc, store, pc, rec, acked, countVars>>

SyncSnapshot ==
  /\ proc = "up" /\ rw = "snapped"
  /\ tmp' = Sync(tmp)
  /\ rw' = "synced"
  /\ UNCHANGED <<aof, dirSynced, prev, writerVars, proc, store, pc, rec, acked, countVars>>

\* writeSnapshot failed: remove .tmp and AbortRewrite.
AbortRewrite ==
  /\ proc = "up" /\ rw \in {"begun", "snapped"} /\ mu = "free"
  /\ "write" \in Faults
  /\ tmp' = NoFile
  /\ side' = NoSide
  /\ rw' = "idle"
  /\ UNCHANGED <<aof, dirSynced, prev, fd, bwErr, dirty, mu, proc, store, pc, rec, acked, countVars>>

\* FinalizeRewrite, step 1: lock, flush bw, fold the side buffer into .tmp
\* and fsync it.
FoldSideBuffer ==
  /\ proc = "up" /\ rw = "synced" /\ mu = "free"
  /\ ~bwErr
  /\ tmp' = Sync([tmp EXCEPT !.items = @ \o side.items])
  /\ mu' = "rewrite"
  /\ rw' = "folded"
  /\ UNCHANGED <<aof, dirSynced, prev, fd, bwErr, dirty, side, proc, store, pc, rec, acked, countVars>>

\* FinalizeRewrite fails before the rename: leave side-buffer mode, and
\* Rewrite removes .tmp.
FoldFail ==
  /\ proc = "up" /\ rw = "synced" /\ mu = "free"
  /\ bwErr \/ "write" \in Faults
  /\ tmp' = NoFile
  /\ side' = NoSide
  /\ rw' = "idle"
  /\ UNCHANGED <<aof, dirSynced, prev, fd, bwErr, dirty, mu, proc, store, pc, rec, acked, countVars>>

\* Step 2: the rename, and the fsync of the directory.
RenameTmp ==
  /\ proc = "up" /\ rw = "folded"
  /\ prev' = IF dirSynced THEN aof ELSE prev
  /\ dirSynced' = FALSE
  /\ aof' = tmp
  /\ tmp' = NoFile
  /\ fd' = IF fd = "aof" THEN "old" ELSE fd
  /\ rw' = "renamed"
  /\ UNCHANGED <<bwErr, dirty, side, mu, proc, store, pc, rec, acked, countVars>>

FsyncDir ==
  /\ proc = "up" /\ rw = "renamed"
  /\ \/ dirSynced' = TRUE /\ prev' = NoFile
     \/ "dirsync" \in Faults /\ UNCHANGED <<dirSynced, prev>>
  /\ rw' = "swapping"
  /\ UNCHANGED <<aof, tmp, writerVars, proc, store, pc, rec, acked, countVars>>

\* Step 3: swapTo points the writer at the new file; step 4: leave
\* side-buffer mode and release the lock.
SwapTo ==
  /\ proc = "up" /\ rw = "swapping"
  /\ fd # "closed"
  /\ fd' = "aof" /\ bwErr' = FALSE /\ dirty' = FALSE
  /\ side' = NoSide /\ mu' = "free"
  /\ rw' = "idle" /\ missed' = FALSE
  /\ UNCHANGED <<diskVars, proc, store, pc, rec, acked, buried, next, rewrites, crashes>>

\* swapTo returns early: closing the old descriptor or opening the new file
\* failed, and Writer.f stays closed.
SwapFail ==
  /\ proc = "up" /\ rw = "swapping"
  /\ fd = "closed" \/ "swap" \in Faults
  /\ fd' = "closed"
  /\ side' = NoSide /\ mu' = "free"
  /\ rw' = "idle"
  /\ UNCHANGED <<diskVars, bwErr, dirty, proc, store, pc, rec, acked, countVars>>

----------------------------------------------------------------------------
(* The process dies: its memory is gone, the files stay.                   *)

LoseMemory ==
  /\ proc' = "down"
  /\ store' = {}
  /\ fd' = "closed" /\ bwErr' = FALSE /\ dirty' = FALSE /\ side' = NoSide /\ mu' = "free"
  /\ pc' = [c \in Clients |-> "idle"]
  /\ rec' = [c \in Clients |-> 0]
  /\ rw' = "idle" /\ missed' = FALSE
  /\ UNCHANGED <<acked, buried, next, rewrites>>

Running == proc \notin {"down", "refused"}

\* server.Close after Run has drained the connections: flush, fsync, close.
\* A rewrite still running then ends with the process; what it could do to
\* the files in between, it could also have done before Close.
Close ==
  /\ proc = "up" /\ mu = "free"
  /\ \A c \in Clients : pc[c] = "idle"
  /\ IF fd = "aof" THEN SyncCanonical(aof) ELSE UNCHANGED <<aof, dirSynced>>
  /\ LoseMemory
  /\ UNCHANGED <<prev, tmp, crashes>>

\* SIGKILL: the page cache survives.  A record longer than the buffer of bw
\* goes out in several writes, and the kill may fall between two of them.
Kill ==
  /\ Running /\ crashes < MaxCrashes
  /\ crashes' = crashes + 1
  /\ \/ UNCHANGED aof
     \/ /\ "torn" \in Faults /\ mu = "free" /\ fd = "aof" /\ ~bwErr
        /\ \E c \in Clients : pc[c] = "mutated"
        /\ \E stub \in Stubs : aof' = AddItem(aof, stub)
  /\ LoseMemory
  /\ UNCHANGED <<dirSynced, prev, tmp>>

\* What a power loss can leave of a file: what was fsynced, or a longer
\* prefix of what was written, which may end inside an item.
AfterPowerLoss(f) ==
  {[ver |-> f.ver, dver |-> f.ver, items |-> SubSeq(f.items, 1, n), synced |-> n] :
     n \in f.synced .. Len(f.items)}
  \cup (IF "torn" \in Faults
          THEN {[ver |-> f.ver, dver |-> f.ver, synced |-> n,
                 items |-> Append(SubSeq(f.items, 1, n - 1), stub)] :
                  n \in f.synced + 1 .. Len(f.items), stub \in Stubs}
          ELSE {})
  \cup {[ver |-> f.dver, dver |-> f.dver, items |-> SubSeq(f.items, 1, f.synced),
         synced |-> f.synced]}

PowerLoss ==
  /\ "power" \in Faults
  /\ Running /\ crashes < MaxCrashes
  /\ crashes' = crashes + 1
  /\ \E f \in {aof} \cup (IF dirSynced THEN {} ELSE {prev}) : aof' \in AfterPowerLoss(f)
  /\ dirSynced' = TRUE /\ prev' = NoFile
  /\ UNCHANGED tmp
  /\ LoseMemory

Next ==
  \/ Replay \/ Open \/ OpenWriteHeader \/ OpenSyncHeader
  \/ \E c \in Clients :
       \/ Mutate(c) \/ AppendWrite(c) \/ AppendWriteFail(c)
       \/ AppendReturn(c) \/ AppendSyncFail(c) \/ Reply(c)
  \/ EverysecTick \/ EverysecTickFail
  \/ StartRewrite \/ BeginRewrite \/ WriteSnapshot \/ SyncSnapshot \/ AbortRewrite
  \/ FoldSideBuffer \/ FoldFail \/ RenameTmp \/ FsyncDir \/ SwapTo \/ SwapFail
  \/ Close \/ Kill \/ PowerLoss

Spec == Init /\ [][Next]_vars

\* Scheduling: every goroutine the runtime has made runnable runs, and
\* sync.Mutex hands over in starvation mode, so a lock that is free again
\* and again is obtained (SF); the second ticker fires.
Fairness ==
  /\ WF_vars(Replay) /\ WF_vars(Open) /\ WF_vars(OpenWriteHeader) /\ WF_vars(OpenSyncHeader)
  /\ \A c \in Clients :
       /\ SF_vars(AppendWrite(c) \/ AppendWriteFail(c))
       /\ WF_vars(AppendReturn(c))
       /\ WF_vars(Reply(c))
  /\ SF_vars(EverysecTick)
  /\ SF_vars(BeginRewrite)
  /\ WF_vars(WriteSnapshot) /\ WF_vars(SyncSnapshot)
  /\ SF_vars(FoldSideBuffer \/ FoldFail)
  /\ WF_vars(RenameTmp) /\ WF_vars(FsyncDir) /\ WF_vars(SwapTo \/ SwapFail)

FairSpec == Spec /\ Fairness

----------------------------------------------------------------------------
(* Properties.                                                             *)

\* Every record Append has returned nil for, replied to or not.
Promised == acked \cup {rec[c] : c \in {d \in Clients : pc[d] = "appended"}}

\* README, "zero acknowledged-write loss across SIGKILL + restart": a write
\* the client saw acknowledged is in the store of every process that comes
\* up after it.
AckedNeverLost == Running => acked \subseteq store

\* What the code keeps of PRD G6: whatever crashed in between, a running
\* process has every write the client saw acknowledged, except one that was
\* appended behind a stub the start before had taken for a clean end.
AckedSurvives == Running => acked \ buried \subseteq store

\* A process that finds no torn record only refuses to start while nothing
\* was acknowledged: the header of writer.go Open can be missing after a
\* crash on first boot, never later.
RefusesOnlyEmpty ==
  proc = "refused" /\ ~HasStub(aof) => acked = {}

\* ADR-0005, crash table: at every instant, each step of a rewrite included,
\* a replay of the file under the canonical name finds every record Append
\* returned for, unless it was appended behind a stub.
CanonicalComplete == Promised \ buried \subseteq Found(aof)

\* The side buffer captures all live appends: from the snapshot on, the
\* snapshot and the side buffer together hold everything a replay of the
\* canonical file finds and everything Append has returned for since the
\* start; after the fold a replay of the .tmp file finds it, and all of the
\* file is durable.
RewriteLosesNothing ==
  /\ rw \in {"snapped", "synced"} =>
       Found(aof) \cup (Promised \cap store) \subseteq Recs(tmp) \cup RecsOf(side.items)
  /\ rw = "folded" =>
       /\ Found(aof) \cup (Promised \cap store) \subseteq Found(tmp)
       /\ tmp.synced = Len(tmp.items)

\* format.go: the header version is never older than the newest record
\* format in the file, on disk as in the cache, so an older binary refuses
\* the file up front.
HeaderGates ==
  /\ aof.items # <<>> => aof.ver = CurrentVersion
  /\ aof.synced > 0 => aof.dver = CurrentVersion

\* writer.go, "dirty: buffered/unfsynced bytes are present": every record of
\* a process that has served without a crash is on disk once dirty is FALSE,
\* unless the tick that cleared it dropped the error of its fsync and
\* neither a later tick nor a rewrite has made up for it.
CleanIsDurable ==
  proc = "up" /\ crashes = 0 /\ fd = "aof" /\ mu # "append" /\ ~dirty /\ ~missed
    => Recs(aof) \subseteq SyncedRecs(aof)

\* Nothing a running server does, the swap of a rewrite included, takes a
\* record out of what a replay of the canonical file finds.
CanonicalNeverShrinks ==
  [][proc = "up" /\ proc' = "up" => Found(aof) \subseteq Found(aof')]_vars

\* Every handler gets its Append done and replies, and every rewrite ends.
HandlersReply  == \A c \in Clients : pc[c] # "idle" ~> pc[c] = "idle"
RewriteEnds    == rw # "idle" ~> rw = "idle"

\* Under everysec an acknowledged record reaches the disk, or a tick's fsync
\* failed: runEverysec clears dirty all the same and does not try again.
EventuallyDurable ==
  \A r \in Record : r \in acked ~> r \in SyncedRecs(aof) \/ missed

=============================================================================
