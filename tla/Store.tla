------------------------------- MODULE Store -------------------------------
(* internal/store under concurrent use: writers, lazy-expiring readers,    *)
(* SCAN iterations, BGREWRITEAOF's Snapshot and the sweeper.  A Store      *)
(* method holds the mutex from start to end and is one step; Get's lock    *)
(* upgrade, the passes of a sweeper tick and the calls of a SCAN           *)
(* iteration are the places where other steps come in between.             *)
EXTENDS Keyspace

CONSTANTS
  Loads,      \* the workloads the clients may put on the store
  Batch       \* sweeper: keys sampled per pass

\* The conditions a SET may carry.
Modes == {"", "NX", "XX"}

\* A workload: its commands, the keys and values they name, the modes and
\* deadlines of its SETs, whether it copies hashes, the concurrent callers of
\* Get, the COUNTs of its SCANs, the passes of a sweeper tick; and the bounds
\* on the clock, on seqCounter and on the length of a list.
ASSUME StoreConstants ==
  /\ Batch \in Nat \ {0}
  /\ \A w \in Loads :
       /\ w.keys \subseteq Keys /\ w.values \subseteq Value /\ w.modes \subseteq Modes
       /\ w.copyHashes \in BOOLEAN /\ w.counts \subseteq Nat \ {0} /\ w.maxLoops \in Nat \ {0}
       /\ w.maxTime \in Nat /\ w.maxSeq \in Nat /\ w.maxLen \in Nat
       /\ w.deadlines \subseteq Nat /\ \A at \in w.deadlines : at # 0 => at >= PerMs

VARIABLES
  load,   \* the workload
  db,     \* the Store: data, seqCounter and the arrays behind the hashes
  now,    \* the wall clock
  get,    \* per reader: the key Get found expired and released the RLock on
  scan,   \* the SCAN iteration: running or not, its cursor, the keys returned
  must,   \* history: keys live without a break since the iteration began
  sweep   \* the sweeper: in a tick or not, the tick's clock, its passes

vars == <<load, db, now, get, scan, must, sweep>>

NoKey == "none"

Init ==
  /\ load \in Loads
  /\ db = EmptyStore /\ now = PerMs
  /\ get = [r \in load.readers |-> NoKey]
  /\ scan = [on |-> FALSE, cursor |-> 0, ret |-> {}] /\ must = {}
  /\ sweep = [on |-> FALSE, now |-> 0, loops |-> 0]

----------------------------------------------------------------------------
(* Writers: one step per Store method.                                     *)

\* A new state of the Store; a key that is not live any more has been
\* absent during the iteration.
Become(st) ==
  /\ db' = st
  /\ must' = {k \in must : Live(st, now, k)}

Write(op, r) ==
  /\ op \in load.ops
  /\ Become(r.st)
  /\ UNCHANGED <<load, now, get, scan, sweep>>

Room == db.seqCounter < load.maxSeq

\* PXAT and PEXPIREAT take any instant, a past one too.
SetKey(k) == \E v \in load.values, mode \in load.modes, at \in load.deadlines :
  Room /\ Write("SET", Set(db, now, k, v, mode, at))

DelKeys(S) == Write("DEL", Del(db, now, S))

ExpireKey(k) == \E at \in load.deadlines \ {0} : Write("EXPIRE", Expire(db, now, k, at))

PersistKey(k) == Write("PERSIST", Persist(db, now, k))

IncrKey(k) == \E delta \in {1, -1} : Room /\ Write("INCR", incrBy(db, now, k, delta))

PushKey(k) == \E v \in load.values, front \in BOOLEAN :
  /\ Room /\ Len(db.data[k].list) < load.maxLen
  /\ Write("PUSH", push(db, now, k, <<v>>, front))

PopKey(k) == \E front \in BOOLEAN : Write("POP", pop(db, now, k, front))

HSetKey(k) == \E f \in Fields, v \in load.values : Room /\ Write("HSET", HSet(db, now, k, <<<<f, v>>>>))

HDelKey(k) == \E f \in Fields : Write("HDEL", HDel(db, now, k, f))

RenameKey(k, dst) == Room /\ Write("RENAME", Rename(db, now, k, dst))

RenameNXKey(k, dst) == Room /\ Write("RENAMENX", RenameNX(db, now, k, dst))

CopyKey(k, dst) == \E replace \in BOOLEAN :
  /\ Room /\ (db.data[k].typ = "hash" => load.copyHashes)
  /\ Write("COPY", Copy(db, now, k, dst, replace))

Flush == Write("FLUSHDB", FlushDB(db))

----------------------------------------------------------------------------
(* Readers.  A Get that finds the key absent or live is done under the     *)
(* RLock and changes nothing.                                              *)

GetExpired(r) == \E k \in Keys :
  /\ get[r] = NoKey
  /\ Present(db, k) /\ expired(db.data[k], now)
  /\ get' = [get EXCEPT ![r] = k]
  /\ UNCHANGED <<load, db, now, scan, must, sweep>>

\* Variant: evict what the RLock saw, without the re-check.
GetEvictUnchecked(r) ==
  /\ get[r] # NoKey
  /\ Become(Delete(db, get[r]))
  /\ get' = [get EXCEPT ![r] = NoKey]
  /\ UNCHANGED <<load, now, scan, sweep>>

\* Get under the write lock: look again, evict only what is expired now.
GetEvict(r) ==
  /\ get[r] # NoKey
  /\ Become(getForWrite(db, now, get[r]))
  /\ get' = [get EXCEPT ![r] = NoKey]
  /\ UNCHANGED <<load, now, scan, sweep>>

ScanStart ==
  /\ ~scan.on /\ load.counts # {}
  /\ scan' = [on |-> TRUE, cursor |-> 0, ret |-> {}]
  /\ must' = {k \in Keys : Live(db, now, k)}
  /\ UNCHANGED <<load, db, now, get, sweep>>

ScanCall == \E count \in load.counts :
  LET r == Scan(db, now, scan.cursor, count)
  IN  /\ scan.on
      /\ scan' = [on |-> r.next # 0, cursor |-> r.next, ret |-> scan.ret \cup r.keys]
      /\ UNCHANGED <<load, db, now, get, must, sweep>>

\* BGREWRITEAOF takes a Snapshot, which evicts inline.
TakeSnapshot ==
  /\ UNCHANGED <<load, now, get, scan, sweep>>
  /\ Become(Snapshot(db, now).st)

----------------------------------------------------------------------------
(* The sweeper: a tick reads the clock once and makes passes of sweepOnce. *)

\* Variant: the clock is the one of the sweeper's start.
SweepStartStale ==
  /\ ~sweep.on
  /\ sweep' = [on |-> TRUE, now |-> PerMs, loops |-> 0]
  /\ UNCHANGED <<load, db, now, get, scan, must>>

SweepStart ==
  /\ ~sweep.on
  /\ sweep' = [on |-> TRUE, now |-> now, loops |-> 0]
  /\ UNCHANGED <<load, db, now, get, scan, must>>

\* sweepOnce over one sample; the tick goes on while more than a quarter of
\* the sample was expired.
Pass(sample, dead) ==
  /\ sweep.on
  /\ Cardinality(sample) = Min({Batch, Cardinality({k \in Keys : Present(db, k)})})
  /\ Become(DeleteAll(db, dead))
  /\ sweep' = IF 4 * Cardinality(dead) > Cardinality(sample) /\ sweep.loops + 1 < load.maxLoops
                THEN [sweep EXCEPT !.loops = @ + 1]
                ELSE [on |-> FALSE, now |-> 0, loops |-> 0]
  /\ UNCHANGED <<load, now, get, scan>>

SweepPass == \E sample \in SUBSET {k \in Keys : Present(db, k)} :
  Pass(sample, {k \in sample : expired(db.data[k], sweep.now)})

\* The wall clock.
Tick ==
  /\ now < load.maxTime
  /\ now' = now + 1
  /\ must' = {k \in must : Live(db, now + 1, k)}
  /\ UNCHANGED <<load, db, get, scan, sweep>>

----------------------------------------------------------------------------
Next ==
  \/ \E k \in load.keys : \/ SetKey(k) \/ ExpireKey(k) \/ PersistKey(k) \/ IncrKey(k)
                          \/ PushKey(k) \/ PopKey(k) \/ HSetKey(k) \/ HDelKey(k)
  \/ \E k, dst \in load.keys : RenameKey(k, dst) \/ RenameNXKey(k, dst) \/ CopyKey(k, dst)
  \/ \E S \in SUBSET load.keys \ {{}} : DelKeys(S)
  \/ Flush
  \/ \E r \in load.readers : GetExpired(r) \/ GetEvict(r)
  \/ ScanStart \/ ScanCall \/ TakeSnapshot
  \/ SweepStart \/ SweepPass \/ Tick

Spec == Init /\ [][Next]_vars

\* The sweeper's goroutine is scheduled and its ticker fires while the
\* server runs.
FairSpec == Spec /\ WF_vars(SweepStart) /\ WF_vars(SweepPass)

----------------------------------------------------------------------------
(* Properties.                                                             *)

\* fieldOrder lists every field of the hash once: HKEYS, HVALS and HGETALL
\* correspond position by position, and show what HGET shows.
FieldOrderExact ==
  \A k \in Keys : db.data[k].typ = "hash" =>
    LET names == FieldNames(db, db.data[k].fieldOrder)
    IN  /\ ToSet(names) = DOMAIN db.data[k].hash
        /\ Len(names) = Cardinality(DOMAIN db.data[k].hash)

\* SCAN's guarantee: a key that was live from the first call of an
\* iteration to its end has been returned, whatever was created, renamed,
\* overwritten, expired or swept meanwhile.
ScanComplete == ~scan.on => must \subseteq scan.ret

\* Lazy expiry, the sweeper and Snapshot remove only what no client can see
\* any more: Get re-checks after its lock upgrade, and a tick's clock read
\* once is never ahead of the store's.
EvictionInvisible ==
  [][Views(db', now) # Views(db, now)
       => ~((\E r \in load.readers : GetEvict(r)) \/ SweepPass \/ TakeSnapshot)]_vars

\* The value of one key shares no memory with another's, a copy's with its
\* source's in particular: a step that changes what a client sees of a list
\* or hash x is not a list or hash write to a key k other than x.
WritesStayPut ==
  [][\A x \in Keys : db.data[x].typ \in {"list", "hash"} /\ View(db', now, x) # View(db, now, x)
       => \A k \in Keys \ {x} : ~(PushKey(k) \/ PopKey(k) \/ HSetKey(k) \/ HDelKey(k))]_vars

\* The records BGREWRITEAOF writes for a snapshot rebuild it: replayed at
\* any later instant they give every key the type, value and order the live
\* store then has, and its deadline in milliseconds.  They cannot be read
\* back at all when, and only when, one live list or hash is too long for
\* the single record that holds it.
SnapshotRoundTrip ==
  LET snap == Snapshot(db, now)
      long == \E k \in Keys : Live(db, now, k) /\ Oversized(db, k)
  IN  \A t \in now .. load.maxTime + PerMs :
        LET r == Replay(snap.cmds, t)
        IN  /\ r.failed <=> long
            /\ ~long => Views(r.st, t) = Views(InMillis(db), t)

\* The sweeper reaps: an expired key does not stay in the map for ever.
ExpiredReaped ==
  \A k \in Keys : (Present(db, k) /\ expired(db.data[k], now))
                    ~> ~(Present(db, k) /\ expired(db.data[k], now))
============================================================================
