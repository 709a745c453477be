------------------------------- MODULE Server ------------------------------
(* The command handlers of internal/server over the keyspace and the AOF:  *)
(* a mutating handler runs its Store method under the store's lock,        *)
(* releases it, and then appends the canonical record under the writer's   *)
(* lock.  BGREWRITEAOF, kills and restarts go on around it.  The AOF is    *)
(* what module Aof shows of it: the sequence of records a replay finds,    *)
(* to which a returned Append has added one, and which a completed rewrite *)
(* replaces by the snapshot and the side buffer.                           *)
EXTENDS Keyspace

CONSTANTS
  Clients,  \* connections
  Loads     \* the workloads they may put on the server

\* A workload: the commands of each client, and the bounds on the commands
\* that change the store, failing appends, BGREWRITEAOFs, kills and the clock.
ASSUME ServerConstants ==
  \A w \in Loads :
    /\ DOMAIN w.cmds = Clients
    /\ {w.maxCalls, w.maxFails, w.maxRewrites, w.maxKills, w.maxTime} \subseteq Nat

VARIABLES
  load,     \* the workload
  db,       \* the Store
  now,      \* the wall clock
  log,      \* the records of the canonical AOF
  side,     \* the side buffer: armed or not, its records
  rw,       \* BGREWRITEAOF: "idle", "begun", "snapped"
  snap,     \* the records of .tmp
  rec,      \* per client: the record its handler has yet to append
  proc,     \* "up", "down", or "refused": the last start failed in replay
  count,    \* calls, failed appends, rewrites and kills so far
  broken,   \* the writer's bufio has met an error, which it keeps
  unlogged  \* history: keys a failed append has left ahead of the AOF

vars == <<load, db, now, log, side, rw, snap, rec, proc, count, broken, unlogged>>

NoRec  == [op |-> "none"]
NoSide == [armed |-> FALSE, recs |-> <<>>]

Init ==
  /\ load \in Loads
  /\ db = EmptyStore /\ now = PerMs
  /\ log = <<>> /\ side = NoSide /\ rw = "idle" /\ snap = <<>>
  /\ rec = [c \in Clients |-> NoRec]
  /\ proc = "up"
  /\ count = [calls |-> 0, fails |-> 0, rewrites |-> 0, kills |-> 0]
  /\ broken = FALSE /\ unlogged = {}

----------------------------------------------------------------------------
(* A handler.                                                              *)

\* The Store method; a handler whose method wrote nothing replies at once.
Handle(c) == \E cmd \in load.cmds[c] :
  LET r == Call(db, now, cmd)
  IN  /\ proc = "up" /\ rec[c] = NoRec
      /\ db' = r.st
      /\ IF r.wrote
           THEN /\ count.calls < load.maxCalls
                /\ rec' = [rec EXCEPT ![c] = Canonical(cmd)]
                /\ count' = [count EXCEPT !.calls = @ + 1]
           ELSE UNCHANGED <<rec, count>>
      /\ UNCHANGED <<load, broken, unlogged, now, log, side, rw, snap, proc>>

\* The keys a record is about.
Touched(r) == CASE r.op = "none" -> {}
                [] r.op = "FLUSHDB" -> Keys
                [] r.op \in {"RENAME", "RENAMENX", "COPY"} -> {r.k, r.dst}
                [] OTHER -> {r.k}

\* appendIfLive, and the reply.
AppendIfLive(c) ==
  /\ proc = "up" /\ rec[c] # NoRec /\ ~broken
  /\ log' = Append(log, rec[c])
  /\ side' = IF side.armed THEN [side EXCEPT !.recs = Append(@, rec[c])] ELSE side
  /\ rec' = [rec EXCEPT ![c] = NoRec]
  /\ UNCHANGED <<load, broken, unlogged, db, now, rw, snap, proc, count>>

\* appendIfLive fails before the record is in the file: the client gets an
\* error, the store keeps the change, and every later Append fails too.  What
\* the side buffer got is never used, as FinalizeRewrite then fails as well.
\* (After a failed fsync the record is in the file, as after AppendIfLive.)
AppendFails(c) ==
  /\ proc = "up" /\ rec[c] # NoRec
  /\ broken \/ count.fails < load.maxFails
  /\ rec' = [rec EXCEPT ![c] = NoRec]
  /\ count' = [count EXCEPT !.fails = @ + IF broken THEN 0 ELSE 1]
  /\ broken' = TRUE /\ unlogged' = unlogged \cup Touched(rec[c])
  /\ UNCHANGED <<load, db, now, log, side, rw, snap, proc>>

\* A Get or the sweeper evicts an expired key.
Evict(k) ==
  /\ proc = "up" /\ Present(db, k) /\ expired(db.data[k], now)
  /\ db' = Delete(db, k)
  /\ UNCHANGED <<load, broken, unlogged, now, log, side, rw, snap, rec, proc, count>>

----------------------------------------------------------------------------
(* BGREWRITEAOF.                                                           *)

BeginRewrite ==
  /\ proc = "up" /\ rw = "idle" /\ count.rewrites < load.maxRewrites
  /\ rw' = "begun"
  /\ side' = [armed |-> TRUE, recs |-> <<>>]
  /\ count' = [count EXCEPT !.rewrites = @ + 1]
  /\ UNCHANGED <<load, broken, unlogged, db, now, log, snap, rec, proc>>

TakeSnapshot ==
  /\ proc = "up" /\ rw = "begun"
  /\ db' = Snapshot(db, now).st
  /\ snap' = Snapshot(db, now).cmds
  /\ rw' = "snapped"
  /\ UNCHANGED <<load, broken, unlogged, now, log, side, rec, proc, count>>

\* Variant: the side buffer is not folded into the new file.
FinalizeRewriteDropsSide ==
  /\ proc = "up" /\ rw = "snapped"
  /\ log' = IF broken THEN log ELSE snap
  /\ side' = NoSide /\ rw' = "idle" /\ snap' = <<>>
  /\ UNCHANGED <<load, broken, unlogged, db, now, rec, proc, count>>

\* It flushes bufio first: with a broken writer the rewrite is given up.
FinalizeRewrite ==
  /\ proc = "up" /\ rw = "snapped"
  /\ log' = IF broken THEN log ELSE snap \o side.recs
  /\ side' = NoSide /\ rw' = "idle" /\ snap' = <<>>
  /\ UNCHANGED <<load, broken, unlogged, db, now, rec, proc, count>>

----------------------------------------------------------------------------
(* Kills, restarts and time.                                               *)

Kill ==
  /\ proc = "up" /\ count.kills < load.maxKills
  /\ proc' = "down"
  /\ db' = EmptyStore
  /\ side' = NoSide /\ rw' = "idle" /\ snap' = <<>>
  /\ rec' = [c \in Clients |-> NoRec]
  /\ count' = [count EXCEPT !.kills = @ + 1]
  /\ broken' = FALSE /\ unlogged' = {}
  /\ UNCHANGED <<load, now, log>>

\* server.New: replay the AOF; an error reply refuses the start.
Restart ==
  LET r == Replay(log, now)
  IN  /\ proc = "down"
      /\ proc' = IF r.failed THEN "refused" ELSE "up"
      /\ db' = IF r.failed THEN db ELSE r.st
      /\ UNCHANGED <<load, broken, unlogged, now, log, side, rw, snap, rec, count>>

Tick ==
  /\ now < load.maxTime
  /\ now' = now + 1
  /\ UNCHANGED <<load, broken, unlogged, db, log, side, rw, snap, rec, proc, count>>

Next ==
  \/ \E c \in Clients : Handle(c) \/ AppendIfLive(c) \/ AppendFails(c)
  \/ \E k \in Keys : Evict(k)
  \/ BeginRewrite \/ TakeSnapshot \/ FinalizeRewrite
  \/ Kill \/ Restart \/ Tick

Spec == Init /\ [][Next]_vars

----------------------------------------------------------------------------
(* Properties.                                                             *)

\* A restart now, or at any later instant, gives every key on which no
\* handler is between its Store method and its Append the value, type,
\* order and deadline the running server has for it at that instant, but for
\* a deadline's fraction of a millisecond, which the records cut off.  Only
\* the keys whose change a failed append has reported as an error are left
\* out: no rewrite after the failure may lose or change another key.
RecoveredMatchesLive ==
  proc = "up" =>
    \A t \in now .. load.maxTime + PerMs :
      LET r == Replay(log, t)
      IN  \A k \in Keys \ (unlogged \cup UNION {Touched(rec[c]) : c \in Clients}) :
            View(r.st, t, k) = View(InMillis(db), t, k)

\* A server started again on the AOF it wrote does not refuse to start.
RestartsClean == proc # "refused"
============================================================================
