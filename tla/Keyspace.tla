----------------------------- MODULE Keyspace -----------------------------
(* The keyspace of internal/store and the command handlers on top of it,   *)
(* as pure operators.  Every Store method runs under one mutex, so a       *)
(* method is a function of the state and the clock; a handler is the       *)
(* method it calls, the reply, and the record it appends to the AOF.       *)
EXTENDS Integers, Sequences, FiniteSets, SequencesExt

CONSTANTS
  Keys,     \* key names
  Fields,   \* hash field names
  Text,     \* a string value that does not parse as an integer
  MaxInt,   \* math.MaxInt64 (the smallest integer is -MaxInt - 1)
  PerMs,    \* instants of the clock in a millisecond
  MaxArrayLen \* resp: the most elements a frame may announce

ASSUME KeyspaceConstants ==
  /\ IsFiniteSet(Keys) /\ Keys # {} /\ IsFiniteSet(Fields)
  /\ Text \notin Int /\ MaxInt \in Nat
  /\ PerMs \in Nat \ {0} /\ MaxArrayLen \in Nat

----------------------------------------------------------------------------
(* Entries.  fieldOrder is a Go slice: a backing array and a length.  The  *)
(* arrays live in a heap so that two entries can share one; array 0 is     *)
(* the nil slice's.  A deadline of 0 is the zero time.Time: no expiry; the *)
(* clock starts, and deadlines lie, at PerMs or later.                     *)

Nil == [arr |-> 0, len |-> 0]

NoEntry == [typ |-> "none", str |-> 0, list |-> <<>>, hash |-> <<>>,
            fieldOrder |-> Nil, expireAt |-> 0, seq |-> 0]

Arrays == 1 .. Cardinality(Keys)

EmptyStore == [data |-> [k \in Keys |-> NoEntry], seqCounter |-> 0,
               heap |-> [a \in Arrays |-> <<>>]]

Value == Int \cup {Text}

expired(e, now) == e.expireAt # 0 /\ now >= e.expireAt
Present(st, k)  == st.data[k].typ # "none"
Live(st, now, k) == Present(st, k) /\ ~expired(st.data[k], now)

\* Writing the map; an array no entry refers to any more is garbage.
WithData(st, data) ==
  LET used == {data[x].fieldOrder.arr : x \in Keys}
  IN  [data |-> data, seqCounter |-> st.seqCounter,
       heap |-> [a \in Arrays |-> IF a \in used THEN st.heap[a] ELSE <<>>]]

Put(st, k, e) == WithData(st, [st.data EXCEPT ![k] = e])

DeleteAll(st, S) == WithData(st, [k \in Keys |-> IF k \in S THEN NoEntry ELSE st.data[k]])

Delete(st, k) == DeleteAll(st, {k})
nextSeq(st)   == [st EXCEPT !.seqCounter = @ + 1]

\* getForWrite: an expired entry is evicted and absent.
getForWrite(st, now, k) ==
  IF Present(st, k) /\ expired(st.data[k], now) THEN Delete(st, k) ELSE st

\* A fresh creation sequence for a key that appears.
Create(st, k, e) == LET s == nextSeq(st) IN Put(s, k, [e EXCEPT !.seq = s.seqCounter])

\* What a Store method leaves and returns: the state, the outcome and a
\* number, and whether the handler has something to append.
Result(st, kind, n, wrote) == [st |-> st, kind |-> kind, n |-> n, wrote |-> wrote]

----------------------------------------------------------------------------
(* Strings and deadlines: store.go.                                        *)

Set(st, now, k, v, mode, at) ==
  LET s == getForWrite(st, now, k)
      e == [NoEntry EXCEPT !.typ = "string", !.str = v, !.expireAt = at]
  IN  IF (mode = "NX" /\ Present(s, k)) \/ (mode = "XX" /\ ~Present(s, k))
        THEN Result(s, "null", 0, FALSE)
        ELSE Result(IF Present(s, k) THEN Put(s, k, [e EXCEPT !.seq = s.data[k].seq])
                                     ELSE Create(s, k, e), "ok", 0, TRUE)

\* Del removes expired entries too, and does not count them.
Del(st, now, S) ==
  LET n == Cardinality({k \in S : Live(st, now, k)})
  IN  Result(DeleteAll(st, S), "int", n, n > 0)

Expire(st, now, k, at) ==
  LET s == getForWrite(st, now, k)
  IN  IF Present(s, k)
        THEN Result(Put(s, k, [s.data[k] EXCEPT !.expireAt = at]), "int", 1, TRUE)
        ELSE Result(s, "int", 0, FALSE)

Persist(st, now, k) ==
  LET s == getForWrite(st, now, k)
  IN  IF Present(s, k) /\ s.data[k].expireAt # 0
        THEN Result(Put(s, k, [s.data[k] EXCEPT !.expireAt = 0]), "int", 1, TRUE)
        ELSE Result(s, "int", 0, FALSE)

\* Variant: an overflow that is appended although it wrote nothing.
incrByAppendsError(st, now, k, delta) ==
  LET s == getForWrite(st, now, k)
      n == (IF Present(s, k) THEN s.data[k].str ELSE 0) + delta
      e == [NoEntry EXCEPT !.typ = "string", !.str = n]
  IN  IF Present(s, k) /\ (s.data[k].typ # "string" \/ s.data[k].str = Text)
        THEN Result(s, "notint", 0, FALSE)
      ELSE IF n > MaxInt \/ n < -MaxInt - 1 THEN Result(s, "overflow", 0, TRUE)
      ELSE Result(Create(s, k, e), "int", n, TRUE)

\* incrBy: the new entry has no deadline; the old one's seq stays.
incrBy(st, now, k, delta) ==
  LET s == getForWrite(st, now, k)
      n == (IF Present(s, k) THEN s.data[k].str ELSE 0) + delta
      e == [NoEntry EXCEPT !.typ = "string", !.str = n]
  IN  CASE Present(s, k) /\ s.data[k].typ # "string" -> Result(s, "wrongtype", 0, FALSE)
        [] Present(s, k) /\ s.data[k].typ = "string" /\ s.data[k].str = Text
             -> Result(s, "notint", 0, FALSE)
        [] OTHER ->
             IF n > MaxInt \/ n < -MaxInt - 1 THEN Result(s, "overflow", 0, FALSE)
             ELSE IF Present(s, k)
               THEN Result(Put(s, k, [e EXCEPT !.seq = s.data[k].seq]), "int", n, TRUE)
               ELSE Result(Create(s, k, e), "int", n, TRUE)

\* The counter of creation sequences is not reset.
FlushDB(st) == Result([EmptyStore EXCEPT !.seqCounter = st.seqCounter], "ok", 0, TRUE)

----------------------------------------------------------------------------
(* Lists: typed.go.                                                        *)

push(st, now, k, vals, front) ==
  LET s == getForWrite(st, now, k)
      l == IF front THEN Reverse(vals) \o s.data[k].list ELSE s.data[k].list \o vals
  IN  CASE ~Present(s, k) ->
             Result(Create(s, k, [NoEntry EXCEPT !.typ = "list", !.list = l]),
                    "int", Len(l), TRUE)
        [] Present(s, k) /\ s.data[k].typ # "list" -> Result(s, "wrongtype", 0, FALSE)
        [] OTHER -> Result(Put(s, k, [s.data[k] EXCEPT !.list = l]), "int", Len(l), TRUE)

\* Popping the last element deletes the key.
pop(st, now, k, front) ==
  LET s == getForWrite(st, now, k)
      l == s.data[k].list
      rest == IF front THEN Tail(l) ELSE Front(l)
  IN  CASE ~Present(s, k) -> Result(s, "null", 0, FALSE)
        [] Present(s, k) /\ s.data[k].typ # "list" -> Result(s, "wrongtype", 0, FALSE)
        [] OTHER -> Result(IF rest = <<>> THEN Delete(s, k)
                                          ELSE Put(s, k, [s.data[k] EXCEPT !.list = rest]),
                           "bulk", IF front THEN Head(l) ELSE Last(l), TRUE)

----------------------------------------------------------------------------
(* Hashes: typed.go.                                                       *)

\* The array behind a slice, and the field names the slice shows.
Backing(st, order) == IF order.arr = 0 THEN <<>> ELSE st.heap[order.arr]
FieldNames(st, order) == SubSeq(Backing(st, order), 1, order.len)

\* What a slot of an array holds that append has not filled.
NoName == ""

\* Go's append of one element: in place while there is room in the backing
\* array, else in a new array of twice the capacity.
appendField(st, k, f) ==
  LET order == st.data[k].fieldOrder
      old   == Backing(st, order)
      inUse == {st.data[x].fieldOrder.arr : x \in Keys \ {k}}
      fresh == CHOOSE a \in Arrays : a \notin inUse
      room  == order.len < Len(old)
      arr   == IF room THEN order.arr ELSE fresh
      cap   == IF room THEN Len(old) ELSE IF old = <<>> THEN 1 ELSE 2 * Len(old)
      body  == [i \in 1 .. cap |-> IF i = order.len + 1 THEN f
                                   ELSE IF i <= Len(old) THEN old[i] ELSE NoName]
  IN  Put([st EXCEPT !.heap[arr] = body], k,
          [st.data[k] EXCEPT !.fieldOrder = [arr |-> arr, len |-> order.len + 1]])

\* removeField shifts the rest of the backing array down in place.
removeField(st, k, f) ==
  LET order == st.data[k].fieldOrder
      b     == Backing(st, order)
      at    == SelectInSubSeq(b, 1, order.len, LAMBDA x : x = f)
  IN  IF at = 0 THEN st
      ELSE Put([st EXCEPT !.heap[order.arr] =
                  [i \in DOMAIN b |-> IF i \in at .. order.len - 1 THEN b[i + 1] ELSE b[i]]], k,
               [st.data[k] EXCEPT !.fieldOrder.len = @ - 1])

\* Variant: the order is extended for a field that exists.
HSetFieldAppends(st, k, f, v) ==
  LET h == st.data[k].hash
      s == appendField(st, k, f)
  IN  Put(s, k, [s.data[k] EXCEPT !.hash =
                   [x \in DOMAIN h \cup {f} |-> IF x = f THEN v ELSE h[x]]])

\* One field/value pair of HSET.
HSetField(st, k, f, v) ==
  LET h == st.data[k].hash
      s == IF f \in DOMAIN h THEN st ELSE appendField(st, k, f)
  IN  Put(s, k, [s.data[k] EXCEPT !.hash =
                   [x \in DOMAIN h \cup {f} |-> IF x = f THEN v ELSE h[x]]])

\* pairs is a sequence of <<field, value>>.
HSetPairs(st, k, pairs) == FoldLeft(LAMBDA x, p : HSetField(x, k, p[1], p[2]), st, pairs)

HSet(st, now, k, pairs) ==
  LET s == getForWrite(st, now, k)
      t == IF Present(s, k) THEN s ELSE Create(s, k, [NoEntry EXCEPT !.typ = "hash"])
      u == HSetPairs(t, k, pairs)
      n == Cardinality(DOMAIN u.data[k].hash) - Cardinality(DOMAIN t.data[k].hash)
  IN  IF t.data[k].typ = "hash" THEN Result(u, "int", n, TRUE)
                                ELSE Result(s, "wrongtype", 0, FALSE)

\* Deleting the last field deletes the key.
HDel(st, now, k, f) ==
  LET s == getForWrite(st, now, k)
      h == s.data[k].hash
      t == Put(s, k, [s.data[k] EXCEPT !.hash = Restrict(h, DOMAIN h \ {f})])
  IN  CASE ~Present(s, k) -> Result(s, "int", 0, FALSE)
        [] Present(s, k) /\ s.data[k].typ # "hash" -> Result(s, "wrongtype", 0, FALSE)
        [] OTHER -> IF f \notin DOMAIN h THEN Result(s, "int", 0, FALSE)
                    ELSE Result(IF DOMAIN h = {f} THEN Delete(removeField(t, k, f), k)
                                                 ELSE removeField(t, k, f),
                                "int", 1, TRUE)

----------------------------------------------------------------------------
(* RENAME, RENAMENX and COPY: keyspace.go.                                 *)

\* Variant: the source stays, and shares the payload.
MoveShares(st, src, dst) == Create(st, dst, st.data[src])

\* Move an entry: the destination gets a fresh seq.
Move(st, src, dst) == Delete(Create(st, dst, st.data[src]), src)

Rename(st, now, src, dst) ==
  LET s == getForWrite(st, now, src)
  IN  IF ~Present(s, src) THEN Result(s, "nokey", 0, FALSE)
      ELSE IF src = dst THEN Result(s, "ok", 0, FALSE)
      ELSE Result(Move(s, src, dst), "ok", 0, TRUE)

RenameNX(st, now, src, dst) ==
  LET s == getForWrite(st, now, src)
      t == getForWrite(s, now, dst)
  IN  IF ~Present(s, src) THEN Result(s, "nokey", 0, FALSE)
      ELSE IF src = dst THEN Result(s, "int", 0, FALSE)
      ELSE IF Present(t, dst) THEN Result(t, "int", 0, FALSE)
      ELSE Result(Move(t, src, dst), "int", 1, TRUE)

\* clone copies the string, the list and the hash, not the array behind
\* fieldOrder.
clone(e) == e

Copy(st, now, src, dst, replace) ==
  LET s == getForWrite(st, now, src)
      t == getForWrite(s, now, dst)
  IN  IF ~Present(s, src) THEN Result(s, "int", 0, FALSE)
      ELSE IF src = dst THEN Result(s, "same", 0, FALSE)
      ELSE IF Present(t, dst) /\ ~replace THEN Result(t, "int", 0, FALSE)
      ELSE Result(Create(t, dst, clone(t.data[src])), "int", 1, TRUE)

----------------------------------------------------------------------------
(* Reads.                                                                  *)

\* HGETALL: the fields the order lists, each with its value, or with none
\* when the hash has no such field.
HGetAll(st, k) ==
  LET names == FieldNames(st, st.data[k].fieldOrder)
      h     == st.data[k].hash
  IN  [i \in DOMAIN names |->
         <<names[i], IF names[i] \in DOMAIN h THEN {h[names[i]]} ELSE {}>>]

\* What GET, LRANGE, HGETALL, TYPE and PTTL show of a key; NoView for an
\* absent one.
NoView == [typ |-> "none", str |-> 0, list |-> <<>>, pairs |-> <<>>, expireAt |-> 0]

View(st, now, k) ==
  LET e == st.data[k]
  IN  IF ~Live(st, now, k) THEN NoView
      ELSE [typ |-> e.typ, str |-> e.str, list |-> e.list,
            pairs |-> HGetAll(st, k), expireAt |-> e.expireAt]

Views(st, now) == [k \in Keys |-> View(st, now, k)]

\* Variant: the cursor is the seq of the first key not examined.
ScanSkips(st, now, cursor, count) ==
  LET seq(k) == st.data[k].seq
      cand == {k \in Keys : Live(st, now, k) /\ seq(k) > cursor}
      out  == {k \in cand : Cardinality({j \in cand : seq(j) < seq(k)}) < count}
  IN  [keys |-> out, next |-> IF out = cand THEN 0 ELSE Min({seq(k) : k \in cand \ out})]

\* One SCAN call: of the live keys past the cursor the count ones with the
\* smallest seq, and the next cursor: the largest seq returned, 0 at the end.
Scan(st, now, cursor, count) ==
  LET seq(k) == st.data[k].seq
      cand == {k \in Keys : Live(st, now, k) /\ seq(k) > cursor}
      out  == {k \in cand : Cardinality({j \in cand : seq(j) < seq(k)}) < count}
  IN  [keys |-> out, next |-> IF out = cand THEN 0 ELSE Max({seq(k) : k \in out})]

----------------------------------------------------------------------------
(* Commands.  A command is the argv after the option parsing; EXPIRE and   *)
(* SET EX carry the deadline they were resolved to.                        *)

SetCmd(k, v, mode, at) == [op |-> "SET", k |-> k, v |-> v, mode |-> mode, at |-> at]
ExpireCmd(k, at)       == [op |-> "PEXPIREAT", k |-> k, at |-> at]
KeyCmd(op, k)          == [op |-> op, k |-> k]
PushCmd(op, k, vals)   == [op |-> op, k |-> k, vals |-> vals]
HSetCmd(k, pairs)      == [op |-> "HSET", k |-> k, pairs |-> pairs]
HDelCmd(k, f)          == [op |-> "HDEL", k |-> k, f |-> f]
MoveCmd(op, src, dst)  == [op |-> op, k |-> src, dst |-> dst]
CopyCmd(src, dst, rep) == [op |-> "COPY", k |-> src, dst |-> dst, replace |-> rep]
FlushCmd               == [op |-> "FLUSHDB"]

\* The Store method a handler calls.
Call(st, now, c) ==
  CASE c.op = "SET"       -> Set(st, now, c.k, c.v, c.mode, c.at)
    [] c.op = "DEL"       -> Del(st, now, {c.k})
    [] c.op = "INCR"      -> incrBy(st, now, c.k, 1)
    [] c.op = "DECR"      -> incrBy(st, now, c.k, -1)
    [] c.op = "PEXPIREAT" -> Expire(st, now, c.k, c.at)
    [] c.op = "PERSIST"   -> Persist(st, now, c.k)
    [] c.op = "LPUSH"     -> push(st, now, c.k, c.vals, TRUE)
    [] c.op = "RPUSH"     -> push(st, now, c.k, c.vals, FALSE)
    [] c.op = "LPOP"      -> pop(st, now, c.k, TRUE)
    [] c.op = "RPOP"      -> pop(st, now, c.k, FALSE)
    [] c.op = "HSET"      -> HSet(st, now, c.k, c.pairs)
    [] c.op = "HDEL"      -> HDel(st, now, c.k, c.f)
    [] c.op = "RENAME"    -> Rename(st, now, c.k, c.dst)
    [] c.op = "RENAMENX"  -> RenameNX(st, now, c.k, c.dst)
    [] c.op = "COPY"      -> Copy(st, now, c.k, c.dst, c.replace)
    [] c.op = "FLUSHDB"   -> FlushDB(st)

\* time.UnixMilli of UnixMilli: a deadline in a record is a whole number of
\* milliseconds, and what lies below is cut off.
Millis(at) == at - (at % PerMs)

\* The record a handler appends: the command itself, except that SET has
\* resolved NX and XX and drops them, and that a deadline is rounded down.
Canonical(c) == CASE c.op = "SET"       -> SetCmd(c.k, c.v, "", Millis(c.at))
                  [] c.op = "PEXPIREAT" -> ExpireCmd(c.k, Millis(c.at))
                  [] OTHER              -> c

\* The elements of the array a record is written as.
ArgvLen(c) == CASE c.op = "SET"               -> IF c.at = 0 THEN 3 ELSE 5
                [] c.op \in {"LPUSH", "RPUSH"} -> 2 + Len(c.vals)
                [] c.op = "HSET"              -> 2 + 2 * Len(c.pairs)
                [] c.op \in {"PEXPIREAT", "HDEL", "RENAME", "RENAMENX"} -> 3
                [] c.op = "COPY"              -> IF c.replace THEN 4 ELSE 3
                [] c.op = "FLUSHDB"           -> 1
                [] OTHER                      -> 2

IsError(kind) == kind \in {"wrongtype", "notint", "overflow", "nokey", "same"}

----------------------------------------------------------------------------
(* The AOF: snapshotForRewrite and replayApply.                            *)

\* Variant: the fields of a hash in the order of the map.
SnapshotCmdsUnordered(st, k) ==
  LET e     == st.data[k]
      ttl   == IF e.expireAt = 0 THEN <<>> ELSE <<ExpireCmd(k, Millis(e.expireAt))>>
      names == SetToSeq(DOMAIN e.hash)
  IN  CASE e.typ = "string" -> <<SetCmd(k, e.str, "", Millis(e.expireAt))>>
        [] e.typ = "list"   -> <<PushCmd("RPUSH", k, e.list)>> \o ttl
        [] e.typ = "hash"   ->
             <<HSetCmd(k, [i \in DOMAIN names |-> <<names[i], e.hash[names[i]]>>])>> \o ttl

\* The records that rebuild one live key: a list or hash is a single one,
\* whatever its length.
SnapshotCmds(st, k) ==
  LET e   == st.data[k]
      ttl == IF e.expireAt = 0 THEN <<>> ELSE <<ExpireCmd(k, Millis(e.expireAt))>>
      val(f) == IF f \in DOMAIN e.hash THEN e.hash[f] ELSE Text  \* a nil []byte
  IN  CASE e.typ = "string" -> <<SetCmd(k, e.str, "", Millis(e.expireAt))>>
        [] e.typ = "list"   -> <<PushCmd("RPUSH", k, e.list)>> \o ttl
        [] e.typ = "hash"   ->
             LET names == FieldNames(st, e.fieldOrder)
             IN  <<HSetCmd(k, [i \in DOMAIN names |-> <<names[i], val(names[i])>>])>> \o ttl

\* Snapshot evicts what is expired and copies the rest; the map's order
\* does not matter, as no two of the records concern the same key but the
\* ones of SnapshotCmds.
Snapshot(st, now) ==
  LET s == DeleteAll(st, {k \in Keys : expired(st.data[k], now)})
  IN  [st |-> s, cmds |-> FlattenSeq([i \in 1 .. Cardinality({k \in Keys : Present(s, k)}) |->
                 SnapshotCmds(s, SetToSeq({k \in Keys : Present(s, k)})[i])])]

\* Replay reads every record and runs it through its handler at the clock of
\* the restart.  It stops at a record the reader refuses as too long, and at
\* the first error reply.
ReplayApply(acc, now, c) ==
  IF acc.failed THEN acc
  ELSE IF ArgvLen(c) > MaxArrayLen THEN [acc EXCEPT !.failed = TRUE]
  ELSE LET r == Call(acc.st, now, c) IN [st |-> r.st, failed |-> IsError(r.kind)]

Replay(log, now) ==
  FoldLeft(LAMBDA acc, c : ReplayApply(acc, now, c), [st |-> EmptyStore, failed |-> FALSE], log)

----------------------------------------------------------------------------
(* What a restart should give back.                                        *)

\* The store with its deadlines as the records carry them.
InMillis(st) ==
  [st EXCEPT !.data = [k \in Keys |-> [st.data[k] EXCEPT !.expireAt = Millis(@)]]]

\* A list or hash that no single record can rebuild.
Oversized(st, k) ==
  \/ Len(st.data[k].list) + 2 > MaxArrayLen
  \/ 2 * Cardinality(DOMAIN st.data[k].hash) + 2 > MaxArrayLen
============================================================================
