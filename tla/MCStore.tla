------------------------------ MODULE MCStore ------------------------------
(* Store under the workloads its questions need: SCAN over three keys that *)
(* appear and move, two keys with deadlines, two keys of every type        *)
(* without and with deadlines, a list that outgrows a record.              *)
EXTENDS Store

CONSTANTS k1, k2, k3, r1

Scanned ==
  [ops |-> {"SET", "DEL", "RENAME", "COPY", "FLUSHDB"}, keys |-> {k1, k2, k3},
   values |-> {1}, modes |-> {""}, deadlines |-> {0}, copyHashes |-> FALSE,
   readers |-> {}, counts |-> {1, 2}, maxLoops |-> 1,
   maxTime |-> PerMs, maxSeq |-> 5, maxLen |-> 0]

Expiring ==
  [ops |-> {"SET", "DEL", "EXPIRE", "PERSIST", "RENAME", "RENAMENX", "COPY"}, keys |-> {k1, k2},
   values |-> {1}, modes |-> {"", "NX", "XX"}, copyHashes |-> FALSE,
   deadlines |-> {0, PerMs + 1, 2 * PerMs + 1},
   readers |-> {r1}, counts |-> {1}, maxLoops |-> 2,
   maxTime |-> PerMs + 1, maxSeq |-> 3, maxLen |-> 0]

Typed ==
  [ops |-> {"SET", "INCR", "PUSH", "POP", "HSET", "HDEL", "RENAME", "COPY"},
   keys |-> {k1, k2}, values |-> {1}, modes |-> {""}, deadlines |-> {0}, copyHashes |-> FALSE,
   readers |-> {}, counts |-> {}, maxLoops |-> 1,
   maxTime |-> PerMs, maxSeq |-> 3, maxLen |-> 2]

Aging ==
  [Typed EXCEPT !.ops = {"SET", "EXPIRE", "PUSH", "HSET", "RENAME", "COPY"},
                !.deadlines = Expiring.deadlines, !.maxTime = PerMs + 1]

Long ==
  [Typed EXCEPT !.ops = {"SET", "EXPIRE", "PUSH", "POP"}, !.keys = {k1},
                !.deadlines = Expiring.deadlines, !.maxTime = PerMs + 1,
                !.maxLen = MaxArrayLen]

\* Typed with the copies of hashes that it leaves out.
HashCopied == [Typed EXCEPT !.ops = {"HSET", "HDEL", "COPY"}, !.copyHashes = TRUE]

Passing == {Scanned, Expiring, Typed, Aging, Long}
Copying == {HashCopied}
============================================================================
