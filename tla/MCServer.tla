------------------------------ MODULE MCServer -----------------------------
EXTENDS Server

CONSTANTS c1, c2, k1, k2

\* Each client owns a key, and its writes do not read the value they
\* replace; NX, XX and deadlines on and between two milliseconds included.
Owns(k) == {SetCmd(k, 2, "XX", PerMs + 1), SetCmd(k, 1, "", 2 * PerMs), KeyCmd("DEL", k)}
Disjoint ==
  [cmds |-> c1 :> Owns(k1) \cup {SetCmd(k1, 1, "", 0), SetCmd(k1, 2, "NX", 0)} @@ c2 :> Owns(k2),
   maxCalls |-> 3, maxFails |-> 1, maxRewrites |-> 1, maxKills |-> 1, maxTime |-> 2 * PerMs]

\* One client, every command that changes a value, no deadlines.  Lists and
\* counters begin in k1 and are moved or copied to k2; only k2 holds hashes,
\* so none is copied.
Types ==
  {SetCmd(k, v, "", 0) : k \in Keys, v \in {1, Text}}
  \cup {KeyCmd("DEL", k) : k \in Keys}
  \cup {KeyCmd(op, k1) : op \in {"INCR", "DECR", "LPOP", "RPOP"}}
  \cup {PushCmd(op, k1, <<1, 2>>) : op \in {"LPUSH", "RPUSH"}}
  \cup {HSetCmd(k2, <<<<f, 1>>>>) : f \in Fields} \cup {HDelCmd(k2, f) : f \in Fields}
  \cup {MoveCmd(op, k1, d) : op \in {"RENAME", "RENAMENX"}, d \in Keys}
  \cup {CopyCmd(k1, d, rep) : d \in Keys, rep \in BOOLEAN}
  \cup {FlushCmd}
Alone(S) == c1 :> S @@ c2 :> {}
Sequential ==
  [cmds |-> Alone(Types),
   maxCalls |-> 4, maxFails |-> 0, maxRewrites |-> 0, maxKills |-> 1, maxTime |-> PerMs]

\* One client, a key with a deadline.
Renamed ==
  [cmds |-> Alone({SetCmd(k1, 1, "", 2 * PerMs), MoveCmd("RENAME", k1, k2)}),
   maxCalls |-> 3, maxFails |-> 0, maxRewrites |-> 0, maxKills |-> 1, maxTime |-> 2 * PerMs]

\* One client beside a rewrite.
Counting ==
  [cmds |-> Alone({KeyCmd("INCR", k1)}),
   maxCalls |-> 2, maxFails |-> 0, maxRewrites |-> 1, maxKills |-> 0, maxTime |-> PerMs]

Passing == {Disjoint, Sequential}
Renaming == {Renamed}
Rewriting == {Counting}
============================================================================
