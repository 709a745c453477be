---------------------------- MODULE MCReplication --------------------------
EXTENDS Replication

CONSTANTS k1, k2

Incr       == KeyCmd("INCR", k1)
SetPx      == [op |-> "SETPX", k |-> k2, v |-> 1, mode |-> "", ttl |-> 1]
WaitAll(t) == [op |-> "WAIT", need |-> Cardinality(Nodes) - 1, timed |-> t]

\* A counter, a key with a deadline, a WAIT for every other member, and a
\* read after READONLY or not.
Mixed == {Incr, SetPx, WaitAll(TRUE), [op |-> "GET"], [op |-> "READONLY"]}

Symmetry == Permutations(Nodes) \cup Permutations(Clients)
============================================================================
