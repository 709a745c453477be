---------------------------- MODULE Replication ----------------------------
(* The replicated mode: dispatch's propose and read gates, cluster.Node    *)
(* and cluster.StateMachine on every member, WAIT, and the ClusterClient   *)
(* that follows NOTLEADER redirects.  ToyRaft is a library outside this    *)
(* repository: its actions here are what Status, LeaderHint, Propose and   *)
(* Apply let the server see of an elected leader and a replicated log.     *)
EXTENDS Keyspace, TLC

CONSTANTS
  Nodes,       \* the members of -peers
  Clients,     \* ClusterClients
  None,        \* no known leader, no connection
  Workload,    \* the commands the clients send
  Advertised,  \* the members with a client address in -peers
  MaxTerm,     \* bound on elections
  MaxCalls,    \* bound on the calls of all clients
  MaxRedirects,\* ClusterClient.maxRedirects
  Clock,       \* the instants the clocks of the members may show
  ProposeClock \* bound on the instants at which commands are proposed

ASSUME ReplicationConstants ==
  /\ IsFiniteSet(Nodes) /\ Cardinality(Nodes) % 2 = 1 /\ None \notin Nodes
  /\ Advertised \subseteq Nodes
  /\ MaxTerm \in Nat /\ MaxCalls \in Nat /\ MaxRedirects \in Nat
  /\ Clock \subseteq Nat /\ ProposeClock \subseteq Clock

VARIABLES
  raft,    \* per member: term, role, hint, log, commit, match
  node,    \* per member: applied index, store, AOF, results
  client,  \* per client: its connection and its call
  seen     \* history: calls so far, the replies of writes

vars == <<raft, node, client, seen>>

Majority   == Cardinality(Nodes) \div 2 + 1

NoMatch == [m \in Nodes |-> 0]
NoCmd   == [op |-> "none"]
Idle    == [st |-> "idle", id |-> 0, cmd |-> NoCmd, idx |-> 0, term |-> 0, tries |-> 0]
Closed  == [at |-> None, readonly |-> FALSE, call |-> Idle]

\* A cluster that has elected its first leader, which every member knows:
\* Run accepts no client before (WaitLeader).
Init == \E l \in Nodes :
  /\ raft = [n \in Nodes |-> [term |-> 1, role |-> IF n = l THEN "leader" ELSE "follower",
                              hint |-> l, log |-> <<>>, commit |-> 0, match |-> NoMatch]]
  /\ node = [n \in Nodes |-> [applied |-> 0, db |-> EmptyStore, aof |-> <<>>,
                              results |-> <<>>]]
  /\ client = [c \in Clients |-> Closed]
  /\ seen = [calls |-> 0, acks |-> {}]

IsLeader(n) == raft[n].role = "leader"

----------------------------------------------------------------------------
(* ToyRaft, from its use: a leader per term, elected by a majority with    *)
(* the longest log among it; a log the leader copies to the others; a      *)
(* commit index a majority has reached with an entry of the leader's term. *)
(* A leader that is cut off goes on reporting that it leads.  A member     *)
(* that dies is, to the others, one that is not heard of again, and to     *)
(* its clients a connection that fails.                                    *)

LastTerm(log) == IF log = <<>> THEN 0 ELSE Last(log).term

UpToDate(n, m) ==
  \/ LastTerm(raft[n].log) > LastTerm(raft[m].log)
  \/ /\ LastTerm(raft[n].log) = LastTerm(raft[m].log)
     /\ Len(raft[n].log) >= Len(raft[m].log)

Elect(n, Q) ==
  LET t == raft[n].term + 1
  IN  /\ ~IsLeader(n) /\ n \in Q /\ \A m \in Q : raft[m].term < t /\ UpToDate(n, m)
      /\ t <= MaxTerm
      /\ raft' = [m \in Nodes |->
           IF m = n THEN [raft[n] EXCEPT !.term = t, !.role = "leader", !.hint = n,
                            !.match = [NoMatch EXCEPT ![n] = Len(raft[n].log)]]
           ELSE IF m \in Q THEN [raft[m] EXCEPT !.term = t, !.role = "follower",
                                   !.hint = None, !.match = NoMatch]
           ELSE raft[m]]
      /\ UNCHANGED <<node, client, seen>>

\* The index a leader may commit: reached by a majority, of its own term.
Committable(r) ==
  LET ok == {i \in r.commit + 1 .. Len(r.log) :
               r.log[i].term = r.term /\ Cardinality({m \in Nodes : r.match[m] >= i}) >= Majority}
  IN  IF ok = {} THEN r.commit ELSE Max(ok)

\* A heartbeat with what f lacks; its acknowledgement may be lost.
Replicate(l, f, acked) ==
  LET heard == [raft[l] EXCEPT !.match[f] = IF acked THEN Len(raft[l].log) ELSE @]
  IN  /\ IsLeader(l) /\ l # f /\ raft[f].term <= raft[l].term
      /\ raft' = [raft EXCEPT
           ![l] = [heard EXCEPT !.commit = Committable(heard)],
           ![f] = [term |-> raft[l].term, role |-> "follower", hint |-> l,
                   log |-> raft[l].log, match |-> NoMatch,
                   commit |-> Max({raft[l].commit, @.commit})]]
      /\ raft' # raft
      /\ UNCHANGED <<node, client, seen>>

----------------------------------------------------------------------------
(* A member: StateMachine.Apply, and the handlers it runs.                 *)

\* What parseSetOptions and setExpiry make of a relative deadline.
Absolute(cmd, t) ==
  CASE cmd.op = "SETPX"   -> SetCmd(cmd.k, cmd.v, cmd.mode, t + cmd.ttl)
    [] cmd.op = "PEXPIRE" -> ExpireCmd(cmd.k, t + cmd.ttl)
    [] OTHER              -> cmd

\* Variant: the command is proposed as the client sent it.
ResolveNothing(cmd, t) == cmd

\* The leader's clock, when the command is proposed.
resolveNondeterministic(cmd, t) == Absolute(cmd, t)

\* Variant: the reply is filed under the number of replies that wait.
StashNext(results, i, reply) == (Cardinality(DOMAIN results) + 1 :> reply) @@ results

Stash(results, i, reply) == (i :> reply) @@ results
Take(results, i)         == [j \in DOMAIN results \ {i} |-> results[j]]

\* The handler of a committed entry, on this member's clock, with its append.
applyReplicated(m, cmd, t) ==
  LET abs == Absolute(cmd, t)
      r   == Call(m.db, t, abs)
  IN  [m EXCEPT !.applied = @ + 1, !.db = r.st,
                !.aof     = IF r.wrote THEN Append(@, Canonical(abs)) ELSE @,
                !.results = Stash(@, m.applied + 1, r.n)]

\* StateMachine.Apply: the reply waits under the index of the entry.
Apply(n) == \E t \in Clock :
  LET i == node[n].applied + 1
  IN  /\ i <= raft[n].commit
      /\ node' = [node EXCEPT ![n] = applyReplicated(@, raft[n].log[i].cmd, t)]
      /\ UNCHANGED <<raft, client, seen>>

----------------------------------------------------------------------------
(* A client's call, on the connection it has.                              *)

Sent(c, S)  == client[c].call.st = "sent" /\ client[c].call.cmd.op \in S
Admin       == {"GET", "WAIT", "READONLY", "READWRITE"}
Mutating    == {cmd.op : cmd \in Workload} \ Admin

\* The handler is done.  It runs to its end and answers whether or not the
\* connection is still there.
Replied(c) == client' = [client EXCEPT ![c].call = Idle]

\* The next call, on the connection there is or on a new one (DialCluster).
Send(c) == \E n \in Nodes, cmd \in Workload :
  /\ client[c].call.st = "idle" /\ seen.calls < MaxCalls
  /\ client[c].at \in {None, n}
  /\ client' = [client EXCEPT ![c].at = n, ![c].call =
                  [Idle EXCEPT !.st = "sent", !.id = seen.calls + 1, !.cmd = cmd]]
  /\ seen' = [seen EXCEPT !.calls = @ + 1]
  /\ UNCHANGED <<raft, node>>

\* READONLY and READWRITE.
ReadModel(c) ==
  /\ Sent(c, {"READONLY", "READWRITE"})
  /\ client' = [client EXCEPT ![c].readonly = (client[c].call.cmd.op = "READONLY"),
                              ![c].call = Idle]
  /\ UNCHANGED <<raft, node, seen>>

\* A read the read gate lets through; what it answers, no property tells.
Read(c) ==
  /\ Sent(c, {"GET"})
  /\ IsLeader(client[c].at) \/ client[c].readonly
  /\ Replied(c)
  /\ UNCHANGED <<raft, node, seen>>

\* Variant: one redirect too many.
GivesUpLate(call) == call.tries > MaxRedirects

GivesUp(call) == call.tries >= MaxRedirects

\* The redirect of a NOTLEADER reply, None if it is not dialable.
LeaderClientAddr(n) == IF raft[n].hint \in Advertised THEN raft[n].hint ELSE None

\* A new connection, which has forgotten READONLY; a dial that fails leaves
\* a client that is closed.
redialLocked(addr, call) == {[at |-> addr, readonly |-> FALSE, call |-> call], Closed}

\* The commands that are refused: writes and WAIT by a member that does not
\* lead, reads unless the connection is READONLY.
notLeaderReply(c) ==
  /\ Sent(c, Mutating \cup {"WAIT"}) \/ (Sent(c, {"GET"}) /\ ~client[c].readonly)
  /\ ~IsLeader(client[c].at)

\* The loop of ClusterClient.DoBytes: give up, or dial the member that is
\* said to lead, or ask the same one again.
NotLeader(c) ==
  LET call == client[c].call
      addr == LeaderClientAddr(client[c].at)
      next == [call EXCEPT !.tries = @ + 1]
  IN  /\ notLeaderReply(c)
      /\ \/ GivesUp(call) /\ Replied(c)
         \/ /\ ~GivesUp(call) /\ addr # None
            /\ \E new \in redialLocked(addr, next) : client' = [client EXCEPT ![c] = new]
         \/ /\ ~GivesUp(call) /\ addr = None
            /\ client' = [client EXCEPT ![c].call = next]
      /\ UNCHANGED <<raft, node, seen>>

----------------------------------------------------------------------------
(* A mutating command on the leader: Node.Propose.                         *)

Propose(c) == \E t \in ProposeClock :
  LET n == client[c].at
      e == [term |-> raft[n].term, id |-> client[c].call.id,
            cmd |-> resolveNondeterministic(client[c].call.cmd, t)]
      i == Len(raft[n].log) + 1
  IN  /\ Sent(c, Mutating) /\ IsLeader(n)
      /\ raft' = [raft EXCEPT ![n].log = Append(@, e), ![n].match[n] = i]
      /\ client' = [client EXCEPT ![c].call =
                      [@ EXCEPT !.st = "proposed", !.idx = i, !.term = raft[n].term,
                                !.tries = 0]]
      /\ UNCHANGED <<node, seen>>

Proposed(c) == client[c].call.st = "proposed"

\* The proposed entry is the one at its index.
OwnEntry(c) ==
  LET call == client[c].call
      log  == raft[client[c].at].log
  IN  call.idx <= Len(log) /\ log[call.idx].term = call.term

\* Variant: the reply is taken without waiting for the entry to be applied.
TakeEarly(c) ==
  LET call == client[c].call
  IN  /\ Proposed(c) /\ OwnEntry(c)
      /\ seen' = [seen EXCEPT !.acks = @ \cup {[id |-> call.id, idx |-> call.idx, n |-> 1]}]
      /\ Replied(c)
      /\ UNCHANGED <<raft, node>>

\* ToyRaft's Propose returns once the entry is applied; the wrapper takes
\* the stashed reply, or reports that there is none.
TakeResult(c) ==
  LET n    == client[c].at
      call == client[c].call
      res  == node[n].results
  IN  /\ Proposed(c) /\ OwnEntry(c) /\ node[n].applied >= call.idx
      /\ node' = [node EXCEPT ![n].results = Take(@, call.idx)]
      /\ seen' = IF call.idx \in DOMAIN res
                   THEN [seen EXCEPT !.acks = @ \cup {[id |-> call.id, idx |-> call.idx,
                                                       n |-> res[call.idx]]}]
                   ELSE seen
      /\ Replied(c)
      /\ UNCHANGED raft

\* Variant: a dropped proposal is answered like one that was refused.
DroppedRedirects(c) ==
  LET n == client[c].at
  IN  /\ Proposed(c) /\ ~(IsLeader(n) /\ raft[n].term = client[c].call.term)
      /\ client' = [client EXCEPT ![c].call = [@ EXCEPT !.st = "sent"]]
      /\ UNCHANGED <<raft, node, seen>>

\* Leadership lost before the entry was applied: ToyRaft drops the proposal
\* and the client is told "ERR replication failed", which it does not retry.
Dropped(c) ==
  LET n == client[c].at
  IN  /\ Proposed(c) /\ ~(IsLeader(n) /\ raft[n].term = client[c].call.term)
      /\ Replied(c)
      /\ UNCHANGED <<raft, node, seen>>

----------------------------------------------------------------------------
(* WAIT on the leader.                                                     *)

\* Variant: the leader counts itself.
countReplicasSelf(n, target) ==
  IF IsLeader(n) THEN Cardinality({m \in Nodes : raft[n].match[m] >= target}) ELSE 0

\* MatchIndex is nil on a member that does not lead.
countReplicas(n, target) ==
  IF IsLeader(n) THEN Cardinality({m \in Nodes \ {n} : raft[n].match[m] >= target}) ELSE 0

\* What a WAIT is held to: the commit index at the time of the call.
Target(c) == IF client[c].call.st = "waiting" THEN client[c].call.idx
             ELSE raft[client[c].at].commit

\* The answer to a WAIT is the count of the moment.
Count(c) == countReplicas(client[c].at, Target(c))

\* Enough replicas at once, or the slow path.
Wait(c) ==
  /\ Sent(c, {"WAIT"}) /\ IsLeader(client[c].at)
  /\ IF Count(c) >= client[c].call.cmd.need
       THEN Replied(c)
       ELSE client' = [client EXCEPT ![c].call =
                         [@ EXCEPT !.st = "waiting", !.idx = Target(c), !.tries = 0]]
  /\ UNCHANGED <<raft, node, seen>>

\* The ticker of the slow path, and its deadline, if there is one.
WaitPoll(c) ==
  /\ client[c].call.st = "waiting"
  /\ Count(c) >= client[c].call.cmd.need \/ client[c].call.cmd.timed
  /\ Replied(c)
  /\ UNCHANGED <<raft, node, seen>>

----------------------------------------------------------------------------
Next ==
  \/ \E n \in Nodes : \E Q \in kSubset(Majority, Nodes) : Elect(n, Q)
  \/ \E l, f \in Nodes, acked \in BOOLEAN : Replicate(l, f, acked)
  \/ \E n \in Nodes : Apply(n)
  \/ \E c \in Clients :
       \/ Send(c) \/ ReadModel(c) \/ Read(c) \/ NotLeader(c)
       \/ Propose(c) \/ TakeResult(c) \/ Dropped(c)
       \/ Wait(c) \/ WaitPoll(c)

Spec == Init /\ [][Next]_vars

----------------------------------------------------------------------------
(* Properties.                                                             *)

\* Types; among them the redirect budget of the client and the results of
\* entries that were applied.
TypeOK ==
  /\ \A n \in Nodes :
       /\ raft[n].term \in 0 .. MaxTerm /\ raft[n].role \in {"follower", "leader"}
       /\ raft[n].hint \in Nodes \cup {None} /\ raft[n].commit \in 0 .. Len(raft[n].log)
       /\ raft[n].match \in [Nodes -> 0 .. MaxCalls]
       /\ node[n].applied \in 0 .. raft[n].commit
       /\ DOMAIN node[n].results \subseteq 1 .. node[n].applied
  /\ \A c \in Clients :
       /\ client[c].at \in Nodes \cup {None} /\ client[c].readonly \in BOOLEAN
       /\ client[c].call.st \in {"idle", "sent", "proposed", "waiting"}
       /\ client[c].call.tries \in 0 .. MaxRedirects

\* Reply capture (node.go: "A miss would mean an ordering bug in the
\* reply-capture contract"): when Propose returns without an error, the
\* reply Apply stashed for the entry is there to be taken.
ReplyCaptured ==
  \A c \in Clients :
    LET n == client[c].at  call == client[c].call
    IN  Proposed(c) /\ OwnEntry(c) /\ node[n].applied >= call.idx
          => call.idx \in DOMAIN node[n].results

\* The INCRs of one key up to an index of a log.
Incrs(log, i) == Cardinality({j \in 1 .. i : log[j].cmd = log[i].cmd})

\* The value a client is told for its INCR is the one its own entry made,
\* whatever other clients and leaders proposed: no value is told twice.
IncrAcksExact ==
  \A a \in seen.acks, n \in Nodes :
    node[n].applied >= a.idx =>
      LET e == raft[n].log[a.idx]
      IN  e.id = a.id /\ (e.cmd.op = "INCR" => a.n = Incrs(raft[n].log, a.idx))

\* A call is executed at most once, however often it is redirected: no log
\* has two entries of one call.
CallsOnce ==
  \A n \in Nodes : \A i, j \in DOMAIN raft[n].log :
    raft[n].log[i].id = raft[n].log[j].id => i = j

\* A leader kill loses no acknowledged write: the leader of the latest term
\* has every acknowledged entry, where it was acknowledged.
AckedInLeader ==
  \A l \in Nodes :
    (IsLeader(l) /\ \A m \in Nodes : raft[m].term <= raft[l].term) =>
      \A a \in seen.acks : a.idx <= Len(raft[l].log) /\ raft[l].log[a.idx].id = a.id

\* Members that have applied as many entries show the same keyspace, now
\* and at any later instant, although each applied them at an instant of
\* its own: deadlines were resolved by the leader.
ReplicasAgree ==
  \A m, n \in Nodes : node[m].applied = node[n].applied =>
    \A t \in Clock : Views(node[m].db, t) = Views(node[n].db, t)

\* WAIT never counts too many: as many members as a WAIT would report now
\* hold the log of the asked member up to the index it is held to.
WaitTruthful ==
  \A c \in Clients :
    LET n == client[c].at
        t == Target(c)
    IN  client[c].call.st = "waiting" \/ (Sent(c, {"WAIT"}) /\ IsLeader(n)) =>
          Count(c) <= Cardinality({m \in Nodes \ {n} :
                        /\ Len(raft[m].log) >= t
                        /\ SubSeq(raft[m].log, 1, t) = SubSeq(raft[n].log, 1, t)})
============================================================================
