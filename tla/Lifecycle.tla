----------------------------- MODULE Lifecycle -----------------------------
(***************************************************************************)
(* The life of one toykv process: main and its flags, server.New, Run and  *)
(* Close, the goroutine of every connection, the goroutines that react to  *)
(* the signal context, and the exit.  The writer and the Raft node are     *)
(* only open or closed here (Aof and Replication model them), a command is *)
(* the part of it that touches the connection or the log.                  *)
(***************************************************************************)
EXTENDS Integers, FiniteSets

CONSTANTS
  Conns,      \* clients, each of which dials at most once
  Flags,      \* the command lines considered, records of Flag
  Calls(_, _), \* the commands a client of a server may send, a subset of Call
  MaxCalls,   \* bound: commands read by the process
  MaxApplied  \* bound: entries a node applies for its peers

\* What -addr, -raft-addr or a peer entry can name, and what it binds.
Host == {"empty", "unspecified", "localhost", "loopback", "public",
         "name-local", "name-mixed", "name-unknown"}
Flag == [usage : BOOLEAN, addr : Host, pass : BOOLEAN, tls : BOOLEAN, protected : BOOLEAN,
         dir : BOOLEAN, replicate : BOOLEAN, multi : BOOLEAN,
         raftAddr : Host \cup {"unset"}, selfAddr : Host, insecure : BOOLEAN]

\* A command: its name, the protocol version HELLO asks for (0: none), and
\* the credentials AUTH or HELLO carries ("form": a malformed AUTH clause).
Call == [name : {"PING", "SET", "AUTH", "HELLO", "WAIT", "WAIT 0"},
         ver : {0, 2, 3, 4}, cred : {"none", "good", "bad", "form"}]

ASSUME LifecycleConstants ==
  /\ Flags \subseteq Flag
  /\ \A f \in Flags, c \in Conns : Calls(f, c) \subseteq Call
  /\ MaxCalls \in Nat /\ MaxApplied \in Nat

VARIABLES
  flags,     \* the command line
  main,      \* where the main goroutine is
  code,      \* the exit status once main is "exited"
  sigs,      \* signal.NotifyContext: "none" before it, "live", "done", "stopped"
  disk,      \* the data directory has been read or written
  aof,       \* s.aof: "none", "open" or "closed"
  raft,      \* s.cluster: "none", "built", "up" or "stopped"
  apply,     \* the apply goroutine of the node: "idle" or "mutated"
  listener,  \* "none", "open" or "closed"
  exporters, \* telemetry: "none", "on" or "flushed"
  conn,      \* the connections
  gauges,    \* ConnectionsActive, ClientsByProtocol and clientCount
  counts,    \* history: calls read, entries applied, SETs acknowledged, records
             \* logged and, of these, the ones the writer's Close has saved
  failed     \* history: the steps of the teardown that failed

procVars == <<flags, code, sigs, disk, aof, raft, exporters>>
workVars == <<apply, listener, conn, gauges, counts, failed>>
vars == <<procVars, main, workVars>>

NoCall == [name |-> "PING", ver |-> 0, cred |-> "none"]
Fresh == [at |-> "idle", proto |-> 2, auth |-> FALSE, sock |-> TRUE, peer |-> TRUE,
          call |-> NoCall, ok |-> TRUE, shown |-> FALSE]

Init ==
  /\ flags \in Flags
  /\ main = "flags" /\ code = -1 /\ sigs = "none" /\ disk = FALSE
  /\ aof = "none" /\ raft = "none" /\ apply = "idle"
  /\ listener = "none" /\ exporters = "none"
  /\ conn = [c \in Conns |-> Fresh]
  /\ gauges = [active |-> 0, byProto |-> [p \in {2, 3} |-> 0], clients |-> 0]
  /\ counts = [calls |-> 0, applied |-> 0, logged |-> 0, acked |-> 0, saved |-> 0]
  /\ failed = {}

Running == main # "exited"

\* os.Exit: no deferred function runs.
Exit(n) == main' = "exited" /\ code' = n

----------------------------------------------------------------------------
(* main and server.New.                                                    *)

\* An address without a host taken for the local one.
bindIsLoopbackBlank(host) == host \in {"empty", "localhost", "loopback", "name-local"}

bindIsLoopback(host) == host \in {"localhost", "loopback", "name-local"}

checkProtectedMode(f) == ~f.protected \/ f.pass \/ f.tls \/ bindIsLoopback(f.addr)

\* Without -raft-addr the node binds the address of its own peer entry.
raftBind(f) == IF f.raftAddr = "unset" THEN f.selfAddr ELSE f.raftAddr

checkRaftBind(f) == f.insecure \/ bindIsLoopback(raftBind(f))

\* Flag values, the key pair, the peers and the exporters are checked before
\* anything else; a bad one is a usage error.
ParseFlags ==
  /\ main = "flags"
  /\ \/ ~flags.usage /\ Exit(2) /\ UNCHANGED exporters
     \/ flags.usage /\ main' = "new" /\ exporters' = "on" /\ UNCHANGED code
  /\ UNCHANGED <<flags, sigs, disk, aof, raft, workVars>>

CheckBind ==
  /\ main = "new"
  /\ \/ ~checkProtectedMode(flags) /\ Exit(1)
     \/ checkProtectedMode(flags) /\ main' = "replay" /\ UNCHANGED code
  /\ UNCHANGED <<flags, sigs, disk, aof, raft, exporters, workVars>>

\* Replay, then Open; either may fail.
ReplayLog ==
  /\ main = "replay"
  /\ disk' = flags.dir
  /\ \/ flags.dir /\ Exit(1)
     \/ main' = (IF flags.dir THEN "open" ELSE "node") /\ UNCHANGED code
  /\ UNCHANGED <<flags, sigs, aof, raft, exporters, workVars>>

OpenLog ==
  /\ main = "open"
  /\ \/ Exit(1) /\ UNCHANGED aof
     \/ main' = "node" /\ aof' = "open" /\ UNCHANGED code
  /\ UNCHANGED <<flags, sigs, disk, raft, exporters, workVars>>

\* The end of New, and NotifyContext in main.
BuildNode ==
  /\ main = "node"
  /\ \/ flags.replicate /\ Exit(1) /\ UNCHANGED <<raft, sigs>>
     \/ /\ flags.replicate /\ flags.multi => checkRaftBind(flags)
        /\ raft' = IF flags.replicate THEN "built" ELSE raft
        /\ main' = "listen" /\ sigs' = "live" /\ UNCHANGED code
  /\ UNCHANGED <<flags, disk, aof, exporters, workVars>>

----------------------------------------------------------------------------
(* Server.Run.                                                             *)

Listen ==
  /\ main = "listen"
  /\ \/ Exit(1) /\ UNCHANGED listener
     \/ /\ listener' = "open" /\ main' = (IF raft = "built" THEN "start" ELSE "accept")
        /\ UNCHANGED code
  /\ UNCHANGED <<flags, sigs, disk, aof, raft, exporters, apply, conn, gauges, counts, failed>>

StartNode ==
  /\ main = "start"
  /\ \/ Exit(1) /\ UNCHANGED raft
     \/ raft' = "up" /\ main' = "leader" /\ UNCHANGED code
  /\ UNCHANGED <<flags, sigs, disk, aof, exporters, workVars>>

\* WaitLeader returns when a leader is known, or fails when five seconds are
\* over or the context is cancelled.
WaitLeader ==
  /\ main = "leader"
  /\ \/ Exit(1)
     \/ main' = "accept" /\ UNCHANGED code
  /\ UNCHANGED <<flags, sigs, disk, aof, raft, exporters, workVars>>

Accept(c) ==
  /\ main = "accept" /\ listener = "open" /\ conn[c].at = "dialing"
  /\ conn' = [conn EXCEPT ![c].at = "spawned"]
  /\ UNCHANGED <<procVars, main, apply, listener, gauges, counts, failed>>

\* EMFILE and ENFILE: sleep, for a second at most, and try again.
AcceptExhausted ==
  /\ main = "accept" /\ listener = "open"
  /\ main' = "sleep"
  /\ UNCHANGED <<procVars, apply, listener, conn, gauges, counts, failed>>

Wake ==
  /\ main = "sleep" /\ main' = "accept"
  /\ UNCHANGED <<procVars, workVars>>

\* Any other error of a listener that is still open.
AcceptBroken ==
  /\ main = "accept" /\ listener = "open"
  /\ listener' = "closed" /\ main' = "broken"
  /\ UNCHANGED <<procVars, apply, conn, gauges, counts, failed>>

AcceptClosed ==
  /\ main = "accept" /\ listener = "closed"
  /\ main' = "drain"
  /\ UNCHANGED <<procVars, workVars>>

\* wg: the goroutines Run has started and that have not called Done.
wg == {c \in Conns : conn[c].at \notin {"idle", "dialing", "gone"}}

\* Run returns its error and main exits: neither Close nor the exporters'
\* Shutdown runs.
BrokenReturns ==
  /\ main = "broken" /\ wg = {}
  /\ Exit(1)
  /\ UNCHANGED <<flags, sigs, disk, aof, raft, exporters, workVars>>

\* Run returns without waiting for its connections.
DrainedAtOnce ==
  /\ main = "drain"
  /\ main' = "stopping" /\ sigs' = "stopped"
  /\ UNCHANGED <<flags, code, disk, aof, raft, exporters, workVars>>

\* Close does not stop the node.
CloseSkipsNode ==
  /\ main = "stopping"
  /\ main' = "closing"
  /\ UNCHANGED <<procVars, workVars>>

----------------------------------------------------------------------------
(* The way out: wg.Wait, the deferred stop, Server.Close, the exporters.   *)

Drained ==
  /\ main = "drain" /\ wg = {}
  /\ main' = "stopping" /\ sigs' = "stopped"
  /\ UNCHANGED <<flags, code, disk, aof, raft, exporters, workVars>>

\* Close stops the node first; Stop returns when no entry is being applied.
\* When it fails the node may be running still: that is only logged.
CloseStopsNode ==
  /\ main = "stopping" /\ main' = "closing"
  /\ \/ /\ apply = "idle" /\ UNCHANGED failed
        /\ raft' = IF raft = "up" THEN "stopped" ELSE raft
     \/ raft = "up" /\ raft' \in {"up", "stopped"} /\ failed' = failed \cup {"stop"}
  /\ UNCHANGED <<flags, code, sigs, disk, aof, exporters, apply, listener, conn, gauges, counts>>

\* The writer is detached, flushed, synced and closed; main discards the
\* error when one of these fails.
CloseWriter ==
  /\ main = "closing" /\ main' = "flushing"
  /\ aof' = IF aof = "open" THEN "closed" ELSE aof
  /\ \/ counts' = [counts EXCEPT !.saved = counts.logged] /\ UNCHANGED failed
     \/ aof = "open" /\ failed' = failed \cup {"close"} /\ UNCHANGED counts
  /\ UNCHANGED <<flags, code, sigs, disk, raft, exporters, apply, listener, conn, gauges>>

\* At most five seconds, whatever the collector does; a failure is logged.
FlushExporters ==
  /\ main = "flushing" /\ Exit(0)
  /\ \/ exporters' = "flushed" /\ UNCHANGED failed
     \/ failed' = failed \cup {"flush"} /\ UNCHANGED exporters
  /\ UNCHANGED <<flags, sigs, disk, aof, raft, apply, listener, conn, gauges, counts>>

----------------------------------------------------------------------------
(* SIGINT and SIGTERM, and the goroutines that wait for the context.       *)

\* Outside NotifyContext a signal ends the process; a second one inside it
\* is swallowed.
Signal ==
  /\ Running
  /\ \/ sigs = "live" /\ sigs' = "done" /\ UNCHANGED <<main, code>>
     \/ sigs \in {"none", "stopped"} /\ Exit(130) /\ UNCHANGED sigs
  /\ UNCHANGED <<flags, disk, aof, raft, exporters, workVars>>

CloseListener ==
  /\ main \in {"accept", "sleep"} /\ sigs = "done" /\ listener = "open"
  /\ listener' = "closed"
  /\ UNCHANGED <<procVars, main, apply, conn, gauges, counts, failed>>

\* A closed socket, like one whose client has gone, shows in a read, a write
\* or the handshake only.
OnSocket(c) == conn[c].at \in {"handshake", "reading", "writing"}

\* A closer that only interrupts reads, as a read deadline would.
CloseSocketReading(c) ==
  /\ Running /\ sigs = "done" /\ conn[c].sock /\ conn[c].at = "reading"
  /\ conn' = [conn EXCEPT ![c].sock = FALSE]
  /\ UNCHANGED <<procVars, main, apply, listener, gauges, counts, failed>>

CloseSocket(c) ==
  /\ Running /\ sigs = "done" /\ conn[c].sock /\ OnSocket(c)
  /\ conn' = [conn EXCEPT ![c].sock = FALSE]
  /\ UNCHANGED <<procVars, main, apply, listener, gauges, counts, failed>>

----------------------------------------------------------------------------
(* The Raft node applies what its peers committed: the handler mutates the *)
(* store and then appends.                                                 *)

appendIfLive == [counts EXCEPT !.logged = @ + (IF aof = "open" THEN 1 ELSE 0)]

ApplyEntry ==
  /\ Running /\ raft = "up" /\ apply = "idle" /\ counts.applied < MaxApplied
  /\ apply' = "mutated"
  /\ UNCHANGED <<procVars, main, listener, conn, gauges, counts, failed>>

ApplyAppend ==
  /\ Running /\ apply = "mutated"
  /\ apply' = "idle"
  /\ counts' = [appendIfLive EXCEPT !.applied = @ + 1]
  /\ UNCHANGED <<procVars, main, listener, conn, gauges, failed>>

----------------------------------------------------------------------------
(* One connection.                                                         *)

\* A step of the goroutine of c that leaves the process alone.
ConnStep(c, rec, g, n) ==
  /\ Running
  /\ conn' = [conn EXCEPT ![c] = rec] /\ gauges' = g /\ counts' = n
  /\ UNCHANGED <<procVars, main, apply, listener, failed>>

Dial(c) ==
  /\ conn[c].at = "idle" /\ listener = "open"
  /\ ConnStep(c, [conn[c] EXCEPT !.at = "dialing"], gauges, counts)

HangUp(c) ==
  /\ conn[c].peer /\ OnSocket(c)
  /\ ConnStep(c, [conn[c] EXCEPT !.peer = FALSE], gauges, counts)

\* The goroutine counts itself and forces the handshake of a TLS listener.
Spawn(c) ==
  /\ conn[c].at = "spawned"
  /\ ConnStep(c, [conn[c] EXCEPT !.at = IF flags.tls THEN "handshake" ELSE "begin"],
              [gauges EXCEPT !.clients = @ + 1], counts)

Handshake(c) ==
  /\ conn[c].at = "handshake" /\ conn[c].sock /\ conn[c].peer
  /\ ConnStep(c, [conn[c] EXCEPT !.at = "begin"], gauges, counts)

\* A failed handshake returns before the connection enters the gauges.
HandshakeFails(c) ==
  /\ conn[c].at = "handshake"
  /\ ConnStep(c, [conn[c] EXCEPT !.at = "uncounted"], gauges, counts)

Begin(c) ==
  /\ conn[c].at = "begin"
  /\ ConnStep(c, [conn[c] EXCEPT !.at = "reading", !.auth = ~flags.pass],
              [gauges EXCEPT !.active = @ + 1, !.byProto[2] = @ + 1], counts)

Read(c) ==
  /\ conn[c].at = "reading" /\ conn[c].sock /\ conn[c].peer /\ counts.calls < MaxCalls
  /\ \E call \in Calls(flags, c) :
       ConnStep(c, [conn[c] EXCEPT !.at = "running", !.call = call,
                                   !.shown = @ \/ call.cred = "good"],
                gauges, [counts EXCEPT !.calls = @ + 1])

\* The client has gone, or its socket was closed under the read.
ReadFails(c) ==
  /\ conn[c].at = "reading" /\ ~(conn[c].sock /\ conn[c].peer)
  /\ ConnStep(c, [conn[c] EXCEPT !.at = "leaving"], gauges, counts)

\* A protocol error: one error frame, and the connection is dropped.
ReadGarbage(c) ==
  /\ conn[c].at = "reading" /\ conn[c].sock /\ conn[c].peer
  /\ ConnStep(c, [conn[c] EXCEPT !.at = "leaving"], gauges, counts)

\* authenticate: what AUTH and the AUTH clause of HELLO do to the connection.
authenticate(r) ==
  IF flags.pass /\ r.call.cred = "good"
    THEN [r EXCEPT !.auth = TRUE, !.ok = TRUE]
    ELSE [r EXCEPT !.ok = FALSE]

\* HELLO that switches the protocol before it looks at the credentials.
cmdHelloSwitchFirst(r) ==
  LET v == [r EXCEPT !.proto = IF r.call.ver = 0 THEN @ ELSE r.call.ver]
  IN  CASE r.call.ver = 4 -> [r EXCEPT !.ok = FALSE]
        [] r.call.ver # 4 /\ r.call.cred = "none" -> [v EXCEPT !.ok = TRUE]
        [] r.call.ver # 4 /\ r.call.cred = "form" -> [v EXCEPT !.ok = FALSE]
        [] OTHER -> authenticate(v)

\* The credentials come after a version: without one, as with one the server
\* does not speak, HELLO is refused before they are looked at.
cmdHello(r) ==
  LET proto == IF r.call.ver = 0 THEN r.proto ELSE r.call.ver
      noproto == proto = 4 \/ (r.call.ver = 0 /\ r.call.cred # "none")
      in    == IF r.call.cred = "none" THEN [r EXCEPT !.ok = TRUE] ELSE authenticate(r)
  IN  IF noproto \/ ~in.ok THEN [r EXCEPT !.ok = FALSE] ELSE [in EXCEPT !.proto = proto]

\* dispatch and the handler, up to the first point where it can wait: the
\* connection after it, "writing" when there is a reply.
dispatch(r) ==
  LET reply == [r EXCEPT !.at = "writing", !.ok = TRUE]
  IN  CASE r.call.name = "AUTH"  -> authenticate(reply)
        [] r.call.name = "HELLO" -> cmdHello(reply)
        [] r.call.name = "PING"  -> reply
        [] r.call.name \notin {"AUTH", "HELLO", "PING"} /\ ~r.auth -> [reply EXCEPT !.ok = FALSE]
        [] r.call.name = "SET" /\ r.auth ->
             [r EXCEPT !.at = IF raft = "none" THEN "mutated" ELSE "proposing"]
        [] r.call.name \in {"WAIT", "WAIT 0"} /\ r.auth ->
             IF raft = "none" THEN reply ELSE [r EXCEPT !.at = "waiting"]

\* The by-protocol gauge moves with the connection.
Dispatch(c) ==
  /\ conn[c].at = "running"
  /\ LET r == dispatch(conn[c])
     IN  ConnStep(c, r,
           [gauges EXCEPT !.byProto = [p \in {2, 3} |->
              @[p] + (IF p = r.proto THEN 1 ELSE 0) - (IF p = conn[c].proto THEN 1 ELSE 0)]],
           counts)

\* Without a writer the append is a no-op and the command succeeds.
AppendCall(c) ==
  /\ conn[c].at = "mutated"
  /\ ConnStep(c, [conn[c] EXCEPT !.at = "writing", !.ok = TRUE], gauges, appendIfLive)

\* Propose returns when the entry is applied or the node refuses it; without
\* a quorum it does not return.  WAIT returns when enough replicas have
\* caught up or its deadline passes; WAIT n 0 has no deadline.  Neither sees
\* the socket or the context of the process.
ProposeReturns(c) ==
  /\ conn[c].at = "proposing"
  /\ \E ok \in BOOLEAN : ConnStep(c, [conn[c] EXCEPT !.at = "writing", !.ok = ok], gauges, counts)

WaitSatisfied(c) ==
  /\ conn[c].at = "waiting"
  /\ ConnStep(c, [conn[c] EXCEPT !.at = "writing", !.ok = TRUE], gauges, counts)

WaitDeadline(c) ==
  /\ conn[c].at = "waiting" /\ conn[c].call.name = "WAIT"
  /\ ConnStep(c, [conn[c] EXCEPT !.at = "writing", !.ok = TRUE], gauges, counts)

\* WriteFrameProto and Flush; a client that does not read makes them wait.
WriteReply(c) ==
  /\ conn[c].at = "writing" /\ conn[c].sock /\ conn[c].peer
  /\ ConnStep(c, [conn[c] EXCEPT !.at = "reading", !.call = NoCall, !.ok = TRUE], gauges,
              [counts EXCEPT !.acked = @ + (IF conn[c].call.name = "SET" /\ conn[c].ok /\ raft = "none"
                                              THEN 1 ELSE 0)])

WriteFails(c) ==
  /\ conn[c].at = "writing" /\ ~(conn[c].sock /\ conn[c].peer)
  /\ ConnStep(c, [conn[c] EXCEPT !.at = "leaving"], gauges, counts)

\* The gauge of the protocol the connection started with goes down.
LeaveAsTwo(c) ==
  /\ conn[c].at = "leaving"
  /\ ConnStep(c, [conn[c] EXCEPT !.at = "uncounted"],
              [gauges EXCEPT !.active = @ - 1, !.byProto[2] = @ - 1], counts)

\* handleConn's deferred functions, and then those of the goroutine.
Leave(c) ==
  /\ conn[c].at = "leaving"
  /\ ConnStep(c, [conn[c] EXCEPT !.at = "uncounted"],
              [gauges EXCEPT !.active = @ - 1, !.byProto[conn[c].proto] = @ - 1], counts)

Uncount(c) ==
  /\ conn[c].at = "uncounted"
  /\ ConnStep(c, [Fresh EXCEPT !.at = "gone"],
              [gauges EXCEPT !.clients = @ - 1], counts)

Start == ParseFlags \/ CheckBind \/ ReplayLog \/ OpenLog \/ BuildNode \/ Listen \/ StartNode \/ WaitLeader
Loop  == AcceptExhausted \/ Wake \/ AcceptBroken \/ AcceptClosed \/ BrokenReturns
Stop  == Drained \/ CloseStopsNode \/ CloseWriter \/ FlushExporters

\* What a goroutine does without waiting for a client, a peer or a replica.
Progress(c) ==
  \/ Spawn(c) \/ Begin(c) \/ ReadFails(c) \/ Dispatch(c) \/ AppendCall(c)
  \/ WaitDeadline(c) \/ WriteFails(c) \/ Leave(c) \/ Uncount(c)

Serve(c) ==
  \/ Dial(c) \/ HangUp(c) \/ Accept(c) \/ CloseSocket(c) \/ Handshake(c) \/ HandshakeFails(c)
  \/ Read(c) \/ ReadGarbage(c) \/ ProposeReturns(c) \/ WaitSatisfied(c) \/ WriteReply(c)
  \/ Progress(c)

Next ==
  \/ Start \/ Loop \/ Stop \/ Signal \/ CloseListener \/ ApplyEntry \/ ApplyAppend
  \/ \E c \in Conns : Serve(c)

Spec == Init /\ [][Next]_vars

\* The scheduler runs every goroutine that can run.  Nothing is assumed of
\* clients, peers and replicas; a handshake on a closed socket fails.
Fairness ==
  /\ WF_vars(Start) /\ WF_vars(Stop) /\ WF_vars(Wake) /\ WF_vars(AcceptClosed)
  /\ WF_vars(BrokenReturns) /\ WF_vars(CloseListener) /\ WF_vars(ApplyAppend)
  /\ \A c \in Conns :
       /\ WF_vars(Progress(c)) /\ WF_vars(CloseSocket(c))
       /\ WF_vars(HandshakeFails(c) /\ ~(conn[c].sock /\ conn[c].peer))

FairSpec == Spec /\ Fairness

----------------------------------------------------------------------------
(* Properties.                                                             *)

\* commands.go appendIfLive is silent without a writer, so the order of the
\* teardown is all that keeps it honest: with persistence on, every SET a
\* client saw acknowledged and every entry the node applied was appended,
\* unless the node could not be stopped before the writer went.
AckedLogged ==
  flags.dir /\ "stop" \notin failed => counts.acked + counts.applied <= counts.logged

\* conn.go, hello.go: the gauges count the connections being served, each
\* under the protocol it speaks, and all are back at zero when Run returns.
GaugesExact ==
  LET serving == {c \in wg : conn[c].at \notin {"spawned", "handshake", "begin", "uncounted"}}
  IN  /\ gauges.active = Cardinality(serving)
      /\ \A p \in {2, 3} : gauges.byProto[p] = Cardinality({c \in serving : conn[c].proto = p})
      /\ gauges.clients = Cardinality({c \in wg : conn[c].at # "spawned"})
      /\ main \in {"stopping", "closing", "flushing"} => gauges.clients = 0

\* server.go: "an unsafe bind never touches disk".  Whatever the spelling of
\* the address, an interface other than the loopback is served, and its data
\* read, only with a password, TLS or -protected-mode no; and no peer
\* transport is ever built on such an interface without -raft-insecure.
Reaches(host) == host \in {"empty", "unspecified", "public", "name-mixed"}
SafeStart ==
  /\ (disk \/ listener # "none") /\ Reaches(flags.addr)
       => flags.pass \/ flags.tls \/ ~flags.protected
  /\ raft # "none" /\ flags.multi /\ Reaches(raftBind(flags)) => flags.insecure

\* hello.go: "a rejected AUTH or protover leaves cs.proto untouched"; and a
\* connection of a server with a password runs a command, or counts as
\* authenticated, only after it has shown the password.
HelloAtomic ==
  [][\A c \in Conns :
       /\ conn[c].at = "running" /\ ~conn'[c].ok /\ conn'[c].at = "writing"
            => conn'[c].proto = conn[c].proto /\ conn'[c].auth = conn[c].auth
       /\ flags.pass /\ conn'[c].at \in {"mutated", "proposing", "waiting"} => conn'[c].shown
    ]_vars

\* main.go: "teardown order is: stop serving, flush+close AOF, flush+close
\* telemetry exporters".  Status 0 does not say that all of it succeeded, as
\* main and Close only log or drop the errors of Stop, the writer's Close and
\* Shutdown.  It does say that no connection was left, that the node and the
\* exporters run only where their stop failed, and that unless Stop or the
\* writer's Close failed, what was acknowledged or applied is in the file.
CleanExit ==
  code = 0 =>
    /\ wg = {} /\ listener # "open" /\ aof # "open"
    /\ raft = "up" \/ apply # "idle" => "stop" \in failed
    /\ exporters # "flushed" => "flush" \in failed
    /\ flags.dir /\ failed \cap {"stop", "close"} = {} =>
         counts.acked + counts.applied <= counts.saved

\* HLD "shutdown": after SIGINT or SIGTERM the process exits.  Run waits for
\* its connections without a deadline, and what Propose and WAIT n 0 wait
\* for may not come, so one of these can keep the process for ever; nothing
\* else can, whatever clients do or fail to do.
Held == \E c \in Conns : conn[c].at = "proposing" \/ (conn[c].at = "waiting" /\ conn[c].call.name = "WAIT 0")
ShutdownEnds == sigs = "done" ~> (~Running \/ Held)

=============================================================================
