# toykv: a TLA+ model of the key-value server

toykv is a Redis-like server in Go: an in-memory keyspace of strings, lists and
hashes with deadlines, an append-only file (AOF) that a restart replays, a
background rewrite of that file, a mode that replicates writes through Raft, and
a terminal client. This directory models the part of it on which the promise "an
acknowledged write is still there after a restart" rests, the replicated mode,
the life of the process and its connections, the list type from its ring buffer
to the bytes on the wire, and the terminal client. TLC checks them on small
instances; TLAPS proves the file's and the ring's core for all instances.

## Inventory

| Part | Code | State | Operations | Model |
|---|---|---|---|---|
| AOF writer | `internal/aof/writer.go`, `format.go` | fd, bufio error, dirty, side buffer, mutex | Open, Append, everysec tick, Begin/Abort/FinalizeRewrite, swapTo, Close | `Aof` |
| AOF replayer | `replayer.go` | none | Replay, at start | `Aof` (which files), `Keyspace` (which effect) |
| AOF rewriter | `rewriter.go`, `server/bgrewriteaof.go` | in-flight flag, `.tmp` | runRewrite, Rewrite, snapshotForRewrite | `Aof`, `Server` |
| Store | `internal/store/store.go`, `typed.go`, `keyspace.go`, `entry.go` | map of entries, seqCounter | Set, Del, Expire, Persist, Incr, push, pop, HSet, HDel, Rename, RenameNX, Copy, FlushDB, Get, Scan, Snapshot | `Keyspace`, `Store` |
| Sweeper | `store/sweeper.go` | none | tick, sweepOnce | `Store` |
| Deque | `store/deque.go` | ring buffer | push and pop at both ends, clone, range | `Deque`, which implements `AbstractList` |
| Handlers | `server/commands*.go` | none | Store method, then appendIfLive | `Keyspace` (`Call`, `Canonical`), `Server`; list handlers and replies: `ListConn` |
| Start and stop | `cmd/toykv/main.go`, `server/server.go`, `protected.go` | listener, AOF handle, node, signal context | flags, New, Run, accept loop, drain, Close | `Lifecycle`; replay and open: `Aof`, `Server` |
| Connection | `conn.go`, `dispatch.go`, `auth.go`, `hello.go` | protocol, authenticated, readonly, gauges | command loop, gates, AUTH, HELLO, READONLY | `Lifecycle`, `ListConn`; propose and read gates, READONLY: `Replication` |
| Replicated mode | `internal/cluster`, `server/replicate.go`, `commands_replicate.go` | Raft log, stashed replies | Propose, Apply, TakeResult, WAIT | `Replication`; not its restarts |
| Client | `internal/client` | connection, address | redirect loop, Do | `Replication`; framing: `ListConn`; closing on an error: `Tui` |
| RESP codec | `internal/resp` | reader, writer | ReadCommand, ReadFrame, WriteFrameProto | `Resp`; the cut-off record: `Aof` |
| Terminal client | `internal/tui` | list, cursor, focus, page stack, mode, generation | Update, its key handlers, the commands it starts | `Tui` |
| Telemetry, INFO, CLI, test harnesses | | | | not modelled: no decision of the server depends on them |

What interacts: connections run handlers concurrently. A handler takes the
store's mutex for its Store method, releases it, and takes the writer's mutex
for its Append. The rewrite goroutine takes the writer's mutex to arm the side
buffer, the store's for the snapshot, none while it writes `.tmp`, and the
writer's again to fold, rename and swap. The sweeper and expiring reads take
the store's mutex. The ticker takes the writer's. A kill can come between any
two of these steps, a power loss can undo what was not fsynced, and every call
into the file system can fail. In the replicated mode a handler proposes its
command and blocks; ToyRaft's goroutine calls Apply on every member, which runs
the handler there, and leadership can change between any two of these steps.
A signal cancels one context, on which the accept loop's closer and one goroutine
per connection wait; Run returns when the last connection has, and main then
closes the node, the writer and the exporters in that order. In the terminal
client one goroutine runs Update; the commands it returns run concurrently and
come back as messages in any order.

What is hard: the order of fsync, rename, directory fsync and fd swap; records
appended during a rewrite; the error paths of FinalizeRewrite, which hold a
mutex; torn records; deadlines that pass between append and replay; the window
between mutate and append; Get's lock upgrade; a SCAN iteration among writers;
slices that share an array; a wrapped ring that grows; replies that change their
encoding in the middle of a pipeline; a stream that ends inside a frame; the order
of the teardown; a prompt that is answered after a refresh. `PROJECT.json` lists
each of these as a hazard with the line where it bites and the properties that
watch it.

## Modules

**`Aof`** follows a record (the n-th mutation) through the store, the page
cache, the device, the side buffer and `.tmp`. A file is its header version and
its items, in the cache and on the device; `dirSynced` and `prev` are what the
directory on the device names. Each action is one step between two points where
another goroutine or a crash can come in: `Mutate`, `AppendWrite`,
`AppendReturn` and `Reply` are one handler; `StartRewrite` to `SwapTo` are
`runRewrite`; `Replay`, `Open`, `OpenWriteHeader` and `OpenSyncHeader` are
`server.New`. Actions ending in `Fail`, and `AbortRewrite`, are the error
returns. `Faults` selects what the environment may do: power loss, a file
system whose fsync does not cover the directory entry, torn writes, failing
write, fsync, directory fsync, fd swap.

A torn record leaves a stub in the file, of one of three kinds, by what
`resp.Reader` makes of it: cut inside a body (ErrProtocol), inside a length line
or next to a body (`io.EOF` at the end of the file, an error once anything
follows), or between two elements, with a number of them missing. The reader takes
every record behind a stub of the last kind for an element of the torn array:
`io.EOF`, and so a clean start, as long as the file has fewer than are missing,
ErrProtocol at the last of them. `Found` are the records a replay applies, those
before the first stub; `buried` is a history variable, the records that were
appended behind one.

**`Keyspace`** has the Store methods as operators from a state and a clock to a
result, the commands, the record each appends (`Canonical`), the records of a
snapshot (`SnapshotCmds`) and `Replay`. A value is a number or `Text`, which
does not parse as one; `MaxInt` stands for the largest int64. `fieldOrder` is a
Go slice over a heap of arrays, with `append` in place while there is room,
because the sharing of arrays is what COPY gets wrong. The clock has `PerMs`
instants to the millisecond and deadlines are absolute; a record carries its
deadline rounded down (`Millis`). A record of more than `MaxArrayLen` elements
fails to replay, which the one record of a long list or hash can be.

**`Store`** runs these methods concurrently. A method is one step, since it
holds the mutex throughout; `GetExpired` and `GetEvict` are the two halves of
Get, `SweepStart` and `SweepPass` a tick and its passes, `ScanStart` and
`ScanCall` an iteration. `must` is a history variable: the keys that have been
live since the iteration began.

**`Server`** composes the keyspace with the AOF as `Aof` shows it (a sequence of
records to which a returned Append has added one and which a finished rewrite
replaces by snapshot and side buffer). `Handle` is the Store method,
`AppendIfLive` the append and the reply; between them lies everything else.
`AppendFails` is the append that fails: the client gets an error, the store keeps
the change, and bufio keeps its error, so that all later appends and rewrites fail
until a restart.

**`Replication`** has the members, their clients and ToyRaft between them.
ToyRaft is a library outside the repository, modelled from its use: `Elect`,
`Replicate` (whose acknowledgement may be lost) and the commit rule give what
`Status`, `LeaderHint`, `Propose` and `Apply` show, a deposed leader that does
not know it included. `Send` to `NotLeader` are a call of `ClusterClient` with
its redirects; `Propose`, `Apply`, `TakeResult` and `Dropped` one replicated
write; `Wait` and `WaitPoll` a WAIT. `Apply` runs the handlers of `Keyspace`.
Clocks are not synchronised: an entry is applied at any instant of `Clock`. A
member that dies is, to the others, one that is not heard of again. The cluster
starts with a leader every member knows, since Run accepts no client before
(`WaitLeader`). `seen.acks` is a history variable: the replies of writes.

**`AbstractList`** is what a list promises, a sequence with four operations, and
LRANGE by its meaning. **`Deque`** is the ring buffer: `buf`, `head` and `count`,
`grow` when it is full. `List == INSTANCE AbstractList WITH list <- elements(d)`
is the refinement mapping and `ImplementsList` the abstract specification.

**`Resp`** is the codec, with recursive operators named after the Go functions. A
stream is a sequence of tokens, a line or a body; a body may be cut anywhere. The
text of a simple string or error goes out as it is: a line end in it ends the line
and begins another token. The reader refuses a line longer than its buffer and an
array longer than `MaxArrayLen`.
**`ListConn`** puts both behind one connection. `Send`, `Receive`, `HalfClose` and
`Die` are the client and the network, `Serve` and `Drop` a turn of `handleConn`'s
loop. `asked` and `due` are history variables: the requests not yet served, and
the replies the client should get by the meaning of the list, not by the ring.
An unknown command is answered with its name as the client sent it; a name with a
line end, or a long one, makes a reply that is read as another one or not at all,
after which `misread` is set and the model does not follow what the client does
with the connection. Digits in a name are not read back as a number. LPUSH and
RPUSH carry one value.

**`Lifecycle`** is the process. `main` is the program counter of the main
goroutine from the flags through `New`, `Run` and `Close` to the exit code; every
connection has its own, from `Dial` to `Uncount`; `CloseListener` and
`CloseSocket` are the goroutines that wait for the signal. The writer and the node
are open or closed. An address is one of eight spellings, since protected mode is
about what each of them binds. `shown` is a history variable: the connection has
sent the right password. `failed` has the parts of the teardown that returned an
error: stopping the node, closing the writer, flushing the exporters. `counts.saved`
is what the writer's Close has flushed. Appends fail in `Aof` and `Server`, not
here.

**`Tui`** is the reducer: `m` is the Model, one action per message and per key.
The server is the SCAN order of its keys and whether the connection has
authenticated. A generation is a flag, `fresh`: only the sweep started last has
it. `m.value` is the key whose value the pane shows. After SCAN a sweep only
reads; that TYPE and the value disagree because the key changed its type in
between is left out, and would be one failed refresh.

**`AofLemmas`** (facts about files and the type invariant), **`AofSafety`** (the
inductive invariant, action by action), **`AofProofs`** (the theorems) and
**`DequeProofs`** hold the proofs. The `MC` modules give
constants, workloads and symmetry for TLC. `Store` and `Server` take a set of
workloads (`Loads`); a behaviour picks one and keeps it, so that one run covers
several. Operators commented as variants, or that the comment before them calls
wrong in some way, and the ones under "Plausible bugs" in `Aof`, are mutations of
the definition that follows; none is used by a specification. They show that the
properties can fail.

## Runs

Passing runs:

| Run | Instance | Shows |
|---|---|---|
| `aof` | 2 clients, 3 records, 1 rewrite, 2 crashes, power loss, torn writes that lack up to 2 elements and failing calls, appendfsync=always | an acknowledged record that is not behind a stub is in the store of every process that starts (`AckedSurvives`) and in what a replay of the canonical file finds, at every step of a rewrite (`CanonicalComplete`, `CanonicalNeverShrinks`); a start is refused only over a stub or while nothing was acknowledged; the header is never older than the records |
| `aof_live` | 2 clients, 2 records, 1 rewrite, everysec, no crashes, failing calls (the tick's fsync included), fairness | handlers reply, rewrites end, acknowledged records become durable and a writer that is not dirty has its file on the device, both unless a tick's fsync failed and nothing made up for it |
| `store` | five workloads: SCAN over 3 keys, 5 creations, COUNT 1 and 2; 2 keys with deadlines and a reader; 2 keys of every type, 2 fields, lists of 2; the same with deadlines inside a millisecond; a list as long as one record can hold and longer | SCAN returns what was live throughout; evictions are invisible and the sweeper reaps; the field order is exact; a snapshot rebuilds the store, with its deadlines in milliseconds, at any later clock, and is refused exactly when a list or hash is too long for a record; a write to one key shows in no other |
| `server` | two workloads: 2 clients with a key each, deadlines, a rewrite, a kill, a failing append; 1 client, every mutating command, 4 writes | a restart at any instant recovers what the running server shows, but for what the client was told had failed; replay rebuilds every type and never refuses |
| `replication` | 3 members, 2 clients, 2 calls, one change of leader, 1 redirect | a reply is the one its own entry made (`ReplyCaptured`, `IncrAcksExact`), no call is executed twice (`CallsOnce`), the newest leader has every acknowledged write (`AckedInLeader`), members that applied as much show the same keys (`ReplicasAgree`), WAIT does not over-count (`WaitTruthful`), redirects end (`TypeOK`) |
| `lists` | lists of 3 with pushes and pops at both ends, and lists of 5, one more than an array may have, with unknown and oversized commands; capacity from 2, 2 requests in flight, bulks of 6, lines of 4, depth 3 | the ring implements the list (`ImplementsList`, `RingOK`) and reads it exactly (`ReadsExact`); replies decode, in order, to what the list calls for, at the protocol each was written for, up to the first the client cannot read back, which is one of the named kinds (`FramesInOrder`); no command is executed that was not sent whole (`NoPhantomCommand`) |
| `lifecycle` | 2 connections, 2 commands, 1 entry from peers, a teardown that fails in any of its parts; a plain, a password, a TLS and a cluster server, and the command lines New refuses | nothing acknowledged or applied misses the log although appends without a writer are silent, unless the node failed to stop (`AckedLogged`); the gauges balance on every path (`GaugesExact`); no exposed interface without protection, nor its data read (`SafeStart`); HELLO is all or nothing (`HelloAtomic`); status 0 leaves connections and listener closed and, but for what an error the code warns of or drops explains, the node stopped, every append on the file and the exporters flushed (`CleanExit`); a signal ends the process (`ShutdownEnds`) |
| `tui` | 3 keys, pages of 2, 3 key presses, 1 write of another client, 2 sweeps in flight | cursor, focus and list agree (`PaneConsistent`); polling does not die (`PollAlive`); a password being typed is left alone (`PasswordKept`); an accepted page is the current one (`AnswersCurrent`); the panes come to show the server (`Converges`) |

Runs that find the code at odds with what the repository says of it (the
quotations are in `PROJECT.json`):

| Run | Shows |
|---|---|
| `aof_torn` | a kill cuts a record between two elements, the next start takes the stub for the end of the file, a record is appended behind it and acknowledged, and the start after that reads it as an element of the torn one and comes up without it, with no error (`AckedNeverLost`) |
| `store_copy` | COPY of a hash shares the array behind `fieldOrder` with its source: HSET two fields, COPY, HDEL the first field of the source, and HGETALL of the copy shows a field twice |
| `server_rename` | replay evaluates expiry at the clock of the restart: a RENAME of a key whose deadline has passed since is an error in replay, and the server refuses to start |
| `server_rewrite` | an INCR between mutate and append is in the snapshot and in the side buffer, and counts twice |

Several more limits show when an instance is widened, and are why the passing
instances are as they are:

- `server` with two clients that SET one key: the records can be appended
  in the other order than the store applied them, and a restart recovers the
  other value although both were acknowledged (`commands.go:133`).
- `aof` with `"lazydir"` loses acknowledged records: Open fsyncs the file it
  creates, not the directory (`writer.go:132`). On first boot an append is
  acknowledged, a power loss takes the directory entry, and `CanonicalComplete`
  fails. ext4 and xfs make the entry of a new file durable with its fsync.
- The ticker drops the error of its fsync and clears `dirty` (`writer.go:472`), so
  what was acknowledged before can stay off the device until the next append. The
  history variable `missed` of `Aof` marks that time; `CleanIsDurable` and
  `EventuallyDurable` except it, and neither holds without the exception.
- A kill between creating the file and writing its header leaves a zero-byte
  file the next start refuses (`writer.go:143`); `RefusesOnlyEmpty` says that this
  is the only one.
- `AckedSurvives` and `CanonicalComplete` except the records behind a stub, and
  neither holds without the exception, as `aof_torn` shows. While the process that
  appended them lives, the store has them and a rewrite saves them; after a restart
  they are gone from the store, and a rewrite then removes them from the file too.
- A list or hash of more than 2^20 elements is one record of a rewrite
  (`bgrewriteaof.go:96`), which the replayer refuses (`reader.go:224`): the rewrite
  succeeds and the next start does not. `SnapshotRoundTrip` says that this is the
  only such case. The server's runs stay below the limit.
- A reply may be written that no client reads: an error that echoes a name with a
  line end (`dispatch.go:118`), or an LRANGE of more than 2^20 elements.
  `FramesInOrder` says that up to there all is in order.

Deadlines bound the server's runs in the same way: PERSIST, INCR or RPUSH after
a deadline was set replay differently once it has passed (`server.go:273`).

The replicated mode has limits of the same kind, which `replication` stays clear
of. Apply evaluates expiry at the member's clock, so that an INCR or SET NX of a
key with a deadline can differ from member to member (`replicate.go:18`). A
deposed leader serves old values, and a new one has not applied the acknowledged
entries before it commits one of its own (`dispatch.go:162`). There WAIT also
measures against a commit index behind the client's write
(`commands_replicate.go:39`), and a WAIT without a timeout never ends once
leadership is lost, as the context it selects on is never cancelled
(`commands_replicate.go:52`).

These are also what bound the passing runs: `store` copies no hashes; `server`
gives each of its two clients its own key and commands that do not read the value
they replace, and has no deadlines and no rewrite where it has every command; `aof`
excludes `lazydir`.

The shutdown has limits that `ShutdownEnds` and `CleanExit` name. Status 0 does not
mean that the teardown succeeded: a node that fails to stop is warned of and the
writer closed under it (`server.go:297`), the error of the writer's last flush and
fsync is dropped (`main.go:186`), and exporters that fail or time out are warned of
(`main.go:156`). Run waits for its connections without a deadline (`server.go:411`;
`docs/HLD.md:136` calls the wait bounded): a proposal without a quorum or a
`WAIT n 0` holds the process, and the "client disconnected" branch of WAIT
(`commands_replicate.go:73`) cannot be reached, as its context is never cancelled.
An error of Run, which a signal during the wait for a leader also is, ends in
`os.Exit(1)` and skips Close (`main.go:193`). A broken accept waits for idle
connections that nobody closes (`server.go:388`). A second signal during Close
kills the process.

In the terminal client `d` names the focused key in its prompt and `y` deletes the
key that is focused by then, which a refresh in between can have moved
(`update.go:323`); `e` and `t` read the focus at submission in the same way. The
model has the deletion of the focus, not the text of the prompt. A FLUSHDB from the
terminal client goes back to the first page without a new
generation, so that until its reply a sweep of the old page is accepted
(`update.go:319`); `AnswersCurrent` makes that one exception.

### Bounds

In `aof`, three records let one be in the snapshot, one in the side buffer and one after
the swap, or one be torn, one land behind the stub and one fill it; one rewrite
leaves an unlinked or closed fd to what follows; two crashes let a restart be
interrupted. With two rewrites, the second of which starts from what the first
left, the run passes in seven minutes, more than a regular run should take; the
proofs cover any number. In `aof_live`, two records let one be written before and
one after a failed tick or swap. `PerMs` 2 puts a deadline inside a millisecond and
on its boundary; `store` has `MaxArrayLen` 6, so that a hash of two fields just
fits a record and a list of five does not. Three keys and
`maxSeq` 5 let a key be passed by the cursor, be overwritten, and others be
created before and behind it. Three fields, in `store_copy`, let a shared array be
shifted with a remainder on either side and grow past its capacity (1, 2, 4).
`MaxInt` 1 or 2 puts INCR at its limit within the four writes. Clocks that reach 2
or 3 give a deadline before, at and after an event.

Two terms give a leader that was deposed and does not know it beside the one that
was elected; two calls give two entries in flight on one leader, or one on each;
one redirect is followed and the second is refused. Two instants put an apply
before and at a deadline; `ProposeClock` bounds proposals to the first of them,
so that both deadlines of two proposals fall on the second. A majority that
elects has the smallest size: a larger one is a heartbeat later.

Lists of three in a ring that starts with two slots fill it, wrap it and make it
grow while it is wrapped; two requests in flight put a HELLO before a reply that
it changes; one request is over the bulk limit and one is empty; of the
unknown names one fits a line, one exceeds it and one has a line end in it. Lists of five are longer
than an array the reader takes. Two connections let one be served while the other
ends; one entry from the peers lets Close meet an Apply. Three keys on pages of
two give a second page, three presses a prompt with its answer and a key before or
after it; two sweeps give a stale one beside the current one. `tui` fixes the
order in which the keys were created, so that its second pattern hides the newest
one. It also passes with two writes of another client (1,518,787 states), in more
time than a regular run should take.

Deadlock is checked for the store, the server and the terminal client. It is off
for `Aof`, where a behaviour ends when a server refuses to start and the bounds are
used up, and in the short runs of `MCServer` that have no clock left to advance. It
is off for `Replication` and `ListConn`, where the bound on calls or the list's
length ends a behaviour, and for `Lifecycle`, whose process exits.

### Fairness

`Aof`: every runnable goroutine runs (WF on its steps); an acquisition of the
writer's mutex, which others take again and again, gets SF, since Go's
`sync.Mutex` hands over to a waiter that has starved for a millisecond; the
ticker's step likewise. No fairness on kills, faults, requests. `Store`: the
sweeper's ticker fires and its goroutine runs (WF). `ExpiredReaped` is checked
with `Batch` at least the number of keys, where a pass meets every key; with
more keys the randomised map order makes it a matter of probability, which TLC
does not treat. `Lifecycle`: the scheduler runs every goroutine that can run, the
backoff's sleep ends, and a read, write or handshake on a closed socket fails (WF);
nothing is assumed of clients, peers or replicas, so a client may stop reading for
ever. `Tui`: Bubble Tea runs every command and delivers every message (WF);
nothing obliges the operator, other clients or the network.

## Proofs

`AofLemmas`, `AofSafety` and `AofProofs` are checked by `tlapm` for every set of
clients, every bound, every fsync policy and every set of faults.

- `TypeCorrect`: `Spec => []TypeOK`.
- `HeaderGatesThm`, `CleanIsDurableThm`, `CanonicalNeverShrinksThm` and the first
  half of `RewriteSafeThm` (`RewriteLosesNothing`): these hold with no assumption.
- `AckedSurvivesThm`, `RefusesOnlyEmptyThm` and the second half of
  `RewriteSafeThm` (`CanonicalComplete`), assuming `Regime`: power does not fail,
  or the policy is always and fsync covers the directory entry.
- `AckedNeverLostThm`: assuming `Regime` and that no write is torn, no acknowledged
  record is lost at all. What `aof_torn` shows is thus due to torn records alone.

`AckedSurvives` speaks of the store of a running process, and a restart rebuilds
the store from whatever a replay of the disk then finds. So the inductive
invariant `SafeInv` says where every promised record that is not buried is: found
in the canonical file (`InvHeld`), in its durable part too when power can fail, in
whichever file the directory names (`InvDurable`), and, while a rewrite is under
way, in the snapshot or the side buffer (`InvRewrite`, for which the side buffer
has to be armed, `InvSide`, and the store ahead of all files, `InvStore`). A
record being appended is not promised yet; that it is in the file when Append
returns needs the mutex (`InvLock`), and that nothing is under way in a stopped
process `InvDown`. `InvClean` says that neither the side buffer nor the file of a
rewrite has a stub, `InvTorn` that without torn writes there is none anywhere and
nothing is buried; `InvHeader` that records are under the current header,
`InvStamp` that the header is there for good once a record is promised, on which
`InvRefused` rests. Beside it `Fresh` has the numbers of records below the next
one, and `CleanInv` strengthens `CleanIsDurable` by what a crash-free process has
synced. Each is proved stable action by action.

`DequeProofs` is checked for every set of values, every length and every first
capacity above zero.

- `RingThm`: `Spec => []RingOK`. The invariant relates `cap`, `head`, `count` and
  the slots: the slots of the list hold values and the others nothing. It is
  inductive as it stands.
- `RefinementThm`: `Spec => ImplementsList`. Under `RingOK` each operation does to
  `elements(d)` what the abstract one does to its list. The lemmas are about the
  indices: what `(head + i) % cap` is on both sides of the wrap, that two positions
  of a list share no slot, and that `grow` keeps every element in its place.

Only model-checked: everything about `Keyspace`, `Store`, `Server`, `Replication`,
`Resp`, `ListConn`, `Lifecycle` and `Tui`, `rng` and `clone` of `Deque`, and all
liveness, which is out of the reach of the provers installed. `Resp` is recursive,
which the provers do not treat either. `aof` checks safety under always and
`aof_live` liveness under everysec; for the everysec and no policies the properties
of `aof` rest on the proofs, those under `Regime` without power loss.

## Plan

1. `Replication`, continued: members that restart with an AOF and a Raft log; the
   answers of reads against linearizability; commands that read a key with a
   deadline.
2. An abstract key-value service which `Store` implements with expiry as a hidden
   step, by a refinement mapping.
3. Conversions: SET options and relative deadlines with their width.
4. Proofs: `AckedLogged`, `GaugesExact` and `CleanExit` of `Lifecycle`,
   `PaneConsistent` and `PollAlive` of `Tui`, `ScanComplete` (a key that stays has
   been returned or its sequence is past the cursor).

## Not modelled, and why

Exposed, and watched by no property: besides the hazards `PROJECT.json` lists with
a note, followers stash a reply for every entry and never take it
(`statemachine.go:71`), and a redirect dials a connection that has lost AUTH and
HELLO (`cluster_client.go:132`).

Names, bytes and patterns (KEYS, MATCH) are data no property tells apart. Argument
parsing and arity checks refuse a command before it changes anything. Of torn
records two coincidences of bytes are left out: a body cut before its first byte
whose length happens to be that of what follows it, and as many stubs in a row as
the reader allows nested arrays. A rewrite still running when the process exits is
not waited for; what it can leave is what a kill can leave, which `Aof` has.
Telemetry, INFO and the CLI decide nothing; the gauges of a connection are in
`Lifecycle`. Of the terminal client the prompt's text, the help overlay, the
focused pane and its scroll, the window size, the INFO fields and the view are
layout. The snapshot serializer of `internal/cluster` is not called.
