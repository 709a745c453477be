------------------------------ MODULE ListConn -----------------------------
(* One client connection (server/conn.go) that works on one list key: the  *)
(* requests and the replies are frames of Resp on two byte streams, the    *)
(* client pipelines, and the handlers of commands_list.go run on the list  *)
(* of Deque.  Commands, their numeric arguments and the list's values are  *)
(* sequences of symbols.  The server requires no password and has no AOF.  *)
EXTENDS Deque, Resp

CONSTANTS
  Workloads, \* what clients do, by name: the argvs they send, malformed ones included,
             \* and how long they let the list grow
  Pipeline   \* bound on the requests sent and not yet answered

ASSUME ConnConstants ==
  Pipeline \in Nat /\ \A w \in DOMAIN Workloads : Workloads[w].maxLen \in 0 .. MaxLen

VARIABLES
  load,      \* the workload
  req, rep,  \* the streams: tokens sent and not yet read
  link,      \* "up"; "half": the client has closed its side; "down"
  handling,  \* handleConn is in its loop
  proto,     \* cs.proto
  asked,     \* history: the requests sent and not yet served
  due,       \* history: the replies the client is yet to read
  misread    \* history: it has read part of a reply that cannot be read back

connVars == <<load, d, out, req, rep, link, handling, proto, asked, due, misread>>

Atoi(b) == CASE b = <<"0">> -> 0 [] b = <<"1">> -> 1 [] b = <<"-", "1">> -> -1 [] b = <<"-", "2">> -> -2

Bulks(bs) == [i \in DOMAIN bs |-> Bulk(bs[i])]

----------------------------------------------------------------------------
(* The handlers: the reply and, for the mutators, the list they leave.     *)

Keep(reply) == [st |-> d, val |-> out, proto |-> proto, reply |-> reply]

push(q) == [Keep(Integer(q.count)) EXCEPT !.st = q]

\* A pop that takes the last element deletes the key, and with it the ring.
pop(r) ==
  [Keep(IF d.count = 0 THEN Null ELSE Bulk(r.val))
     EXCEPT !.st = IF r.st.count = 0 THEN Zero ELSE r.st, !.val = r.val]

LIndex(i) ==
  LET k == IF i < 0 THEN i + d.count ELSE i
  IN  IF k < 0 \/ k >= d.count THEN Null ELSE Bulk(at(d, k))

helloReply(p) == Map(<<Bulk(<<"proto">>), Integer(p), Bulk(<<"modules">>), Array(<<>>)>>)

\* Only HELLO with a supported version, or with none, changes the protocol.
cmdHello(argv) ==
  LET p == CASE Len(argv) = 1 -> proto [] argv[2] = <<"2">> -> 2 [] argv[2] = <<"3">> -> 3 [] OTHER -> 0
  IN  IF p = 0 THEN Keep(Error(<<"NOPROTO">>)) ELSE [Keep(helloReply(p)) EXCEPT !.proto = p]

\* An unknown command is named in the error as the client sent it.
dispatch(argv) ==
  LET name == argv[1]
  IN  CASE name = <<"LPUSH">> -> push(pushFront(d, argv[3]))
        [] name = <<"RPUSH">> -> push(pushBack(d, argv[3]))
        [] name = <<"LPOP">> -> pop(popFront(d))
        [] name = <<"RPOP">> -> pop(popBack(d))
        [] name = <<"LLEN">> -> Keep(Integer(d.count))
        [] name = <<"LINDEX">> -> Keep(LIndex(Atoi(argv[3])))
        [] name = <<"LRANGE">> -> Keep(Array(Bulks(rng(d, Atoi(argv[3]), Atoi(argv[4])))))
        [] name = <<"HELLO">> -> cmdHello(argv)
        [] OTHER -> Keep(Error(<<"ERR unknown command '">> \o name \o <<"'">>))

----------------------------------------------------------------------------
(* What the client is to be told, by the contents of the list.             *)

Nth(s, i) == LET r == List!Between(s, i, i) IN IF r = <<>> THEN Null ELSE Bulk(r[1])

Expected(argv, s, p) ==
  LET name == argv[1]
  IN  CASE name \in {<<"LPUSH">>, <<"RPUSH">>} -> Integer(Len(s) + 1)
        [] name = <<"LPOP">> -> Nth(s, 0)
        [] name = <<"RPOP">> -> Nth(s, -1)
        [] name = <<"LLEN">> -> Integer(Len(s))
        [] name = <<"LINDEX">> -> Nth(s, Atoi(argv[3]))
        [] name = <<"LRANGE">> -> Array(Bulks(List!Between(s, Atoi(argv[3]), Atoi(argv[4]))))
        [] OTHER -> dispatch(argv).reply

----------------------------------------------------------------------------
ConnInit ==
  /\ Init /\ load \in DOMAIN Workloads
  /\ req = <<>> /\ rep = <<>> /\ link = "up" /\ handling = TRUE /\ proto = 2
  /\ asked = <<>> /\ due = <<>> /\ misread = FALSE

\* The client writes a request without waiting for the replies before it.
\* What a client asks for that takes one reply for another is not followed.
Send(argv) ==
  /\ link = "up" /\ Len(asked) + Len(due) < Pipeline /\ ~misread
  /\ Len(argv) = 3 /\ argv[1] # <<"LINDEX">> => d.count + Len(asked) < Workloads[load].maxLen
  /\ req' = req \o WriteFrameProto(Array(Bulks(argv)), 2)
  /\ asked' = Append(asked, argv)
  /\ UNCHANGED <<load, d, out, rep, link, handling, proto, due, misread>>

\* What is left of a stream that breaks off after n tokens, or inside the
\* body that follows them.
CutAfter(w, n) ==
  {SubSeq(w, 1, n)} \cup
  IF n < Len(w) /\ w[n + 1].prefix = "body"
  THEN {Append(SubSeq(w, 1, n), Body(SubSeq(w[n + 1].body, 1, m))) : m \in 1 .. Len(w[n + 1].body) - 1}
  ELSE {}

\* The client closes its side, perhaps in the middle of a request.
HalfClose ==
  /\ link = "up" /\ link' = "half"
  /\ \E n \in 0 .. Len(req) : req' \in CutAfter(req, n)
  /\ UNCHANGED <<load, d, out, rep, handling, proto, asked, due, misread>>

\* The connection dies: the replies in flight may be lost from any point on.
\* A request that only partly arrived is a HalfClose before it.
Die ==
  /\ handling /\ link # "down" /\ link' = "down"
  /\ \E n \in 0 .. Len(rep) : rep' \in CutAfter(rep, n)
  /\ UNCHANGED <<load, d, out, req, handling, proto, asked, due, misread>>

\* One turn of the loop: read a command, run it, write its reply at the
\* protocol it leaves, flush.  On a dead link the flush fails.
Serve ==
  LET c == ReadCommand(req)
      h == dispatch(c.argv)
  IN  /\ handling /\ c.err = ""
      /\ req' = c.rest /\ asked' = Tail(asked)
      /\ d' = h.st /\ out' = h.val /\ proto' = h.proto
      /\ due' = Append(due, Seen(Expected(c.argv, elements(d), h.proto), h.proto))
      /\ rep' = IF link = "down" THEN rep ELSE rep \o WriteFrameProto(h.reply, h.proto)
      /\ handling' = (link # "down")
      /\ UNCHANGED <<load, link, misread>>

\* A malformed or oversized frame is answered by one error frame, and the
\* connection is dropped with all that follows; an end of stream by nothing.
Drop ==
  LET c == ReadCommand(req)
  IN  /\ handling /\ c.err # "" /\ (c.err = "EOF" => link # "up")
      /\ handling' = FALSE
      /\ IF c.err = "EOF" \/ link = "down" THEN UNCHANGED <<rep, due>>
         ELSE /\ rep' = rep \o WriteFrameProto(Error(<<"ERR Protocol error">>), 2)
              /\ due' = Append(due, Error(<<"ERR Protocol error">>))
      /\ req' = <<>> /\ asked' = <<>>
      /\ UNCHANGED <<load, d, out, link, proto, misread>>

\* The client reads a frame, and takes it for the next reply.
Receive ==
  /\ readFrame(rep, 0).err = ""
  /\ rep' = readFrame(rep, 0).rest
  /\ due' = IF due = <<>> THEN due ELSE Tail(due)
  /\ misread' = (misread \/ (due # <<>> /\ Unreadable(Head(due))))
  /\ UNCHANGED <<load, d, out, req, link, handling, proto, asked>>

\* A later connection: the list outlives the one that ended.
Reconnect ==
  /\ ~handling
  /\ req' = <<>> /\ rep' = <<>> /\ link' = "up" /\ handling' = TRUE /\ proto' = 2
  /\ asked' = <<>> /\ due' = <<>> /\ misread' = FALSE
  /\ UNCHANGED <<load, d, out>>

ConnNext ==
  \/ \E argv \in Workloads[load].argvs : Send(argv)
  \/ HalfClose \/ Die \/ Serve \/ Drop \/ Receive \/ Reconnect

ConnSpec == ConnInit /\ [][ConnNext]_connVars

----------------------------------------------------------------------------
(* Properties.                                                             *)

\* Values of every kind, nested ones included.
Samples ==
  LET a == Bulk(<<"x">>)
  IN  {String(<<"OK">>), Integer(-1), Bulk(<<>>), NullBulk, NullArray, Null, Boolean(TRUE), Double("inf"),
       Verbatim(<<"t", "x", "t">>, <<"r", ":">>), Array(<<>>), Map(<<a, Null>>), Set(<<Double("1.5"), a>>),
       Push(<<a, Boolean(FALSE), Map(<<a, Array(<<>>)>>)>>), Array(<<Map(<<a, Set(<<>>)>>), NullArray>>)}

\* The codec is exact on them: what is written at either protocol is read
\* back as the value, or at RESP2 as its equivalent.
RoundTrips ==
  \A v \in Samples, p \in {2, 3} : readFrame(WriteFrameProto(v, p), 0) = Done(Seen(v, p), <<>>)

\* The replies up to the first that cannot be read back.
Exact ==
  LET n == SelectInSeq(due, Unreadable)
  IN  IF n = 0 THEN due ELSE SubSeq(due, 1, n - 1)

\* The replies on the stream, each at the protocol it was written for, decode
\* to the replies the list's contents call for, in the order of the requests;
\* a broken connection loses only a tail of them (resp/writer.go against
\* resp/reader.go, conn.go's loop).  It ends with a reply that cannot be read
\* back, an unknown command's name with a line end in it or an array beyond
\* the reader's limit: from there on a client may take one reply for another.
FramesInOrder ==
  /\ RoundTrips
  /\ ~misread =>
       /\ link # "down" /\ Exact = due => Frames(rep) = due
       /\ link # "down" => IsPrefix(Exact, Frames(rep))
       /\ IsPrefix(Frames(rep), Exact) \/ IsPrefix(Exact, Frames(rep))

\* The requests on the stream are the ones sent: what the server will read
\* as a command is one the client sent, in its order, however the stream
\* breaks off, so that nothing is executed from half a frame.
NoPhantomCommand ==
  handling => IsPrefix(Frames(req), [i \in DOMAIN asked |-> Array(Bulks(asked[i]))])

\* LRANGE returns the elements between its bounds and LINDEX the one at its
\* index, whatever they are and wherever the ring starts, and COPY's clone
\* holds the same elements.  It is about the ring alone: every ring is met on
\* an open connection with nothing in flight, and it is checked there.
ReadsExact ==
  link = "up" /\ asked = <<>> /\ due = <<>> =>
    /\ \A i \in -(d.count + 1) .. d.count + 1 : LIndex(i) = Nth(elements(d), i)
    /\ \A start, stop \in -(d.count + 1) .. d.count + 1 :
         rng(d, start, stop) = List!Between(elements(d), start, stop)
    /\ elements(clone(d)) = elements(d)
============================================================================
