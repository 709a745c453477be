-------------------------------- MODULE Tui --------------------------------
(***************************************************************************)
(* The reducer of toykv-tui: Bubble Tea runs Update on one message at a    *)
(* time and the commands it returns concurrently, so key presses, ticks,   *)
(* sweeps of the keyspace and replies interleave.  The server is its SCAN  *)
(* order and its password; other clients write to it.  Texts the operator  *)
(* types are empty or not, what they say is chosen on submission.          *)
(***************************************************************************)
EXTENDS Integers, Sequences, FiniteSets, SequencesExt

CONSTANTS
  Keys,        \* the key names
  None,        \* the empty name
  Patterns,    \* what MATCH can select, subsets of Keys
  PageCount,   \* the COUNT of a SCAN page
  MaxPressed,  \* bound: key presses
  MaxOthers,   \* bound: writes of other clients
  MaxFetches   \* bound: sweeps in flight

ASSUME TuiConstants ==
  /\ None \notin Keys /\ Patterns \subseteq SUBSET Keys /\ Keys \in Patterns
  /\ PageCount \in Nat \ {0} /\ MaxFetches \in Nat \ {0}
  /\ MaxPressed \in Nat /\ MaxOthers \in Nat

VARIABLES
  rank,     \* the server's keyspace: the seq of every key, 0 for none
  last,     \* the last seq given out
  authed,   \* the TUI's connection has authenticated
  up,       \* the connection works; the client closes it for good on an error
  m,        \* the Model
  armed,    \* a tickMsg with the number Update waits for is on its way
  fetches,  \* the sweeps started and not delivered
  cmds,     \* the one-shot commands started and not delivered
  pressed, others \* counters for the bounds

server == <<rank, last, authed, up>>
vars == <<server, m, armed, fetches, cmds, pressed, others>>

\* resetPaging and the other early values.
NewModel ==
  [keys |-> <<>>, cursor |-> 0, focused |-> None, value |-> None, filter |-> Keys,
   page |-> 0, next |-> 0, stack |-> <<>>,
   mode |-> "normal", confirm |-> "none", input |-> "", masked |-> FALSE]

\* fetchRefresh: what a sweep takes along from the model.  fresh says that
\* its generation is still the model's.
Sweep(n) ==
  [filter |-> n.filter, page |-> n.page, focused |-> n.focused, fresh |-> TRUE,
   state |-> "queued", keys |-> <<>>, next |-> 0]

Stale == [Sweep(NewModel) EXCEPT !.fresh = FALSE, !.state = "stale"]

Init ==
  /\ rank \in [Keys -> 0 .. Cardinality(Keys)] /\ last = Cardinality(Keys)
  /\ \A j, k \in Keys : rank[j] = rank[k] => j = k
  /\ 0 \notin {rank[k] : k \in Keys}
  /\ authed \in BOOLEAN /\ up = TRUE
  /\ m = NewModel /\ armed = TRUE
  /\ fetches = {Sweep(NewModel)} /\ cmds = {}
  /\ pressed = 0 /\ others = 0

----------------------------------------------------------------------------
(* The server, as its clients see it.                                      *)

\* SCAN: the keys past the cursor in the order of their seq, PageCount of
\* them examined, the ones that match returned; the cursor of the next page
\* is 0 when none is left.
Scan(cursor, filter) ==
  LET cand == SetToSortSeq({k \in Keys : rank[k] > cursor}, LAMBDA j, k : rank[j] < rank[k])
      page == IF Len(cand) <= PageCount THEN cand ELSE SubSeq(cand, 1, PageCount)
  IN  [keys |-> SelectSeq(page, LAMBDA k : k \in filter),
       next |-> IF Len(cand) <= PageCount THEN 0 ELSE rank[Last(page)]]

Create(k) ==
  IF rank[k] # 0 THEN UNCHANGED <<rank, last>>
  ELSE rank' = [rank EXCEPT ![k] = last + 1] /\ last' = last + 1

Drop(S) == rank' = [k \in Keys |-> IF k \in S THEN 0 ELSE rank[k]] /\ UNCHANGED last

\* Another client's SET or DEL, or an expiry.
OtherClient ==
  /\ others < MaxOthers /\ others' = others + 1
  /\ \E k \in Keys : (rank[k] = 0 /\ Create(k)) \/ (rank[k] # 0 /\ Drop({k}))
  /\ UNCHANGED <<authed, up, m, armed, fetches, cmds, pressed>>

ConnectionBreaks ==
  /\ up /\ up' = FALSE
  /\ UNCHANGED <<rank, last, authed, m, armed, fetches, cmds, pressed, others>>

----------------------------------------------------------------------------
(* The commands Bubble Tea runs.                                           *)

\* fetchRefresh on its goroutine.  After SCAN it only reads; TYPE, TTL, INFO
\* and the value of the focused key fail as SCAN does, or not at all.
RunSweep(f) ==
  /\ f \in fetches /\ f.state = "queued"
  /\ LET scan == Scan(f.page, f.filter)
         done == IF ~up THEN [f EXCEPT !.state = "error"]
                 ELSE IF ~authed THEN [f EXCEPT !.state = "NOAUTH"]
                 ELSE [f EXCEPT !.state = "ok", !.keys = scan.keys, !.next = scan.next]
     IN  fetches' = (fetches \ {f}) \cup {done}
  /\ UNCHANGED <<server, m, armed, cmds, pressed, others>>

\* runMutating and authCmd on their goroutine.
RunCommand(c) ==
  /\ c \in cmds /\ c.state = "queued"
  /\ LET answer(s) == cmds' = (cmds \ {c}) \cup {[c EXCEPT !.state = s]}
     IN  \/ ~up /\ answer("error") /\ UNCHANGED <<rank, last, authed>>
         \/ /\ up /\ c.op \in {"AUTH", "AUTH bad"}
            /\ answer(IF c.op = "AUTH" THEN "ok" ELSE "error")
            /\ authed' = (authed \/ c.op = "AUTH") /\ UNCHANGED <<rank, last>>
         \/ /\ up /\ c.op \notin {"AUTH", "AUTH bad"} /\ ~authed
            /\ answer("NOAUTH") /\ UNCHANGED <<rank, last, authed>>
         \/ /\ up /\ c.op \notin {"AUTH", "AUTH bad"} /\ authed
            /\ answer("ok") /\ UNCHANGED authed
            /\ CASE c.op = "SET"     -> Create(c.key)
                 [] c.op = "DEL"     -> Drop({c.key})
                 [] c.op = "FLUSHDB" -> Drop(Keys)
                 [] c.op = "EXPIRE"  -> UNCHANGED <<rank, last>>
  /\ UNCHANGED <<up, m, armed, fetches, pressed, others>>

----------------------------------------------------------------------------
(* Update.                                                                 *)

\* The generation is not bumped.
scheduleFetchSameGen(n) ==
  /\ Cardinality(fetches) < MaxFetches
  /\ m' = n /\ fetches' = fetches \cup {Sweep(n)}

\* The model becomes n and a new sweep starts; every other one is stale, and
\* what it brings is never looked at.
scheduleFetch(n) ==
  /\ Cardinality(fetches) < MaxFetches
  /\ m' = n /\ fetches' = {Stale : f \in fetches} \cup {Sweep(n)}

\* The prompt wipes what was typed so far.
enterAuthPromptAnew(n) == [n EXCEPT !.mode = "auth", !.masked = TRUE, !.input = ""]

enterAuthPrompt(n) ==
  IF n.mode = "auth" THEN n ELSE [n EXCEPT !.mode = "auth", !.masked = TRUE, !.input = ""]

\* An empty page leaves the old value in its pane.
refreshedKeepsValue(f) ==
  LET n == Len(f.keys)
      i == IF m.cursor < n THEN m.cursor ELSE IF n = 0 THEN 0 ELSE n - 1
  IN  [m EXCEPT !.keys = f.keys, !.next = f.next, !.cursor = i,
                !.focused = IF n = 0 THEN None ELSE f.keys[i + 1],
                !.value = IF f.focused # None THEN f.focused ELSE @]

\* The cursor stays where it was in a shorter list.
refreshedLoose(f) ==
  LET n == Len(f.keys)
  IN  [m EXCEPT !.keys = f.keys, !.next = f.next,
                !.focused = IF n = 0 THEN None ELSE IF m.cursor < n THEN f.keys[m.cursor + 1] ELSE @,
                !.value = IF f.focused # None THEN f.focused ELSE IF n = 0 THEN None ELSE @]

\* The result of a sweep: the list, the cursor clamped to it, the key under
\* the cursor, and the value of the key that had the focus when it started.
refreshed(f) ==
  LET n == Len(f.keys)
      i == IF m.cursor < n THEN m.cursor ELSE IF n = 0 THEN 0 ELSE n - 1
  IN  [m EXCEPT !.keys = f.keys, !.next = f.next, !.cursor = i,
                !.focused = IF n = 0 THEN None ELSE f.keys[i + 1],
                !.value = IF f.focused # None THEN f.focused ELSE IF n = 0 THEN None ELSE @]

\* A tick that reaches a model in ModeAuth only arms the next one.
Tick ==
  /\ armed
  /\ \/ m.mode = "auth" /\ UNCHANGED <<m, armed, fetches>>
     \/ m.mode # "auth" /\ armed' = FALSE /\ scheduleFetch(m)
  /\ UNCHANGED <<server, cmds, pressed, others>>

DropStale(f) ==
  /\ f \in fetches /\ ~f.fresh
  /\ fetches' = fetches \ {f}
  /\ UNCHANGED <<server, m, armed, cmds, pressed, others>>

\* A sweep that failed does not re-arm the tick.
RefreshOnce(f) ==
  /\ f \in fetches /\ f.state # "queued" /\ f.fresh
  /\ m' = CASE f.state = "ok"     -> refreshed(f)
            [] f.state = "NOAUTH" -> enterAuthPrompt([m EXCEPT !.value = None])
            [] f.state = "error"  -> [m EXCEPT !.value = None]
  /\ armed' = (armed \/ f.state # "error") /\ fetches' = fetches \ {f}
  /\ UNCHANGED <<server, cmds, pressed, others>>

Refresh(f) ==
  /\ f \in fetches /\ f.state # "queued" /\ f.fresh
  /\ m' = CASE f.state = "ok"     -> refreshed(f)
            [] f.state = "NOAUTH" -> enterAuthPrompt([m EXCEPT !.value = None])
            [] f.state = "error"  -> [m EXCEPT !.value = None]
  /\ armed' = TRUE /\ fetches' = fetches \ {f}
  /\ UNCHANGED <<server, cmds, pressed, others>>

\* Every command asks for a sweep after its reply, an error included; the
\* password prompt comes instead.
Reply(c) ==
  /\ c \in cmds /\ c.state # "queued"
  /\ cmds' = cmds \ {c}
  /\ \/ c.state = "NOAUTH" /\ m' = enterAuthPrompt(m) /\ UNCHANGED fetches
     \/ c.state # "NOAUTH" /\ scheduleFetch(m)
  /\ UNCHANGED <<server, armed, pressed, others>>

----------------------------------------------------------------------------
(* Keys.                                                                   *)

Press(S) == m.mode \in S /\ pressed < MaxPressed /\ pressed' = pressed + 1

\* A key that starts a sweep, a command, or nothing.
Fetching(n) == scheduleFetch(n) /\ UNCHANGED <<server, armed, cmds, others>>
Sending(n, op, key) ==
  /\ m' = n
  /\ cmds' = cmds \cup {[op |-> op, key |-> key, state |-> "queued"]}
  /\ UNCHANGED <<server, armed, fetches, others>>
Only(n) == m' = n /\ UNCHANGED <<server, armed, fetches, cmds, others>>

resetPaging(n) == [n EXCEPT !.page = 0, !.next = 0, !.stack = <<>>, !.cursor = 0]

\* g, G, j, k.
MoveCursor ==
  /\ Press({"normal"})
  /\ LET end == Len(m.keys) - 1
     IN  \E i \in {0, end, m.cursor - 1, m.cursor + 1} \cap 0 .. end :
           Fetching([m EXCEPT !.cursor = i, !.focused = m.keys[i + 1], !.value = None])

\* r.
ForceRefresh == Press({"normal"}) /\ Fetching(m)

PageForward ==
  /\ Press({"normal"}) /\ m.next # 0
  /\ Fetching([m EXCEPT !.stack = Append(@, m.page), !.page = m.next,
                        !.cursor = 0, !.focused = None, !.value = None])

PageBack ==
  /\ Press({"normal"}) /\ m.stack # <<>>
  /\ Fetching([m EXCEPT !.page = Last(m.stack), !.stack = Front(@),
                        !.cursor = 0, !.focused = None, !.value = None])

\* / n e t : open an input; e and t name the focused key in the prompt.
enterInput ==
  /\ Press({"normal"})
  /\ \E mode \in {"filter", "new", "edit", "expire", "raw"} :
       /\ mode \in {"edit", "expire"} => m.focused # None
       /\ Only([m EXCEPT !.mode = mode,
                         !.input = IF mode = "filter" /\ m.filter # Keys THEN "text" ELSE ""])

\* d and F.
AskConfirm ==
  /\ Press({"normal"})
  /\ \/ m.focused # None
        /\ Only([m EXCEPT !.mode = "confirm", !.confirm = "DEL"])
     \/ Only([m EXCEPT !.mode = "confirm", !.confirm = "FLUSHDB"])

\* i and D.
Count == Press({"normal"}) /\ m.focused # None /\ Sending(m, "SET", m.focused)

Closed(n) == [n EXCEPT !.mode = "normal", !.confirm = "none"]

\* y: FLUSHDB, or DEL of the key that has the focus by now.
Confirm ==
  /\ Press({"confirm"})
  /\ \/ /\ m.confirm = "FLUSHDB"
        /\ Sending([resetPaging(Closed(m)) EXCEPT !.focused = None], "FLUSHDB", None)
     \/ /\ m.confirm = "DEL"
        /\ Sending(Closed(m), "DEL", m.focused)

Refuse == Press({"confirm"}) /\ Only(Closed(m))

Inputs == {"filter", "new", "edit", "expire", "raw", "auth"}

Type == Press(Inputs) /\ m.input = "" /\ Only([m EXCEPT !.input = "text"])

\* The field is emptied and shows what is typed again.
ClosedInput(n) == [n EXCEPT !.mode = "normal", !.input = "", !.masked = FALSE]

Escape == Press(Inputs) /\ Only(ClosedInput(m))

\* Enter.  An empty text, or one that does not parse, closes the input; the
\* value of an edit may be empty.
submitInput ==
  /\ Press(Inputs)
  /\ LET n == ClosedInput(m)
         text == m.input = "text"
     IN  \/ m.mode \notin {"filter", "edit"} /\ Only(n)
         \/ m.mode = "edit" /\ m.focused = None /\ Only(n)
         \/ /\ m.mode = "auth" /\ text
            /\ \E op \in {"AUTH", "AUTH bad"} : Sending(n, op, None)
         \/ /\ m.mode = "filter"
            /\ \E S \in IF text THEN Patterns ELSE {Keys} :
                 Fetching([resetPaging(n) EXCEPT !.filter = S, !.focused = None, !.value = None])
         \/ m.mode = "new" /\ text /\ \E k \in Keys : Sending(n, "SET", k)
         \/ m.mode = "edit" /\ m.focused # None /\ Sending(n, "SET", m.focused)
         \/ m.mode = "expire" /\ text /\ m.focused # None /\ Sending(n, "EXPIRE", m.focused)
         \/ /\ m.mode = "raw" /\ text
            /\ \/ \E k \in Keys, op \in {"SET", "DEL"} : Sending(n, op, k)
               \/ \E op \in {"FLUSHDB", "AUTH"} : Sending(n, op, None)

HandleKey ==
  \/ MoveCursor \/ ForceRefresh \/ PageForward \/ PageBack \/ enterInput
  \/ AskConfirm \/ Count \/ Confirm \/ Refuse \/ Type \/ Escape \/ submitInput

Commands == (\E f \in fetches : RunSweep(f)) \/ (\E c \in cmds : RunCommand(c))
Messages ==
  Tick \/ (\E f \in fetches : DropStale(f) \/ Refresh(f)) \/ (\E c \in cmds : Reply(c))

Next == OtherClient \/ ConnectionBreaks \/ HandleKey \/ Commands \/ Messages

Spec == Init /\ [][Next]_vars

\* Bubble Tea runs every command it is given and delivers every message;
\* nothing obliges the operator, the other clients or the network.
Fairness ==
  /\ WF_vars(\E f \in fetches : RunSweep(f)) /\ WF_vars(\E c \in cmds : RunCommand(c))
  /\ WF_vars(\E f \in fetches : DropStale(f) \/ Refresh(f))
  /\ WF_vars(\E c \in cmds : Reply(c)) /\ WF_vars(Tick)

FairSpec == Spec /\ Fairness

----------------------------------------------------------------------------
(* Properties.                                                             *)

\* What the panes show belongs together: the highlighted row is a row of the
\* list and the key the next d, e, t, i or D acts on is the one in that row,
\* and the pages left behind are in front of the current one (Update,
\* handleNormalKey, submitInput).
PaneConsistent ==
  /\ m.cursor = 0 \/ m.cursor \in 0 .. Len(m.keys) - 1
  /\ m.focused # None => m.keys # <<>> /\ m.keys[m.cursor + 1] = m.focused
  /\ \A i \in DOMAIN m.stack : m.stack[i] <= (IF i < Len(m.stack) THEN m.stack[i + 1] ELSE m.page)

\* A page that is put on screen is the page the model is at: it was asked for
\* with the current cursor and pattern, however fast the operator turns pages
\* or changes the pattern (the generations of scheduleFetch and Update).  Only
\* a FLUSHDB on its way, which goes back to the first page without a new
\* generation, lets an older page through.
AnswersCurrent ==
  [][\A f \in fetches : Refresh(f) /\ f.state = "ok" =>
       \/ f.page = m.page /\ f.filter = m.filter
       \/ \E c \in cmds : c.op = "FLUSHDB"]_vars

\* The polling never dies: a tick Update will accept is on its way, or a
\* sweep it will accept is, whatever generations were dropped and whatever
\* failed (Update, scheduleFetch, tickCmd).
PollAlive == armed \/ \E f \in fetches : f.fresh

\* While the password is typed nothing but a key touches it: no refresh, tick
\* or NOAUTH reply closes the prompt or wipes the text, and the field is
\* masked exactly as long as the prompt is up (enterAuthPrompt).
PasswordKept ==
  [][/\ m.mode = "auth" /\ pressed' = pressed => m'.mode = "auth" /\ m'.input = m.input
     /\ m'.masked = (m'.mode = "auth")]_vars

\* Once the operator and the other clients rest, with a live authenticated
\* connection and no password prompt, the panes come to show the server's
\* page, a key of it and that key's value, and keep showing it.
Exact ==
  LET page == Scan(m.page, m.filter)
  IN  /\ m.keys = page.keys /\ m.next = page.next
      /\ m.value = m.focused /\ (m.keys # <<>> => m.focused # None)
Converges == <>[](up /\ authed /\ m.mode # "auth") => <>[]Exact
=============================================================================
