---------------------------- MODULE MCLifecycle ----------------------------
(* A small instance of Lifecycle for TLC. *)
EXTENDS Lifecycle

CONSTANTS c1, c2

Safe == [usage |-> TRUE, addr |-> "loopback", pass |-> FALSE, tls |-> FALSE, protected |-> TRUE,
         dir |-> TRUE, replicate |-> FALSE, multi |-> FALSE,
         raftAddr |-> "unset", selfAddr |-> "loopback", insecure |-> FALSE]

\* A plain server, one with a password on every interface, one with TLS and
\* no persistence, and a node of a cluster; then everything New refuses.
MCFlags ==
  {Safe,
   [Safe EXCEPT !.addr = "empty", !.pass = TRUE],
   [Safe EXCEPT !.addr = "public", !.tls = TRUE, !.dir = FALSE],
   [Safe EXCEPT !.replicate = TRUE, !.multi = TRUE],
   [Safe EXCEPT !.usage = FALSE]}
  \cup {[Safe EXCEPT !.addr = h] : h \in Host \ {"localhost", "name-local"}}
  \cup {[Safe EXCEPT !.replicate = TRUE, !.multi = TRUE, !.raftAddr = h, !.selfAddr = "unspecified"] :
          h \in {"unset", "public"}}

Hello(v, a) == [name |-> "HELLO", ver |-> v, cred |-> a]
Plain(n)    == [name |-> n, ver |-> 0, cred |-> "none"]
Auth(a)     == [name |-> "AUTH", ver |-> 0, cred |-> a]

\* Each command where it does something of its own.
MCCalls(f, c) ==
  {Plain("SET")} \cup
  CASE c = c2      -> {}
    [] c # c2 /\ f.pass ->
         {Auth("good"), Auth("bad"), Hello(3, "none"), Hello(3, "good"), Hello(3, "bad"), Hello(4, "good"), Hello(0, "good")}
    [] c # c2 /\ f.replicate -> {Plain("WAIT"), Plain("WAIT 0")}
    [] OTHER -> {Hello(3, "none"), Hello(2, "form"), Auth("good")}

=============================================================================
