-------------------------------- MODULE Resp -------------------------------
(* internal/resp: the RESP codec.  A frame is a sequence of tokens: a line *)
(* (prefix byte and argument up to CRLF) or the body of a bulk or verbatim *)
(* string with its CRLF.  Numbers stand for their decimal text; the text   *)
(* of a simple string or error is a sequence of symbols, CRLF among them.  *)
EXTENDS Integers, Sequences, SequencesExt

CONSTANTS
  MaxArrayLen, \* largest aggregate the reader accepts; 2^20 in the code
  MaxBulkSize, \* longest bulk it accepts; 2^26 in the code
  MaxLine,     \* longest text its buffer holds; 2^14 bytes with its CRLF in the code
  MaxDepth     \* deepest nesting it accepts; 32 in the code

ASSUME RespConstants ==
  MaxArrayLen \in Nat /\ MaxBulkSize \in Nat /\ MaxLine \in Nat /\ MaxDepth \in Nat

----------------------------------------------------------------------------
(* Values: one record for all kinds, unused fields zero.                   *)

Empty == [Kind |-> "", Str |-> <<>>, Int |-> 0, Bytes |-> <<>>, Array |-> <<>>,
          IsNull |-> FALSE, Float |-> "0", Bool |-> FALSE, Fmt |-> <<>>]

String(s)        == [Empty EXCEPT !.Kind = "+", !.Str = s]
Error(s)         == [Empty EXCEPT !.Kind = "-", !.Str = s]
Integer(n)           == [Empty EXCEPT !.Kind = ":", !.Int = n]
Bulk(b)          == [Empty EXCEPT !.Kind = "$", !.Bytes = b]
NullBulk         == [Empty EXCEPT !.Kind = "$", !.IsNull = TRUE]
Array(vs)        == [Empty EXCEPT !.Kind = "*", !.Array = vs]
NullArray        == [Empty EXCEPT !.Kind = "*", !.IsNull = TRUE]
Map(pairs)       == [Empty EXCEPT !.Kind = "%", !.Array = pairs]
Set(vs)          == [Empty EXCEPT !.Kind = "~", !.Array = vs]
Push(vs)         == [Empty EXCEPT !.Kind = ">", !.Array = vs]
Double(f)        == [Empty EXCEPT !.Kind = ",", !.Float = f]
Boolean(b)       == [Empty EXCEPT !.Kind = "#", !.Bool = b]
Null             == [Empty EXCEPT !.Kind = "_"]
Verbatim(fmt, b) == [Empty EXCEPT !.Kind = "=", !.Fmt = fmt, !.Bytes = b]

----------------------------------------------------------------------------
(* Writer.                                                                 *)

Line(prefix, text) == [prefix |-> prefix, n |-> 0, text |-> text, body |-> <<>>]
Header(prefix, n)  == [prefix |-> prefix, n |-> n, text |-> <<"digits">>, body |-> <<>>]
Body(b)            == [prefix |-> "body", n |-> 0, text |-> <<>>, body |-> b]

\* The text goes out as it is: a CRLF in it ends the line, and the byte after
\* it is the prefix of another one.
RECURSIVE writePrefixed(_, _)
writePrefixed(prefix, s) ==
  LET end  == SelectInSeq(s, LAMBDA x : x = "CRLF")
      more == SubSeq(s, end + 1, Len(s))
  IN  IF end = 0 THEN <<Line(prefix, s)>>
      ELSE <<Line(prefix, SubSeq(s, 1, end - 1))>>
           \o (IF more = <<>> THEN <<Line("", <<>>)>> ELSE writePrefixed(Head(more), Tail(more)))

writeBulkBytes(b) == <<Header("$", Len(b)), Body(b)>>

\* The text of a double: the letters of inf, -inf and nan or the shortest
\* decimal, each as bytes.
DoubleText == [f \in {"inf", "1.5", "0"} |->
  CASE f = "inf" -> <<"i", "n", "f">> [] f = "1.5" -> <<"1", ".", "5">> [] f = "0" -> <<"0">>]

RECURSIVE WriteFrameProto(_, _)

writeElements(vs, p) == FlattenSeq([i \in 1 .. Len(vs) |-> WriteFrameProto(vs[i], p)])

writeAggregate(prefix, v, p) == <<Header(prefix, Len(v.Array))>> \o writeElements(v.Array, p)

writeArray(v, p) == IF v.IsNull THEN <<Header("*", -1)>> ELSE writeAggregate("*", v, p)

\* Variant: the header of a map counts elements.
writeMapElements(v, p) ==
  IF p = 2 THEN writeAggregate("*", v, p) ELSE writeAggregate("%", v, p)

\* A map's header counts pairs; a RESP2 reader gets a flat array.
writeMap(v, p) ==
  IF p = 2 THEN writeAggregate("*", v, p)
  ELSE <<Header("%", Len(v.Array) \div 2)>> \o writeElements(v.Array, p)

writeVerbatim(v, p) ==
  IF p = 2 THEN writeBulkBytes(v.Bytes)
  ELSE <<Header("=", Len(v.Fmt) + 1 + Len(v.Bytes)), Body(v.Fmt \o <<":">> \o v.Bytes)>>

WriteFrameProto(v, p) ==
  CASE v.Kind \in {"+", "-"} -> writePrefixed(v.Kind, v.Str)
    [] v.Kind = ":" -> <<Header(":", v.Int)>>
    [] v.Kind = "$" -> IF v.IsNull THEN <<Header("$", -1)>> ELSE writeBulkBytes(v.Bytes)
    [] v.Kind = "*" -> writeArray(v, p)
    [] v.Kind = "%" -> writeMap(v, p)
    [] v.Kind \in {"~", ">"} -> writeAggregate(IF p = 2 THEN "*" ELSE v.Kind, v, p)
    [] v.Kind = "," -> IF p = 2 THEN writeBulkBytes(DoubleText[v.Float])
                       ELSE <<[Line(",", <<>>) EXCEPT !.body = DoubleText[v.Float]]>>
    [] v.Kind = "#" -> IF p = 2 THEN <<Header(":", IF v.Bool THEN 1 ELSE 0)>>
                       ELSE <<Line("#", IF v.Bool THEN <<"t">> ELSE <<"f">>)>>
    [] v.Kind = "_" -> IF p = 2 THEN <<Header("$", -1)>> ELSE <<Line("_", <<>>)>>
    [] v.Kind = "=" -> writeVerbatim(v, p)

----------------------------------------------------------------------------
(* Reader.  A result is a value and the tokens after it, or an error:      *)
(* io.EOF when the stream ends, before a frame or inside one, except after *)
(* part of a body; ErrTooLarge beyond a limit; else ErrProtocol.           *)

Fail(e) == [err |-> e, v |-> Empty, vs |-> <<>>, rest |-> <<>>]
Done(v, rest) == [err |-> "", v |-> v, vs |-> <<>>, rest |-> rest]

\* Variant: a body may end early.
readBodyShort(w, n) ==
  IF n < 0 \/ n > MaxBulkSize THEN Fail("ErrProtocol")
  ELSE IF w = <<>> THEN Fail("EOF")
  ELSE IF Head(w).prefix = "body" THEN Done(Bulk(Head(w).body), Tail(w))
  ELSE Fail("ErrProtocol")

\* The n bytes after a header, and their CRLF.
readBody(w, n) ==
  IF n < 0 THEN Fail("ErrProtocol")
  ELSE IF n > MaxBulkSize THEN Fail("ErrTooLarge")
  ELSE IF w = <<>> THEN Fail("EOF")
  ELSE IF Head(w).prefix = "body" /\ Len(Head(w).body) = n THEN Done(Bulk(Head(w).body), Tail(w))
  ELSE Fail("ErrProtocol")

readBulk(w, n) == IF n = -1 THEN Done(NullBulk, w) ELSE readBody(w, n)

readVerbatim(w, n) ==
  LET r == readBody(w, n)
      b == r.v.Bytes
  IN  IF n < 4 THEN Fail("ErrProtocol")
      ELSE IF r.err # "" THEN r
      ELSE IF b[4] # ":" THEN Fail("ErrProtocol")
      ELSE Done(Verbatim(SubSeq(b, 1, 3), SubSeq(b, 5, n)), r.rest)

RECURSIVE readFrame(_, _)
RECURSIVE readElements(_, _, _)

readElements(w, depth, count) ==
  IF count < 0 THEN Fail("ErrProtocol")
  ELSE IF count > MaxArrayLen THEN Fail("ErrTooLarge")
  ELSE IF count = 0 THEN Done(Empty, w)
  ELSE LET el == readFrame(w, depth + 1)
           more == readElements(el.rest, depth, count - 1)
       IN  IF el.err # "" THEN el
           ELSE IF more.err # "" THEN more
           ELSE [more EXCEPT !.vs = <<el.v>> \o @]

readAggregate(w, depth, count, empty) ==
  IF depth >= MaxDepth THEN Fail("ErrTooLarge")
  ELSE LET r == readElements(w, depth, count)
       IN  IF r.err = "" THEN Done([empty EXCEPT !.Array = r.vs], r.rest) ELSE r

readMap(w, depth, pairs) ==
  IF pairs > MaxArrayLen \div 2 THEN Fail("ErrTooLarge")
  ELSE readAggregate(w, depth, 2 * pairs, Map(<<>>))

\* The line of a frame: a text must fit the buffer, a number must be one.
lineErr(t) ==
  IF t.prefix \in {"+", "-"} /\ Len(t.text) > MaxLine THEN "ErrTooLarge"
  ELSE IF t.prefix \in {":", "$", "*", "%", "~", ">", "="} /\ t.text # <<"digits">> THEN "ErrProtocol"
  ELSE ""

readFrame(w, depth) ==
  IF w = <<>> THEN Fail("EOF")
  ELSE IF lineErr(Head(w)) # "" THEN Fail(lineErr(Head(w)))
  ELSE LET t == Head(w)
           w1 == Tail(w)
       IN  CASE t.prefix = "+" -> Done(String(t.text), w1)
             [] t.prefix = "-" -> Done(Error(t.text), w1)
             [] t.prefix = ":" -> Done(Integer(t.n), w1)
             [] t.prefix = "$" -> readBulk(w1, t.n)
             [] t.prefix = "*" -> IF t.n = -1 /\ depth < MaxDepth THEN Done(NullArray, w1)
                                  ELSE readAggregate(w1, depth, t.n, Array(<<>>))
             [] t.prefix = "%" -> readMap(w1, depth, t.n)
             [] t.prefix = "~" -> readAggregate(w1, depth, t.n, Set(<<>>))
             [] t.prefix = ">" -> readAggregate(w1, depth, t.n, Push(<<>>))
             [] t.prefix = "," -> IF t.body \in Range(DoubleText)
                                  THEN Done(Double(CHOOSE f \in DOMAIN DoubleText : DoubleText[f] = t.body), w1)
                                  ELSE Fail("ErrProtocol")
             [] t.prefix = "#" -> IF t.text \in {<<"t">>, <<"f">>} THEN Done(Boolean(t.text = <<"t">>), w1)
                                  ELSE Fail("ErrProtocol")
             [] t.prefix = "_" -> IF t.text = <<>> THEN Done(Null, w1) ELSE Fail("ErrProtocol")
             [] t.prefix = "=" -> readVerbatim(w1, t.n)
             [] OTHER -> Fail("ErrProtocol")

\* A command's argv: a non-empty array of non-nil bulk strings.
ReadCommand(w) ==
  LET r == readFrame(w, 0)
  IN  IF r.err # "" THEN [err |-> r.err, argv |-> <<>>, rest |-> <<>>]
      ELSE IF r.v.Kind # "*" \/ r.v.IsNull THEN [err |-> "ErrProtocol", argv |-> <<>>, rest |-> <<>>]
      ELSE IF r.v.Array = <<>> THEN [err |-> "ErrInvalidArity", argv |-> <<>>, rest |-> <<>>]
      ELSE IF \E i \in DOMAIN r.v.Array : r.v.Array[i].Kind # "$" \/ r.v.Array[i].IsNull
      THEN [err |-> "ErrProtocol", argv |-> <<>>, rest |-> <<>>]
      ELSE [err |-> "", argv |-> [i \in DOMAIN r.v.Array |-> r.v.Array[i].Bytes], rest |-> r.rest]

----------------------------------------------------------------------------
\* What the reader of a frame is to see of v at protocol p: v itself at
\* RESP3, its RESP2 equivalent at RESP2.
RECURSIVE Seen(_, _)
Seen(v, p) ==
  CASE v.Kind \in {"*", "%", "~", ">"} ->
         [v EXCEPT !.Kind = IF p = 2 THEN "*" ELSE @,
                   !.Array = [i \in DOMAIN @ |-> Seen(@[i], p)]]
    [] v.Kind = "_" /\ p = 2 -> NullBulk
    [] v.Kind = "#" /\ p = 2 -> Integer(IF v.Bool THEN 1 ELSE 0)
    [] v.Kind = "," /\ p = 2 -> Bulk(DoubleText[v.Float])
    [] v.Kind = "=" /\ p = 2 -> Bulk(v.Bytes)
    [] OTHER -> v

\* A value whose frame no reader gets back: a text with a line end in it, or
\* longer than a line; an array longer than the reader takes.
Unreadable(v) ==
  \/ v.Kind \in {"+", "-"} /\ ("CRLF" \in ToSet(v.Str) \/ Len(v.Str) > MaxLine)
  \/ v.Kind \in {"*", "%", "~", ">"} /\ Len(v.Array) > MaxArrayLen

\* The frames a reader gets out of w, up to the first that fails.
RECURSIVE Frames(_)
Frames(w) == LET r == readFrame(w, 0) IN IF r.err = "" THEN <<r.v>> \o Frames(r.rest) ELSE <<>>
============================================================================
