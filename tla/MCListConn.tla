----------------------------- MODULE MCListConn ----------------------------
(* Small instance of ListConn for TLC.                                     *)
EXTENDS ListConn

MCValues == {<<>>, <<"x", "y">>}

K == <<"k">>

\* The requests on a short list, and an empty one.
Short == [maxLen |-> 3, argvs |->
  {<< <<"LPUSH">>, K, <<>> >>, << <<"RPUSH">>, K, <<"x", "y">> >>,
   << <<"LPOP">>, K >>, << <<"RPOP">>, K >>, << <<"LRANGE">>, K, <<"-", "2">>, <<"1">> >>,
   << <<"HELLO">>, <<"3">> >>, <<>>}]

\* A list that grows past what a reply can carry; an oversized request; unknown
\* commands, one that a line holds, one too long for it, one with a line end.
Long == [maxLen |-> MaxArrayLen + 1, argvs |->
  {<< <<"RPUSH">>, K, <<>> >>, << <<"LRANGE">>, K, <<"0">>, <<"-", "1">> >>,
   << <<"HELLO">>, <<"3">> >>, << <<"LLEN">>, <<"k", "k", "k", "k", "k", "k", "k">> >>,
   << <<"X">> >>, << <<"X", "X", "X">> >>, << <<"X", "CRLF", "+">> >>}]

MCWorkloads == [short |-> Short, long |-> Long]
============================================================================
