---------------------------- MODULE MCPorcupine ----------------------------
(***************************************************************************)
(* The histories that TLC gives to porcupine.                               *)
(***************************************************************************)
EXTENDS Porcupine

a == <<"a">>

Operation(op, key, value, output, call, return) ==
  [input |-> [op |-> op, key |-> key, value |-> value], output |-> output,
   call |-> call, return |-> return]

Puts(keys)    == {Operation("put", k, a, <<>>, 0, 0) : k \in keys}
Appends(keys) == {Operation("append", k, a, <<>>, 0, 0) : k \in keys}
Gets(keys, outputs) == {Operation("get", k, <<>>, o, 0, 0) : k \in keys, o \in outputs}

Intervals(last) == {i \in (0 .. last) \X (0 .. last) : i[1] <= i[2]}

\* At every interval, in the order of their returns (a clerk's operation is
\* logged when it has returned).  Only the order of the times matters, so that
\* those in use are 0, 1, ... without a gap.
Timed(operations, n, last) ==
  {h \in [1 .. n -> {[o EXCEPT !.call = i[1], !.return = i[2]] :
                       o \in operations, i \in Intervals(last)}] :
    /\ \A i \in 1 .. n - 1 : h[i].return <= h[i + 1].return
    /\ \E m \in 0 .. last : UNION {{h[i].call, h[i].return} : i \in 1 .. n} = 0 .. m}

Check(histories, events, verbose, timeouts, ties) ==
  [history : histories, events : events, verbose : verbose, timeout : timeouts,
   tie : [call : ties, return : ties]]

Data == Appends({1}) \cup Gets({1}, {<<>>, a, a \o a})

\* Three operations on a key, at all intervals.
OneKey == Check(Timed(Data, 3, 2), {FALSE}, {TRUE}, {FALSE}, {1, -1})

\* Four concurrent operations: the cache matters.
Concurrent == Check([1 .. 4 -> Data], {FALSE}, {TRUE}, {FALSE}, {1})

\* Two goroutines, either of which may be killed.
TwoKeys == Check(Timed(Puts({1, 2}) \cup Gets({1, 2}, {a}), 2, 1), {FALSE}, BOOLEAN, BOOLEAN, {1})

Events == Check(Timed(Data, 2, 1), {TRUE}, BOOLEAN, BOOLEAN, {1})

Nothing == Check({<<>>}, {FALSE}, BOOLEAN, BOOLEAN, {1})

MCChecks == OneKey \cup Concurrent \cup TwoKeys \cup Events \cup Nothing
=============================================================================
