------------------------------ MODULE KvModel ------------------------------
(***************************************************************************)
(* models/kv.go: the sequential key-value store against which porcupine     *)
(* checks a history of operations, and the reference definition of what a   *)
(* linearization of such a history is.                                      *)
(*                                                                          *)
(* An operation is [input, output, call, return], an input [op, key, value],*)
(* and a value the sequence of the strings it was appended from.            *)
(***************************************************************************)
EXTENDS Naturals, Sequences, FiniteSets, SequencesExt

InitState == <<>>

\* KvModel.Step: may the store answer so, and what it holds afterwards.
Step(state, input, output) ==
  [ok    |-> input.op = "get" => output = state,
   state |-> CASE input.op = "get"    -> state
               [] input.op = "put"    -> input.value
               [] input.op = "append" -> state \o input.value]

\* KvModel.Partition: the operations of each key, in the order of the keys.
Partition(history) ==
  LET keys == SetToSortSeq({history[i].input.key : i \in DOMAIN history}, LAMBDA a, b : a < b)
  IN  [p \in DOMAIN keys |-> SelectSeq(history, LAMBDA o : o.input.key = keys[p])]

-----------------------------------------------------------------------------
(* What a linearization is, without any search.                             *)

\* Operation i had returned before operation j was called.
Precedes(history, i, j) == history[i].return < history[j].call

\* What key holds after the operations of s, taken in that order.
ValueAfter(history, s, key) ==
  LET Perform(held, i) == IF history[i].input.key = key
                          THEN Step(held, history[i].input, history[i].output).state
                          ELSE held
  IN  FoldLeft(Perform, InitState, s)

\* s orders some operations of the history: none is there before one that
\* had returned when it was called, and every get answers what its key holds.
IsPartialLinearization(history, s) ==
  \A n \in DOMAIN s :
    LET before == SubSeq(s, 1, n - 1)
        input  == history[s[n]].input
    IN  /\ \A i \in DOMAIN history : Precedes(history, i, s[n]) => Contains(before, i)
        /\ input.op = "get" => history[s[n]].output = ValueAfter(history, before, input.key)

PartialLinearizations(history) ==
  {s \in SetToAllKPermutations(DOMAIN history) : IsPartialLinearization(history, s)}

Linearizable(history) ==
  \E s \in SetToSeqs(DOMAIN history) : IsPartialLinearization(history, s)
=============================================================================
