---------------------------- MODULE TwoPhaseJob ----------------------------
(***************************************************************************)
(* What a MapReduce job promises its user, whoever executes it: map tasks   *)
(* complete in any order, a reduce task completes only once every map task  *)
(* has, a completed task stays completed, and the job is announced finished *)
(* only when everything is complete.                                        *)
(***************************************************************************)
CONSTANTS Maps, Reduces    \* the map tasks and the reduce tasks of the job

VARIABLES mapsDone,        \* the map tasks that are complete
          reducesDone,     \* the reduce tasks that are complete
          finished         \* the end of the job has been announced

vars == <<mapsDone, reducesDone, finished>>

Init ==
  /\ mapsDone = {}
  /\ reducesDone = {}
  /\ finished = FALSE

CompleteMap(m) ==
  /\ mapsDone' = mapsDone \cup {m}
  /\ UNCHANGED <<reducesDone, finished>>

CompleteReduce(r) ==
  /\ mapsDone = Maps
  /\ reducesDone' = reducesDone \cup {r}
  /\ UNCHANGED <<mapsDone, finished>>

Finish ==
  /\ mapsDone = Maps
  /\ reducesDone = Reduces
  /\ finished' = TRUE
  /\ UNCHANGED <<mapsDone, reducesDone>>

Next ==
  \/ \E m \in Maps : CompleteMap(m)
  \/ \E r \in Reduces : CompleteReduce(r)
  \/ Finish

Spec == Init /\ [][Next]_vars
=============================================================================
