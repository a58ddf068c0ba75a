---------------------------- MODULE Coordinator ----------------------------
(***************************************************************************)
(* The MapReduce coordinator (Lab 2/src/mr/coordinator.go) and the main      *)
(* program that drives it (Lab 2/src/main/mrcoordinator.go).  Every RPC      *)
(* handler, the timeout sweep and Done() run under the mutex c.mu, so each   *)
(* is one atomic action.                                                     *)
(*                                                                           *)
(* A Task is known by its TaskType and its ID: File and NumOfFiles are       *)
(* functions of those.  StartTime is kept as the age of the assignment,      *)
(* time.Since(StartTime) in units in which the 10 seconds of the timeout are *)
(* Timeout, saturating just past it.  The code reads StartTime only while    *)
(* Assigned holds; the age is 0 otherwise.                                   *)
(***************************************************************************)
EXTENDS Integers

CONSTANTS NMap,       \* len(files)
          NReduce,    \* the nReduce argument of MakeCoordinator
          Timeout     \* the age past which the sweep takes a task back

ASSUME CoordinatorAssumption ==
  /\ NMap \in Nat \ {0}
  /\ NReduce \in Nat \ {0}
  /\ Timeout \in Nat

VARIABLES mapTaskStatus,     \* c.mapTaskStatus
          reduceTaskStatus,  \* c.reduceTaskStatus
          completed,         \* c.completed, set by Done()
          serving            \* the coordinator process has not exited

coordVars == <<mapTaskStatus, reduceTaskStatus, completed, serving>>

MapIDs == 0 .. NMap - 1
ReduceIDs == 0 .. NReduce - 1

MapTask(i) == [TaskType |-> "map", ID |-> i]
ReduceTask(i) == [TaskType |-> "reduce", ID |-> i]
ExitReply == [TaskType |-> "exit", ID |-> 0]
WaitReply == [TaskType |-> "wait", ID |-> 0]

Tasks == {MapTask(i) : i \in MapIDs} \cup {ReduceTask(i) : i \in ReduceIDs}
Replies == Tasks \cup {ExitReply, WaitReply}

TaskStatus == [Assigned : BOOLEAN, Completed : BOOLEAN, age : 0 .. Timeout + 1]
FreshStatus == [Assigned |-> FALSE, Completed |-> FALSE, age |-> 0]

Status(t) ==
  IF t.TaskType = "map" THEN mapTaskStatus[t.ID] ELSE reduceTaskStatus[t.ID]

(***************************************************************************)
(* MakeCoordinator                                                          *)
(***************************************************************************)
MakeCoordinator ==
  /\ mapTaskStatus = [i \in MapIDs |-> FreshStatus]
  /\ reduceTaskStatus = [i \in ReduceIDs |-> FreshStatus]
  /\ completed = FALSE
  /\ serving = TRUE

allMapTasksDone == \A i \in MapIDs : mapTaskStatus[i].Completed
\* Seeded fault: a running reduce task is taken for a finished one.
allReduceTasksStarted ==
  \A i \in ReduceIDs : reduceTaskStatus[i].Completed \/ reduceTaskStatus[i].Assigned

allReduceTasksDone == \A i \in ReduceIDs : reduceTaskStatus[i].Completed

(***************************************************************************)
(* AssignTask hands out the first task, in slice order, that is neither     *)
(* completed nor assigned: map tasks first, reduce tasks once every map     *)
(* task is complete.  With nothing to hand out the worker is told to exit   *)
(* (the job is complete) or to wait.                                        *)
(***************************************************************************)
Free(status) ==
  {i \in DOMAIN status : ~status[i].Completed /\ ~status[i].Assigned}

First(i, S) == i \in S /\ \A j \in S : i <= j

Assign(status, i) ==
  [status EXCEPT ![i] = [Assigned |-> TRUE, Completed |-> @.Completed, age |-> 0]]

AssignMapTask(reply) ==
  \E i \in MapIDs :
    /\ First(i, Free(mapTaskStatus))
    /\ reply = MapTask(i)
    /\ mapTaskStatus' = Assign(mapTaskStatus, i)
    /\ UNCHANGED reduceTaskStatus

\* Seeded fault: reduce tasks start when no map task is left to hand out.
AssignReduceTaskEarly(reply) ==
  /\ Free(mapTaskStatus) = {}
  /\ \E i \in ReduceIDs :
       /\ First(i, Free(reduceTaskStatus))
       /\ reply = ReduceTask(i)
       /\ reduceTaskStatus' = Assign(reduceTaskStatus, i)
  /\ UNCHANGED mapTaskStatus

AssignReduceTask(reply) ==
  /\ Free(mapTaskStatus) = {}
  /\ allMapTasksDone
  /\ \E i \in ReduceIDs :
       /\ First(i, Free(reduceTaskStatus))
       /\ reply = ReduceTask(i)
       /\ reduceTaskStatus' = Assign(reduceTaskStatus, i)
  /\ UNCHANGED mapTaskStatus

NothingToAssign ==
  /\ Free(mapTaskStatus) = {}
  /\ allMapTasksDone => Free(reduceTaskStatus) = {}

AssignTask(reply) ==
  /\ serving
  /\ \/ AssignMapTask(reply)
     \/ AssignReduceTask(reply)
     \/ /\ NothingToAssign
        /\ allMapTasksDone /\ allReduceTasksDone
        /\ reply = ExitReply
        /\ UNCHANGED <<mapTaskStatus, reduceTaskStatus>>
     \/ /\ NothingToAssign
        /\ ~(allMapTasksDone /\ allReduceTasksDone)
        /\ reply = WaitReply
        /\ UNCHANGED <<mapTaskStatus, reduceTaskStatus>>
  /\ UNCHANGED <<completed, serving>>

(***************************************************************************)
(* ReportTaskDone does not look at who reports, or whether the task is      *)
(* still assigned: a report that comes after the timeout counts.            *)
(***************************************************************************)
Complete(status, i) ==
  [status EXCEPT ![i] = [Assigned |-> FALSE, Completed |-> TRUE, age |-> 0]]

ReportTaskDone(t) ==
  /\ serving
  /\ \/ /\ t.TaskType = "map"
        /\ mapTaskStatus' = Complete(mapTaskStatus, t.ID)
        /\ UNCHANGED reduceTaskStatus
     \/ /\ t.TaskType = "reduce"
        /\ reduceTaskStatus' = Complete(reduceTaskStatus, t.ID)
        /\ UNCHANGED mapTaskStatus
  /\ UNCHANGED <<completed, serving>>

(***************************************************************************)
(* One pass of checkTaskTimeouts: every assigned, uncompleted task that is  *)
(* older than the timeout becomes free again.                               *)
(***************************************************************************)
\* Seeded fault: the deadline itself counts as late.
ExpiredAtDeadline(s) == s.Assigned /\ ~s.Completed /\ s.age >= Timeout

Expired(s) == s.Assigned /\ ~s.Completed /\ s.age > Timeout

Sweep(status) ==
  [i \in DOMAIN status |->
     IF Expired(status[i])
     THEN [Assigned |-> FALSE, Completed |-> status[i].Completed, age |-> 0]
     ELSE status[i]]

\* Seeded fault: the loop over the reduce tasks is missing.
checkMapTaskTimeouts ==
  /\ serving
  /\ \E i \in MapIDs : Expired(mapTaskStatus[i])
  /\ mapTaskStatus' = Sweep(mapTaskStatus)
  /\ UNCHANGED <<reduceTaskStatus, completed, serving>>

checkTaskTimeouts ==
  /\ serving
  /\ \/ \E i \in MapIDs : Expired(mapTaskStatus[i])
     \/ \E i \in ReduceIDs : Expired(reduceTaskStatus[i])
  /\ mapTaskStatus' = Sweep(mapTaskStatus)
  /\ reduceTaskStatus' = Sweep(reduceTaskStatus)
  /\ UNCHANGED <<completed, serving>>

(***************************************************************************)
(* The passing of time.  Ages stop growing just past the timeout.           *)
(***************************************************************************)
Ages(s) == s.Assigned /\ s.age <= Timeout

Older(status) ==
  [i \in DOMAIN status |->
     IF Ages(status[i]) THEN [status[i] EXCEPT !.age = @ + 1] ELSE status[i]]

Tick ==
  /\ serving
  /\ \/ \E i \in MapIDs : Ages(mapTaskStatus[i])
     \/ \E i \in ReduceIDs : Ages(reduceTaskStatus[i])
  /\ mapTaskStatus' = Older(mapTaskStatus)
  /\ reduceTaskStatus' = Older(reduceTaskStatus)
  /\ UNCHANGED <<completed, serving>>

(***************************************************************************)
(* main polls Done() every second; once it has answered true, main sleeps   *)
(* another second, in which workers are still served, and returns.          *)
(***************************************************************************)
Done ==
  /\ serving
  /\ ~completed
  /\ allMapTasksDone /\ allReduceTasksDone
  /\ completed' = TRUE
  /\ UNCHANGED <<mapTaskStatus, reduceTaskStatus, serving>>

Exit ==
  /\ serving
  /\ completed
  /\ serving' = FALSE
  /\ UNCHANGED <<mapTaskStatus, reduceTaskStatus, completed>>
=============================================================================
