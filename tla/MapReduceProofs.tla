-------------------------- MODULE MapReduceProofs --------------------------
(***************************************************************************)
(* Theorems about MapReduce, for any numbers of workers, input files and     *)
(* reduce tasks, any map function, any timeout and any number of crashes.    *)
(***************************************************************************)
EXTENDS MapReduce, FiniteSetTheorems, WellFoundedInduction, TLAPS

----------------------------------------------------------------------------
(***************************************************************************)
(* Facts about the operators of the model.                                  *)
(***************************************************************************)

\* The partition function of ExecuteMapTask yields a reduce task.
LEMMA BucketInRange == \A k \in Keys : Bucket(k) \in ReduceIDs
  BY CoordinatorAssumption, MapReduceAssumption DEF Bucket, ReduceIDs

\* A reply that names a map or a reduce task names one that exists.
LEMMA TaskIDs ==
  \A t \in Replies :
    /\ t.TaskType = "map" => t.ID \in MapIDs /\ t \in Tasks
    /\ t.TaskType = "reduce" => t.ID \in ReduceIDs /\ t \in Tasks
    /\ t \in Tasks => t.TaskType \in {"map", "reduce"}
  BY DEF Replies, Tasks, MapTask, ReduceTask, ExitReply, WaitReply

\* A pair with its key.
LEMMA PairTypes ==
  /\ \A m \in MapIDs : \A j \in DOMAIN mapf[m] : <<m, j>> \in Pairs /\ mapf[m][j] \in Keys /\ j \in Nat
  /\ \A p \in Pairs : KeyOf(p) \in Keys
<1>1. \A m \in MapIDs : \A j \in DOMAIN mapf[m] : mapf[m][j] \in Keys /\ j \in Nat
  <2>. SUFFICES ASSUME NEW m \in MapIDs, NEW j \in DOMAIN mapf[m]
                PROVE  mapf[m][j] \in Keys /\ j \in Nat
    BY Zenon
  <2>1. mapf[m] \in Seq(Keys)
    BY MapReduceAssumption, Zenon
  <2>. QED BY <2>1
<1>2. \A m \in MapIDs : \A j \in DOMAIN mapf[m] : <<m, j>> \in Pairs
  BY DEF Pairs
<1>3. \A p \in Pairs : KeyOf(p) \in Keys
  <2>. SUFFICES ASSUME NEW p \in Pairs PROVE KeyOf(p) \in Keys
    BY Zenon
  <2>1. PICK m \in MapIDs : p \in {m} \X DOMAIN mapf[m]
    BY Zenon DEF Pairs
  <2>. QED BY <2>1, <1>1, Zenon DEF KeyOf
<1>. QED BY <1>1, <1>2, <1>3, Zenon

----------------------------------------------------------------------------
(***************************************************************************)
(* The handlers of the coordinator keep the type of its state.              *)
(***************************************************************************)
CoordTypeOK ==
  /\ mapTaskStatus \in [MapIDs -> TaskStatus]
  /\ reduceTaskStatus \in [ReduceIDs -> TaskStatus]
  /\ completed \in BOOLEAN /\ serving \in BOOLEAN

\* The records that the handlers store.
LEMMA StatusTypes ==
  ASSUME NEW s \in TaskStatus
  PROVE  /\ [Assigned |-> TRUE, Completed |-> s.Completed, age |-> 0] \in TaskStatus
         /\ [Assigned |-> FALSE, Completed |-> s.Completed, age |-> 0] \in TaskStatus
         /\ [Assigned |-> FALSE, Completed |-> TRUE, age |-> 0] \in TaskStatus
  BY CoordinatorAssumption DEF TaskStatus

\* AssignTask.
LEMMA AssignTaskType ==
  ASSUME CoordTypeOK, NEW reply \in Replies, AssignTask(reply)
  PROVE  CoordTypeOK'
  BY StatusTypes, ZenonT(60) DEF CoordTypeOK, AssignTask, AssignMapTask, AssignReduceTask, Assign

\* ReportTaskDone.
LEMMA ReportTaskDoneType ==
  ASSUME CoordTypeOK, NEW t \in Replies, ReportTaskDone(t)
  PROVE  CoordTypeOK'
  BY TaskIDs, StatusTypes, Zenon DEF CoordTypeOK, ReportTaskDone, Complete

\* The sweep, the clock, Done and the exit of the coordinator.
LEMMA CoordinatorType ==
  ASSUME CoordTypeOK, checkTaskTimeouts \/ Tick \/ Done \/ Exit
  PROVE  CoordTypeOK'
<1>1. CASE checkTaskTimeouts
  <2>1. ASSUME NEW S, NEW status \in [S -> TaskStatus]
        PROVE  Sweep(status) \in [S -> TaskStatus]
    <3>1. \A i \in S : status[i] \in TaskStatus
      BY Zenon
    <3>. QED BY <3>1, StatusTypes, Zenon DEF Sweep
  <2>. QED BY <1>1, <2>1, Zenon DEF CoordTypeOK, checkTaskTimeouts
<1>2. CASE Tick
  <2>1. ASSUME NEW S, NEW status \in [S -> TaskStatus]
        PROVE  Older(status) \in [S -> TaskStatus]
    <3>1. \A i \in S : status[i] \in TaskStatus
      BY Zenon
    <3>2. ASSUME NEW s \in TaskStatus, Ages(s)
          PROVE  [s EXCEPT !.age = @ + 1] \in TaskStatus
      <4>1. s.age + 1 \in 0 .. Timeout + 1
        BY CoordinatorAssumption, <3>2 DEF Ages, TaskStatus
      <4>. QED BY <4>1, Zenon DEF TaskStatus
    <3>. QED BY <3>1, <3>2, Zenon DEF Older
  <2>. QED BY <1>2, <2>1, Zenon DEF CoordTypeOK, Tick
<1>3. CASE Done \/ Exit
  BY <1>3, Zenon DEF CoordTypeOK, Done, Exit
<1>. QED BY <1>1, <1>2, <1>3, Zenon

----------------------------------------------------------------------------
(***************************************************************************)
(* Type correctness.                                                        *)
(***************************************************************************)

WorkerTypeOK ==
  /\ pc \in [Workers -> Locations]
  /\ task \in [Workers -> Replies]
  /\ idx \in [Workers -> Nat] /\ pos \in [Workers -> Nat]
  /\ got \in [Workers -> SUBSET Pairs]
  /\ \A w \in Workers : WorkerOK(w)

FileTypeOK ==
  /\ created \in SUBSET (MapIDs \X ReduceIDs)
  /\ inter \in [MapIDs -> [ReduceIDs -> SUBSET Nat]]
  /\ \A m \in MapIDs, r \in ReduceIDs : inter[m][r] \subseteq Records(m, r)
  /\ out = [r \in ReduceIDs |-> out[r]]
  /\ \A r \in ReduceIDs :
       DOMAIN out[r] \subseteq Nat /\ \A i \in DOMAIN out[r] : out[r][i] \in Lines

Parts == CoordTypeOK /\ WorkerTypeOK /\ FileTypeOK /\ crashes \in 0 .. MaxCrashes

\* TypeOK, by component.
LEMMA TypeOKByPart == (TypeOK <=> Parts) /\ (TypeOK' <=> Parts')
  BY Zenon DEF TypeOK, Parts, CoordTypeOK, WorkerTypeOK, FileTypeOK

\* The end of a worker process, and the end of a turn of its loop.
LEMMA ForgetTyped ==
  ASSUME WorkerTypeOK, NEW w \in Workers, Forget(w),
         Goto(w, "dead") \/ Goto(w, "request")
  PROVE  WorkerTypeOK'
  BY DEF WorkerTypeOK, WorkerOK, Goto, Forget, Locations, Executing, Replies, WaitReply

\* Every reply that AssignTask can give sends the worker to a matching place.
LEMMA RequestTaskTyped ==
  ASSUME WorkerTypeOK, NEW w \in Workers, pc[w] = "request",
         NEW reply \in Replies, Goto(w, Dispatch(reply)),
         task' = [task EXCEPT ![w] = reply], UNCHANGED <<idx, pos, got>>
  PROVE  WorkerTypeOK'
<1>1. \/ (reply.TaskType = "map" /\ Dispatch(reply) = "create")
      \/ (reply.TaskType = "reduce" /\ Dispatch(reply) = "open")
      \/ Dispatch(reply) \in {"sleep", "exited"}
  BY DEF Dispatch, Replies, Tasks, MapTask, ReduceTask, WaitReply, ExitReply
<1>2. idx[w] = 0 /\ pos[w] = 0 /\ got[w] = {}
  BY Zenon DEF WorkerTypeOK, WorkerOK, Executing
<1>3. /\ pc' \in [Workers -> Locations]
      /\ task' \in [Workers -> Replies]
  BY <1>1, Zenon DEF Goto, WorkerTypeOK, Locations, Executing
<1>4. ASSUME NEW v \in Workers PROVE WorkerOK(v)'
  BY CoordinatorAssumption, <1>1, <1>2 DEF Goto, WorkerTypeOK, WorkerOK, Executing
<1>. QED BY <1>3, <1>4, Zenon DEF WorkerTypeOK

\* The steps of ExecuteMapTask.
LEMMA MapStepTyped ==
  ASSUME TypeOK, NEW w \in Workers,
         CreateIntermediate(w) \/ EncodePair(w) \/ CloseIntermediates(w)
  PROVE  TypeOK'
<1>. USE TypeOKByPart DEF Parts
<1>1. CASE CreateIntermediate(w)
  <2>1. task[w].ID \in MapIDs /\ task[w].TaskType = "map" /\ idx[w] \in ReduceIDs
    BY CoordinatorAssumption, <1>1, TaskIDs DEF CreateIntermediate, WorkerTypeOK, WorkerOK, ReduceIDs
  <2>2. WorkerTypeOK'
    BY CoordinatorAssumption, <1>1, <2>1 DEF CreateIntermediate, WorkerTypeOK, WorkerOK, Goto, Locations,
       Executing, ReduceIDs
  <2>3. FileTypeOK'
    BY <1>1, <2>1, SMTT(30) DEF CreateIntermediate, FileTypeOK
  <2>. QED BY <1>1, <2>2, <2>3, Zenon DEF CreateIntermediate, CoordTypeOK, coordVars
<1>2. CASE EncodePair(w)
  <2>. DEFINE m == task[w].ID
              j == pos[w] + 1
  <2>1. m \in MapIDs /\ j \in DOMAIN mapf[m]
    BY <1>2, TaskIDs, Zenon DEF EncodePair, WorkerTypeOK, WorkerOK
  <2>2. Bucket(mapf[m][j]) \in ReduceIDs /\ j \in Records(m, Bucket(mapf[m][j])) /\ j \in Nat
    BY <2>1, BucketInRange, PairTypes, ZenonT(60) DEF Records
  <2>3. WorkerTypeOK'
    BY <1>2, <2>2, Zenon DEF EncodePair, WorkerTypeOK, WorkerOK, Executing
  <2>4. FileTypeOK'
    BY CoordinatorAssumption, <1>2, <2>1, <2>2, ZenonT(60) DEF EncodePair, FileTypeOK
  <2>. QED BY <1>2, <2>3, <2>4, Zenon DEF EncodePair, CoordTypeOK, coordVars
<1>3. CASE CloseIntermediates(w)
  <2>1. task[w] \in Tasks
    BY <1>3, TaskIDs, Zenon DEF CloseIntermediates, WorkerTypeOK, WorkerOK
  <2>2. WorkerTypeOK'
    BY <1>3, <2>1, Zenon DEF CloseIntermediates, WorkerTypeOK, WorkerOK, Goto, Locations, Executing
  <2>. QED BY <1>3, <2>2, Zenon DEF CloseIntermediates, CoordTypeOK, coordVars, FileTypeOK, fileVars
<1>. QED BY <1>1, <1>2, <1>3, Zenon

\* The steps of ExecuteReduceTask that read.
LEMMA ReadStepTyped ==
  ASSUME TypeOK, NEW w \in Workers,
         OpenIntermediate(w) \/ DecodePair(w) \/ CloseIntermediate(w)
  PROVE  TypeOK'
<1>. USE TypeOKByPart DEF Parts
<1>1. CASE OpenIntermediate(w)
  <2>1. CASE <<idx[w], task[w].ID>> \in created
    <3>1. WorkerTypeOK'
      BY <1>1, <2>1 DEF OpenIntermediate, WorkerTypeOK, WorkerOK, Goto, Locations, Executing
    <3>. QED BY <1>1, <3>1, Zenon DEF OpenIntermediate, CoordTypeOK, coordVars, FileTypeOK, fileVars
  <2>2. CASE <<idx[w], task[w].ID>> \notin created
    BY <1>1, <2>2, ForgetTyped, Zenon DEF OpenIntermediate, Die, CoordTypeOK, coordVars,
       FileTypeOK, fileVars
  <2>. QED BY <2>1, <2>2, Zenon
<1>2. CASE DecodePair(w)
  <2>1. idx[w] \in MapIDs
    BY CoordinatorAssumption, <1>2 DEF DecodePair, WorkerTypeOK, WorkerOK, MapIDs
  <2>2. PICK j \in Records(idx[w], task[w].ID) :
          /\ got' = [got EXCEPT ![w] = @ \cup {<<idx[w], j>>}]
          /\ pos' = [pos EXCEPT ![w] = j]
    BY <1>2, Zenon DEF DecodePair
  <2>3. <<idx[w], j>> \in Pairs /\ j \in Nat
    BY <2>1, PairTypes, Zenon DEF Records
  <2>4. WorkerTypeOK'
    BY <1>2, <2>2, <2>3 DEF DecodePair, WorkerTypeOK, WorkerOK, Executing
  <2>. QED BY <1>2, <2>4, Zenon DEF DecodePair, CoordTypeOK, coordVars, FileTypeOK, fileVars
<1>3. CASE CloseIntermediate(w)
  <2>1. WorkerTypeOK'
    BY CoordinatorAssumption, <1>3 DEF CloseIntermediate, WorkerTypeOK, WorkerOK, Goto, Locations, Executing
  <2>. QED BY <1>3, <2>1, Zenon DEF CloseIntermediate, CoordTypeOK, coordVars, FileTypeOK, fileVars
<1>. QED BY <1>1, <1>2, <1>3, Zenon

\* The steps of ExecuteReduceTask that write.
LEMMA PrintStepTyped ==
  ASSUME TypeOK, NEW w \in Workers,
         CreateOutput(w) \/ PrintLine(w) \/ EndOutput(w)
  PROVE  TypeOK'
<1>. USE TypeOKByPart DEF Parts
<1>0. pc[w] \in {"output", "print"} /\ task[w].ID \in ReduceIDs /\ task[w] \in Tasks
  BY TaskIDs, Zenon DEF CreateOutput, PrintLine, EndOutput, WorkerTypeOK, WorkerOK
<1>1. CASE CreateOutput(w)
  <2>1. WorkerTypeOK'
    BY <1>1, Zenon DEF CreateOutput, WorkerTypeOK, WorkerOK, Goto, Locations, Executing
  <2>2. FileTypeOK'
    <3>1. DOMAIN <<>> = {}
      OBVIOUS
    <3>2. /\ out' = [r \in ReduceIDs |-> out'[r]]
          /\ \A r \in ReduceIDs : out'[r] = out[r] \/ out'[r] = <<>>
      BY <1>0, <1>1, ZenonT(40) DEF CreateOutput, FileTypeOK
    <3>3. \A r \in ReduceIDs :
            /\ DOMAIN out'[r] \subseteq Nat
            /\ \A i \in DOMAIN out'[r] : out'[r][i] \in Lines
      BY <3>1, <3>2, Zenon DEF FileTypeOK
    <3>. QED BY <1>1, <3>2, <3>3, Zenon DEF CreateOutput, FileTypeOK
  <2>. QED BY <1>1, <2>1, <2>2, Zenon DEF CreateOutput, CoordTypeOK, coordVars
<1>2. CASE PrintLine(w)
  <2>. DEFINE r == task[w].ID
              n == pos[w] + 1
              valuesOf(k) == {p \in got[w] : KeyOf(p) = k}
  <2>1. PICK k \in {KeyOf(p) : p \in got[w]} :
          /\ out' = [out EXCEPT ![r] =
               [i \in DOMAIN @ \cup {n} |->
                  IF i = n THEN [key |-> k, values |-> valuesOf(k)] ELSE @[i]]]
          /\ got' = [got EXCEPT ![w] = @ \ valuesOf(k)]
    BY <1>2, Zenon DEF PrintLine
  <2>2. [key |-> k, values |-> valuesOf(k)] \in Lines /\ n \in Nat
    BY PairTypes, SMTT(60) DEF Lines, WorkerTypeOK
  <2>3. WorkerTypeOK'
    BY <1>2, <2>1, <2>2 DEF PrintLine, WorkerTypeOK, WorkerOK, Executing
  <2>4. FileTypeOK'
    <3>. HIDE DEF n, valuesOf
    <3>. QED BY <1>0, <1>2, <2>1, <2>2, Zenon DEF PrintLine, FileTypeOK
  <2>. QED BY <1>2, <2>3, <2>4, Zenon DEF PrintLine, CoordTypeOK, coordVars
<1>3. CASE EndOutput(w)
  <2>1. WorkerTypeOK'
    BY <1>0, <1>3, Zenon DEF EndOutput, WorkerTypeOK, WorkerOK, Goto, Locations, Executing
  <2>. QED BY <1>3, <2>1, Zenon DEF EndOutput, CoordTypeOK, coordVars, FileTypeOK, fileVars
<1>. QED BY <1>1, <1>2, <1>3, Zenon

\* Every step keeps the type invariant.
LEMMA TypeOKStep == TypeOK /\ [Next]_vars => TypeOK'
<1>. SUFFICES ASSUME TypeOK, [Next]_vars PROVE TypeOK'
  BY Zenon
<1>. USE TypeOKByPart DEF Parts
<1>1. ASSUME NEW w \in Workers, RequestTask(w) PROVE TypeOK'
  <2>1. CASE ~serving /\ Die(w) /\ UNCHANGED coordVars
    BY <1>1, <2>1, ForgetTyped, Zenon DEF RequestTask, Die, CoordTypeOK, coordVars, FileTypeOK, fileVars
  <2>2. ASSUME NEW reply \in Replies, AssignTask(reply), Goto(w, Dispatch(reply)),
               task' = [task EXCEPT ![w] = reply], UNCHANGED <<idx, pos, got>>
        PROVE  TypeOK'
    <3>1. CoordTypeOK'
      BY <2>2, AssignTaskType, Zenon
    <3>2. WorkerTypeOK'
      BY <1>1, <2>2, RequestTaskTyped, Zenon DEF RequestTask
    <3>. QED BY <1>1, <3>1, <3>2, Zenon DEF RequestTask, FileTypeOK, fileVars
  <2>. QED BY <1>1, <2>1, <2>2, Zenon DEF RequestTask
<1>2. ASSUME NEW w \in Workers, WakeUp(w) PROVE TypeOK'
  BY <1>2, ForgetTyped, Zenon DEF WakeUp, CoordTypeOK, coordVars, FileTypeOK, fileVars
<1>3. ASSUME NEW w \in Workers, NotifyTaskDone(w) PROVE TypeOK'
  <2>1. CASE ~serving /\ Die(w) /\ UNCHANGED coordVars
    BY <1>3, <2>1, ForgetTyped, Zenon DEF NotifyTaskDone, Die, CoordTypeOK, coordVars, FileTypeOK, fileVars
  <2>2. CASE ReportTaskDone(task[w]) /\ Goto(w, "request") /\ Forget(w)
    <3>1. CoordTypeOK'
      BY <2>2, ReportTaskDoneType, Zenon DEF WorkerTypeOK
    <3>. QED BY <1>3, <2>2, <3>1, ForgetTyped, Zenon DEF NotifyTaskDone, FileTypeOK, fileVars
  <2>. QED BY <1>3, <2>1, <2>2, Zenon DEF NotifyTaskDone
<1>4. ASSUME NEW w \in Workers, Crash(w) PROVE TypeOK'
  BY MapReduceAssumption, <1>4, ForgetTyped DEF Crash, Die, CoordTypeOK, coordVars, FileTypeOK, fileVars
<1>5. ASSUME NEW w \in Workers, Restart(w) PROVE TypeOK'
  <2>1. WorkerTypeOK'
    BY <1>5, Zenon DEF Restart, WorkerTypeOK, WorkerOK, Goto, Locations, Executing
  <2>. QED BY <1>5, <2>1, Zenon DEF Restart, CoordTypeOK, coordVars, FileTypeOK, fileVars
<1>6. CASE CoordinatorStep \/ TimePasses
  BY <1>6, CoordinatorType, Zenon DEF CoordinatorStep, TimePasses, WorkerTypeOK, WorkerOK,
     workerVars, FileTypeOK, fileVars
<1>7. CASE UNCHANGED vars
  BY <1>7, Zenon DEF vars, CoordTypeOK, coordVars, WorkerTypeOK, WorkerOK, workerVars,
     FileTypeOK, fileVars
<1>. QED
  BY <1>1, <1>2, <1>3, <1>4, <1>5, <1>6, <1>7, MapStepTyped, ReadStepTyped, PrintStepTyped, Zenon
     DEF Next, Steps, WorkerStep, Terminating

\* The initial state has the right type.
LEMMA TypeOKInit == Init => TypeOK
<1>. SUFFICES ASSUME Init PROVE TypeOK
  BY Zenon
<1>1. CoordTypeOK
  <2>1. FreshStatus \in TaskStatus
    BY CoordinatorAssumption DEF FreshStatus, TaskStatus
  <2>. QED BY <2>1, Zenon DEF Init, MakeCoordinator, CoordTypeOK
<1>2. WorkerTypeOK
  BY Zenon DEF Init, WorkerTypeOK, WorkerOK, Locations, Executing, Replies, WaitReply
<1>3. FileTypeOK
  <2>1. DOMAIN <<>> = {}
    OBVIOUS
  <2>. QED BY <2>1, Zenon DEF Init, FileTypeOK
<1>. QED BY MapReduceAssumption, <1>1, <1>2, <1>3, TypeOKByPart DEF Parts, Init

\* All variables of the coordinator, the workers and the files keep their type,
\* every file holds only records of its bucket, and the local variables of a
\* worker fit its place in worker.go: for every instance.
THEOREM TypeCorrect == Spec => []TypeOK
<1>. QED BY TypeOKInit, TypeOKStep, PTL DEF Spec

----------------------------------------------------------------------------
(***************************************************************************)
(* Reduce workers find their input.  IntermediatesExist is not inductive:    *)
(* a reduce worker moves from file to file, so every file of every map task *)
(* must exist from the moment a reduce task is assigned.  That holds         *)
(* because a map task is complete only after some worker has created all of  *)
(* its files, and files are never removed.                                  *)
(***************************************************************************)
AllCreated(m) == \A r \in ReduceIDs : <<m, r>> \in created

Progress(w) ==
  /\ pc[w] = "create" => \A r \in ReduceIDs : r < idx[w] => <<task[w].ID, r>> \in created
  /\ pc[w] \in {"emit", "report"} /\ task[w].TaskType = "map" => AllCreated(task[w].ID)
  /\ pc[w] \in Executing /\ task[w].TaskType = "reduce" => allMapTasksDone

FilesInv ==
  /\ \A m \in MapIDs : mapTaskStatus[m].Completed => AllCreated(m)
  /\ \A w \in Workers : Progress(w)

\* A step of the coordinator completes no task and undoes none.
LEMMA CompletedKept ==
  ASSUME CoordTypeOK,
         \/ \E reply \in Replies : AssignTask(reply)
         \/ checkTaskTimeouts \/ Tick \/ Done \/ Exit \/ UNCHANGED coordVars
  PROVE  /\ \A i \in MapIDs : mapTaskStatus'[i].Completed <=> mapTaskStatus[i].Completed
         /\ \A i \in ReduceIDs : reduceTaskStatus'[i].Completed <=> reduceTaskStatus[i].Completed
<1>1. ASSUME NEW reply \in Replies, AssignTask(reply)
      PROVE  /\ \A i \in MapIDs : mapTaskStatus'[i].Completed <=> mapTaskStatus[i].Completed
             /\ \A i \in ReduceIDs : reduceTaskStatus'[i].Completed <=> reduceTaskStatus[i].Completed
  <2>1. ASSUME NEW S, NEW status \in [S -> TaskStatus], NEW k \in S, NEW i \in S
        PROVE  Assign(status, k)[i].Completed <=> status[i].Completed
    BY Zenon DEF Assign
  <2>. QED BY <1>1, <2>1, Zenon DEF CoordTypeOK, AssignTask, AssignMapTask, AssignReduceTask
<1>2. CASE checkTaskTimeouts
  BY <1>2, Zenon DEF CoordTypeOK, checkTaskTimeouts, Sweep, TaskStatus
<1>3. CASE Tick
  BY <1>3, Zenon DEF CoordTypeOK, Tick, Older, TaskStatus
<1>4. CASE Done \/ Exit \/ UNCHANGED coordVars
  BY <1>4, Zenon DEF Done, Exit, coordVars
<1>. QED BY <1>1, <1>2, <1>3, <1>4, Zenon

\* ReportTaskDone completes the reported task and leaves the others alone.
LEMMA ReportCompletes ==
  ASSUME CoordTypeOK, NEW t \in Replies, ReportTaskDone(t)
  PROVE  /\ \/ t.TaskType = "map"
            \/ t.TaskType = "reduce"
         /\ \A i \in MapIDs : mapTaskStatus'[i].Completed <=>
              (mapTaskStatus[i].Completed \/ (t.TaskType = "map" /\ i = t.ID))
         /\ \A i \in ReduceIDs : reduceTaskStatus'[i].Completed <=>
              (reduceTaskStatus[i].Completed \/ (t.TaskType = "reduce" /\ i = t.ID))
<1>1. ASSUME NEW S, NEW status \in [S -> TaskStatus], NEW k \in S, NEW i \in S
      PROVE  Complete(status, k)[i].Completed <=> (status[i].Completed \/ i = k)
  BY Zenon DEF Complete
<1>. QED BY <1>1, TaskIDs DEF CoordTypeOK, ReportTaskDone

\* A reduce task is assigned only when every map task is complete.
LEMMA ReduceAssignedLate ==
  ASSUME NEW reply \in Replies, AssignTask(reply), reply.TaskType = "reduce"
  PROVE  allMapTasksDone
  BY DEF AssignTask, AssignMapTask, AssignReduceTask, MapTask, ReduceTask, ExitReply, WaitReply

\* What a step needs to show: files only appear, completion is backed by files,
\* and the worker that moved, if any, keeps its own part of the invariant.
LEMMA FilesFrame ==
  ASSUME FilesInv, TypeOK, created \subseteq created',
         \A m \in MapIDs : mapTaskStatus[m].Completed => mapTaskStatus'[m].Completed,
         \A m \in MapIDs : mapTaskStatus'[m].Completed => mapTaskStatus[m].Completed \/ AllCreated(m),
         \A w \in Workers :
            Progress(w)' \/ (pc'[w] = pc[w] /\ task'[w] = task[w] /\ idx'[w] = idx[w])
  PROVE  FilesInv'
<1>1. \A m : AllCreated(m) => AllCreated(m)'
  BY Zenon DEF AllCreated
<1>2. allMapTasksDone => allMapTasksDone'
  BY Zenon DEF allMapTasksDone
<1>3. ASSUME NEW w \in Workers, pc'[w] = pc[w], task'[w] = task[w], idx'[w] = idx[w]
      PROVE  Progress(w)'
  BY <1>1, <1>2, <1>3, Zenon DEF FilesInv, Progress
<1>. QED BY <1>1, <1>3, Zenon DEF FilesInv

\* Every step keeps the file invariant.
LEMMA FilesInvStep == TypeOK /\ FilesInv /\ [Next]_vars => FilesInv'
<1>. SUFFICES ASSUME TypeOK, FilesInv, [Next]_vars PROVE FilesInv'
  BY Zenon
<1>0. CoordTypeOK /\ WorkerTypeOK
  BY TypeOKByPart, Zenon DEF Parts
<1>1. ASSUME NEW w \in Workers, RequestTask(w) PROVE FilesInv'
  <2>1. \A i \in MapIDs : mapTaskStatus'[i].Completed <=> mapTaskStatus[i].Completed
    BY <1>0, <1>1, CompletedKept, Zenon DEF RequestTask
  <2>2. allMapTasksDone => allMapTasksDone'
    BY <2>1, Zenon DEF allMapTasksDone
  <2>3. CASE ~serving /\ Die(w)
    <3>1. Progress(w)'
      BY <1>0, <2>3, Zenon DEF Die, Goto, Progress, Executing, WorkerTypeOK
    <3>. QED BY <1>0, <1>1, <2>1, <2>3, <3>1, FilesFrame, Zenon
         DEF RequestTask, Die, Goto, Forget, WorkerTypeOK, fileVars
  <2>4. ASSUME NEW reply \in Replies, AssignTask(reply), Goto(w, Dispatch(reply)),
               task' = [task EXCEPT ![w] = reply], UNCHANGED <<idx, pos, got>>
        PROVE  FilesInv'
    <3>1. /\ reply.TaskType = "map" => Dispatch(reply) = "create"
          /\ reply.TaskType = "reduce" => Dispatch(reply) = "open"
          /\ Dispatch(reply) \in {"create", "open", "sleep", "exited"}
      BY DEF Dispatch, Replies, Tasks, MapTask, ReduceTask, WaitReply, ExitReply
    <3>2. reply.TaskType = "reduce" => allMapTasksDone'
      BY <2>2, <2>4, ReduceAssignedLate, Zenon
    <3>3. idx[w] = 0
      BY <1>0, <1>1, Zenon DEF RequestTask, WorkerTypeOK, WorkerOK, Executing
    <3>4. Progress(w)'
      BY <1>0, <2>4, <3>1, <3>2, <3>3 DEF Goto, Progress, Executing, WorkerTypeOK, ReduceIDs
    <3>. QED BY <1>0, <1>1, <2>1, <2>4, <3>4, FilesFrame, Zenon
         DEF RequestTask, Goto, WorkerTypeOK, fileVars
  <2>. QED BY <1>1, <2>3, <2>4, Zenon DEF RequestTask
<1>2. ASSUME NEW w \in Workers, CreateIntermediate(w) PROVE FilesInv'
  <2>1. Progress(w)'
    <3>. DEFINE m == task[w].ID
                r == idx[w]
    <3>1. /\ pc'[w] = (IF r + 1 = NReduce THEN "emit" ELSE "create")
          /\ idx'[w] = r + 1 /\ task'[w] = task[w]
          /\ created' = created \cup {<<m, r>>}
      BY <1>0, <1>2, Zenon DEF CreateIntermediate, Goto, WorkerTypeOK
    <3>2. \A q \in ReduceIDs : q < r + 1 => <<m, q>> \in created'
      <4>1. pc[w] = "create" /\ r \in Nat
        BY <1>0, <1>2, Zenon DEF CreateIntermediate, WorkerTypeOK
      <4>2. \A q \in ReduceIDs : q < r => <<m, q>> \in created
        BY <4>1, Zenon DEF FilesInv, Progress
      <4>3. \A q \in ReduceIDs : q < r + 1 => q < r \/ q = r
        BY <4>1 DEF ReduceIDs
      <4>. QED BY <3>1, <4>2, <4>3, Zenon
    <3>3. r + 1 = NReduce => \A q \in ReduceIDs : q < r + 1
      BY CoordinatorAssumption DEF ReduceIDs
    <3>4. task[w].TaskType = "map"
      BY <1>0, <1>2, Zenon DEF CreateIntermediate, WorkerTypeOK, WorkerOK
    <3>. QED BY <3>1, <3>2, <3>3, <3>4, Zenon DEF Progress, AllCreated, Executing
  <2>. QED BY <1>0, <1>2, <2>1, FilesFrame, Zenon
       DEF CreateIntermediate, Goto, WorkerTypeOK, coordVars
<1>3. ASSUME NEW w \in Workers,
             \/ EncodePair(w) \/ CloseIntermediates(w) \/ OpenIntermediate(w)
             \/ DecodePair(w) \/ CloseIntermediate(w) \/ CreateOutput(w)
             \/ PrintLine(w) \/ EndOutput(w)
      PROVE  FilesInv'
  <2>1. UNCHANGED coordVars /\ created' = created
    BY <1>3, Zenon DEF EncodePair, CloseIntermediates, OpenIntermediate, DecodePair,
       CloseIntermediate, CreateOutput, PrintLine, EndOutput, fileVars
  <2>2. allMapTasksDone' = allMapTasksDone
    BY <2>1, Zenon DEF coordVars, allMapTasksDone
  <2>3. \A v \in Workers \ {w} : pc'[v] = pc[v] /\ task'[v] = task[v] /\ idx'[v] = idx[v]
    BY <1>0, <1>3, ZenonT(40) DEF EncodePair, CloseIntermediates, OpenIntermediate, DecodePair,
       CloseIntermediate, CreateOutput, PrintLine, EndOutput, Goto, Die, Forget, WorkerTypeOK
  <2>4. \/ pc'[w] = "dead"
        \/ /\ task'[w] = task[w]
           /\ \/ pc[w] = "emit" /\ pc'[w] \in {"emit", "report"}
              \/ /\ task[w].TaskType = "reduce" /\ pc[w] \in Executing
                 /\ pc'[w] \in {"open", "read", "output", "print", "report"}
    BY <1>0, <1>3, Zenon DEF EncodePair, CloseIntermediates, OpenIntermediate, DecodePair,
       CloseIntermediate, CreateOutput, PrintLine, EndOutput, Goto, Die, WorkerTypeOK,
       WorkerOK, Executing
  <2>5. Progress(w) /\ WorkerOK(w)
    BY <1>0, Zenon DEF FilesInv, WorkerTypeOK
  <2>6. Progress(w)'
    BY <2>1, <2>2, <2>4, <2>5, Zenon DEF Progress, WorkerOK, AllCreated, Executing
  <2>. QED BY <2>1, <2>3, <2>6, FilesFrame, Zenon DEF coordVars
<1>4. ASSUME NEW w \in Workers, NotifyTaskDone(w) PROVE FilesInv'
  <2>1. pc'[w] \in {"request", "dead"} /\ created' = created
    BY <1>0, <1>4, Zenon DEF NotifyTaskDone, Goto, Die, WorkerTypeOK, fileVars
  <2>2. Progress(w)'
    BY <2>1, Zenon DEF Progress, Executing
  <2>3. \A v \in Workers \ {w} : pc'[v] = pc[v] /\ task'[v] = task[v] /\ idx'[v] = idx[v]
    BY <1>0, <1>4, Zenon DEF NotifyTaskDone, Goto, Die, Forget, WorkerTypeOK
  <2>4. CASE UNCHANGED coordVars
    BY <2>1, <2>2, <2>3, <2>4, FilesFrame, Zenon DEF coordVars
  <2>5. CASE ReportTaskDone(task[w])
    <3>1. task[w] \in Replies /\ Progress(w) /\ pc[w] = "report"
      BY <1>0, <1>4, Zenon DEF FilesInv, WorkerTypeOK, NotifyTaskDone
    <3>2. task[w].TaskType = "map" => AllCreated(task[w].ID)
      BY <3>1, Zenon DEF Progress
    <3>. QED BY <1>0, <2>1, <2>2, <2>3, <2>5, <3>1, <3>2, ReportCompletes, FilesFrame, Zenon
  <2>. QED BY <1>4, <2>4, <2>5, Zenon DEF NotifyTaskDone
<1>5. ASSUME NEW w \in Workers, WakeUp(w) \/ Crash(w) \/ Restart(w) PROVE FilesInv'
  <2>1. /\ pc'[w] \in {"request", "dead"} /\ created' = created /\ UNCHANGED coordVars
        /\ \A v \in Workers \ {w} : pc'[v] = pc[v] /\ task'[v] = task[v] /\ idx'[v] = idx[v]
    BY <1>0, <1>5, Zenon DEF WakeUp, Crash, Restart, Goto, Die, Forget, WorkerTypeOK, fileVars
  <2>2. Progress(w)'
    BY <2>1, Zenon DEF Progress, Executing
  <2>. QED BY <2>1, <2>2, FilesFrame, Zenon DEF coordVars
<1>6. CASE CoordinatorStep \/ TimePasses \/ UNCHANGED vars
  <2>1. \A i \in MapIDs : mapTaskStatus'[i].Completed <=> mapTaskStatus[i].Completed
    BY <1>0, <1>6, CompletedKept, Zenon DEF CoordinatorStep, TimePasses, vars
  <2>2. UNCHANGED <<workerVars, created>>
    BY <1>6, Zenon DEF CoordinatorStep, TimePasses, vars, fileVars
  <2>. QED BY <2>1, <2>2, FilesFrame, Zenon DEF workerVars
<1>. QED BY <1>1, <1>2, <1>3, <1>4, <1>5, <1>6, Zenon DEF Next, Steps, WorkerStep, Terminating

\* A reduce worker never fails to open mr-<i>-<r> in ExecuteReduceTask: the file
\* exists, whatever timed out, crashed or was executed twice before.
THEOREM ReduceFindsItsInput == Spec => []IntermediatesExist
<1>1. Init => FilesInv
  BY SMTT(60) DEF Init, MakeCoordinator, FreshStatus, FilesInv, Progress, Executing
<1>2. TypeOK /\ FilesInv => IntermediatesExist
  <2>. SUFFICES ASSUME TypeOK, FilesInv, NEW w \in Workers, pc[w] = "open"
                PROVE  <<idx[w], task[w].ID>> \in created
    BY Zenon DEF IntermediatesExist
  <2>1. task[w].TaskType = "reduce" /\ task[w].ID \in ReduceIDs /\ idx[w] \in MapIDs
    BY CoordinatorAssumption, TaskIDs DEF TypeOK, WorkerOK, MapIDs
  <2>2. allMapTasksDone
    BY <2>1, Zenon DEF FilesInv, Progress, Executing
  <2>. QED BY <2>1, <2>2, Zenon DEF allMapTasksDone, FilesInv, AllCreated
<1>. QED BY <1>1, <1>2, TypeCorrect, FilesInvStep, PTL DEF Spec

----------------------------------------------------------------------------
(***************************************************************************)
(* The system implements TwoPhaseJob.  A reduce task is reported only by a   *)
(* worker that holds it, hence (FilesInv) after every map task; the end of   *)
(* the job is announced by Done() and by an "exit" reply, both guarded.      *)
(***************************************************************************)
mapsDone == {i \in MapIDs : mapTaskStatus[i].Completed}
reducesDone == {i \in ReduceIDs : reduceTaskStatus[i].Completed}
finished == completed \/ \E w \in Workers : pc[w] = "exited"

\* A step that completes nothing and announces nothing is a stuttering step.
LEMMA JobStutters ==
  ASSUME \A i \in MapIDs : mapTaskStatus'[i].Completed <=> mapTaskStatus[i].Completed,
         \A i \in ReduceIDs : reduceTaskStatus'[i].Completed <=> reduceTaskStatus[i].Completed,
         finished' = finished
  PROVE  UNCHANGED Job!vars
<1>1. mapsDone' = mapsDone /\ reducesDone' = reducesDone
  BY Zenon DEF mapsDone, reducesDone
<1>. QED BY <1>1, Zenon DEF Job!vars, mapsDone, reducesDone, finished

\* A step that completes nothing and announces the end is the Finish step.
LEMMA JobFinishes ==
  ASSUME \A i \in MapIDs : mapTaskStatus'[i].Completed <=> mapTaskStatus[i].Completed,
         \A i \in ReduceIDs : reduceTaskStatus'[i].Completed <=> reduceTaskStatus[i].Completed,
         finished', allMapTasksDone, allReduceTasksDone
  PROVE  Job!Finish
<1>1. mapsDone' = mapsDone /\ reducesDone' = reducesDone
  BY Zenon DEF mapsDone, reducesDone
<1>2. mapsDone = MapIDs /\ reducesDone = ReduceIDs
  BY Zenon DEF mapsDone, reducesDone, allMapTasksDone, allReduceTasksDone
<1>3. finished' = TRUE
  BY Zenon DEF finished
<1>. QED BY <1>1, <1>2, <1>3, Zenon DEF Job!Finish, mapsDone, reducesDone, finished

\* Every step of the system is a step of the abstract job, or no step at all.
LEMMA JobStep == TypeOK /\ FilesInv /\ [Next]_vars => [Job!Next]_(Job!vars)
<1>. SUFFICES ASSUME TypeOK, FilesInv, [Next]_vars PROVE Job!Next \/ UNCHANGED Job!vars
  BY Zenon
<1>0. CoordTypeOK /\ WorkerTypeOK
  BY TypeOKByPart, Zenon DEF Parts
<1>1. ASSUME NEW w \in Workers, NEW reply \in Replies, pc[w] = "request", AssignTask(reply),
             Goto(w, Dispatch(reply))
      PROVE  Job!Next \/ UNCHANGED Job!vars
  <2>1. /\ \A i \in MapIDs : mapTaskStatus'[i].Completed <=> mapTaskStatus[i].Completed
        /\ \A i \in ReduceIDs : reduceTaskStatus'[i].Completed <=> reduceTaskStatus[i].Completed
    BY <1>0, <1>1, CompletedKept, Zenon
  <2>2. completed' = completed
    BY <1>1, Zenon DEF AssignTask
  <2>3. CASE reply = ExitReply
    <3>1. allMapTasksDone /\ allReduceTasksDone
      BY <1>1, <2>3, Zenon DEF AssignTask, AssignMapTask, AssignReduceTask, MapTask, ReduceTask,
         ExitReply, WaitReply
    <3>2. pc'[w] = "exited"
      BY <1>0, <1>1, <2>3, Zenon DEF Goto, Dispatch, ExitReply, WorkerTypeOK
    <3>. QED BY <2>1, <3>1, <3>2, JobFinishes, Zenon DEF finished, Job!Next
  <2>4. CASE reply # ExitReply
    <3>1. Dispatch(reply) # "exited"
      BY <2>4 DEF Dispatch, Replies, Tasks, MapTask, ReduceTask, WaitReply
    <3>2. \A v \in Workers : pc'[v] = "exited" <=> pc[v] = "exited"
      BY <1>0, <1>1, <3>1, Zenon DEF Goto, WorkerTypeOK
    <3>. QED BY <2>1, <2>2, <3>2, JobStutters, Zenon DEF finished
  <2>. QED BY <2>3, <2>4, Zenon
<1>2. ASSUME NEW w \in Workers, pc[w] = "report", ReportTaskDone(task[w]), Goto(w, "request")
      PROVE  Job!Next \/ UNCHANGED Job!vars
  <2>1. completed' = completed
    BY <1>2, Zenon DEF ReportTaskDone
  <2>2. finished' = finished
    <3>1. \A v \in Workers : pc'[v] = "exited" <=> pc[v] = "exited"
      BY <1>0, <1>2, Zenon DEF Goto, WorkerTypeOK
    <3>. QED BY <2>1, <3>1, Zenon DEF finished
  <2>3. task[w] \in Replies
    BY <1>0, Zenon DEF WorkerTypeOK
  <2>4. CASE task[w].TaskType = "map"
    <3>1. PICK t \in MapIDs : t = task[w].ID
      BY <2>3, <2>4, TaskIDs, Zenon
    <3>2. mapsDone' = mapsDone \cup {t} /\ reducesDone' = reducesDone
      BY <1>0, <1>2, <2>3, <2>4, <3>1, ReportCompletes, Zenon DEF mapsDone, reducesDone
    <3>3. Job!CompleteMap(t)
      BY <2>2, <3>2, Zenon DEF Job!CompleteMap, mapsDone, reducesDone, finished
    <3>. QED BY <3>1, <3>3, Zenon DEF Job!Next
  <2>5. CASE task[w].TaskType = "reduce"
    <3>1. PICK t \in ReduceIDs : t = task[w].ID
      BY <2>3, <2>5, TaskIDs, Zenon
    <3>2. mapsDone' = mapsDone /\ reducesDone' = reducesDone \cup {t}
      BY <1>0, <1>2, <2>3, <2>5, <3>1, ReportCompletes, Zenon DEF mapsDone, reducesDone
    <3>3. mapsDone = MapIDs
      BY <1>2, <2>5, Zenon DEF FilesInv, Progress, Executing, allMapTasksDone, mapsDone
    <3>4. Job!CompleteReduce(t)
      BY <2>2, <3>2, <3>3, Zenon DEF Job!CompleteReduce, mapsDone, reducesDone, finished
    <3>. QED BY <3>1, <3>4, Zenon DEF Job!Next
  <2>. QED BY <1>0, <1>2, <2>3, <2>4, <2>5, ReportCompletes, Zenon
<1>3. CASE Done /\ UNCHANGED workerVars
  BY <1>3, JobFinishes, Zenon DEF Done, finished, Job!Next
<1>4. CASE (checkTaskTimeouts \/ Exit \/ Tick \/ UNCHANGED coordVars) /\ UNCHANGED workerVars
  <2>1. finished' = finished
    BY <1>4 DEF checkTaskTimeouts, Exit, Tick, coordVars, workerVars, finished
  <2>. QED BY <1>0, <1>4, <2>1, CompletedKept, JobStutters, Zenon
<1>5. ASSUME NEW w \in Workers, UNCHANGED coordVars, pc[w] # "exited",
             pc' = pc \/ \E l \in Locations \ {"exited"} : Goto(w, l)
      PROVE  UNCHANGED Job!vars
  <2>1. \A v \in Workers : pc'[v] = "exited" <=> pc[v] = "exited"
    BY <1>0, <1>5, Zenon DEF Goto, WorkerTypeOK
  <2>. QED BY <1>5, <2>1, JobStutters, Zenon DEF finished, coordVars
<1>6. ASSUME NEW w \in Workers, WorkerStep(w) \/ Crash(w) \/ Restart(w)
      PROVE  Job!Next \/ UNCHANGED Job!vars
  <2>1. CASE UNCHANGED coordVars
    <3>1. pc[w] # "exited"
      BY <1>6, Zenon DEF WorkerStep, Crash, Restart, RequestTask, WakeUp, CreateIntermediate,
         EncodePair, CloseIntermediates, OpenIntermediate, DecodePair, CloseIntermediate,
         CreateOutput, PrintLine, EndOutput, NotifyTaskDone, Executing
    <3>2. CASE RequestTask(w) \/ NotifyTaskDone(w)
      BY <1>1, <1>2, <1>5, <2>1, <3>1, <3>2, Zenon DEF RequestTask, NotifyTaskDone, Die, Locations
    <3>3. CASE ~RequestTask(w) /\ ~NotifyTaskDone(w)
      BY <1>5, <1>6, <2>1, <3>1, <3>3, Zenon DEF WorkerStep, Crash, Restart, WakeUp,
         CreateIntermediate, EncodePair, CloseIntermediates, OpenIntermediate, DecodePair,
         CloseIntermediate, CreateOutput, PrintLine, EndOutput, Die, Locations, Executing
    <3>. QED BY <3>2, <3>3, Zenon
  <2>2. CASE coordVars' # coordVars
    <3>1. RequestTask(w) \/ NotifyTaskDone(w)
      BY <1>6, <2>2, Zenon DEF WorkerStep, Crash, Restart, WakeUp, CreateIntermediate,
         EncodePair, CloseIntermediates, OpenIntermediate, DecodePair, CloseIntermediate,
         CreateOutput, PrintLine, EndOutput
    <3>. QED BY <1>1, <1>2, <2>2, <3>1, Zenon DEF RequestTask, NotifyTaskDone
  <2>. QED BY <2>1, <2>2, Zenon
<1>. QED BY <1>3, <1>4, <1>6, Zenon DEF Next, Steps, CoordinatorStep, TimePasses, Terminating, vars

\* The detailed system implements the abstract job: reduce after map, nothing
\* completed is undone, no end announced early, for every instance.
THEOREM JobRefinement == Spec => ImplementsTwoPhaseJob
<1>1. Init => Job!Init
  BY DEF Init, MakeCoordinator, FreshStatus, Job!Init
<1>2. Init => FilesInv
  BY DEF Init, MakeCoordinator, FreshStatus, FilesInv, Progress, Executing
<1>. QED BY <1>1, <1>2, TypeCorrect, FilesInvStep, JobStep, PTL
     DEF Spec, ImplementsTwoPhaseJob, Job!Spec

----------------------------------------------------------------------------
(***************************************************************************)
(* Theorems about MapReduce with prompt workers: workers may crash, but one  *)
(* that lives finishes its task before the coordinator gives it away.        *)
(***************************************************************************)

\* Prompt workers are workers: whatever holds of Spec holds of PromptSpec.
LEMMA PromptIsSpec == PromptSpec => Spec
<1>1. [PromptNext]_vars => [Next]_vars
  BY Zenon DEF PromptNext, Next
<1>. QED BY <1>1, PTL DEF PromptSpec, Spec

----------------------------------------------------------------------------
(***************************************************************************)
(* What the handlers of the coordinator do to the status of one task.        *)
(***************************************************************************)

\* AssignTask marks the task it hands out, which was free, and no other.
LEMMA AssignEffect ==
  ASSUME CoordTypeOK, NEW reply \in Replies, AssignTask(reply)
  PROVE  /\ reply \in Tasks =>
              /\ ~Status(reply).Assigned
              /\ Status(reply)'.Assigned /\ ~Status(reply)'.Completed
              /\ Status(reply)'.age = 0
         /\ \A t \in Tasks \ {reply} : Status(t)' = Status(t)
<1>1. ASSUME NEW i \in MapIDs, First(i, Free(mapTaskStatus)), reply = MapTask(i),
             mapTaskStatus' = Assign(mapTaskStatus, i), UNCHANGED reduceTaskStatus
      PROVE  /\ ~Status(reply).Assigned
             /\ Status(reply)'.Assigned /\ ~Status(reply)'.Completed
             /\ Status(reply)'.age = 0
             /\ \A t \in Tasks \ {reply} : Status(t)' = Status(t)
  <2>1. ~mapTaskStatus[i].Assigned /\ ~mapTaskStatus[i].Completed
    BY <1>1, Zenon DEF First, Free
  <2>2. /\ mapTaskStatus'[i] = [Assigned |-> TRUE, Completed |-> mapTaskStatus[i].Completed, age |-> 0]
        /\ \A k \in MapIDs \ {i} : mapTaskStatus'[k] = mapTaskStatus[k]
    BY <1>1, Zenon DEF Assign, CoordTypeOK
  <2>3. Status(reply) = mapTaskStatus[i] /\ Status(reply)' = mapTaskStatus'[i]
    BY <1>1, Zenon DEF Status, MapTask
  <2>4. \A t \in Tasks \ {reply} : Status(t)' = Status(t)
    BY <1>1, <2>2 DEF Status, Tasks, MapTask, ReduceTask
  <2>. QED BY <2>1, <2>2, <2>3, <2>4
<1>2. ASSUME NEW i \in ReduceIDs, First(i, Free(reduceTaskStatus)), reply = ReduceTask(i),
             reduceTaskStatus' = Assign(reduceTaskStatus, i), UNCHANGED mapTaskStatus
      PROVE  /\ ~Status(reply).Assigned
             /\ Status(reply)'.Assigned /\ ~Status(reply)'.Completed
             /\ Status(reply)'.age = 0
             /\ \A t \in Tasks \ {reply} : Status(t)' = Status(t)
  <2>1. ~reduceTaskStatus[i].Assigned /\ ~reduceTaskStatus[i].Completed
    BY <1>2, Zenon DEF First, Free
  <2>2. /\ reduceTaskStatus'[i] =
             [Assigned |-> TRUE, Completed |-> reduceTaskStatus[i].Completed, age |-> 0]
        /\ \A k \in ReduceIDs \ {i} : reduceTaskStatus'[k] = reduceTaskStatus[k]
    BY <1>2, Zenon DEF Assign, CoordTypeOK
  <2>3. Status(reply) = reduceTaskStatus[i] /\ Status(reply)' = reduceTaskStatus'[i]
    BY <1>2, Zenon DEF Status, ReduceTask
  <2>4. \A t \in Tasks \ {reply} : Status(t)' = Status(t)
    BY <1>2, <2>2 DEF Status, Tasks, MapTask, ReduceTask
  <2>. QED BY <2>1, <2>2, <2>3, <2>4
<1>3. CASE UNCHANGED <<mapTaskStatus, reduceTaskStatus>> /\ reply \in {ExitReply, WaitReply}
  BY <1>3 DEF Status, Tasks, MapTask, ReduceTask, ExitReply, WaitReply
<1>. QED BY <1>1, <1>2, <1>3, Zenon DEF AssignTask, AssignMapTask, AssignReduceTask

\* ReportTaskDone touches the reported task only.
LEMMA ReportEffect ==
  ASSUME CoordTypeOK, NEW u \in Tasks, ReportTaskDone(u)
  PROVE  \A t \in Tasks \ {u} : Status(t)' = Status(t)
<1>1. CASE u.TaskType = "map"
  <2>1. PICK i \in MapIDs : u = MapTask(i)
    BY <1>1 DEF Tasks, ReduceTask
  <2>2. \A k \in MapIDs \ {i} : mapTaskStatus'[k] = mapTaskStatus[k]
    BY <1>1, <2>1, Zenon DEF ReportTaskDone, Complete, CoordTypeOK, MapTask
  <2>3. reduceTaskStatus' = reduceTaskStatus
    BY <1>1, Zenon DEF ReportTaskDone
  <2>. QED BY <2>1, <2>2, <2>3 DEF Status, Tasks, MapTask, ReduceTask
<1>2. CASE u.TaskType = "reduce"
  <2>1. PICK i \in ReduceIDs : u = ReduceTask(i)
    BY <1>2 DEF Tasks, MapTask
  <2>2. \A k \in ReduceIDs \ {i} : reduceTaskStatus'[k] = reduceTaskStatus[k]
    BY <1>2, <2>1, Zenon DEF ReportTaskDone, Complete, CoordTypeOK, ReduceTask
  <2>3. mapTaskStatus' = mapTaskStatus
    BY <1>2, Zenon DEF ReportTaskDone
  <2>. QED BY <2>1, <2>2, <2>3 DEF Status, Tasks, MapTask, ReduceTask
<1>. QED BY <1>1, <1>2, Zenon DEF ReportTaskDone

\* The sweep touches expired tasks only.
LEMMA SweepEffect ==
  ASSUME CoordTypeOK, checkTaskTimeouts
  PROVE  \A t \in Tasks : ~Expired(Status(t)) => Status(t)' = Status(t)
<1>1. \A i \in MapIDs : ~Expired(mapTaskStatus[i]) => mapTaskStatus'[i] = mapTaskStatus[i]
  BY Zenon DEF checkTaskTimeouts, Sweep, CoordTypeOK
<1>2. \A i \in ReduceIDs : ~Expired(reduceTaskStatus[i]) => reduceTaskStatus'[i] = reduceTaskStatus[i]
  BY Zenon DEF checkTaskTimeouts, Sweep, CoordTypeOK
<1>. SUFFICES ASSUME NEW t \in Tasks, ~Expired(Status(t)) PROVE Status(t)' = Status(t)
  BY Zenon
<1>3. CASE t.TaskType = "map"
  <2>1. Status(t) = mapTaskStatus[t.ID] /\ Status(t)' = mapTaskStatus'[t.ID]
    BY <1>3, Zenon DEF Status
  <2>2. t.ID \in MapIDs
    BY <1>3 DEF Tasks, MapTask, ReduceTask
  <2>3. ~Expired(mapTaskStatus[t.ID])
    BY <2>1, Zenon
  <2>. QED BY <1>1, <2>1, <2>2, <2>3, Zenon
<1>4. CASE t.TaskType # "map"
  <2>1. Status(t) = reduceTaskStatus[t.ID] /\ Status(t)' = reduceTaskStatus'[t.ID]
    BY <1>4, Zenon DEF Status
  <2>. QED BY <1>2, <1>4, <2>1 DEF Tasks, MapTask, ReduceTask
<1>. QED BY <1>3, <1>4, Zenon

\* The clock adds one to the age of an assigned task and changes nothing else.
LEMMA TickEffect ==
  ASSUME CoordTypeOK, Tick, NEW t \in Tasks, Status(t).age < Timeout, Status(t).Assigned
  PROVE  /\ Status(t)'.Assigned
         /\ Status(t)'.Completed <=> Status(t).Completed
         /\ Status(t)'.age <= Timeout
<1>1. ASSUME NEW S, NEW status \in [S -> TaskStatus], NEW i \in S,
             status[i].age < Timeout, status[i].Assigned
      PROVE  /\ Older(status)[i].Assigned
             /\ Older(status)[i].Completed <=> status[i].Completed
             /\ Older(status)[i].age <= Timeout
  <2>1. status[i] \in TaskStatus
    BY Zenon
  <2>2. Ages(status[i])
    BY CoordinatorAssumption, <1>1, <2>1 DEF Ages, TaskStatus
  <2>3. Older(status)[i] = [status[i] EXCEPT !.age = @ + 1]
    BY <2>2, Zenon DEF Older
  <2>. QED BY CoordinatorAssumption, <1>1, <2>1, <2>3 DEF TaskStatus
<1>2. CASE t.TaskType = "map"
  <2>1. Status(t) = mapTaskStatus[t.ID] /\ Status(t)' = Older(mapTaskStatus)[t.ID]
    BY <1>2, Zenon DEF Status, Tick
  <2>2. t.ID \in MapIDs
    BY <1>2 DEF Tasks, MapTask, ReduceTask
  <2>3. mapTaskStatus \in [MapIDs -> TaskStatus]
    BY Zenon DEF CoordTypeOK
  <2>4. mapTaskStatus[t.ID].age < Timeout /\ mapTaskStatus[t.ID].Assigned
    BY <2>1, Zenon
  <2>. QED BY <1>1, <2>1, <2>2, <2>3, <2>4
<1>3. CASE t.TaskType # "map"
  <2>1. Status(t) = reduceTaskStatus[t.ID] /\ Status(t)' = Older(reduceTaskStatus)[t.ID]
    BY <1>3, Zenon DEF Status, Tick
  <2>2. t.ID \in ReduceIDs
    BY <1>3 DEF Tasks, MapTask, ReduceTask
  <2>. QED BY <1>1, <2>1, <2>2 DEF CoordTypeOK
<1>. QED BY <1>2, <1>3, Zenon

----------------------------------------------------------------------------
(***************************************************************************)
(* Exclusive execution.  The strengthening is the deadline: a task that a    *)
(* live worker executes is never older than the timeout, so the sweep does   *)
(* not take it, so it is not handed out again.                               *)
(***************************************************************************)
Held(w) == pc[w] \in Executing

InDeadline(w) ==
  /\ Status(task[w]).Assigned
  /\ ~Status(task[w]).Completed
  /\ Status(task[w]).age <= Timeout

DeadlineInv ==
  \A w \in Workers : Held(w) =>
    /\ InDeadline(w)
    /\ \A v \in Workers : Held(v) /\ task[v] = task[w] => v = w

\* A worker that executes holds a task.
LEMMA HeldTask == ASSUME TypeOK, NEW w \in Workers, Held(w) PROVE task[w] \in Tasks
  BY TaskIDs, Zenon DEF TypeOK, WorkerOK, Held, Executing

\* A step that leaves the coordinator and the tasks of the workers alone, or
\* frees a worker, keeps the invariant.
LEMMA DeadlineFrame ==
  ASSUME DeadlineInv, TypeOK,
         \A w \in Workers : Held(w)' => Held(w) /\ task'[w] = task[w],
         \A w \in Workers : Held(w)' => Status(task[w])' = Status(task[w])
  PROVE  DeadlineInv'
<1>. SUFFICES ASSUME NEW w \in Workers, Held(w)'
     PROVE  /\ InDeadline(w)'
            /\ \A v \in Workers : Held(v)' /\ task'[v] = task'[w] => v = w
  BY Zenon DEF DeadlineInv
<1>1. Held(w) /\ task'[w] = task[w] /\ Status(task[w])' = Status(task[w])
  BY Zenon
<1>2. InDeadline(w)'
  BY <1>1, Zenon DEF DeadlineInv, InDeadline
<1>. QED BY <1>1, <1>2, Zenon DEF DeadlineInv

\* The same task has the same status after a step that leaves the coordinator alone.
LEMMA StatusKept == ASSUME UNCHANGED coordVars PROVE \A t : Status(t)' = Status(t)
  BY Zenon DEF coordVars, Status

\* Every step with prompt workers keeps the deadline invariant.
LEMMA DeadlineStep == TypeOK /\ DeadlineInv /\ [PromptNext]_vars => DeadlineInv'
<1>. SUFFICES ASSUME TypeOK, DeadlineInv, [PromptNext]_vars PROVE DeadlineInv'
  BY Zenon
<1>0. CoordTypeOK /\ WorkerTypeOK
  BY TypeOKByPart, Zenon DEF Parts
<1>1. ASSUME NEW w \in Workers, NEW reply \in Replies, pc[w] = "request", AssignTask(reply),
             Goto(w, Dispatch(reply)), task' = [task EXCEPT ![w] = reply]
      PROVE  DeadlineInv'
  <2>1. /\ \A v \in Workers \ {w} : (Held(v)' <=> Held(v)) /\ task'[v] = task[v]
        /\ task'[w] = reply
    BY <1>0, <1>1, Zenon DEF Goto, Held, WorkerTypeOK
  <2>2. \A v \in Workers \ {w} : Held(v) => task[v] # reply
    BY <1>0, <1>1, AssignEffect, HeldTask, Zenon DEF DeadlineInv, InDeadline
  <2>3. Held(w)' => reply \in Tasks
    BY <1>0, <1>1 DEF Held, Goto, Dispatch, Executing, Replies, ExitReply, WaitReply, WorkerTypeOK
  <2>4. ASSUME NEW v \in Workers, Held(v)' PROVE InDeadline(v)'
    <3>1. CASE v = w
      BY CoordinatorAssumption, <1>0, <1>1, <2>1, <2>3, <2>4, <3>1, AssignEffect DEF InDeadline
    <3>2. CASE v # w
      <4>1. Held(v) /\ task'[v] = task[v] /\ task[v] \in Tasks /\ task[v] # reply
        BY <2>1, <2>2, <2>4, <3>2, HeldTask, Zenon
      <4>2. PICK t \in Tasks : t = task[v]
        BY <4>1, Zenon
      <4>3. Status(t)' = Status(t)
        BY <1>0, <1>1, <4>1, <4>2, AssignEffect, Zenon
      <4>. QED BY <4>1, <4>2, <4>3, Zenon DEF DeadlineInv, InDeadline
    <3>. QED BY <3>1, <3>2, Zenon
  <2>5. ASSUME NEW u \in Workers, NEW v \in Workers, Held(u)', Held(v)', task'[u] = task'[v]
        PROVE  u = v
    BY <2>1, <2>2, <2>5, Zenon DEF DeadlineInv
  <2>. QED BY <2>4, <2>5, Zenon DEF DeadlineInv
<1>2. ASSUME NEW w \in Workers, pc[w] = "report", ReportTaskDone(task[w]), Goto(w, "request"), Forget(w)
      PROVE  DeadlineInv'
  <2>1. Held(w) /\ ~Held(w)' /\ \A v \in Workers \ {w} : (Held(v)' <=> Held(v)) /\ task'[v] = task[v]
    BY <1>0, <1>2, Zenon DEF Goto, Forget, Held, Executing, WorkerTypeOK
  <2>2. PICK u \in Tasks : u = task[w]
    BY <2>1, HeldTask, Zenon
  <2>3. \A t \in Tasks \ {u} : Status(t)' = Status(t)
    BY <1>0, <1>2, <2>2, ReportEffect, Zenon
  <2>4. ASSUME NEW v \in Workers, Held(v)' PROVE Status(task[v])' = Status(task[v])
    <3>1. v # w /\ Held(v) /\ task'[v] = task[v] /\ task[v] # u
      BY <2>1, <2>2, <2>4, Zenon DEF DeadlineInv
    <3>2. PICK t \in Tasks : t = task[v]
      BY <3>1, HeldTask, Zenon
    <3>. QED BY <2>3, <3>1, <3>2, Zenon
  <2>. QED BY <2>1, <2>4, DeadlineFrame, Zenon
<1>3. ASSUME UNCHANGED coordVars, \A v \in Workers : Held(v)' => Held(v) /\ task'[v] = task[v]
      PROVE  DeadlineInv'
  <2>1. \A v \in Workers : Held(v)' => Status(task[v])' = Status(task[v])
    BY <1>3, StatusKept, Zenon
  <2>. QED BY <1>3, <2>1, DeadlineFrame, Zenon
<1>4. ASSUME NEW w \in Workers, WorkerStep(w) \/ Crash(w) \/ Restart(w) PROVE DeadlineInv'
  <2>1. CASE RequestTask(w)
    <3>1. ASSUME ~serving, Die(w), UNCHANGED coordVars PROVE DeadlineInv'
      <4>1. \A v \in Workers : Held(v)' => Held(v) /\ task'[v] = task[v]
        BY <1>0, <3>1, Zenon DEF Die, Goto, Forget, Held, Executing, WorkerTypeOK
      <4>. QED BY <1>3, <3>1, <4>1, Zenon
    <3>. QED BY <1>1, <2>1, <3>1, Zenon DEF RequestTask
  <2>2. CASE NotifyTaskDone(w)
    <3>1. ASSUME ~serving, Die(w), UNCHANGED coordVars PROVE DeadlineInv'
      <4>1. \A v \in Workers : Held(v)' => Held(v) /\ task'[v] = task[v]
        BY <1>0, <3>1, Zenon DEF Die, Goto, Forget, Held, Executing, WorkerTypeOK
      <4>. QED BY <1>3, <3>1, <4>1, Zenon
    <3>. QED BY <1>2, <2>2, <3>1, Zenon DEF NotifyTaskDone
  <2>3. CASE ~RequestTask(w) /\ ~NotifyTaskDone(w)
    <3>1. UNCHANGED coordVars
      BY <1>4, <2>3, ZenonT(60) DEF WorkerStep, Crash, Restart, WakeUp, CreateIntermediate,
         EncodePair, CloseIntermediates, OpenIntermediate, DecodePair, CloseIntermediate,
         CreateOutput, PrintLine, EndOutput
    <3>2. \A v \in Workers : Held(v)' => Held(v) /\ task'[v] = task[v]
      BY <1>0, <1>4, <2>3, ZenonT(60) DEF WorkerStep, Crash, Restart, WakeUp, CreateIntermediate,
         EncodePair, CloseIntermediates, OpenIntermediate, DecodePair, CloseIntermediate,
         CreateOutput, PrintLine, EndOutput, Die, Goto, Forget, Held, Executing, WorkerTypeOK
    <3>. QED BY <1>3, <3>1, <3>2, Zenon
  <2>. QED BY <2>1, <2>2, <2>3, Zenon
<1>5. ASSUME checkTaskTimeouts, UNCHANGED workerVars PROVE DeadlineInv'
  <2>1. ASSUME NEW v \in Workers, Held(v)' PROVE Held(v) /\ task'[v] = task[v]
    BY <1>5, <2>1, Zenon DEF workerVars, Held
  <2>2. ASSUME NEW v \in Workers, Held(v)' PROVE Status(task[v])' = Status(task[v])
    <3>1. PICK t \in Tasks : t = task[v]
      BY <2>1, <2>2, HeldTask, Zenon
    <3>2. Status(t) \in TaskStatus
      BY <1>0 DEF CoordTypeOK, Status, Tasks, MapTask, ReduceTask
    <3>3. ~Expired(Status(t))
      BY CoordinatorAssumption, <2>1, <2>2, <3>1, <3>2 DEF DeadlineInv, InDeadline, Expired, TaskStatus
    <3>. QED BY <1>0, <1>5, <2>1, <2>2, <3>1, <3>3, SweepEffect, Zenon
  <2>. QED BY <2>1, <2>2, DeadlineFrame, Zenon
<1>6. ASSUME Tick, InTime, UNCHANGED workerVars PROVE DeadlineInv'
  <2>1. ASSUME NEW v \in Workers, Held(v)' PROVE Held(v) /\ task'[v] = task[v]
    BY <1>6, <2>1, Zenon DEF workerVars, Held
  <2>2. ASSUME NEW v \in Workers, Held(v)' PROVE InDeadline(v)'
    <3>1. PICK t \in Tasks : t = task[v]
      BY <2>1, <2>2, HeldTask, Zenon
    <3>2. Status(t).age < Timeout /\ Status(t).Assigned /\ ~Status(t).Completed
      BY <1>6, <2>1, <2>2, <3>1, Zenon DEF InTime, Held, DeadlineInv, InDeadline
    <3>. QED BY <1>0, <1>6, <2>1, <2>2, <3>1, <3>2, TickEffect, Zenon DEF InDeadline
  <2>. QED BY <2>1, <2>2, Zenon DEF DeadlineInv
<1>7. ASSUME Done \/ Exit \/ UNCHANGED vars, UNCHANGED workerVars PROVE DeadlineInv'
  <2>1. ASSUME NEW v \in Workers, Held(v)'
        PROVE  Held(v) /\ task'[v] = task[v] /\ Status(task[v])' = Status(task[v])
    BY <1>7, <2>1, Zenon DEF workerVars, Held, Done, Exit, vars, coordVars, Status
  <2>. QED BY <2>1, DeadlineFrame, Zenon
<1>. QED BY <1>4, <1>5, <1>6, <1>7, Zenon
     DEF PromptNext, Steps, CoordinatorStep, TimePasses, Terminating, vars

\* With prompt workers no two live workers execute the same task, and nobody
\* executes a task that is complete: the handlers, the sweep and ten seconds
\* are enough for that, for every instance.
THEOREM Exclusive == PromptSpec => []ExclusiveExecution
<1>1. Init => DeadlineInv
  BY Zenon DEF Init, DeadlineInv, Held, Executing
<1>2. DeadlineInv => ExclusiveExecution
  BY Zenon DEF DeadlineInv, InDeadline, Held, ExclusiveExecution
<1>. QED BY <1>1, <1>2, DeadlineStep, PromptIsSpec, TypeCorrect, PTL DEF PromptSpec

----------------------------------------------------------------------------
(***************************************************************************)
(* The output is final when a process exits: exiting means that every task  *)
(* is complete, and then, by exclusive execution, nobody writes.             *)
(***************************************************************************)
AllDone == allMapTasksDone /\ allReduceTasksDone

EndInv ==
  /\ SomeExited => AllDone
  /\ completed => AllDone
  /\ ~serving => completed

\* Nothing completed is undone.
LEMMA AllDoneKept == TypeOK /\ [Next]_vars /\ AllDone => AllDone'
<1>. SUFFICES ASSUME TypeOK, [Next]_vars, AllDone PROVE AllDone'
  BY Zenon
<1>0. CoordTypeOK /\ WorkerTypeOK
  BY TypeOKByPart, Zenon DEF Parts
<1>1. \/ \E reply \in Replies : AssignTask(reply)
      \/ checkTaskTimeouts \/ Tick \/ Done \/ Exit \/ UNCHANGED coordVars
      \/ \E w \in Workers : ReportTaskDone(task[w])
  BY ZenonT(60) DEF Next, Steps, WorkerStep, Crash, Restart, RequestTask, WakeUp, CreateIntermediate,
     EncodePair, CloseIntermediates, OpenIntermediate, DecodePair, CloseIntermediate,
     CreateOutput, PrintLine, EndOutput, NotifyTaskDone, CoordinatorStep, TimePasses,
     Terminating, vars
<1>2. ASSUME NEW w \in Workers, ReportTaskDone(task[w]) PROVE AllDone'
  <2>1. task[w] \in Replies
    BY <1>0, Zenon DEF WorkerTypeOK
  <2>. QED BY <1>0, <1>2, <2>1, ReportCompletes, Zenon DEF AllDone, allMapTasksDone, allReduceTasksDone
<1>3. CASE ~\E w \in Workers : ReportTaskDone(task[w])
  BY <1>0, <1>1, <1>3, CompletedKept, Zenon DEF AllDone, allMapTasksDone, allReduceTasksDone
<1>. QED BY <1>2, <1>3, Zenon

\* Every step keeps the invariant about the end of the job.
LEMMA EndStep == TypeOK /\ EndInv /\ [Next]_vars => EndInv'
<1>. SUFFICES ASSUME TypeOK, EndInv, [Next]_vars PROVE EndInv'
  BY Zenon
<1>0. CoordTypeOK /\ WorkerTypeOK
  BY TypeOKByPart, Zenon DEF Parts
<1>3. \/ UNCHANGED <<completed, serving>>
      \/ Done \/ Exit
  BY ZenonT(60) DEF Next, Steps, WorkerStep, Crash, Restart, RequestTask, WakeUp, CreateIntermediate,
     EncodePair, CloseIntermediates, OpenIntermediate, DecodePair, CloseIntermediate,
     CreateOutput, PrintLine, EndOutput, NotifyTaskDone, CoordinatorStep, TimePasses,
     Terminating, vars, coordVars, AssignTask, ReportTaskDone, checkTaskTimeouts, Tick
<1>1. CASE AllDone
  <2>1. AllDone'
    BY <1>1, AllDoneKept, Zenon
  <2>3. ~serving' => completed'
    BY <1>3, Zenon DEF EndInv, Done, Exit
  <2>. QED BY <2>1, <2>3, Zenon DEF EndInv
<1>2. CASE ~AllDone
  <2>1. serving /\ ~completed /\ \A w \in Workers : pc[w] # "exited"
    BY <1>2, Zenon DEF EndInv, SomeExited
  <2>2. ASSUME NEW w \in Workers, pc'[w] = "exited" PROVE FALSE
    <3>1. RequestTask(w)
      <4>1. ASSUME NEW v \in Workers, WorkerStep(v) \/ Crash(v) \/ Restart(v), v # w
            PROVE  FALSE
        <5>1. pc'[w] = pc[w]
          BY <1>0, <4>1, Zenon DEF WorkerStep, Crash, Restart, RequestTask, WakeUp, CreateIntermediate,
             EncodePair, CloseIntermediates, OpenIntermediate, DecodePair, CloseIntermediate,
             CreateOutput, PrintLine, EndOutput, NotifyTaskDone, Goto, Die, WorkerTypeOK
        <5>. QED BY <2>1, <2>2, <5>1, Zenon
      <4>2. CASE CoordinatorStep \/ TimePasses \/ UNCHANGED vars
        BY <2>1, <2>2, <4>2, Zenon DEF CoordinatorStep, TimePasses, vars, workerVars
      <4>3. CASE WorkerStep(w) \/ Crash(w) \/ Restart(w)
        BY <1>0, <2>1, <2>2, <4>3, Zenon DEF WorkerStep, Crash, Restart, WakeUp, CreateIntermediate,
           EncodePair, CloseIntermediates, OpenIntermediate, DecodePair, CloseIntermediate,
           CreateOutput, PrintLine, EndOutput, NotifyTaskDone, Goto, Die, WorkerTypeOK
      <4>. QED BY <4>1, <4>2, <4>3, Zenon DEF Next, Steps, Terminating
    <3>2. PICK reply \in Replies : AssignTask(reply) /\ Goto(w, Dispatch(reply))
      BY <2>1, <3>1, Zenon DEF RequestTask
    <3>3. Dispatch(reply) = "exited"
      BY <1>0, <2>2, <3>2, Zenon DEF Goto, WorkerTypeOK
    <3>4. reply = ExitReply
      BY <3>3 DEF Dispatch, Replies, Tasks, MapTask, ReduceTask, WaitReply
    <3>. QED BY <1>2, <3>2, <3>4, Zenon DEF AssignTask, AssignMapTask, AssignReduceTask,
         MapTask, ReduceTask, ExitReply, WaitReply, AllDone
  <2>3. serving' /\ ~completed'
    <3>1. ~Done /\ ~Exit
      BY <1>2, <2>1, Zenon DEF Done, Exit, AllDone
    <3>2. serving' = serving /\ completed' = completed
      BY <1>3, <3>1, Zenon
    <3>. QED BY <2>1, <3>2, Zenon
  <2>. QED BY <2>2, <2>3, Zenon DEF EndInv, SomeExited
<1>. QED BY <1>1, <1>2, Zenon

\* A worker that executes a reduce task finds that the job is not over.
LEMMA ReduceRunning ==
  ASSUME TypeOK, DeadlineInv, NEW w \in Workers, pc[w] \in {"output", "print"}
  PROVE  ~AllDone
<1>1. task[w].TaskType = "reduce" /\ task[w].ID \in ReduceIDs /\ Held(w)
  BY TaskIDs, Zenon DEF TypeOK, WorkerOK, Held, Executing
<1>2. ~reduceTaskStatus[task[w].ID].Completed
  BY <1>1, Zenon DEF DeadlineInv, InDeadline, Status
<1>. QED BY <1>1, <1>2, Zenon DEF AllDone, allReduceTasksDone

\* With prompt workers no output file changes after a worker was told to exit or
\* the coordinator has exited (the early exit test of main/test-mr.sh).
THEOREM OutputIsFinal == PromptSpec => OutputFinal
<1>1. Init => DeadlineInv /\ EndInv
  BY Zenon DEF Init, MakeCoordinator, DeadlineInv, Held, Executing, EndInv, SomeExited
<1>2. TypeOK /\ DeadlineInv /\ EndInv /\ [PromptNext]_vars => (SomeExited => out' = out)
  <2>. SUFFICES ASSUME TypeOK, DeadlineInv, EndInv, [PromptNext]_vars, SomeExited
                PROVE  out' = out
    BY Zenon
  <2>1. ASSUME NEW w \in Workers PROVE ~CreateOutput(w) /\ ~PrintLine(w)
    BY ReduceRunning, Zenon DEF EndInv, CreateOutput, PrintLine
  <2>. QED BY <2>1, ZenonT(60) DEF PromptNext, Steps, WorkerStep, Crash, Restart, RequestTask, WakeUp,
       CreateIntermediate, EncodePair, CloseIntermediates, OpenIntermediate, DecodePair,
       CloseIntermediate, EndOutput, NotifyTaskDone, CoordinatorStep,
       TimePasses, Terminating, vars, fileVars
<1>3. [PromptNext]_vars => [Next]_vars
  BY Zenon DEF PromptNext, Next
<1>. QED BY <1>1, <1>2, <1>3, DeadlineStep, EndStep, PromptIsSpec, TypeCorrect, PTL
     DEF PromptSpec, OutputFinal

----------------------------------------------------------------------------
(***************************************************************************)
(* Completed map tasks have complete files.  While a worker executes a map  *)
(* task, the task's files hold exactly what that worker has written since it *)
(* created them; by exclusive execution nobody else touches them, then or   *)
(* after the report.                                                        *)
(***************************************************************************)

Written(m, n) == \A r \in ReduceIDs : inter[m][r] = {j \in Records(m, r) : j <= n}
AllWritten(m) == \A r \in ReduceIDs : inter[m][r] = Records(m, r)

MapContent(w) ==
  /\ pc[w] = "create" =>
       /\ pos[w] = 0
       /\ \A r \in ReduceIDs : r < idx[w] => inter[task[w].ID][r] = {}
  /\ pc[w] = "emit" => Written(task[w].ID, pos[w])
  /\ pc[w] = "report" /\ task[w].TaskType = "map" => AllWritten(task[w].ID)

ContentInv ==
  /\ \A m \in MapIDs : mapTaskStatus[m].Completed => AllWritten(m)
  /\ \A w \in Workers : MapContent(w)

\* What a step needs to show: the worker that moves keeps its part, and it
\* changes only the files of a map task that it holds.
LEMMA ContentFrame ==
  ASSUME ContentInv, TypeOK, DeadlineInv, NEW w \in Workers, MapContent(w)',
         \A v \in Workers \ {w} :
           pc'[v] = pc[v] /\ task'[v] = task[v] /\ idx'[v] = idx[v] /\ pos'[v] = pos[v],
         \A m \in MapIDs : mapTaskStatus'[m].Completed => mapTaskStatus[m].Completed \/ AllWritten(m)',
         \/ inter' = inter
         \/ /\ pc[w] \in {"create", "emit"}
            /\ \A m \in MapIDs \ {task[w].ID} : inter'[m] = inter[m]
            /\ mapTaskStatus' = mapTaskStatus
  PROVE  ContentInv'
<1>1. CASE inter' = inter
  <2>1. \A m, n : (AllWritten(m)' <=> AllWritten(m)) /\ (Written(m, n)' <=> Written(m, n))
    BY <1>1, Zenon DEF AllWritten, Written
  <2>2. ASSUME NEW v \in Workers \ {w} PROVE MapContent(v)'
    <3>1. pc'[v] = pc[v] /\ task'[v] = task[v] /\ idx'[v] = idx[v] /\ pos'[v] = pos[v]
      BY Zenon
    <3>2. MapContent(v)
      BY Zenon DEF ContentInv
    <3>. QED BY <1>1, <3>1, <3>2 DEF MapContent, Written, AllWritten
  <2>. QED BY <2>1, <2>2, Zenon DEF ContentInv
<1>2. CASE /\ pc[w] \in {"create", "emit"}
           /\ \A m \in MapIDs \ {task[w].ID} : inter'[m] = inter[m]
           /\ mapTaskStatus' = mapTaskStatus
  <2>1. Held(w) /\ task[w].TaskType = "map" /\ task[w].ID \in MapIDs
    BY <1>2, TaskIDs, Zenon DEF TypeOK, WorkerOK, Held, Executing
  <2>2. ~mapTaskStatus[task[w].ID].Completed
    BY <2>1, Zenon DEF DeadlineInv, InDeadline, Status
  <2>3. ASSUME NEW m \in MapIDs, mapTaskStatus'[m].Completed PROVE AllWritten(m)'
    BY <1>2, <2>2, <2>3 DEF ContentInv, AllWritten
  <2>4. ASSUME NEW v \in Workers \ {w} PROVE MapContent(v)'
    <3>1. CASE Held(v) /\ task[v].TaskType = "map"
      <4>1. task[v].ID \in MapIDs /\ task[v].ID # task[w].ID
        <5>1. task[v] # task[w] /\ task[v] \in Tasks /\ task[w] \in Tasks
          BY <2>1, <3>1, HeldTask, Zenon DEF DeadlineInv
        <5>. QED BY <2>1, <3>1, <5>1 DEF Tasks, MapTask, ReduceTask
      <4>2. inter'[task[v].ID] = inter[task[v].ID]
        BY <1>2, <4>1, Zenon
      <4>3. pc'[v] = pc[v] /\ task'[v] = task[v] /\ idx'[v] = idx[v] /\ pos'[v] = pos[v]
        BY Zenon
      <4>4. MapContent(v)
        BY Zenon DEF ContentInv
      <4>. QED BY <4>2, <4>3, <4>4 DEF MapContent, Written, AllWritten
    <3>2. CASE ~(Held(v) /\ task[v].TaskType = "map")
      <4>1. pc[v] \notin {"create", "emit"} /\ (pc[v] = "report" => task[v].TaskType # "map")
        BY <3>2, Zenon DEF TypeOK, WorkerOK, Held, Executing
      <4>. QED BY <4>1, Zenon DEF MapContent
    <3>. QED BY <3>1, <3>2, Zenon
  <2>. QED BY <2>3, <2>4, Zenon DEF ContentInv
<1>. QED BY <1>1, <1>2, Zenon

\* Every step with prompt workers keeps the contents of the intermediate files.
LEMMA ContentStep == TypeOK /\ DeadlineInv /\ ContentInv /\ [PromptNext]_vars => ContentInv'
<1>. SUFFICES ASSUME TypeOK, DeadlineInv, ContentInv, [PromptNext]_vars PROVE ContentInv'
  BY Zenon
<1>0. CoordTypeOK /\ WorkerTypeOK /\ FileTypeOK
  BY TypeOKByPart, Zenon DEF Parts
<1>1. ASSUME NEW w \in Workers, RequestTask(w) PROVE ContentInv'
  <2>1. \A i \in MapIDs : mapTaskStatus'[i].Completed <=> mapTaskStatus[i].Completed
    BY <1>0, <1>1, CompletedKept, Zenon DEF RequestTask
  <2>2. /\ \A v \in Workers \ {w} :
             pc'[v] = pc[v] /\ task'[v] = task[v] /\ idx'[v] = idx[v] /\ pos'[v] = pos[v]
        /\ pc'[w] \in {"create", "open", "sleep", "exited", "dead"}
        /\ idx'[w] = 0 /\ pos'[w] = 0 /\ inter' = inter
    <3>1. idx[w] = 0 /\ pos[w] = 0
      BY <1>0, <1>1, Zenon DEF RequestTask, WorkerTypeOK, WorkerOK, Executing
    <3>2. \A reply \in Replies : Dispatch(reply) \in {"create", "open", "sleep", "exited"}
      BY DEF Dispatch, Replies, Tasks, MapTask, ReduceTask, WaitReply, ExitReply
    <3>. QED BY <1>0, <1>1, <3>1, <3>2, Zenon DEF RequestTask, Goto, Die, Forget, WorkerTypeOK, fileVars
  <2>3. MapContent(w)'
    BY <2>2 DEF MapContent, ReduceIDs
  <2>. QED BY <2>1, <2>2, <2>3, ContentFrame, Zenon
<1>2. ASSUME NEW w \in Workers, CreateIntermediate(w) PROVE ContentInv'
  <2>. DEFINE m == task[w].ID
              r == idx[w]
  <2>1. m \in MapIDs /\ r \in ReduceIDs /\ pos[w] = 0
        /\ \A q \in ReduceIDs : q < r => inter[m][q] = {}
    <3>1. task[w].TaskType = "map" /\ idx[w] \in ReduceIDs /\ pc[w] = "create"
      BY CoordinatorAssumption, <1>0, <1>2 DEF CreateIntermediate, WorkerTypeOK, WorkerOK, ReduceIDs
    <3>. QED BY <1>0, <3>1, TaskIDs, Zenon DEF ContentInv, MapContent, WorkerTypeOK
  <2>2. /\ inter' = [inter EXCEPT ![m][r] = {}]
        /\ pc'[w] = (IF r + 1 = NReduce THEN "emit" ELSE "create")
        /\ idx'[w] = r + 1 /\ task'[w] = task[w] /\ pos'[w] = 0
        /\ \A v \in Workers \ {w} :
             pc'[v] = pc[v] /\ task'[v] = task[v] /\ idx'[v] = idx[v] /\ pos'[v] = pos[v]
    BY <1>0, <1>2, <2>1, Zenon DEF CreateIntermediate, Goto, WorkerTypeOK
  <2>3. \A q \in ReduceIDs : q < r + 1 => inter'[m][q] = {}
    <3>1. \A q \in ReduceIDs : q < r + 1 => q < r \/ q = r
      BY <2>1 DEF ReduceIDs
    <3>. QED BY <1>0, <2>1, <2>2, <3>1, Zenon DEF FileTypeOK
  <2>4. r + 1 = NReduce => \A q \in ReduceIDs : inter'[m][q] = {}
    BY CoordinatorAssumption, <2>3 DEF ReduceIDs
  <2>5. \A q \in ReduceIDs : {j \in Records(m, q) : j <= 0} = {}
    <3>1. \A j \in DOMAIN mapf[m] : j > 0
      <4>1. mapf[m] \in Seq(Keys)
        BY MapReduceAssumption, <2>1, Zenon
      <4>. QED BY <4>1
    <3>2. \A q \in ReduceIDs : \A j \in Records(m, q) : ~(j <= 0)
      BY MapReduceAssumption, <2>1, <3>1, PairTypes DEF Records
    <3>. QED BY <3>2, Zenon
  <2>6. MapContent(w)'
    BY <2>2, <2>3, <2>4, <2>5, Zenon DEF MapContent, Written
  <2>7. \A k \in MapIDs \ {m} : inter'[k] = inter[k]
    BY <1>0, <2>2, Zenon DEF FileTypeOK
  <2>8. pc[w] = "create" /\ mapTaskStatus' = mapTaskStatus
    BY <1>2, Zenon DEF CreateIntermediate, coordVars
  <2>. QED BY <2>2, <2>6, <2>7, <2>8, ContentFrame, Zenon
<1>3. ASSUME NEW w \in Workers, EncodePair(w) PROVE ContentInv'
  <2>. DEFINE m == task[w].ID
              j == pos[w] + 1
              b == Bucket(mapf[m][j])
  <2>1. /\ m \in MapIDs /\ j \in DOMAIN mapf[m] /\ pc[w] = "emit"
        /\ Written(m, pos[w]) /\ pos[w] \in Nat
    BY <1>0, <1>3, TaskIDs, Zenon DEF EncodePair, WorkerTypeOK, WorkerOK, ContentInv, MapContent
  <2>2. b \in ReduceIDs /\ j \in Records(m, b) /\ \A q \in ReduceIDs \ {b} : j \notin Records(m, q)
    BY <2>1, BucketInRange, PairTypes, ZenonT(40) DEF Records
  <2>3. /\ inter' = [inter EXCEPT ![m][b] = @ \cup {j}]
        /\ pc' = pc /\ task' = task /\ idx' = idx
        /\ pos' = [pos EXCEPT ![w] = j] /\ mapTaskStatus' = mapTaskStatus
    BY <1>3, Zenon DEF EncodePair, coordVars
  <2>4. ASSUME NEW q \in ReduceIDs
        PROVE  inter'[m][q] = {k \in Records(m, q) : k <= j}
    <3>1. \A k \in Records(m, q) : k \in Nat
      BY <2>1, PairTypes, Zenon DEF Records
    <3>2. \A k \in Records(m, q) : k <= j <=> (k <= pos[w] \/ k = j)
      BY <2>1, <3>1
    <3>3. inter[m][q] = {k \in Records(m, q) : k <= pos[w]}
      BY <2>1, Zenon DEF Written
    <3>4. CASE q = b
      <4>1. inter'[m][q] = inter[m][q] \cup {j}
        BY <1>0, <2>1, <2>2, <2>3, <3>4, ZenonT(60) DEF FileTypeOK
      <4>. QED BY <2>2, <3>2, <3>3, <3>4, <4>1, ZenonT(40)
    <3>5. CASE q # b
      <4>1. inter'[m][q] = inter[m][q]
        BY <1>0, <2>1, <2>2, <2>3, <3>5, ZenonT(60) DEF FileTypeOK
      <4>2. j \notin Records(m, q)
        BY <2>2, <3>5, Zenon
      <4>. QED BY <3>2, <3>3, <4>1, <4>2, Zenon
    <3>. QED BY <3>4, <3>5, Zenon
  <2>5. pos'[w] = j
    BY <1>0, <2>3, Zenon DEF WorkerTypeOK
  <2>6. MapContent(w)'
    <3>1. Written(m, pos[w])'
      BY <2>3, <2>4, <2>5, ZenonT(60) DEF Written
    <3>2. pc'[w] = "emit"
      BY <2>1, <2>3, Zenon
    <3>. QED BY <2>3, <3>1, <3>2, ZenonT(40) DEF MapContent
  <2>7. \A k \in MapIDs \ {m} : inter'[k] = inter[k]
    BY <1>0, <2>3, Zenon DEF FileTypeOK
  <2>8. \A v \in Workers \ {w} : pos'[v] = pos[v]
    BY <1>0, <2>3, Zenon DEF WorkerTypeOK
  <2>. QED BY <2>1, <2>3, <2>6, <2>7, <2>8, ContentFrame, ZenonT(60)
<1>4. ASSUME NEW w \in Workers, CloseIntermediates(w) PROVE ContentInv'
  <2>1. /\ task[w].ID \in MapIDs /\ Written(task[w].ID, pos[w])
        /\ pos[w] = Len(mapf[task[w].ID])
    BY <1>0, <1>4, TaskIDs, Zenon DEF CloseIntermediates, WorkerTypeOK, WorkerOK, ContentInv, MapContent
  <2>2. \A j \in DOMAIN mapf[task[w].ID] : j <= pos[w]
    <3>1. mapf[task[w].ID] \in Seq(Keys)
      BY MapReduceAssumption, <2>1, Zenon
    <3>. QED BY <2>1, <3>1
  <2>3. AllWritten(task[w].ID)
    BY <2>1, <2>2, Zenon DEF AllWritten, Written, Records
  <2>4. /\ inter' = inter /\ task' = task /\ pc'[w] = "report"
        /\ \A v \in Workers \ {w} : pc'[v] = pc[v]
        /\ UNCHANGED <<idx, pos, mapTaskStatus>>
    BY <1>0, <1>4, Zenon DEF CloseIntermediates, Goto, WorkerTypeOK, fileVars, coordVars
  <2>5. MapContent(w)'
    BY <2>3, <2>4, Zenon DEF MapContent, AllWritten
  <2>. QED BY <2>4, <2>5, ContentFrame, Zenon
<1>5. ASSUME NEW w \in Workers,
             \/ OpenIntermediate(w) \/ DecodePair(w) \/ CloseIntermediate(w)
             \/ CreateOutput(w) \/ PrintLine(w) \/ EndOutput(w)
             \/ WakeUp(w) \/ Crash(w) \/ Restart(w)
      PROVE  ContentInv'
  <2>1. /\ inter' = inter /\ mapTaskStatus' = mapTaskStatus
        /\ \A v \in Workers \ {w} :
             pc'[v] = pc[v] /\ task'[v] = task[v] /\ idx'[v] = idx[v] /\ pos'[v] = pos[v]
    BY <1>0, <1>5, Zenon DEF OpenIntermediate, DecodePair, CloseIntermediate, CreateOutput,
       PrintLine, EndOutput, WakeUp, Crash, Restart, Goto, Die, Forget, WorkerTypeOK,
       fileVars, coordVars
  <2>2. /\ pc'[w] \notin {"create", "emit"}
        /\ pc'[w] = "report" => task'[w].TaskType = "reduce"
    BY <1>0, <1>5, Zenon DEF OpenIntermediate, DecodePair, CloseIntermediate, CreateOutput,
       PrintLine, EndOutput, WakeUp, Crash, Restart, Goto, Die, Forget, WorkerTypeOK, WorkerOK
  <2>3. MapContent(w)'
    BY <2>2, Zenon DEF MapContent
  <2>. QED BY <2>1, <2>3, ContentFrame, Zenon
<1>6. ASSUME NEW w \in Workers, NotifyTaskDone(w) PROVE ContentInv'
  <2>1. /\ inter' = inter /\ pc'[w] \in {"request", "dead"}
        /\ \A v \in Workers \ {w} :
             pc'[v] = pc[v] /\ task'[v] = task[v] /\ idx'[v] = idx[v] /\ pos'[v] = pos[v]
    BY <1>0, <1>6, Zenon DEF NotifyTaskDone, Goto, Die, Forget, WorkerTypeOK, fileVars
  <2>2. MapContent(w)'
    BY <2>1, Zenon DEF MapContent
  <2>3. CASE UNCHANGED coordVars
    BY <2>1, <2>2, <2>3, ContentFrame, Zenon DEF coordVars
  <2>4. CASE ReportTaskDone(task[w])
    <3>1. task[w] \in Replies /\ (task[w].TaskType = "map" => AllWritten(task[w].ID))
      BY <1>0, <1>6, Zenon DEF NotifyTaskDone, WorkerTypeOK, ContentInv, MapContent
    <3>2. ASSUME NEW m \in MapIDs, mapTaskStatus'[m].Completed
          PROVE  mapTaskStatus[m].Completed \/ AllWritten(m)'
      <4>1. AllWritten(m)' <=> AllWritten(m)
        BY <2>1, Zenon DEF AllWritten
      <4>. QED BY <1>0, <2>4, <3>1, <3>2, <4>1, ReportCompletes, Zenon
    <3>. QED BY <2>1, <2>2, <3>2, ContentFrame, Zenon
  <2>. QED BY <1>6, <2>3, <2>4, Zenon DEF NotifyTaskDone
<1>7. CASE CoordinatorStep \/ TimePasses \/ UNCHANGED vars
  <2>1. \A i \in MapIDs : mapTaskStatus'[i].Completed <=> mapTaskStatus[i].Completed
    BY <1>0, <1>7, CompletedKept, Zenon DEF CoordinatorStep, TimePasses, vars
  <2>2. UNCHANGED <<workerVars, inter>>
    BY <1>7, Zenon DEF CoordinatorStep, TimePasses, vars, fileVars
  <2>3. ASSUME NEW w \in Workers PROVE MapContent(w)'
    <3>1. PICK m, n : m = task[w].ID /\ n = pos[w]
      BY Zenon
    <3>2. MapContent(w)
      BY Zenon DEF ContentInv
    <3>3. /\ Written(m, n) => Written(m, n)'
          /\ AllWritten(m) => AllWritten(m)'
      BY <2>2, Zenon DEF Written, AllWritten
    <3>. QED BY <2>2, <3>1, <3>2, <3>3, Zenon DEF MapContent, Written, AllWritten, workerVars
  <2>. QED BY <2>1, <2>2, <2>3, Zenon DEF ContentInv, AllWritten
<1>. QED BY <1>1, <1>2, <1>3, <1>4, <1>5, <1>6, <1>7, Zenon
     DEF PromptNext, Steps, WorkerStep, Terminating

\* With prompt workers, what a completed map task left on disk is exactly what
\* its map function emitted, in every bucket, whatever crashed before.
THEOREM CompleteIntermediates == PromptSpec => []IntermediatesComplete
<1>1. Init => DeadlineInv /\ ContentInv
  BY DEF Init, MakeCoordinator, FreshStatus, DeadlineInv, Held, Executing, ContentInv, MapContent
<1>2. ContentInv => IntermediatesComplete
  BY Zenon DEF ContentInv, AllWritten, IntermediatesComplete
<1>. QED BY <1>1, <1>2, DeadlineStep, ContentStep, PromptIsSpec, TypeCorrect, PTL DEF PromptSpec

----------------------------------------------------------------------------
(***************************************************************************)
(* The output.  A reduce worker has read a prefix of its input, then all of  *)
(* it; while it prints, the lines on disk are correct and distinct and what  *)
(* it still holds are the pairs of the keys it has not printed.              *)
(***************************************************************************)

BucketPairs(r) == {p \in Pairs : Bucket(KeyOf(p)) = r}

\* The pairs of bucket r in the first n files, and up to record k of the next.
Prefix(r, n, k) ==
  {p \in BucketPairs(r) : p[1] < n \/ (p[1] = n /\ p[2] <= k)}

Printed(r, n) ==
  /\ DOMAIN out[r] = 1 .. n
  /\ \A i \in 1 .. n : out[r][i] \in SequentialLines(r)
  /\ \A i, j \in 1 .. n : out[r][i].key = out[r][j].key => i = j

ToPrint(r, n) == {p \in BucketPairs(r) : \A i \in 1 .. n : out[r][i].key # KeyOf(p)}

ReduceContent(w) ==
  LET r == task[w].ID
  IN /\ pc[w] = "open" => got[w] = Prefix(r, idx[w], 0)
     /\ pc[w] = "read" => got[w] = Prefix(r, idx[w], pos[w])
     /\ pc[w] = "output" => got[w] = BucketPairs(r)
     /\ pc[w] = "print" => Printed(r, pos[w]) /\ got[w] = ToPrint(r, pos[w])
     /\ pc[w] = "report" /\ task[w].TaskType = "reduce" => MatchesSequential(r)

OutputInv ==
  /\ \A r \in ReduceIDs : reduceTaskStatus[r].Completed => MatchesSequential(r)
  /\ \A w \in Workers : ReduceContent(w)

\* Every set of natural numbers that is not empty has a least element.
LEMMA LeastElement ==
  ASSUME NEW S \in SUBSET Nat, S # {} PROVE \E i \in S : First(i, S)
<1>1. PICK i \in S : \A j \in S : ~(<<j, i>> \in OpToRel(<, Nat))
  BY WFMin, NatLessThanWellFounded, Zenon
<1>2. \A j \in S : ~(j < i)
  BY <1>1, Zenon DEF OpToRel
<1>. QED BY <1>2 DEF First

\* A pair of bucket r is a record of the file of its map task.
LEMMA PairIsRecord ==
  \A r \in ReduceIDs : \A p \in BucketPairs(r) :
    /\ p = <<p[1], p[2]>> /\ p[1] \in MapIDs /\ p[2] \in Records(p[1], r) /\ p[2] \in Nat /\ p[2] > 0
<1>. SUFFICES ASSUME NEW r \in ReduceIDs, NEW p \in BucketPairs(r)
     PROVE /\ p = <<p[1], p[2]>> /\ p[1] \in MapIDs /\ p[2] \in Records(p[1], r)
           /\ p[2] \in Nat /\ p[2] > 0
  BY Zenon
<1>1. PICK m \in MapIDs : p \in {m} \X DOMAIN mapf[m]
  BY Zenon DEF BucketPairs, Pairs
<1>2. PICK j \in DOMAIN mapf[m] : p = <<m, j>>
  BY <1>1
<1>3. j \in Nat /\ j > 0
  <2>1. mapf[m] \in Seq(Keys)
    BY MapReduceAssumption, Zenon
  <2>. QED BY <2>1
<1>4. Bucket(mapf[m][j]) = r
  BY <1>2, Zenon DEF BucketPairs, KeyOf
<1>. QED BY <1>2, <1>3, <1>4, Zenon DEF Records

\* Conversely.
LEMMA RecordIsPair ==
  \A m \in MapIDs, r \in ReduceIDs : \A j \in Records(m, r) : <<m, j>> \in BucketPairs(r) /\ j \in Nat
  BY PairTypes, Zenon DEF BucketPairs, Records, KeyOf

\* A file that holds no line twice and every sequential line is the sequential
\* output of its bucket.
LEMMA AllPrinted ==
  ASSUME NEW r \in ReduceIDs, NEW n \in Nat, Printed(r, n), ToPrint(r, n) = {}
  PROVE  MatchesSequential(r)
<1>. DEFINE f == [i \in 1 .. n |-> out[r][i]]
<1>1. f \in [1 .. n -> SequentialLines(r)]
  BY Zenon DEF Printed
<1>2. \A i, j \in 1 .. n : f[i] = f[j] => i = j
  BY Zenon DEF Printed
<1>3. \A l \in SequentialLines(r) : \E i \in 1 .. n : f[i] = l
  <2>. SUFFICES ASSUME NEW l \in SequentialLines(r) PROVE \E i \in 1 .. n : out[r][i] = l
    BY Zenon
  <2>1. PICK p \in BucketPairs(r) : l = [key |-> KeyOf(p), values |-> {q \in Pairs : KeyOf(q) = KeyOf(p)}]
    BY Zenon DEF SequentialLines, BucketPairs
  <2>2. PICK i \in 1 .. n : out[r][i].key = KeyOf(p)
    BY <2>1, Zenon DEF ToPrint
  <2>3. PICK k : out[r][i] = [key |-> k, values |-> {q \in Pairs : KeyOf(q) = k}]
    <3>1. out[r][i] \in SequentialLines(r)
      BY Zenon DEF Printed
    <3>. QED BY <3>1, Zenon DEF SequentialLines
  <2>4. k = KeyOf(p)
    BY <2>2, <2>3
  <2>. QED BY <2>1, <2>3, <2>4, Zenon
<1>4. f \in Bijection(1 .. n, SequentialLines(r))
  BY <1>1, <1>2, <1>3, Zenon DEF Bijection, Injection, IsInjective, Surjection
<1>5. Cardinality(SequentialLines(r)) = n
  BY <1>4, FS_CountingElements, Zenon DEF ExistsBijection
<1>6. {out[r][i] : i \in 1 .. n} = SequentialLines(r)
  BY <1>1, <1>3, Zenon
<1>. QED BY <1>5, <1>6, Zenon DEF MatchesSequential, Printed

\* The part of a worker that does not move is kept if its output file is.
LEMMA ReduceFrame ==
  ASSUME NEW v \in Workers, ReduceContent(v),
         pc'[v] = pc[v], task'[v] = task[v], idx'[v] = idx[v], pos'[v] = pos[v], got'[v] = got[v],
         out'[task[v].ID] = out[task[v].ID]
  PROVE  ReduceContent(v)'
<1>1. PICK r, n : r = task[v].ID /\ n = pos[v]
  BY Zenon
<1>2. out'[r] = out[r] /\ task'[v].ID = r /\ pos'[v] = n
  BY <1>1, Zenon
<1>3. CASE pc[v] = "print"
  <2>1. Printed(r, n) /\ got[v] = ToPrint(r, n)
    BY <1>1, <1>3, Zenon DEF ReduceContent
  <2>2. Printed(r, n)'
    BY <1>2, <2>1 DEF Printed
  <2>3. got'[v] = ToPrint(r, n)'
    BY <1>2, <2>1, SMTT(60) DEF ToPrint
  <2>. QED BY <1>2, <1>3, <2>2, <2>3, SMTT(60) DEF ReduceContent, Printed, ToPrint
<1>4. CASE pc[v] = "report"
  <2>1. task[v].TaskType = "reduce" => MatchesSequential(r)
    BY <1>1, <1>4, Zenon DEF ReduceContent
  <2>2. MatchesSequential(r) => MatchesSequential(r)'
    BY <1>2, SMTT(60) DEF MatchesSequential
  <2>. QED BY <1>2, <1>4, <2>1, <2>2, SMTT(60) DEF ReduceContent, MatchesSequential
<1>5. CASE pc[v] \notin {"print", "report"}
  BY <1>5, Zenon DEF ReduceContent
<1>. QED BY <1>3, <1>4, <1>5, Zenon

\* What a step needs to show: the worker that moves keeps its part, and it
\* changes only the output file of a reduce task that it holds.
LEMMA OutputFrame ==
  ASSUME OutputInv, TypeOK, DeadlineInv, NEW w \in Workers, ReduceContent(w)',
         \A v \in Workers \ {w} :
           /\ pc'[v] = pc[v] /\ task'[v] = task[v] /\ idx'[v] = idx[v]
           /\ pos'[v] = pos[v] /\ got'[v] = got[v],
         \A r \in ReduceIDs :
           reduceTaskStatus'[r].Completed => reduceTaskStatus[r].Completed \/ MatchesSequential(r)',
         \/ out' = out
         \/ /\ pc[w] \in {"output", "print"}
            /\ \A r \in ReduceIDs \ {task[w].ID} : out'[r] = out[r]
            /\ reduceTaskStatus' = reduceTaskStatus
  PROVE  OutputInv'
<1>1. CASE out' = out
  <2>1. ASSUME NEW r \in ReduceIDs, MatchesSequential(r) PROVE MatchesSequential(r)'
    BY <1>1, <2>1, Zenon DEF MatchesSequential
  <2>2. ASSUME NEW v \in Workers \ {w} PROVE ReduceContent(v)'
    <3>1. /\ pc'[v] = pc[v] /\ task'[v] = task[v] /\ idx'[v] = idx[v]
          /\ pos'[v] = pos[v] /\ got'[v] = got[v]
      BY Zenon
    <3>2. ReduceContent(v)
      BY Zenon DEF OutputInv
    <3>. QED BY <1>1, <3>1, <3>2, ReduceFrame, Zenon
  <2>. QED BY <2>1, <2>2, Zenon DEF OutputInv
<1>2. CASE /\ pc[w] \in {"output", "print"}
           /\ \A r \in ReduceIDs \ {task[w].ID} : out'[r] = out[r]
           /\ reduceTaskStatus' = reduceTaskStatus
  <2>1. Held(w) /\ task[w].TaskType = "reduce" /\ task[w].ID \in ReduceIDs
    BY <1>2, TaskIDs, Zenon DEF TypeOK, WorkerOK, Held, Executing
  <2>2. ~reduceTaskStatus[task[w].ID].Completed
    BY <2>1, Zenon DEF DeadlineInv, InDeadline, Status
  <2>3. ASSUME NEW r \in ReduceIDs, reduceTaskStatus'[r].Completed PROVE MatchesSequential(r)'
    <3>1. r # task[w].ID /\ MatchesSequential(r)
      BY <1>2, <2>2, <2>3, Zenon DEF OutputInv
    <3>2. out'[r] = out[r]
      BY <1>2, <3>1, Zenon
    <3>. QED BY <3>1, <3>2, SMTT(60) DEF MatchesSequential
  <2>4. ASSUME NEW v \in Workers \ {w} PROVE ReduceContent(v)'
    <3>0. /\ pc'[v] = pc[v] /\ task'[v] = task[v] /\ idx'[v] = idx[v]
          /\ pos'[v] = pos[v] /\ got'[v] = got[v] /\ ReduceContent(v)
      BY Zenon DEF OutputInv
    <3>1. CASE Held(v) /\ task[v].TaskType = "reduce"
      <4>1. task[v].ID \in ReduceIDs /\ task[v].ID # task[w].ID
        <5>1. task[v] # task[w] /\ task[v] \in Tasks /\ task[w] \in Tasks
          BY <2>1, <3>1, HeldTask, Zenon DEF DeadlineInv
        <5>. QED BY <2>1, <3>1, <5>1, SMTT(60) DEF Tasks, MapTask, ReduceTask
      <4>2. out'[task[v].ID] = out[task[v].ID]
        BY <1>2, <4>1, Zenon
      <4>. QED BY <3>0, <4>2, ReduceFrame, Zenon
    <3>2. CASE ~(Held(v) /\ task[v].TaskType = "reduce")
      <4>1. /\ pc[v] \notin {"open", "read", "output", "print"}
            /\ pc[v] = "report" => task[v].TaskType # "reduce"
        BY <3>2, Zenon DEF TypeOK, WorkerOK, Held, Executing
      <4>. QED BY <3>0, <4>1, Zenon DEF ReduceContent
    <3>. QED BY <3>1, <3>2, Zenon
  <2>. QED BY <2>3, <2>4, Zenon DEF OutputInv
<1>. QED BY <1>1, <1>2, Zenon

\* A reduce worker that reads a record extends its prefix by that record.
LEMMA DecodeExtends ==
  ASSUME TypeOK, OutputInv, NEW w \in Workers, DecodePair(w)
  PROVE  ReduceContent(w)'
<1>. DEFINE r == task[w].ID
            n == idx[w]
<1>1. /\ r \in ReduceIDs /\ n \in MapIDs /\ pc[w] = "read" /\ pos[w] \in Nat
      /\ got[w] = Prefix(r, n, pos[w])
  BY CoordinatorAssumption, TaskIDs DEF DecodePair, TypeOK, WorkerOK, OutputInv, ReduceContent, MapIDs
<1>2. PICK j \in Records(n, r) :
        /\ First(j, {k \in Records(n, r) : k > pos[w]})
        /\ got' = [got EXCEPT ![w] = @ \cup {<<n, j>>}]
        /\ pos' = [pos EXCEPT ![w] = j]
  BY ZenonT(60) DEF DecodePair, NextRecord
<1>3. /\ pc'[w] = "read" /\ task'[w] = task[w] /\ idx'[w] = n
      /\ got'[w] = Prefix(r, n, pos[w]) \cup {<<n, j>>} /\ pos'[w] = j
  BY <1>1, <1>2, Zenon DEF DecodePair, TypeOK
<1>4. <<n, j>> \in BucketPairs(r) /\ j \in Nat /\ j > pos[w]
  BY <1>1, <1>2, RecordIsPair, Zenon DEF First
<1>5. ASSUME NEW p \in BucketPairs(r)
      PROVE  p \in Prefix(r, n, j) <=> p \in Prefix(r, n, pos[w]) \/ p = <<n, j>>
  <2>1. p = <<p[1], p[2]>> /\ p[1] \in MapIDs /\ p[2] \in Records(p[1], r) /\ p[2] \in Nat
    BY <1>1, PairIsRecord, Zenon
  <2>2. p[1] = n => (p[2] <= j <=> p[2] <= pos[w] \/ p[2] = j)
    <3>1. p[1] = n /\ p[2] > pos[w] => j <= p[2]
      BY <1>2, <2>1, Zenon DEF First
    <3>. QED BY <1>1, <1>4, <2>1, <3>1, SMTT(60)
  <2>. QED BY <1>1, <1>4, <2>1, <2>2, SMTT(60) DEF Prefix
<1>6. Prefix(r, n, j) = Prefix(r, n, pos[w]) \cup {<<n, j>>}
  BY <1>4, <1>5, Zenon DEF Prefix
<1>. QED BY <1>3, <1>6, Zenon DEF ReduceContent

\* At the end of a complete file a reduce worker has read all of it.
LEMMA EndOfFileReached ==
  ASSUME TypeOK, FilesInv, ContentInv, OutputInv, NEW w \in Workers, CloseIntermediate(w)
  PROVE  ReduceContent(w)'
<1>. DEFINE r == task[w].ID
            n == idx[w]
<1>1. /\ r \in ReduceIDs /\ n \in MapIDs /\ pc[w] = "read" /\ pos[w] \in Nat
      /\ got[w] = Prefix(r, n, pos[w]) /\ task[w].TaskType = "reduce"
  BY CoordinatorAssumption, TaskIDs, SMTT(60) DEF CloseIntermediate, TypeOK, WorkerOK, OutputInv, ReduceContent, MapIDs
<1>2. inter[n][r] = Records(n, r)
  BY <1>1, Zenon DEF FilesInv, Progress, Executing, allMapTasksDone, ContentInv, AllWritten
<1>3. {k \in Records(n, r) : k > pos[w]} = {}
  <2>. SUFFICES ASSUME {k \in Records(n, r) : k > pos[w]} # {} PROVE FALSE
    BY Zenon
  <2>1. {k \in Records(n, r) : k > pos[w]} \in SUBSET Nat
    BY <1>1, RecordIsPair, Zenon
  <2>2. PICK j \in Records(n, r) : First(j, {k \in Records(n, r) : k > pos[w]})
    BY <2>1, LeastElement, ZenonT(60)
  <2>. QED BY <1>2, <2>2, Zenon DEF CloseIntermediate, NextRecord, OnDisk
<1>4. /\ pc'[w] = (IF n + 1 = NMap THEN "output" ELSE "open")
      /\ task'[w] = task[w] /\ idx'[w] = n + 1 /\ got'[w] = got[w]
  BY Zenon DEF CloseIntermediate, Goto, TypeOK
<1>5. ASSUME NEW p \in BucketPairs(r)
      PROVE  /\ p[1] \in MapIDs
             /\ p \in Prefix(r, n, pos[w]) <=> p[1] < n + 1
             /\ p \in Prefix(r, n + 1, 0) <=> p[1] < n + 1
  <2>1. p = <<p[1], p[2]>> /\ p[1] \in MapIDs /\ p[2] \in Records(p[1], r) /\ p[2] \in Nat /\ p[2] > 0
    BY <1>1, PairIsRecord, Zenon
  <2>2. p[1] \in Nat /\ n \in Nat
    BY <1>1, <2>1 DEF MapIDs
  <2>3. p[1] = n => p[2] <= pos[w]
    BY <1>1, <1>3, <2>1, SMTT(60)
  <2>. QED BY <1>1, <2>1, <2>2, <2>3, SMTT(60) DEF Prefix
<1>6. Prefix(r, n, pos[w]) = Prefix(r, n + 1, 0)
  BY <1>5, Zenon DEF Prefix
<1>7. n + 1 = NMap => Prefix(r, n, pos[w]) = BucketPairs(r)
  BY CoordinatorAssumption, <1>5, SMTT(60) DEF Prefix, MapIDs
<1>. QED BY <1>1, <1>4, <1>6, <1>7, Zenon DEF ReduceContent

\* A line that a reduce worker prints is a line of the sequential output that the
\* file does not hold yet.
LEMMA PrintExtends ==
  ASSUME TypeOK, OutputInv, NEW w \in Workers, PrintLine(w)
  PROVE  /\ ReduceContent(w)'
         /\ \A q \in ReduceIDs \ {task[w].ID} : out'[q] = out[q]
<1>1. PICK r \in ReduceIDs : r = task[w].ID
  BY TaskIDs, Zenon DEF PrintLine, TypeOK, WorkerOK
<1>2. Printed(r, pos[w]) /\ got[w] = ToPrint(r, pos[w]) /\ pos[w] \in Nat
  BY <1>1, Zenon DEF PrintLine, OutputInv, ReduceContent, TypeOK
<1>n. PICK n \in Nat : n = pos[w] + 1
  BY <1>2
<1>. DEFINE values(k) == {q \in got[w] : KeyOf(q) = k}
            line(k) == [key |-> k, values |-> values(k)]
<1>3. PICK k \in {KeyOf(q) : q \in got[w]} :
        /\ out' = [out EXCEPT ![r] =
             [i \in DOMAIN @ \cup {n} |-> IF i = n THEN line(k) ELSE @[i]]]
        /\ got' = [got EXCEPT ![w] = @ \ values(k)]
  BY <1>1, <1>n, ZenonT(60) DEF PrintLine
<1>4. PICK p \in BucketPairs(r) : KeyOf(p) = k /\ \A i \in 1 .. pos[w] : out[r][i].key # k
  BY <1>2, <1>3, Zenon DEF ToPrint
<1>5. values(k) = {q \in Pairs : KeyOf(q) = k}
  BY <1>2, <1>4, Zenon DEF ToPrint, BucketPairs
<1>6. line(k) \in SequentialLines(r)
  BY <1>4, <1>5, Zenon DEF SequentialLines, BucketPairs
<1>7. /\ out'[r] = [i \in DOMAIN out[r] \cup {n} |-> IF i = n THEN line(k) ELSE out[r][i]]
      /\ \A q \in ReduceIDs \ {r} : out'[q] = out[q]
  <2>1. out = [q \in ReduceIDs |-> out[q]]
    BY Zenon DEF TypeOK
  <2>. HIDE DEF line
  <2>. QED BY <1>3, <2>1, Zenon
<1>8. /\ DOMAIN out[r] \cup {n} = 1 .. n
      /\ \A i \in 1 .. pos[w] : i \in 1 .. n /\ i # n
      /\ \A i \in 1 .. n : i \in 1 .. pos[w] \/ i = n
      /\ n \in 1 .. n
  <2>1. DOMAIN out[r] = 1 .. pos[w]
    BY <1>2, Zenon DEF Printed
  <2>. QED BY <1>2, <1>n, <2>1, SMTT(60)
<1>9. /\ DOMAIN out'[r] = 1 .. n
      /\ out'[r][n] = line(k)
      /\ \A i \in 1 .. pos[w] : out'[r][i] = out[r][i]
  <2>. HIDE DEF line
  <2>. QED BY <1>7, <1>8, Zenon
<1>10. out'[r][n].key = k
  BY <1>9
<1>11. \A i \in 1 .. n : out'[r][i] \in SequentialLines(r)
  BY <1>2, <1>6, <1>8, <1>9, Zenon DEF Printed
<1>12. \A i, j \in 1 .. n : out'[r][i].key = out'[r][j].key => i = j
  BY <1>2, <1>4, <1>8, <1>9, <1>10, Zenon DEF Printed
<1>13. got[w] \ values(k) = {q \in BucketPairs(r) : \A i \in 1 .. n : out'[r][i].key # KeyOf(q)}
  <2>1. ASSUME NEW q \in BucketPairs(r)
        PROVE  (\A i \in 1 .. n : out'[r][i].key # KeyOf(q)) <=>
               (KeyOf(q) # k /\ \A i \in 1 .. pos[w] : out[r][i].key # KeyOf(q))
    BY <1>8, <1>9, <1>10, Zenon
  <2>2. got[w] = {q \in BucketPairs(r) : \A i \in 1 .. pos[w] : out[r][i].key # KeyOf(q)}
    BY <1>2, Zenon DEF ToPrint
  <2>. QED BY <2>1, <2>2, Zenon
<1>14. /\ pc'[w] = "print" /\ task'[w].ID = r /\ pos'[w] = n /\ got'[w] = got[w] \ values(k)
  BY <1>1, <1>n, <1>3, Zenon DEF PrintLine, TypeOK
<1>15. Printed(r, n)' /\ got'[w] = ToPrint(r, n)'
  BY <1>9, <1>11, <1>12, <1>13, <1>14, Zenon DEF Printed, ToPrint
<1>16. ReduceContent(w)'
  BY <1>14, <1>15, Zenon DEF ReduceContent, Printed, ToPrint
<1>. QED BY <1>1, <1>7, <1>16, Zenon

\* Every step with prompt workers keeps the output invariant.
LEMMA OutputStep ==
  TypeOK /\ FilesInv /\ DeadlineInv /\ ContentInv /\ OutputInv /\ [PromptNext]_vars => OutputInv'
<1>. SUFFICES ASSUME TypeOK, FilesInv, DeadlineInv, ContentInv, OutputInv, [PromptNext]_vars
              PROVE  OutputInv'
  BY Zenon
<1>. DEFINE Others(w) == \A v \in Workers \ {w} :
              /\ pc'[v] = pc[v] /\ task'[v] = task[v] /\ idx'[v] = idx[v]
              /\ pos'[v] = pos[v] /\ got'[v] = got[v]
<1>0. CoordTypeOK /\ WorkerTypeOK /\ FileTypeOK
  BY TypeOKByPart, Zenon DEF Parts
<1>1. ASSUME NEW w \in Workers, RequestTask(w) PROVE OutputInv'
  <2>1. \A i \in ReduceIDs : reduceTaskStatus'[i].Completed <=> reduceTaskStatus[i].Completed
    BY <1>0, <1>1, CompletedKept, Zenon DEF RequestTask
  <2>2. /\ Others(w) /\ out' = out
        /\ pc'[w] \in {"create", "open", "sleep", "exited", "dead"}
        /\ pc'[w] = "open" => task'[w] \in Replies /\ task'[w].TaskType = "reduce"
        /\ idx'[w] = 0 /\ got'[w] = {}
    <3>1. idx[w] = 0 /\ got[w] = {}
      BY <1>0, <1>1, Zenon DEF RequestTask, WorkerTypeOK, WorkerOK, Executing
    <3>2. \A reply \in Replies :
            /\ Dispatch(reply) \in {"create", "open", "sleep", "exited"}
            /\ Dispatch(reply) = "open" => reply.TaskType = "reduce"
      BY DEF Dispatch, Replies, Tasks, MapTask, ReduceTask, WaitReply, ExitReply
    <3>. QED BY <1>0, <1>1, <3>1, <3>2, SMTT(60) DEF RequestTask, Goto, Die, Forget, WorkerTypeOK, fileVars
  <2>3. \A r \in ReduceIDs : Prefix(r, 0, 0) = {}
    <3>1. \A r \in ReduceIDs : \A p \in BucketPairs(r) : ~(p[1] < 0) /\ ~(p[2] <= 0)
      BY PairIsRecord, SMTT(60) DEF MapIDs
    <3>. QED BY <3>1, Zenon DEF Prefix
  <2>4. ReduceContent(w)'
    BY <2>2, <2>3, TaskIDs, Zenon DEF ReduceContent
  <2>. QED BY <2>1, <2>2, <2>4, OutputFrame, Zenon
<1>2. ASSUME NEW w \in Workers,
             \/ CreateIntermediate(w) \/ EncodePair(w) \/ CloseIntermediates(w)
             \/ WakeUp(w) \/ Crash(w) \/ Restart(w)
      PROVE  OutputInv'
  <2>1. out' = out /\ reduceTaskStatus' = reduceTaskStatus /\ Others(w)
    BY <1>0, <1>2, Zenon DEF CreateIntermediate, EncodePair, CloseIntermediates, WakeUp, Crash,
       Restart, Goto, Die, Forget, WorkerTypeOK, fileVars, coordVars
  <2>2. /\ pc'[w] \notin {"open", "read", "output", "print"}
        /\ pc'[w] = "report" => task'[w].TaskType # "reduce"
    BY <1>0, <1>2, Zenon DEF CreateIntermediate, EncodePair, CloseIntermediates, WakeUp, Crash,
       Restart, Goto, Die, Forget, WorkerTypeOK, WorkerOK
  <2>3. ReduceContent(w)'
    BY <2>2, Zenon DEF ReduceContent
  <2>. QED BY <2>1, <2>3, OutputFrame, Zenon
<1>3. ASSUME NEW w \in Workers, OpenIntermediate(w) \/ DecodePair(w) \/ CloseIntermediate(w)
      PROVE  OutputInv'
  <2>1. out' = out /\ reduceTaskStatus' = reduceTaskStatus /\ Others(w)
    BY <1>0, <1>3, Zenon DEF OpenIntermediate, DecodePair, CloseIntermediate, Goto, Die, Forget,
       WorkerTypeOK, fileVars, coordVars
  <2>2. ASSUME OpenIntermediate(w) PROVE ReduceContent(w)'
    <3>1. \/ pc'[w] = "dead"
          \/ /\ pc'[w] = "read" /\ pos'[w] = 0
             /\ task'[w] = task[w] /\ idx'[w] = idx[w] /\ got'[w] = got[w]
      BY <1>0, <2>2, Zenon DEF OpenIntermediate, Goto, Die, WorkerTypeOK
    <3>2. pc[w] = "open" /\ got[w] = Prefix(task[w].ID, idx[w], 0)
      BY <2>2, Zenon DEF OpenIntermediate, OutputInv, ReduceContent
    <3>3. ReduceContent(w)'
      BY <3>1, <3>2, Zenon DEF ReduceContent
    <3>. QED BY <3>3, Zenon
  <2>3. ReduceContent(w)'
    BY <1>3, <2>2, DecodeExtends, EndOfFileReached, Zenon
  <2>. QED BY <2>1, <2>3, OutputFrame, Zenon
<1>4. ASSUME NEW w \in Workers, CreateOutput(w) PROVE OutputInv'
  <2>1. PICK r \in ReduceIDs : r = task[w].ID
    BY <1>0, <1>4, TaskIDs, Zenon DEF CreateOutput, WorkerTypeOK, WorkerOK
  <2>2. /\ reduceTaskStatus' = reduceTaskStatus /\ Others(w) /\ pc[w] = "output"
        /\ pc'[w] = "print" /\ task'[w].ID = r /\ pos'[w] = 0 /\ got'[w] = BucketPairs(r)
    BY <1>0, <1>4, <2>1, Zenon DEF CreateOutput, Goto, WorkerTypeOK, coordVars, OutputInv, ReduceContent
  <2>3. out'[r] = <<>> /\ \A q \in ReduceIDs \ {r} : out'[q] = out[q]
    <3>1. out = [q \in ReduceIDs |-> out[q]]
      BY Zenon DEF TypeOK
    <3>. QED BY <1>4, <2>1, <3>1, Zenon DEF CreateOutput
  <2>4. DOMAIN <<>> = {} /\ 1 .. 0 = {}
    OBVIOUS
  <2>5. ReduceContent(w)'
    BY <2>2, <2>3, <2>4, Zenon DEF ReduceContent, Printed, ToPrint
  <2>. QED BY <2>1, <2>2, <2>3, <2>5, OutputFrame, Zenon
<1>5. ASSUME NEW w \in Workers, PrintLine(w) PROVE OutputInv'
  <2>1. reduceTaskStatus' = reduceTaskStatus /\ Others(w) /\ pc[w] = "print"
    BY <1>0, <1>5, Zenon DEF PrintLine, WorkerTypeOK, coordVars
  <2>. QED BY <1>5, <2>1, PrintExtends, OutputFrame, Zenon
<1>6. ASSUME NEW w \in Workers, EndOutput(w) PROVE OutputInv'
  <2>1. PICK r \in ReduceIDs : r = task[w].ID
    BY <1>0, <1>6, TaskIDs, Zenon DEF EndOutput, WorkerTypeOK, WorkerOK
  <2>2. Printed(r, pos[w]) /\ ToPrint(r, pos[w]) = {} /\ pos[w] \in Nat
    BY <1>0, <1>6, <2>1, Zenon DEF EndOutput, WorkerTypeOK, OutputInv, ReduceContent
  <2>3. MatchesSequential(r)
    BY <2>2, AllPrinted, Zenon
  <2>4. /\ out' = out /\ reduceTaskStatus' = reduceTaskStatus /\ Others(w)
        /\ pc'[w] = "report" /\ task'[w].ID = r
    BY <1>0, <1>6, <2>1, Zenon DEF EndOutput, Goto, WorkerTypeOK, fileVars, coordVars
  <2>5. ReduceContent(w)'
    BY <2>3, <2>4, Zenon DEF ReduceContent, MatchesSequential
  <2>. QED BY <2>4, <2>5, OutputFrame, Zenon
<1>7. ASSUME NEW w \in Workers, NotifyTaskDone(w) PROVE OutputInv'
  <2>1. out' = out /\ pc'[w] \in {"request", "dead"} /\ Others(w)
    BY <1>0, <1>7, Zenon DEF NotifyTaskDone, Goto, Die, Forget, WorkerTypeOK, fileVars
  <2>2. ReduceContent(w)'
    BY <2>1, Zenon DEF ReduceContent
  <2>3. CASE UNCHANGED coordVars
    BY <2>1, <2>2, <2>3, OutputFrame, ZenonT(60) DEF coordVars
  <2>4. CASE ReportTaskDone(task[w])
    <3>1. PICK t \in Replies : t = task[w]
      BY <1>0, Zenon DEF WorkerTypeOK
    <3>2. t.TaskType = "reduce" => MatchesSequential(t.ID)
      BY <1>7, <3>1, Zenon DEF NotifyTaskDone, OutputInv, ReduceContent
    <3>3. ASSUME NEW r \in ReduceIDs, reduceTaskStatus'[r].Completed
          PROVE  reduceTaskStatus[r].Completed \/ MatchesSequential(r)'
      <4>1. MatchesSequential(r)' <=> MatchesSequential(r)
        BY <2>1, Zenon DEF MatchesSequential
      <4>2. ReportTaskDone(t)
        BY <2>4, <3>1, Zenon
      <4>. QED BY <1>0, <3>2, <3>3, <4>1, <4>2, ReportCompletes, Zenon
    <3>. QED BY <2>1, <2>2, <3>3, OutputFrame, Zenon
  <2>. QED BY <1>7, <2>3, <2>4, Zenon DEF NotifyTaskDone
<1>8. CASE CoordinatorStep \/ TimePasses \/ UNCHANGED vars
  <2>1. \A i \in ReduceIDs : reduceTaskStatus'[i].Completed <=> reduceTaskStatus[i].Completed
    BY <1>0, <1>8, CompletedKept, Zenon DEF CoordinatorStep, TimePasses, vars
  <2>2. UNCHANGED <<workerVars, out>>
    BY <1>8, Zenon DEF CoordinatorStep, TimePasses, vars, fileVars
  <2>3. ASSUME NEW w \in Workers PROVE ReduceContent(w)'
    <3>1. ReduceContent(w)
      BY Zenon DEF OutputInv
    <3>. QED BY <2>2, <3>1, ReduceFrame, Zenon DEF workerVars
  <2>. QED BY <2>1, <2>2, <2>3, Zenon DEF OutputInv, MatchesSequential
<1>. QED BY <1>1, <1>2, <1>3, <1>4, <1>5, <1>6, <1>7, <1>8, Zenon
     DEF PromptNext, Steps, WorkerStep, Terminating

\* With prompt workers the distributed job computes what main/mrsequential.go
\* computes, for every input, every number of workers and every crash.
THEOREM OutputIsSequential == PromptSpec => []OutputMatchesSequential
<1>1. Init => FilesInv /\ DeadlineInv /\ EndInv /\ ContentInv /\ OutputInv
  BY DEF Init, MakeCoordinator, FreshStatus, FilesInv, Progress, Executing, DeadlineInv, Held,
     EndInv, SomeExited, ContentInv, MapContent, OutputInv, ReduceContent
<1>2. EndInv /\ OutputInv => OutputMatchesSequential
  BY Zenon DEF EndInv, AllDone, allReduceTasksDone, OutputInv, OutputMatchesSequential
<1>3. [PromptNext]_vars => [Next]_vars
  BY Zenon DEF PromptNext, Next
<1>. QED BY <1>1, <1>2, <1>3, FilesInvStep, DeadlineStep, EndStep, ContentStep, OutputStep,
            PromptIsSpec, TypeCorrect, PTL DEF PromptSpec
=============================================================================
