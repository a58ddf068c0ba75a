----------------------------- MODULE MapReduce -----------------------------
(***************************************************************************)
(* The whole MapReduce system: the coordinator, the worker processes of      *)
(* Lab 2/src/mr/worker.go and the files they share (mr-<m>-<r> and           *)
(* mr-out-<r>), with workers that are slow, that crash in the middle of a    *)
(* task (mrapps/crash.go) and that are started again (main/test-mr.sh).      *)
(*                                                                           *)
(* Data.  A pair emitted by a map task is known by its origin <<m, j>>, the  *)
(* j-th pair of map task m; mapf[m][j] is its key.  Map functions are        *)
(* deterministic, so the record of <<m, j>> always has the same bytes at the *)
(* same offset of the same file: a file mr-<m>-<r> is the set of j whose     *)
(* record is on disk, and a reader stops at the first record that is not     *)
(* there, as the JSON decoder does at the end of the file or in a hole.  The *)
(* Reduce functions of mrapps/ do not depend on the order of their values,   *)
(* so the values of a key are the set of their origins.                      *)
(*                                                                           *)
(* Output lines have one size, so that the n-th line a process writes is     *)
(* line n of the file (the byte overlaps of lines of different sizes would   *)
(* only damage a file that two processes write even more).                   *)
(***************************************************************************)
EXTENDS Coordinator, Sequences, FiniteSets

CONSTANTS Workers,      \* worker processes
          Keys,         \* the keys map functions emit
          mapf,         \* mapf[m]: the keys of the pairs map task m emits
          ihash,        \* the hash function that partitions the keys
          MaxCrashes    \* bound on the number of crashes

ASSUME MapReduceAssumption ==
  /\ mapf \in [MapIDs -> Seq(Keys)]
  /\ ihash \in [Keys -> Nat]
  /\ MaxCrashes \in Nat

VARIABLES pc,        \* where each worker is in its loop
          task,      \* the task (or the other reply) it is working on
          idx,       \* the number of the file it is creating or reading
          pos,       \* pairs written, last record read, or lines printed
          got,       \* intermediate: the pairs read and not yet reduced
          created,   \* the <<m, r>> for which mr-<m>-<r> exists
          inter,     \* inter[m][r]: the records on disk in mr-<m>-<r>
          out,       \* out[r]: the lines on disk in mr-out-<r>, by position
          crashes    \* how many times a worker has crashed

workerVars == <<pc, task, idx, pos, got>>
fileVars == <<created, inter, out>>
vars == <<coordVars, workerVars, fileVars, crashes>>

Pairs == UNION {{m} \X DOMAIN mapf[m] : m \in MapIDs}
KeyOf(p) == mapf[p[1]][p[2]]
Bucket(k) == ihash[k] % NReduce

\* The records that belong in mr-<m>-<r>.
Records(m, r) == {j \in DOMAIN mapf[m] : Bucket(mapf[m][j]) = r}

Lines == [key : Keys, values : SUBSET Pairs]

\* The program counters of a worker that holds a task.
Executing == {"create", "emit", "open", "read", "output", "print", "report"}
Locations == Executing \cup {"request", "sleep", "exited", "dead"}

(***************************************************************************)
(* What main/mrsequential.go prints for the keys of bucket r: one line for  *)
(* each distinct key, with all the values of that key in the whole input.   *)
(***************************************************************************)
SequentialLines(r) ==
  {[key |-> k, values |-> {p \in Pairs : KeyOf(p) = k}] :
     k \in {KeyOf(p) : p \in {q \in Pairs : Bucket(KeyOf(q)) = r}}}

Init ==
  /\ MakeCoordinator
  /\ pc = [w \in Workers |-> "request"]
  /\ task = [w \in Workers |-> WaitReply]
  /\ idx = [w \in Workers |-> 0]
  /\ pos = [w \in Workers |-> 0]
  /\ got = [w \in Workers |-> {}]
  /\ created = {}
  /\ inter = [m \in MapIDs |-> [r \in ReduceIDs |-> {}]]
  /\ out = [r \in ReduceIDs |-> <<>>]
  /\ crashes = 0

Goto(w, location) == pc' = [pc EXCEPT ![w] = location]

\* The local variables of a worker at the top of its loop.
Forget(w) ==
  /\ task' = [task EXCEPT ![w] = WaitReply]
  /\ idx' = [idx EXCEPT ![w] = 0]
  /\ pos' = [pos EXCEPT ![w] = 0]
  /\ got' = [got EXCEPT ![w] = {}]

Die(w) == Goto(w, "dead") /\ Forget(w)

(***************************************************************************)
(* The loop of Worker: RequestTask, then a switch on the type of the reply. *)
(* call() and its callers end the process with log.Fatal when the           *)
(* coordinator is gone.                                                     *)
(***************************************************************************)
Dispatch(reply) ==
  CASE reply.TaskType = "map" -> "create"
    [] reply.TaskType = "reduce" -> "open"
    [] reply.TaskType = "wait" -> "sleep"
    [] reply.TaskType = "exit" -> "exited"

\* Seeded fault: a worker that cannot reach the coordinator tries again later.
RequestTaskRetrying(w) ==
  /\ pc[w] = "request"
  /\ \/ \E reply \in Replies :
          /\ AssignTask(reply)
          /\ Goto(w, Dispatch(reply))
          /\ task' = [task EXCEPT ![w] = reply]
     \/ /\ ~serving
        /\ Goto(w, "sleep")
        /\ UNCHANGED <<coordVars, task>>
  /\ UNCHANGED <<idx, pos, got, fileVars, crashes>>

RequestTask(w) ==
  /\ pc[w] = "request"
  /\ \/ \E reply \in Replies :
          /\ AssignTask(reply)
          /\ Goto(w, Dispatch(reply))
          /\ task' = [task EXCEPT ![w] = reply]
          /\ UNCHANGED <<idx, pos, got>>
     \/ /\ ~serving
        /\ Die(w)
        /\ UNCHANGED coordVars
  /\ UNCHANGED <<fileVars, crashes>>

WakeUp(w) ==
  /\ pc[w] = "sleep"
  /\ Goto(w, "request")
  /\ Forget(w)
  /\ UNCHANGED <<coordVars, fileVars, crashes>>

(***************************************************************************)
(* ExecuteMapTask                                                           *)
(***************************************************************************)
\* os.Create truncates a file that exists.
CreateIntermediate(w) ==
  LET m == task[w].ID
      r == idx[w]
  IN /\ pc[w] = "create"
     /\ created' = created \cup {<<m, r>>}
     /\ inter' = [inter EXCEPT ![m][r] = {}]
     /\ idx' = [idx EXCEPT ![w] = r + 1]
     /\ Goto(w, IF r + 1 = NReduce THEN "emit" ELSE "create")
     /\ UNCHANGED <<coordVars, task, pos, got, out, crashes>>

\* Encode writes one record straight to the file.
EncodePair(w) ==
  LET m == task[w].ID
      j == pos[w] + 1
  IN /\ pc[w] = "emit"
     /\ j \in DOMAIN mapf[m]
     /\ inter' = [inter EXCEPT ![m][Bucket(mapf[m][j])] = @ \cup {j}]
     /\ pos' = [pos EXCEPT ![w] = j]
     /\ UNCHANGED <<coordVars, pc, task, idx, got, created, out, crashes>>

\* Seeded fault: the files are closed before the last pair is written.
CloseIntermediatesEarly(w) ==
  /\ pc[w] = "emit"
  /\ pos[w] + 1 >= Len(mapf[task[w].ID])
  /\ Goto(w, "report")
  /\ UNCHANGED <<coordVars, task, idx, pos, got, fileVars, crashes>>

CloseIntermediates(w) ==
  /\ pc[w] = "emit"
  /\ pos[w] = Len(mapf[task[w].ID])
  /\ Goto(w, "report")
  /\ UNCHANGED <<coordVars, task, idx, pos, got, fileVars, crashes>>

(***************************************************************************)
(* ExecuteReduceTask                                                        *)
(***************************************************************************)
\* A missing file is fatal.
OpenIntermediate(w) ==
  /\ pc[w] = "open"
  /\ IF <<idx[w], task[w].ID>> \in created
     THEN /\ Goto(w, "read")
          /\ pos' = [pos EXCEPT ![w] = 0]
          /\ UNCHANGED <<task, idx, got>>
     ELSE Die(w)
  /\ UNCHANGED <<coordVars, fileVars, crashes>>

\* The next record of the file that w reads, once the one at pos[w] is read.
NextRecord(w, j) == First(j, {k \in Records(idx[w], task[w].ID) : k > pos[w]})

OnDisk(w, j) == j \in inter[idx[w]][task[w].ID]

DecodePair(w) ==
  /\ pc[w] = "read"
  /\ \E j \in Records(idx[w], task[w].ID) :
       /\ NextRecord(w, j)
       /\ OnDisk(w, j)
       /\ got' = [got EXCEPT ![w] = @ \cup {<<idx[w], j>>}]
       /\ pos' = [pos EXCEPT ![w] = j]
  /\ UNCHANGED <<coordVars, pc, task, idx, fileVars, crashes>>

\* Decode fails, at the end of the file or before it: on to the next file.
\* Seeded fault: the reduce worker looks for one file more than there are.
CloseIntermediateLate(w) ==
  /\ pc[w] = "read"
  /\ \A j \in Records(idx[w], task[w].ID) : NextRecord(w, j) => ~OnDisk(w, j)
  /\ idx' = [idx EXCEPT ![w] = @ + 1]
  /\ Goto(w, IF idx[w] = NMap THEN "output" ELSE "open")
  /\ UNCHANGED <<coordVars, task, pos, got, fileVars, crashes>>

\* Seeded fault: the last intermediate file is not read.
CloseIntermediateEarly(w) ==
  /\ pc[w] = "read"
  /\ \A j \in Records(idx[w], task[w].ID) : NextRecord(w, j) => ~OnDisk(w, j)
  /\ idx' = [idx EXCEPT ![w] = @ + 1]
  /\ Goto(w, IF idx[w] + 2 >= NMap THEN "output" ELSE "open")
  /\ UNCHANGED <<coordVars, task, pos, got, fileVars, crashes>>

CloseIntermediate(w) ==
  /\ pc[w] = "read"
  /\ \A j \in Records(idx[w], task[w].ID) : NextRecord(w, j) => ~OnDisk(w, j)
  /\ idx' = [idx EXCEPT ![w] = @ + 1]
  /\ Goto(w, IF idx[w] + 1 = NMap THEN "output" ELSE "open")
  /\ UNCHANGED <<coordVars, task, pos, got, fileVars, crashes>>

\* os.Create truncates mr-out-<r>.
CreateOutput(w) ==
  /\ pc[w] = "output"
  /\ out' = [out EXCEPT ![task[w].ID] = <<>>]
  /\ pos' = [pos EXCEPT ![w] = 0]
  /\ Goto(w, "print")
  /\ UNCHANGED <<coordVars, task, idx, got, created, inter, crashes>>

\* range over a Go map takes the keys in any order.
PrintLine(w) ==
  LET r == task[w].ID
      n == pos[w] + 1
  IN /\ pc[w] = "print"
     /\ \E k \in {KeyOf(p) : p \in got[w]} :
          LET values == {p \in got[w] : KeyOf(p) = k}
          IN /\ out' = [out EXCEPT ![r] =
                  [i \in DOMAIN @ \cup {n} |->
                     IF i = n THEN [key |-> k, values |-> values] ELSE @[i]]]
             /\ got' = [got EXCEPT ![w] = @ \ values]
     /\ pos' = [pos EXCEPT ![w] = n]
     /\ UNCHANGED <<coordVars, pc, task, idx, created, inter, crashes>>

EndOutput(w) ==
  /\ pc[w] = "print"
  /\ got[w] = {}
  /\ Goto(w, "report")
  /\ UNCHANGED <<coordVars, task, idx, pos, got, fileVars, crashes>>

NotifyTaskDone(w) ==
  /\ pc[w] = "report"
  /\ \/ /\ ReportTaskDone(task[w])
        /\ Goto(w, "request")
        /\ Forget(w)
     \/ /\ ~serving
        /\ Die(w)
        /\ UNCHANGED coordVars
  /\ UNCHANGED <<fileVars, crashes>>

WorkerStep(w) ==
  \/ RequestTask(w) \/ WakeUp(w)
  \/ CreateIntermediate(w) \/ EncodePair(w) \/ CloseIntermediates(w)
  \/ OpenIntermediate(w) \/ DecodePair(w) \/ CloseIntermediate(w)
  \/ CreateOutput(w) \/ PrintLine(w) \/ EndOutput(w)
  \/ NotifyTaskDone(w)

(***************************************************************************)
(* maybeCrash ends a worker inside Map or Reduce, timeout(1) in the test     *)
(* script anywhere.  The script's loops start workers again as long as the  *)
(* coordinator runs.                                                        *)
(***************************************************************************)
Crash(w) ==
  /\ pc[w] \in Executing
  /\ crashes < MaxCrashes
  /\ crashes' = crashes + 1
  /\ Die(w)
  /\ UNCHANGED <<coordVars, fileVars>>

Restart(w) ==
  /\ pc[w] = "dead"
  /\ serving
  /\ Goto(w, "request")
  /\ UNCHANGED <<coordVars, task, idx, pos, got, fileVars, crashes>>

CoordinatorStep ==
  /\ checkTaskTimeouts \/ Done \/ Exit
  /\ UNCHANGED <<workerVars, fileVars, crashes>>

TimePasses == Tick /\ UNCHANGED <<workerVars, fileVars, crashes>>

\* Everything has stopped: the only states without another step.
Stopped == ~serving /\ \A w \in Workers : pc[w] \in {"exited", "dead"}
Terminating == Stopped /\ UNCHANGED vars

Steps ==
  \/ \E w \in Workers : WorkerStep(w) \/ Crash(w) \/ Restart(w)
  \/ CoordinatorStep
  \/ Terminating

Next == Steps \/ TimePasses

Spec == Init /\ [][Next]_vars

(***************************************************************************)
(* Prompt workers: a live worker finishes its task within the ten seconds   *)
(* the coordinator grants it, so time does not pass a worker's deadline.    *)
(***************************************************************************)
InTime ==
  \A w \in Workers : pc[w] \in Executing => Status(task[w]).age < Timeout

PromptNext == Steps \/ (InTime /\ TimePasses)

PromptSpec == Init /\ [][PromptNext]_vars

(***************************************************************************)
(* Fairness.  Every process that can run is scheduled; the sweep and main's *)
(* poll are loops that never end; the script's loops start workers again.   *)
(***************************************************************************)
Fairness ==
  /\ \A w \in Workers : WF_vars(WorkerStep(w)) /\ WF_vars(Restart(w))
  /\ WF_vars(checkTaskTimeouts /\ UNCHANGED <<workerVars, fileVars, crashes>>)
  /\ WF_vars(Done /\ UNCHANGED <<workerVars, fileVars, crashes>>)
  /\ WF_vars(Exit /\ UNCHANGED <<workerVars, fileVars, crashes>>)
  /\ WF_vars(TimePasses)

FairSpec == Spec /\ Fairness

----------------------------------------------------------------------------
(***************************************************************************)
(* Properties that hold however slow the workers are.                       *)
(***************************************************************************)

\* A worker that executes holds a task of the kind its program counter belongs
\* to, counts files below NumOfFiles, and starts every task afresh.
WorkerOK(w) ==
  /\ pc[w] \in {"create", "emit"} => task[w].TaskType = "map"
  /\ pc[w] \in {"open", "read", "output", "print"} => task[w].TaskType = "reduce"
  /\ pc[w] = "report" => task[w] \in Tasks
  /\ pc[w] = "create" => idx[w] < NReduce
  /\ pc[w] \in {"open", "read"} => idx[w] < NMap
  /\ pc[w] \notin Executing => idx[w] = 0 /\ pos[w] = 0 /\ got[w] = {}

\* The type of every variable: a file holds only records of its own bucket, and
\* the local variables of a worker fit its place in worker.go (WorkerOK).
TypeOK ==
  /\ mapTaskStatus \in [MapIDs -> TaskStatus]
  /\ reduceTaskStatus \in [ReduceIDs -> TaskStatus]
  /\ completed \in BOOLEAN /\ serving \in BOOLEAN
  /\ pc \in [Workers -> Locations]
  /\ task \in [Workers -> Replies]
  /\ idx \in [Workers -> Nat] /\ pos \in [Workers -> Nat]
  /\ got \in [Workers -> SUBSET Pairs]
  /\ created \in SUBSET (MapIDs \X ReduceIDs)
  /\ inter \in [MapIDs -> [ReduceIDs -> SUBSET Nat]]
  /\ \A m \in MapIDs, r \in ReduceIDs : inter[m][r] \subseteq Records(m, r)
  /\ out = [r \in ReduceIDs |-> out[r]]
  /\ \A r \in ReduceIDs :
       DOMAIN out[r] \subseteq Nat /\ \A i \in DOMAIN out[r] : out[r][i] \in Lines
  /\ crashes \in 0 .. MaxCrashes
  /\ \A w \in Workers : WorkerOK(w)

\* No reduce worker dies of log.Fatalf("Cannot open file"): when it opens
\* mr-<i>-<r>, that file exists, although tasks time out, are assigned again,
\* and are reported by workers the coordinator had given up.
IntermediatesExist ==
  \A w \in Workers : pc[w] = "open" => <<idx[w], task[w].ID>> \in created

\* The system implements the abstract job: reduce tasks complete after all map
\* tasks, nothing completed is ever undone, and neither Done() nor an "exit"
\* reply announces the end of the job before everything is complete.
Job == INSTANCE TwoPhaseJob WITH
  Maps <- MapIDs,
  Reduces <- ReduceIDs,
  mapsDone <- {i \in MapIDs : mapTaskStatus[i].Completed},
  reducesDone <- {i \in ReduceIDs : reduceTaskStatus[i].Completed},
  finished <- completed \/ \E w \in Workers : pc[w] = "exited"

ImplementsTwoPhaseJob == Job!Spec

\* The job completes and the coordinator exits, although workers crash in the
\* middle of a task: the sweep gives their tasks to somebody else.
JobCompletes == <>(~serving)

\* In the end every worker has stopped: none waits for ever for a coordinator
\* that is gone (RequestTask and NotifyTaskDone end in log.Fatal).
WorkersStop == <>[]Stopped

----------------------------------------------------------------------------
(***************************************************************************)
(* Properties that rest on prompt workers (PromptSpec).                     *)
(***************************************************************************)

\* At most one live worker executes a task, and no live worker executes a task
\* that is complete, or free: each map function runs once unless its worker
\* crashes, what the job count test of main/test-mr.sh counts.
ExclusiveExecution ==
  \A v, w \in Workers :
    pc[w] \in Executing =>
      /\ Status(task[w]).Assigned /\ ~Status(task[w]).Completed
      /\ pc[v] \in Executing /\ task[v] = task[w] => v = w

\* When a map task is complete its files hold every record the task emits, and
\* no worker truncates them afterwards: the JSON decoder of a reduce worker,
\* which takes any error for the end of the file, loses nothing.
IntermediatesComplete ==
  \A m \in MapIDs, r \in ReduceIDs :
    mapTaskStatus[m].Completed => inter[m][r] = Records(m, r)

\* mr-out-<r> holds exactly the lines that mrsequential prints for the keys of
\* bucket r, each one once, whatever crashed before: what every test of
\* main/test-mr.sh compares.
MatchesSequential(r) ==
  LET n == Cardinality(SequentialLines(r))
  IN /\ DOMAIN out[r] = 1 .. n
     /\ {out[r][i] : i \in 1 .. n} = SequentialLines(r)

\* The output of a completed job is the output of main/mrsequential.go.
OutputMatchesSequential ==
  completed => \A r \in ReduceIDs : MatchesSequential(r)

\* Once a process has exited, a worker told to or the coordinator, the output
\* files do not change any more (main/test-mr.sh, early exit test).
SomeExited == ~serving \/ \E w \in Workers : pc[w] = "exited"

\* The output is final when a process exits.
OutputFinal == [][SomeExited => out' = out]_vars
=============================================================================
