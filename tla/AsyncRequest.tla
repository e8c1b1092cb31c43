---------------------------- MODULE AsyncRequest ----------------------------
(***************************************************************************)
(* The requests of one executable network in the inference engine that the *)
(* plugin is part of (AsyncInferRequestThreadSafeDefault), with the two    *)
(* threads that serve them all: tasks of two stages go from the executor   *)
(* of inferences to the executor of callbacks, while a thread of the       *)
(* application calls the methods of each request, and callbacks start the  *)
(* next inference.                                                         *)
(*                                                                         *)
(* Every access to what threads share is a step of its own, except that    *)
(* the critical section of a mutex is one step.                            *)
(*                                                                         *)
(* Operators named ...Mutant are not part of the model: each is a wrong    *)
(* version of the definition after it, with which a property must fail.    *)
(***************************************************************************)
EXTENDS Naturals, Sequences, SequencesExt, FiniteSetsExt

CONSTANTS
  Request,            \* the requests, and the application threads that own them
  taskExecutor,       \* the executor of inferences
  callbackExecutor,   \* the executor of callbacks
  Callback,           \* the requests with a completion callback
  Repeats,            \* how many inferences of a request the application wants
  WaitsInLoop,        \* requests whose owner waits once for each of them, while
                      \* the callback starts the next
  MaxInfers,          \* bound of the calls of Infer by an owner
  MAX_NUMBER_OF_TASKS_IN_QUEUE,
  Nobody              \* no thread

VARIABLES
  request,    \* the fields of each request
  tasks,      \* the fields of each task
  taskQueue,  \* the queue of each executor
  isStopped,  \* the executors told to end
  syncQueue,  \* the queue of the TaskSynchronizer
  pc,         \* where each thread is
  task,       \* the task each thread has taken
  copy,       \* asyncTaskCopy of the lambda an executor runs
  client      \* of each request: whether its owner holds it, and its history

vars == <<request, tasks, taskQueue, isStopped, syncQueue, pc, task, copy, client>>

Executor == {taskExecutor, callbackExecutor}
Thread == Request \cup Executor

ASSUME RequestAssumption ==
  /\ Callback \subseteq Request
  /\ Repeats \in [Request -> Nat \ {0}]
  /\ MAX_NUMBER_OF_TASKS_IN_QUEUE \in Nat \ {0}

ASSUME ThreadAssumption ==
  /\ taskExecutor # callbackExecutor
  /\ Executor \cap Request = {} /\ Nobody \notin Executor

(* Task 0 of a request is its _syncTask, the others are made when needed:  *)
(* TypeOK says that there is no need for a third.                          *)
Task == {<<q, i>> : q \in Request, i \in 0 .. 2}
NoTask == <<>>
Sync(q) == <<q, 0>>

(* The request a thread works for.                                         *)
Of(t) == IF t \in Request THEN t ELSE task[t][1]

Final == {"TS_DONE", "TS_ERROR"}

Init ==
  /\ request = [q \in Request |->
       [busy |-> FALSE, async |-> NoTask, current |-> Sync(q), created |-> 0,
        code |-> "OK", exception |-> FALSE, destroyed |-> FALSE]]
  /\ tasks = [x \in Task |->
       [status |-> "TS_INITIAL", stage |-> IF x[2] = 0 THEN 0 ELSE 2,
        failed |-> FALSE, onWait |-> FALSE, run |-> Nobody]]
  /\ taskQueue = [e \in Executor |-> <<>>]
  /\ isStopped = {}
  /\ syncQueue = <<>>
  /\ pc = [t \in Thread |-> IF t \in Request THEN "idle" ELSE "fetch"]
  /\ task = [t \in Thread |-> NoTask]
  /\ copy = [e \in Executor |-> NoTask]
  /\ client = [q \in Request |->
       [owned |-> TRUE, last |-> "none", started |-> 0, infers |-> 0, waits |-> 0,
        results |-> <<>>, called |-> <<>>, told |-> "nothing"]]

Go(t, from, to) == pc[t] = from /\ pc' = [pc EXCEPT ![t] = to]

-----------------------------------------------------------------------------
(* StartAsync, called by the owner of a request or by its callback.        *)

(* Where the caller goes on.                                               *)
Back(t) == IF t \in Request THEN "idle" ELSE "called"

(* The test of the flag, and its setting, are not one critical section.    *)
IsRequestBusy(t) ==
  /\ Go(t, "StartAsync", IF request[Of(t)].busy THEN Back(t) ELSE "setBusy")
  /\ UNCHANGED <<request, tasks, taskQueue, isStopped, syncQueue, task, copy, client>>

SetBusyMutant(t) ==
  /\ Go(t, "setBusy", "reset")
  /\ UNCHANGED <<request, tasks, taskQueue, isStopped, syncQueue, task, copy, client>>

SetBusy(t) ==
  /\ Go(t, "setBusy", "reset")
  /\ request' = [request EXCEPT ![Of(t)].busy = TRUE]
  /\ UNCHANGED <<tasks, taskQueue, isStopped, syncQueue, task, copy, client>>

ResetCallback(t) ==
  /\ Go(t, "reset", "initNext")
  /\ request' = [request EXCEPT ![Of(t)].code = "OK", ![Of(t)].exception = FALSE]
  /\ UNCHANGED <<tasks, taskQueue, isStopped, syncQueue, task, copy, client>>

(* A task between its stages cannot be started again: called from the      *)
(* callback, StartAsync takes another task that ended, or a new one.       *)
NeedsTask(q) ==
  LET x == request[q].current
  IN  tasks[x].status = "TS_POSTPONED" \/ x = Sync(q)

ReadyMutant(q) == {}

Ready(q) ==
  {i \in 1 .. request[q].created :
     /\ <<q, i>> # request[q].current
     /\ ~tasks[<<q, i>>].onWait
     /\ tasks[<<q, i>>].status \in Final}

InitNextAsyncTask(t) ==
  LET q == Of(t)
      r == request[q]
      new == NeedsTask(q) /\ Ready(q) = {}
      x == CASE ~NeedsTask(q) -> r.async
             [] new           -> <<q, r.created + 1>>
             [] OTHER         -> <<q, Min(Ready(q))>>
  IN  /\ Go(t, "initNext", "resetStages")
      /\ request' = [request EXCEPT ![q].async = x, ![q].created = IF new THEN @ + 1 ELSE @]
      /\ UNCHANGED <<tasks, taskQueue, isStopped, syncQueue, task, copy, client>>

ResetStages(t) ==
  LET x == request[Of(t)].async
  IN  /\ Go(t, "resetStages", "startTask")
      /\ tasks' = [tasks EXCEPT ![x].stage = 2]
      /\ request' = [request EXCEPT ![Of(t)].current = x]
      /\ UNCHANGED <<taskQueue, isStopped, syncQueue, task, copy, client>>

(* startTask of an executor: of a busy task it answers false.              *)
StartTask(x, e) ==
  IF tasks[x].status = "TS_BUSY"
  THEN UNCHANGED <<tasks, taskQueue>>
  ELSE /\ tasks' = [tasks EXCEPT ![x].status = "TS_BUSY"]
       /\ taskQueue' = [taskQueue EXCEPT ![e] = Append(@, x)]

StartAsyncTask(t) ==
  LET q == Of(t)
      x == request[q].current
      busy == tasks[x].status = "TS_BUSY"
  IN  /\ Go(t, "startTask", IF busy THEN "refuse" ELSE Back(t))
      /\ StartTask(x, taskExecutor)
      /\ client' = IF busy THEN client
                   ELSE [client EXCEPT ![q].started = @ + 1, ![q].last = "StartAsync"]
      /\ UNCHANGED <<request, isStopped, syncQueue, task, copy>>

(* The catch of StartAsync and of Infer.                                   *)
Refuse(t) ==
  /\ Go(t, "refuse", Back(t))
  /\ request' = [request EXCEPT ![Of(t)].busy = FALSE]
  /\ UNCHANGED <<tasks, taskQueue, isStopped, syncQueue, task, copy, client>>

StartAsync(t) ==
  \/ IsRequestBusy(t) \/ SetBusy(t) \/ ResetCallback(t) \/ InitNextAsyncTask(t)
  \/ ResetStages(t) \/ StartAsyncTask(t) \/ Refuse(t)

-----------------------------------------------------------------------------
(* The thread of an executor.                                              *)

Fetch(e) ==
  /\ Go(e, "fetch", "run")
  /\ e \notin isStopped
  /\ taskQueue[e] # <<>>
  /\ task' = [task EXCEPT ![e] = Head(taskQueue[e])]
  /\ UNCHANGED <<request, tasks, taskQueue, isStopped, syncQueue, copy, client>>

Exit(e) ==
  /\ Go(e, "fetch", "ended")
  /\ e \in isStopped
  /\ UNCHANGED <<request, tasks, taskQueue, isStopped, syncQueue, task, copy, client>>

(* The mutex keeps the stage of callbacks from a task whose first stage    *)
(* has not come back.                                                      *)
CanRunMutant(x) == TRUE

CanRun(x) == tasks[x].run = Nobody

Run(e) ==
  LET x == task[e]
  IN  /\ Go(e, "run", "lambda")
      /\ CanRun(x)
      /\ tasks' = [tasks EXCEPT
           ![x].run = e, ![x].failed = FALSE,
           ![x].status = IF tasks[x].stage > 0 THEN "TS_POSTPONED" ELSE @]
      /\ UNCHANGED <<request, taskQueue, isStopped, syncQueue, task, copy, client>>

(* The lambda works on the last task that was started, not on its own.     *)
Lambda(e) ==
  LET x == request[Of(e)].async
  IN  /\ Go(e, "lambda", CASE tasks[x].stage = 2 -> "inferring"
                           [] tasks[x].stage = 1 -> "unbusy"
                           [] OTHER -> "done")
      /\ copy' = [copy EXCEPT ![e] = x]
      /\ UNCHANGED <<request, tasks, taskQueue, isStopped, syncQueue, task, client>>

EndInfer(e) ==
  \E code \in {"OK", "GENERAL_ERROR"} :
    /\ Go(e, "inferring", IF code = "OK" THEN "inferred" ELSE "failure")
    /\ client' = [client EXCEPT ![Of(e)].results = Append(@, code)]
    /\ UNCHANGED <<request, tasks, taskQueue, isStopped, syncQueue, task, copy>>

(* stageDone throws when no stage is left.                                 *)
StageDone(e, from, to) ==
  LET left == tasks[copy[e]].stage
  IN  /\ Go(e, from, IF left > 0 THEN to ELSE "failure")
      /\ tasks' = [tasks EXCEPT ![copy[e]].stage = IF left > 0 THEN left - 1 ELSE left]

Inferred(e) ==
  /\ StageDone(e, "inferred", IF Of(e) \in Callback THEN "startCallback" ELSE "skipCallback")
  /\ UNCHANGED <<request, taskQueue, isStopped, syncQueue, task, copy, client>>

SkipCallback(e) ==
  /\ StageDone(e, "skipCallback", "done")
  /\ UNCHANGED <<request, taskQueue, isStopped, syncQueue, task, copy, client>>

(* Nobody looks at the answer of startTask here.                           *)
StartCallback(e) ==
  /\ Go(e, "startCallback", "done")
  /\ StartTask(copy[e], callbackExecutor)
  /\ UNCHANGED <<request, isStopped, syncQueue, task, copy, client>>

(* The stage of the callback.                                              *)
UnbusyMutant(e) ==
  /\ Go(e, "unbusy", "runCallback")
  /\ UNCHANGED <<request, tasks, taskQueue, isStopped, syncQueue, task, copy, client>>

Unbusy(e) ==
  /\ Go(e, "unbusy", "runCallback")
  /\ request' = [request EXCEPT ![Of(e)].busy = FALSE]
  /\ UNCHANGED <<tasks, taskQueue, isStopped, syncQueue, task, copy, client>>

(* The callback is called unless its owner let go of the request; it       *)
(* starts the next inference, if one is wanted.                            *)
RunCallback(e) ==
  LET q == Of(e)
      c == client[q]
  IN  /\ StageDone(e, "runCallback",
           CASE q \notin Callback -> "done"
             [] q \in Callback /\ ~c.owned -> "failure"
             [] q \in Callback /\ c.owned /\ Len(c.called) + 1 < Repeats[q] -> "StartAsync"
             [] OTHER -> "called")
      /\ client' = IF q \in Callback /\ c.owned
                   THEN [client EXCEPT ![q].called = Append(@, request[q].code)]
                   ELSE client
      /\ UNCHANGED <<request, taskQueue, isStopped, syncQueue, task, copy>>

(* If the callback held the last pointer, this thread destroys the request.*)
Called(e) ==
  /\ Go(e, "called", IF ~client[Of(e)].owned THEN "destroy"
                     ELSE IF request[Of(e)].exception THEN "failure" ELSE "done")
  /\ UNCHANGED <<request, tasks, taskQueue, isStopped, syncQueue, task, copy, client>>

(* processAsyncTaskFailure.                                                *)
FailureCodeMutant == "OK"

FailureCode == "GENERAL_ERROR"

Failure(e) ==
  /\ Go(e, "failure", "failed")
  /\ request' = [request EXCEPT ![Of(e)].busy = FALSE]
  /\ UNCHANGED <<tasks, taskQueue, isStopped, syncQueue, task, copy, client>>

Failed(e) ==
  LET q == Of(e)
      toCall == q \in Callback /\ tasks[copy[e]].stage >= 1
  IN  /\ Go(e, "failed", IF toCall THEN "startCallback" ELSE "threw")
      /\ tasks' = IF toCall THEN [tasks EXCEPT ![copy[e]].stage = 1] ELSE tasks
      /\ request' = IF toCall
                    THEN [request EXCEPT ![q].code = FailureCode, ![q].exception = TRUE]
                    ELSE request
      /\ UNCHANGED <<taskQueue, isStopped, syncQueue, task, copy, client>>

(* The end of StagedTask::runNoThrowNoBusyCheck, and of the turn of the    *)
(* executor: after the status is set nobody else sees what it does.        *)
EndTurn(e, from, status, failed) ==
  LET x == task[e]
  IN  /\ Go(e, from, "fetch")
      /\ tasks' = [tasks EXCEPT ![x].run = Nobody, ![x].status = status, ![x].failed = failed]
      /\ taskQueue' = [taskQueue EXCEPT ![e] = Tail(@)]
      /\ task' = [task EXCEPT ![e] = NoTask]
      /\ copy' = [copy EXCEPT ![e] = NoTask]
      /\ UNCHANGED <<request, isStopped, syncQueue, client>>

Done(e) ==
  LET x == tasks[task[e]]
  IN  EndTurn(e, "done", IF x.stage = 0 THEN "TS_DONE" ELSE x.status, x.failed)

Threw(e) == EndTurn(e, "threw", "TS_ERROR", TRUE)

(* ~TaskExecutor: the executable network goes after its requests, and its  *)
(* executors go in reverse.                                                *)
Stop(e) ==
  /\ e \notin isStopped
  /\ \A q \in Request : request[q].destroyed
  /\ e = taskExecutor => pc[callbackExecutor] = "ended"
  /\ taskQueue[e] = <<>>
  /\ isStopped' = isStopped \cup {e}
  /\ UNCHANGED <<request, tasks, taskQueue, syncQueue, pc, task, copy, client>>

ExecutorStep(e) ==
  \/ Fetch(e) \/ Exit(e) \/ Run(e) \/ Lambda(e) \/ EndInfer(e)
  \/ Inferred(e) \/ SkipCallback(e) \/ StartCallback(e)
  \/ Unbusy(e) \/ RunCallback(e) \/ Called(e) \/ Failure(e) \/ Failed(e)
  \/ Done(e) \/ Threw(e) \/ Stop(e)

-----------------------------------------------------------------------------
(* Infer, in the thread of the owner, one at a time in a network.          *)

InferIsBusy(q) ==
  /\ Go(q, "InferSync", IF request[q].busy THEN "idle" ELSE "setBusySync")
  /\ UNCHANGED <<request, tasks, taskQueue, isStopped, syncQueue, task, copy, client>>

InferSetBusy(q) ==
  /\ Go(q, "setBusySync", "occupySync")
  /\ request' = [request EXCEPT ![q].busy = TRUE, ![q].current = Sync(q)]
  /\ client' = [client EXCEPT ![q].infers = @ + 1, ![q].last = "Infer"]
  /\ UNCHANGED <<tasks, taskQueue, isStopped, syncQueue, task, copy>>

(* A task that stayed busy makes Infer throw.                              *)
InferOccupy(q) ==
  /\ Go(q, "occupySync", IF tasks[Sync(q)].status = "TS_BUSY" THEN "refuse" ELSE "lock")
  /\ tasks' = [tasks EXCEPT ![Sync(q)].status = "TS_BUSY"]
  /\ UNCHANGED <<request, taskQueue, isStopped, syncQueue, task, copy, client>>

(* When the queue is full lock() throws, and the task stays busy.          *)
Full == syncQueue # <<>> /\ Len(syncQueue) >= MAX_NUMBER_OF_TASKS_IN_QUEUE

Lock(q) ==
  /\ Go(q, "lock", IF Full THEN "refuse" ELSE "waitInQueue")
  /\ syncQueue' = IF Full THEN syncQueue ELSE Append(syncQueue, q)
  /\ UNCHANGED <<request, tasks, taskQueue, isStopped, task, copy, client>>

MyTurnMutant(q) == TRUE

MyTurn(q) == Head(syncQueue) = q

WaitInQueue(q) ==
  /\ Go(q, "waitInQueue", "inferringSync")
  /\ MyTurn(q)
  /\ UNCHANGED <<request, tasks, taskQueue, isStopped, syncQueue, task, copy, client>>

InferEnds(q) ==
  /\ Go(q, "inferringSync", "unlock")
  /\ \E failed \in BOOLEAN :
       tasks' = [tasks EXCEPT ![Sync(q)].failed = failed,
                              ![Sync(q)].status = IF failed THEN "TS_ERROR" ELSE "TS_DONE"]
  /\ UNCHANGED <<request, taskQueue, isStopped, syncQueue, task, copy, client>>

UnlockMutant(q) ==
  /\ Go(q, "unlock", "refuse")
  /\ syncQueue' = IF tasks[Sync(q)].failed THEN syncQueue ELSE Tail(syncQueue)
  /\ UNCHANGED <<request, tasks, taskQueue, isStopped, task, copy, client>>

(* Whether it failed or not, the request is not busy then.                 *)
Unlock(q) ==
  /\ Go(q, "unlock", "refuse")
  /\ syncQueue' = Tail(syncQueue)
  /\ UNCHANGED <<request, tasks, taskQueue, isStopped, task, copy, client>>

Infer(q) ==
  \/ InferIsBusy(q) \/ InferSetBusy(q) \/ InferOccupy(q) \/ Lock(q) \/ WaitInQueue(q)
  \/ InferEnds(q) \/ Unlock(q)

-----------------------------------------------------------------------------
(* Wait(RESULT_READY).                                                     *)

TakeCurrent(q) ==
  /\ Go(q, "Wait", "onWait")
  /\ task' = [task EXCEPT ![q] = request[q].current]
  /\ UNCHANGED <<request, tasks, taskQueue, isStopped, syncQueue, copy, client>>

OnWait(q) ==
  /\ Go(q, "onWait", "asleep")
  /\ tasks' = [tasks EXCEPT ![task[q]].onWait = TRUE]
  /\ UNCHANGED <<request, taskQueue, isStopped, syncQueue, task, copy, client>>

(* A task that was never started is not waited for.                        *)
IsTaskDone(x) == tasks[x].status \in Final \cup {"TS_INITIAL"}

WakeUp(q) ==
  /\ Go(q, "asleep", "awake")
  /\ IsTaskDone(task[q])
  /\ tasks' = [tasks EXCEPT ![task[q]].onWait = FALSE]
  /\ UNCHANGED <<request, taskQueue, isStopped, syncQueue, task, copy, client>>

Answer(x) ==
  CASE tasks[x].failed -> "GENERAL_ERROR"
    [] ~tasks[x].failed /\ tasks[x].status = "TS_DONE" -> "OK"
    [] OTHER -> "INFER_NOT_STARTED"

WaitEnds(q) ==
  /\ Go(q, "awake", "idle")
  /\ request' = [request EXCEPT ![q].busy = FALSE]
  /\ client' = [client EXCEPT ![q].waits = @ + 1, ![q].told = Answer(task[q])]
  /\ task' = [task EXCEPT ![q] = NoTask]
  /\ UNCHANGED <<tasks, taskQueue, isStopped, syncQueue, copy>>

Wait(q) == TakeCurrent(q) \/ OnWait(q) \/ WakeUp(q) \/ WaitEnds(q)

-----------------------------------------------------------------------------
(* ~AsyncInferRequestThreadSafeDefault waits for every task.               *)

AllEnded(q) == \A i \in 1 .. request[q].created : IsTaskDone(<<q, i>>)

WaitAllAsyncTasks(t) ==
  /\ Go(t, "destroy", "ended")
  /\ AllEnded(Of(t))
  /\ request' = [request EXCEPT ![Of(t)].destroyed = TRUE]
  /\ UNCHANGED <<tasks, taskQueue, isStopped, syncQueue, task, copy, client>>

-----------------------------------------------------------------------------
(* The owners.  One without a callback calls what it likes, waits only for *)
(* what it started last, and may let go of the request at any time; one    *)
(* with a callback starts the first inference, and then either waits once  *)
(* for each (WaitsInLoop), or waits when the last callback was called.     *)

MayStart(q) == client[q].started < IF q \in Callback THEN 1 ELSE Repeats[q]

MayInfer(q) ==
  /\ client[q].infers < MaxInfers
  /\ q \in Callback => client[q].started = 0

MayWait(q) ==
  LET c == client[q]
  IN  /\ c.last = "StartAsync"
      /\ c.waits < IF q \in Callback \ WaitsInLoop THEN 1 ELSE Repeats[q]
      /\ q \in Callback \ WaitsInLoop => Len(c.called) = Repeats[q]

MayLetGo(q) ==
  \/ q \notin Callback \/ client[q].started = 0
  \/ client[q].waits = IF q \in WaitsInLoop THEN Repeats[q] ELSE 1

Call(q, method) ==
  /\ Go(q, "idle", method)
  /\ UNCHANGED <<request, tasks, taskQueue, isStopped, syncQueue, task, copy, client>>

(* While its callback runs, runCallback holds a pointer to the request.    *)
InCallback(e) ==
  pc[e] \in {"StartAsync", "setBusy", "reset", "initNext", "resetStages", "startTask",
             "refuse", "called"}

LetGo(q) ==
  /\ Go(q, "idle", IF \E e \in Executor : InCallback(e) /\ Of(e) = q
                   THEN "ended" ELSE "destroy")
  /\ client' = [client EXCEPT ![q].owned = FALSE]
  /\ UNCHANGED <<request, tasks, taskQueue, isStopped, syncQueue, task, copy>>

WaitOrLetGo(q) ==
  \/ MayWait(q) /\ Call(q, "Wait")
  \/ MayLetGo(q) /\ LetGo(q)

Owner(q) ==
  \/ MayStart(q) /\ Call(q, "StartAsync")
  \/ MayInfer(q) /\ Call(q, "InferSync")
  \/ WaitOrLetGo(q)

-----------------------------------------------------------------------------
ThreadStep(t) ==
  \/ StartAsync(t) \/ WaitAllAsyncTasks(t)
  \/ t \in Request /\ (Infer(t) \/ Wait(t))
  \/ t \in Executor /\ ExecutorStep(t)

Next == (\E t \in Thread : ThreadStep(t)) \/ (\E q \in Request : Owner(q))

(* Threads are scheduled, and no owner goes on starting inferences for     *)
(* ever: in the end it waits and lets go of its request.                   *)
Fairness ==
  /\ \A t \in Thread : WF_vars(ThreadStep(t))
  /\ \A q \in Request : SF_vars(WaitOrLetGo(q))

Spec == Init /\ [][Next]_vars /\ Fairness

-----------------------------------------------------------------------------
(* Two tasks do for a request whose callback starts the next inference:    *)
(* the list of tasks does not grow with the inferences.                    *)
TypeOK ==
  /\ request \in [Request ->
       [busy : BOOLEAN, async : Task \cup {NoTask}, current : Task,
        created : 0 .. 2,
        code : {"OK", "GENERAL_ERROR"}, exception : BOOLEAN, destroyed : BOOLEAN]]
  /\ tasks \in [Task ->
       [status : Final \cup {"TS_INITIAL", "TS_BUSY", "TS_POSTPONED"}, stage : 0 .. 2,
        failed : BOOLEAN, onWait : BOOLEAN, run : Executor \cup {Nobody}]]
  /\ \A e \in Executor : \A i \in 1 .. Len(taskQueue[e]) : taskQueue[e][i] \in Task
  /\ Len(syncQueue) <= MAX_NUMBER_OF_TASKS_IN_QUEUE

(* A request is busy from the start of an inference to its end: nobody can *)
(* change its blobs meanwhile (SetBlob, GetBlob throw REQUEST_BUSY).       *)
BusyWhileInferring ==
  \A e \in Executor : pc[e] = "inferring" => request[Of(e)].busy

(* One request never runs two inferences at once, be they Infer of its     *)
(* owner or a task; nor do two owners of a network run Infer at once.      *)
OneInferAtATime ==
  /\ \A t, u \in Thread :
       /\ t # u
       /\ {pc[t], pc[u]} \subseteq {"inferring", "inferringSync"}
       => Of(t) # Of(u) /\ {pc[t], pc[u]} # {"inferringSync"}

(* No executor is in the lambda of a request that was destroyed: the       *)
(* lambda holds only a plain pointer to it.                                *)
NoUseAfterDestruction ==
  \A e \in Executor :
    pc[e] \notin {"fetch", "run", "ended"}
      => ~request[Of(e)].destroyed

(* The loop that is to "Wait all repetition of async requests" of the      *)
(* sample waits for all of them.                                           *)
AllRepetitionsWaited ==
  \A q \in WaitsInLoop :
    client[q].waits = Repeats[q] => Len(client[q].results) = Repeats[q]

(* The requests keep the promise of their interface.                       *)
Promise == INSTANCE Completion WITH
  started <- [q \in Request |-> client[q].started],
  results <- [q \in Request |-> client[q].results],
  called  <- [q \in Request |-> client[q].called],
  told    <- [q \in Request |-> client[q].told]

RefinesCompletion == Promise!Spec

(* Threads never wait for one another in a circle, nor for what nobody is  *)
(* going to do: the owner for a task that no executor has, the executor of *)
(* callbacks for a task the other does not hold, an Infer for its turn, a  *)
(* destructor for a task that runs it, or an application for a callback    *)
(* after the chain of callbacks broke.  As long as a thread has not ended, *)
(* some thread can go on.                                                  *)
OwnerWaits(q) ==
  \/ pc[q] = "idle" /\ ~ MayStart(q) /\ ~ MayInfer(q) /\ ~ MayWait(q) /\ ~ MayLetGo(q)
  \/ pc[q] = "asleep" /\ ~ IsTaskDone(task[q])
  \/ pc[q] = "waitInQueue" /\ ~ MyTurn(q)
  \/ pc[q] = "destroy" /\ ~ AllEnded(q)

ExecutorWaits(e) ==
  \/ /\ pc[e] = "fetch" /\ taskQueue[e] = <<>> /\ e \notin isStopped
     /\ \/ \E q \in Request : ~ request[q].destroyed
        \/ e = taskExecutor /\ pc[callbackExecutor] # "ended"
  \/ pc[e] = "run" /\ ~ CanRun(task[e])
  \/ pc[e] = "destroy" /\ ~ AllEnded(Of(e))

Ended(t) == pc[t] = "ended"

NoDeadlock ==
  /\ \A q \in Request : OwnerWaits(q) \/ Ended(q)
  /\ \A e \in Executor : ExecutorWaits(e) \/ Ended(e)
  => \A t \in Thread : Ended(t)

(* Every call comes back, so that owners can let go; then the requests are *)
(* destroyed, and the executors end their threads with empty queues.       *)
EverythingEnds ==
  <>(\A e \in Executor : pc[e] = "ended" /\ taskQueue[e] = <<>>)
=============================================================================
