------------------------ MODULE AsyncRequest_proofs ------------------------
(***************************************************************************)
(* Theorems about AsyncRequest for any number of requests and inferences,  *)
(* when no owner waits while a callback starts the next inference.         *)
(*                                                                         *)
(* The inductive invariant says of each task where it is (in the queue of  *)
(* an executor, in its hands, or nowhere) and in which status that leaves  *)
(* it; and of each request that at most one of its tasks is live, from its *)
(* start to its callback, that this is the last one started, and at which  *)
(* lines of the threads there is none.                                     *)
(*                                                                         *)
(* A second invariant, Promises, adds what became of the inferences: with  *)
(* it the requests implement module Completion.  A third one, GoingOn,     *)
(* says that nothing a thread waits for fails to come.                     *)
(***************************************************************************)
EXTENDS AsyncRequest, SequenceTheorems, TLAPS

Starting  == {"setBusy", "reset", "initNext", "resetStages", "startTask", "refuse"}
Inferring == {"setBusySync", "occupySync", "lock", "waitInQueue", "inferringSync", "unlock"}
Waiting   == {"Wait", "onWait", "asleep", "awake"}

(* Of the executor of callbacks, from the call of the callback on.         *)
AfterCall == Starting \cup {"StartAsync", "called", "destroy", "failure", "failed",
                            "threw", "done"}

OwnerAt    == {"idle", "StartAsync", "InferSync", "destroy", "ended"}
                \cup Starting \cup Inferring \cup Waiting
TaskAt     == {"fetch", "run", "lambda", "inferring", "inferred", "skipCallback",
               "startCallback", "failure", "failed", "threw", "done", "ended"}
CallbackAt == {"fetch", "run", "lambda", "unbusy", "runCallback", "ended"} \cup AfterCall

RequestFields ==
  [busy : BOOLEAN, async : Task \cup {NoTask}, current : Task, created : 0 .. 2,
   code : {"OK", "GENERAL_ERROR"}, exception : BOOLEAN, destroyed : BOOLEAN]
TaskFields ==
  [status : Final \cup {"TS_INITIAL", "TS_BUSY", "TS_POSTPONED"}, stage : 0 .. 2,
   failed : BOOLEAN, onWait : BOOLEAN, run : Executor \cup {Nobody}]
ClientFields ==
  [owned : BOOLEAN, last : {"none", "StartAsync", "Infer"}, started : Nat,
   infers : Nat, waits : Nat, results : Seq({"OK", "GENERAL_ERROR"}),
   called : Seq({"OK", "GENERAL_ERROR"}),
   told : {"nothing", "OK", "GENERAL_ERROR", "INFER_NOT_STARTED"}]

Types ==
  /\ request \in [Request -> RequestFields]
  /\ tasks \in [Task -> TaskFields]
  /\ client \in [Request -> ClientFields]
  /\ taskQueue \in [Executor -> Seq(Task)]
  /\ syncQueue \in Seq(Request)
  /\ task \in [Thread -> Task \cup {NoTask}]
  /\ copy \in [Executor -> Task \cup {NoTask}]
  /\ pc \in [Thread -> OwnerAt \cup TaskAt \cup CallbackAt]

PlacesOK ==
  /\ \A q \in Request : pc[q] \in OwnerAt
  /\ pc[taskExecutor] \in TaskAt /\ pc[callbackExecutor] \in CallbackAt

(* An executor holds the first task of its queue, which has each task once.*)
QueueOf(e) == {taskQueue[e][i] : i \in DOMAIN taskQueue[e]}

TurnOK(e) ==
  /\ task[e] = NoTask <=> pc[e] \in {"fetch", "ended"}
  /\ task[e] # NoTask => taskQueue[e] # <<>> /\ task[e] = Head(taskQueue[e])
  /\ \A i, j \in DOMAIN taskQueue[e] : taskQueue[e][i] = taskQueue[e][j] => i = j

In1(x)   == x \in QueueOf(taskExecutor)
In2(x)   == x \in QueueOf(callbackExecutor)
Held1(x) == x = task[taskExecutor]
Held2(x) == x = task[callbackExecutor]
Queued(x) == In1(x) \/ In2(x)

Has(x, status, stage, run) ==
  tasks[x].status = status /\ tasks[x].stage = stage /\ tasks[x].run = run

(* A task in the hands of the executor of inferences.                      *)
FirstTurn(x) ==
  LET at == pc[taskExecutor]
      calls == x[1] \in Callback
  IN  /\ In1(x)
      /\ at = "run" => Has(x, "TS_BUSY", 2, Nobody)
      /\ at \in {"lambda", "inferring", "inferred", "failure", "failed", "threw"} =>
           Has(x, "TS_POSTPONED", 2, taskExecutor)
      /\ at \in {"skipCallback", "startCallback"} => Has(x, "TS_POSTPONED", 1, taskExecutor)
      /\ at = "done" => IF calls THEN Has(x, "TS_BUSY", 1, taskExecutor)
                        ELSE Has(x, "TS_POSTPONED", 0, taskExecutor)
      /\ at \in {"skipCallback", "threw"} => ~ calls
      /\ at = "startCallback" => calls
      /\ at \notin {"run", "lambda"} => copy[taskExecutor] = x
      /\ In2(x) <=> at = "done" /\ calls

(* A task in the hands of the executor of callbacks.                       *)
SecondTurn(x) ==
  LET at == pc[callbackExecutor]
  IN  /\ In2(x)
      /\ at # "run" => ~ In1(x)
      /\ at \in {"lambda", "unbusy", "runCallback"} =>
           Has(x, "TS_POSTPONED", 1, callbackExecutor)
      /\ at \in AfterCall => Has(x, "TS_POSTPONED", 0, callbackExecutor)
      /\ at \notin {"run", "lambda"} => copy[callbackExecutor] = x

TaskOK(x) ==
  /\ ~ Queued(x) => tasks[x].status \in Final \cup {"TS_INITIAL"} /\ tasks[x].run = Nobody
  /\ In1(x) /\ ~ Held1(x) => Has(x, "TS_BUSY", 2, Nobody) /\ ~ In2(x)
  /\ Held1(x) => FirstTurn(x)
  /\ In2(x) => x[1] \in Callback
  /\ In2(x) /\ (Held2(x) => pc[callbackExecutor] = "run") =>
       Has(x, "TS_BUSY", 1, IF In1(x) THEN taskExecutor ELSE Nobody)
  /\ Held2(x) => SecondTurn(x)

(* The task of an inference, from its start until its callback is called,  *)
(* or until an inference without a callback has failed.                    *)
Past(x) ==
  \/ Held2(x) /\ pc[callbackExecutor] \in AfterCall
  \/ Held1(x) /\ x[1] \notin Callback /\ pc[taskExecutor] \in {"failed", "threw"}

Live(x) == Queued(x) /\ ~ Past(x)

(* Until its inference has ended.                                          *)
Ahead(x) == In1(x) /\ (Held1(x) => pc[taskExecutor] \in {"run", "lambda", "inferring"})

TasksOf(q) == {x \in Task : x[1] = q /\ x[2] # 0}
NoneLive(q) == \A x \in TasksOf(q) : ~ Live(x)

(* The threads that may start an inference of request q.                   *)
Starters(q) == {t \in {q, callbackExecutor} : t = q \/ task[t] \in TasksOf(q)}

InferenceOK(q, x) ==
  /\ Queued(x) => x[2] <= request[q].created /\ client[q].started >= 1
                  /\ ~ request[q].destroyed
  /\ Live(x) => /\ request[q].async = x /\ request[q].current = x
                /\ q \notin Callback => request[q].busy
                /\ q \in Callback => Len(client[q].called) < Repeats[q]
  /\ Ahead(x) => request[q].busy /\ ~ request[q].exception
  /\ x[2] <= request[q].created /\ tasks[x].status = "TS_INITIAL" =>
       request[q].async = x /\ \E t \in Starters(q) : pc[t] \in {"resetStages", "startTask"}
  /\ tasks[x].onWait => pc[q] = "asleep" /\ task[q] = x

TasksOK(q) == \A x \in TasksOf(q) : InferenceOK(q, x)

FieldsOK(q) ==
  LET r == request[q] IN
    /\ r.async # NoTask => r.async \in TasksOf(q) /\ r.async[2] <= r.created
    /\ r.current # Sync(q) => r.current \in TasksOf(q) /\ r.current[2] <= r.created
    /\ \/ r.current \in {Sync(q), r.async}
       \/ \E t \in Starters(q) : pc[t] = "resetStages"
    /\ r.destroyed => pc[q] = "ended"
    /\ client[q].started = 0 => client[q].called = <<>>

StartOK(q) ==
  LET r == request[q] IN
    \A t \in Starters(q) :
      /\ pc[t] \in Starting => NoneLive(q)
      /\ pc[t] \in {"reset", "initNext", "resetStages", "startTask"} => r.busy
      /\ pc[t] \in {"initNext", "resetStages", "startTask"} => ~ r.exception
      /\ pc[t] \in {"resetStages", "startTask"} => r.async # NoTask /\ ~ Queued(r.async)
      /\ pc[t] = "startTask" => r.current = r.async /\ tasks[r.async].stage = 2

OwnerOK(q) ==
  /\ pc[q] \in Inferring \cup {"awake"} => NoneLive(q)
  /\ q \in Callback /\ pc[q] \in Starting \cup Inferring \cup {"StartAsync", "InferSync"} =>
       client[q].started = 0
  /\ q \in Callback /\ pc[q] \in Waiting => Len(client[q].called) >= Repeats[q]
  /\ pc[q] \in {"onWait", "asleep"} => task[q] = request[q].current

CallbackOK(q) ==
  task[callbackExecutor] \in TasksOf(q) =>
    /\ pc[callbackExecutor] \in Starting \cup {"StartAsync"} =>
         NoneLive(q) /\ Len(client[q].called) < Repeats[q]
    /\ pc[callbackExecutor] = "failure" => \A x \in TasksOf(q) : ~ Ahead(x)

SyncOK ==
  /\ Len(syncQueue) <= MAX_NUMBER_OF_TASKS_IN_QUEUE
  /\ \A q \in Request :
       /\ pc[q] = "waitInQueue" => \E i \in DOMAIN syncQueue : syncQueue[i] = q
       /\ pc[q] \in {"inferringSync", "unlock"} => syncQueue # <<>> /\ Head(syncQueue) = q

QueuesOK ==
  /\ TurnOK(taskExecutor) /\ TurnOK(callbackExecutor)
  /\ \A e \in Executor : \A x \in QueueOf(e) : x[2] # 0

RequestOK(q) ==
  /\ \A x \in TasksOf(q) : TaskOK(x)
  /\ TasksOK(q) /\ FieldsOK(q) /\ StartOK(q) /\ OwnerOK(q) /\ CallbackOK(q)

IInv == Types /\ PlacesOK /\ QueuesOK /\ SyncOK /\ \A q \in Request : RequestOK(q)

-----------------------------------------------------------------------------
(* Tasks, and where they are.                                              *)

LEMMA TaskPair ==
  ASSUME NEW x \in Task
  PROVE  x[1] \in Request /\ x[2] \in 0 .. 2 /\ x = <<x[1], x[2]>> /\ x # NoTask
<1>1. PICK q \in Request, i \in 0 .. 2 : x = <<q, i>>
  BY DEF Task
<1>2. x # NoTask
  BY <1>1 DEF NoTask
<1> QED BY <1>1, <1>2

LEMMA TasksOfRequest ==
  ASSUME NEW q \in Request
  PROVE  /\ \A x \in TasksOf(q) : x \in Task /\ x[1] = q /\ x[2] \in 1 .. 2 /\ x # NoTask
                                  /\ x = <<q, x[2]>> /\ x # Sync(q)
         /\ \A i \in 1 .. 2 : <<q, i>> \in TasksOf(q)
         /\ Sync(q) \in Task /\ Sync(q) \notin TasksOf(q)
<1>1. \A x \in TasksOf(q) : x \in Task /\ x[1] = q /\ x[2] # 0
  BY DEF TasksOf
<1>2. \A x \in TasksOf(q) : x[2] \in 1 .. 2 /\ x # NoTask /\ x = <<q, x[2]>>
  BY <1>1, TaskPair
<1>3. \A i \in 0 .. 2 : <<q, i>> \in Task /\ <<q, i>>[1] = q /\ <<q, i>>[2] = i
  BY DEF Task
<1>4. \A i \in 1 .. 2 : <<q, i>> \in TasksOf(q)
  BY <1>3 DEF TasksOf
<1>5. Sync(q) \in Task /\ Sync(q)[2] = 0
  BY <1>3 DEF Sync
<1>6. Sync(q) \notin TasksOf(q)
  BY <1>5 DEF TasksOf
<1> QED BY <1>1, <1>2, <1>4, <1>5, <1>6

LEMMA TasksApart ==
  ASSUME NEW q \in Request, NEW x \in TasksOf(q)
  PROVE  \A u \in Request \ {q} : \A y \in TasksOf(u) : y \in Task /\ y # x
BY DEF TasksOf

LEMMA Threads ==
  /\ taskExecutor \in Executor /\ callbackExecutor \in Executor
  /\ taskExecutor # callbackExecutor
  /\ \A e \in Executor : e = taskExecutor \/ e = callbackExecutor
  /\ \A e \in Executor : e \in Thread /\ e \notin Request
  /\ \A q \in Request : q \in Thread /\ q \notin Executor
                        /\ q # taskExecutor /\ q # callbackExecutor
BY ThreadAssumption DEF Executor, Thread

(* A thread of an executor that is not between two turns holds the first   *)
(* task of its queue, which is the task of a request.                      *)
LEMMA Hold ==
  ASSUME Types, QueuesOK, NEW e \in Executor, pc[e] \notin {"fetch", "ended"}
  PROVE  /\ task[e] \in Task /\ task[e][2] # 0 /\ Of(e) = task[e][1] /\ Of(e) \in Request
         /\ task[e] \in TasksOf(Of(e))
         /\ taskQueue[e] \in Seq(Task) /\ taskQueue[e] # <<>>
         /\ task[e] = Head(taskQueue[e]) /\ task[e] \in QueueOf(e)
<1>1. TurnOK(e)
  BY Threads DEF QueuesOK
<1>2. task[e] # NoTask
  BY <1>1 DEF TurnOK
<1>3. task[e] \in Task
  BY <1>2, Threads DEF Types
<1>4. taskQueue[e] \in Seq(Task) /\ taskQueue[e] # <<>> /\ task[e] = Head(taskQueue[e])
  BY <1>1, <1>2 DEF TurnOK, Types
<1>5. 1 \in DOMAIN taskQueue[e] /\ Head(taskQueue[e]) = taskQueue[e][1]
  BY <1>4, LenProperties, EmptySeq, HeadTailProperties
<1>6. task[e] \in QueueOf(e)
  BY <1>4, <1>5 DEF QueueOf
<1>7. task[e][2] # 0
  BY <1>6 DEF QueuesOK
<1>8. Of(e) = task[e][1] /\ Of(e) \in Request
  BY <1>3, TaskPair, Threads DEF Of
<1> QED BY <1>3, <1>4, <1>6, <1>7, <1>8 DEF TasksOf

LEMMA HeldTwo ==
  ASSUME Types, QueuesOK, PlacesOK, NEW q \in Request, NEW x \in TasksOf(q)
  PROVE  /\ Held1(x) => In1(x) /\ pc[taskExecutor] \notin {"fetch", "ended"}
         /\ Held2(x) => In2(x) /\ pc[callbackExecutor] \notin {"fetch", "ended"}
<1>1. x # NoTask
  BY TasksOfRequest
<1>2. TurnOK(taskExecutor) /\ TurnOK(callbackExecutor)
  BY DEF QueuesOK
<1>3. /\ Held1(x) => pc[taskExecutor] \notin {"fetch", "ended"}
      /\ Held2(x) => pc[callbackExecutor] \notin {"fetch", "ended"}
  BY <1>1, <1>2 DEF TurnOK, Held1, Held2
<1>4. /\ Held1(x) => In1(x)
      /\ Held2(x) => In2(x)
  BY <1>3, Hold, Threads DEF Held1, Held2, In1, In2
<1> QED BY <1>3, <1>4

(* What the status of a task tells.                                        *)
LEMMA QueuedStatus ==
  ASSUME Types, QueuesOK, PlacesOK, NEW q \in Request, NEW x \in TasksOf(q), TaskOK(x)
  PROVE  /\ Queued(x) => tasks[x].status \in {"TS_BUSY", "TS_POSTPONED"}
         /\ ~ Queued(x) => tasks[x].status \notin {"TS_BUSY", "TS_POSTPONED"}
         /\ Ahead(x) => Live(x)
         /\ Past(x) => tasks[x].status = "TS_POSTPONED"
<1>1. /\ Held1(x) => In1(x) /\ pc[taskExecutor] \notin {"fetch", "ended"}
      /\ Held2(x) => In2(x) /\ pc[callbackExecutor] \notin {"fetch", "ended"}
  BY HeldTwo
<1>2. Held1(x) => tasks[x].status \in {"TS_BUSY", "TS_POSTPONED"}
  BY <1>1 DEF PlacesOK, TaskAt, TaskOK, FirstTurn, Has
<1>3. Held2(x) /\ pc[callbackExecutor] # "run" => tasks[x].status = "TS_POSTPONED"
  BY <1>1 DEF PlacesOK, CallbackAt, TaskOK, SecondTurn, Has
<1>4. In2(x) /\ (Held2(x) => pc[callbackExecutor] = "run") => tasks[x].status = "TS_BUSY"
  BY DEF TaskOK, Has
<1>5. In1(x) /\ ~ Held1(x) => tasks[x].status = "TS_BUSY"
  BY DEF TaskOK, Has
<1>6. Queued(x) => tasks[x].status \in {"TS_BUSY", "TS_POSTPONED"}
  BY <1>2, <1>3, <1>4, <1>5 DEF Queued
<1>7. ~ Queued(x) => tasks[x].status \notin {"TS_BUSY", "TS_POSTPONED"}
  BY DEF TaskOK, Final
<1>8. Ahead(x) => ~ Past(x)
  <2>1. Held2(x) /\ pc[callbackExecutor] \in AfterCall => ~ In1(x)
    BY DEF TaskOK, SecondTurn, AfterCall, Starting
  <2> QED BY <2>1 DEF Ahead, Past
<1>9. Past(x) => tasks[x].status = "TS_POSTPONED"
  <2>1. Held1(x) /\ pc[taskExecutor] \in {"failed", "threw"} => tasks[x].status = "TS_POSTPONED"
    BY DEF TaskOK, FirstTurn, Has
  <2>2. pc[callbackExecutor] \in AfterCall => pc[callbackExecutor] # "run"
    BY DEF AfterCall, Starting
  <2> QED BY <1>3, <2>1, <2>2 DEF Past
<1> QED BY <1>6, <1>7, <1>8, <1>9 DEF Ahead, Live, Queued

-----------------------------------------------------------------------------
(* What a step leaves alone.                                               *)

(* A task that stays where it is; the executor of callbacks may go on, on  *)
(* one side of the call.                                                   *)
Still(x) ==
  /\ In1(x)' <=> In1(x)
  /\ In2(x)' <=> In2(x)
  /\ Held1(x)' <=> Held1(x)
  /\ Held2(x)' <=> Held2(x)
  /\ Held1(x) => pc'[taskExecutor] = pc[taskExecutor] /\ copy'[taskExecutor] = copy[taskExecutor]
  /\ Held2(x) => /\ copy'[callbackExecutor] = copy[callbackExecutor]
                 /\ \/ pc'[callbackExecutor] = pc[callbackExecutor]
                    \/ {pc[callbackExecutor], pc'[callbackExecutor]} \subseteq AfterCall

SameStatus(x) ==
  /\ tasks'[x].status = tasks[x].status
  /\ tasks'[x].stage = tasks[x].stage
  /\ tasks'[x].run = tasks[x].run

LEMMA StillOK ==
  ASSUME NEW x, Still(x), SameStatus(x), TaskOK(x)
  PROVE  TaskOK(x)'
<1>1. FirstTurn(x) /\ Held1(x) => FirstTurn(x)'
  BY DEF Still, SameStatus, FirstTurn, Has
<1>2. SecondTurn(x) /\ Held2(x) => SecondTurn(x)'
  BY DEF Still, SameStatus, SecondTurn, Has, AfterCall, Starting
<1>3. /\ Queued(x)' <=> Queued(x)
      /\ (Held2(x) => pc[callbackExecutor] = "run")' <=> (Held2(x) => pc[callbackExecutor] = "run")
  BY DEF Still, Queued, AfterCall, Starting
<1> QED BY <1>1, <1>2, <1>3 DEF Still, SameStatus, TaskOK, Has

LEMMA StillLive ==
  ASSUME NEW x, Still(x)
  PROVE  /\ Queued(x)' <=> Queued(x)
         /\ Past(x)' <=> Past(x)
         /\ Live(x)' <=> Live(x)
         /\ Ahead(x)' <=> Ahead(x)
<1>1. Queued(x)' <=> Queued(x)
  BY DEF Still, Queued
<1>2. Past(x)' <=> Past(x)
  BY DEF Still, Past
<1>3. Ahead(x)' <=> Ahead(x)
  BY DEF Still, Ahead
<1> QED BY <1>1, <1>2, <1>3 DEF Live

(* A request that a step is not about.                                     *)
Elsewhere(q) ==
  /\ request'[q] = request[q] /\ client'[q] = client[q]
  /\ pc'[q] = pc[q] /\ task'[q] = task[q]
  /\ task[callbackExecutor] \in TasksOf(q) => pc'[callbackExecutor] = pc[callbackExecutor]
  /\ \A x \in TasksOf(q) : tasks'[x] = tasks[x] /\ Still(x)

LEMMA ElsewhereOK ==
  ASSUME NEW q \in Request, RequestOK(q), Elsewhere(q)
  PROVE  RequestOK(q)'
<1>1. \A x \in TasksOf(q) : TaskOK(x)'
  BY StillOK DEF RequestOK, Elsewhere, SameStatus
<1>2. \A x \in TasksOf(q) : /\ Queued(x)' <=> Queued(x)
                            /\ Live(x)' <=> Live(x)
                            /\ Ahead(x)' <=> Ahead(x)
                            /\ tasks'[x] = tasks[x]
  BY StillLive DEF Elsewhere
<1>3. Starters(q)' = Starters(q) /\ \A t \in Starters(q) : pc'[t] = pc[t]
  <2>1. \A x \in TasksOf(q) : task'[callbackExecutor] = x <=> task[callbackExecutor] = x
    BY DEF Elsewhere, Still, Held2
  <2>2. task'[callbackExecutor] \in TasksOf(q) <=> task[callbackExecutor] \in TasksOf(q)
    BY <2>1
  <2>3. task[callbackExecutor] \in TasksOf(q) => pc'[callbackExecutor] = pc[callbackExecutor]
    BY DEF Elsewhere, Still, Held2
  <2>4. TasksOf(q)' = TasksOf(q)
    BY DEF TasksOf
  <2> QED BY <2>2, <2>3, <2>4 DEF Starters, Elsewhere
<1>4. NoneLive(q)' <=> NoneLive(q)
  BY <1>2 DEF NoneLive, TasksOf
<1>5. TasksOK(q)'
  <2>1. TasksOK(q)
    BY DEF RequestOK
  <2> QED BY <1>2, <1>3, <2>1 DEF TasksOK, InferenceOK, Elsewhere, TasksOf
<1>6. FieldsOK(q)'
  BY <1>3 DEF RequestOK, FieldsOK, Elsewhere, TasksOf
<1>7. StartOK(q)'
  BY <1>2, <1>3, <1>4 DEF RequestOK, StartOK, Elsewhere, FieldsOK
<1>8. OwnerOK(q)'
  BY <1>4 DEF RequestOK, OwnerOK, Elsewhere
<1>9. CallbackOK(q)'
  BY <1>2, <1>3, <1>4 DEF RequestOK, CallbackOK, Elsewhere, Starters
<1> QED BY <1>1, <1>5, <1>6, <1>7, <1>8, <1>9 DEF RequestOK, TasksOf

(* A thread that goes on for its request, and changes no queue.            *)
OnlyFor(q) ==
  \A u \in Request \ {q} :
    /\ request'[u] = request[u] /\ client'[u] = client[u]
    /\ pc'[u] = pc[u] /\ task'[u] = task[u]
    /\ \A x \in TasksOf(u) : tasks'[x] = tasks[x]

Move(t, to) ==
  /\ pc' = [pc EXCEPT ![t] = to]
  /\ UNCHANGED taskQueue
  /\ \A e \in Executor : task'[e] = task[e] /\ (e # t => copy'[e] = copy[e])
  /\ OnlyFor(Of(t))
  /\ t \in Request => to \in OwnerAt
  /\ t = taskExecutor => to \in TaskAt
  /\ t = callbackExecutor => to \in CallbackAt
  /\ t \in Executor => {pc[t], to} \cap {"fetch", "ended"} = {}

LEMMA OtherOK ==
  ASSUME IInv, NEW t \in Thread, NEW u \in Request, u # t,
         t \in Executor => task[t] \notin TasksOf(u),
         \A v \in Thread : v # t => pc'[v] = pc[v],
         \A e \in Executor : e # t => copy'[e] = copy[e],
         request'[u] = request[u], client'[u] = client[u], task'[u] = task[u],
         \A x \in TasksOf(u) : /\ tasks'[x] = tasks[x]
                               /\ In1(x)' <=> In1(x)
                               /\ In2(x)' <=> In2(x)
                               /\ Held1(x)' <=> Held1(x)
                               /\ Held2(x)' <=> Held2(x)
  PROVE  RequestOK(u)' /\ Elsewhere(u)
<1>1. ASSUME NEW x \in TasksOf(u), NEW e \in Executor, x = task[e]
      PROVE  e # t
  BY <1>1
<1>2. \A x \in TasksOf(u) : Still(x)
  BY <1>1, Threads DEF Still, Held1, Held2
<1>3. task[callbackExecutor] \in TasksOf(u) => pc'[callbackExecutor] = pc[callbackExecutor]
  BY <1>1, Threads
<1>4. Elsewhere(u)
  BY <1>2, <1>3, Threads DEF Elsewhere
<1> QED BY <1>4, ElsewhereOK DEF IInv

LEMMA MoveOK ==
  ASSUME IInv, NEW t \in Thread, NEW to, Move(t, to)
  PROVE  /\ PlacesOK' /\ QueuesOK'
         /\ \A u \in Request \ {Of(t)} : RequestOK(u)' /\ Elsewhere(u)
         /\ \A u \in Thread : pc'[u] = IF u = t THEN to ELSE pc[u]
         /\ \A x : /\ In1(x)' <=> In1(x)
                   /\ In2(x)' <=> In2(x)
                   /\ Held1(x)' <=> Held1(x)
                   /\ Held2(x)' <=> Held2(x)
<1>1. \A u \in Thread : pc'[u] = IF u = t THEN to ELSE pc[u]
  BY DEF IInv, Types, Move
<1>2. PlacesOK'
  BY <1>1, Threads DEF IInv, PlacesOK, Move
<1>3. \A x : /\ In1(x)' <=> In1(x)
             /\ In2(x)' <=> In2(x)
             /\ Held1(x)' <=> Held1(x)
             /\ Held2(x)' <=> Held2(x)
  BY Threads DEF Move, In1, In2, Held1, Held2, QueueOf
<1>4. QueuesOK'
  <2>1. ASSUME NEW e \in Executor, TurnOK(e)
        PROVE  TurnOK(e)'
    BY <1>1, <2>1, Threads DEF Move, TurnOK
  <2> QED BY <2>1, Threads DEF IInv, QueuesOK, QueueOf, Move
<1>5. ASSUME NEW u \in Request \ {Of(t)}
      PROVE  RequestOK(u)' /\ Elsewhere(u)
  <2>1. u # t
    BY <1>5 DEF Of
  <2>2. t \in Executor => task[t] \notin TasksOf(u)
    <3>1. SUFFICES ASSUME t \in Executor, task[t] \in TasksOf(u) PROVE FALSE
      OBVIOUS
    <3>2. Of(t) = u
      BY <3>1, TasksOfRequest, Threads DEF Of
    <3> QED BY <3>2
  <2> QED BY <1>1, <1>3, <2>1, <2>2, OtherOK DEF Move, OnlyFor
<1> QED BY <1>1, <1>2, <1>3, <1>4, <1>5

(* Nothing happens to those that run Infer, or wait to.                    *)
LEMMA SyncStays ==
  ASSUME IInv, UNCHANGED syncQueue,
         \A q \in Request : \/ pc'[q] = pc[q]
                            \/ pc'[q] \notin {"waitInQueue", "inferringSync", "unlock"}
  PROVE  SyncOK'
BY DEF IInv, SyncOK

-----------------------------------------------------------------------------
(* StartAsync.  While the callback of a request runs its owner starts      *)
(* nothing: it has started the first inference.                            *)
LEMMA WhileCalledBack ==
  ASSUME IInv, NEW q \in Request, task[callbackExecutor] \in TasksOf(q)
  PROVE  /\ q \in Callback /\ client[q].started >= 1 /\ ~ request[q].destroyed
         /\ pc[q] \notin Starting \cup Inferring \cup {"StartAsync", "InferSync"}
<1> DEFINE x == task[callbackExecutor]
<1>1. Held2(x) /\ TaskOK(x) /\ x[1] = q
  BY TasksOfRequest DEF IInv, RequestOK, Held2
<1>2. In2(x) /\ q \in Callback
  BY <1>1 DEF TaskOK, SecondTurn
<1>3. Queued(x)
  BY <1>2 DEF Queued
<1>4. client[q].started >= 1 /\ ~ request[q].destroyed
  BY <1>3 DEF IInv, RequestOK, TasksOK, InferenceOK
<1>5. client[q].started # 0
  BY <1>4
<1> QED BY <1>2, <1>4, <1>5 DEF IInv, RequestOK, OwnerOK

LEMMA Begins ==
  ASSUME IInv, NEW t \in Thread, NEW q, q = Of(t), pc[t] \in Starting \cup {"StartAsync"}
  PROVE  /\ q \in Request /\ t \in Starters(q) /\ t # taskExecutor
         /\ t # q => t = callbackExecutor
         /\ \A u \in Starters(q) : u # t =>
              pc[u] \notin Starting \cup Inferring \cup Waiting \cup {"StartAsync", "InferSync"}
         /\ pc[q] \notin Inferring \cup Waiting
         /\ task[callbackExecutor] \in TasksOf(q) => t = callbackExecutor
         /\ q \in Callback => Len(client[q].called) < Repeats[q]
         /\ \A x \in TasksOf(q) : ~ tasks[x].onWait
<1>1. t \in Request \/ t = callbackExecutor
  <2>1. t # taskExecutor
    BY DEF IInv, PlacesOK, TaskAt, Starting
  <2> QED BY <2>1, Threads DEF Thread
<1>2. CASE t \in Request
  <2>1. q = t
    BY <1>2 DEF Of
  <2>2. task[callbackExecutor] \notin TasksOf(q)
    BY <1>2, <2>1, WhileCalledBack
  <2>3. pc[q] \notin Inferring \cup Waiting
    BY <2>1 DEF Starting, Inferring, Waiting
  <2>4. q \in Callback => Len(client[q].called) < Repeats[q]
    <3>1. SUFFICES ASSUME q \in Callback PROVE Len(client[q].called) < Repeats[q]
      OBVIOUS
    <3>2. client[q].started = 0
      BY <1>2, <2>1, <3>1 DEF IInv, RequestOK, OwnerOK
    <3>3. client[q].called = <<>>
      BY <1>2, <2>1, <3>2 DEF IInv, RequestOK, FieldsOK
    <3>4. Repeats[q] \in Nat \ {0}
      BY <1>2, <2>1, RequestAssumption
    <3> QED BY <3>3, <3>4
  <2>5. Starters(q) = {q}
    BY <2>2 DEF Starters
  <2>6. \A x \in TasksOf(q) : ~ tasks[x].onWait
    BY <1>2, <2>1, <2>3 DEF IInv, RequestOK, TasksOK, InferenceOK, Waiting
  <2> QED BY <1>2, <2>1, <2>2, <2>3, <2>4, <2>5, <2>6, Threads
<1>3. CASE t = callbackExecutor
  <2>1. pc[t] \notin {"fetch", "ended"}
    BY DEF Starting
  <2>2. q \in Request /\ task[t] \in TasksOf(q)
    BY <1>3, <2>1, Hold, Threads DEF IInv
  <2>3. q \in Callback
    BY <1>3, <2>2, WhileCalledBack
  <2>4. Len(client[q].called) < Repeats[q]
    BY <1>3, <2>2 DEF IInv, RequestOK, CallbackOK
  <2>5. pc[q] \notin Starting \cup Inferring \cup {"StartAsync", "InferSync"}
    BY <1>3, <2>2, WhileCalledBack
  <2>6. pc[q] \notin Waiting
    <3>1. Len(client[q].called) \in Nat /\ Repeats[q] \in Nat
      BY <2>2, RequestAssumption, LenProperties DEF IInv, Types, ClientFields
    <3>2. ~ Len(client[q].called) >= Repeats[q]
      BY <2>4, <3>1
    <3> QED BY <2>2, <2>3, <3>2 DEF IInv, RequestOK, OwnerOK
  <2>7. \A x \in TasksOf(q) : ~ tasks[x].onWait
    BY <2>2, <2>6 DEF IInv, RequestOK, TasksOK, InferenceOK, Waiting
  <2> QED BY <1>3, <2>2, <2>4, <2>5, <2>6, <2>7, Threads DEF Starters
<1> QED BY <1>1, <1>2, <1>3

(* Nobody starts an inference of a busy request.                           *)
LEMMA NotBusy ==
  ASSUME IInv, NEW t \in Thread, NEW q \in Request, q = Of(t), ~ request[q].busy,
         pc[t] = "StartAsync" \/ (t = q /\ pc[t] = "InferSync")
  PROVE  NoneLive(q)
<1>1. CASE q \notin Callback
  BY <1>1 DEF IInv, RequestOK, TasksOK, InferenceOK, NoneLive
<1>2. CASE q \in Callback /\ t = q
  <2>1. client[q].started = 0
    BY <1>2 DEF IInv, RequestOK, OwnerOK
  <2>2. ~ client[q].started >= 1
    BY <2>1
  <2>3. \A x \in TasksOf(q) : ~ Queued(x)
    BY <2>2 DEF IInv, RequestOK, TasksOK, InferenceOK
  <2> QED BY <2>3 DEF NoneLive, Live
<1>3. CASE t # q
  <2>1. t = callbackExecutor /\ t \in Starters(q)
    BY <1>3, Begins
  <2>2. task[callbackExecutor] \in TasksOf(q)
    BY <2>1, Threads DEF Starters
  <2> QED BY <1>3, <2>1, <2>2 DEF IInv, RequestOK, CallbackOK
<1> QED BY <1>1, <1>2, <1>3

(* What all steps of StartAsync but that which starts the task leave.      *)
LEMMA Starts ==
  ASSUME IInv, NEW t \in Thread, NEW q, q = Of(t), NEW to,
         pc[t] \in Starting \cup {"StartAsync"}, to \in Starting \cup {Back(t)},
         pc[t] = "StartAsync" => to = Back(t) \/ ~ request[q].busy,
         Move(t, to), UNCHANGED <<client, copy>>,
         \A x \in TasksOf(q) : tasks'[x].status = tasks[x].status
  PROVE  /\ \A x \in TasksOf(q) : Still(x) /\ (SameStatus(x) => TaskOK(x)')
         /\ \A x \in TasksOf(q) : /\ Queued(x)' <=> Queued(x)
                                  /\ Live(x)' <=> Live(x)
                                  /\ Ahead(x)' <=> Ahead(x)
         /\ pc[t] \in Starting \/ to \in Starting =>
              NoneLive(q) /\ NoneLive(q)' /\ \A x \in TasksOf(q) : ~ Live(x) /\ ~ Ahead(x)
         /\ Starters(q)' = Starters(q) /\ \A u \in Starters(q) : u # t => pc'[u] = pc[u]
         /\ pc'[t] = to
         /\ OwnerOK(q)' /\ CallbackOK(q)'
<1>1. /\ q \in Request /\ t \in Starters(q) /\ t # taskExecutor
      /\ t # q => t = callbackExecutor
      /\ \A u \in Starters(q) : u # t =>
           pc[u] \notin Starting \cup Inferring \cup Waiting \cup {"StartAsync", "InferSync"}
      /\ pc[q] \notin Inferring \cup Waiting
      /\ task[callbackExecutor] \in TasksOf(q) => t = callbackExecutor
      /\ q \in Callback => Len(client[q].called) < Repeats[q]
  BY Begins
<1>2. /\ \A u \in Thread : pc'[u] = IF u = t THEN to ELSE pc[u]
      /\ \A x : /\ In1(x)' <=> In1(x)
                /\ In2(x)' <=> In2(x)
                /\ Held1(x)' <=> Held1(x)
                /\ Held2(x)' <=> Held2(x)
  BY MoveOK
<1>3. t = callbackExecutor => {pc[t], to} \subseteq AfterCall
  BY Threads DEF AfterCall, Back
<1>4. \A x \in TasksOf(q) : Still(x)
  BY <1>1, <1>2, <1>3, Threads DEF Still
<1>5. \A x \in TasksOf(q) : SameStatus(x) => TaskOK(x)'
  BY <1>1, <1>4, StillOK DEF IInv, RequestOK
<1>6. \A x \in TasksOf(q) : /\ Queued(x)' <=> Queued(x)
                            /\ Live(x)' <=> Live(x)
                            /\ Ahead(x)' <=> Ahead(x)
  BY <1>4, StillLive
<1>7. pc[t] \in Starting \/ to \in Starting => NoneLive(q)
  <2>1. CASE pc[t] \in Starting
    BY <1>1, <2>1 DEF IInv, RequestOK, StartOK
  <2>2. Back(t) \notin Starting
    BY DEF Back, Starting
  <2>3. CASE pc[t] = "StartAsync" /\ to \in Starting
    BY <1>1, <2>2, <2>3, NotBusy
  <2> QED BY <2>1, <2>3
<1>8. NoneLive(q) => NoneLive(q)' /\ \A x \in TasksOf(q) : ~ Live(x) /\ ~ Ahead(x)
  <2>1. \A x \in TasksOf(q) : Ahead(x) => Live(x)
    BY <1>1, QueuedStatus DEF IInv, RequestOK
  <2>2. TasksOf(q)' = TasksOf(q)
    BY DEF TasksOf
  <2> QED BY <1>6, <2>1, <2>2 DEF NoneLive
<1>9. Starters(q)' = Starters(q) /\ \A u \in Starters(q) : u # t => pc'[u] = pc[u]
  <2>1. task'[callbackExecutor] = task[callbackExecutor]
    BY Threads DEF Move
  <2>2. TasksOf(q)' = TasksOf(q) /\ Starters(q) \subseteq Thread
    BY <1>1, Threads DEF TasksOf, Starters, Thread
  <2>3. Starters(q)' = Starters(q)
    BY <1>1, <2>1, <2>2, Threads DEF Starters
  <2> QED BY <1>2, <2>2, <2>3
<1>10. pc'[t] = to
  BY <1>2
<1>11. OwnerOK(q)'
  <2>1. pc'[q] \in Starting \cup {"idle"} \/ (pc'[q] = pc[q] /\ q # t)
    BY <1>1, <1>2, Threads DEF Back
  <2>2. pc'[q] \notin Inferring \cup Waiting
    BY <1>1, <2>1 DEF Starting, Inferring, Waiting
  <2>3. ASSUME q \in Callback, pc'[q] \in Starting \cup Inferring \cup {"StartAsync", "InferSync"}
        PROVE  client'[q].started = 0
    <3>1. pc[q] \in Starting \cup {"StartAsync", "InferSync"}
      BY <1>1, <2>1, <2>2, <2>3, <1>2, Threads
    <3> QED BY <1>1, <2>3, <3>1 DEF IInv, RequestOK, OwnerOK
  <2> QED BY <2>2, <2>3 DEF OwnerOK, Waiting
<1>12. CallbackOK(q)'
  <2>1. SUFFICES ASSUME task'[callbackExecutor] \in TasksOf(q)
                 PROVE  /\ pc'[callbackExecutor] \in Starting \cup {"StartAsync"} =>
                             NoneLive(q)' /\ Len(client'[q].called) < Repeats[q]
                        /\ pc'[callbackExecutor] # "failure"
    BY DEF CallbackOK, TasksOf
  <2>2. task[callbackExecutor] \in TasksOf(q)
    BY <2>1, Threads DEF Move
  <2>3. t = callbackExecutor /\ q \in Callback
    BY <1>1, <2>2, WhileCalledBack
  <2>4. pc'[callbackExecutor] = to /\ to \in Starting \cup {"called"}
    BY <1>10, <2>3, Threads DEF Back
  <2>5. to # "failure" /\ to # "StartAsync"
    BY <2>4 DEF Starting
  <2> QED BY <1>1, <1>7, <1>8, <2>3, <2>4, <2>5
<1> QED BY <1>4, <1>5, <1>6, <1>7, <1>8, <1>9, <1>10, <1>11, <1>12

(* What an action has to leave of the invariant, besides the types.        *)
Preserved == PlacesOK' /\ QueuesOK' /\ SyncOK' /\ \A u \in Request : RequestOK(u)'

(* The steps that change flags of the request at most.                     *)
LEMMA StartsFlags ==
  ASSUME IInv, NEW t \in Thread, NEW q, q = Of(t), NEW to,
         pc[t] \in {"StartAsync", "setBusy", "reset", "refuse"},
         to \in {"setBusy", "reset", "initNext", Back(t)},
         pc[t] = "StartAsync" => to = Back(t) \/ ~ request[q].busy,
         Move(t, to), UNCHANGED <<client, copy, tasks, task, syncQueue>>,
         \/ request'[q] = request[q]
         \/ /\ NoneLive(q)
            /\ request'[q].async = request[q].async
            /\ request'[q].current = request[q].current
            /\ request'[q].created = request[q].created
            /\ request'[q].destroyed = request[q].destroyed,
         to \in {"reset", "initNext"} => request'[q].busy,
         to = "initNext" => ~ request'[q].exception
  PROVE  Preserved
<1>1. pc[t] \in Starting \cup {"StartAsync"} /\ to \in Starting \cup {Back(t)}
  BY DEF Starting
<1>2. /\ q \in Request /\ t \in Starters(q)
      /\ \A u \in Starters(q) : u # t =>
           pc[u] \notin Starting \cup Inferring \cup Waiting \cup {"StartAsync", "InferSync"}
      /\ \A x \in TasksOf(q) : ~ tasks[x].onWait
  BY <1>1, Begins
<1>3. /\ \A x \in TasksOf(q) : Still(x) /\ (SameStatus(x) => TaskOK(x)')
      /\ \A x \in TasksOf(q) : /\ Queued(x)' <=> Queued(x)
                               /\ Live(x)' <=> Live(x)
                               /\ Ahead(x)' <=> Ahead(x)
      /\ pc[t] \in Starting \/ to \in Starting =>
           NoneLive(q) /\ NoneLive(q)' /\ \A x \in TasksOf(q) : ~ Live(x) /\ ~ Ahead(x)
      /\ Starters(q)' = Starters(q) /\ \A u \in Starters(q) : u # t => pc'[u] = pc[u]
      /\ pc'[t] = to
      /\ OwnerOK(q)' /\ CallbackOK(q)'
  BY <1>1, Starts
<1>4. \A x \in TasksOf(q) : TaskOK(x)'
  BY <1>3 DEF SameStatus
<1>5. \A u \in Starters(q) : pc[u] \notin {"initNext", "resetStages", "startTask"}
                             /\ pc'[u] \notin {"resetStages", "startTask"}
  BY <1>2, <1>3 DEF Starting, Back
<1>6. TasksOf(q)' = TasksOf(q)
  BY DEF TasksOf
<1>7. /\ request'[q].async = request[q].async
      /\ request'[q].current = request[q].current
      /\ request'[q].created = request[q].created
      /\ request'[q].destroyed = request[q].destroyed
  OBVIOUS
<1>8. TasksOK(q)'
  <2>1. ASSUME NEW x \in TasksOf(q)
        PROVE  /\ Queued(x) => x[2] <= request[q].created /\ client[q].started >= 1
                               /\ ~ request[q].destroyed
               /\ Live(x) => /\ request[q].async = x /\ request[q].current = x
                             /\ q \notin Callback => request[q].busy
                             /\ q \in Callback => Len(client[q].called) < Repeats[q]
               /\ Ahead(x) => request[q].busy /\ ~ request[q].exception
               /\ ~ (x[2] <= request[q].created /\ tasks[x].status = "TS_INITIAL")
    BY <1>2, <1>5 DEF IInv, RequestOK, TasksOK, InferenceOK
  <2>2. \A x \in TasksOf(q) : NoneLive(q) => ~ Live(x) /\ ~ Ahead(x)
    BY <1>2, QueuedStatus DEF NoneLive, IInv, RequestOK
  <2> QED BY <1>2, <1>3, <1>6, <1>7, <2>1, <2>2 DEF TasksOK, InferenceOK
<1>9. FieldsOK(q)'
  <2>1. FieldsOK(q) /\ request[q].current \in {Sync(q), request[q].async}
    BY <1>2, <1>5 DEF IInv, RequestOK, FieldsOK
  <2>2. request[q].destroyed => pc[q] = "ended" /\ t # q
    BY <1>1, <2>1 DEF FieldsOK, Starting
  <2>3. t # q => pc'[q] = pc[q]
    BY <1>2, <1>3, MoveOK, Threads
  <2> QED BY <1>6, <1>7, <2>1, <2>2, <2>3 DEF FieldsOK
<1>10. StartOK(q)'
  <2>1. SUFFICES ASSUME NEW u \in Starters(q)
                 PROVE  /\ pc'[u] \in Starting => NoneLive(q)'
                        /\ pc'[u] \in {"reset", "initNext"} => request'[q].busy
                        /\ pc'[u] = "initNext" => ~ request'[q].exception
    BY <1>3, <1>5 DEF StartOK
  <2>2. CASE u = t
    BY <1>3, <2>2
  <2>3. CASE u # t
    BY <1>2, <1>3, <2>3 DEF Starting
  <2> QED BY <2>2, <2>3
<1>11. RequestOK(q)'
  BY <1>3, <1>4, <1>6, <1>8, <1>9, <1>10 DEF RequestOK
<1>12. SyncOK'
  <2>1. to \notin {"waitInQueue", "inferringSync", "unlock"}
    BY DEF Back
  <2> QED BY <2>1, MoveOK, SyncStays, Threads
<1> QED BY <1>2, <1>11, <1>12, MoveOK DEF Preserved

(* A step of StartAsync moves its thread, and no other.                    *)
LEMMA StartsMove ==
  ASSUME IInv, NEW t \in Thread, NEW q, q = Of(t), NEW from, NEW to, Go(t, from, to),
         from \in Starting \cup {"StartAsync"}, to \in Starting \cup {Back(t)},
         UNCHANGED <<taskQueue, task, copy, client>>,
         \A u \in Request \ {q} : /\ request'[u] = request[u]
                                  /\ \A x \in TasksOf(u) : tasks'[x] = tasks[x]
  PROVE  Move(t, to) /\ pc[t] \in Starting \cup {"StartAsync"} /\ q \in Request
<1>1. pc[t] = from /\ pc' = [pc EXCEPT ![t] = to]
  BY DEF Go
<1>2. q \in Request /\ (t # q => t = callbackExecutor)
  BY <1>1, Begins
<1>3. \A u \in Request \ {q} : u # t
  BY <1>2, Threads
<1>4. OnlyFor(q)
  BY <1>1, <1>3, Threads DEF OnlyFor, IInv, Types
<1>5. t # taskExecutor
  BY <1>1, Begins
<1>6. /\ t \in Request => to \in OwnerAt
      /\ t = callbackExecutor => to \in CallbackAt
      /\ {pc[t], to} \cap {"fetch", "ended"} = {}
  BY <1>1, <1>2, Threads DEF Back, OwnerAt, CallbackAt, AfterCall, Starting
<1> QED BY <1>1, <1>2, <1>4, <1>5, <1>6 DEF Move

LEMMA FlagsOK ==
  ASSUME IInv, NEW t \in Thread, NEW q, q = Of(t),
         \/ IsRequestBusy(t) \/ SetBusy(t) \/ ResetCallback(t) \/ Refuse(t)
  PROVE  Preserved
<1> DEFINE Fields == /\ request'[q].async = request[q].async
                     /\ request'[q].current = request[q].current
                     /\ request'[q].created = request[q].created
                     /\ request'[q].destroyed = request[q].destroyed
           Others == \A u \in Request \ {q} : /\ request'[u] = request[u]
                                              /\ \A x \in TasksOf(u) : tasks'[x] = tasks[x]
<1>0. /\ request \in [Request -> RequestFields]
      /\ {"setBusy", "reset", "initNext", "refuse"} \subseteq Starting
  BY DEF IInv, Types, Starting
<1>a. ASSUME pc[t] \in {"setBusy", "reset", "initNext", "refuse"}
      PROVE  q \in Request /\ NoneLive(q) /\ (pc[t] = "reset" => request[q].busy)
  BY <1>0, <1>a, Begins DEF IInv, RequestOK, StartOK
<1>1. CASE IsRequestBusy(t)
  <2>1. PICK to : /\ Go(t, "StartAsync", to)
                  /\ to = Back(t) \/ (to = "setBusy" /\ ~ request[q].busy)
    BY <1>1 DEF IsRequestBusy
  <2>2. UNCHANGED <<request, tasks, taskQueue, syncQueue, task, copy, client>>
    BY <1>1 DEF IsRequestBusy
  <2>3. to \in Starting \cup {Back(t)} /\ pc[t] = "StartAsync"
    BY <1>0, <2>1 DEF Go
  <2>4. Move(t, to)
    BY <2>1, <2>2, <2>3, StartsMove
  <2>5. to \notin {"reset", "initNext"}
    BY <2>1 DEF Back
  <2> QED BY <2>1, <2>2, <2>3, <2>4, <2>5, StartsFlags
<1>2. CASE SetBusy(t)
  <2>1. Go(t, "setBusy", "reset") /\ pc[t] = "setBusy"
    BY <1>2 DEF SetBusy, Go
  <2>2. UNCHANGED <<tasks, taskQueue, syncQueue, task, copy, client>>
    BY <1>2 DEF SetBusy
  <2>3. Others /\ Fields /\ request'[q].busy
    BY <1>0, <1>2, <1>a, <2>1 DEF SetBusy, RequestFields
  <2>4. Move(t, "reset")
    BY <1>0, <2>1, <2>2, <2>3, StartsMove
  <2> QED BY <1>a, <2>1, <2>2, <2>3, <2>4, StartsFlags
<1>3. CASE ResetCallback(t)
  <2>1. Go(t, "reset", "initNext") /\ pc[t] = "reset"
    BY <1>3 DEF ResetCallback, Go
  <2>2. UNCHANGED <<tasks, taskQueue, syncQueue, task, copy, client>>
    BY <1>3 DEF ResetCallback
  <2>3. Others /\ Fields /\ request'[q].busy = request[q].busy /\ ~ request'[q].exception
    BY <1>0, <1>3, <1>a, <2>1 DEF ResetCallback, RequestFields
  <2>4. Move(t, "initNext")
    BY <1>0, <2>1, <2>2, <2>3, StartsMove
  <2> QED BY <1>a, <2>1, <2>2, <2>3, <2>4, StartsFlags
<1>4. CASE Refuse(t)
  <2>1. Go(t, "refuse", Back(t)) /\ pc[t] = "refuse"
    BY <1>4 DEF Refuse, Go
  <2>2. UNCHANGED <<tasks, taskQueue, syncQueue, task, copy, client>>
    BY <1>4 DEF Refuse
  <2>3. Others /\ Fields
    BY <1>0, <1>4, <1>a, <2>1 DEF Refuse, RequestFields
  <2>4. Move(t, Back(t))
    BY <1>0, <2>1, <2>2, <2>3, StartsMove
  <2>5. Back(t) \notin {"reset", "initNext"}
    BY DEF Back
  <2> QED BY <1>a, <2>1, <2>2, <2>3, <2>4, <2>5, StartsFlags
<1> QED BY <1>1, <1>2, <1>3, <1>4

(* The task InitNextAsyncTask takes: two are enough, since at most one of  *)
(* the tasks of a request waits for its callback to end.                   *)
LEMMA NextTask ==
  ASSUME IInv, NEW t \in Thread, NEW q, q = Of(t), InitNextAsyncTask(t)
  PROVE  /\ q \in Request /\ NoneLive(q)
         /\ request[q].current \in {Sync(q), request[q].async}
         /\ \E x \in TasksOf(q), n \in 0 .. 2 :
              /\ request' = [request EXCEPT ![q].async = x, ![q].created = n]
              /\ ~ Queued(x) /\ x[2] <= n
              /\ n = request[q].created \/ (n = request[q].created + 1 /\ x = <<q, n>>)
<1> DEFINE r == request[q]
           need == NeedsTask(q)
           new == need /\ Ready(q) = {}
<1>1. pc[t] = "initNext" /\ pc[t] \in Starting \cup {"StartAsync"}
  BY DEF InitNextAsyncTask, Go, Starting
<1>2. /\ q \in Request /\ t \in Starters(q)
      /\ \A u \in Starters(q) : u # t => pc[u] \notin Starting
      /\ \A x \in TasksOf(q) : ~ tasks[x].onWait
  BY <1>1, Begins
<1>3. NoneLive(q)
  BY <1>1, <1>2 DEF IInv, RequestOK, StartOK, Starting
<1>4. \A u \in Starters(q) : pc[u] \notin {"resetStages", "startTask"}
  BY <1>1, <1>2 DEF Starting
<1>5. request \in [Request -> RequestFields] /\ r \in RequestFields /\ r.created \in 0 .. 2
  BY <1>2 DEF IInv, Types, RequestFields
<1>6. /\ r.async # NoTask => r.async \in TasksOf(q) /\ r.async[2] <= r.created
      /\ r.current = Sync(q) \/ (r.current \in TasksOf(q) /\ r.current[2] <= r.created)
      /\ r.current \in {Sync(q), r.async}
  BY <1>2, <1>4 DEF IInv, RequestOK, FieldsOK
<1>7. \A x \in TasksOf(q) : /\ ~ Queued(x) => tasks[x].status \notin {"TS_BUSY", "TS_POSTPONED"}
                            /\ Queued(x) => tasks[x].status = "TS_POSTPONED"
                            /\ Queued(x) => x[2] <= r.created
  <2>1. \A x \in TasksOf(q) : Queued(x) => Past(x)
    BY <1>3 DEF NoneLive, Live
  <2> QED BY <1>2, <2>1, QueuedStatus DEF IInv, RequestOK, TasksOK, InferenceOK
<1>8. \A x \in TasksOf(q) : x[2] <= r.created /\ ~ Queued(x) => tasks[x].status \in Final
  <2>1. ASSUME NEW x \in TasksOf(q), x[2] <= r.created, ~ Queued(x)
        PROVE  tasks[x].status \in Final
    <3>1. tasks[x].status # "TS_INITIAL"
      BY <1>2, <1>4, <2>1 DEF IInv, RequestOK, TasksOK, InferenceOK
    <3> QED BY <1>2, <2>1, <3>1 DEF IInv, RequestOK, TaskOK
  <2> QED BY <2>1
<1>9. \A x, y \in TasksOf(q) : Queued(x) /\ Queued(y) => x = y
  <2>1. \A x \in TasksOf(q) : x[1] = q /\ TaskOK(x) /\ (Queued(x) => Past(x))
    BY <1>2, <1>3, TasksOfRequest DEF IInv, RequestOK, NoneLive, Live
  <2>2. \A x \in TasksOf(q) : Held2(x) => q \in Callback
    BY <2>1 DEF TaskOK, SecondTurn
  <2> QED BY <2>1, <2>2 DEF Past, Held1, Held2
<1>10. /\ request' = [request EXCEPT
            ![q].async = CASE ~ need -> r.async
                           [] new -> <<q, r.created + 1>>
                           [] OTHER -> <<q, Min(Ready(q))>>,
            ![q].created = IF new THEN @ + 1 ELSE @]
  BY DEF InitNextAsyncTask
<1>11. CASE ~ need
  <2>1. request' = [request EXCEPT ![q].async = r.async, ![q].created = r.created]
    BY <1>5, <1>10, <1>11
  <2>2. r.current # Sync(q) /\ tasks[r.current].status # "TS_POSTPONED"
    BY <1>11 DEF NeedsTask
  <2>3. r.async = r.current /\ r.async \in TasksOf(q) /\ r.async[2] <= r.created
    BY <1>6, <2>2
  <2>4. ~ Queued(r.async)
    BY <1>7, <2>2, <2>3
  <2> QED BY <1>2, <1>3, <1>5, <1>6, <2>1, <2>3, <2>4
<1>12. CASE new
  <2> DEFINE n == r.created + 1
  <2>1. request' = [request EXCEPT ![q].async = <<q, n>>, ![q].created = n]
    BY <1>5, <1>10, <1>12
  <2>2. ASSUME NEW i \in 1 .. r.created
        PROVE  <<q, i>> = r.current \/ Queued(<<q, i>>)
    <3>0. i \in 1 .. 2
      BY <1>5
    <3>1. <<q, i>> \in TasksOf(q) /\ <<q, i>>[2] = i
      BY <1>2, <3>0, TasksOfRequest
    <3>2. i \notin Ready(q)
      BY <1>12
    <3> QED BY <1>2, <1>8, <3>1, <3>2 DEF Ready
  <2>3. r.created # 2
    <3>1. SUFFICES ASSUME r.created = 2 PROVE FALSE
      OBVIOUS
    <3>2. <<q, 1>> \in TasksOf(q) /\ <<q, 2>> \in TasksOf(q) /\ <<q, 1>> # <<q, 2>>
      BY <1>2, TasksOfRequest
    <3>3. /\ <<q, 1>> = r.current \/ Queued(<<q, 1>>)
          /\ <<q, 2>> = r.current \/ Queued(<<q, 2>>)
      BY <2>2, <3>1
    <3>4. r.current # Sync(q) => r.current \in TasksOf(q) /\ Queued(r.current)
      BY <1>6, <1>7, <1>12 DEF NeedsTask
    <3>5. Sync(q) \notin TasksOf(q)
      BY <1>2, TasksOfRequest
    <3> QED BY <1>9, <3>2, <3>3, <3>4, <3>5
  <2>4. n \in 1 .. 2 /\ <<q, n>> \in TasksOf(q) /\ <<q, n>>[2] = n
    <3>1. n \in 1 .. 2
      BY <1>5, <2>3
    <3> QED BY <1>2, <3>1, TasksOfRequest
  <2>5. ~ Queued(<<q, n>>)
    BY <1>5, <1>7, <2>4
  <2> HIDE DEF n
  <2>6. n <= n /\ n \in 0 .. 2
    BY <2>4
  <2> QED BY <1>2, <1>3, <1>6, <2>1, <2>4, <2>5, <2>6 DEF n
<1>13. CASE need /\ ~ new
  <2> DEFINE i == Min(Ready(q))
  <2>1. request' = [request EXCEPT ![q].async = <<q, i>>, ![q].created = r.created]
    BY <1>5, <1>10, <1>13
  <2>2. Ready(q) # {} /\ Ready(q) \subseteq 1 .. 2
    BY <1>5, <1>13 DEF Ready
  <2>3. i \in Ready(q)
    <3>1. \E j \in Ready(q) : \A k \in Ready(q) : j <= k
      BY <2>2
    <3> QED BY <3>1 DEF Min
  <2> HIDE DEF i
  <2>4. <<q, i>> \in TasksOf(q) /\ <<q, i>>[2] = i /\ i <= r.created
    <3>1. i \in 1 .. 2
      BY <2>2, <2>3
    <3>2. i <= r.created
      BY <1>5, <2>3 DEF Ready
    <3> QED BY <1>2, <3>1, <3>2, TasksOfRequest
  <2>5. ~ Queued(<<q, i>>)
    BY <1>7, <2>3, <2>4 DEF Ready, Final
  <2> QED BY <1>2, <1>3, <1>5, <1>6, <2>1, <2>4, <2>5
<1> QED BY <1>11, <1>12, <1>13

LEMMA InitNextOK ==
  ASSUME IInv, NEW t \in Thread, NEW q, q = Of(t), InitNextAsyncTask(t)
  PROVE  Preserved
<1>1. /\ q \in Request /\ NoneLive(q) /\ request[q].current \in {Sync(q), request[q].async}
      /\ \E x \in TasksOf(q), n \in 0 .. 2 :
           /\ request' = [request EXCEPT ![q].async = x, ![q].created = n]
           /\ ~ Queued(x) /\ x[2] <= n
           /\ n = request[q].created \/ (n = request[q].created + 1 /\ x = <<q, n>>)
  BY NextTask
<1>2. PICK x \in TasksOf(q), n \in 0 .. 2 :
        /\ request' = [request EXCEPT ![q].async = x, ![q].created = n]
        /\ ~ Queued(x) /\ x[2] <= n
        /\ n = request[q].created \/ (n = request[q].created + 1 /\ x = <<q, n>>)
  BY <1>1
<1>3. Go(t, "initNext", "resetStages") /\ pc[t] = "initNext"
  BY DEF InitNextAsyncTask, Go
<1>4. UNCHANGED <<tasks, taskQueue, syncQueue, task, copy, client>>
  BY DEF InitNextAsyncTask
<1>5. request \in [Request -> RequestFields]
  BY DEF IInv, Types
<1>6. \A u \in Request \ {q} : /\ request'[u] = request[u]
                               /\ \A y \in TasksOf(u) : tasks'[y] = tasks[y]
  BY <1>2, <1>4, <1>5
<1>7. /\ request'[q].async = x /\ request'[q].created = n
      /\ request'[q].current = request[q].current
      /\ request'[q].busy = request[q].busy
      /\ request'[q].exception = request[q].exception
      /\ request'[q].destroyed = request[q].destroyed
  BY <1>1, <1>2, <1>5 DEF RequestFields
<1>8. pc[t] \in Starting /\ "initNext" \in Starting /\ "resetStages" \in Starting
  BY <1>3 DEF Starting
<1>9. Move(t, "resetStages")
  BY <1>3, <1>4, <1>6, <1>8, StartsMove
<1>10. /\ t \in Starters(q)
       /\ \A u \in Starters(q) : u # t =>
            pc[u] \notin Starting \cup Inferring \cup Waiting \cup {"StartAsync", "InferSync"}
       /\ \A y \in TasksOf(q) : ~ tasks[y].onWait
  BY <1>8, Begins
<1>11. /\ \A y \in TasksOf(q) : Still(y) /\ (SameStatus(y) => TaskOK(y)')
       /\ \A y \in TasksOf(q) : /\ Queued(y)' <=> Queued(y)
                                /\ Live(y)' <=> Live(y)
                                /\ Ahead(y)' <=> Ahead(y)
       /\ NoneLive(q)' /\ \A y \in TasksOf(q) : ~ Live(y) /\ ~ Ahead(y)
       /\ Starters(q)' = Starters(q) /\ \A u \in Starters(q) : u # t => pc'[u] = pc[u]
       /\ pc'[t] = "resetStages"
       /\ OwnerOK(q)' /\ CallbackOK(q)'
  BY <1>3, <1>4, <1>8, <1>9, Starts
<1>12. \A y \in TasksOf(q) : TaskOK(y)'
  BY <1>4, <1>11 DEF SameStatus
<1>13. TasksOf(q)' = TasksOf(q) /\ x \in TasksOf(q) /\ x # NoTask
  BY <1>1, TasksOfRequest DEF TasksOf
<1>14. \A u \in Starters(q) : pc[u] \notin {"resetStages", "startTask"}
  BY <1>3, <1>10 DEF Starting
<1>15. request[q].created \in 0 .. 2
  BY <1>1, <1>5 DEF RequestFields
<1>16. TasksOK(q)'
  <2>1. ASSUME NEW y \in TasksOf(q)
        PROVE  /\ Queued(y) => y[2] <= request[q].created /\ client[q].started >= 1
                               /\ ~ request[q].destroyed
               /\ ~ (y[2] <= request[q].created /\ tasks[y].status = "TS_INITIAL")
    BY <1>1, <1>14 DEF IInv, RequestOK, TasksOK, InferenceOK
  <2>2. ASSUME NEW y \in TasksOf(q)
        PROVE  /\ y[2] <= request[q].created => y[2] <= n
               /\ y[2] <= n => y[2] <= request[q].created \/ y = x
    <3>1. y[2] \in 1 .. 2 /\ y = <<q, y[2]>>
      BY <1>1, TasksOfRequest
    <3> QED BY <1>2, <1>15, <3>1
  <2> QED BY <1>4, <1>7, <1>10, <1>11, <1>13, <2>1, <2>2 DEF TasksOK, InferenceOK
<1>17. FieldsOK(q)'
  <2>1. FieldsOK(q)
    BY <1>1 DEF IInv, RequestOK
  <2>2. request[q].current = Sync(q)
        \/ (request[q].current \in TasksOf(q) /\ request[q].current[2] <= n)
    <3>1. SUFFICES ASSUME request[q].current # Sync(q)
                   PROVE  request[q].current \in TasksOf(q) /\ request[q].current[2] <= n
      OBVIOUS
    <3>2. request[q].current \in TasksOf(q) /\ request[q].current[2] <= request[q].created
      BY <2>1, <3>1 DEF FieldsOK
    <3>3. request[q].current[2] \in 1 .. 2
      BY <1>1, <3>2, TasksOfRequest
    <3> QED BY <1>2, <1>15, <3>2, <3>3
  <2>3. request[q].destroyed => pc[q] = "ended" /\ t # q
    BY <1>3, <2>1 DEF FieldsOK
  <2>4. t # q => pc'[q] = pc[q]
    BY <1>1, <1>9, MoveOK, Threads
  <2> QED BY <1>2, <1>4, <1>7, <1>10, <1>11, <1>13, <2>1, <2>2, <2>3, <2>4 DEF FieldsOK
<1>18. StartOK(q)'
  <2>1. request[q].busy /\ ~ request[q].exception
    BY <1>1, <1>3, <1>10 DEF IInv, RequestOK, StartOK
  <2>2. \A u \in Starters(q) : u # t => pc'[u] \notin Starting
    BY <1>10, <1>11
  <2>3. ~ Queued(x)'
    BY <1>2, <1>11
  <2>4. (~ Queued(request[q].async))'
    BY <1>7, <2>3
  <2> QED BY <1>7, <1>11, <1>13, <2>1, <2>2, <2>4 DEF StartOK, Starting
<1>19. RequestOK(q)'
  BY <1>11, <1>12, <1>13, <1>16, <1>17, <1>18 DEF RequestOK
<1>20. SyncOK'
  BY <1>3, <1>4, <1>9, MoveOK, SyncStays, Threads
<1> QED BY <1>9, <1>19, <1>20, MoveOK DEF Preserved

LEMMA ResetStagesOK ==
  ASSUME IInv, NEW t \in Thread, NEW q, q = Of(t), ResetStages(t)
  PROVE  Preserved
<1> DEFINE r == request[q]
<1>1. Go(t, "resetStages", "startTask") /\ pc[t] = "resetStages"
  BY DEF ResetStages, Go
<1>2. pc[t] \in Starting /\ "startTask" \in Starting /\ "resetStages" \in Starting
  BY <1>1 DEF Starting
<1>3. /\ q \in Request /\ t \in Starters(q)
      /\ \A u \in Starters(q) : u # t =>
           pc[u] \notin Starting \cup Inferring \cup Waiting \cup {"StartAsync", "InferSync"}
      /\ \A y \in TasksOf(q) : ~ tasks[y].onWait
      /\ pc[q] \notin Inferring \cup Waiting
  BY <1>2, Begins
<1>4. PICK x \in TasksOf(q) : x = r.async
  BY <1>1, <1>3 DEF IInv, RequestOK, StartOK, FieldsOK
<1>5. ~ Queued(x) /\ r.busy /\ ~ r.exception
  BY <1>1, <1>3, <1>4 DEF IInv, RequestOK, StartOK
<1>6. /\ UNCHANGED <<taskQueue, syncQueue, task, copy, client>>
      /\ tasks' = [tasks EXCEPT ![x].stage = 2]
      /\ request' = [request EXCEPT ![q].current = x]
  BY <1>4 DEF ResetStages
<1>7. request \in [Request -> RequestFields] /\ tasks \in [Task -> TaskFields]
  BY DEF IInv, Types
<1>8. x \in Task /\ x # NoTask /\ \A u \in Request \ {q} : \A y \in TasksOf(u) : y \in Task /\ y # x
  BY <1>3, TasksOfRequest, TasksApart
<1>9. /\ tasks'[x].stage = 2 /\ tasks'[x].status = tasks[x].status
      /\ tasks'[x].onWait = tasks[x].onWait /\ tasks'[x].run = tasks[x].run
      /\ \A y \in Task : y # x => tasks'[y] = tasks[y]
  BY <1>6, <1>7, <1>8 DEF TaskFields
<1>10. \A u \in Request \ {q} : /\ request'[u] = request[u]
                                /\ \A y \in TasksOf(u) : tasks'[y] = tasks[y]
  BY <1>6, <1>7, <1>8, <1>9
<1>11. /\ request'[q].current = x /\ request'[q].async = x
       /\ request'[q].created = r.created
       /\ request'[q].busy = r.busy
       /\ request'[q].exception = r.exception
       /\ request'[q].destroyed = r.destroyed
  BY <1>3, <1>4, <1>6, <1>7 DEF RequestFields
<1>12. Move(t, "startTask")
  BY <1>1, <1>2, <1>6, <1>10, StartsMove
<1>13. \A y \in TasksOf(q) : /\ y \in Task /\ tasks'[y].status = tasks[y].status
                             /\ tasks'[y].onWait = tasks[y].onWait
                             /\ y # x => SameStatus(y)
  BY <1>3, <1>9, TasksOfRequest DEF SameStatus
<1>14. /\ \A y \in TasksOf(q) : Still(y) /\ (SameStatus(y) => TaskOK(y)')
       /\ \A y \in TasksOf(q) : /\ Queued(y)' <=> Queued(y)
                                /\ Live(y)' <=> Live(y)
                                /\ Ahead(y)' <=> Ahead(y)
       /\ NoneLive(q)' /\ \A y \in TasksOf(q) : ~ Live(y) /\ ~ Ahead(y)
       /\ Starters(q)' = Starters(q) /\ \A u \in Starters(q) : u # t => pc'[u] = pc[u]
       /\ pc'[t] = "startTask"
       /\ OwnerOK(q)' /\ CallbackOK(q)'
  BY <1>1, <1>2, <1>6, <1>12, <1>13, Starts
<1>15. TaskOK(x)'
  <2>1. ~ Queued(x)' /\ ~ Held1(x)' /\ ~ Held2(x)'
    BY <1>3, <1>5, <1>14, HeldTwo DEF IInv, Still, Queued
  <2>2. tasks'[x].status \in Final \cup {"TS_INITIAL"} /\ tasks'[x].run = Nobody
    BY <1>3, <1>5, <1>9 DEF IInv, RequestOK, TaskOK
  <2> QED BY <2>1, <2>2 DEF TaskOK, Queued, Final
<1>16. TasksOf(q)' = TasksOf(q)
  BY DEF TasksOf
<1>17. TasksOK(q)'
  <2>1. ASSUME NEW y \in TasksOf(q)
        PROVE  /\ Queued(y) => y[2] <= r.created /\ client[q].started >= 1 /\ ~ r.destroyed
               /\ y[2] <= r.created /\ tasks[y].status = "TS_INITIAL" => y = x
    BY <1>3, <1>4 DEF IInv, RequestOK, TasksOK, InferenceOK
  <2> QED BY <1>3, <1>6, <1>11, <1>13, <1>14, <1>16, <2>1 DEF TasksOK, InferenceOK
<1>18. FieldsOK(q)'
  <2>1. FieldsOK(q) /\ x[2] <= r.created
    BY <1>3, <1>4, <1>8 DEF IInv, RequestOK, FieldsOK
  <2>2. r.destroyed => pc[q] = "ended" /\ t # q
    BY <1>1, <2>1 DEF FieldsOK
  <2>3. t # q => pc'[q] = pc[q]
    BY <1>3, <1>12, MoveOK, Threads
  <2> QED BY <1>6, <1>11, <1>16, <2>1, <2>2, <2>3 DEF FieldsOK
<1>19. StartOK(q)'
  <2>1. \A u \in Starters(q) : u # t => pc'[u] \notin Starting
    BY <1>3, <1>14
  <2>2. (~ Queued(request[q].async))'
    BY <1>5, <1>11, <1>14
  <2>3. tasks'[request'[q].async].stage = 2
    BY <1>9, <1>11
  <2> QED BY <1>5, <1>8, <1>11, <1>14, <2>1, <2>2, <2>3 DEF StartOK, Starting
<1>20. \A y \in TasksOf(q) : TaskOK(y)'
  BY <1>13, <1>14, <1>15
<1>21. RequestOK(q)'
  BY <1>14, <1>16, <1>17, <1>18, <1>19, <1>20 DEF RequestOK
<1>22. SyncOK'
  BY <1>1, <1>6, <1>12, MoveOK, SyncStays, Threads
<1> QED BY <1>12, <1>21, <1>22, MoveOK DEF Preserved

-----------------------------------------------------------------------------
(* The queues of the executors.                                            *)

LEMMA Enqueue ==
  ASSUME Types, QueuesOK, NEW e \in Executor, NEW x \in Task, x[2] # 0, x \notin QueueOf(e),
         taskQueue' = [taskQueue EXCEPT ![e] = Append(@, x)],
         \A f \in Executor : /\ task'[f] = task[f]
                             /\ pc'[f] \in {"fetch", "ended"} <=> pc[f] \in {"fetch", "ended"}
  PROVE  /\ QueuesOK'
         /\ \A y : y \in QueueOf(e)' <=> y \in QueueOf(e) \/ y = x
         /\ \A f \in Executor \ {e} : QueueOf(f)' = QueueOf(f)
<1>1. taskQueue[e] \in Seq(Task) /\ taskQueue'[e] = Append(taskQueue[e], x)
      /\ \A f \in Executor \ {e} : taskQueue'[f] = taskQueue[f]
  BY DEF Types
<1>2. /\ Len(taskQueue[e]) \in Nat /\ DOMAIN taskQueue[e] = 1 .. Len(taskQueue[e])
      /\ taskQueue'[e] \in Seq(Task) /\ taskQueue'[e] # <<>>
      /\ Len(taskQueue'[e]) = Len(taskQueue[e]) + 1
      /\ \A i \in 1 .. Len(taskQueue[e]) : taskQueue'[e][i] = taskQueue[e][i]
      /\ taskQueue'[e][Len(taskQueue[e]) + 1] = x
  BY <1>1, AppendProperties, LenProperties
<1>3. DOMAIN taskQueue'[e] = 1 .. Len(taskQueue[e]) + 1
  BY <1>2, LenProperties
<1>4. \A y : y \in QueueOf(e)' <=> y \in QueueOf(e) \/ y = x
  BY <1>2, <1>3 DEF QueueOf
<1>5. \A f \in Executor \ {e} : QueueOf(f)' = QueueOf(f)
  BY <1>1 DEF QueueOf
<1>6. TurnOK(e) => TurnOK(e)'
  <2>1. taskQueue[e] # <<>> => Head(taskQueue'[e]) = Head(taskQueue[e])
    BY <1>1, HeadTailAppend
  <2>2. ASSUME TurnOK(e), NEW i \in DOMAIN taskQueue'[e], NEW j \in DOMAIN taskQueue'[e],
               taskQueue'[e][i] = taskQueue'[e][j]
        PROVE  i = j
    <3>1. \A k \in 1 .. Len(taskQueue[e]) : taskQueue[e][k] # x
      BY <1>2 DEF QueueOf
    <3> QED BY <1>2, <1>3, <2>2, <3>1 DEF TurnOK
  <2> QED BY <1>2, <2>1, <2>2 DEF TurnOK
<1>7. \A f \in Executor \ {e} : TurnOK(f) => TurnOK(f)'
  BY <1>1 DEF TurnOK
<1>8. TurnOK(taskExecutor)' /\ TurnOK(callbackExecutor)'
  BY <1>6, <1>7, Threads DEF QueuesOK
<1>9. ASSUME NEW f \in Executor, NEW y \in QueueOf(f)'
      PROVE  y[2] # 0
  BY <1>4, <1>5, <1>9 DEF QueuesOK
<1> QED BY <1>4, <1>5, <1>8, <1>9 DEF QueuesOK

LEMMA StartAsyncTaskOK ==
  ASSUME IInv, NEW t \in Thread, NEW q, q = Of(t), StartAsyncTask(t)
  PROVE  /\ Preserved
         /\ \E x \in TasksOf(q) :
              /\ q \in Request /\ x = request[q].async /\ request[q].current = x /\ NoneLive(q)
              /\ ~ In1(x) /\ ~ In2(x) /\ ~ Held1(x) /\ ~ Held2(x)
              /\ request' = request /\ task' = task
              /\ client' = [client EXCEPT ![q].started = @ + 1, ![q].last = "StartAsync"]
              /\ \A v \in Thread : pc'[v] = IF v = t THEN Back(t) ELSE pc[v]
              /\ \A y \in Task : y # x => tasks'[y] = tasks[y]
              /\ \A y : /\ In1(y)' <=> In1(y) \/ y = x
                        /\ In2(y)' <=> In2(y)
                        /\ Held1(y)' <=> Held1(y)
                        /\ Held2(y)' <=> Held2(y)
              /\ \A u \in Request \ {q} : Elsewhere(u)
<1> DEFINE r == request[q]
<1>1. Go(t, "startTask", IF tasks[r.current].status = "TS_BUSY" THEN "refuse" ELSE Back(t))
      /\ pc[t] = "startTask" /\ pc[t] \in Starting /\ "startTask" \in Starting
  BY DEF StartAsyncTask, Go, Starting
<1>2. /\ q \in Request /\ t \in Starters(q) /\ t # taskExecutor
      /\ t # q => t = callbackExecutor
      /\ \A u \in Starters(q) : u # t =>
           pc[u] \notin Starting \cup Inferring \cup Waiting \cup {"StartAsync", "InferSync"}
      /\ pc[q] \notin Inferring \cup Waiting
      /\ task[callbackExecutor] \in TasksOf(q) => t = callbackExecutor
      /\ q \in Callback => Len(client[q].called) < Repeats[q]
      /\ \A y \in TasksOf(q) : ~ tasks[y].onWait
  BY <1>1, Begins
<1>3. PICK x \in TasksOf(q) : x = r.async
  BY <1>1, <1>2 DEF IInv, RequestOK, StartOK, FieldsOK
<1>4. /\ ~ Queued(x) /\ r.busy /\ ~ r.exception /\ r.current = x /\ tasks[x].stage = 2
      /\ NoneLive(q)
  BY <1>1, <1>2, <1>3 DEF IInv, RequestOK, StartOK
<1>5. tasks[x].status # "TS_BUSY" /\ tasks[x].run = Nobody /\ ~ Held1(x) /\ ~ Held2(x)
      /\ ~ In1(x) /\ ~ In2(x)
  BY <1>2, <1>4, HeldTwo DEF IInv, RequestOK, TaskOK, Queued, Final
<1>6. /\ pc' = [pc EXCEPT ![t] = Back(t)]
      /\ tasks' = [tasks EXCEPT ![x].status = "TS_BUSY"]
      /\ taskQueue' = [taskQueue EXCEPT ![taskExecutor] = Append(@, x)]
      /\ client' = [client EXCEPT ![q].started = @ + 1, ![q].last = "StartAsync"]
      /\ UNCHANGED <<request, syncQueue, task, copy>>
  BY <1>1, <1>4, <1>5 DEF StartAsyncTask, StartTask, Go
<1>7. /\ tasks \in [Task -> TaskFields] /\ pc \in [Thread -> OwnerAt \cup TaskAt \cup CallbackAt]
      /\ client \in [Request -> ClientFields]
  BY DEF IInv, Types
<1>8. x \in Task /\ x # NoTask /\ x[2] # 0 /\ x[1] = q /\ x[2] <= r.created
  <2>1. FieldsOK(q)
    BY <1>2 DEF IInv, RequestOK
  <2>2. x \in Task /\ x # NoTask /\ x[1] = q
    BY <1>2, TasksOfRequest
  <2>3. x[2] # 0
    BY DEF TasksOf
  <2> QED BY <1>3, <2>1, <2>2, <2>3 DEF FieldsOK
<1>9. /\ tasks'[x].status = "TS_BUSY" /\ tasks'[x].stage = 2
      /\ tasks'[x].onWait = tasks[x].onWait /\ tasks'[x].run = Nobody
      /\ \A y \in Task : y # x => tasks'[y] = tasks[y]
  BY <1>4, <1>5, <1>6, <1>7, <1>8 DEF TaskFields
<1>10. /\ \A v \in Thread : pc'[v] = IF v = t THEN Back(t) ELSE pc[v]
       /\ pc'[t] \in {"idle", "called"}
  BY <1>6, <1>7 DEF Back
<1>11. client'[q].called = client[q].called /\ client'[q].started = client[q].started + 1
       /\ client[q].started \in Nat /\ \A u \in Request \ {q} : client'[u] = client[u]
  BY <1>2, <1>6, <1>7 DEF ClientFields
<1>12. /\ QueuesOK'
       /\ \A y : /\ In1(y)' <=> In1(y) \/ y = x
                 /\ In2(y)' <=> In2(y)
                 /\ Held1(y)' <=> Held1(y)
                 /\ Held2(y)' <=> Held2(y)
  <2>1. \A f \in Executor : /\ task'[f] = task[f]
                            /\ pc'[f] \in {"fetch", "ended"} <=> pc[f] \in {"fetch", "ended"}
    BY <1>1, <1>2, <1>6, <1>10, Threads DEF Back
  <2>2. x \notin QueueOf(taskExecutor)
    BY <1>5 DEF In1
  <2>3. /\ QueuesOK'
        /\ \A y : y \in QueueOf(taskExecutor)' <=> y \in QueueOf(taskExecutor) \/ y = x
        /\ QueueOf(callbackExecutor)' = QueueOf(callbackExecutor)
    BY <1>6, <1>8, <2>1, <2>2, Enqueue, Threads DEF IInv
  <2> QED BY <1>6, <2>3 DEF In1, In2, Held1, Held2
<1>13. \A u \in Request \ {q} : RequestOK(u)' /\ Elsewhere(u)
  <2>1. ASSUME NEW u \in Request \ {q}
        PROVE  RequestOK(u)' /\ Elsewhere(u)
    <3>1. u # t /\ (t \in Executor => task[t] \notin TasksOf(u))
          /\ \A y \in TasksOf(u) : y \in Task /\ y # x
      BY <1>2, TasksApart, Threads DEF Starters
    <3>2. /\ \A v \in Thread : v # t => pc'[v] = pc[v]
          /\ request'[u] = request[u] /\ client'[u] = client[u] /\ task'[u] = task[u]
          /\ \A e \in Executor : copy'[e] = copy[e]
      BY <1>6, <1>10, <1>11
    <3>3. \A y \in TasksOf(u) : /\ tasks'[y] = tasks[y]
                                /\ In1(y)' <=> In1(y)
                                /\ In2(y)' <=> In2(y)
                                /\ Held1(y)' <=> Held1(y)
                                /\ Held2(y)' <=> Held2(y)
      BY <1>9, <1>12, <3>1
    <3> QED BY <3>1, <3>2, <3>3, OtherOK
  <2> QED BY <2>1
<1>14. PlacesOK'
  <2>1. t \in Request \/ t = callbackExecutor
    BY <1>2
  <2> QED BY <1>2, <1>10, <2>1, Threads DEF IInv, PlacesOK, Back, OwnerAt, CallbackAt, AfterCall
<1>15. SyncOK'
  BY <1>6, <1>10, SyncStays, Threads
<1>16. \A y \in TasksOf(q) : y # x => Still(y) /\ SameStatus(y)
  <2>1. {pc[callbackExecutor], pc'[callbackExecutor]} \subseteq AfterCall
        \/ pc'[callbackExecutor] = pc[callbackExecutor]
    BY <1>1, <1>2, <1>10, Threads DEF Back, AfterCall
  <2>2. pc'[taskExecutor] = pc[taskExecutor]
    BY <1>2, <1>10, Threads
  <2> QED BY <1>2, <1>6, <1>9, <1>12, <2>1, <2>2, TasksOfRequest DEF Still, SameStatus
<1>17. In1(x)' /\ ~ In2(x)' /\ ~ Held1(x)' /\ ~ Held2(x)' /\ Queued(x)' /\ ~ Past(x)'
  BY <1>5, <1>12 DEF Queued, Past
<1>18. \A y \in TasksOf(q) : TaskOK(y)'
  <2>1. TaskOK(x)'
    BY <1>9, <1>17 DEF TaskOK, Has, Queued
  <2>2. \A y \in TasksOf(q) : y # x => TaskOK(y)'
    BY <1>2, <1>16, StillOK DEF IInv, RequestOK
  <2> QED BY <2>1, <2>2
<1>19. \A y \in TasksOf(q) : y # x =>
         (Queued(y)' <=> Queued(y)) /\ ~ Live(y)' /\ ~ Ahead(y)'
  <2>1. \A y \in TasksOf(q) : ~ Live(y) /\ ~ Ahead(y)
    BY <1>2, <1>4, QueuedStatus DEF NoneLive, IInv, RequestOK
  <2> QED BY <1>16, <2>1, StillLive
<1>20. TasksOf(q)' = TasksOf(q) /\ Starters(q)' = Starters(q)
  BY <1>2, <1>6, Threads DEF TasksOf, Starters
<1>21. ~ r.destroyed
  <2>1. t = q => ~ r.destroyed
    BY <1>1, <1>2 DEF IInv, RequestOK, FieldsOK
  <2>2. t # q => task[callbackExecutor] \in TasksOf(q)
    BY <1>2 DEF Starters
  <2> QED BY <1>2, <2>1, <2>2, WhileCalledBack
<1>22. TasksOK(q)'
  <2>1. ASSUME NEW y \in TasksOf(q)
        PROVE  /\ Queued(y) => y[2] <= r.created /\ client[q].started >= 1 /\ ~ r.destroyed
               /\ y[2] <= r.created /\ tasks[y].status = "TS_INITIAL" => y = x
    BY <1>2, <1>3 DEF IInv, RequestOK, TasksOK, InferenceOK
  <2>2. client'[q].started >= 1
    BY <1>11
  <2>3. InferenceOK(q, x)'
    BY <1>2, <1>4, <1>6, <1>8, <1>9, <1>11, <1>21, <2>2, <1>3 DEF InferenceOK
  <2>4. ASSUME NEW y \in TasksOf(q), y # x
        PROVE  InferenceOK(q, y)'
    <3>1. tasks'[y] = tasks[y]
      BY <1>2, <1>9, <2>4, TasksOfRequest
    <3> QED BY <1>2, <1>6, <1>19, <1>21, <2>1, <2>2, <2>4, <3>1 DEF InferenceOK
  <2> QED BY <1>20, <2>3, <2>4 DEF TasksOK
<1>23. FieldsOK(q)'
  <2>1. FieldsOK(q)
    BY <1>2 DEF IInv, RequestOK
  <2>2. client'[q].started # 0
    BY <1>11
  <2> QED BY <1>3, <1>4, <1>6, <1>20, <1>21, <2>1, <2>2 DEF FieldsOK
<1>24. \A u \in Starters(q) : pc'[u] \notin Starting \cup {"StartAsync", "failure"}
  <2>1. \A u \in Starters(q) : u \in Thread /\ (u # t => u = q)
    BY <1>2, Threads DEF Starters
  <2>2. pc[q] # "failure"
    BY <1>2, Threads DEF IInv, PlacesOK, OwnerAt, Starting, Inferring, Waiting
  <2>3. {"idle", "called"} \cap (Starting \cup {"StartAsync", "failure"}) = {}
    BY DEF Starting
  <2> QED BY <1>2, <1>10, <2>1, <2>2, <2>3
<1>25. StartOK(q)' /\ CallbackOK(q)'
  <2>1. StartOK(q)'
    BY <1>20, <1>24 DEF StartOK, Starting
  <2>2. task'[callbackExecutor] \in TasksOf(q) => callbackExecutor \in Starters(q)
    BY <1>6 DEF Starters
  <2> QED BY <1>20, <1>24, <2>1, <2>2 DEF CallbackOK
<1>26. OwnerOK(q)'
  <2>1. pc'[q] = "idle" \/ (pc'[q] = pc[q] /\ q \in Starters(q) /\ q # t)
    BY <1>2, <1>10, Threads DEF Back, Starters
  <2>2. pc'[q] \notin Starting \cup Inferring \cup Waiting \cup {"StartAsync", "InferSync"}
    BY <1>2, <2>1 DEF Starting, Inferring, Waiting
  <2> QED BY <2>2 DEF OwnerOK, Waiting
<1>27. RequestOK(q)'
  BY <1>18, <1>20, <1>22, <1>23, <1>25, <1>26 DEF RequestOK
<1>28. Preserved
  BY <1>12, <1>13, <1>14, <1>15, <1>27 DEF Preserved
<1> QED BY <1>2, <1>3, <1>4, <1>5, <1>6, <1>9, <1>10, <1>12, <1>13, <1>28

-----------------------------------------------------------------------------
(* The steps of an owner outside StartAsync.                               *)

OwnerGoes(q, to) ==
  /\ Move(q, to) /\ copy' = copy
  /\ pc[q] \notin Starting /\ to \in OwnerAt /\ (to \in Starting => to = "refuse")
  /\ to \in Starting \cup Inferring \cup {"awake"} => NoneLive(q)
  /\ q \in Callback /\ to \in Starting \cup Inferring \cup {"StartAsync", "InferSync"} =>
       client[q].started = 0
  /\ q \in Callback /\ to \in Waiting => Len(client[q].called) >= Repeats[q]
  /\ to \in {"onWait", "asleep"} => task'[q] = request'[q].current

OwnerChanges(q, to) ==
  /\ client'[q].started = client[q].started /\ client'[q].called = client[q].called
  /\ request'[q].async = request[q].async /\ request'[q].created = request[q].created
  /\ request'[q].current \in {Sync(q), request[q].current}
  /\ \/ /\ request'[q].current = request[q].current
        /\ request'[q].busy = request[q].busy
        /\ request'[q].exception = request[q].exception
     \/ NoneLive(q) /\ \A t \in Starters(q) : t # q => pc[t] \notin Starting
  /\ request'[q].destroyed =>
       to = "ended" /\ (request[q].destroyed \/ \A x \in TasksOf(q) : ~ Queued(x))
  /\ \A x \in TasksOf(q) : /\ SameStatus(x)
                           /\ tasks'[x].onWait => to = "asleep" /\ task'[q] = x

LEMMA OwnerOnly ==
  ASSUME IInv, NEW q \in Request, NEW to, OwnerGoes(q, to), OwnerChanges(q, to)
  PROVE  PlacesOK' /\ QueuesOK' /\ \A u \in Request : RequestOK(u)'
<1>1. /\ PlacesOK' /\ QueuesOK'
      /\ \A u \in Request \ {q} : RequestOK(u)'
      /\ \A u \in Thread : pc'[u] = IF u = q THEN to ELSE pc[u]
      /\ \A x : /\ In1(x)' <=> In1(x)
                /\ In2(x)' <=> In2(x)
                /\ Held1(x)' <=> Held1(x)
                /\ Held2(x)' <=> Held2(x)
  <2>1. Of(q) = q /\ q \in Thread
    BY Threads DEF Of
  <2> QED BY <2>1, MoveOK DEF OwnerGoes
<1>2. \A x \in TasksOf(q) : Still(x)
  BY <1>1, Threads DEF Still, OwnerGoes
<1>3. \A x \in TasksOf(q) : /\ TaskOK(x)'
                            /\ Queued(x)' <=> Queued(x)
                            /\ Live(x)' <=> Live(x)
                            /\ Ahead(x)' <=> Ahead(x)
                            /\ tasks'[x].status = tasks[x].status
                            /\ Ahead(x) => Live(x)
  BY <1>2, StillOK, StillLive, QueuedStatus DEF IInv, RequestOK, OwnerChanges, SameStatus
<1>4. TasksOf(q)' = TasksOf(q)
  BY DEF TasksOf
<1>5. NoneLive(q)' <=> NoneLive(q)
  BY <1>3, <1>4 DEF NoneLive
<1>6. /\ task'[callbackExecutor] = task[callbackExecutor]
      /\ pc'[callbackExecutor] = pc[callbackExecutor] /\ pc'[q] = to
  BY <1>1, Threads DEF OwnerGoes, Move
<1>7. /\ Starters(q)' = Starters(q) /\ q \in Starters(q)
      /\ \A t \in Starters(q) : t # q => pc'[t] = pc[t]
  BY <1>4, <1>6 DEF Starters
<1>8. to \notin {"setBusy", "reset", "initNext", "resetStages", "startTask"}
      /\ pc[q] \notin {"setBusy", "reset", "initNext", "resetStages", "startTask"}
  BY DEF OwnerGoes, Starting
<1>9. TasksOK(q)'
  <2>1. ASSUME NEW x \in TasksOf(q)
        PROVE  InferenceOK(q, x)'
    <3>1. InferenceOK(q, x) /\ (NoneLive(q) => ~ Live(x))
      BY DEF IInv, RequestOK, TasksOK, NoneLive
    <3>2. (Queued(x) => x[2] <= request[q].created /\ client[q].started >= 1
                        /\ ~ request[q].destroyed)'
      BY <1>3, <3>1 DEF InferenceOK, OwnerChanges
    <3>3. /\ (Live(x) => /\ request[q].async = x /\ request[q].current = x
                         /\ q \notin Callback => request[q].busy
                         /\ q \in Callback => Len(client[q].called) < Repeats[q])'
          /\ (Ahead(x) => request[q].busy /\ ~ request[q].exception)'
      BY <1>3, <3>1 DEF InferenceOK, OwnerChanges
    <3>4. (x[2] <= request[q].created /\ tasks[x].status = "TS_INITIAL" =>
             request[q].async = x
             /\ \E t \in Starters(q) : pc[t] \in {"resetStages", "startTask"})'
      BY <1>3, <1>7, <1>8, <3>1 DEF InferenceOK, OwnerChanges
    <3>5. (tasks[x].onWait => pc[q] = "asleep" /\ task[q] = x)'
      BY <1>6 DEF OwnerChanges
    <3> QED BY <3>2, <3>3, <3>4, <3>5 DEF InferenceOK
  <2> QED BY <1>4, <2>1 DEF TasksOK
<1>10. FieldsOK(q)'
  <2>1. FieldsOK(q)
    BY DEF IInv, RequestOK
  <2> QED BY <1>4, <1>6, <1>7, <1>8, <2>1 DEF FieldsOK, OwnerChanges
<1>11. StartOK(q)'
  <2>1. StartOK(q)
    BY DEF IInv, RequestOK
  <2>2. to \in Starting => NoneLive(q)'
    BY <1>5 DEF OwnerGoes
  <2>3. ASSUME NEW t \in Starters(q), t # q, pc[t] \in {"resetStages", "startTask"}
        PROVE  /\ request'[q].async # NoTask /\ (~ Queued(request[q].async))'
               /\ tasks'[request'[q].async].stage = tasks[request[q].async].stage
    <3>1. request[q].async # NoTask /\ ~ Queued(request[q].async)
      BY <2>1, <2>3 DEF StartOK
    <3>2. PICK x \in TasksOf(q) : x = request[q].async
      BY <3>1 DEF IInv, RequestOK, FieldsOK
    <3>3. request'[q].async = x /\ ~ Queued(x)'
      BY <1>3, <3>1, <3>2 DEF OwnerChanges
    <3>4. (~ Queued(request[q].async))'
      BY <3>3
    <3> QED BY <3>1, <3>2, <3>3, <3>4 DEF OwnerChanges, SameStatus
  <2>4. ASSUME NEW t \in Starters(q), t # q, pc[t] \in Starting
        PROVE  /\ request'[q].busy = request[q].busy
               /\ request'[q].exception = request[q].exception
               /\ request'[q].current = request[q].current
    BY <2>4 DEF OwnerChanges
  <2>5. ASSUME NEW t \in Starters(q), t # q
        PROVE  (/\ pc[t] \in Starting => NoneLive(q)
                /\ pc[t] \in {"reset", "initNext", "resetStages", "startTask"} => request[q].busy
                /\ pc[t] \in {"initNext", "resetStages", "startTask"} => ~ request[q].exception
                /\ pc[t] \in {"resetStages", "startTask"} =>
                     request[q].async # NoTask /\ ~ Queued(request[q].async)
                /\ pc[t] = "startTask" => request[q].current = request[q].async
                                          /\ tasks[request[q].async].stage = 2)'
    <3>1. pc'[t] = pc[t]
      BY <1>7, <2>5
    <3>2. request'[q].async = request[q].async
      BY DEF OwnerChanges
    <3> QED BY <1>5, <2>1, <2>3, <2>4, <2>5, <3>1, <3>2 DEF StartOK, Starting
  <2> QED BY <1>6, <1>7, <1>8, <2>2, <2>5 DEF StartOK
<1>12. OwnerOK(q)'
  BY <1>5, <1>6 DEF OwnerOK, OwnerGoes, OwnerChanges
<1>13. CallbackOK(q)'
  BY <1>3, <1>4, <1>5, <1>6 DEF IInv, RequestOK, CallbackOK, OwnerChanges
<1>14. RequestOK(q)'
  BY <1>3, <1>4, <1>9, <1>10, <1>11, <1>12, <1>13 DEF RequestOK
<1> QED BY <1>1, <1>14

LEMMA OwnerMoves ==
  ASSUME IInv, NEW q \in Request, NEW from, NEW to, Go(q, from, to), to \in OwnerAt,
         UNCHANGED <<taskQueue, copy>>,
         \A u \in Request \ {q} : /\ request'[u] = request[u] /\ client'[u] = client[u]
                                  /\ \A x \in TasksOf(u) : tasks'[x] = tasks[x],
         \A t \in Thread : t # q => task'[t] = task[t]
  PROVE  Move(q, to) /\ pc[q] = from /\ \A u \in Thread : pc'[u] = IF u = q THEN to ELSE pc[u]
<1>1. pc[q] = from /\ pc' = [pc EXCEPT ![q] = to] /\ pc \in [Thread -> OwnerAt \cup TaskAt \cup CallbackAt]
  BY DEF Go, IInv, Types
<1>2. \A u \in Thread : pc'[u] = IF u = q THEN to ELSE pc[u]
  BY <1>1
<1>3. Of(q) = q
  BY DEF Of
<1>4. OnlyFor(q)
  BY <1>2, Threads DEF OnlyFor
<1>5. \A e \in Executor : e # q /\ task'[e] = task[e]
  BY Threads
<1> QED BY <1>1, <1>2, <1>3, <1>4, <1>5, Threads DEF Move

(* Those that touch neither the fields of the request nor its tasks.       *)
LEMMA OwnerPlain ==
  ASSUME IInv, NEW q \in Request, NEW to, OwnerGoes(q, to), pc[q] \notin {"asleep", "ended"},
         request'[q] = request[q],
         client'[q].started = client[q].started, client'[q].called = client[q].called,
         \A x \in TasksOf(q) : tasks'[x] = tasks[x]
  PROVE  PlacesOK' /\ QueuesOK' /\ \A u \in Request : RequestOK(u)'
<1>1. ~ request[q].destroyed /\ \A x \in TasksOf(q) : ~ tasks[x].onWait
  BY DEF IInv, RequestOK, FieldsOK, TasksOK, InferenceOK
<1>2. OwnerChanges(q, to)
  BY <1>1 DEF OwnerChanges, SameStatus
<1> QED BY <1>2, OwnerOnly

LEMMA CallsOK ==
  ASSUME IInv, Callback \cap WaitsInLoop = {}, NEW q \in Request, Owner(q)
  PROVE  Preserved
<1>1. PICK to \in {"StartAsync", "InferSync", "Wait", "destroy", "ended"} :
        /\ Go(q, "idle", to)
        /\ UNCHANGED <<request, tasks, taskQueue, syncQueue, task, copy>>
        /\ client' = client \/ client' = [client EXCEPT ![q].owned = FALSE]
        /\ to = "StartAsync" => MayStart(q)
        /\ to = "InferSync" => MayInfer(q)
        /\ to = "Wait" => MayWait(q)
  <2>1. CASE MayStart(q) /\ Call(q, "StartAsync")
    BY <2>1 DEF Call
  <2>2. CASE MayInfer(q) /\ Call(q, "InferSync")
    BY <2>2 DEF Call
  <2>3. CASE MayWait(q) /\ Call(q, "Wait")
    BY <2>3 DEF Call
  <2>4. CASE LetGo(q)
    BY <2>4 DEF LetGo
  <2> QED BY <2>1, <2>2, <2>3, <2>4 DEF Owner, WaitOrLetGo
<1>2. client \in [Request -> ClientFields]
  BY DEF IInv, Types
<1>3. /\ client'[q].started = client[q].started /\ client'[q].called = client[q].called
      /\ client[q].started \in Nat
      /\ \A u \in Request \ {q} : client'[u] = client[u]
  BY <1>1, <1>2 DEF ClientFields
<1>4. to \in OwnerAt
  BY DEF OwnerAt, Waiting
<1>5. Move(q, to) /\ pc[q] = "idle" /\ \A u \in Thread : pc'[u] = IF u = q THEN to ELSE pc[u]
  BY <1>1, <1>3, <1>4, OwnerMoves
<1>6. q \in Callback /\ to \in {"StartAsync", "InferSync"} => client[q].started = 0
  BY <1>1, <1>3 DEF MayStart, MayInfer
<1>7. q \in Callback /\ to = "Wait" => Len(client[q].called) >= Repeats[q]
  <2>1. SUFFICES ASSUME q \in Callback, to = "Wait" PROVE Len(client[q].called) >= Repeats[q]
    OBVIOUS
  <2>2. Len(client[q].called) = Repeats[q]
    BY <1>1, <2>1 DEF MayWait
  <2>3. Repeats[q] \in Nat
    BY RequestAssumption
  <2> QED BY <2>2, <2>3
<1>8. OwnerGoes(q, to)
  BY <1>1, <1>4, <1>5, <1>6, <1>7 DEF OwnerGoes, Starting, Inferring, Waiting
<1>9. PlacesOK' /\ QueuesOK' /\ \A u \in Request : RequestOK(u)'
  BY <1>1, <1>3, <1>5, <1>8, OwnerPlain
<1>10. SyncOK'
  BY <1>1, <1>5, SyncStays, Threads
<1> QED BY <1>9, <1>10 DEF Preserved

(* While Infer runs no task of the request is between its start and its    *)
(* callback.                                                               *)
LEMMA InferSteps ==
  ASSUME IInv, NEW q \in Request,
         \/ InferIsBusy(q) \/ InferOccupy(q) \/ Lock(q) \/ WaitInQueue(q)
         \/ InferEnds(q) \/ Unlock(q)
  PROVE  PlacesOK' /\ QueuesOK' /\ \A u \in Request : RequestOK(u)'
<1>1. PICK from \in {"InferSync"} \cup Inferring, to \in {"idle", "refuse"} \cup Inferring :
        /\ Go(q, from, to)
        /\ UNCHANGED <<request, taskQueue, task, copy, client>>
        /\ from = "InferSync" => to = "idle" \/ ~ request[q].busy
        /\ \A x \in Task : x # Sync(q) => tasks'[x] = tasks[x]
  <2>1. tasks \in [Task -> TaskFields]
    BY DEF IInv, Types
  <2>2. CASE InferIsBusy(q)
    BY <2>2 DEF InferIsBusy, Inferring
  <2>3. CASE InferOccupy(q)
    BY <2>1, <2>3 DEF InferOccupy, Inferring
  <2>4. CASE Lock(q)
    BY <2>4 DEF Lock, Inferring
  <2>5. CASE WaitInQueue(q)
    BY <2>5 DEF WaitInQueue, Inferring
  <2>6. CASE InferEnds(q)
    BY <2>1, <2>6 DEF InferEnds, Inferring
  <2>7. CASE Unlock(q)
    BY <2>7 DEF Unlock, Inferring
  <2> QED BY <2>2, <2>3, <2>4, <2>5, <2>6, <2>7
<1>2. \A u \in Request : \A x \in TasksOf(u) : tasks'[x] = tasks[x]
  <2>1. Sync(q)[2] = 0
    BY DEF Sync
  <2> QED BY <1>1, <2>1 DEF TasksOf
<1>3. to \in OwnerAt /\ to \notin Waiting \cup {"StartAsync", "InferSync", "ended"}
  BY DEF OwnerAt, Inferring, Starting, Waiting
<1>4. Move(q, to) /\ pc[q] = from
  BY <1>1, <1>2, <1>3, OwnerMoves
<1>5. to # "idle" => NoneLive(q)
  <2>1. CASE from \in Inferring
    BY <1>4, <2>1 DEF IInv, RequestOK, OwnerOK
  <2>2. CASE from = "InferSync"
    <3>1. q = Of(q) /\ q \in Thread
      BY Threads DEF Of
    <3> QED BY <1>1, <1>4, <2>2, <3>1, NotBusy
  <2> QED BY <2>1, <2>2
<1>6. q \in Callback => client[q].started = 0
  BY <1>4 DEF IInv, RequestOK, OwnerOK
<1>7. from \notin Starting \cup {"asleep", "ended"} /\ (to \in Starting => to = "refuse")
  BY DEF Inferring, Starting
<1>8. to \notin {"awake", "onWait", "asleep"} /\ "idle" \notin Starting \cup Inferring
  BY <1>3 DEF Waiting, Starting, Inferring
<1>9. OwnerGoes(q, to)
  BY <1>1, <1>3, <1>4, <1>5, <1>6, <1>7, <1>8 DEF OwnerGoes
<1> QED BY <1>1, <1>2, <1>4, <1>7, <1>9, OwnerPlain

LEMMA InferQueue ==
  ASSUME IInv, NEW q \in Request, Infer(q)
  PROVE  SyncOK'
<1>1. /\ pc \in [Thread -> OwnerAt \cup TaskAt \cup CallbackAt]
      /\ syncQueue \in Seq(Request) /\ SyncOK /\ q \in Thread
      /\ Len(syncQueue) \in Nat /\ DOMAIN syncQueue = 1 .. Len(syncQueue)
  BY Threads, LenProperties DEF IInv, Types
<1>2. \A u \in Request : u \in Thread
  BY Threads
<1>3. CASE InferIsBusy(q) \/ InferSetBusy(q) \/ InferOccupy(q)
  <2>1. /\ UNCHANGED syncQueue
        /\ \A u \in Request : pc'[u] = pc[u] \/ pc'[u] \in {"idle", "setBusySync", "occupySync",
                                                          "refuse", "lock"}
    BY <1>1, <1>2, <1>3 DEF InferIsBusy, InferSetBusy, InferOccupy, Go
  <2> QED BY <2>1, SyncStays
<1>4. CASE Lock(q) /\ Full
  <2>1. /\ UNCHANGED syncQueue
        /\ \A u \in Request : pc'[u] = pc[u] \/ pc'[u] = "refuse"
    BY <1>1, <1>2, <1>4 DEF Lock, Go
  <2> QED BY <2>1, SyncStays
<1>5. CASE Lock(q) /\ ~ Full
  <2>1. /\ syncQueue' = Append(syncQueue, q)
        /\ \A u \in Request : pc'[u] = IF u = q THEN "waitInQueue" ELSE pc[u]
    BY <1>1, <1>2, <1>5 DEF Lock, Go
  <2>2. /\ Len(syncQueue') = Len(syncQueue) + 1 /\ syncQueue' # <<>>
        /\ \A i \in 1 .. Len(syncQueue) : syncQueue'[i] = syncQueue[i]
        /\ syncQueue'[Len(syncQueue) + 1] = q /\ syncQueue' \in Seq(Request)
        /\ syncQueue # <<>> => Head(syncQueue') = Head(syncQueue)
    BY <1>1, <2>1, AppendProperties, HeadTailAppend
  <2>3. DOMAIN syncQueue' = 1 .. Len(syncQueue) + 1
    BY <2>2, LenProperties
  <2>4. Len(syncQueue') <= MAX_NUMBER_OF_TASKS_IN_QUEUE
    <3>1. MAX_NUMBER_OF_TASKS_IN_QUEUE \in Nat \ {0}
      BY RequestAssumption
    <3>2. syncQueue = <<>> => Len(syncQueue) = 0
      OBVIOUS
    <3> QED BY <1>1, <1>5, <2>2, <3>1, <3>2 DEF Full
  <2>5. ASSUME NEW u \in Request, pc'[u] = "waitInQueue"
        PROVE  \E i \in DOMAIN syncQueue' : syncQueue'[i] = u
    <3>1. CASE u = q
      BY <1>1, <2>2, <2>3, <3>1
    <3>2. CASE u # q
      <4>1. PICK i \in 1 .. Len(syncQueue) : syncQueue[i] = u
        BY <1>1, <2>1, <2>5, <3>2 DEF SyncOK
      <4> QED BY <1>1, <2>2, <2>3, <4>1
    <3> QED BY <3>1, <3>2
  <2>6. ASSUME NEW u \in Request, pc'[u] \in {"inferringSync", "unlock"}
        PROVE  syncQueue' # <<>> /\ Head(syncQueue') = u
    BY <1>1, <2>1, <2>2, <2>6 DEF SyncOK
  <2> QED BY <2>4, <2>5, <2>6 DEF SyncOK
<1>6. CASE WaitInQueue(q) \/ InferEnds(q)
  <2>1. /\ syncQueue' = syncQueue /\ syncQueue # <<>> /\ Head(syncQueue) = q
        /\ \A u \in Request : u # q => pc'[u] = pc[u]
        /\ pc'[q] \in {"inferringSync", "unlock"}
    <3>1. CASE WaitInQueue(q)
      <4>1. PICK i \in 1 .. Len(syncQueue) : syncQueue[i] = q
        BY <1>1, <3>1 DEF WaitInQueue, Go, SyncOK
      <4>2. syncQueue # <<>>
        BY <1>1, <4>1
      <4> QED BY <1>1, <1>2, <3>1, <4>2 DEF WaitInQueue, MyTurn, Go
    <3>2. CASE InferEnds(q)
      BY <1>1, <1>2, <3>2 DEF InferEnds, Go, SyncOK
    <3> QED BY <1>6, <3>1, <3>2
  <2> QED BY <1>1, <2>1 DEF SyncOK
<1>7. CASE Unlock(q)
  <2>1. /\ syncQueue # <<>> /\ Head(syncQueue) = q /\ syncQueue' = Tail(syncQueue)
        /\ \A u \in Request : u # q => pc'[u] = pc[u]
        /\ pc'[q] = "refuse"
    BY <1>1, <1>2, <1>7 DEF Unlock, Go, SyncOK
  <2>2. /\ syncQueue' \in Seq(Request) /\ Len(syncQueue') = Len(syncQueue) - 1
        /\ \A i \in 1 .. Len(syncQueue') : syncQueue'[i] = syncQueue[i + 1]
        /\ Len(syncQueue) >= 1 /\ Head(syncQueue) = syncQueue[1]
    BY <1>1, <2>1, HeadTailProperties, EmptySeq
  <2>3. DOMAIN syncQueue' = 1 .. Len(syncQueue) - 1
    BY <2>2, LenProperties
  <2>4. ASSUME NEW u \in Request, pc'[u] = "waitInQueue"
        PROVE  \E i \in DOMAIN syncQueue' : syncQueue'[i] = u
    <3>1. u # q /\ pc[u] = "waitInQueue"
      BY <2>1, <2>4
    <3>2. PICK i \in 1 .. Len(syncQueue) : syncQueue[i] = u
      BY <1>1, <3>1 DEF SyncOK
    <3>3. i # 1
      BY <2>1, <2>2, <3>1, <3>2
    <3>4. i - 1 \in 1 .. Len(syncQueue) - 1 /\ i - 1 + 1 = i
      BY <1>1, <3>2, <3>3
    <3>5. syncQueue'[i - 1] = u
      BY <2>2, <3>2, <3>4
    <3> QED BY <2>3, <3>4, <3>5
  <2>5. ASSUME NEW u \in Request
        PROVE  pc'[u] \notin {"inferringSync", "unlock"}
    BY <1>1, <2>1 DEF SyncOK
  <2>6. Len(syncQueue') <= MAX_NUMBER_OF_TASKS_IN_QUEUE
    BY <1>1, <2>2, RequestAssumption DEF SyncOK
  <2> QED BY <2>4, <2>5, <2>6 DEF SyncOK
<1> QED BY <1>3, <1>4, <1>5, <1>6, <1>7 DEF Infer

LEMMA InferSetBusyOK ==
  ASSUME IInv, NEW q \in Request, InferSetBusy(q)
  PROVE  PlacesOK' /\ QueuesOK' /\ \A u \in Request : RequestOK(u)'
<1>1. /\ Go(q, "setBusySync", "occupySync")
      /\ request' = [request EXCEPT ![q].busy = TRUE, ![q].current = Sync(q)]
      /\ client' = [client EXCEPT ![q].infers = @ + 1, ![q].last = "Infer"]
      /\ UNCHANGED <<tasks, taskQueue, task, copy>>
  BY DEF InferSetBusy
<1>2. request \in [Request -> RequestFields] /\ client \in [Request -> ClientFields]
  BY DEF IInv, Types
<1>3. /\ request'[q].async = request[q].async /\ request'[q].created = request[q].created
      /\ request'[q].current = Sync(q) /\ request'[q].destroyed = request[q].destroyed
      /\ \A u \in Request \ {q} : request'[u] = request[u]
  BY <1>1, <1>2 DEF RequestFields
<1>4. /\ client'[q].started = client[q].started /\ client'[q].called = client[q].called
      /\ \A u \in Request \ {q} : client'[u] = client[u]
  BY <1>1, <1>2 DEF ClientFields
<1>5. {"occupySync", "setBusySync"} \subseteq Inferring /\ "occupySync" \in OwnerAt
  BY DEF Inferring, OwnerAt
<1>6. Move(q, "occupySync") /\ pc[q] = "setBusySync"
  BY <1>1, <1>3, <1>4, <1>5, OwnerMoves
<1>7. NoneLive(q) /\ (q \in Callback => client[q].started = 0)
  BY <1>5, <1>6 DEF IInv, RequestOK, OwnerOK
<1>8. OwnerGoes(q, "occupySync")
  BY <1>1, <1>5, <1>6, <1>7 DEF OwnerGoes, Starting, Waiting
<1>9. \A t \in Starters(q) : t = q
  BY <1>5, <1>6, WhileCalledBack DEF Starters
<1>10. ~ request[q].destroyed /\ \A x \in TasksOf(q) : ~ tasks[x].onWait
  BY <1>6 DEF IInv, RequestOK, FieldsOK, TasksOK, InferenceOK
<1>11. OwnerChanges(q, "occupySync")
  BY <1>1, <1>3, <1>4, <1>7, <1>9, <1>10 DEF OwnerChanges, SameStatus
<1> QED BY <1>8, <1>11, OwnerOnly

LEMMA InferOK ==
  ASSUME IInv, NEW q \in Request, Infer(q)
  PROVE  Preserved
<1>1. PlacesOK' /\ QueuesOK' /\ \A u \in Request : RequestOK(u)'
  BY InferSteps, InferSetBusyOK DEF Infer
<1> QED BY <1>1, InferQueue DEF Preserved

(* The owner of a request with a callback waits when the last callback was *)
(* called, so that no callback starts an inference meanwhile.              *)
LEMMA NobodyStarts ==
  ASSUME IInv, NEW q \in Request, pc[q] \in Waiting
  PROVE  \A t \in Starters(q) : t # q => pc[t] \notin Starting
<1>1. SUFFICES ASSUME task[callbackExecutor] \in TasksOf(q), pc[callbackExecutor] \in Starting
               PROVE  FALSE
  BY DEF Starters
<1>2. q \in Callback
  BY <1>1, WhileCalledBack
<1>3. Len(client[q].called) >= Repeats[q]
  BY <1>2 DEF IInv, RequestOK, OwnerOK
<1>4. Len(client[q].called) < Repeats[q]
  BY <1>1 DEF IInv, RequestOK, CallbackOK
<1>5. Len(client[q].called) \in Nat /\ Repeats[q] \in Nat
  BY RequestAssumption, LenProperties DEF IInv, Types, ClientFields
<1> QED BY <1>3, <1>4, <1>5

LEMMA TakeCurrentOK ==
  ASSUME IInv, NEW q \in Request, TakeCurrent(q)
  PROVE  PlacesOK' /\ QueuesOK' /\ \A u \in Request : RequestOK(u)'
<1>1. /\ Go(q, "Wait", "onWait") /\ task' = [task EXCEPT ![q] = request[q].current]
      /\ UNCHANGED <<request, tasks, taskQueue, copy, client>>
  BY DEF TakeCurrent
<1>2. /\ task \in [Thread -> Task \cup {NoTask}] /\ q \in Thread
      /\ {"Wait", "onWait"} \subseteq Waiting /\ "onWait" \in OwnerAt
  BY Threads DEF IInv, Types, Waiting, OwnerAt
<1>3. task'[q] = request[q].current /\ \A t \in Thread : t # q => task'[t] = task[t]
  BY <1>1, <1>2
<1>4. Move(q, "onWait") /\ pc[q] = "Wait"
  BY <1>1, <1>2, <1>3, OwnerMoves
<1>5. q \in Callback => Len(client[q].called) >= Repeats[q]
  BY <1>2, <1>4 DEF IInv, RequestOK, OwnerOK
<1>6. OwnerGoes(q, "onWait")
  BY <1>1, <1>2, <1>3, <1>4, <1>5 DEF OwnerGoes, Starting, Inferring
<1> QED BY <1>1, <1>4, <1>6, OwnerPlain

LEMMA OnWaitOK ==
  ASSUME IInv, NEW q \in Request, OnWait(q) \/ WakeUp(q)
  PROVE  PlacesOK' /\ QueuesOK' /\ \A u \in Request : RequestOK(u)'
<1>1. PICK from \in {"onWait", "asleep"}, to \in {"asleep", "awake"}, w \in BOOLEAN :
        /\ \/ from = "onWait" /\ to = "asleep" /\ w = TRUE
           \/ from = "asleep" /\ to = "awake" /\ w = FALSE /\ IsTaskDone(task[q])
        /\ Go(q, from, to) /\ tasks' = [tasks EXCEPT ![task[q]].onWait = w]
        /\ UNCHANGED <<request, taskQueue, task, copy, client>>
  <2>1. CASE OnWait(q)
    BY <2>1 DEF OnWait
  <2>2. CASE WakeUp(q)
    BY <2>2 DEF WakeUp
  <2> QED BY <2>1, <2>2
<1>2. /\ {from, to} \subseteq Waiting /\ to \in OwnerAt /\ "onWait" \in Waiting
      /\ to \notin Starting \cup Inferring \cup {"StartAsync", "InferSync"}
      /\ from \notin Starting \cup {"ended"}
  BY <1>1 DEF Waiting, OwnerAt, Starting, Inferring
<1>3. pc[q] = from
  BY <1>1 DEF Go
<1>4. task[q] = request[q].current /\ (q \in Callback => Len(client[q].called) >= Repeats[q])
  BY <1>1, <1>2, <1>3 DEF IInv, RequestOK, OwnerOK
<1>5. PICK x : x = task[q]
  OBVIOUS
<1>6. x = Sync(q) \/ x \in TasksOf(q)
  BY <1>4, <1>5 DEF IInv, RequestOK, FieldsOK
<1>7. x \in Task /\ \A u \in Request \ {q} : \A y \in TasksOf(u) : y \in Task /\ y # x
  <2>1. CASE x = Sync(q)
    BY <2>1, TasksOfRequest DEF TasksOf, Sync
  <2>2. CASE x \in TasksOf(q)
    BY <2>2, TasksOfRequest, TasksApart
  <2> QED BY <1>6, <2>1, <2>2
<1>8. tasks \in [Task -> TaskFields] /\ tasks' = [tasks EXCEPT ![x].onWait = w]
  BY <1>1, <1>5 DEF IInv, Types
<1>9. /\ \A y \in Task : /\ y # x => tasks'[y] = tasks[y]
                         /\ SameStatus(y)
      /\ tasks'[x].onWait = w
  BY <1>7, <1>8 DEF TaskFields, SameStatus
<1>10. \A u \in Request \ {q} : \A y \in TasksOf(u) : tasks'[y] = tasks[y]
  BY <1>7, <1>9
<1>11. Move(q, to)
  BY <1>1, <1>2, <1>10, OwnerMoves
<1>12. to = "awake" => NoneLive(q)
  <2>1. SUFFICES ASSUME to = "awake", NEW y \in TasksOf(q), Live(y) PROVE FALSE
    BY DEF NoneLive
  <2>2. IsTaskDone(x)
    BY <1>1, <1>5, <2>1
  <2>3. Queued(y) /\ request[q].current = y
    BY <2>1 DEF IInv, RequestOK, TasksOK, InferenceOK, Live
  <2>4. tasks[y].status \in {"TS_BUSY", "TS_POSTPONED"}
    BY <2>3, QueuedStatus DEF IInv, RequestOK
  <2>5. tasks[y].status \in Final \cup {"TS_INITIAL"}
    BY <1>4, <1>5, <2>2, <2>3 DEF IsTaskDone
  <2> QED BY <2>4, <2>5 DEF Final
<1>13. OwnerGoes(q, to)
  BY <1>1, <1>2, <1>3, <1>4, <1>11, <1>12 DEF OwnerGoes
<1>14. ~ request[q].destroyed
  BY <1>2, <1>3 DEF IInv, RequestOK, FieldsOK
<1>15. \A y \in TasksOf(q) : tasks'[y].onWait => to = "asleep" /\ task'[q] = y
  <2>1. ASSUME NEW y \in TasksOf(q), y # x
        PROVE  ~ tasks'[y].onWait
    <3>1. tasks'[y] = tasks[y]
      BY <1>9, <2>1, TasksOfRequest
    <3>2. tasks[y].onWait => task[q] = y
      BY DEF IInv, RequestOK, TasksOK, InferenceOK
    <3> QED BY <1>5, <2>1, <3>1, <3>2
  <2> QED BY <1>1, <1>5, <1>9, <2>1
<1>16. \A y \in TasksOf(q) : SameStatus(y)
  BY <1>9, TasksOfRequest
<1>17. OwnerChanges(q, to)
  BY <1>1, <1>14, <1>15, <1>16 DEF OwnerChanges
<1> QED BY <1>13, <1>17, OwnerOnly

LEMMA WaitEndsOK ==
  ASSUME IInv, NEW q \in Request, WaitEnds(q)
  PROVE  PlacesOK' /\ QueuesOK' /\ \A u \in Request : RequestOK(u)'
<1>1. PICK a :
        /\ Go(q, "awake", "idle") /\ task' = [task EXCEPT ![q] = NoTask]
        /\ request' = [request EXCEPT ![q].busy = FALSE]
        /\ client' = [client EXCEPT ![q].waits = @ + 1, ![q].told = a]
        /\ UNCHANGED <<tasks, taskQueue, copy>>
  BY DEF WaitEnds
<1>2. /\ request \in [Request -> RequestFields] /\ client \in [Request -> ClientFields]
      /\ task \in [Thread -> Task \cup {NoTask}] /\ q \in Thread
  BY Threads DEF IInv, Types
<1>3. /\ request'[q].async = request[q].async /\ request'[q].created = request[q].created
      /\ request'[q].current = request[q].current
      /\ request'[q].destroyed = request[q].destroyed
      /\ \A u \in Request \ {q} : request'[u] = request[u]
  BY <1>1, <1>2 DEF RequestFields
<1>4. /\ client'[q].started = client[q].started /\ client'[q].called = client[q].called
      /\ \A u \in Request \ {q} : client'[u] = client[u]
  BY <1>1, <1>2 DEF ClientFields
<1>5. "awake" \in Waiting /\ "idle" \in OwnerAt /\ "awake" \notin Starting
      /\ "idle" \notin Starting \cup Inferring \cup Waiting
  BY DEF Waiting, OwnerAt, Starting, Inferring
<1>6. Move(q, "idle") /\ pc[q] = "awake"
  BY <1>1, <1>2, <1>3, <1>4, <1>5, OwnerMoves
<1>7. NoneLive(q)
  BY <1>6 DEF IInv, RequestOK, OwnerOK
<1>8. OwnerGoes(q, "idle")
  BY <1>1, <1>5, <1>6, <1>7 DEF OwnerGoes
<1>9. \A t \in Starters(q) : t # q => pc[t] \notin Starting
  BY <1>5, <1>6, NobodyStarts
<1>10. ~ request[q].destroyed /\ \A x \in TasksOf(q) : ~ tasks[x].onWait
  BY <1>6 DEF IInv, RequestOK, FieldsOK, TasksOK, InferenceOK
<1>11. OwnerChanges(q, "idle")
  BY <1>1, <1>3, <1>4, <1>7, <1>9, <1>10 DEF OwnerChanges, SameStatus
<1> QED BY <1>8, <1>11, OwnerOnly

LEMMA WaitOK ==
  ASSUME IInv, NEW q \in Request, Wait(q)
  PROVE  Preserved
<1>1. PlacesOK' /\ QueuesOK' /\ \A u \in Request : RequestOK(u)'
  BY TakeCurrentOK, OnWaitOK, WaitEndsOK DEF Wait
<1>2. UNCHANGED syncQueue /\ pc \in [Thread -> OwnerAt \cup TaskAt \cup CallbackAt]
  BY DEF Wait, TakeCurrent, OnWait, WakeUp, WaitEnds, IInv, Types
<1>3. \A u \in Request : pc'[u] = pc[u] \/ pc'[u] \in {"idle", "onWait", "asleep", "awake"}
  BY <1>2, Threads DEF Wait, TakeCurrent, OnWait, WakeUp, WaitEnds, Go
<1>4. SyncOK'
  BY <1>2, <1>3, SyncStays
<1> QED BY <1>1, <1>4 DEF Preserved

(* No callback destroys its request: it would wait for its own task.       *)
LEMMA DestroysOwn ==
  ASSUME IInv, NEW t \in Thread, WaitAllAsyncTasks(t)
  PROVE  t \in Request /\ \A x \in TasksOf(t) : ~ Queued(x)
<1>1. PICK q : q = Of(t)
  OBVIOUS
<1>2. /\ AllEnded(q) /\ pc[t] = "destroy"
  BY <1>1 DEF WaitAllAsyncTasks, Go
<1>3. ASSUME q \in Request, NEW x \in TasksOf(q)
      PROVE  ~ Queued(x)
  <2>1. SUFFICES ASSUME Queued(x) PROVE FALSE
    OBVIOUS
  <2>2. x[2] <= request[q].created
    BY <1>3, <2>1 DEF IInv, RequestOK, TasksOK, InferenceOK
  <2>3. x[2] \in 1 .. 2 /\ x = <<q, x[2]>> /\ request[q].created \in 0 .. 2
    BY <1>3, TasksOfRequest DEF IInv, Types, RequestFields
  <2>4. x[2] \in 1 .. request[q].created
    BY <2>2, <2>3
  <2>5. IsTaskDone(x)
    BY <1>2, <2>3, <2>4 DEF AllEnded
  <2>6. tasks[x].status \in {"TS_BUSY", "TS_POSTPONED"}
    BY <1>3, <2>1, QueuedStatus DEF IInv, RequestOK
  <2> QED BY <2>5, <2>6 DEF IsTaskDone, Final
<1>4. t \in Request
  <2>1. t # callbackExecutor
    <3>1. SUFFICES ASSUME t = callbackExecutor PROVE FALSE
      OBVIOUS
    <3>2. task[t] \in TasksOf(q) /\ q \in Request
      BY <1>1, <1>2, <3>1, Hold, Threads DEF IInv
    <3>3. Held2(task[t])
      BY <3>1 DEF Held2
    <3>4. Queued(task[t])
      BY <1>2, <3>1, <3>2, Hold, Threads DEF IInv, Queued, In2
    <3> QED BY <1>3, <3>2, <3>4
  <2>2. t # taskExecutor
    BY <1>2 DEF IInv, PlacesOK, TaskAt
  <2> QED BY <2>1, <2>2 DEF Thread, Executor
<1>5. q = t
  BY <1>1, <1>4 DEF Of
<1> QED BY <1>3, <1>4, <1>5

LEMMA DestroyOK ==
  ASSUME IInv, NEW t \in Thread, WaitAllAsyncTasks(t)
  PROVE  Preserved
<1>1. PICK q : q = Of(t)
  OBVIOUS
<1>2. /\ Go(t, "destroy", "ended") /\ pc[t] = "destroy"
      /\ request' = [request EXCEPT ![q].destroyed = TRUE]
      /\ UNCHANGED <<tasks, taskQueue, syncQueue, task, copy, client>>
  BY <1>1 DEF WaitAllAsyncTasks, Go
<1>3. \A x \in TasksOf(t) : ~ Queued(x)
  BY DestroysOwn
<1>4. t \in Request
  BY DestroysOwn
<1>5. q = t
  BY <1>1, <1>4 DEF Of
<1>6. request \in [Request -> RequestFields]
  BY DEF IInv, Types
<1>7. /\ request'[q].async = request[q].async /\ request'[q].created = request[q].created
      /\ request'[q].current = request[q].current
      /\ request'[q].busy = request[q].busy /\ request'[q].exception = request[q].exception
      /\ \A u \in Request \ {q} : request'[u] = request[u]
  BY <1>2, <1>4, <1>5, <1>6 DEF RequestFields
<1>8. "ended" \in OwnerAt /\ "destroy" \notin Starting
      /\ "ended" \notin Starting \cup Inferring \cup Waiting
  BY DEF Waiting, OwnerAt, Starting, Inferring
<1>9. /\ Move(q, "ended")
      /\ \A u \in Thread : pc'[u] = IF u = q THEN "ended" ELSE pc[u]
  BY <1>2, <1>4, <1>5, <1>7, <1>8, OwnerMoves
<1>10. OwnerGoes(q, "ended")
  BY <1>2, <1>4, <1>5, <1>8, <1>9 DEF OwnerGoes, Waiting
<1>11. \A x \in TasksOf(q) : ~ tasks[x].onWait
  BY <1>2, <1>4, <1>5 DEF IInv, RequestOK, TasksOK, InferenceOK
<1>12. OwnerChanges(q, "ended")
  BY <1>2, <1>3, <1>4, <1>5, <1>7, <1>11 DEF OwnerChanges, SameStatus
<1>13. PlacesOK' /\ QueuesOK' /\ \A u \in Request : RequestOK(u)'
  BY <1>4, <1>5, <1>10, <1>12, OwnerOnly
<1>14. SyncOK'
  BY <1>2, <1>9, SyncStays, Threads
<1> QED BY <1>13, <1>14 DEF Preserved

-----------------------------------------------------------------------------
(* The steps of the executors, each about a task x of a request q that is  *)
(* queued.                                                                 *)

(* The other tasks of the request stay where they are.                     *)
OtherTasks(q, x) ==
  \A y \in TasksOf(q) : y # x =>
    /\ tasks'[y] = tasks[y] /\ TaskOK(y)'
    /\ Queued(y)' <=> Queued(y)
    /\ Live(y)' <=> Live(y)
    /\ Ahead(y)' <=> Ahead(y)

(* The task goes its way, from its start to its end.                       *)
GoesOn(x) ==
  /\ TaskOK(x)' /\ tasks'[x].onWait = tasks[x].onWait /\ tasks'[x].status # "TS_INITIAL"
  /\ Live(x)' => Live(x)
  /\ Ahead(x)' => Ahead(x)

(* What becomes of the fields of the request.                              *)
ExecutorChanges(q, x) ==
  /\ request'[q].async = request[q].async /\ request'[q].current = request[q].current
  /\ request'[q].created = request[q].created /\ request'[q].destroyed = request[q].destroyed
  /\ client'[q].started = client[q].started
  /\ \/ client'[q].called = client[q].called
     \/ ~ Live(x)' /\ Live(x) /\ Len(client'[q].called) = Len(client[q].called) + 1
  /\ \/ request'[q].busy = request[q].busy /\ request'[q].exception = request[q].exception
     \/ /\ \A y \in TasksOf(q) : ~ Ahead(y)' /\ (q \notin Callback => ~ Live(y)')
        /\ \A t \in Starters(q) : pc[t] \notin Starting

LEMMA ExecutorOnly ==
  ASSUME IInv, NEW q \in Request, NEW x \in TasksOf(q), Queued(x),
         pc'[q] = pc[q], task'[q] = task[q],
         \/ pc'[callbackExecutor] = pc[callbackExecutor]
            /\ task'[callbackExecutor] = task[callbackExecutor]
         \/ {pc[callbackExecutor], pc'[callbackExecutor]} \cap Starting = {},
         OtherTasks(q, x), GoesOn(x), ExecutorChanges(q, x), CallbackOK(q)'
  PROVE  RequestOK(q)'
<1>1. TasksOf(q)' = TasksOf(q)
  BY DEF TasksOf
<1>2. \A y \in TasksOf(q) : /\ TaskOK(y)' /\ (Queued(y)' => Queued(y))
                            /\ Live(y)' => Live(y)
                            /\ Ahead(y)' => Ahead(y)
                            /\ Ahead(y)' => Live(y)
                            /\ tasks'[y].onWait = tasks[y].onWait
                            /\ tasks'[y].status = "TS_INITIAL" => tasks[y].status = "TS_INITIAL"
  BY QueuedStatus DEF OtherTasks, GoesOn, IInv, RequestOK
<1>3. \A y \in TasksOf(q) : Live(y) => y = request[q].async
  BY DEF IInv, RequestOK, TasksOK, InferenceOK
<1>4. Starters(q) \subseteq {q, callbackExecutor} /\ Starters(q)' \subseteq {q, callbackExecutor}
      /\ q \in Starters(q) /\ q \in Starters(q)'
  BY <1>1 DEF Starters
<1>5. \A t \in {q, callbackExecutor} :
        pc'[t] \in Starting /\ t \in Starters(q)' => t \in Starters(q) /\ pc'[t] = pc[t]
  BY <1>1, <1>4 DEF Starters
<1>6. \A t \in {q, callbackExecutor} :
        pc[t] \in Starting /\ t \in Starters(q) => t \in Starters(q)' /\ pc'[t] = pc[t]
  BY <1>1, <1>4 DEF Starters
<1>7. {"setBusy", "reset", "initNext", "resetStages", "startTask"} \subseteq Starting
  BY DEF Starting
<1>8. client'[q].called = client[q].called
      \/ /\ \A y \in TasksOf(q) : ~ Live(y)'
         /\ Len(client'[q].called) = Len(client[q].called) + 1
  <2>1. ASSUME ~ Live(x)', Live(x), NEW y \in TasksOf(q), Live(y)' PROVE FALSE
    BY <1>2, <1>3, <2>1
  <2> QED BY <2>1 DEF ExecutorChanges
<1>9. client[q].started >= 1
  BY DEF IInv, RequestOK, TasksOK, InferenceOK
<1>10. TasksOK(q)'
  <2>1. ASSUME NEW y \in TasksOf(q)
        PROVE  InferenceOK(q, y)'
    <3>1. InferenceOK(q, y)
      BY DEF IInv, RequestOK, TasksOK
    <3>2. (Queued(y) => y[2] <= request[q].created /\ client[q].started >= 1
                        /\ ~ request[q].destroyed)'
      BY <1>2, <3>1 DEF InferenceOK, ExecutorChanges
    <3>3. (Live(y) => /\ request[q].async = y /\ request[q].current = y
                      /\ q \notin Callback => request[q].busy
                      /\ q \in Callback => Len(client[q].called) < Repeats[q])'
      BY <1>2, <1>8, <3>1 DEF InferenceOK, ExecutorChanges
    <3>4. (Ahead(y) => request[q].busy /\ ~ request[q].exception)'
      BY <1>2, <3>1 DEF InferenceOK, ExecutorChanges
    <3>5. (y[2] <= request[q].created /\ tasks[y].status = "TS_INITIAL" =>
             request[q].async = y
             /\ \E t \in Starters(q) : pc[t] \in {"resetStages", "startTask"})'
      BY <1>2, <1>4, <1>6, <1>7, <3>1 DEF InferenceOK, ExecutorChanges
    <3>6. (tasks[y].onWait => pc[q] = "asleep" /\ task[q] = y)'
      BY <1>2, <3>1 DEF InferenceOK
    <3> QED BY <3>2, <3>3, <3>4, <3>5, <3>6 DEF InferenceOK
  <2> QED BY <1>1, <2>1 DEF TasksOK
<1>11. FieldsOK(q)'
  <2>1. FieldsOK(q)
    BY DEF IInv, RequestOK
  <2>2. client'[q].started # 0
    BY <1>9 DEF ExecutorChanges
  <2> QED BY <1>1, <1>4, <1>6, <1>7, <2>1, <2>2 DEF FieldsOK, ExecutorChanges
<1>12. NoneLive(q) => NoneLive(q)'
  BY <1>1, <1>2 DEF NoneLive
<1>13. StartOK(q)'
  <2>1. StartOK(q)
    BY DEF IInv, RequestOK
  <2>2. ASSUME NEW t \in Starters(q)', pc'[t] \in Starting
        PROVE  /\ t \in Starters(q) /\ pc'[t] = pc[t]
               /\ request'[q].busy = request[q].busy
               /\ request'[q].exception = request[q].exception
    BY <1>4, <1>5, <2>2 DEF ExecutorChanges
  <2>3. ASSUME NEW t \in Starters(q), pc[t] \in {"resetStages", "startTask"}
        PROVE  /\ request'[q].async # NoTask /\ (~ Queued(request[q].async))'
               /\ tasks'[request'[q].async].stage = tasks[request[q].async].stage
    <3>1. request[q].async # NoTask /\ ~ Queued(request[q].async)
      BY <2>1, <2>3 DEF StartOK
    <3>2. PICK y \in TasksOf(q) : y = request[q].async
      BY <3>1 DEF IInv, RequestOK, FieldsOK
    <3>3. request'[q].async = y /\ ~ Queued(y)' /\ tasks'[y] = tasks[y]
      BY <1>2, <3>1, <3>2 DEF ExecutorChanges, OtherTasks
    <3>4. (~ Queued(request[q].async))'
      BY <3>3
    <3> QED BY <3>1, <3>2, <3>3, <3>4
  <2>4. ASSUME NEW t \in Starters(q)'
        PROVE  (/\ pc[t] \in Starting => NoneLive(q)
                /\ pc[t] \in {"reset", "initNext", "resetStages", "startTask"} => request[q].busy
                /\ pc[t] \in {"initNext", "resetStages", "startTask"} => ~ request[q].exception
                /\ pc[t] \in {"resetStages", "startTask"} =>
                     request[q].async # NoTask /\ ~ Queued(request[q].async)
                /\ pc[t] = "startTask" => request[q].current = request[q].async
                                          /\ tasks[request[q].async].stage = 2)'
    <3>1. /\ request'[q].async = request[q].async
          /\ request'[q].current = request[q].current
      BY DEF ExecutorChanges
    <3>2. CASE pc'[t] \in Starting
      <4>1. /\ t \in Starters(q) /\ pc'[t] = pc[t]
            /\ request'[q].busy = request[q].busy
            /\ request'[q].exception = request[q].exception
        BY <2>2, <2>4, <3>2
      <4> QED BY <1>7, <1>12, <2>1, <2>3, <3>1, <3>2, <4>1 DEF StartOK
    <3>3. CASE pc'[t] \notin Starting
      BY <1>7, <3>3
    <3> QED BY <3>2, <3>3
  <2> QED BY <2>4 DEF StartOK
<1>14. OwnerOK(q)'
  <2>1. OwnerOK(q)
    BY DEF IInv, RequestOK
  <2>2. ASSUME Len(client[q].called) >= Repeats[q]
        PROVE  Len(client'[q].called) >= Repeats[q]
    <3>1. Len(client[q].called) \in Nat /\ Repeats[q] \in Nat
      BY RequestAssumption, LenProperties DEF IInv, Types, ClientFields
    <3> QED BY <1>8, <2>2, <3>1
  <2> QED BY <1>12, <2>1, <2>2 DEF OwnerOK, ExecutorChanges
<1> QED BY <1>1, <1>2, <1>10, <1>11, <1>13, <1>14 DEF RequestOK

(* A step of an executor in the middle of its turn.                        *)
Turn(e, q, x, from, to) ==
  /\ q = Of(e) /\ x = task[e]
  /\ Go(e, from, to) /\ {from, to} \cap {"fetch", "ended"} = {}
  /\ e = taskExecutor => to \in TaskAt
  /\ e = callbackExecutor => to \in CallbackAt
  /\ UNCHANGED <<taskQueue, task, syncQueue>>
  /\ \A f \in Executor \ {e} : copy'[f] = copy[f]
  /\ \A u \in Request \ {q} : request'[u] = request[u] /\ client'[u] = client[u]
  /\ \A y \in Task \ {x} : tasks'[y] = tasks[y]

LEMMA TurnMoves ==
  ASSUME IInv, NEW e \in Executor, NEW q, NEW x, NEW from, NEW to, Turn(e, q, x, from, to)
  PROVE  /\ q \in Request /\ x \in TasksOf(q) /\ x \in Task
         /\ Queued(x) /\ TaskOK(x) /\ (x[1] \in Callback <=> q \in Callback)
         /\ e = taskExecutor => Held1(x) /\ In1(x) /\ FirstTurn(x)
         /\ e = callbackExecutor => Held2(x) /\ In2(x) /\ SecondTurn(x) /\ q \in Callback
         /\ pc[e] = from /\ pc'[e] = to /\ \A u \in Thread : u # e => pc'[u] = pc[u]
         /\ \A y : /\ In1(y)' <=> In1(y)
                   /\ In2(y)' <=> In2(y)
                   /\ Held1(y)' <=> Held1(y)
                   /\ Held2(y)' <=> Held2(y)
         /\ PlacesOK' /\ QueuesOK' /\ SyncOK'
         /\ \A u \in Request \ {q} : RequestOK(u)' /\ Elsewhere(u)
         /\ OtherTasks(q, x)
<1>1. pc[e] = from /\ pc' = [pc EXCEPT ![e] = to] /\ pc[e] \notin {"fetch", "ended"}
  BY DEF Turn, Go
<1>2. /\ q \in Request /\ x \in TasksOf(q) /\ x \in Task /\ x \in QueueOf(e)
  BY <1>1, Hold DEF IInv, Turn
<1>3. TaskOK(x) /\ x[1] = q
  BY <1>2, TasksOfRequest DEF IInv, RequestOK
<1>4. /\ e = taskExecutor => Held1(x) /\ In1(x) /\ FirstTurn(x)
      /\ e = callbackExecutor => Held2(x) /\ In2(x) /\ SecondTurn(x) /\ q \in Callback
  BY <1>2, <1>3 DEF TaskOK, Held1, Held2, In1, In2, Turn
<1>5. Queued(x)
  BY <1>4, Threads DEF Queued
<1>6. \A u \in Request \ {q} : \A y \in TasksOf(u) : y \in Task /\ y # x
  BY <1>2, TasksApart
<1>7. e \in Thread /\ e \notin Request
  BY Threads
<1>8. Move(e, to)
  <2>1. \A u \in Request \ {q} : pc'[u] = pc[u]
    BY <1>1, <1>7, Threads DEF IInv, Types
  <2>2. OnlyFor(Of(e))
    BY <1>6, <2>1 DEF Turn, OnlyFor
  <2> QED BY <1>1, <1>7, <2>2 DEF Turn, Move
<1>9. /\ PlacesOK' /\ QueuesOK'
      /\ \A u \in Request \ {q} : RequestOK(u)' /\ Elsewhere(u)
      /\ \A u \in Thread : pc'[u] = IF u = e THEN to ELSE pc[u]
      /\ \A y : /\ In1(y)' <=> In1(y)
                /\ In2(y)' <=> In2(y)
                /\ Held1(y)' <=> Held1(y)
                /\ Held2(y)' <=> Held2(y)
  BY <1>7, <1>8, MoveOK DEF Turn
<1>10. SyncOK'
  BY <1>7, <1>9, SyncStays, Threads DEF Turn
<1>11. ASSUME NEW y \in TasksOf(q), y # x
       PROVE  Still(y) /\ tasks'[y] = tasks[y] /\ SameStatus(y)
  <2>1. y \in Task
    BY <1>2, <1>11, TasksOfRequest
  <2>2. /\ Held1(y) => e # taskExecutor
        /\ Held2(y) => e # callbackExecutor
    BY <1>11 DEF Held1, Held2, Turn
  <2>3. Still(y)
    BY <1>9, <2>2, Threads DEF Still, Turn
  <2> QED BY <1>11, <2>1, <2>3 DEF Turn, SameStatus
<1>12. OtherTasks(q, x)
  BY <1>2, <1>11, StillOK, StillLive DEF OtherTasks, IInv, RequestOK
<1> QED BY <1>1, <1>2, <1>3, <1>4, <1>5, <1>7, <1>9, <1>10, <1>12, Threads

(* The executor of inferences leaves what is said of that of callbacks.    *)
LEMMA CallbackStays ==
  ASSUME IInv, NEW q \in Request, NEW x \in TasksOf(q), OtherTasks(q, x), GoesOn(x),
         pc'[callbackExecutor] = pc[callbackExecutor],
         task'[callbackExecutor] = task[callbackExecutor],
         client'[q].called = client[q].called
  PROVE  CallbackOK(q)'
<1>1. TasksOf(q)' = TasksOf(q)
  BY DEF TasksOf
<1>2. \A y \in TasksOf(q) : (Live(y)' => Live(y)) /\ (Ahead(y)' => Ahead(y))
  BY DEF OtherTasks, GoesOn
<1>3. NoneLive(q) => NoneLive(q)'
  BY <1>1, <1>2 DEF NoneLive
<1>4. CallbackOK(q)
  BY DEF IInv, RequestOK
<1> QED BY <1>1, <1>2, <1>3, <1>4 DEF CallbackOK

(* As long as one is live nobody starts another.                           *)
LEMMA LiveHolds ==
  ASSUME IInv, NEW q \in Request, NEW x \in TasksOf(q), Live(x)
  PROVE  /\ \A t \in Starters(q) : pc[t] \notin Starting
         /\ \A y \in TasksOf(q) : y # x => ~ Live(y) /\ ~ Ahead(y)
         /\ request[q].async = x
<1>1. \A y \in TasksOf(q) : (Live(y) => y = request[q].async) /\ (Ahead(y) => Live(y))
  BY QueuedStatus DEF IInv, RequestOK, TasksOK, InferenceOK
<1>2. \A t \in Starters(q) : pc[t] \notin Starting
  BY DEF IInv, RequestOK, StartOK, NoneLive
<1> QED BY <1>1, <1>2

(* The executor of inferences, in the middle of its turn.                  *)
LEMMA TaskTurn ==
  ASSUME IInv, NEW q, NEW x, NEW from, NEW to, Turn(taskExecutor, q, x, from, to),
         from # "done", FirstTurn(x)',
         tasks'[x].onWait = tasks[x].onWait, tasks'[x].status # "TS_INITIAL",
         to \in {"run", "lambda", "inferring"} => from \in {"run", "lambda"},
         from \in {"failed", "threw"} /\ q \notin Callback => to \in {"failed", "threw"},
         request'[q].async = request[q].async, request'[q].current = request[q].current,
         request'[q].created = request[q].created,
         request'[q].destroyed = request[q].destroyed,
         client'[q].started = client[q].started, client'[q].called = client[q].called,
         \/ request'[q].busy = request[q].busy /\ request'[q].exception = request[q].exception
         \/ /\ from = "failure" \/ (from = "failed" /\ q \in Callback)
            /\ to \notin {"run", "lambda", "inferring"}
            /\ q \notin Callback => to \in {"failed", "threw"}
  PROVE  Preserved
<1>1. /\ q \in Request /\ x \in TasksOf(q) /\ x \in Task
      /\ Queued(x) /\ TaskOK(x) /\ (x[1] \in Callback <=> q \in Callback)
      /\ Held1(x) /\ In1(x) /\ FirstTurn(x)
      /\ pc[taskExecutor] = from /\ pc'[taskExecutor] = to
      /\ \A u \in Thread : u # taskExecutor => pc'[u] = pc[u]
      /\ \A y : /\ In1(y)' <=> In1(y)
                /\ In2(y)' <=> In2(y)
                /\ Held1(y)' <=> Held1(y)
                /\ Held2(y)' <=> Held2(y)
      /\ PlacesOK' /\ QueuesOK' /\ SyncOK'
      /\ \A u \in Request \ {q} : RequestOK(u)'
      /\ OtherTasks(q, x)
  BY TurnMoves, Threads
<1>2. /\ pc'[q] = pc[q] /\ pc'[callbackExecutor] = pc[callbackExecutor]
      /\ task' = task
  BY <1>1, Threads DEF Turn
<1>3. ~ In2(x) /\ ~ Held2(x)
  BY <1>1, HeldTwo DEF FirstTurn, IInv
<1>4. TaskOK(x)'
  BY <1>1, <1>3 DEF TaskOK, Queued
<1>5. (Past(x) => Past(x)') /\ (Live(x)' => Live(x)) /\ (Ahead(x)' => Ahead(x))
  <2>1. Past(x) => Past(x)'
    BY <1>1, <1>3 DEF Past
  <2>2. Ahead(x)' => Ahead(x)
    BY <1>1 DEF Ahead
  <2> QED BY <1>1, <2>1, <2>2 DEF Live
<1>6. GoesOn(x)
  BY <1>4, <1>5 DEF GoesOn
<1>7. CallbackOK(q)'
  BY <1>1, <1>2, <1>6, CallbackStays
<1>8. ExecutorChanges(q, x)
  <2>1. CASE request'[q].busy = request[q].busy /\ request'[q].exception = request[q].exception
    BY <2>1 DEF ExecutorChanges
  <2>2. CASE /\ from = "failure" \/ (from = "failed" /\ q \in Callback)
             /\ to \notin {"run", "lambda", "inferring"}
             /\ q \notin Callback => to \in {"failed", "threw"}
    <3>1. Live(x)
      BY <1>1, <1>3, <2>2 DEF Live, Past
    <3>2. /\ \A t \in Starters(q) : pc[t] \notin Starting
          /\ \A y \in TasksOf(q) : y # x => ~ Live(y) /\ ~ Ahead(y)
      BY <1>1, <3>1, LiveHolds
    <3>3. ~ Ahead(x)' /\ (q \notin Callback => ~ Live(x)')
      BY <1>1, <2>2 DEF Ahead, Live, Past
    <3> QED BY <1>1, <3>2, <3>3 DEF ExecutorChanges, OtherTasks
  <2> QED BY <2>1, <2>2
<1>9. RequestOK(q)'
  BY <1>1, <1>2, <1>6, <1>7, <1>8, ExecutorOnly
<1> QED BY <1>1, <1>9 DEF Preserved

(* The executor of callbacks, in the middle of its turn.                   *)
LEMMA CallbackTurn ==
  ASSUME IInv, NEW q, NEW x, NEW from, NEW to, Turn(callbackExecutor, q, x, from, to),
         to # "run", {from, to} \cap Starting = {}, from \in AfterCall => to \in AfterCall,
         SecondTurn(x)',
         tasks'[x].onWait = tasks[x].onWait, tasks'[x].status # "TS_INITIAL",
         ExecutorChanges(q, x), CallbackOK(q)'
  PROVE  Preserved
<1>1. /\ q \in Request /\ x \in TasksOf(q) /\ x \in Task /\ q \in Callback
      /\ Queued(x) /\ TaskOK(x) /\ (x[1] \in Callback <=> q \in Callback)
      /\ Held2(x) /\ In2(x) /\ SecondTurn(x)
      /\ pc[callbackExecutor] = from /\ pc'[callbackExecutor] = to
      /\ \A u \in Thread : u # callbackExecutor => pc'[u] = pc[u]
      /\ \A y : /\ In1(y)' <=> In1(y)
                /\ In2(y)' <=> In2(y)
                /\ Held1(y)' <=> Held1(y)
                /\ Held2(y)' <=> Held2(y)
      /\ PlacesOK' /\ QueuesOK' /\ SyncOK'
      /\ \A u \in Request \ {q} : RequestOK(u)'
      /\ OtherTasks(q, x)
  BY TurnMoves, Threads
<1>2. pc'[q] = pc[q] /\ task' = task
  BY <1>1, Threads DEF Turn
<1>3. ~ In1(x)' /\ ~ Held1(x)'
  <2>1. ~ In1(x)'
    BY <1>1 DEF SecondTurn
  <2> QED BY <1>1, <2>1, HeldTwo DEF IInv
<1>4. TaskOK(x)'
  BY <1>1, <1>3 DEF TaskOK, Queued
<1>5. (Live(x)' => Live(x)) /\ (Ahead(x)' => Ahead(x))
  <2>1. Past(x) => Past(x)'
    BY <1>1 DEF Past
  <2> QED BY <1>1, <1>3, <2>1 DEF Live, Ahead
<1>6. GoesOn(x)
  BY <1>4, <1>5 DEF GoesOn
<1>7. RequestOK(q)'
  BY <1>1, <1>2, <1>6, ExecutorOnly
<1> QED BY <1>1, <1>7 DEF Preserved

LEMMA RunOK ==
  ASSUME IInv, NEW e \in Executor, Run(e)
  PROVE  /\ Preserved
         /\ Turn(e, Of(e), task[e], "run", "lambda") /\ ~ tasks'[task[e]].failed
<1>1. PICK q, x : q = Of(e) /\ x = task[e]
  OBVIOUS
<1>2. /\ Go(e, "run", "lambda") /\ tasks[x].run = Nobody
      /\ tasks' = [tasks EXCEPT ![x].run = e, ![x].failed = FALSE,
                   ![x].status = IF tasks[x].stage > 0 THEN "TS_POSTPONED" ELSE @]
      /\ UNCHANGED <<request, taskQueue, syncQueue, task, copy, client>>
  BY <1>1 DEF Run, CanRun
<1>3. tasks \in [Task -> TaskFields]
  BY DEF IInv, Types
<1>4. Turn(e, q, x, "run", "lambda")
  BY <1>1, <1>2, <1>3 DEF Turn, TaskAt, CallbackAt
<1>5. /\ q \in Request /\ x \in TasksOf(q) /\ x \in Task /\ TaskOK(x) /\ Queued(x)
      /\ e = taskExecutor => Held1(x) /\ In1(x) /\ FirstTurn(x)
      /\ e = callbackExecutor => Held2(x) /\ In2(x) /\ SecondTurn(x)
      /\ pc[e] = "run" /\ pc'[e] = "lambda"
      /\ \A y : /\ In1(y)' <=> In1(y)
                /\ In2(y)' <=> In2(y)
  BY <1>4, TurnMoves
<1>6. \/ e = taskExecutor /\ Has(x, "TS_BUSY", 2, Nobody)
      \/ e = callbackExecutor /\ Has(x, "TS_BUSY", 1, Nobody) /\ ~ In1(x)
  <2>1. CASE e = taskExecutor
    BY <1>5, <2>1 DEF FirstTurn
  <2>2. CASE e = callbackExecutor
    <3>1. Has(x, "TS_BUSY", 1, IF In1(x) THEN taskExecutor ELSE Nobody)
      BY <1>5, <2>2 DEF TaskOK
    <3>2. ~ In1(x)
      BY <1>2, <3>1, Threads, ThreadAssumption DEF Has
    <3> QED BY <2>2, <3>1, <3>2
  <2> QED BY <2>1, <2>2, Threads
<1>7. tasks[x].stage > 0
  BY <1>6 DEF Has
<1>8. /\ tasks'[x].status = "TS_POSTPONED" /\ tasks'[x].stage = tasks[x].stage
      /\ tasks'[x].run = e /\ tasks'[x].onWait = tasks[x].onWait /\ ~ tasks'[x].failed
  BY <1>2, <1>3, <1>5, <1>7 DEF TaskFields
<1>9. ASSUME e = taskExecutor PROVE Preserved
  <2>1. FirstTurn(x)'
    BY <1>5, <1>6, <1>8, <1>9, Threads DEF FirstTurn, Has
  <2> QED BY <1>2, <1>4, <1>8, <1>9, <2>1, TaskTurn
<1>10. ASSUME e = callbackExecutor PROVE Preserved
  <2>1. SecondTurn(x)'
    BY <1>5, <1>6, <1>8, <1>10, Threads DEF SecondTurn, Has, AfterCall, Starting
  <2>2. ExecutorChanges(q, x)
    BY <1>2 DEF ExecutorChanges
  <2>3. CallbackOK(q)'
    BY <1>5, <1>10 DEF CallbackOK, Starting
  <2>4. {"run", "lambda"} \cap Starting = {} /\ "run" \notin AfterCall
    BY DEF Starting, AfterCall
  <2> QED BY <1>4, <1>8, <1>10, <2>1, <2>2, <2>3, <2>4, CallbackTurn
<1> QED BY <1>1, <1>4, <1>8, <1>9, <1>10, Threads

(* The last task started is the one in the hands of the executor.          *)
LEMMA LambdaOK ==
  ASSUME IInv, NEW e \in Executor, Lambda(e)
  PROVE  /\ Preserved
         /\ \E to : /\ Turn(e, Of(e), task[e], "lambda", to)
                    /\ \/ e = taskExecutor /\ to = "inferring"
                       \/ e = callbackExecutor /\ to = "unbusy"
<1>1. PICK q, x : q = Of(e) /\ x = task[e]
  OBVIOUS
<1>2. PICK a : a = request[q].async
  OBVIOUS
<1>3. PICK to \in {"inferring", "unbusy", "done"} :
        /\ Go(e, "lambda", to)
        /\ to = CASE tasks[a].stage = 2 -> "inferring"
                  [] tasks[a].stage = 1 -> "unbusy"
                  [] OTHER -> "done"
        /\ copy' = [copy EXCEPT ![e] = a]
        /\ UNCHANGED <<request, tasks, taskQueue, syncQueue, task, client>>
  BY <1>1, <1>2 DEF Lambda
<1>4. pc[e] = "lambda" /\ copy \in [Executor -> Task \cup {NoTask}]
  BY <1>3 DEF Go, IInv, Types
<1>5. /\ q \in Request /\ x \in TasksOf(q) /\ x \in QueueOf(e)
  BY <1>1, <1>4, Hold DEF IInv
<1>6. TaskOK(x) /\ Queued(x)
  BY <1>5, Threads DEF IInv, RequestOK, Queued, In1, In2
<1>7. Live(x)
  <2>1. e = taskExecutor => ~ In2(x) /\ ~ Held2(x)
    BY <1>1, <1>4, <1>5, <1>6, HeldTwo DEF TaskOK, FirstTurn, Held1, IInv
  <2>2. e = callbackExecutor => ~ In1(x) /\ ~ Held1(x)
    BY <1>1, <1>4, <1>5, <1>6, HeldTwo DEF TaskOK, SecondTurn, Held2, IInv
  <2>3. ~ Past(x)
    BY <1>4, <2>1, <2>2, Threads DEF Past, AfterCall, Starting
  <2> QED BY <1>6, <2>3 DEF Live
<1>8. a = x
  BY <1>2, <1>5, <1>7, LiveHolds
<1>9. \/ e = taskExecutor /\ to = "inferring" /\ tasks[x].stage = 2
      \/ e = callbackExecutor /\ to = "unbusy" /\ tasks[x].stage = 1
  <2>1. CASE e = taskExecutor
    BY <1>1, <1>3, <1>4, <1>6, <1>8, <2>1 DEF TaskOK, FirstTurn, Held1, Has
  <2>2. CASE e = callbackExecutor
    BY <1>1, <1>3, <1>4, <1>6, <1>8, <2>2 DEF TaskOK, SecondTurn, Held2, Has
  <2> QED BY <2>1, <2>2, Threads
<1>10. copy'[e] = x /\ \A f \in Executor \ {e} : copy'[f] = copy[f]
  BY <1>3, <1>4, <1>8
<1>11. Turn(e, q, x, "lambda", to)
  BY <1>1, <1>3, <1>9, <1>10, Threads DEF Turn, TaskAt, CallbackAt
<1>12. /\ e = taskExecutor => Held1(x) /\ In1(x) /\ FirstTurn(x)
       /\ e = callbackExecutor => Held2(x) /\ In2(x) /\ SecondTurn(x)
       /\ pc'[e] = to
       /\ \A y : /\ In1(y)' <=> In1(y)
                 /\ In2(y)' <=> In2(y)
  BY <1>11, TurnMoves
<1>13. tasks'[x] = tasks[x] /\ tasks[x].status # "TS_INITIAL"
  <2>1. tasks[x].status \in {"TS_BUSY", "TS_POSTPONED"}
    BY <1>5, <1>6, QueuedStatus DEF IInv
  <2> QED BY <1>3, <2>1
<1>14. ASSUME e = taskExecutor PROVE Preserved
  <2>1. FirstTurn(x)'
    BY <1>4, <1>9, <1>10, <1>12, <1>13, <1>14, Threads DEF FirstTurn, Has
  <2> QED BY <1>3, <1>9, <1>11, <1>13, <1>14, <2>1, TaskTurn
<1>15. ASSUME e = callbackExecutor PROVE Preserved
  <2>1. to = "unbusy"
    BY <1>9, <1>15, Threads
  <2>2. SecondTurn(x)'
    BY <1>4, <1>10, <1>12, <1>13, <1>15, <2>1 DEF SecondTurn, Has, AfterCall, Starting
  <2>3. ExecutorChanges(q, x)
    BY <1>3 DEF ExecutorChanges
  <2>4. CallbackOK(q)'
    BY <1>12, <1>15, <2>1 DEF CallbackOK, Starting
  <2>5. {"lambda", "unbusy"} \cap Starting = {} /\ "lambda" \notin AfterCall
    BY DEF Starting, AfterCall
  <2> QED BY <1>11, <1>13, <1>15, <2>1, <2>2, <2>3, <2>4, <2>5, CallbackTurn
<1> QED BY <1>1, <1>9, <1>11, <1>14, <1>15, Threads

LEMMA EndInferOK ==
  ASSUME IInv, NEW e \in Executor, EndInfer(e)
  PROVE  /\ Preserved /\ e = taskExecutor
         /\ \E code \in {"OK", "GENERAL_ERROR"} :
              /\ Turn(e, Of(e), task[e], "inferring",
                      IF code = "OK" THEN "inferred" ELSE "failure")
              /\ client' = [client EXCEPT ![Of(e)].results = Append(@, code)]
<1>1. PICK q, x : q = Of(e) /\ x = task[e]
  OBVIOUS
<1>0. PICK code \in {"OK", "GENERAL_ERROR"}, to \in {"inferred", "failure"} :
        /\ to = IF code = "OK" THEN "inferred" ELSE "failure"
        /\ Go(e, "inferring", to)
        /\ client' = [client EXCEPT ![Of(e)].results = Append(@, code)]
        /\ UNCHANGED <<request, tasks, taskQueue, isStopped, syncQueue, task, copy>>
  BY DEF EndInfer
<1>2. /\ Go(e, "inferring", to) /\ pc[e] = "inferring"
      /\ client' = [client EXCEPT ![q].results = Append(@, code)]
      /\ UNCHANGED <<request, tasks, taskQueue, syncQueue, task, copy>>
  BY <1>0, <1>1 DEF Go
<1>3. e = taskExecutor
  BY <1>2, Threads DEF IInv, PlacesOK, CallbackAt, AfterCall, Starting
<1>4. client \in [Request -> ClientFields]
  BY DEF IInv, Types
<1>5. Turn(e, q, x, "inferring", to)
  BY <1>1, <1>2, <1>3, <1>4, Threads DEF Turn, TaskAt
<1>6. /\ q \in Request /\ x \in TasksOf(q) /\ FirstTurn(x) /\ pc'[e] = to
      /\ \A y : /\ In1(y)' <=> In1(y)
                /\ In2(y)' <=> In2(y)
  BY <1>3, <1>5, TurnMoves
<1>7. client'[q].started = client[q].started /\ client'[q].called = client[q].called
  BY <1>2, <1>4, <1>6 DEF ClientFields
<1>8. FirstTurn(x)' /\ tasks[x].status # "TS_INITIAL"
  BY <1>2, <1>3, <1>6 DEF FirstTurn, Has
<1>9. Preserved
  BY <1>2, <1>3, <1>5, <1>7, <1>8, TaskTurn
<1> QED BY <1>0, <1>1, <1>2, <1>3, <1>5, <1>9

LEMMA StagesOK ==
  ASSUME IInv, NEW e \in Executor, Inferred(e) \/ SkipCallback(e)
  PROVE  /\ Preserved /\ e = taskExecutor
         /\ \E from \in {"inferred", "skipCallback"},
               to \in {"startCallback", "skipCallback", "done"} :
              Turn(e, Of(e), task[e], from, to)
         /\ tasks'[task[e]].failed = tasks[task[e]].failed
<1>1. PICK q, x : q = Of(e) /\ x = task[e]
  OBVIOUS
<1>2. PICK from \in {"inferred", "skipCallback"} :
        /\ pc[e] = from
        /\ from = "inferred" =>
             StageDone(e, from, IF q \in Callback THEN "startCallback" ELSE "skipCallback")
        /\ from = "skipCallback" => StageDone(e, from, "done")
        /\ UNCHANGED <<request, taskQueue, syncQueue, task, copy, client>>
  <2>1. CASE Inferred(e)
    BY <1>1, <2>1 DEF Inferred, StageDone, Go
  <2>2. CASE SkipCallback(e)
    BY <1>1, <2>2 DEF SkipCallback, StageDone, Go
  <2> QED BY <2>1, <2>2
<1>3. e = taskExecutor
  BY <1>2, Threads DEF IInv, PlacesOK, CallbackAt, AfterCall, Starting
<1>4. /\ q \in Request /\ x \in TasksOf(q) /\ x \in Task /\ x[1] = q /\ FirstTurn(x)
  <2>1. q \in Request /\ x \in TasksOf(q)
    BY <1>1, <1>2, Hold DEF IInv
  <2> QED BY <1>1, <1>3, <2>1, TasksOfRequest DEF IInv, RequestOK, TaskOK, Held1
<1>5. /\ copy[e] = x /\ tasks[x].status = "TS_POSTPONED" /\ tasks[x].run = taskExecutor
      /\ from = "inferred" => tasks[x].stage = 2
      /\ from = "skipCallback" => tasks[x].stage = 1 /\ q \notin Callback
  BY <1>2, <1>3, <1>4 DEF FirstTurn, Has
<1>6. PICK to \in {"startCallback", "skipCallback", "done"} :
        /\ Go(e, from, to) /\ tasks' = [tasks EXCEPT ![x].stage = tasks[x].stage - 1]
        /\ from = "inferred" => to = IF q \in Callback THEN "startCallback" ELSE "skipCallback"
        /\ from = "skipCallback" => to = "done"
  BY <1>2, <1>5 DEF StageDone
<1>7. /\ tasks \in [Task -> TaskFields]
  BY DEF IInv, Types
<1>8. /\ tasks'[x].status = tasks[x].status /\ tasks'[x].run = tasks[x].run
      /\ tasks'[x].onWait = tasks[x].onWait /\ tasks'[x].failed = tasks[x].failed
      /\ from = "inferred" => tasks'[x].stage = 1
      /\ from = "skipCallback" => tasks'[x].stage = 0
      /\ \A y \in Task \ {x} : tasks'[y] = tasks[y]
  BY <1>4, <1>5, <1>6, <1>7 DEF TaskFields
<1>9. Turn(e, q, x, from, to)
  BY <1>1, <1>2, <1>3, <1>6, <1>8, Threads DEF Turn, TaskAt
<1>10. /\ pc'[e] = to
       /\ \A y : /\ In1(y)' <=> In1(y)
                 /\ In2(y)' <=> In2(y)
  BY <1>9, TurnMoves
<1>11. ~ In2(x)
  BY <1>2, <1>3, <1>4 DEF FirstTurn
<1>12. FirstTurn(x)'
  BY <1>2, <1>3, <1>4, <1>5, <1>6, <1>8, <1>10, <1>11 DEF FirstTurn, Has
<1>13. Preserved
  BY <1>2, <1>3, <1>5, <1>6, <1>8, <1>9, <1>12, TaskTurn
<1> QED BY <1>1, <1>3, <1>8, <1>9, <1>13

LEMMA FailureOK ==
  ASSUME IInv, NEW e \in Executor, Failure(e)
  PROVE  Preserved /\ Turn(e, Of(e), task[e], "failure", "failed")
<1>1. PICK q, x : q = Of(e) /\ x = task[e]
  OBVIOUS
<1>2. /\ Go(e, "failure", "failed") /\ pc[e] = "failure"
      /\ request' = [request EXCEPT ![q].busy = FALSE]
      /\ UNCHANGED <<tasks, taskQueue, syncQueue, task, copy, client>>
  BY <1>1 DEF Failure, Go
<1>3. request \in [Request -> RequestFields]
  BY DEF IInv, Types
<1>4. Turn(e, q, x, "failure", "failed")
  BY <1>1, <1>2, <1>3, Threads DEF Turn, TaskAt, CallbackAt, AfterCall
<1>5. /\ q \in Request /\ x \in TasksOf(q) /\ TaskOK(x) /\ Queued(x)
      /\ e = taskExecutor => Held1(x) /\ In1(x) /\ FirstTurn(x)
      /\ e = callbackExecutor => Held2(x) /\ In2(x) /\ SecondTurn(x) /\ q \in Callback
      /\ pc'[e] = "failed"
      /\ \A y : /\ In1(y)' <=> In1(y)
                /\ In2(y)' <=> In2(y)
      /\ OtherTasks(q, x)
  BY <1>4, TurnMoves
<1>6. /\ request'[q].async = request[q].async /\ request'[q].current = request[q].current
      /\ request'[q].created = request[q].created
      /\ request'[q].destroyed = request[q].destroyed
  BY <1>2, <1>3, <1>5 DEF RequestFields
<1>7. tasks[x].status # "TS_INITIAL"
  <2>1. tasks[x].status \in {"TS_BUSY", "TS_POSTPONED"}
    BY <1>5, QueuedStatus DEF IInv
  <2> QED BY <2>1
<1>8. ASSUME e = taskExecutor PROVE Preserved
  <2>1. FirstTurn(x)'
    BY <1>2, <1>5, <1>8 DEF FirstTurn, Has
  <2> QED BY <1>2, <1>4, <1>6, <1>7, <1>8, <2>1, TaskTurn
<1>9. ASSUME e = callbackExecutor PROVE Preserved
  <2>1. {"failure", "failed"} \subseteq AfterCall /\ {"failure", "failed"} \cap Starting = {}
    BY DEF AfterCall, Starting
  <2>2. SecondTurn(x)'
    BY <1>2, <1>5, <1>9, <2>1 DEF SecondTurn, Has
  <2>3. \A y \in TasksOf(q) : ~ Ahead(y)
    BY <1>1, <1>2, <1>5, <1>9 DEF IInv, RequestOK, CallbackOK
  <2>4. ~ Ahead(x)'
    BY <1>5, <1>9, <2>2 DEF Ahead, SecondTurn
  <2>5. \A y \in TasksOf(q) : ~ Ahead(y)'
    BY <2>3, <2>4, <1>5 DEF OtherTasks
  <2>6. \A t \in Starters(q) : pc[t] \notin Starting
    <3>1. pc[q] \notin Starting
      BY <1>1, <1>5, <1>9, WhileCalledBack
    <3> QED BY <1>2, <1>9, <2>1, <3>1 DEF Starters
  <2>7. ExecutorChanges(q, x)
    BY <1>2, <1>5, <1>6, <1>9, <2>5, <2>6 DEF ExecutorChanges
  <2>8. CallbackOK(q)'
    BY <1>5, <1>9 DEF CallbackOK, Starting
  <2> QED BY <1>2, <1>4, <1>7, <1>9, <2>1, <2>2, <2>7, <2>8, CallbackTurn
<1> QED BY <1>1, <1>4, <1>8, <1>9, Threads

LEMMA FailedOK ==
  ASSUME IInv, NEW e \in Executor, Failed(e)
  PROVE  /\ Preserved
         /\ Turn(e, Of(e), task[e], "failed",
                 IF e = taskExecutor /\ Of(e) \in Callback THEN "startCallback" ELSE "threw")
         /\ tasks'[task[e]].failed = tasks[task[e]].failed
         /\ ~ (e = taskExecutor /\ Of(e) \in Callback) => UNCHANGED request
         /\ e = taskExecutor /\ Of(e) \in Callback =>
              request' = [request EXCEPT ![Of(e)].code = FailureCode, ![Of(e)].exception = TRUE]
<1>1. PICK q, x : q = Of(e) /\ x = task[e]
  OBVIOUS
<1>2. pc[e] = "failed" /\ UNCHANGED <<taskQueue, syncQueue, task, copy, client>>
  BY DEF Failed, Go
<1>3. q \in Request /\ x \in TasksOf(q) /\ x \in Task /\ x[1] = q
  <2>1. q \in Request /\ x \in TasksOf(q)
    BY <1>1, <1>2, Hold DEF IInv
  <2> QED BY <2>1, TasksOfRequest
<1>4. request \in [Request -> RequestFields] /\ tasks \in [Task -> TaskFields]
  BY DEF IInv, Types
<1>5. /\ e = taskExecutor => Held1(x) /\ FirstTurn(x)
      /\ e = callbackExecutor => Held2(x) /\ SecondTurn(x)
  BY <1>1, <1>3 DEF IInv, RequestOK, TaskOK, Held1, Held2
<1>6. /\ copy[e] = x /\ tasks[x].status = "TS_POSTPONED"
      /\ e = taskExecutor => tasks[x].stage = 2 /\ ~ In2(x) /\ tasks[x].run = taskExecutor
      /\ e = callbackExecutor => tasks[x].stage = 0
  <2>1. "failed" \in AfterCall
    BY DEF AfterCall
  <2> QED BY <1>2, <1>5, <2>1, Threads DEF FirstTurn, SecondTurn, Has
<1>7. ASSUME e = taskExecutor /\ q \in Callback
      PROVE  /\ Preserved
             /\ Turn(e, q, x, "failed", "startCallback")
             /\ tasks'[x].failed = tasks[x].failed
             /\ request' = [request EXCEPT ![q].code = FailureCode, ![q].exception = TRUE]
  <2>1. /\ Go(e, "failed", "startCallback")
        /\ tasks' = [tasks EXCEPT ![x].stage = 1]
        /\ request' = [request EXCEPT ![q].code = FailureCode, ![q].exception = TRUE]
    BY <1>1, <1>6, <1>7 DEF Failed
  <2>2. /\ tasks'[x].status = tasks[x].status /\ tasks'[x].run = tasks[x].run
        /\ tasks'[x].onWait = tasks[x].onWait /\ tasks'[x].stage = 1
        /\ tasks'[x].failed = tasks[x].failed
        /\ \A y \in Task \ {x} : tasks'[y] = tasks[y]
    BY <1>3, <1>4, <2>1 DEF TaskFields
  <2>3. /\ request'[q].async = request[q].async /\ request'[q].current = request[q].current
        /\ request'[q].created = request[q].created
        /\ request'[q].destroyed = request[q].destroyed
        /\ \A u \in Request \ {q} : request'[u] = request[u]
    BY <1>3, <1>4, <2>1 DEF RequestFields
  <2>4. Turn(e, q, x, "failed", "startCallback")
    BY <1>1, <1>2, <1>7, <2>1, <2>2, <2>3, Threads DEF Turn, TaskAt
  <2>5. pc'[e] = "startCallback" /\ (In1(x)' <=> In1(x)) /\ (In2(x)' <=> In2(x))
    BY <2>4, TurnMoves
  <2>6. FirstTurn(x)'
    BY <1>2, <1>3, <1>5, <1>6, <1>7, <2>2, <2>5 DEF FirstTurn, Has
  <2>7. Preserved
    BY <1>2, <1>6, <1>7, <2>2, <2>3, <2>4, <2>6, TaskTurn
  <2> QED BY <2>1, <2>2, <2>4, <2>7
<1>8. ASSUME e = callbackExecutor \/ q \notin Callback
      PROVE  /\ Go(e, "failed", "threw") /\ UNCHANGED <<request, tasks>>
             /\ Turn(e, q, x, "failed", "threw")
             /\ pc'[e] = "threw" /\ (In1(x)' <=> In1(x)) /\ (In2(x)' <=> In2(x))
  <2>1. ~ (q \in Callback /\ tasks[copy[e]].stage >= 1)
    BY <1>6, <1>8
  <2>2. Go(e, "failed", "threw") /\ UNCHANGED <<request, tasks>>
    BY <1>1, <2>1 DEF Failed
  <2>3. Turn(e, q, x, "failed", "threw")
    BY <1>1, <1>2, <2>2 DEF Turn, TaskAt, CallbackAt, AfterCall
  <2> QED BY <2>2, <2>3, TurnMoves
<1>9. ASSUME e = taskExecutor /\ q \notin Callback PROVE Preserved
  <2>1. FirstTurn(x)'
    BY <1>2, <1>3, <1>5, <1>6, <1>8, <1>9 DEF FirstTurn, Has
  <2> QED BY <1>2, <1>6, <1>8, <1>9, <2>1, TaskTurn
<1>10. ASSUME e = callbackExecutor PROVE Preserved
  <2>1. {"failed", "threw"} \subseteq AfterCall /\ {"failed", "threw"} \cap Starting = {}
    BY DEF AfterCall, Starting
  <2>2. SecondTurn(x)'
    BY <1>2, <1>5, <1>6, <1>8, <1>10, <2>1 DEF SecondTurn, Has
  <2>3. ExecutorChanges(q, x)
    BY <1>2, <1>8, <1>10 DEF ExecutorChanges
  <2>4. CallbackOK(q)'
    BY <1>8, <1>10 DEF CallbackOK, Starting
  <2> QED BY <1>6, <1>8, <1>10, <2>1, <2>2, <2>3, <2>4, CallbackTurn
<1>11. CASE e = taskExecutor /\ q \in Callback
  BY <1>1, <1>7, <1>11
<1>12. CASE ~ (e = taskExecutor /\ q \in Callback)
  <2>1. e = callbackExecutor \/ q \notin Callback
    BY <1>12, Threads
  <2>2. Preserved
    BY <1>9, <1>10, <1>12, Threads
  <2> QED BY <1>1, <1>8, <1>12, <2>1, <2>2
<1> QED BY <1>11, <1>12

(* The executor of callbacks before the call: it has the one task of the   *)
(* request that is live.                                                   *)
LEMMA BeforeCall ==
  ASSUME IInv, NEW q, NEW x, q = Of(callbackExecutor), x = task[callbackExecutor],
         pc[callbackExecutor] \in {"unbusy", "runCallback"} \cup AfterCall
  PROVE  /\ q \in Request /\ q \in Callback /\ x \in TasksOf(q) /\ x \in Task
         /\ Held2(x) /\ In2(x) /\ SecondTurn(x) /\ ~ In1(x) /\ ~ Held1(x)
         /\ copy[callbackExecutor] = x /\ tasks[x].status = "TS_POSTPONED"
         /\ tasks[x].run = callbackExecutor
         /\ tasks[x].stage = IF pc[callbackExecutor] \in AfterCall THEN 0 ELSE 1
         /\ pc[callbackExecutor] \notin AfterCall => Live(x)
<1>1. pc[callbackExecutor] \notin {"fetch", "ended", "run", "lambda"}
      /\ {"unbusy", "runCallback"} \cap AfterCall = {}
  BY DEF AfterCall, Starting
<1>2. q \in Request /\ x \in TasksOf(q)
  BY <1>1, Hold, Threads DEF IInv
<1>3. x \in Task /\ x[1] = q
  BY <1>2, TasksOfRequest
<1>4. Held2(x) /\ In2(x) /\ SecondTurn(x) /\ q \in Callback
  BY <1>2, <1>3 DEF IInv, RequestOK, TaskOK, Held2, SecondTurn
<1>5. ~ In1(x) /\ ~ Held1(x)
  <2>1. ~ In1(x)
    BY <1>1, <1>4 DEF SecondTurn
  <2> QED BY <1>2, <2>1, HeldTwo DEF IInv
<1>6. /\ copy[callbackExecutor] = x /\ tasks[x].status = "TS_POSTPONED"
      /\ tasks[x].run = callbackExecutor
      /\ tasks[x].stage = IF pc[callbackExecutor] \in AfterCall THEN 0 ELSE 1
  BY <1>1, <1>4 DEF SecondTurn, Has
<1>7. pc[callbackExecutor] \notin AfterCall => Live(x)
  BY <1>4, <1>5 DEF Live, Past, Queued
<1> QED BY <1>2, <1>3, <1>4, <1>5, <1>6, <1>7

LEMMA UnbusyOK ==
  ASSUME IInv, NEW e \in Executor, Unbusy(e)
  PROVE  /\ Preserved /\ e = callbackExecutor
         /\ Turn(e, Of(e), task[e], "unbusy", "runCallback")
<1>1. PICK q, x : q = Of(e) /\ x = task[e]
  OBVIOUS
<1>2. /\ Go(e, "unbusy", "runCallback") /\ pc[e] = "unbusy"
      /\ request' = [request EXCEPT ![q].busy = FALSE]
      /\ UNCHANGED <<tasks, taskQueue, syncQueue, task, copy, client>>
  BY <1>1 DEF Unbusy, Go
<1>3. e = callbackExecutor
  BY <1>2, Threads DEF IInv, PlacesOK, TaskAt
<1>4. {"unbusy", "runCallback"} \cap (AfterCall \cup Starting) = {}
  BY DEF AfterCall, Starting
<1>5. /\ q \in Request /\ q \in Callback /\ x \in TasksOf(q) /\ SecondTurn(x)
      /\ ~ In1(x) /\ Live(x) /\ tasks[x].status = "TS_POSTPONED"
  BY <1>1, <1>2, <1>3, <1>4, BeforeCall
<1>6. request \in [Request -> RequestFields]
  BY DEF IInv, Types
<1>7. /\ request'[q].async = request[q].async /\ request'[q].current = request[q].current
      /\ request'[q].created = request[q].created
      /\ request'[q].destroyed = request[q].destroyed
      /\ \A u \in Request \ {q} : request'[u] = request[u]
  BY <1>2, <1>5, <1>6 DEF RequestFields
<1>8. Turn(e, q, x, "unbusy", "runCallback")
  BY <1>1, <1>2, <1>3, <1>7, Threads DEF Turn, CallbackAt
<1>9. /\ pc'[e] = "runCallback" /\ (In1(x)' <=> In1(x)) /\ (In2(x)' <=> In2(x))
      /\ OtherTasks(q, x)
  BY <1>8, TurnMoves
<1>10. SecondTurn(x)'
  BY <1>2, <1>3, <1>4, <1>5, <1>9 DEF SecondTurn, Has
<1>11. /\ \A t \in Starters(q) : pc[t] \notin Starting
       /\ \A y \in TasksOf(q) : y # x => ~ Ahead(y)
  BY <1>5, LiveHolds
<1>12. ExecutorChanges(q, x)
  <2>1. ~ Ahead(x)'
    BY <1>5, <1>9 DEF Ahead
  <2>2. \A y \in TasksOf(q) : ~ Ahead(y)'
    BY <1>9, <1>11, <2>1 DEF OtherTasks
  <2> QED BY <1>2, <1>5, <1>7, <1>11, <2>2 DEF ExecutorChanges
<1>13. CallbackOK(q)'
  BY <1>3, <1>4, <1>9 DEF CallbackOK
<1>14. Preserved
  BY <1>2, <1>3, <1>4, <1>5, <1>8, <1>10, <1>12, <1>13, CallbackTurn
<1> QED BY <1>1, <1>3, <1>8, <1>14

LEMMA RunCallbackOK ==
  ASSUME IInv, NEW e \in Executor, RunCallback(e)
  PROVE  /\ Preserved /\ e = callbackExecutor
         /\ \E to \in {"failure", "StartAsync", "called"} :
              /\ Turn(e, Of(e), task[e], "runCallback", to)
              /\ to = "failure" <=> ~ client[Of(e)].owned
              /\ to # "failure" =>
                   client' = [client EXCEPT ![Of(e)].called = Append(@, request[Of(e)].code)]
         /\ tasks'[task[e]].failed = tasks[task[e]].failed
<1>1. PICK q, x : q = Of(e) /\ x = task[e]
  OBVIOUS
<1>2. pc[e] = "runCallback" /\ UNCHANGED <<request, taskQueue, syncQueue, task, copy>>
  BY DEF RunCallback, StageDone, Go
<1>3. e = callbackExecutor
  BY <1>2, Threads DEF IInv, PlacesOK, TaskAt
<1>4. /\ "runCallback" \notin AfterCall \cup Starting
      /\ {"failure", "StartAsync", "called"} \subseteq AfterCall
      /\ {"failure", "StartAsync", "called"} \cap Starting = {}
  BY DEF AfterCall, Starting
<1>5. /\ q \in Request /\ q \in Callback /\ x \in TasksOf(q) /\ x \in Task
      /\ Held2(x) /\ SecondTurn(x) /\ ~ In1(x) /\ Live(x)
      /\ copy[e] = x /\ tasks[x].status = "TS_POSTPONED"
      /\ tasks[x].run = callbackExecutor /\ tasks[x].stage = 1
  BY <1>1, <1>2, <1>3, <1>4, BeforeCall
<1>6. tasks \in [Task -> TaskFields] /\ client \in [Request -> ClientFields]
  BY DEF IInv, Types
<1>7. PICK to \in {"failure", "StartAsync", "called"} :
        /\ Go(e, "runCallback", to)
        /\ tasks' = [tasks EXCEPT ![x].stage = 0]
        /\ to = "failure" => client' = client
        /\ to = "failure" <=> ~ client[q].owned
        /\ to # "failure" =>
             client' = [client EXCEPT ![q].called = Append(@, request[q].code)]
        /\ to = "StartAsync" => Len(client[q].called) + 1 < Repeats[q]
  <2>1. tasks' = [tasks EXCEPT ![x].stage = 0]
    BY <1>5 DEF RunCallback, StageDone
  <2>2. CASE ~ client[q].owned
    <3>1. Go(e, "runCallback", "failure")
      BY <1>1, <1>5, <2>2 DEF RunCallback, StageDone
    <3>2. client' = client
      BY <1>1, <2>2 DEF RunCallback
    <3> QED BY <2>1, <2>2, <3>1, <3>2
  <2>3. CASE client[q].owned /\ Len(client[q].called) + 1 < Repeats[q]
    <3>1. Go(e, "runCallback", "StartAsync")
      BY <1>1, <1>5, <2>3 DEF RunCallback, StageDone
    <3>2. client' = [client EXCEPT ![q].called = Append(@, request[q].code)]
      BY <1>1, <1>5, <2>3 DEF RunCallback
    <3> QED BY <2>1, <2>3, <3>1, <3>2
  <2>4. CASE client[q].owned /\ ~ (Len(client[q].called) + 1 < Repeats[q])
    <3>1. Go(e, "runCallback", "called")
      BY <1>1, <1>5, <2>4 DEF RunCallback, StageDone
    <3>2. client' = [client EXCEPT ![q].called = Append(@, request[q].code)]
      BY <1>1, <1>5, <2>4 DEF RunCallback
    <3> QED BY <2>1, <2>4, <3>1, <3>2
  <2> QED BY <2>2, <2>3, <2>4
<1>8. /\ tasks'[x].status = tasks[x].status /\ tasks'[x].run = tasks[x].run
      /\ tasks'[x].onWait = tasks[x].onWait /\ tasks'[x].stage = 0
      /\ tasks'[x].failed = tasks[x].failed
      /\ \A y \in Task \ {x} : tasks'[y] = tasks[y]
  BY <1>5, <1>6, <1>7 DEF TaskFields
<1>9. /\ client'[q].started = client[q].started
      /\ to = "failure" => client'[q].called = client[q].called
      /\ to # "failure" => Len(client'[q].called) = Len(client[q].called) + 1
      /\ \A u \in Request \ {q} : client'[u] = client[u]
  <2>1. CASE to = "failure"
    BY <1>7, <2>1
  <2>2. CASE to # "failure"
    <3>1. /\ client'[q].called = Append(client[q].called, request[q].code)
          /\ client'[q].started = client[q].started
          /\ \A u \in Request \ {q} : client'[u] = client[u]
      BY <1>5, <1>6, <1>7, <2>2 DEF ClientFields
    <3>2. client[q].called \in Seq({"OK", "GENERAL_ERROR"})
          /\ request[q].code \in {"OK", "GENERAL_ERROR"}
      BY <1>5, <1>6 DEF ClientFields, RequestFields, IInv, Types
    <3>3. Len(client'[q].called) = Len(client[q].called) + 1
      BY <3>1, <3>2, AppendProperties
    <3> QED BY <2>2, <3>1, <3>3
  <2> QED BY <2>1, <2>2
<1>10. Turn(e, q, x, "runCallback", to)
  BY <1>1, <1>2, <1>3, <1>7, <1>8, <1>9, Threads DEF Turn, CallbackAt, AfterCall
<1>11. /\ pc'[e] = to /\ OtherTasks(q, x)
       /\ In1(x)' <=> In1(x)
       /\ In2(x)' <=> In2(x)
       /\ Held2(x)' <=> Held2(x)
  BY <1>10, TurnMoves
<1>12. SecondTurn(x)'
  BY <1>2, <1>3, <1>4, <1>5, <1>8, <1>11 DEF SecondTurn, Has
<1>13. ~ Live(x)' /\ ~ Ahead(x)'
  BY <1>3, <1>4, <1>5, <1>11 DEF Live, Past, Ahead
<1>14. \A y \in TasksOf(q) : ~ Live(y)' /\ ~ Ahead(y)'
  <2>1. \A y \in TasksOf(q) : y # x => ~ Live(y) /\ ~ Ahead(y)
    BY <1>5, LiveHolds
  <2> QED BY <1>11, <1>13, <2>1 DEF OtherTasks
<1>15. ExecutorChanges(q, x)
  BY <1>2, <1>5, <1>9, <1>13 DEF ExecutorChanges
<1>16. CallbackOK(q)'
  <2>1. TasksOf(q)' = TasksOf(q)
    BY DEF TasksOf
  <2>2. NoneLive(q)'
    BY <1>14, <2>1 DEF NoneLive
  <2>3. to = "StartAsync" => Len(client'[q].called) < Repeats[q]
    BY <1>7, <1>9
  <2>4. to \in Starting \cup {"StartAsync"} => to = "StartAsync"
    BY <1>4
  <2> QED BY <1>3, <1>11, <1>14, <2>1, <2>2, <2>3, <2>4 DEF CallbackOK
<1>17. Preserved
  BY <1>3, <1>4, <1>5, <1>8, <1>10, <1>12, <1>15, <1>16, CallbackTurn
<1> QED BY <1>1, <1>3, <1>7, <1>8, <1>10, <1>17

LEMMA CalledOK ==
  ASSUME IInv, NEW e \in Executor, Called(e)
  PROVE  /\ Preserved /\ e = callbackExecutor
         /\ \E to \in {"destroy", "failure", "done"} :
              /\ Turn(e, Of(e), task[e], "called", to)
              /\ to = "failure" => request[Of(e)].exception
              /\ to = "done" => ~ request[Of(e)].exception
<1>1. PICK q, x : q = Of(e) /\ x = task[e]
  OBVIOUS
<1>2. PICK to \in {"destroy", "failure", "done"} :
        /\ Go(e, "called", to) /\ pc[e] = "called"
        /\ to = "failure" => request[q].exception
        /\ to = "done" => ~ request[q].exception
        /\ UNCHANGED <<request, tasks, taskQueue, syncQueue, task, copy, client>>
  <2>1. UNCHANGED <<request, tasks, taskQueue, syncQueue, task, copy, client>> /\ pc[e] = "called"
    BY DEF Called, Go
  <2>2. CASE ~ client[q].owned
    BY <1>1, <2>1, <2>2 DEF Called
  <2>3. CASE client[q].owned /\ request[q].exception
    BY <1>1, <2>1, <2>3 DEF Called
  <2>4. CASE client[q].owned /\ ~ request[q].exception
    BY <1>1, <2>1, <2>4 DEF Called
  <2> QED BY <2>2, <2>3, <2>4
<1>3. e = callbackExecutor
  BY <1>2, Threads DEF IInv, PlacesOK, TaskAt
<1>4. /\ {"called", "destroy", "failure", "done"} \subseteq AfterCall
      /\ {"called", "destroy", "failure", "done"} \cap (Starting \cup {"StartAsync", "run"}) = {}
  BY DEF AfterCall, Starting
<1>5. /\ q \in Request /\ q \in Callback /\ x \in TasksOf(q) /\ SecondTurn(x)
      /\ ~ In1(x) /\ tasks[x].status = "TS_POSTPONED"
  BY <1>1, <1>2, <1>3, <1>4, BeforeCall
<1>6. Turn(e, q, x, "called", to)
  BY <1>1, <1>2, <1>3, Threads DEF Turn, CallbackAt, AfterCall
<1>7. /\ pc'[e] = to /\ OtherTasks(q, x) /\ (In1(x)' <=> In1(x)) /\ (In2(x)' <=> In2(x))
  BY <1>6, TurnMoves
<1>8. SecondTurn(x)'
  BY <1>2, <1>3, <1>4, <1>5, <1>7 DEF SecondTurn, Has
<1>9. ExecutorChanges(q, x)
  BY <1>2 DEF ExecutorChanges
<1>10. CallbackOK(q)'
  <2>1. ~ Ahead(x)'
    BY <1>5, <1>7 DEF Ahead
  <2>2. to = "failure" => \A y \in TasksOf(q) : ~ Ahead(y)
    BY <1>2, <1>5 DEF IInv, RequestOK, TasksOK, InferenceOK
  <2>3. to = "failure" => \A y \in TasksOf(q) : ~ Ahead(y)'
    BY <1>7, <2>1, <2>2 DEF OtherTasks
  <2>4. TasksOf(q)' = TasksOf(q)
    BY DEF TasksOf
  <2> QED BY <1>3, <1>4, <1>7, <2>3, <2>4 DEF CallbackOK
<1>11. Preserved
  BY <1>2, <1>3, <1>4, <1>5, <1>6, <1>8, <1>9, <1>10, CallbackTurn
<1> QED BY <1>1, <1>2, <1>3, <1>6, <1>11

-----------------------------------------------------------------------------
(* The steps with which a turn of an executor begins and ends, and that    *)
(* with which a task passes from one executor to the other.                *)

LEMMA Dequeue ==
  ASSUME Types, QueuesOK, NEW e \in Executor, task[e] # NoTask,
         taskQueue' = [taskQueue EXCEPT ![e] = Tail(@)],
         task' = [task EXCEPT ![e] = NoTask], pc' = [pc EXCEPT ![e] = "fetch"]
  PROVE  /\ QueuesOK'
         /\ \A y : y \in QueueOf(e)' <=> y \in QueueOf(e) /\ y # task[e]
         /\ \A f \in Executor \ {e} : QueueOf(f)' = QueueOf(f)
<1>0. PICK x : x = task[e]
  OBVIOUS
<1>1. /\ taskQueue[e] \in Seq(Task) /\ taskQueue'[e] = Tail(taskQueue[e])
      /\ \A f \in Executor \ {e} : taskQueue'[f] = taskQueue[f]
      /\ task'[e] = NoTask /\ pc'[e] = "fetch"
      /\ \A f \in Executor \ {e} : task'[f] = task[f] /\ pc'[f] = pc[f]
  BY Threads DEF Types
<1>2. TurnOK(e)
  BY Threads DEF QueuesOK
<1>3. taskQueue[e] # <<>> /\ x = Head(taskQueue[e])
  BY <1>0, <1>2 DEF TurnOK
<1>a. PICK n \in Nat : /\ n = Len(taskQueue[e]) /\ n >= 1 /\ DOMAIN taskQueue[e] = 1 .. n
  <2>1. Len(taskQueue[e]) \in Nat /\ Len(taskQueue[e]) >= 1
        /\ DOMAIN taskQueue[e] = 1 .. Len(taskQueue[e])
    BY <1>1, <1>3, LenProperties, EmptySeq
  <2> QED BY <2>1
<1>4. /\ n >= 1 /\ DOMAIN taskQueue[e] = 1 .. n /\ x = taskQueue[e][1]
      /\ Len(taskQueue'[e]) = n - 1 /\ taskQueue'[e] \in Seq(Task)
      /\ \A i \in 1 .. n - 1 : taskQueue'[e][i] = taskQueue[e][i + 1]
  <2>1. /\ Tail(taskQueue[e]) \in Seq(Task)
        /\ Len(Tail(taskQueue[e])) = Len(taskQueue[e]) - 1
        /\ \A i \in 1 .. Len(Tail(taskQueue[e])) : Tail(taskQueue[e])[i] = taskQueue[e][i + 1]
    BY <1>1, <1>3, HeadTailProperties
  <2>2. x = taskQueue[e][1]
    BY <1>3
  <2> QED BY <1>1, <1>a, <2>1, <2>2
<1>5. DOMAIN taskQueue'[e] = 1 .. n - 1
  BY <1>4, LenProperties
<1>6. \A i, j \in 1 .. n : taskQueue[e][i] = taskQueue[e][j] => i = j
  BY <1>2, <1>4 DEF TurnOK
<1>7. \A y : y \in QueueOf(e)' <=> y \in QueueOf(e) /\ y # x
  <2>1. ASSUME NEW y, y \in QueueOf(e)' PROVE y \in QueueOf(e) /\ y # x
    <3>1. PICK i \in 1 .. n - 1 : y = taskQueue'[e][i]
      BY <1>5, <2>1 DEF QueueOf
    <3>2. y = taskQueue[e][i + 1] /\ i + 1 \in 1 .. n /\ i + 1 # 1 /\ 1 \in 1 .. n
      BY <1>4, <3>1
    <3> QED BY <1>4, <1>6, <3>2 DEF QueueOf
  <2>2. ASSUME NEW y, y \in QueueOf(e), y # x PROVE y \in QueueOf(e)'
    <3>1. PICK j \in 1 .. n : y = taskQueue[e][j]
      BY <1>4, <2>2 DEF QueueOf
    <3>2. j # 1
      BY <1>4, <2>2, <3>1
    <3>3. j - 1 \in 1 .. n - 1 /\ (j - 1) + 1 = j
      BY <3>1, <3>2
    <3>4. y = taskQueue'[e][j - 1]
      BY <1>4, <3>1, <3>3
    <3> QED BY <1>5, <3>3, <3>4 DEF QueueOf
  <2> QED BY <2>1, <2>2
<1>8. \A f \in Executor \ {e} : QueueOf(f)' = QueueOf(f)
  BY <1>1 DEF QueueOf
<1>9. TurnOK(e)'
  <2>1. ASSUME NEW i \in 1 .. n - 1, NEW j \in 1 .. n - 1, taskQueue'[e][i] = taskQueue'[e][j]
        PROVE  i = j
    <3>1. /\ taskQueue[e][i + 1] = taskQueue[e][j + 1] /\ i + 1 \in 1 .. n /\ j + 1 \in 1 .. n
      BY <1>4, <2>1
    <3>2. i + 1 = j + 1
      BY <1>6, <3>1
    <3> QED BY <3>2
  <2> QED BY <1>1, <1>5, <2>1 DEF TurnOK
<1>10. \A f \in Executor \ {e} : TurnOK(f) => TurnOK(f)'
  BY <1>1 DEF TurnOK
<1>11. TurnOK(taskExecutor)' /\ TurnOK(callbackExecutor)'
  BY <1>9, <1>10, Threads DEF QueuesOK
<1>12. ASSUME NEW f \in Executor, NEW y \in QueueOf(f)'
       PROVE  y[2] # 0
  BY <1>7, <1>8, <1>12 DEF QueuesOK
<1> QED BY <1>0, <1>7, <1>8, <1>11, <1>12 DEF QueuesOK

(* An executor takes, passes on or drops task x of request q.              *)
Passes(e, q, x, from, to) ==
  /\ Go(e, from, to) /\ {pc[e], to} \cap Starting = {}
  /\ e = taskExecutor => to \in TaskAt
  /\ e = callbackExecutor => to \in CallbackAt
  /\ task[e] \in {NoTask, x}
  /\ \A t \in Thread : t # e => task'[t] = task[t]
  /\ \A f \in Executor : f # e => copy'[f] = copy[f]
  /\ UNCHANGED <<request, client, syncQueue>>
  /\ \A y \in Task : y # x => /\ tasks'[y] = tasks[y]
                              /\ In1(y)' <=> In1(y)
                              /\ In2(y)' <=> In2(y)
                              /\ Held1(y)' <=> Held1(y)
                              /\ Held2(y)' <=> Held2(y)

Handed(e, q, x, from, to) ==
  /\ q \in Request /\ x \in TasksOf(q) /\ Queued(x)
  /\ Passes(e, q, x, from, to) /\ OtherTasks(q, x)
  /\ \A u \in Request \ {q} : Elsewhere(u)

LEMMA PassesOK ==
  ASSUME IInv, NEW e \in Executor, NEW q \in Request, NEW x \in TasksOf(q), NEW from, NEW to,
         Passes(e, q, x, from, to), QueuesOK', Queued(x), GoesOn(x),
         e = callbackExecutor => CallbackOK(q)'
  PROVE  Preserved /\ Handed(e, q, x, from, to)
<1>1. pc[e] = from /\ \A t \in Thread : pc'[t] = IF t = e THEN to ELSE pc[t]
  BY DEF Passes, Go, IInv, Types
<1>2. x \in Task /\ x # NoTask /\ e \in Thread /\ \A u \in Request : u # e /\ u \in Thread
  BY TasksOfRequest, Threads
<1>3. PlacesOK'
  BY <1>1, Threads DEF IInv, PlacesOK, Passes
<1>4. SyncOK'
  <2>1. \A u \in Request : pc'[u] = pc[u]
    BY <1>1, <1>2
  <2> QED BY <2>1, SyncStays DEF Passes
<1>5. ASSUME NEW u \in Request \ {q}
      PROVE  RequestOK(u)' /\ Elsewhere(u)
  <2>1. \A y \in TasksOf(u) : y \in Task /\ y # x /\ y # NoTask
    BY <1>5, TasksApart, TasksOfRequest, ZenonT(60)
  <2>2. task[e] \notin TasksOf(u)
    BY <2>1 DEF Passes
  <2>3. u # e /\ \A t \in Thread : t # e => pc'[t] = pc[t]
    BY <1>1, <1>2
  <2>4. \A f \in Executor : f # e => copy'[f] = copy[f]
    BY DEF Passes
  <2>5. request'[u] = request[u] /\ client'[u] = client[u] /\ task'[u] = task[u]
    BY <1>2 DEF Passes
  <2>6. \A y \in TasksOf(u) : /\ tasks'[y] = tasks[y]
                              /\ In1(y)' <=> In1(y)
                              /\ In2(y)' <=> In2(y)
                              /\ Held1(y)' <=> Held1(y)
                              /\ Held2(y)' <=> Held2(y)
    BY <2>1 DEF Passes
  <2> QED BY <1>2, <2>2, <2>3, <2>4, <2>5, <2>6, OtherOK
<1>6. OtherTasks(q, x)
  <2>1. ASSUME NEW y \in TasksOf(q), y # x
        PROVE  Still(y) /\ tasks'[y] = tasks[y] /\ TaskOK(y)
    <3>1. y \in Task /\ y # NoTask /\ TaskOK(y)
      BY TasksOfRequest DEF IInv, RequestOK
    <3>2. /\ Held1(y) => e # taskExecutor
          /\ Held2(y) => e # callbackExecutor
      BY <2>1, <3>1 DEF Held1, Held2, Passes
    <3> QED BY <1>1, <2>1, <3>1, <3>2, Threads DEF Still, Passes
  <2> QED BY <2>1, StillOK, StillLive DEF OtherTasks, SameStatus
<1>7. CallbackOK(q)'
  <2>1. CASE e # callbackExecutor
    <3>1. pc'[callbackExecutor] = pc[callbackExecutor]
          /\ task'[callbackExecutor] = task[callbackExecutor]
      BY <1>1, <2>1, Threads DEF Passes
    <3> QED BY <1>6, <3>1, CallbackStays DEF Passes
  <2> QED BY <2>1
<1>8. ExecutorChanges(q, x)
  BY DEF ExecutorChanges, Passes
<1>9. RequestOK(q)'
  <2>1. pc'[q] = pc[q] /\ task'[q] = task[q]
    BY <1>1, <1>2 DEF Passes
  <2>2. \/ pc'[callbackExecutor] = pc[callbackExecutor]
           /\ task'[callbackExecutor] = task[callbackExecutor]
        \/ {pc[callbackExecutor], pc'[callbackExecutor]} \cap Starting = {}
    BY <1>1, Threads DEF Passes
  <2> QED BY <1>6, <1>7, <1>8, <2>1, <2>2, ExecutorOnly
<1> QED BY <1>3, <1>4, <1>5, <1>6, <1>9 DEF Preserved, Handed

LEMMA FetchOK ==
  ASSUME IInv, NEW e \in Executor, Fetch(e)
  PROVE  /\ Preserved
         /\ \E q, x : /\ Handed(e, q, x, "fetch", "run") /\ tasks' = tasks
                      /\ Live(x) /\ Live(x)' /\ (Ahead(x)' <=> Ahead(x))
<1>1. PICK x, q : x = Head(taskQueue[e]) /\ q = x[1]
  OBVIOUS
<1>2. /\ Go(e, "fetch", "run") /\ pc[e] = "fetch" /\ taskQueue[e] # <<>>
      /\ task' = [task EXCEPT ![e] = x]
      /\ UNCHANGED <<request, tasks, taskQueue, syncQueue, copy, client>>
  BY <1>1 DEF Fetch, Go
<1>3. /\ taskQueue[e] \in Seq(Task) /\ task \in [Thread -> Task \cup {NoTask}]
      /\ pc \in [Thread -> OwnerAt \cup TaskAt \cup CallbackAt]
      /\ e \in Thread /\ TurnOK(e)
  BY Threads DEF IInv, Types, QueuesOK
<1>4. x \in QueueOf(e)
  <2>1. 1 \in DOMAIN taskQueue[e] /\ x = taskQueue[e][1]
    BY <1>1, <1>2, <1>3, LenProperties, EmptySeq, HeadTailProperties
  <2> QED BY <2>1 DEF QueueOf
<1>5. x \in Task /\ x[2] # 0
  <2>1. \A i \in DOMAIN taskQueue[e] : taskQueue[e][i] \in Task
    BY <1>3, LenProperties, ElementOfSeq
  <2> QED BY <1>4, <2>1 DEF IInv, QueuesOK, QueueOf
<1>6. q \in Request /\ x \in TasksOf(q) /\ x # NoTask
  BY <1>1, <1>5, TaskPair DEF TasksOf
<1>7. task[e] = NoTask /\ pc'[e] = "run" /\ task'[e] = x
      /\ \A f \in Executor : f # e => task'[f] = task[f] /\ pc'[f] = pc[f]
      /\ \A t \in Thread : t # e => task'[t] = task[t]
  BY <1>2, <1>3, Threads DEF TurnOK, Go
<1>8. TaskOK(x) /\ (e = taskExecutor => In1(x)) /\ (e = callbackExecutor => In2(x))
      /\ (e = taskExecutor => ~ Held1(x)) /\ (e = callbackExecutor => ~ Held2(x))
      /\ x[1] = q /\ Queued(x)
  BY <1>1, <1>4, <1>6, <1>7, Threads DEF IInv, RequestOK, In1, In2, Held1, Held2, Queued
<1>9. /\ \A f \in Executor : QueueOf(f)' = QueueOf(f)
      /\ \A y : /\ In1(y)' <=> In1(y)
                /\ In2(y)' <=> In2(y)
  BY <1>2 DEF In1, In2, QueueOf
<1>10. QueuesOK'
  <2>1. TurnOK(e)'
    BY <1>1, <1>2, <1>3, <1>6, <1>7 DEF TurnOK
  <2>2. \A f \in Executor : f # e /\ TurnOK(f) => TurnOK(f)'
    BY <1>2, <1>7 DEF TurnOK
  <2> QED BY <1>9, <2>1, <2>2, Threads DEF QueuesOK, IInv
<1>11. tasks'[x] = tasks[x] /\ tasks[x].status # "TS_INITIAL"
  <2>1. tasks[x].status \in {"TS_BUSY", "TS_POSTPONED"}
    BY <1>6, <1>8, QueuedStatus DEF IInv
  <2> QED BY <1>2, <2>1
<1>12. Passes(e, q, x, "fetch", "run")
  <2>1. \A y \in Task : y # x => /\ Held1(y)' <=> Held1(y)
                                 /\ Held2(y)' <=> Held2(y)
    <3>1. \A y \in Task : y # NoTask
      BY TaskPair
    <3> QED BY <1>7, <3>1, Threads DEF Held1, Held2
  <2>2. {"fetch", "run"} \cap Starting = {}
    BY DEF Starting
  <2> QED BY <1>2, <1>7, <1>9, <2>1, <2>2 DEF Passes, TaskAt, CallbackAt
<1>13. GoesOn(x) /\ Live(x) /\ Live(x)' /\ (Ahead(x)' <=> Ahead(x))
  <2>1. CASE e = taskExecutor
    <3>1. Has(x, "TS_BUSY", 2, Nobody) /\ ~ In2(x)
      BY <1>8, <2>1 DEF TaskOK
    <3>2. ~ Held2(x) /\ ~ Held2(x)'
      BY <1>6, <1>7, <2>1, <3>1, HeldTwo, Threads DEF Held2, IInv
    <3>3. pc'[taskExecutor] = "run"
      BY <1>7, <2>1
    <3>4. FirstTurn(x)'
      BY <1>8, <1>9, <1>11, <2>1, <3>1, <3>3 DEF FirstTurn, Has
    <3>a. Held1(x)' /\ In1(x)' /\ ~ In2(x)'
      BY <1>7, <1>8, <1>9, <2>1, <3>1 DEF Held1
    <3>5. TaskOK(x)'
      BY <3>2, <3>4, <3>a DEF TaskOK, Queued
    <3>6. Live(x) /\ Ahead(x)
      BY <1>8, <2>1, <3>2 DEF Live, Past, Ahead
    <3>7. Live(x)' /\ Ahead(x)'
      BY <3>2, <3>3, <3>a DEF Live, Past, Ahead, Queued
    <3> QED BY <1>11, <3>5, <3>6, <3>7 DEF GoesOn
  <2>2. CASE e = callbackExecutor
    <3>1. q \in Callback /\ Has(x, "TS_BUSY", 1, IF In1(x) THEN taskExecutor ELSE Nobody)
      BY <1>8, <2>2 DEF TaskOK
    <3>2. /\ Held1(x)' <=> Held1(x)
          /\ pc'[taskExecutor] = pc[taskExecutor] /\ copy'[taskExecutor] = copy[taskExecutor]
          /\ pc'[callbackExecutor] = "run"
      BY <1>2, <1>7, <2>2, Threads DEF Held1
    <3>3. FirstTurn(x) /\ Held1(x) => FirstTurn(x)'
      BY <1>9, <1>11, <3>2 DEF FirstTurn, Has
    <3>4. SecondTurn(x)'
      BY <1>8, <1>9, <2>2, <3>2 DEF SecondTurn, AfterCall, Starting
    <3>5. TaskOK(x)'
      BY <1>8, <1>9, <1>11, <2>2, <3>1, <3>2, <3>3, <3>4 DEF TaskOK, Queued, Has
    <3>6. Live(x) /\ Live(x)' /\ (Ahead(x)' <=> Ahead(x))
      BY <1>8, <1>9, <2>2, <3>1, <3>2 DEF Live, Past, Ahead, Queued, AfterCall, Starting
    <3> QED BY <1>11, <3>5, <3>6 DEF GoesOn
  <2> QED BY <2>1, <2>2, Threads
<1>14. e = callbackExecutor => CallbackOK(q)'
  BY <1>7 DEF CallbackOK, Starting
<1>15. Preserved /\ Handed(e, q, x, "fetch", "run")
  BY <1>6, <1>8, <1>10, <1>12, <1>13, <1>14, PassesOK
<1> QED BY <1>2, <1>13, <1>15

LEMMA StartCallbackOK ==
  ASSUME IInv, NEW e \in Executor, StartCallback(e)
  PROVE  /\ Preserved /\ e = taskExecutor
         /\ \E q, x : /\ Handed(e, q, x, "startCallback", "done") /\ x = task[e]
                      /\ Live(x) /\ Live(x)' /\ ~ Ahead(x) /\ ~ Ahead(x)'
                      /\ tasks'[x].failed = tasks[x].failed
<1>1. PICK q, x : q = Of(e) /\ x = task[e]
  OBVIOUS
<1>2. /\ Go(e, "startCallback", "done") /\ pc[e] = "startCallback"
      /\ UNCHANGED <<request, syncQueue, task, copy, client>>
  BY DEF StartCallback, Go
<1>3. e = taskExecutor
  BY <1>2, Threads DEF IInv, PlacesOK, CallbackAt, AfterCall, Starting
<1>4. q \in Request /\ x \in TasksOf(q)
  BY <1>1, <1>2, Hold DEF IInv
<1>5. x \in Task /\ x[1] = q /\ x[2] # 0
  BY <1>4, TasksOfRequest DEF TasksOf
<1>6. TaskOK(x) /\ Held1(x) /\ FirstTurn(x)
  BY <1>1, <1>3, <1>4 DEF IInv, RequestOK, TaskOK, Held1
<1>7. /\ In1(x) /\ ~ In2(x) /\ q \in Callback /\ copy[e] = x
      /\ tasks[x].status = "TS_POSTPONED" /\ tasks[x].stage = 1 /\ tasks[x].run = taskExecutor
  BY <1>2, <1>3, <1>5, <1>6 DEF FirstTurn, Has
<1>8. /\ tasks' = [tasks EXCEPT ![x].status = "TS_BUSY"]
      /\ taskQueue' = [taskQueue EXCEPT ![callbackExecutor] = Append(@, x)]
  BY <1>7 DEF StartCallback, StartTask
<1>9. /\ tasks \in [Task -> TaskFields] /\ pc \in [Thread -> OwnerAt \cup TaskAt \cup CallbackAt]
  BY DEF IInv, Types
<1>10. /\ tasks'[x].status = "TS_BUSY" /\ tasks'[x].stage = 1 /\ tasks'[x].run = taskExecutor
       /\ tasks'[x].onWait = tasks[x].onWait /\ tasks'[x].failed = tasks[x].failed
       /\ \A y \in Task : y # x => tasks'[y] = tasks[y]
  BY <1>5, <1>7, <1>8, <1>9 DEF TaskFields
<1>11. pc'[taskExecutor] = "done" /\ \A t \in Thread : t # taskExecutor => pc'[t] = pc[t]
  BY <1>2, <1>3, <1>9, Threads DEF Go
<1>12. /\ QueuesOK'
       /\ \A y : y \in QueueOf(callbackExecutor)' <=> y \in QueueOf(callbackExecutor) \/ y = x
       /\ \A f \in Executor \ {callbackExecutor} : QueueOf(f)' = QueueOf(f)
  <2>1. \A f \in Executor : /\ task'[f] = task[f]
                            /\ pc'[f] \in {"fetch", "ended"} <=> pc[f] \in {"fetch", "ended"}
    BY <1>2, <1>3, <1>11, Threads
  <2>2. x \notin QueueOf(callbackExecutor)
    BY <1>7 DEF In2
  <2> QED BY <1>5, <1>8, <2>1, <2>2, Enqueue, Threads DEF IInv
<1>13. \A y : /\ In1(y)' <=> In1(y)
              /\ In2(y)' <=> In2(y) \/ y = x
              /\ Held1(y)' <=> Held1(y)
              /\ Held2(y)' <=> Held2(y)
  BY <1>2, <1>12, Threads DEF In1, In2, Held1, Held2
<1>14. ~ Held2(x)
  BY <1>4, <1>7, HeldTwo DEF IInv
<1>15. Passes(e, q, x, "startCallback", "done")
  <2>1. {"startCallback", "done"} \cap Starting = {}
    BY DEF Starting
  <2> QED BY <1>1, <1>2, <1>3, <1>10, <1>13, <2>1, Threads DEF Passes, TaskAt
<1>16. GoesOn(x) /\ Live(x) /\ Live(x)' /\ ~ Ahead(x) /\ ~ Ahead(x)'
  <2>1. FirstTurn(x)'
    BY <1>2, <1>3, <1>5, <1>7, <1>10, <1>11, <1>13 DEF FirstTurn, Has
  <2>2. TaskOK(x)'
    BY <1>5, <1>6, <1>7, <1>10, <1>13, <1>14, <2>1 DEF TaskOK, Has, Queued
  <2>3. Live(x) /\ ~ Ahead(x) /\ ~ Ahead(x)'
    BY <1>2, <1>3, <1>6, <1>7, <1>11, <1>13, <1>14 DEF Live, Past, Queued, Ahead
  <2>4. Live(x)'
    BY <1>5, <1>7, <1>13, <1>14 DEF Live, Past, Queued
  <2> QED BY <1>10, <2>2, <2>3, <2>4 DEF GoesOn
<1>17. Queued(x)
  BY <1>7 DEF Queued
<1>18. Preserved /\ Handed(e, q, x, "startCallback", "done")
  BY <1>3, <1>4, <1>12, <1>15, <1>16, <1>17, PassesOK, Threads
<1> QED BY <1>1, <1>3, <1>10, <1>16, <1>18

LEMMA TurnEnds ==
  ASSUME IInv, NEW e \in Executor, Done(e) \/ Threw(e)
  PROVE  /\ Preserved
         /\ \E q, x, from :
              /\ Handed(e, q, x, from, "fetch") /\ x = task[e] /\ from \in {"done", "threw"}
              /\ ~ Ahead(x) /\ ~ Ahead(x)' /\ (Live(x) => from = "done" /\ e = taskExecutor)
              /\ IF e = taskExecutor /\ q \in Callback
                 THEN /\ Live(x) /\ Live(x)' /\ tasks'[x].failed = tasks[x].failed
                 ELSE /\ ~ Queued(x)' /\ ~ Held1(x)' /\ ~ Held2(x)'
                      /\ from = "done" /\ ~ tasks[x].failed => Answer(x)' = "OK"
                      /\ from = "threw" => Answer(x)' = "GENERAL_ERROR"
<1>1. PICK q, x : q = Of(e) /\ x = task[e]
  OBVIOUS
<1>2. PICK from \in {"done", "threw"}, failed \in BOOLEAN,
           status \in Final \cup {"TS_INITIAL", "TS_BUSY", "TS_POSTPONED"} :
        /\ Go(e, from, "fetch") /\ pc[e] = from
        /\ from = "done" => failed = tasks[x].failed
        /\ from = "done" => status = IF tasks[x].stage = 0 THEN "TS_DONE" ELSE tasks[x].status
        /\ from = "threw" => status = "TS_ERROR" /\ failed
        /\ tasks' = [tasks EXCEPT ![x].run = Nobody, ![x].status = status, ![x].failed = failed]
        /\ taskQueue' = [taskQueue EXCEPT ![e] = Tail(@)]
        /\ task' = [task EXCEPT ![e] = NoTask]
        /\ copy' = [copy EXCEPT ![e] = NoTask]
        /\ UNCHANGED <<request, syncQueue, client>>
  <2>0. pc[e] \in {"done", "threw"}
    BY DEF Done, Threw, EndTurn, Go
  <2>1. x \in Task
    BY <1>1, <2>0, Hold DEF IInv
  <2>2. tasks[x].failed \in BOOLEAN
        /\ tasks[x].status \in Final \cup {"TS_INITIAL", "TS_BUSY", "TS_POSTPONED"}
    BY <2>1, SMTT(30) DEF IInv, Types, TaskFields
  <2>3. CASE Done(e)
    BY <1>1, <2>2, <2>3 DEF Done, EndTurn, Go, Final
  <2>4. CASE Threw(e)
    BY <1>1, <2>4 DEF Threw, EndTurn, Go, Final
  <2> QED BY <2>3, <2>4
<1>3. q \in Request /\ x \in TasksOf(q) /\ x \in Task /\ x # NoTask /\ x \in QueueOf(e)
      /\ x[1] = q
  <2>1. q \in Request /\ x \in TasksOf(q) /\ x \in QueueOf(e)
    BY <1>1, <1>2, Hold DEF IInv
  <2> QED BY <2>1, TasksOfRequest
<1>4. /\ tasks \in [Task -> TaskFields] /\ pc \in [Thread -> OwnerAt \cup TaskAt \cup CallbackAt]
      /\ task \in [Thread -> Task \cup {NoTask}] /\ copy \in [Executor -> Task \cup {NoTask}]
      /\ e \in Thread
  BY Threads DEF IInv, Types
<1>5. TaskOK(x) /\ (e = taskExecutor => FirstTurn(x) /\ Held1(x) /\ In1(x))
      /\ (e = callbackExecutor => SecondTurn(x) /\ Held2(x) /\ In2(x))
  BY <1>1, <1>3 DEF IInv, RequestOK, TaskOK, Held1, Held2, In1, In2
<1>6. /\ tasks'[x].status = status /\ tasks'[x].run = Nobody /\ tasks'[x].failed = failed
      /\ tasks'[x].stage = tasks[x].stage /\ tasks'[x].onWait = tasks[x].onWait
      /\ \A y \in Task : y # x => tasks'[y] = tasks[y]
  BY <1>2, <1>3, <1>4 DEF TaskFields
<1>7. /\ pc'[e] = "fetch" /\ \A t \in Thread : t # e => pc'[t] = pc[t]
      /\ task'[e] = NoTask /\ \A t \in Thread : t # e => task'[t] = task[t]
      /\ \A f \in Executor : f # e => copy'[f] = copy[f]
  BY <1>2, <1>4 DEF Go
<1>8. /\ QueuesOK'
      /\ \A y : y \in QueueOf(e)' <=> y \in QueueOf(e) /\ y # x
      /\ \A f \in Executor \ {e} : QueueOf(f)' = QueueOf(f)
  <2>1. Types /\ QueuesOK /\ task[e] # NoTask
    BY <1>1, <1>3 DEF IInv
  <2>2. /\ taskQueue' = [taskQueue EXCEPT ![e] = Tail(@)]
        /\ task' = [task EXCEPT ![e] = NoTask] /\ pc' = [pc EXCEPT ![e] = "fetch"]
    BY <1>2 DEF Go
  <2>3. /\ QueuesOK'
        /\ \A y : y \in QueueOf(e)' <=> y \in QueueOf(e) /\ y # task[e]
        /\ \A f \in Executor \ {e} : QueueOf(f)' = QueueOf(f)
    BY <2>1, <2>2, Dequeue
  <2> QED BY <1>1, <2>3
<1>9. /\ e = taskExecutor => \A y : /\ In1(y)' <=> In1(y) /\ y # x
                                    /\ In2(y)' <=> In2(y)
      /\ e = callbackExecutor => \A y : /\ In2(y)' <=> In2(y) /\ y # x
                                        /\ In1(y)' <=> In1(y)
  BY <1>8, Threads DEF In1, In2
<1>10. \A y : y # x /\ y # NoTask => /\ Held1(y)' <=> Held1(y)
                                     /\ Held2(y)' <=> Held2(y)
  BY <1>1, <1>7, Threads DEF Held1, Held2
<1>11. Passes(e, q, x, from, "fetch")
  <2>1. {from, "fetch"} \cap Starting = {}
    BY DEF Starting
  <2>2. \A y \in Task : y # NoTask
    BY TaskPair
  <2> QED BY <1>1, <1>2, <1>6, <1>7, <1>9, <1>10, <2>1, <2>2, Threads
          DEF Passes, TaskAt, CallbackAt
<1>a. /\ status = "TS_DONE" /\ ~ failed => Answer(x)' = "OK"
      /\ failed => Answer(x)' = "GENERAL_ERROR"
  BY <1>6 DEF Answer
<1>12. /\ GoesOn(x) /\ ~ Ahead(x) /\ ~ Ahead(x)'
       /\ Live(x) => from = "done" /\ e = taskExecutor
       /\ IF e = taskExecutor /\ q \in Callback
          THEN /\ Live(x) /\ Live(x)' /\ tasks'[x].failed = tasks[x].failed
          ELSE /\ ~ Queued(x)' /\ ~ Held1(x)' /\ ~ Held2(x)'
               /\ from = "done" /\ ~ tasks[x].failed => Answer(x)' = "OK"
               /\ from = "threw" => Answer(x)' = "GENERAL_ERROR"
  <2>1. CASE e = taskExecutor
    <3>1. ~ In1(x)' /\ (In2(x)' <=> In2(x)) /\ ~ Held1(x)' /\ (Held2(x)' <=> Held2(x))
      BY <1>3, <1>7, <1>9, <2>1, Threads DEF Held1, Held2
    <3>2. CASE from = "done" /\ q \in Callback
      <4>1. tasks[x].status = "TS_BUSY" /\ tasks[x].stage = 1 /\ In2(x)
        BY <1>2, <1>3, <1>5, <2>1, <3>2 DEF FirstTurn, Has
      <4>2. status = "TS_BUSY"
        BY <1>2, <3>2, <4>1
      <4>3. pc'[callbackExecutor] = pc[callbackExecutor]
            /\ (Held2(x) => pc[callbackExecutor] = "run")
        BY <1>5, <1>7, <2>1, Threads DEF TaskOK, SecondTurn
      <4>4. Held2(x)' => SecondTurn(x)'
        BY <3>1, <4>1, <4>3 DEF SecondTurn, AfterCall, Starting
      <4>5. TaskOK(x)'
        BY <1>3, <1>6, <3>1, <3>2, <4>1, <4>2, <4>3, <4>4 DEF TaskOK, Has, Queued
      <4>6. Live(x) /\ ~ Ahead(x) /\ ~ Ahead(x)'
        BY <1>2, <1>3, <1>5, <2>1, <3>1, <3>2, <4>1, <4>3
           DEF Live, Past, Queued, Ahead, AfterCall, Starting
      <4>7. Live(x)'
        BY <3>1, <4>1, <4>3 DEF Live, Past, Queued, AfterCall, Starting
      <4>8. tasks'[x].failed = tasks[x].failed
        BY <1>2, <1>6, <3>2
      <4> QED BY <1>6, <2>1, <3>2, <4>2, <4>5, <4>6, <4>7, <4>8 DEF GoesOn
    <3>3. CASE from = "threw" \/ q \notin Callback
      <4>1. q \notin Callback /\ ~ In2(x) /\ status \in Final
        BY <1>2, <1>3, <1>5, <2>1, <3>3 DEF FirstTurn, Has, Final
      <4>2. ~ Held2(x)
        BY <1>3, <4>1, HeldTwo DEF IInv
      <4>3. TaskOK(x)'
        BY <1>6, <3>1, <4>1, <4>2 DEF TaskOK, Queued
      <4>4. ~ Live(x)' /\ ~ Ahead(x)' /\ ~ Queued(x)' /\ ~ Held2(x)' /\ ~ Ahead(x)
        BY <1>2, <1>5, <2>1, <3>1, <4>1, <4>2 DEF Live, Queued, Ahead
      <4>5. Live(x) => from = "done"
        BY <1>2, <1>3, <1>5, <2>1, <4>1 DEF Live, Past
      <4>6. from = "done" => tasks[x].stage = 0
        BY <1>2, <1>3, <1>5, <2>1, <4>1 DEF FirstTurn, Has
      <4>7. /\ from = "done" => status = "TS_DONE" /\ failed = tasks[x].failed
            /\ from = "threw" => failed
        BY <1>2, <4>6
      <4> QED BY <1>6, <1>a, <2>1, <3>1, <4>1, <4>3, <4>4, <4>5, <4>7 DEF GoesOn, Final
    <3> QED BY <3>2, <3>3
  <2>2. CASE e = callbackExecutor
    <3>1. from \in AfterCall /\ from # "run"
      BY DEF AfterCall
    <3>2. ~ In1(x) /\ tasks[x].stage = 0
      BY <1>2, <1>5, <2>2, <3>1 DEF SecondTurn, Has
    <3>3. ~ Held1(x)
      BY <1>3, <3>2, HeldTwo DEF IInv
    <3>4. status \in Final
      BY <1>2, <3>2 DEF Final
    <3>5. ~ In1(x)' /\ ~ In2(x)' /\ ~ Held1(x)' /\ ~ Held2(x)'
      BY <1>3, <1>7, <1>9, <2>2, <3>2, <3>3, Threads DEF Held1, Held2
    <3>6. TaskOK(x)'
      BY <1>6, <3>4, <3>5 DEF TaskOK, Queued
    <3>7. ~ Live(x)' /\ ~ Ahead(x)' /\ ~ Queued(x)' /\ ~ Ahead(x) /\ ~ Live(x)
      BY <1>2, <1>5, <2>2, <3>1, <3>2, <3>5 DEF Live, Queued, Ahead, Past
    <3>8. /\ from = "done" => status = "TS_DONE" /\ failed = tasks[x].failed
          /\ from = "threw" => failed
      BY <1>2, <3>2
    <3> QED BY <1>6, <1>a, <2>2, <3>4, <3>5, <3>6, <3>7, <3>8, Threads DEF GoesOn, Final
  <2> QED BY <2>1, <2>2, Threads
<1>13. e = callbackExecutor => CallbackOK(q)'
  <2>1. NoTask \notin TasksOf(q)
    BY <1>3, TasksOfRequest
  <2>2. TasksOf(q)' = TasksOf(q)
    BY DEF TasksOf
  <2> QED BY <1>7, <2>1, <2>2 DEF CallbackOK
<1>14. Queued(x)
  BY <1>3, Threads DEF Queued, In1, In2
<1>15. Preserved /\ Handed(e, q, x, from, "fetch")
  BY <1>3, <1>8, <1>11, <1>12, <1>13, <1>14, PassesOK
<1> QED BY <1>1, <1>12, <1>15

LEMMA ExitOK ==
  ASSUME IInv, NEW e \in Executor, Exit(e)
  PROVE  Preserved /\ \A u \in Request : Elsewhere(u)
<1>1. /\ pc[e] = "fetch" /\ pc' = [pc EXCEPT ![e] = "ended"]
      /\ UNCHANGED <<request, tasks, taskQueue, syncQueue, task, copy, client>>
  BY DEF Exit, Go
<1>2. \A t \in Thread : pc'[t] = IF t = e THEN "ended" ELSE pc[t]
  BY <1>1 DEF IInv, Types
<1>3. e \in Thread /\ TurnOK(e) /\ \A u \in Request : u \in Thread /\ u # e
  BY Threads DEF IInv, QueuesOK
<1>4. task[e] = NoTask
  BY <1>1, <1>3 DEF TurnOK
<1>5. PlacesOK'
  BY <1>2, Threads DEF IInv, PlacesOK, TaskAt, CallbackAt
<1>6. \A f \in Executor : QueueOf(f)' = QueueOf(f)
  BY <1>1 DEF QueueOf
<1>7. QueuesOK'
  <2>1. \A f \in Executor : TurnOK(f) => TurnOK(f)'
    BY <1>1, <1>2, Threads DEF TurnOK
  <2> QED BY <1>6, <2>1, Threads DEF IInv, QueuesOK
<1>8. SyncOK'
  BY <1>1, <1>2, <1>3, SyncStays
<1>9. ASSUME NEW u \in Request
      PROVE  RequestOK(u)' /\ Elsewhere(u)
  <2>1. task[e] \notin TasksOf(u)
    BY <1>4, TasksOfRequest
  <2>2. \A x \in TasksOf(u) : /\ tasks'[x] = tasks[x]
                              /\ In1(x)' <=> In1(x)
                              /\ In2(x)' <=> In2(x)
                              /\ Held1(x)' <=> Held1(x)
                              /\ Held2(x)' <=> Held2(x)
    BY <1>1, <1>6, Threads DEF In1, In2, Held1, Held2
  <2> QED BY <1>1, <1>2, <1>3, <2>1, <2>2, OtherOK
<1> QED BY <1>5, <1>7, <1>8, <1>9 DEF Preserved

-----------------------------------------------------------------------------
(* The types.                                                              *)

(* Every step moves one thread at most, to a place of its own.             *)
LEMMA PlaceTypes ==
  ASSUME Types, PlacesOK', \/ pc' = pc
                           \/ \E t \in Thread : \E to : pc' = [pc EXCEPT ![t] = to]
  PROVE  pc' \in [Thread -> OwnerAt \cup TaskAt \cup CallbackAt]
<1>1. DOMAIN pc' = Thread /\ pc' = [t \in Thread |-> pc'[t]]
  BY DEF Types
<1>2. \A t \in Thread : pc'[t] \in OwnerAt \cup TaskAt \cup CallbackAt
  BY Threads DEF PlacesOK, Thread, Executor
<1> QED BY <1>1, <1>2

LEMMA StartAsyncTypes ==
  ASSUME IInv, NEW t \in Thread, StartAsync(t), PlacesOK'
  PROVE  Types'
<1>1. PICK q : q = Of(t)
  OBVIOUS
<1>2. pc[t] \in Starting \cup {"StartAsync"} /\ \E to : pc' = [pc EXCEPT ![t] = to]
  BY DEF StartAsync, IsRequestBusy, SetBusy, ResetCallback, InitNextAsyncTask, ResetStages,
         StartAsyncTask, Refuse, Go, Starting
<1>3. q \in Request /\ t \in Starters(q)
  BY <1>1, <1>2, Begins
<1>4. Types /\ pc' \in [Thread -> OwnerAt \cup TaskAt \cup CallbackAt]
  BY <1>2, PlaceTypes DEF IInv
<1>a. request \in [Request -> RequestFields] /\ tasks \in [Task -> TaskFields]
      /\ client \in [Request -> ClientFields]
  BY <1>4 DEF Types
<1>5. CASE IsRequestBusy(t)
  BY <1>4, <1>5 DEF IsRequestBusy, Types
<1>6. CASE SetBusy(t) \/ ResetCallback(t) \/ Refuse(t)
  <2>1. request' \in [Request -> RequestFields]
    <3>1. CASE SetBusy(t)
      <4>1. request' = [request EXCEPT ![q].busy = TRUE]
        BY <1>1, <3>1 DEF SetBusy
      <4> QED BY <1>3, <1>a, <4>1, ZenonT(60) DEF RequestFields
    <3>2. CASE ResetCallback(t)
      <4>1. request' = [request EXCEPT ![q].code = "OK", ![q].exception = FALSE]
        BY <1>1, <3>2 DEF ResetCallback
      <4> QED BY <1>3, <1>a, <4>1, ZenonT(60) DEF RequestFields
    <3>3. CASE Refuse(t)
      <4>1. request' = [request EXCEPT ![q].busy = FALSE]
        BY <1>1, <3>3 DEF Refuse
      <4> QED BY <1>3, <1>a, <4>1, ZenonT(60) DEF RequestFields
    <3> QED BY <1>6, <3>1, <3>2, <3>3
  <2>2. UNCHANGED <<tasks, taskQueue, syncQueue, task, copy, client>>
    BY <1>6 DEF SetBusy, ResetCallback, Refuse
  <2> QED BY <1>4, <2>1, <2>2 DEF Types
<1>7. CASE InitNextAsyncTask(t)
  <2>1. PICK x \in TasksOf(q), n \in 0 .. 2 :
          request' = [request EXCEPT ![q].async = x, ![q].created = n]
    <3>1. \E x \in TasksOf(q), n \in 0 .. 2 :
            /\ request' = [request EXCEPT ![q].async = x, ![q].created = n]
            /\ ~ Queued(x) /\ x[2] <= n
            /\ n = request[q].created \/ (n = request[q].created + 1 /\ x = <<q, n>>)
      BY <1>1, <1>7, NextTask
    <3> QED BY <3>1
  <2>2. x \in Task
    BY <1>3, TasksOfRequest
  <2>3. request' \in [Request -> RequestFields]
    BY <1>3, <1>a, <2>1, <2>2, ZenonT(60) DEF RequestFields
  <2>4. UNCHANGED <<tasks, taskQueue, syncQueue, task, copy, client>>
    BY <1>7 DEF InitNextAsyncTask
  <2> QED BY <1>4, <2>3, <2>4 DEF Types
<1>8. CASE ResetStages(t)
  <2>1. PICK x : x = request[q].async
    OBVIOUS
  <2>2. pc[t] = "resetStages"
    BY <1>8 DEF ResetStages, Go
  <2>3. x # NoTask
    BY <1>3, <2>1, <2>2 DEF IInv, RequestOK, StartOK
  <2>4. x \in Task
    BY <1>3, <1>4, <2>1, <2>3 DEF Types, RequestFields
  <2>5. /\ tasks' = [tasks EXCEPT ![x].stage = 2]
        /\ request' = [request EXCEPT ![q].current = x]
        /\ UNCHANGED <<taskQueue, syncQueue, task, copy, client>>
    BY <1>1, <1>8, <2>1 DEF ResetStages
  <2>6. tasks' \in [Task -> TaskFields]
    BY <1>a, <2>4, <2>5 DEF TaskFields
  <2>7. request' \in [Request -> RequestFields]
    BY <1>3, <1>a, <2>4, <2>5 DEF RequestFields
  <2> QED BY <1>4, <2>5, <2>6, <2>7 DEF Types
<1>9. CASE StartAsyncTask(t)
  <2>1. PICK x : x = request[q].current
    OBVIOUS
  <2>2. x \in Task
    BY <1>3, <1>4, <2>1 DEF Types, RequestFields
  <2>3. /\ UNCHANGED <<request, syncQueue, task, copy>>
        /\ \/ UNCHANGED <<tasks, taskQueue>>
           \/ /\ tasks' = [tasks EXCEPT ![x].status = "TS_BUSY"]
              /\ taskQueue' = [taskQueue EXCEPT ![taskExecutor] = Append(@, x)]
        /\ \/ client' = client
           \/ client' = [client EXCEPT ![q].started = @ + 1, ![q].last = "StartAsync"]
    BY <1>1, <1>9, <2>1 DEF StartAsyncTask, StartTask
  <2>4. tasks' \in [Task -> TaskFields]
    <3>1. tasks' = tasks \/ tasks' = [tasks EXCEPT ![x].status = "TS_BUSY"]
      BY <2>3
    <3>2. CASE tasks' = [tasks EXCEPT ![x].status = "TS_BUSY"]
      BY <1>a, <2>2, <3>2 DEF TaskFields
    <3> QED BY <1>a, <3>1, <3>2
  <2>5. taskQueue' \in [Executor -> Seq(Task)]
    <3>1. Append(taskQueue[taskExecutor], x) \in Seq(Task)
      BY <1>4, <2>2, AppendProperties, Threads DEF Types
    <3> QED BY <1>4, <2>3, <3>1 DEF Types
  <2>6. client' \in [Request -> ClientFields]
    <3>1. CASE client' = [client EXCEPT ![q].started = @ + 1, ![q].last = "StartAsync"]
      <4>1. client[q].started + 1 \in Nat
        BY <1>3, <1>a DEF ClientFields
      <4>2. PICK n \in Nat : client' = [client EXCEPT ![q].started = n, ![q].last = "StartAsync"]
        BY <3>1, <4>1
      <4>3. client \in [Request -> ClientFields]
        BY <1>a
      <4>4. PICK f : f = [client EXCEPT ![q].started = n]
        OBVIOUS
      <4>5. f \in [Request -> ClientFields]
        BY <1>3, <4>3, <4>4, ZenonT(60) DEF ClientFields
      <4>6. client' = [f EXCEPT ![q].last = "StartAsync"]
        BY <4>2, <4>4
      <4> QED BY <1>3, <4>5, <4>6, ZenonT(60) DEF ClientFields
    <3> QED BY <1>a, <2>3, <3>1
  <2> QED BY <1>4, <2>3, <2>4, <2>5, <2>6 DEF Types
<1> QED BY <1>5, <1>6, <1>7, <1>8, <1>9 DEF StartAsync

LEMMA InferTypes ==
  ASSUME IInv, NEW q \in Request, Infer(q), PlacesOK'
  PROVE  Types'
<1>1. \E to : pc' = [pc EXCEPT ![q] = to]
  BY DEF Infer, InferIsBusy, InferSetBusy, InferOccupy, Lock, WaitInQueue, InferEnds, Unlock, Go
<1>2. Types /\ pc' \in [Thread -> OwnerAt \cup TaskAt \cup CallbackAt]
  BY <1>1, PlaceTypes, Threads DEF IInv
<1>a. request \in [Request -> RequestFields] /\ tasks \in [Task -> TaskFields]
      /\ client \in [Request -> ClientFields]
  BY <1>2 DEF Types
<1>3. Sync(q) \in Task
  BY TasksOfRequest
<1>4. CASE InferIsBusy(q) \/ WaitInQueue(q)
  BY <1>2, <1>4 DEF InferIsBusy, WaitInQueue, Types
<1>5. CASE InferSetBusy(q)
  <2>0. /\ request' = [request EXCEPT ![q].busy = TRUE, ![q].current = Sync(q)]
        /\ client' = [client EXCEPT ![q].infers = @ + 1, ![q].last = "Infer"]
    BY <1>5 DEF InferSetBusy
  <2>1. request' \in [Request -> RequestFields]
    BY <1>3, <1>a, <2>0, ZenonT(60) DEF RequestFields
  <2>2. client' \in [Request -> ClientFields]
    <3>1. client[q].infers + 1 \in Nat
      BY <1>a DEF ClientFields
    <3>2. PICK n \in Nat : client' = [client EXCEPT ![q].infers = n, ![q].last = "Infer"]
      BY <2>0, <3>1
    <3>3. client \in [Request -> ClientFields]
      BY <1>a
    <3>4. PICK f : f = [client EXCEPT ![q].infers = n]
      OBVIOUS
    <3>5. f \in [Request -> ClientFields]
      BY <3>3, <3>4, ZenonT(60) DEF ClientFields
    <3>6. client' = [f EXCEPT ![q].last = "Infer"]
      BY <3>2, <3>4
    <3> QED BY <3>5, <3>6, ZenonT(60) DEF ClientFields
  <2> QED BY <1>2, <1>5, <2>1, <2>2 DEF InferSetBusy, Types
<1>6. CASE InferOccupy(q) \/ InferEnds(q)
  <2>1. tasks' \in [Task -> TaskFields]
    <3>1. CASE InferOccupy(q)
      <4>1. tasks' = [tasks EXCEPT ![Sync(q)].status = "TS_BUSY"]
        BY <3>1 DEF InferOccupy
      <4> QED BY <1>3, <1>a, <4>1 DEF TaskFields
    <3>2. CASE InferEnds(q)
      <4>1. PICK failed \in BOOLEAN, status \in {"TS_ERROR", "TS_DONE"} :
              tasks' = [tasks EXCEPT ![Sync(q)].failed = failed, ![Sync(q)].status = status]
        BY <3>2 DEF InferEnds
      <4>2. status \in Final
        BY DEF Final
      <4> QED BY <1>3, <1>a, <4>1, <4>2, ZenonT(60) DEF TaskFields
    <3> QED BY <1>6, <3>1, <3>2
  <2>2. UNCHANGED <<request, taskQueue, syncQueue, task, copy, client>>
    BY <1>6 DEF InferOccupy, InferEnds
  <2> QED BY <1>2, <2>1, <2>2 DEF Types
<1>7. CASE Lock(q) \/ Unlock(q)
  <2>1. Unlock(q) => syncQueue # <<>>
    BY DEF IInv, SyncOK, Unlock, Go
  <2>2. Append(syncQueue, q) \in Seq(Request) /\ (syncQueue # <<>> => Tail(syncQueue) \in Seq(Request))
    BY <1>2, AppendProperties, HeadTailProperties DEF Types
  <2>3. syncQueue' \in {syncQueue, Append(syncQueue, q)}
        \/ (syncQueue # <<>> /\ syncQueue' = Tail(syncQueue))
    BY <1>7, <2>1 DEF Lock, Unlock
  <2>4. UNCHANGED <<request, tasks, taskQueue, task, copy, client>>
    BY <1>7 DEF Lock, Unlock
  <2>5. syncQueue' \in Seq(Request)
    BY <1>2, <2>2, <2>3 DEF Types
  <2> QED BY <1>2, <2>4, <2>5 DEF Types
<1> QED BY <1>4, <1>5, <1>6, <1>7 DEF Infer

LEMMA OwnerTypes ==
  ASSUME IInv, NEW q \in Request, Wait(q) \/ Owner(q), PlacesOK'
  PROVE  Types'
<1>1. \E to : pc' = [pc EXCEPT ![q] = to]
  BY DEF Wait, TakeCurrent, OnWait, WakeUp, WaitEnds, Owner, Call, WaitOrLetGo, LetGo, Go
<1>2. Types /\ pc' \in [Thread -> OwnerAt \cup TaskAt \cup CallbackAt] /\ q \in Thread
  BY <1>1, PlaceTypes, Threads DEF IInv
<1>a. request \in [Request -> RequestFields] /\ tasks \in [Task -> TaskFields]
      /\ client \in [Request -> ClientFields]
  BY <1>2 DEF Types
<1>3. CASE TakeCurrent(q)
  <2>1. request[q].current \in Task
    BY <1>2 DEF Types, RequestFields
  <2>2. task' \in [Thread -> Task \cup {NoTask}]
    BY <1>2, <1>3, <2>1 DEF TakeCurrent, Types
  <2> QED BY <1>2, <1>3, <2>2 DEF TakeCurrent, Types
<1>4. CASE OnWait(q) \/ WakeUp(q)
  <2>1. tasks' \in [Task -> TaskFields]
    <3>0. PICK x : x = task[q]
      OBVIOUS
    <3>1. PICK b \in BOOLEAN : tasks' = [tasks EXCEPT ![x].onWait = b]
      <4>1. CASE OnWait(q)
        BY <3>0, <4>1 DEF OnWait
      <4>2. CASE WakeUp(q)
        BY <3>0, <4>2 DEF WakeUp
      <4> QED BY <1>4, <4>1, <4>2
    <3>2. CASE x \in Task
      BY <1>a, <3>1, <3>2 DEF TaskFields
    <3>3. CASE x \notin Task
      BY <1>a, <3>1, <3>3
    <3> QED BY <3>2, <3>3
  <2>2. UNCHANGED <<request, taskQueue, syncQueue, task, copy, client>>
    BY <1>4 DEF OnWait, WakeUp
  <2> QED BY <1>2, <2>1, <2>2 DEF Types
<1>5. CASE WaitEnds(q)
  <2>1. Answer(task[q]) \in {"nothing", "OK", "GENERAL_ERROR", "INFER_NOT_STARTED"}
    BY DEF Answer
  <2>a. /\ request' = [request EXCEPT ![q].busy = FALSE]
        /\ client' = [client EXCEPT ![q].waits = @ + 1, ![q].told = Answer(task[q])]
    BY <1>5 DEF WaitEnds
  <2>2. client' \in [Request -> ClientFields]
    <3>1. client[q].waits + 1 \in Nat
      BY <1>a DEF ClientFields
    <3>2. PICK n \in Nat, a \in {"nothing", "OK", "GENERAL_ERROR", "INFER_NOT_STARTED"} :
            client' = [client EXCEPT ![q].waits = n, ![q].told = a]
      BY <2>1, <2>a, <3>1
    <3>3. client \in [Request -> ClientFields]
      BY <1>a
    <3> QED BY <3>2, <3>3, ZenonT(60) DEF ClientFields
  <2>3. request' \in [Request -> RequestFields]
    BY <1>a, <2>a DEF RequestFields
  <2>4. task' \in [Thread -> Task \cup {NoTask}]
    BY <1>2, <1>5 DEF WaitEnds, Types
  <2>5. UNCHANGED <<tasks, taskQueue, syncQueue, copy>>
    BY <1>5 DEF WaitEnds
  <2> QED BY <1>2, <2>2, <2>3, <2>4, <2>5 DEF Types
<1>6. CASE Owner(q)
  <2>1. UNCHANGED <<request, tasks, taskQueue, syncQueue, task, copy>>
    BY <1>6 DEF Owner, Call, WaitOrLetGo, LetGo
  <2>2. client' = client \/ client' = [client EXCEPT ![q].owned = FALSE]
    BY <1>6 DEF Owner, Call, WaitOrLetGo, LetGo
  <2>3. client' \in [Request -> ClientFields]
    <3>1. CASE client' = [client EXCEPT ![q].owned = FALSE]
      BY <1>a, <3>1, ZenonT(60) DEF ClientFields
    <3> QED BY <1>a, <2>2, <3>1
  <2> QED BY <1>2, <2>1, <2>3 DEF Types
<1> QED BY <1>3, <1>4, <1>5, <1>6 DEF Wait

LEMMA DestroyTypes ==
  ASSUME IInv, NEW t \in Thread, WaitAllAsyncTasks(t), PlacesOK'
  PROVE  Types'
<1>1. \E to : pc' = [pc EXCEPT ![t] = to]
  BY DEF WaitAllAsyncTasks, Go
<1>2. Types /\ pc' \in [Thread -> OwnerAt \cup TaskAt \cup CallbackAt]
  BY <1>1, PlaceTypes DEF IInv
<1>3. request' \in [Request -> RequestFields]
  BY <1>2, ZenonT(60) DEF WaitAllAsyncTasks, Types, RequestFields
<1> QED BY <1>2, <1>3 DEF WaitAllAsyncTasks, Types

(* A turn of an executor.                                                  *)
LEMMA ExecutorTypes ==
  ASSUME IInv, NEW e \in Executor, ExecutorStep(e), PlacesOK'
  PROVE  Types'
<1>1. pc' = pc \/ \E to : pc' = [pc EXCEPT ![e] = to]
  BY DEF ExecutorStep, Fetch, Exit, Run, Lambda, EndInfer, Inferred, SkipCallback, StageDone,
         StartCallback, Unbusy, RunCallback, Called, Failure, Failed, Done, Threw, EndTurn,
         Stop, Go
<1>2. Types /\ pc' \in [Thread -> OwnerAt \cup TaskAt \cup CallbackAt] /\ e \in Thread
  BY <1>1, PlaceTypes, Threads DEF IInv
<1>3. PICK q, x : q = Of(e) /\ x = task[e]
  OBVIOUS
<1>4. /\ request \in [Request -> RequestFields] /\ tasks \in [Task -> TaskFields]
      /\ client \in [Request -> ClientFields] /\ taskQueue \in [Executor -> Seq(Task)]
      /\ task \in [Thread -> Task \cup {NoTask}] /\ copy \in [Executor -> Task \cup {NoTask}]
  BY <1>2 DEF Types
<1>b. tasks \in [Task -> TaskFields] /\ e \in Executor
  BY <1>4
<1>c. ASSUME NEW y \in Task, NEW run \in Executor \cup {Nobody}, NEW failed \in BOOLEAN,
             NEW status \in Final \cup {"TS_INITIAL", "TS_BUSY", "TS_POSTPONED"},
             \/ tasks' = [tasks EXCEPT ![y].run = run, ![y].failed = failed, ![y].status = status]
             \/ tasks' = [tasks EXCEPT ![y].run = run, ![y].status = status, ![y].failed = failed]
      PROVE  tasks' \in [Task -> TaskFields]
  <2>1. PICK f : f = [tasks EXCEPT ![y].run = run]
    OBVIOUS
  <2>2. PICK g, h : g = [f EXCEPT ![y].failed = failed] /\ h = [f EXCEPT ![y].status = status]
    OBVIOUS
  <2>3. f \in [Task -> TaskFields]
    BY <1>b, <2>1 DEF TaskFields
  <2>4. g \in [Task -> TaskFields]
    BY <2>2, <2>3 DEF TaskFields
  <2>5. h \in [Task -> TaskFields]
    BY <2>2, <2>3 DEF TaskFields
  <2>6. tasks' = [g EXCEPT ![y].status = status] \/ tasks' = [h EXCEPT ![y].failed = failed]
    BY <1>c, <2>1, <2>2
  <2>7. CASE tasks' = [g EXCEPT ![y].status = status]
    BY <2>4, <2>7 DEF TaskFields
  <2>8. CASE tasks' = [h EXCEPT ![y].failed = failed]
    BY <2>5, <2>8 DEF TaskFields
  <2> QED BY <2>6, <2>7, <2>8
<1>5. pc[e] \notin {"fetch", "ended"} => q \in Request /\ x \in Task /\ taskQueue[e] # <<>>
  BY <1>3, Hold DEF IInv
<1>6. CASE Fetch(e)
  <2>1. Head(taskQueue[e]) \in Task
    BY <1>4, <1>6, HeadTailProperties DEF Fetch
  <2>2. task' \in [Thread -> Task \cup {NoTask}]
    BY <1>2, <1>4, <1>6, <2>1 DEF Fetch
  <2> QED BY <1>2, <1>6, <2>2 DEF Fetch, Types
<1>7. CASE Exit(e) \/ Called(e) \/ Stop(e)
  BY <1>2, <1>7 DEF Exit, Called, Stop, Types
<1>8. CASE Run(e)
  <2>1. tasks' \in [Task -> TaskFields]
    <3>1. x \in Task
      BY <1>5, <1>8 DEF Run, Go
    <3>2. PICK status \in Final \cup {"TS_INITIAL", "TS_BUSY", "TS_POSTPONED"} :
            tasks' = [tasks EXCEPT ![x].run = e, ![x].failed = FALSE, ![x].status = status]
      <4>1. tasks[x].status \in Final \cup {"TS_INITIAL", "TS_BUSY", "TS_POSTPONED"}
        BY <1>4, <3>1 DEF TaskFields
      <4>2. CASE tasks[x].stage > 0
        BY <1>3, <1>8, <4>2 DEF Run
      <4>3. CASE ~ (tasks[x].stage > 0)
        BY <1>3, <1>4, <1>8, <3>1, <4>1, <4>3 DEF Run, TaskFields
      <4> QED BY <4>2, <4>3
    <3> QED BY <1>b, <1>c, <3>1, <3>2
  <2> QED BY <1>2, <1>8, <2>1 DEF Run, Types
<1>9. CASE Lambda(e)
  <2>1. q \in Request
    BY <1>5, <1>9 DEF Lambda, Go
  <2>2. request[q].async \in Task \cup {NoTask}
    BY <1>4, <2>1 DEF RequestFields
  <2>3. copy' \in [Executor -> Task \cup {NoTask}]
    BY <1>3, <1>4, <1>9, <2>2 DEF Lambda
  <2> QED BY <1>2, <1>9, <2>3 DEF Lambda, Types
<1>10. CASE EndInfer(e)
  <2>1. PICK code \in {"OK", "GENERAL_ERROR"} :
          /\ client' = [client EXCEPT ![q].results = Append(@, code)]
          /\ UNCHANGED <<request, tasks, taskQueue, syncQueue, task, copy>>
    BY <1>3, <1>10 DEF EndInfer
  <2>2. q \in Request
    BY <1>5, <1>10 DEF EndInfer, Go
  <2>3. Append(client[q].results, code) \in Seq({"OK", "GENERAL_ERROR"})
    BY <1>4, <2>2, AppendProperties DEF ClientFields
  <2>a. PICK results \in Seq({"OK", "GENERAL_ERROR"}) :
          client' = [client EXCEPT ![q].results = results]
    BY <2>1, <2>3
  <2>4. client' \in [Request -> ClientFields]
    <3>1. [client[q] EXCEPT !.results = results] \in ClientFields
      <4>1. client[q] \in ClientFields
        BY <1>4, <2>2
      <4> QED BY <4>1 DEF ClientFields
    <3> QED BY <1>4, <2>2, <2>a, <3>1
  <2> QED BY <1>2, <2>1, <2>4 DEF Types
<1>11. ASSUME NEW from, NEW to, StageDone(e, from, to)
       PROVE  tasks' \in [Task -> TaskFields]
  <2>1. PICK y : y = copy[e]
    OBVIOUS
  <2>2. CASE y \in Task
    <3>1. tasks[y] \in TaskFields /\ tasks[y].stage \in 0 .. 2
      BY <1>4, <2>2 DEF TaskFields
    <3>2. PICK left \in 0 .. 2 : tasks' = [tasks EXCEPT ![y].stage = left]
      <4>1. tasks[y].stage > 0 => tasks[y].stage - 1 \in 0 .. 2
        BY <3>1
      <4> QED BY <1>11, <2>1, <3>1, <4>1 DEF StageDone
    <3> QED BY <1>4, <2>2, <3>2, ZenonT(60) DEF TaskFields
  <2>3. CASE y \notin Task
    BY <1>4, <1>11, <2>1, <2>3 DEF StageDone
  <2> QED BY <2>2, <2>3
<1>12. CASE Inferred(e) \/ SkipCallback(e)
  <2>1. tasks' \in [Task -> TaskFields]
    BY <1>11, <1>12 DEF Inferred, SkipCallback
  <2> QED BY <1>2, <1>12, <2>1 DEF Inferred, SkipCallback, Types
<1>13. CASE StartCallback(e)
  <2>1. PICK y : y = copy[e]
    OBVIOUS
  <2>2. pc[e] = "startCallback" /\ e = taskExecutor
    BY <1>13, Threads DEF StartCallback, Go, IInv, PlacesOK, CallbackAt, AfterCall, Starting
  <2>3. x \in TasksOf(q) /\ q \in Request /\ x \in Task
    BY <1>3, <2>2, Hold DEF IInv
  <2>4. y = x
    BY <1>3, <2>1, <2>2, <2>3 DEF IInv, RequestOK, TaskOK, Held1, FirstTurn
  <2>5. /\ UNCHANGED <<request, syncQueue, task, copy, client>>
        /\ \/ UNCHANGED <<tasks, taskQueue>>
           \/ /\ tasks' = [tasks EXCEPT ![x].status = "TS_BUSY"]
              /\ taskQueue' = [taskQueue EXCEPT ![callbackExecutor] = Append(@, x)]
    BY <1>13, <2>1, <2>4 DEF StartCallback, StartTask
  <2>6. tasks' \in [Task -> TaskFields]
    <3>1. CASE tasks' = [tasks EXCEPT ![x].status = "TS_BUSY"]
      BY <1>4, <2>3, <3>1, ZenonT(60) DEF TaskFields
    <3> QED BY <1>4, <2>5, <3>1
  <2>7. taskQueue' \in [Executor -> Seq(Task)]
    <3>1. Append(taskQueue[callbackExecutor], x) \in Seq(Task)
      BY <1>4, <2>3, AppendProperties, Threads
    <3> QED BY <1>4, <2>5, <3>1
  <2> QED BY <1>2, <2>5, <2>6, <2>7 DEF Types
<1>14. CASE Unbusy(e) \/ Failure(e)
  <2>1. request' \in [Request -> RequestFields]
    <3>1. q \in Request
      BY <1>5, <1>14 DEF Unbusy, Failure, Go
    <3>2. request' = [request EXCEPT ![q].busy = FALSE]
      BY <1>3, <1>14 DEF Unbusy, Failure
    <3> QED BY <1>4, <3>1, <3>2, ZenonT(60) DEF RequestFields
  <2> QED BY <1>2, <1>14, <2>1 DEF Unbusy, Failure, Types
<1>15. CASE RunCallback(e)
  <2>1. tasks' \in [Task -> TaskFields]
    BY <1>11, <1>15 DEF RunCallback
  <2>2. q \in Request
    BY <1>5, <1>15 DEF RunCallback, StageDone, Go
  <2>3. Append(client[q].called, request[q].code) \in Seq({"OK", "GENERAL_ERROR"})
    <3>1. /\ client[q].called \in Seq({"OK", "GENERAL_ERROR"})
          /\ request[q].code \in {"OK", "GENERAL_ERROR"}
      BY <1>4, <2>2 DEF ClientFields, RequestFields
    <3> QED BY <3>1, AppendProperties
  <2>4. client' = client
        \/ client' = [client EXCEPT ![q].called = Append(client[q].called, request[q].code)]
    BY <1>3, <1>15 DEF RunCallback
  <2>5. client' \in [Request -> ClientFields]
    <3>1. CASE client' = [client EXCEPT ![q].called = Append(client[q].called, request[q].code)]
      <4>1. PICK called \in Seq({"OK", "GENERAL_ERROR"}) :
              client' = [client EXCEPT ![q].called = called]
        BY <2>3, <3>1
      <4> QED BY <1>4, <2>2, <4>1, ZenonT(60) DEF ClientFields
    <3> QED BY <1>4, <2>4, <3>1
  <2> QED BY <1>2, <1>15, <2>1, <2>5 DEF RunCallback, Types
<1>16. CASE Failed(e)
  <2>1. UNCHANGED <<taskQueue, syncQueue, task, copy, client>>
    BY <1>16 DEF Failed
  <2>2. tasks' \in [Task -> TaskFields]
    <3>1. PICK y : y = copy[e]
      OBVIOUS
    <3>2. tasks' = tasks \/ tasks' = [tasks EXCEPT ![y].stage = 1]
      BY <1>16, <3>1 DEF Failed
    <3>3. CASE tasks' = [tasks EXCEPT ![y].stage = 1] /\ y \in Task
      BY <1>b, <3>3 DEF TaskFields
    <3>4. CASE tasks' = [tasks EXCEPT ![y].stage = 1] /\ y \notin Task
      BY <1>4, <3>4
    <3> QED BY <1>4, <3>2, <3>3, <3>4
  <2>3. request' = request
        \/ request' = [request EXCEPT ![q].code = FailureCode, ![q].exception = TRUE]
    BY <1>3, <1>16 DEF Failed
  <2>4. request' \in [Request -> RequestFields]
    <3>1. q \in Request
      BY <1>5, <1>16 DEF Failed, Go
    <3>2. CASE request' = [request EXCEPT ![q].code = FailureCode, ![q].exception = TRUE]
      <4>1. request' = [request EXCEPT ![q].code = "GENERAL_ERROR", ![q].exception = TRUE]
        BY <3>2 DEF FailureCode
      <4>2. request \in [Request -> RequestFields]
        BY <1>4
      <4> QED BY <3>1, <4>1, <4>2, ZenonT(60) DEF RequestFields
    <3> QED BY <1>4, <2>3, <3>2
  <2> QED BY <1>2, <2>1, <2>2, <2>4 DEF Types
<1>17. CASE Done(e) \/ Threw(e)
  <2>1. pc[e] \notin {"fetch", "ended"}
    BY <1>17 DEF Done, Threw, EndTurn, Go
  <2>2. x \in Task /\ taskQueue[e] # <<>>
    BY <1>5, <2>1
  <2>3. PICK failed \in BOOLEAN, status \in Final \cup {"TS_INITIAL", "TS_BUSY", "TS_POSTPONED"} :
          /\ tasks' = [tasks EXCEPT ![x].run = Nobody, ![x].status = status, ![x].failed = failed]
          /\ taskQueue' = [taskQueue EXCEPT ![e] = Tail(@)]
          /\ task' = [task EXCEPT ![e] = NoTask]
          /\ copy' = [copy EXCEPT ![e] = NoTask]
          /\ UNCHANGED <<request, syncQueue, client>>
    <3>1. tasks[x].failed \in BOOLEAN
          /\ tasks[x].status \in Final \cup {"TS_INITIAL", "TS_BUSY", "TS_POSTPONED"}
      BY <1>4, <2>2 DEF TaskFields
    <3>2. CASE Done(e)
      BY <1>3, <3>1, <3>2 DEF Done, EndTurn, Final
    <3>3. CASE Threw(e)
      BY <1>3, <3>3 DEF Threw, EndTurn, Final
    <3> QED BY <1>17, <3>2, <3>3
  <2>a. tasks' = [tasks EXCEPT ![x].run = Nobody, ![x].status = status, ![x].failed = failed]
    BY <2>3
  <2>4. tasks' \in [Task -> TaskFields]
    BY <1>b, <1>c, <2>2, <2>a
  <2>5. Tail(taskQueue[e]) \in Seq(Task)
    BY <1>4, <2>2, HeadTailProperties
  <2>6. taskQueue' \in [Executor -> Seq(Task)]
    BY <1>4, <2>3, <2>5
  <2>7. task' \in [Thread -> Task \cup {NoTask}] /\ copy' \in [Executor -> Task \cup {NoTask}]
    BY <1>4, <2>3
  <2> QED BY <1>2, <2>3, <2>4, <2>6, <2>7 DEF Types
<1> QED BY <1>6, <1>7, <1>8, <1>9, <1>10, <1>12, <1>13, <1>14, <1>15, <1>16, <1>17 DEF ExecutorStep

-----------------------------------------------------------------------------
(* The invariant.                                                          *)

LEMMA UnmovedOK ==
  ASSUME IInv, UNCHANGED <<request, tasks, taskQueue, syncQueue, pc, task, copy, client>>
  PROVE  Types' /\ Preserved /\ \A u \in Request : Elsewhere(u)
<1>1. Types'
  BY DEF IInv, Types
<1>2. PlacesOK' /\ SyncOK'
  BY DEF IInv, PlacesOK, SyncOK
<1>3. \A e \in Executor : QueueOf(e)' = QueueOf(e)
  BY DEF QueueOf
<1>4. QueuesOK'
  <2>1. \A e \in Executor : TurnOK(e) => TurnOK(e)'
    BY DEF TurnOK
  <2> QED BY <1>3, <2>1, Threads DEF IInv, QueuesOK
<1>5. \A x : /\ In1(x)' <=> In1(x)
             /\ In2(x)' <=> In2(x)
             /\ Held1(x)' <=> Held1(x)
             /\ Held2(x)' <=> Held2(x)
  BY <1>3, Threads DEF In1, In2, Held1, Held2
<1>6. \A u \in Request : Elsewhere(u)
  BY <1>5 DEF Elsewhere, Still
<1>7. \A u \in Request : RequestOK(u)'
  BY <1>6, ElsewhereOK DEF IInv
<1> QED BY <1>1, <1>2, <1>4, <1>6, <1>7 DEF Preserved

LEMMA ExecutorOK ==
  ASSUME IInv, NEW e \in Executor, ExecutorStep(e)
  PROVE  Preserved
<1>1. CASE Stop(e)
  BY <1>1, UnmovedOK DEF Stop
<1> QED BY <1>1, FetchOK, ExitOK, RunOK, LambdaOK, EndInferOK, StagesOK, StartCallbackOK,
           UnbusyOK, RunCallbackOK, CalledOK, FailureOK, FailedOK, TurnEnds DEF ExecutorStep

LEMMA StartAsyncOK ==
  ASSUME IInv, NEW t \in Thread, StartAsync(t)
  PROVE  Preserved
<1>1. PICK q : q = Of(t)
  OBVIOUS
<1> QED BY <1>1, FlagsOK, InitNextOK, ResetStagesOK, StartAsyncTaskOK DEF StartAsync

LEMMA InitOK ==
  ASSUME Init
  PROVE  IInv
<1>1. \A q \in Request : Sync(q) \in Task /\ q \in Thread
  BY TasksOfRequest, Threads
<1>2. \A x \in Task : x[2] \in 0 .. 2
  BY TaskPair
<1>3. /\ \A q \in Request : pc[q] = "idle" /\ task[q] = NoTask
      /\ \A e \in Executor : pc[e] = "fetch" /\ task[e] = NoTask /\ taskQueue[e] = <<>>
      /\ syncQueue = <<>>
  BY Threads DEF Init
<1>4. Types
  <2>1. request \in [Request -> RequestFields]
    BY <1>1 DEF Init, RequestFields
  <2>2. tasks \in [Task -> TaskFields]
    BY <1>2 DEF Init, TaskFields
  <2>3. client \in [Request -> ClientFields]
    <3>1. <<>> \in Seq({"OK", "GENERAL_ERROR"})
      BY EmptySeq
    <3> QED BY <3>1 DEF Init, ClientFields
  <2>4. taskQueue \in [Executor -> Seq(Task)] /\ syncQueue \in Seq(Request)
    <3>1. <<>> \in Seq(Task) /\ <<>> \in Seq(Request)
      BY EmptySeq
    <3> QED BY <3>1 DEF Init
  <2>5. task \in [Thread -> Task \cup {NoTask}] /\ copy \in [Executor -> Task \cup {NoTask}]
    BY DEF Init
  <2>6. pc \in [Thread -> OwnerAt \cup TaskAt \cup CallbackAt]
    BY DEF Init, OwnerAt, TaskAt
  <2> QED BY <2>1, <2>2, <2>3, <2>4, <2>5, <2>6 DEF Types
<1>5. PlacesOK
  BY <1>3, Threads DEF PlacesOK, OwnerAt, TaskAt, CallbackAt
<1>6. \A e \in Executor : QueueOf(e) = {} /\ TurnOK(e)
  BY <1>3 DEF QueueOf, TurnOK
<1>7. QueuesOK
  BY <1>6, Threads DEF QueuesOK
<1>8. SyncOK
  <2>1. Len(syncQueue) = 0
    BY <1>3
  <2>2. 0 <= MAX_NUMBER_OF_TASKS_IN_QUEUE
    BY RequestAssumption
  <2> QED BY <1>3, <2>1, <2>2 DEF SyncOK
<1>9. ASSUME NEW q \in Request
      PROVE  RequestOK(q)
  <2>1. \A x \in TasksOf(q) : /\ ~ In1(x) /\ ~ In2(x) /\ ~ Held1(x) /\ ~ Held2(x)
                              /\ x \in Task /\ x[2] \in 1 .. 2
    <3>1. /\ QueueOf(taskExecutor) = {} /\ QueueOf(callbackExecutor) = {}
          /\ task[taskExecutor] = NoTask /\ task[callbackExecutor] = NoTask
      BY <1>3, <1>6, Threads
    <3>2. ASSUME NEW x \in TasksOf(q)
          PROVE  x \in Task /\ x # NoTask /\ x[2] \in 1 .. 2
      BY <3>2, TasksOfRequest
    <3> QED BY <3>1, <3>2 DEF In1, In2, Held1, Held2
  <2>2. \A x \in TasksOf(q) : ~ Queued(x) /\ ~ Live(x) /\ ~ Ahead(x)
    BY <2>1 DEF Queued, Live, Ahead
  <2>3. \A x \in TasksOf(q) : TaskOK(x)
    BY <2>1, <2>2 DEF TaskOK, Init
  <2>4. /\ request[q].created = 0 /\ request[q].async = NoTask
        /\ request[q].current = Sync(q) /\ ~ request[q].destroyed
        /\ client[q].called = <<>> /\ client[q].started = 0
    BY DEF Init
  <2>5. TasksOK(q)
    <3>1. ASSUME NEW x \in TasksOf(q)
          PROVE  ~ (x[2] <= request[q].created) /\ ~ tasks[x].onWait
      BY <2>1, <2>4 DEF Init
    <3> QED BY <2>2, <3>1 DEF TasksOK, InferenceOK
  <2>6. FieldsOK(q)
    BY <2>4 DEF FieldsOK
  <2>7. \A t \in Starters(q) : pc[t] \in {"idle", "fetch"}
    BY <1>3, Threads DEF Starters
  <2>8. {"idle", "fetch"} \cap (Starting \cup Inferring \cup Waiting \cup {"StartAsync", "InferSync"}) = {}
    BY DEF Starting, Inferring, Waiting
  <2>9. StartOK(q)
    BY <2>7, <2>8 DEF StartOK, Starting
  <2>10. OwnerOK(q)
    BY <1>3, <2>8 DEF OwnerOK, Waiting
  <2>11. CallbackOK(q)
    BY <1>3, <2>8, Threads DEF CallbackOK
  <2> QED BY <2>3, <2>5, <2>6, <2>9, <2>10, <2>11 DEF RequestOK
<1> QED BY <1>4, <1>5, <1>7, <1>8, <1>9 DEF IInv

LEMMA StepOK ==
  ASSUME Callback \cap WaitsInLoop = {}, IInv, [Next]_vars
  PROVE  IInv'
<1>1. Preserved /\ Types'
  <2>1. CASE UNCHANGED vars
    BY <2>1, UnmovedOK DEF vars
  <2>2. CASE \E q \in Request : Owner(q)
    <3>1. PICK q \in Request : Owner(q)
      BY <2>2
    <3>2. Preserved
      BY <3>1, CallsOK
    <3> QED BY <3>1, <3>2, OwnerTypes DEF Preserved
  <2>3. ASSUME NEW t \in Thread, ThreadStep(t)
        PROVE  Preserved /\ Types'
    <3>1. CASE StartAsync(t)
      <4>1. Preserved
        BY <3>1, StartAsyncOK
      <4> QED BY <3>1, <4>1, StartAsyncTypes DEF Preserved
    <3>2. CASE WaitAllAsyncTasks(t)
      <4>1. Preserved
        BY <3>2, DestroyOK
      <4> QED BY <3>2, <4>1, DestroyTypes DEF Preserved
    <3>3. CASE t \in Request /\ Infer(t)
      <4>1. Preserved
        BY <3>3, InferOK
      <4> QED BY <3>3, <4>1, InferTypes DEF Preserved
    <3>4. CASE t \in Request /\ Wait(t)
      <4>1. Preserved
        BY <3>4, WaitOK
      <4> QED BY <3>4, <4>1, OwnerTypes DEF Preserved
    <3>5. CASE t \in Executor /\ ExecutorStep(t)
      <4>1. Preserved
        BY <3>5, ExecutorOK
      <4> QED BY <3>5, <4>1, ExecutorTypes DEF Preserved
    <3> QED BY <2>3, <3>1, <3>2, <3>3, <3>4, <3>5 DEF ThreadStep
  <2> QED BY <2>1, <2>2, <2>3 DEF Next
<1> QED BY <1>1 DEF IInv, Preserved

(* The invariant holds in every reachable state, of any number of requests *)
(* and inferences, when no owner waits in a loop beside a callback that    *)
(* starts the next inference.                                              *)
THEOREM Invariant == Callback \cap WaitsInLoop = {} /\ Spec => []IInv
<1>1. Init => IInv
  BY InitOK
<1>2. Callback \cap WaitsInLoop = {} /\ IInv /\ [Next]_vars => IInv'
  BY StepOK
<1>3. (Callback \cap WaitsInLoop = {}) => [](Callback \cap WaitsInLoop = {})
  OBVIOUS
<1> QED BY <1>1, <1>2, <1>3, PTL DEF Spec

-----------------------------------------------------------------------------
(* Two tasks are enough for every request, whatever its callback starts,   *)
(* and the queue of the TaskSynchronizer keeps its bound: the list of      *)
(* tasks of a request does not grow with its inferences.                   *)
THEOREM TwoTasksAreEnough == Callback \cap WaitsInLoop = {} /\ Spec => []TypeOK
<1>1. IInv => TypeOK
  <2>1. SUFFICES ASSUME IInv PROVE TypeOK
    OBVIOUS
  <2>2. \A e \in Executor : \A i \in 1 .. Len(taskQueue[e]) : taskQueue[e][i] \in Task
    BY <2>1, ElementOfSeq DEF IInv, Types
  <2> QED BY <2>1, <2>2 DEF IInv, Types, RequestFields, TaskFields, SyncOK, TypeOK
<1> QED BY <1>1, Invariant, PTL

(* A request is busy as long as its inference runs, so that SetBlob and    *)
(* GetBlob are refused: although Wait, a refused StartAsync and the        *)
(* callback clear the flag.                                                *)
THEOREM BusyUntilInferred == Callback \cap WaitsInLoop = {} /\ Spec => []BusyWhileInferring
<1>1. IInv => BusyWhileInferring
  <2>1. SUFFICES ASSUME IInv, NEW e \in Executor, pc[e] = "inferring"
                 PROVE  request[Of(e)].busy
    BY DEF BusyWhileInferring
  <2>2. PICK q, x : q = Of(e) /\ x = task[e]
    OBVIOUS
  <2>3. e = taskExecutor
    BY <2>1, Threads DEF IInv, PlacesOK, CallbackAt, AfterCall, Starting
  <2>4. q \in Request /\ x \in TasksOf(q) /\ x \in QueueOf(e)
    BY <2>1, <2>2, Hold DEF IInv
  <2>5. Ahead(x)
    BY <2>1, <2>3, <2>4 DEF Ahead, In1
  <2> QED BY <2>1, <2>2, <2>4, <2>5 DEF IInv, RequestOK, TasksOK, InferenceOK
<1> QED BY <1>1, Invariant, PTL

(* One inference of a request at a time, and one Infer in a network: what  *)
(* runs in the executor is live, and then Infer of its owner finds the     *)
(* request busy; the TaskSynchronizer lets the first in its queue go.      *)
THEOREM OneAtATime == Callback \cap WaitsInLoop = {} /\ Spec => []OneInferAtATime
<1>1. IInv => OneInferAtATime
  <2>1. SUFFICES ASSUME IInv, NEW t \in Thread, NEW u \in Thread, t # u,
                        pc[t] \in {"inferring", "inferringSync"},
                        pc[u] \in {"inferring", "inferringSync"}
                 PROVE  Of(t) # Of(u) /\ {pc[t], pc[u]} # {"inferringSync"}
    BY DEF OneInferAtATime
  <2>2. ASSUME NEW v \in Thread
        PROVE  /\ pc[v] = "inferringSync" => v \in Request /\ Of(v) = v
               /\ pc[v] = "inferring" => v = taskExecutor
    <3>1. v \in Request => pc[v] # "inferring" /\ Of(v) = v
      BY <2>1 DEF IInv, PlacesOK, OwnerAt, Starting, Inferring, Waiting, Of
    <3>2. v \in Executor => /\ pc[v] # "inferringSync"
                            /\ pc[v] = "inferring" => v = taskExecutor
      BY <2>1, Threads DEF IInv, PlacesOK, TaskAt, CallbackAt, AfterCall, Starting
    <3> QED BY <3>1, <3>2 DEF Thread
  <2>3. ~ (pc[t] = "inferring" /\ pc[u] = "inferring")
    BY <2>1, <2>2
  <2>4. ~ (pc[t] = "inferringSync" /\ pc[u] = "inferringSync")
    <3>1. SUFFICES ASSUME pc[t] = "inferringSync", pc[u] = "inferringSync" PROVE FALSE
      OBVIOUS
    <3>2. t \in Request /\ u \in Request
      BY <2>2, <3>1
    <3>3. Head(syncQueue) = t /\ Head(syncQueue) = u
      BY <2>1, <3>1, <3>2 DEF IInv, SyncOK
    <3> QED BY <2>1, <3>3
  <2>5. ASSUME NEW q \in Request, pc[q] = "inferringSync", pc[taskExecutor] = "inferring"
        PROVE  Of(taskExecutor) # q
    <3>1. PICK x : x = task[taskExecutor]
      OBVIOUS
    <3>2. SUFFICES ASSUME Of(taskExecutor) = q PROVE FALSE
      OBVIOUS
    <3>3. x \in TasksOf(q) /\ x \in QueueOf(taskExecutor)
      BY <2>1, <2>5, <3>1, <3>2, Hold, Threads DEF IInv
    <3>4. Ahead(x)
      BY <2>5, <3>3 DEF Ahead, In1
    <3>5. Live(x)
      BY <2>1, <3>3, <3>4, QueuedStatus DEF IInv, RequestOK
    <3>6. NoneLive(q)
      BY <2>1, <2>5 DEF IInv, RequestOK, OwnerOK, Inferring
    <3> QED BY <3>3, <3>5, <3>6 DEF NoneLive
  <2> QED BY <2>1, <2>2, <2>3, <2>4, <2>5
<1> QED BY <1>1, Invariant, PTL

(* The destructor waits for the tasks of its request: an executor that     *)
(* works on one, with a plain pointer to the request, finds it alive.      *)
THEOREM NoTaskOutlives == Callback \cap WaitsInLoop = {} /\ Spec => []NoUseAfterDestruction
<1>1. IInv => NoUseAfterDestruction
  <2>1. SUFFICES ASSUME IInv, NEW e \in Executor, pc[e] \notin {"fetch", "run", "ended"}
                 PROVE  ~ request[Of(e)].destroyed
    BY DEF NoUseAfterDestruction
  <2>2. PICK q, x : q = Of(e) /\ x = task[e]
    OBVIOUS
  <2>3. q \in Request /\ x \in TasksOf(q) /\ x \in QueueOf(e)
    BY <2>1, <2>2, Hold DEF IInv
  <2>4. Queued(x)
    BY <2>3, Threads DEF Queued, In1, In2
  <2> QED BY <2>1, <2>2, <2>3, <2>4 DEF IInv, RequestOK, TasksOK, InferenceOK
<1> QED BY <1>1, Invariant, PTL

-----------------------------------------------------------------------------
(* The promise of module Completion.  Of each request: how many inferences *)
(* are started, ended and told of, what the fields that the callback reads *)
(* and the status of the last task hold, and where its owner can be.       *)

(* The result of the last inference.                                       *)
Result(q) == client[q].results[Len(client[q].results)]

(* The inference has failed and the request has not been told.             *)
Failing(x) == Held1(x) /\ pc[taskExecutor] \in {"failure", "failed"}

(* A start of the request has reset what its callback gets, or chosen the  *)
(* next task.                                                              *)
Codes(q)    == \E t \in Starters(q) : pc[t] \in {"initNext", "resetStages", "startTask"}
Prepares(q) == \E t \in Starters(q) : pc[t] \in {"resetStages", "startTask"}

(* An inference has a result once it has ended, and its callback was       *)
(* called once its task is not live.                                       *)
CountOK(q) ==
  LET c == client[q]
  IN  /\ c.started = IF \E x \in TasksOf(q) : Ahead(x)
                     THEN Len(c.results) + 1 ELSE Len(c.results)
      /\ q \in Callback =>
           c.started = IF NoneLive(q) THEN Len(c.called) ELSE Len(c.called) + 1
      /\ c.started >= 1 => request[q].async # NoTask

(* What the callback will be called with.                                  *)
CodeOK(q) ==
  LET r == request[q]
  IN  /\ Codes(q) => r.code = "OK"
      /\ \A x \in TasksOf(q) : Ahead(x) => r.code = "OK"
      /\ \A x \in TasksOf(q) : Live(x) /\ ~ Ahead(x) =>
           IF Failing(x) THEN Result(q) = "GENERAL_ERROR"
           ELSE /\ r.code = Result(q) /\ (r.exception <=> Result(q) = "GENERAL_ERROR")
                /\ q \notin Callback => Result(q) = "OK"

(* After the callback, at each line of its executor.                       *)
ToldOK(q) ==
  LET at == pc[callbackExecutor]
  IN  /\ at \in {"failure", "failed", "threw"} => Result(q) = "GENERAL_ERROR"
      /\ at = "done" => Result(q) = "OK"
      /\ at \in {"StartAsync", "setBusy", "reset", "called"} =>
           (request[q].exception <=> Result(q) = "GENERAL_ERROR")

(* A task that runs has not failed before.                                 *)
FreshOK(q) ==
  \A x \in TasksOf(q) :
    /\ Held1(x) /\ pc[taskExecutor] # "run" => ~ tasks[x].failed
    /\ Held2(x) /\ pc[callbackExecutor] # "run" => ~ tasks[x].failed

(* The last task started ends in the status of its result.                 *)
EndOK(q) ==
  /\ task[callbackExecutor] \in TasksOf(q) => pc[callbackExecutor] # "refuse"
  /\ client[q].started >= 1 /\ ~ Prepares(q) =>
       \A x \in TasksOf(q) : x = request[q].async /\ ~ Live(x) =>
         /\ ~ Queued(x) => Answer(x) = Result(q)
         /\ Held1(x) => Result(q) = "GENERAL_ERROR"
         /\ Held2(x) => ToldOK(q)

(* An owner waits for the last task started.                               *)
WaitedOK(q) ==
  LET r == request[q]
      c == client[q]
  IN  /\ c.last = "StartAsync" =>
           /\ c.started >= 1
           /\ r.current = r.async \/ \E t \in Starters(q) : pc[t] = "resetStages"
      /\ pc[q] \in Waiting => c.last = "StartAsync"
      /\ pc[q] = "awake" => task[q] = r.current /\ ~ Queued(r.current)

(* An owner with a callback lets go when the last callback was called.     *)
OwnedOK(q) ==
  LET c == client[q]
  IN  /\ q \in Callback /\ c.waits >= 1 => Len(c.called) >= Repeats[q]
      /\ ~ c.owned => pc[q] \in {"destroy", "ended"}
      /\ ~ c.owned /\ q \in Callback => c.started = 0 \/ Len(c.called) >= Repeats[q]

ResultOK(q) == CountOK(q) /\ CodeOK(q) /\ FreshOK(q) /\ EndOK(q)

PromiseOK(q) == ResultOK(q) /\ WaitedOK(q) /\ OwnedOK(q)

Promises == \A q \in Request : PromiseOK(q)

-----------------------------------------------------------------------------
(* What a step leaves alone.                                               *)

(* The tasks of a request are as before, as far as its results go.         *)
Alike(q) ==
  /\ request'[q].async = request[q].async
  /\ request'[q].code = request[q].code
  /\ request'[q].exception = request[q].exception
  /\ client'[q].started = client[q].started
  /\ client'[q].results = client[q].results
  /\ client'[q].called = client[q].called
  /\ Codes(q)' => Codes(q)
  /\ Prepares(q) => Prepares(q)'
  /\ task'[callbackExecutor] \in TasksOf(q) => pc'[callbackExecutor] # "refuse"
  /\ FreshOK(q)'
  /\ \A x \in TasksOf(q) :
       /\ Ahead(x)' <=> Ahead(x)
       /\ Live(x)' <=> Live(x)
       /\ Live(x) => (Failing(x)' <=> Failing(x))
       /\ ~ Live(x) =>
            /\ Queued(x)' <=> Queued(x)
            /\ Held1(x)' => Held1(x)
            /\ Held2(x)' => Held2(x)
            /\ Held2(x) /\ x = request[q].async /\ ToldOK(q) => ToldOK(q)'
            /\ ~ Queued(x) => /\ tasks'[x].failed = tasks[x].failed
                              /\ tasks'[x].status = tasks[x].status

LEMMA AlikeOK ==
  ASSUME NEW q \in Request, ResultOK(q), Alike(q)
  PROVE  ResultOK(q)'
<1>1. TasksOf(q)' = TasksOf(q) /\ Result(q)' = Result(q)
  BY DEF TasksOf, Alike, Result
<1>2. NoneLive(q)' <=> NoneLive(q)
  BY <1>1 DEF NoneLive, Alike
<1>3. CountOK(q)'
  <2>1. (\E x \in TasksOf(q) : Ahead(x))' <=> \E x \in TasksOf(q) : Ahead(x)
    BY <1>1 DEF Alike
  <2> QED BY <1>2, <2>1 DEF ResultOK, CountOK, Alike
<1>4. CodeOK(q)'
  BY <1>1 DEF ResultOK, CodeOK, Alike
<1>5. EndOK(q)'
  <2>1. \A x \in TasksOf(q) : ~ Live(x) /\ ~ Queued(x) => Answer(x)' = Answer(x)
    BY DEF Answer, Alike
  <2>2. (task[callbackExecutor] \in TasksOf(q))' => pc'[callbackExecutor] # "refuse"
    BY <1>1 DEF Alike
  <2>3. ASSUME (client[q].started >= 1 /\ ~ Prepares(q))',
               NEW x \in TasksOf(q), x = request'[q].async, ~ Live(x)'
        PROVE  /\ ~ Queued(x)' => Answer(x)' = Result(q)'
               /\ Held1(x)' => Result(q)' = "GENERAL_ERROR"
               /\ Held2(x)' => ToldOK(q)'
    <3>1. client[q].started >= 1 /\ ~ Prepares(q) /\ x = request[q].async /\ ~ Live(x)
      BY <2>3 DEF Alike
    <3>2. /\ ~ Queued(x) => Answer(x) = Result(q)
          /\ Held1(x) => Result(q) = "GENERAL_ERROR"
          /\ Held2(x) => ToldOK(q)
      BY <3>1 DEF ResultOK, EndOK
    <3>3. /\ Queued(x)' <=> Queued(x)
          /\ Held1(x)' => Held1(x)
          /\ Held2(x)' => Held2(x)
          /\ Held2(x) /\ ToldOK(q) => ToldOK(q)'
      BY <3>1 DEF Alike
    <3> QED BY <1>1, <2>1, <3>1, <3>2, <3>3
  <2> QED BY <1>1, <2>2, <2>3 DEF EndOK
<1>6. FreshOK(q)'
  BY DEF Alike
<1> QED BY <1>3, <1>4, <1>5, <1>6 DEF ResultOK

(* A waiting owner waits for the last task started.                        *)
LEMMA WaitsForLast ==
  ASSUME IInv, NEW q \in Request, WaitedOK(q), pc[q] \in Waiting
  PROVE  /\ request[q].current = request[q].async /\ request[q].async \in TasksOf(q)
         /\ client[q].started >= 1 /\ ~ Prepares(q) /\ ~ Codes(q)
<1>1. ASSUME NEW t \in Starters(q), pc[t] \in {"initNext", "resetStages", "startTask"}
      PROVE  FALSE
  <2>1. t \in Thread /\ pc[t] \in Starting
    BY <1>1, Threads DEF Starters, Starting
  <2>2. q = Of(t)
    <3>1. CASE t = q
      BY <3>1 DEF Of
    <3>2. CASE t = callbackExecutor /\ task[t] \in TasksOf(q)
      BY <3>2, TasksOfRequest, Threads DEF Of
    <3> QED BY <3>1, <3>2 DEF Starters
  <2> QED BY <2>1, <2>2, Begins
<1>2. request[q].current = request[q].async /\ client[q].started >= 1
  BY <1>1 DEF WaitedOK
<1>3. request[q].async \in TasksOf(q)
  <2>1. request[q].current \in Task
    BY DEF IInv, Types, RequestFields
  <2>2. request[q].async # NoTask
    BY <1>2, <2>1, TaskPair
  <2> QED BY <2>2 DEF IInv, RequestOK, FieldsOK
<1>4. ~ Prepares(q) /\ ~ Codes(q)
  BY <1>1 DEF Prepares, Codes
<1> QED BY <1>2, <1>3, <1>4

(* The owner stays where it is.                                            *)
LEMMA OwnerAlike ==
  ASSUME IInv, NEW q \in Request, WaitedOK(q), OwnedOK(q), pc'[q] = pc[q], task'[q] = task[q],
         request'[q].async = request[q].async, request'[q].current = request[q].current,
         client'[q].last = client[q].last, client'[q].waits = client[q].waits,
         client'[q].owned = client[q].owned, client'[q].started = client[q].started,
         \/ client'[q].called = client[q].called
         \/ Len(client'[q].called) = Len(client[q].called) + 1,
         \A x \in TasksOf(q) : Queued(x)' => Queued(x),
         (\E t \in Starters(q) : pc[t] = "resetStages")
           => (\E t \in Starters(q) : pc[t] = "resetStages")'
  PROVE  WaitedOK(q)' /\ OwnedOK(q)'
<1>1. Len(client[q].called) >= Repeats[q] => Len(client'[q].called) >= Repeats[q]
  <2>1. Len(client[q].called) \in Nat /\ Repeats[q] \in Nat
    BY RequestAssumption, LenProperties DEF IInv, Types, ClientFields
  <2> QED BY <2>1
<1>2. OwnedOK(q)'
  BY <1>1 DEF OwnedOK
<1>3. pc[q] = "awake" => (~ Queued(request[q].current))'
  <2>1. SUFFICES ASSUME pc[q] = "awake" PROVE ~ Queued(request[q].current)'
    OBVIOUS
  <2>2. PICK x : x = request[q].current
    OBVIOUS
  <2>3. ~ Queued(x)
    BY <2>1, <2>2 DEF WaitedOK
  <2>4. x \in TasksOf(q)
    BY <2>1, <2>2, WaitsForLast DEF Waiting
  <2>5. ~ Queued(x)'
    BY <2>3, <2>4
  <2> QED BY <2>2, <2>5
<1> QED BY <1>2, <1>3 DEF WaitedOK

(* The threads that start an inference go on doing so.                     *)
LEMMA StartersStay ==
  ASSUME IInv, NEW q \in Request, pc'[q] = pc[q],
         \/ pc'[callbackExecutor] = pc[callbackExecutor]
            /\ (task'[callbackExecutor] \in TasksOf(q) <=> task[callbackExecutor] \in TasksOf(q))
         \/ {pc[callbackExecutor], pc'[callbackExecutor]} \cap Starting = {}
  PROVE  /\ Codes(q)' <=> Codes(q)
         /\ Prepares(q)' <=> Prepares(q)
         /\ (\E t \in Starters(q) : pc[t] = "resetStages")'
              <=> (\E t \in Starters(q) : pc[t] = "resetStages")
<1>1. TasksOf(q)' = TasksOf(q)
  BY DEF TasksOf
<1>2. {"initNext", "resetStages", "startTask"} \subseteq Starting
  BY DEF Starting
<1>3. /\ \A at \in Starting : (\E t \in Starters(q) : pc[t] = at) <=>
            pc[q] = at \/ (task[callbackExecutor] \in TasksOf(q) /\ pc[callbackExecutor] = at)
      /\ \A at \in Starting : (\E t \in Starters(q) : pc[t] = at)' <=>
            pc'[q] = at \/ (task'[callbackExecutor] \in TasksOf(q) /\ pc'[callbackExecutor] = at)
  BY <1>1 DEF Starters
<1>4. \A at \in Starting : (\E t \in Starters(q) : pc[t] = at)'
                            <=> (\E t \in Starters(q) : pc[t] = at)
  BY <1>3
<1> QED BY <1>2, <1>4 DEF Codes, Prepares

(* A request that a step is not about.                                     *)
LEMMA ElsewherePromise ==
  ASSUME IInv, NEW q \in Request, PromiseOK(q), Elsewhere(q)
  PROVE  PromiseOK(q)'
<1>1. TasksOf(q)' = TasksOf(q)
  BY DEF TasksOf
<1>2. \A x \in TasksOf(q) : /\ Queued(x)' <=> Queued(x)
                            /\ Live(x)' <=> Live(x)
                            /\ Ahead(x)' <=> Ahead(x)
                            /\ Still(x) /\ tasks'[x] = tasks[x]
  BY StillLive DEF Elsewhere
<1>3. task'[callbackExecutor] \in TasksOf(q) <=> task[callbackExecutor] \in TasksOf(q)
  BY <1>2 DEF Still, Held2
<1>4. /\ Codes(q)' <=> Codes(q)
      /\ Prepares(q)' <=> Prepares(q)
      /\ (\E t \in Starters(q) : pc[t] = "resetStages")'
           <=> (\E t \in Starters(q) : pc[t] = "resetStages")
  <2>1. CASE task[callbackExecutor] \in TasksOf(q)
    BY <1>3, <2>1, StartersStay DEF Elsewhere
  <2>2. CASE task[callbackExecutor] \notin TasksOf(q)
    <3>1. Starters(q) = {q} /\ Starters(q)' = {q} /\ pc'[q] = pc[q]
      BY <1>1, <1>3, <2>2 DEF Starters, Elsewhere
    <3> QED BY <3>1 DEF Codes, Prepares
  <2> QED BY <2>1, <2>2
<1>5. \A x \in TasksOf(q) : Held2(x) => pc'[callbackExecutor] = pc[callbackExecutor]
  BY DEF Elsewhere, Held2
<1>6. Alike(q)
  <2>1. FreshOK(q)'
    BY <1>1, <1>2, <1>5 DEF PromiseOK, ResultOK, FreshOK, Still
  <2>2. \A x \in TasksOf(q) : Failing(x)' <=> Failing(x)
    BY <1>2 DEF Failing, Still
  <2>3. \A x \in TasksOf(q) : Held2(x) /\ ToldOK(q) => ToldOK(q)'
    <3>1. Result(q)' = Result(q) /\ request'[q] = request[q]
      BY DEF Elsewhere, Result
    <3> QED BY <1>2, <1>5, <3>1 DEF ToldOK, Still
  <2>4. task'[callbackExecutor] \in TasksOf(q) => pc'[callbackExecutor] # "refuse"
    BY <1>3 DEF PromiseOK, ResultOK, EndOK, Elsewhere
  <2> QED BY <1>2, <1>4, <2>1, <2>2, <2>3, <2>4 DEF Alike, Elsewhere, Still
<1>7. ResultOK(q)'
  BY <1>6, AlikeOK DEF PromiseOK
<1>8. WaitedOK(q)' /\ OwnedOK(q)'
  <2>1. \A x \in TasksOf(q) : Queued(x)' => Queued(x)
    BY <1>2
  <2> QED BY <1>4, <2>1, OwnerAlike DEF PromiseOK, Elsewhere
<1> QED BY <1>7, <1>8 DEF PromiseOK

(* What a step about one request has to leave.                             *)
LEMMA OthersPromise ==
  ASSUME IInv, Promises, NEW q \in Request, PromiseOK(q)',
         \A u \in Request \ {q} : Elsewhere(u)
  PROVE  Promises'
BY ElsewherePromise DEF Promises

-----------------------------------------------------------------------------
(* The steps of the executors.                                             *)

(* When no task of a request is live its last inference has a result.      *)
LEMMA HasResult ==
  ASSUME IInv, NEW q \in Request, CountOK(q), client[q].started >= 1,
         \A x \in TasksOf(q) : ~ Ahead(x)
  PROVE  /\ Len(client[q].results) = client[q].started
         /\ Result(q) \in {"OK", "GENERAL_ERROR"}
<1>1. client[q].results \in Seq({"OK", "GENERAL_ERROR"}) /\ client[q].started \in Nat
  BY DEF IInv, Types, ClientFields
<1>2. Len(client[q].results) = client[q].started
  BY DEF CountOK
<1>3. Len(client[q].results) \in 1 .. Len(client[q].results)
  BY <1>1, <1>2
<1> QED BY <1>1, <1>2, <1>3, ElementOfSeq DEF Result

(* What a step in the middle of a turn leaves alone.                       *)
LEMMA TurnAround ==
  ASSUME IInv, Promises, NEW e \in Executor, NEW q, NEW x, NEW from, NEW to,
         Turn(e, q, x, from, to), {from, to} \cap Starting = {}, to # "run",
         tasks'[x].failed => tasks[x].failed /\ from # "run"
  PROVE  /\ q \in Request /\ x \in TasksOf(q) /\ PromiseOK(q)
         /\ TasksOf(q)' = TasksOf(q) /\ task' = task /\ pc'[q] = pc[q]
         /\ \A f \in Executor \ {e} : pc'[f] = pc[f]
         /\ Codes(q)' <=> Codes(q)
         /\ Prepares(q)' <=> Prepares(q)
         /\ (\E t \in Starters(q) : pc[t] = "resetStages")'
              <=> (\E t \in Starters(q) : pc[t] = "resetStages")
         /\ task'[callbackExecutor] \in TasksOf(q) => pc'[callbackExecutor] # "refuse"
         /\ FreshOK(q)'
         /\ \A y \in TasksOf(q) : y # x =>
              /\ tasks'[y] = tasks[y]
              /\ Live(y)' <=> Live(y)
              /\ Ahead(y)' <=> Ahead(y)
              /\ Failing(y)' <=> Failing(y)
              /\ Held2(y) => pc'[callbackExecutor] = pc[callbackExecutor]
         /\ \A y : /\ Queued(y)' <=> Queued(y)
                   /\ Held1(y)' <=> Held1(y)
                   /\ Held2(y)' <=> Held2(y)
<1>1. /\ q \in Request /\ x \in TasksOf(q) /\ x \in Task
      /\ e = taskExecutor => Held1(x)
      /\ e = callbackExecutor => Held2(x)
      /\ pc[e] = from /\ pc'[e] = to /\ \A u \in Thread : u # e => pc'[u] = pc[u]
      /\ \A y : /\ In1(y)' <=> In1(y)
                /\ In2(y)' <=> In2(y)
                /\ Held1(y)' <=> Held1(y)
                /\ Held2(y)' <=> Held2(y)
      /\ OtherTasks(q, x)
  BY TurnMoves
<1>2. TasksOf(q)' = TasksOf(q) /\ PromiseOK(q)
  BY <1>1 DEF TasksOf, Promises
<1>3. task' = task /\ pc'[q] = pc[q] /\ \A f \in Executor \ {e} : pc'[f] = pc[f]
  BY <1>1, Threads DEF Turn
<1>4. /\ Codes(q)' <=> Codes(q)
      /\ Prepares(q)' <=> Prepares(q)
      /\ (\E t \in Starters(q) : pc[t] = "resetStages")'
           <=> (\E t \in Starters(q) : pc[t] = "resetStages")
  BY <1>1, <1>3, StartersStay, Threads
<1>5. task'[callbackExecutor] \in TasksOf(q) => pc'[callbackExecutor] # "refuse"
  <2>1. task[callbackExecutor] \in TasksOf(q) => pc[callbackExecutor] # "refuse"
    BY <1>2 DEF PromiseOK, ResultOK, EndOK
  <2>2. to # "refuse"
    BY DEF Starting
  <2> QED BY <1>1, <1>3, <2>1, <2>2, Threads
<1>6. \A y \in TasksOf(q) : y # x =>
        /\ Held1(y) => pc'[taskExecutor] = pc[taskExecutor]
        /\ Held2(y) => pc'[callbackExecutor] = pc[callbackExecutor]
  BY <1>1, <1>3, Threads DEF Held1, Held2
<1>7. ASSUME NEW y \in TasksOf(q), y # x
      PROVE  /\ tasks'[y] = tasks[y]
             /\ Live(y)' <=> Live(y)
             /\ Ahead(y)' <=> Ahead(y)
             /\ Failing(y)' <=> Failing(y)
  BY <1>1, <1>6, <1>7 DEF OtherTasks, Failing
<1>8. FreshOK(q)'
  <2>1. ASSUME NEW y \in TasksOf(q)
        PROVE  /\ Held1(y) /\ pc'[taskExecutor] # "run" => ~ tasks'[y].failed
               /\ Held2(y) /\ pc'[callbackExecutor] # "run" => ~ tasks'[y].failed
    <3>1. FreshOK(q)
      BY <1>2 DEF PromiseOK, ResultOK
    <3>2. CASE y # x
      BY <1>6, <1>7, <3>1, <3>2 DEF FreshOK
    <3>3. CASE y = x
      <4>1. CASE from = "run"
        BY <3>3, <4>1
      <4>2. CASE from # "run"
        BY <1>1, <3>1, <3>3, <4>2, Threads DEF FreshOK
      <4> QED BY <4>1, <4>2
    <3> QED BY <3>2, <3>3
  <2> QED BY <1>1, <1>2, <2>1 DEF FreshOK
<1>9. \A y : /\ Queued(y)' <=> Queued(y)
             /\ Held1(y)' <=> Held1(y)
             /\ Held2(y)' <=> Held2(y)
  BY <1>1 DEF Queued
<1> QED BY <1>1, <1>2, <1>3, <1>4, <1>5, <1>6, <1>7, <1>8, <1>9

(* One that says nothing new of the result.                                *)
LEMMA TurnPromise ==
  ASSUME IInv, Promises, NEW e \in Executor, NEW q, NEW x, NEW from, NEW to,
         Turn(e, q, x, from, to), {from, to} \cap Starting = {}, to # "run",
         tasks'[x].failed => tasks[x].failed /\ from # "run",
         client' = client, request'[q].async = request[q].async,
         request'[q].current = request[q].current, request'[q].code = request[q].code,
         request'[q].exception = request[q].exception,
         e = taskExecutor =>
           /\ from \in {"run", "lambda", "inferring"} <=> to \in {"run", "lambda", "inferring"}
           /\ \/ from \in {"failure", "failed"} <=> to \in {"failure", "failed"}
              \/ from = "failed" /\ q \notin Callback
           /\ q \notin Callback => (from \in {"failed", "threw"} <=> to \in {"failed", "threw"}),
         e = callbackExecutor =>
           /\ from \in AfterCall <=> to \in AfterCall
           /\ from \in AfterCall /\ x = request[q].async /\ NoneLive(q) /\ ToldOK(q)
                => ToldOK(q)'
  PROVE  Promises'
<1>1. /\ q \in Request /\ x \in TasksOf(q) /\ x \in Task
      /\ Queued(x) /\ TaskOK(x) /\ (x[1] \in Callback <=> q \in Callback)
      /\ e = taskExecutor => Held1(x) /\ In1(x)
      /\ e = callbackExecutor => Held2(x) /\ In2(x) /\ q \in Callback
      /\ pc[e] = from /\ pc'[e] = to /\ \A u \in Thread : u # e => pc'[u] = pc[u]
      /\ \A y : /\ In1(y)' <=> In1(y)
                /\ In2(y)' <=> In2(y)
                /\ Held1(y)' <=> Held1(y)
                /\ Held2(y)' <=> Held2(y)
      /\ \A u \in Request \ {q} : Elsewhere(u)
  BY TurnMoves
<1>2. \A y \in TasksOf(q) : y[1] = q
  BY DEF TasksOf
<1>3. task' = task /\ pc'[q] = pc[q] /\ (\A f \in Executor \ {e} : pc'[f] = pc[f])
      /\ (Codes(q)' <=> Codes(q)) /\ (Prepares(q)' <=> Prepares(q))
      /\ ((\E t \in Starters(q) : pc[t] = "resetStages")'
              <=> (\E t \in Starters(q) : pc[t] = "resetStages"))
      /\ (task'[callbackExecutor] \in TasksOf(q) => pc'[callbackExecutor] # "refuse")
      /\ FreshOK(q)'
  BY TurnAround
<1>5. /\ Queued(x)' <=> Queued(x)
      /\ Past(x)' <=> Past(x)
      /\ Ahead(x)' <=> Ahead(x)
      /\ Live(x)' <=> Live(x)
  <2>1. CASE e = taskExecutor
    BY <1>1, <1>2, <1>3, <2>1, Threads DEF Queued, Past, Ahead, Held1, Live
  <2>2. CASE e = callbackExecutor
    BY <1>1, <1>2, <1>3, <2>2, Threads DEF Queued, Past, Ahead, Held2, Live
  <2> QED BY <2>1, <2>2, Threads
<1>6. Live(x) => (Failing(x)' <=> Failing(x))
  BY <1>1, <1>2, <1>3, Threads DEF Failing, Live, Past, Held1
<1>7. \A y \in TasksOf(q) : /\ Live(y)' <=> Live(y)
                            /\ Ahead(y)' <=> Ahead(y)
                            /\ Live(y) => (Failing(y)' <=> Failing(y))
  <2>1. \A y \in TasksOf(q) : y # x => /\ Live(y)' <=> Live(y)
                                       /\ Ahead(y)' <=> Ahead(y)
                                       /\ Failing(y)' <=> Failing(y)
    BY TurnAround
  <2> QED BY <1>5, <1>6, <2>1
<1>8. ASSUME NEW y \in TasksOf(q), ~ Live(y)
      PROVE  /\ Queued(y)' <=> Queued(y)
             /\ Held1(y)' => Held1(y)
             /\ Held2(y)' => Held2(y)
             /\ Held2(y) /\ y = request[q].async /\ ToldOK(q) => ToldOK(q)'
             /\ ~ Queued(y) => tasks'[y].failed = tasks[y].failed
                               /\ tasks'[y].status = tasks[y].status
  <2>1. ~ Queued(y) => tasks'[y] = tasks[y]
    BY <1>1, TurnAround
  <2>2. ASSUME Held2(y), y = request[q].async, ToldOK(q)
        PROVE  ToldOK(q)'
    <3>1. CASE e = taskExecutor
      BY <1>3, <2>2, <3>1, Threads DEF ToldOK, Result
    <3>2. CASE e = callbackExecutor
      <4>1. y = x
        BY <1>1, <2>2, <3>2 DEF Held2
      <4>2. from \in AfterCall
        <5>1. q \in Callback
          BY <1>1, <3>2
        <5> QED BY <1>1, <1>2, <1>8, <3>2, <4>1, <5>1 DEF Live, Past
      <4>3. NoneLive(q)
        <5>1. \A z \in TasksOf(q) : Live(z) => z = request[q].async
          BY <1>1 DEF IInv, RequestOK, TasksOK, InferenceOK
        <5> QED BY <1>8, <2>2, <5>1 DEF NoneLive
      <4> QED BY <2>2, <3>2, <4>1, <4>2, <4>3
    <3> QED BY <3>1, <3>2, Threads
  <2> QED BY <1>1, <2>1, <2>2 DEF Queued
<1>9. ResultOK(q)'
  <2>1. Alike(q)
    BY <1>3, <1>7, <1>8 DEF Alike
  <2> QED BY <1>1, <2>1, AlikeOK DEF Promises, PromiseOK
<1>10. WaitedOK(q)' /\ OwnedOK(q)'
  <2>1. \A y \in TasksOf(q) : Queued(y)' => Queued(y)
    BY <1>1 DEF Queued
  <2>2. WaitedOK(q) /\ OwnedOK(q)
    BY <1>1 DEF Promises, PromiseOK
  <2> QED BY <1>1, <1>3, <2>1, <2>2, OwnerAlike
<1> QED BY <1>1, <1>9, <1>10, OthersPromise DEF PromiseOK

LEMMA QuietTurns ==
  ASSUME IInv, Promises, NEW e \in Executor,
         \/ Run(e) \/ Lambda(e) \/ Inferred(e) \/ SkipCallback(e) \/ Unbusy(e)
  PROVE  Promises'
<1>1. PICK q, x : q = Of(e) /\ x = task[e]
  OBVIOUS
<1>2. request \in [Request -> RequestFields]
  BY DEF IInv, Types
<1>3. CASE Run(e)
  <2>1. Turn(e, q, x, "run", "lambda") /\ ~ tasks'[x].failed
    BY <1>1, <1>3, RunOK
  <2>2. UNCHANGED <<request, client>>
    BY <1>3 DEF Run
  <2>3. {"run", "lambda"} \cap (Starting \cup AfterCall) = {}
    BY DEF Starting, AfterCall
  <2> QED BY <2>1, <2>2, <2>3, TurnPromise
<1>4. CASE Lambda(e)
  <2>1. PICK to : /\ Turn(e, q, x, "lambda", to)
                  /\ \/ e = taskExecutor /\ to = "inferring"
                     \/ e = callbackExecutor /\ to = "unbusy"
    BY <1>1, <1>4, LambdaOK
  <2>2. UNCHANGED <<request, tasks, client>>
    BY <1>4 DEF Lambda
  <2>3. {"lambda", "inferring", "unbusy"} \cap (Starting \cup AfterCall) = {}
    BY DEF Starting, AfterCall
  <2>4. {"lambda", to} \cap (Starting \cup AfterCall) = {} /\ to # "run"
        /\ (e = taskExecutor => to = "inferring")
    BY <2>1, <2>3, Threads
  <2> QED BY <2>1, <2>2, <2>4, TurnPromise
<1>5. CASE Inferred(e) \/ SkipCallback(e)
  <2>1. e = taskExecutor /\ tasks'[x].failed = tasks[x].failed
        /\ \E from \in {"inferred", "skipCallback"},
              to \in {"startCallback", "skipCallback", "done"} : Turn(e, q, x, from, to)
    BY <1>1, <1>5, StagesOK
  <2>2. PICK from \in {"inferred", "skipCallback"},
             to \in {"startCallback", "skipCallback", "done"} : Turn(e, q, x, from, to)
    BY <2>1
  <2>3. UNCHANGED <<request, client>>
    BY <1>5 DEF Inferred, SkipCallback
  <2>4. {from, to} \cap Starting = {}
    BY DEF Starting
  <2> QED BY <2>1, <2>2, <2>3, <2>4, Threads, TurnPromise
<1>6. CASE Unbusy(e)
  <2>1. Turn(e, q, x, "unbusy", "runCallback") /\ e = callbackExecutor
    BY <1>1, <1>6, UnbusyOK
  <2>2. request' = [request EXCEPT ![q].busy = FALSE] /\ UNCHANGED <<tasks, client>>
    BY <1>1, <1>6 DEF Unbusy
  <2>3. q \in Request
    BY <2>1, TurnMoves
  <2>4. /\ request'[q].async = request[q].async /\ request'[q].code = request[q].code
        /\ request'[q].current = request[q].current
        /\ request'[q].exception = request[q].exception
    BY <1>2, <2>2, <2>3 DEF RequestFields
  <2>5. {"unbusy", "runCallback"} \cap (Starting \cup AfterCall) = {}
    BY DEF Starting, AfterCall
  <2> QED BY <2>1, <2>2, <2>4, <2>5, Threads, TurnPromise
<1> QED BY <1>3, <1>4, <1>5, <1>6

LEMMA CalledPromise ==
  ASSUME IInv, Promises, NEW e \in Executor, Called(e)
  PROVE  Promises'
<1>1. PICK q, x : q = Of(e) /\ x = task[e]
  OBVIOUS
<1>2. PICK to \in {"destroy", "failure", "done"} :
        /\ Turn(e, q, x, "called", to) /\ e = callbackExecutor
        /\ to = "failure" => request[q].exception
        /\ to = "done" => ~ request[q].exception
  BY <1>1, CalledOK
<1>3. UNCHANGED <<request, tasks, client>>
  BY DEF Called
<1>4. /\ {"called", "destroy", "failure", "done"} \subseteq AfterCall
      /\ {"called", "destroy", "failure", "done"} \cap Starting = {}
  BY DEF Starting, AfterCall
<1>5. q \in Request /\ x \in TasksOf(q) /\ Queued(x) /\ pc[e] = "called" /\ pc'[e] = to
  BY <1>2, TurnMoves
<1>6. ASSUME NoneLive(q), ToldOK(q)
      PROVE  ToldOK(q)'
  <2>1. client[q].started >= 1 /\ \A y \in TasksOf(q) : ~ Ahead(y)
    <3>1. \A y \in TasksOf(q) : Ahead(y) => Live(y)
      BY <1>5, QueuedStatus DEF IInv, RequestOK
    <3> QED BY <1>5, <1>6, <3>1 DEF NoneLive, IInv, RequestOK, TasksOK, InferenceOK
  <2>2. Result(q) \in {"OK", "GENERAL_ERROR"}
    BY <1>5, <2>1, HasResult DEF Promises, PromiseOK, ResultOK
  <2>3. request[q].exception <=> Result(q) = "GENERAL_ERROR"
    BY <1>2, <1>5, <1>6 DEF ToldOK
  <2> QED BY <1>2, <1>3, <1>5, <2>2, <2>3 DEF ToldOK, Result
<1> QED BY <1>2, <1>3, <1>4, <1>6, Threads, TurnPromise

-----------------------------------------------------------------------------
(* An executor takes a task, passes it on or drops it.                     *)

LEMMA HandedMoves ==
  ASSUME IInv, Promises, NEW e \in Executor, NEW q, NEW x, NEW from, NEW to,
         Handed(e, q, x, from, to), to = "run" \/ (task[e] = x /\ from # "run"),
         (tasks'[x].failed => tasks[x].failed) \/ (~ Held1(x)' /\ ~ Held2(x)')
  PROVE  /\ q \in Request /\ x \in TasksOf(q) /\ Queued(x) /\ PromiseOK(q)
         /\ TasksOf(q)' = TasksOf(q) /\ request' = request /\ client' = client
         /\ pc[e] = from /\ pc'[e] = to /\ \A t \in Thread : t # e => pc'[t] = pc[t]
         /\ pc'[q] = pc[q] /\ task'[q] = task[q]
         /\ Codes(q)' <=> Codes(q)
         /\ Prepares(q)' <=> Prepares(q)
         /\ (\E t \in Starters(q) : pc[t] = "resetStages")'
              <=> (\E t \in Starters(q) : pc[t] = "resetStages")
         /\ task'[callbackExecutor] \in TasksOf(q) => pc'[callbackExecutor] # "refuse"
         /\ e # callbackExecutor => /\ Held2(x)' <=> Held2(x)
                                    /\ pc'[callbackExecutor] = pc[callbackExecutor]
         /\ FreshOK(q)'
         /\ \A y \in TasksOf(q) : y # x =>
              /\ tasks'[y] = tasks[y]
              /\ Queued(y)' <=> Queued(y)
              /\ Live(y)' <=> Live(y)
              /\ Ahead(y)' <=> Ahead(y)
              /\ Held1(y)' <=> Held1(y)
              /\ Held2(y)' <=> Held2(y)
              /\ Failing(y)' <=> Failing(y)
              /\ Held2(y) => pc'[callbackExecutor] = pc[callbackExecutor]
<1>1. q \in Request /\ x \in TasksOf(q) /\ PromiseOK(q) /\ Queued(x) /\ x # NoTask
  BY TasksOfRequest DEF Promises, Handed
<1>2. TasksOf(q)' = TasksOf(q) /\ request' = request /\ client' = client
  BY DEF TasksOf, Handed, Passes
<1>3. pc[e] = from /\ pc'[e] = to /\ \A t \in Thread : t # e => pc'[t] = pc[t]
  BY Threads DEF Handed, Passes, Go, IInv, Types
<1>4. pc'[q] = pc[q] /\ task'[q] = task[q]
  BY <1>1, <1>3, Threads DEF Handed, Passes
<1>5. \/ pc'[callbackExecutor] = pc[callbackExecutor]
         /\ task'[callbackExecutor] = task[callbackExecutor]
      \/ e = callbackExecutor /\ {pc[callbackExecutor], pc'[callbackExecutor]} \cap Starting = {}
  BY <1>3, Threads DEF Handed, Passes
<1>6. /\ Codes(q)' <=> Codes(q)
      /\ Prepares(q)' <=> Prepares(q)
      /\ (\E t \in Starters(q) : pc[t] = "resetStages")'
           <=> (\E t \in Starters(q) : pc[t] = "resetStages")
  BY <1>1, <1>4, <1>5, StartersStay
<1>7. task'[callbackExecutor] \in TasksOf(q) => pc'[callbackExecutor] # "refuse"
  BY <1>1, <1>5 DEF PromiseOK, ResultOK, EndOK, Starting
<1>8. \A f \in Executor \ {e} : task'[f] = task[f] /\ pc'[f] = pc[f]
  BY <1>3, Threads DEF Handed, Passes
<1>9. ASSUME NEW y \in TasksOf(q), y # x
      PROVE  /\ tasks'[y] = tasks[y]
             /\ Queued(y)' <=> Queued(y)
             /\ Live(y)' <=> Live(y)
             /\ Ahead(y)' <=> Ahead(y)
             /\ Held1(y)' <=> Held1(y)
             /\ Held2(y)' <=> Held2(y)
             /\ Failing(y)' <=> Failing(y)
             /\ Held1(y) => pc'[taskExecutor] = pc[taskExecutor]
             /\ Held2(y) => pc'[callbackExecutor] = pc[callbackExecutor]
  <2>1. y \in Task /\ y # NoTask
    BY <1>1, <1>9, TasksOfRequest
  <2>2. /\ Held1(y)' <=> Held1(y)
        /\ Held2(y)' <=> Held2(y)
    BY <1>9, <2>1 DEF Handed, Passes
  <2>3. task[e] # y
    BY <1>9, <2>1 DEF Handed, Passes
  <2>4. /\ Held1(y) => pc'[taskExecutor] = pc[taskExecutor]
        /\ Held2(y) => pc'[callbackExecutor] = pc[callbackExecutor]
    BY <1>8, <2>3, Threads DEF Held1, Held2
  <2>5. /\ tasks'[y] = tasks[y]
        /\ Queued(y)' <=> Queued(y)
        /\ Live(y)' <=> Live(y)
        /\ Ahead(y)' <=> Ahead(y)
    BY <1>9 DEF Handed, OtherTasks
  <2> QED BY <2>2, <2>4, <2>5 DEF Failing
<1>10. FreshOK(q)'
  <2>1. ASSUME NEW y \in TasksOf(q)
        PROVE  /\ Held1(y)' /\ pc'[taskExecutor] # "run" => ~ tasks'[y].failed
               /\ Held2(y)' /\ pc'[callbackExecutor] # "run" => ~ tasks'[y].failed
    <3>1. FreshOK(q)
      BY <1>1 DEF PromiseOK, ResultOK
    <3>2. CASE y # x
      BY <1>9, <3>1, <3>2 DEF FreshOK
    <3>3. CASE y = x
      <4>1. Held1(x)' /\ pc'[taskExecutor] # "run" => Held1(x) /\ pc[taskExecutor] # "run"
        BY <1>3, <1>8, Threads DEF Held1
      <4>2. Held2(x)' /\ pc'[callbackExecutor] # "run"
              => Held2(x) /\ pc[callbackExecutor] # "run"
        BY <1>3, <1>8, Threads DEF Held2
      <4> QED BY <1>1, <3>1, <3>3, <4>1, <4>2 DEF FreshOK
    <3> QED BY <3>2, <3>3
  <2> QED BY <1>2, <2>1 DEF FreshOK
<1>11. e # callbackExecutor => /\ Held2(x)' <=> Held2(x)
                               /\ pc'[callbackExecutor] = pc[callbackExecutor]
  BY <1>8, Threads DEF Held2
<1> QED BY <1>1, <1>2, <1>3, <1>4, <1>6, <1>7, <1>9, <1>10, <1>11

(* Its inference goes on.                                                  *)
LEMMA HandedPromise ==
  ASSUME IInv, Promises, NEW e \in Executor, NEW q, NEW x, NEW from, NEW to,
         Handed(e, q, x, from, to), to = "run" \/ (task[e] = x /\ from # "run"),
         tasks'[x].failed => tasks[x].failed,
         Live(x), Live(x)', Ahead(x)' <=> Ahead(x),
         {from, to} \cap {"failure", "failed"} = {}
  PROVE  Promises'
<1>1. q \in Request /\ x \in TasksOf(q) /\ PromiseOK(q) /\ Queued(x)
  BY HandedMoves
<1>2. TasksOf(q)' = TasksOf(q) /\ request' = request /\ client' = client
      /\ pc[e] = from /\ pc'[e] = to /\ \A t \in Thread : t # e => pc'[t] = pc[t]
  BY HandedMoves
<1>3. Failing(x)' <=> Failing(x)
  <2>1. CASE e = taskExecutor
    BY <1>2, <2>1 DEF Failing
  <2>2. CASE e = callbackExecutor
    BY <1>2, <2>2, Threads DEF Failing, Held1, Handed, Passes
  <2> QED BY <2>1, <2>2, Threads
<1>4. \A y \in TasksOf(q) :
        ~ Live(y) /\ Held2(y) /\ y = request[q].async /\ ToldOK(q) => ToldOK(q)'
  <2>1. pc'[callbackExecutor] = pc[callbackExecutor] /\ ToldOK(q) => ToldOK(q)'
    BY <1>2 DEF ToldOK, Result
  <2>2. \A y \in TasksOf(q) : ~ Live(y) => y # x
    OBVIOUS
  <2> QED BY <2>1, <2>2, HandedMoves
<1>5. Alike(q)
  <2>1. \A y \in TasksOf(q) : /\ Ahead(y)' <=> Ahead(y)
                              /\ Live(y)' <=> Live(y)
                              /\ Failing(y)' <=> Failing(y)
    BY <1>3, HandedMoves
  <2>2. \A y \in TasksOf(q) : ~ Live(y) =>
          /\ Queued(y)' <=> Queued(y)
          /\ Held1(y)' => Held1(y)
          /\ Held2(y)' => Held2(y)
          /\ tasks'[y] = tasks[y]
    BY HandedMoves
  <2>3. /\ Codes(q)' => Codes(q)
        /\ Prepares(q) => Prepares(q)'
        /\ task'[callbackExecutor] \in TasksOf(q) => pc'[callbackExecutor] # "refuse"
        /\ FreshOK(q)'
    BY HandedMoves
  <2> QED BY <1>2, <1>4, <2>1, <2>2, <2>3 DEF Alike
<1>6. ResultOK(q)'
  BY <1>1, <1>5, AlikeOK DEF PromiseOK
<1>7. WaitedOK(q)' /\ OwnedOK(q)'
  <2>1. \A y \in TasksOf(q) : Queued(y)' => Queued(y)
    BY <1>1, HandedMoves
  <2>2. pc'[q] = pc[q] /\ task'[q] = task[q]
        /\ ((\E t \in Starters(q) : pc[t] = "resetStages")'
              <=> (\E t \in Starters(q) : pc[t] = "resetStages"))
    BY HandedMoves
  <2>3. WaitedOK(q) /\ OwnedOK(q)
    BY <1>1 DEF PromiseOK
  <2> QED BY <1>1, <1>2, <2>1, <2>2, <2>3, OwnerAlike
<1> QED BY <1>1, <1>6, <1>7, OthersPromise DEF PromiseOK, Handed

(* It is over: the status of the task tells its result.                    *)
LEMMA DroppedPromise ==
  ASSUME IInv, Promises, NEW e \in Executor, NEW q, NEW x, NEW from,
         Handed(e, q, x, from, "fetch"), task[e] = x, from \in {"done", "threw"},
         ~ Ahead(x), ~ Ahead(x)', Live(x) => from = "done" /\ e = taskExecutor,
         ~ (e = taskExecutor /\ q \in Callback),
         ~ Queued(x)', ~ Held1(x)', ~ Held2(x)',
         from = "done" /\ ~ tasks[x].failed => Answer(x)' = "OK",
         from = "threw" => Answer(x)' = "GENERAL_ERROR"
  PROVE  Promises'
<1>1. q \in Request /\ x \in TasksOf(q) /\ PromiseOK(q) /\ Queued(x) /\ TaskOK(x) /\ x[1] = q
  <2>1. q \in Request /\ x \in TasksOf(q) /\ PromiseOK(q) /\ Queued(x)
    BY HandedMoves
  <2> QED BY <2>1 DEF IInv, RequestOK, TasksOf
<1>2. TasksOf(q)' = TasksOf(q) /\ request' = request /\ client' = client
      /\ pc[e] = from /\ (Codes(q)' => Codes(q)) /\ (Prepares(q)' <=> Prepares(q))
      /\ (task'[callbackExecutor] \in TasksOf(q) => pc'[callbackExecutor] # "refuse")
      /\ FreshOK(q)'
  BY HandedMoves
<1>3. ~ Live(x)'
  BY DEF Live
<1>4. \A y \in TasksOf(q) : /\ Ahead(y)' <=> Ahead(y)
                            /\ y # x => (Live(y)' <=> Live(y)) /\ (Failing(y)' <=> Failing(y))
  BY HandedMoves
<1>5. Result(q)' = Result(q)
  BY <1>2 DEF Result
<1>6. CountOK(q)'
  <2>1. (\E y \in TasksOf(q) : Ahead(y))' <=> \E y \in TasksOf(q) : Ahead(y)
    BY <1>2, <1>4
  <2>2. q \in Callback => (NoneLive(q)' <=> NoneLive(q))
    BY <1>2, <1>3, <1>4 DEF NoneLive
  <2> QED BY <1>1, <1>2, <2>1, <2>2 DEF PromiseOK, ResultOK, CountOK
<1>7. CodeOK(q)'
  <2>1. CodeOK(q)
    BY <1>1 DEF PromiseOK, ResultOK
  <2> QED BY <1>2, <1>3, <1>4, <1>5, <2>1 DEF CodeOK
<1>8. ASSUME client[q].started >= 1, ~ Prepares(q), x = request[q].async
      PROVE  Answer(x)' = Result(q)
  <2>1. from = "done" => ~ tasks[x].failed
    <3>1. FreshOK(q)
      BY <1>1 DEF PromiseOK, ResultOK
    <3>2. \/ Held1(x) /\ pc[taskExecutor] = from
          \/ Held2(x) /\ pc[callbackExecutor] = from
      BY <1>2, Threads DEF Held1, Held2
    <3>3. from # "run"
      OBVIOUS
    <3> QED BY <1>1, <3>1, <3>2, <3>3 DEF FreshOK
  <2>2. CASE Live(x)
    <3>1. from = "done" /\ e = taskExecutor /\ q \notin Callback
      BY <2>2
    <3>2. ~ Failing(x)
      BY <1>2, <3>1 DEF Failing
    <3>3. Result(q) = "OK"
      BY <1>1, <2>2, <3>1, <3>2 DEF PromiseOK, ResultOK, CodeOK
    <3> QED BY <2>1, <3>1, <3>3
  <2>3. CASE ~ Live(x)
    <3>1. /\ Held1(x) => Result(q) = "GENERAL_ERROR"
          /\ Held2(x) => ToldOK(q)
      BY <1>1, <1>8, <2>3 DEF PromiseOK, ResultOK, EndOK
    <3>2. CASE e = taskExecutor
      <4>1. Past(x) /\ q \notin Callback
        BY <1>1, <2>3, <3>2 DEF Live
      <4>2. from = "threw" /\ Held1(x)
        BY <1>1, <1>2, <3>2, <4>1 DEF Past, TaskOK, SecondTurn, Held1
      <4> QED BY <3>1, <4>2
    <3>3. CASE e = callbackExecutor
      <4>1. Held2(x)
        BY <3>3 DEF Held2
      <4>2. ToldOK(q)
        BY <3>1, <4>1
      <4>3. /\ from = "done" => Result(q) = "OK"
            /\ from = "threw" => Result(q) = "GENERAL_ERROR"
        BY <1>2, <3>3, <4>2 DEF ToldOK
      <4> QED BY <2>1, <4>3
    <3> QED BY <3>2, <3>3, Threads
  <2> QED BY <2>2, <2>3
<1>9. EndOK(q)'
  <2>1. ASSUME (client[q].started >= 1 /\ ~ Prepares(q))',
               NEW y \in TasksOf(q), y = request'[q].async, ~ Live(y)'
        PROVE  /\ ~ Queued(y)' => Answer(y)' = Result(q)'
               /\ Held1(y)' => Result(q)' = "GENERAL_ERROR"
               /\ Held2(y)' => ToldOK(q)'
    <3>1. client[q].started >= 1 /\ ~ Prepares(q) /\ y = request[q].async
      BY <1>2, <2>1
    <3>2. CASE y = x
      BY <1>5, <1>8, <3>1, <3>2
    <3>3. CASE y # x
      <4>1. /\ tasks'[y] = tasks[y]
            /\ Queued(y)' <=> Queued(y)
            /\ Live(y)' <=> Live(y)
            /\ Held1(y)' <=> Held1(y)
            /\ Held2(y)' <=> Held2(y)
            /\ Held2(y) => pc'[callbackExecutor] = pc[callbackExecutor]
        BY <3>3, HandedMoves
      <4>2. /\ ~ Queued(y) => Answer(y) = Result(q)
            /\ Held1(y) => Result(q) = "GENERAL_ERROR"
            /\ Held2(y) => ToldOK(q)
        BY <1>1, <2>1, <3>1, <4>1 DEF PromiseOK, ResultOK, EndOK
      <4>3. Answer(y)' = Answer(y)
        BY <4>1 DEF Answer
      <4>4. Held2(y) /\ ToldOK(q) => ToldOK(q)'
        BY <1>2, <1>5, <4>1 DEF ToldOK
      <4> QED BY <1>5, <4>1, <4>2, <4>3, <4>4
    <3> QED BY <3>2, <3>3
  <2> QED BY <1>2, <2>1 DEF EndOK
<1>10. WaitedOK(q)' /\ OwnedOK(q)'
  <2>1. \A y \in TasksOf(q) : Queued(y)' => Queued(y)
    BY <1>1, HandedMoves
  <2>2. pc'[q] = pc[q] /\ task'[q] = task[q]
        /\ ((\E t \in Starters(q) : pc[t] = "resetStages")'
              <=> (\E t \in Starters(q) : pc[t] = "resetStages"))
    BY HandedMoves
  <2>3. WaitedOK(q) /\ OwnedOK(q)
    BY <1>1 DEF PromiseOK
  <2> QED BY <1>1, <1>2, <2>1, <2>2, <2>3, OwnerAlike
<1>11. ResultOK(q)'
  BY <1>2, <1>6, <1>7, <1>9 DEF ResultOK
<1> QED BY <1>1, <1>10, <1>11, OthersPromise DEF PromiseOK, Handed

LEMMA HandsPromise ==
  ASSUME IInv, Promises, NEW e \in Executor,
         Fetch(e) \/ StartCallback(e) \/ Done(e) \/ Threw(e)
  PROVE  Promises'
<1>1. CASE Fetch(e)
  <2>1. PICK q, x : /\ Handed(e, q, x, "fetch", "run") /\ tasks' = tasks
                    /\ Live(x) /\ Live(x)' /\ (Ahead(x)' <=> Ahead(x))
    BY <1>1, FetchOK
  <2> QED BY <2>1, HandedPromise
<1>2. CASE StartCallback(e)
  <2>1. PICK q, x : /\ Handed(e, q, x, "startCallback", "done") /\ x = task[e]
                    /\ Live(x) /\ Live(x)' /\ ~ Ahead(x) /\ ~ Ahead(x)'
                    /\ tasks'[x].failed = tasks[x].failed
    BY <1>2, StartCallbackOK
  <2> QED BY <2>1, HandedPromise
<1>3. CASE Done(e) \/ Threw(e)
  <2>1. PICK q, x, from :
          /\ Handed(e, q, x, from, "fetch") /\ x = task[e] /\ from \in {"done", "threw"}
          /\ ~ Ahead(x) /\ ~ Ahead(x)' /\ (Live(x) => from = "done" /\ e = taskExecutor)
          /\ IF e = taskExecutor /\ q \in Callback
             THEN /\ Live(x) /\ Live(x)' /\ tasks'[x].failed = tasks[x].failed
             ELSE /\ ~ Queued(x)' /\ ~ Held1(x)' /\ ~ Held2(x)'
                  /\ from = "done" /\ ~ tasks[x].failed => Answer(x)' = "OK"
                  /\ from = "threw" => Answer(x)' = "GENERAL_ERROR"
    BY <1>3, TurnEnds
  <2>2. CASE e = taskExecutor /\ q \in Callback
    BY <2>1, <2>2, HandedPromise
  <2>3. CASE ~ (e = taskExecutor /\ q \in Callback)
    BY <2>1, <2>3, DroppedPromise
  <2> QED BY <2>2, <2>3
<1> QED BY <1>1, <1>2, <1>3

(* A failed inference ends its request's part, or goes to the callback.    *)
LEMMA FailurePromise ==
  ASSUME IInv, Promises, NEW e \in Executor, Failure(e)
  PROVE  Promises'
<1>1. PICK q, x : q = Of(e) /\ x = task[e]
  OBVIOUS
<1>2. Turn(e, q, x, "failure", "failed")
  BY <1>1, FailureOK
<1>3. request' = [request EXCEPT ![q].busy = FALSE] /\ UNCHANGED <<tasks, client>>
  BY <1>1 DEF Failure
<1>4. /\ q \in Request /\ x \in TasksOf(q) /\ Queued(x) /\ TaskOK(x) /\ x[1] = q
      /\ e = taskExecutor => Held1(x) /\ FirstTurn(x)
      /\ e = callbackExecutor => q \in Callback
      /\ pc[e] = "failure" /\ pc'[e] = "failed"
  BY <1>2, TurnMoves DEF TasksOf
<1>5. /\ request'[q].async = request[q].async /\ request'[q].code = request[q].code
      /\ request'[q].current = request[q].current
      /\ request'[q].exception = request[q].exception
  BY <1>3, <1>4 DEF IInv, Types, RequestFields
<1>6. {"failure", "failed"} \cap Starting = {} /\ {"failure", "failed"} \subseteq AfterCall
  BY DEF Starting, AfterCall
<1>7. CASE e = callbackExecutor \/ q \in Callback
  <2>1. e = callbackExecutor /\ ToldOK(q) => ToldOK(q)'
    BY <1>3, <1>4 DEF ToldOK, Result
  <2> QED BY <1>2, <1>3, <1>4, <1>5, <1>6, <1>7, <2>1, Threads, TurnPromise
<1>8. CASE e = taskExecutor /\ q \notin Callback
  <2>1. Live(x) /\ ~ Live(x)' /\ ~ Ahead(x) /\ ~ Ahead(x)' /\ Failing(x) /\ ~ Held2(x)
    <3>1. ~ Held2(x)
      BY <1>4, <1>8 DEF TaskOK, SecondTurn
    <3>2. Held1(x)'
      BY <1>2, <1>4, <1>8, TurnMoves
    <3> QED BY <1>4, <1>8, <3>1, <3>2 DEF Live, Past, Ahead, Failing
  <2>2. request[q].async = x /\ \A y \in TasksOf(q) : y # x => ~ Live(y) /\ ~ Ahead(y)
    BY <1>4, <2>1, LiveHolds
  <2>3. /\ PromiseOK(q) /\ TasksOf(q)' = TasksOf(q) /\ task' = task /\ pc'[q] = pc[q]
        /\ Codes(q)' <=> Codes(q)
        /\ (\E t \in Starters(q) : pc[t] = "resetStages")'
             <=> (\E t \in Starters(q) : pc[t] = "resetStages")
        /\ task'[callbackExecutor] \in TasksOf(q) => pc'[callbackExecutor] # "refuse"
        /\ FreshOK(q)'
        /\ \A y \in TasksOf(q) : y # x => (Live(y)' <=> Live(y)) /\ (Ahead(y)' <=> Ahead(y))
        /\ \A y : /\ Queued(y)' <=> Queued(y)
                  /\ Held2(y)' <=> Held2(y)
    BY <1>2, <1>3, <1>6, TurnAround
  <2>4. Result(q) = "GENERAL_ERROR" /\ Result(q)' = Result(q)
    BY <1>3, <1>4, <2>1, <2>3 DEF PromiseOK, ResultOK, CodeOK, Result
  <2>5. \A y \in TasksOf(q) : ~ Ahead(y) /\ ~ Ahead(y)' /\ ~ Live(y)'
    BY <2>1, <2>2, <2>3
  <2>6. CountOK(q)'
    BY <1>3, <1>5, <1>8, <2>3, <2>5 DEF PromiseOK, ResultOK, CountOK
  <2>7. CodeOK(q)'
    BY <1>5, <2>3, <2>5 DEF PromiseOK, ResultOK, CodeOK
  <2>8. EndOK(q)'
    BY <1>4, <1>5, <2>1, <2>2, <2>3, <2>4 DEF EndOK
  <2>9. WaitedOK(q)' /\ OwnedOK(q)'
    <3>1. WaitedOK(q) /\ OwnedOK(q)
      BY <2>3 DEF PromiseOK
    <3> QED BY <1>3, <1>4, <1>5, <2>3, <3>1, OwnerAlike
  <2>10. \A u \in Request \ {q} : Elsewhere(u)
    BY <1>2, TurnMoves
  <2> QED BY <1>4, <2>3, <2>6, <2>7, <2>8, <2>9, <2>10, OthersPromise DEF PromiseOK, ResultOK
<1> QED BY <1>7, <1>8, Threads

LEMMA FailedPromise ==
  ASSUME IInv, Promises, NEW e \in Executor, Failed(e)
  PROVE  Promises'
<1>1. PICK q, x : q = Of(e) /\ x = task[e]
  OBVIOUS
<1>2. /\ Turn(e, q, x, "failed",
              IF e = taskExecutor /\ q \in Callback THEN "startCallback" ELSE "threw")
      /\ tasks'[x].failed = tasks[x].failed /\ client' = client
      /\ ~ (e = taskExecutor /\ q \in Callback) => UNCHANGED request
      /\ e = taskExecutor /\ q \in Callback =>
           request' = [request EXCEPT ![q].code = FailureCode, ![q].exception = TRUE]
  BY <1>1, FailedOK DEF Failed
<1>3. {"failed", "threw", "startCallback"} \cap Starting = {} /\ {"failed", "threw"} \subseteq AfterCall
  BY DEF Starting, AfterCall
<1>4. CASE e = callbackExecutor
  <2>1. Turn(e, q, x, "failed", "threw") /\ UNCHANGED request
    BY <1>2, <1>4, Threads
  <2>2. pc'[e] = "threw" /\ pc[e] = "failed"
    BY <2>1, TurnMoves
  <2>3. ToldOK(q) => ToldOK(q)'
    BY <1>2, <1>4, <2>2 DEF ToldOK, Result
  <2> QED BY <1>2, <1>3, <1>4, <2>1, <2>3, Threads, TurnPromise
<1>5. CASE e = taskExecutor /\ q \notin Callback
  <2>1. Turn(e, q, x, "failed", "threw") /\ UNCHANGED request
    BY <1>2, <1>5
  <2> QED BY <1>2, <1>3, <1>5, <2>1, Threads, TurnPromise
<1>6. CASE e = taskExecutor /\ q \in Callback
  <2>0. Turn(e, q, x, "failed", "startCallback")
    BY <1>2, <1>6
  <2>1. /\ q \in Request /\ x \in TasksOf(q) /\ Queued(x) /\ TaskOK(x) /\ x[1] = q
        /\ Held1(x) /\ FirstTurn(x) /\ Held1(x)' /\ Queued(x)'
        /\ pc[e] = "failed" /\ pc'[e] = "startCallback"
        /\ (Held2(x)' <=> Held2(x)) /\ \A u \in Request \ {q} : Elsewhere(u)
    BY <1>6, <2>0, TurnMoves DEF TasksOf, Queued
  <2>2. Live(x) /\ Live(x)' /\ ~ Ahead(x) /\ ~ Ahead(x)' /\ Failing(x) /\ ~ Failing(x)'
    <3>1. ~ Held2(x)
      BY <1>6, <2>1 DEF TaskOK, SecondTurn, FirstTurn
    <3> QED BY <1>6, <2>1, <3>1 DEF Live, Past, Ahead, Failing
  <2>3. /\ request[q].async = x /\ \A y \in TasksOf(q) : y # x => ~ Live(y) /\ ~ Ahead(y)
        /\ \A t \in Starters(q) : pc[t] \notin Starting
    BY <2>1, <2>2, LiveHolds
  <2>4. /\ PromiseOK(q) /\ TasksOf(q)' = TasksOf(q) /\ task' = task /\ pc'[q] = pc[q]
        /\ Codes(q)' <=> Codes(q)
        /\ (\E t \in Starters(q) : pc[t] = "resetStages")'
             <=> (\E t \in Starters(q) : pc[t] = "resetStages")
        /\ task'[callbackExecutor] \in TasksOf(q) => pc'[callbackExecutor] # "refuse"
        /\ FreshOK(q)'
        /\ \A y \in TasksOf(q) : y # x => (Live(y)' <=> Live(y)) /\ (Ahead(y)' <=> Ahead(y))
        /\ \A y : Queued(y)' <=> Queued(y)
    BY <1>2, <1>3, <2>0, TurnAround
  <2>5. Result(q) = "GENERAL_ERROR" /\ Result(q)' = Result(q)
    BY <1>2, <2>1, <2>2, <2>4 DEF PromiseOK, ResultOK, CodeOK, Result
  <2>6. \A y \in TasksOf(q) : ~ Ahead(y) /\ ~ Ahead(y)' /\ (Live(y)' <=> y = x) /\ (Live(y) <=> y = x)
    BY <2>2, <2>3, <2>4
  <2>7. /\ request'[q].code = "GENERAL_ERROR" /\ request'[q].exception = TRUE
        /\ request'[q].async = x /\ request'[q].current = request[q].current
    BY <1>2, <1>6, <2>1, <2>3 DEF IInv, Types, RequestFields, FailureCode
  <2>8. ~ Codes(q)
    BY <2>3 DEF Codes, Starting
  <2>9. CountOK(q)'
    <3>1. ~ NoneLive(q) /\ ~ NoneLive(q)'
      BY <2>1, <2>4, <2>6 DEF NoneLive
    <3> QED BY <1>2, <2>3, <2>4, <2>6, <2>7, <3>1 DEF PromiseOK, ResultOK, CountOK
  <2>10. CodeOK(q)'
    BY <1>6, <2>2, <2>4, <2>5, <2>6, <2>7, <2>8 DEF CodeOK
  <2>11. EndOK(q)'
    BY <2>2, <2>4, <2>7 DEF EndOK
  <2>12. WaitedOK(q)' /\ OwnedOK(q)'
    <3>1. WaitedOK(q) /\ OwnedOK(q)
      BY <2>4 DEF PromiseOK
    <3> QED BY <1>2, <2>1, <2>3, <2>4, <2>7, <3>1, OwnerAlike
  <2> QED BY <2>1, <2>4, <2>9, <2>10, <2>11, <2>12, OthersPromise DEF PromiseOK, ResultOK
<1> QED BY <1>4, <1>5, <1>6, Threads

LEMMA EndInferPromise ==
  ASSUME IInv, Promises, NEW e \in Executor, EndInfer(e)
  PROVE  /\ Promises'
         /\ \E q \in Request, code \in {"OK", "GENERAL_ERROR"} :
              /\ Len(client[q].results) < client[q].started
              /\ client' = [client EXCEPT ![q].results = Append(@, code)]
<1>1. PICK q, x : q = Of(e) /\ x = task[e]
  OBVIOUS
<1>2. e = taskExecutor /\ UNCHANGED <<request, tasks>>
  BY EndInferOK DEF EndInfer
<1>3. PICK code \in {"OK", "GENERAL_ERROR"}, to \in {"inferred", "failure"} :
        /\ to = IF code = "OK" THEN "inferred" ELSE "failure"
        /\ Turn(e, q, x, "inferring", to)
        /\ client' = [client EXCEPT ![q].results = Append(@, code)]
  BY <1>1, EndInferOK
<1>4. {"inferring", to} \cap Starting = {}
  BY DEF Starting
<1>5. /\ q \in Request /\ x \in TasksOf(q) /\ Queued(x) /\ TaskOK(x) /\ x[1] = q
      /\ Held1(x) /\ FirstTurn(x) /\ Held1(x)' /\ Queued(x)' /\ In1(x)
      /\ pc[e] = "inferring" /\ pc'[e] = to
      /\ (Held2(x)' <=> Held2(x)) /\ \A u \in Request \ {q} : Elsewhere(u)
  BY <1>2, <1>3, TurnMoves DEF TasksOf, Queued
<1>6. Live(x) /\ Live(x)' /\ Ahead(x) /\ ~ Ahead(x)' /\ (Failing(x)' <=> code # "OK")
  <2>1. ~ Held2(x)
    BY <1>2, <1>5 DEF TaskOK, SecondTurn, FirstTurn
  <2> QED BY <1>2, <1>3, <1>5, <2>1 DEF Live, Past, Ahead, Failing
<1>7. request[q].async = x /\ (\A y \in TasksOf(q) : y # x => ~ Live(y) /\ ~ Ahead(y))
      /\ ~ request[q].exception
  <2>1. ~ request[q].exception
    BY <1>5, <1>6 DEF IInv, RequestOK, TasksOK, InferenceOK
  <2> QED BY <1>5, <1>6, <2>1, LiveHolds
<1>8. /\ PromiseOK(q) /\ TasksOf(q)' = TasksOf(q) /\ task' = task /\ pc'[q] = pc[q]
      /\ Codes(q)' <=> Codes(q)
      /\ (\E t \in Starters(q) : pc[t] = "resetStages")'
           <=> (\E t \in Starters(q) : pc[t] = "resetStages")
      /\ task'[callbackExecutor] \in TasksOf(q) => pc'[callbackExecutor] # "refuse"
      /\ FreshOK(q)'
      /\ \A y \in TasksOf(q) : y # x => (Live(y)' <=> Live(y)) /\ (Ahead(y)' <=> Ahead(y))
      /\ \A y : Queued(y)' <=> Queued(y)
  BY <1>2, <1>3, <1>4, TurnAround
<1>9. \A y \in TasksOf(q) : ~ Ahead(y)' /\ (Live(y)' <=> y = x) /\ (Live(y) <=> y = x)
  BY <1>6, <1>7, <1>8
<1>10. /\ client[q].results \in Seq({"OK", "GENERAL_ERROR"}) /\ client[q].started \in Nat
       /\ client'[q].results = Append(client[q].results, code)
       /\ client'[q].started = client[q].started /\ client'[q].called = client[q].called
       /\ client'[q].waits = client[q].waits /\ client'[q].owned = client[q].owned
       /\ client'[q].last = client[q].last
  BY <1>3, <1>5 DEF IInv, Types, ClientFields
<1>11. Len(client'[q].results) = Len(client[q].results) + 1 /\ Len(client[q].results) \in Nat
       /\ Result(q)' = code
  BY <1>10, AppendProperties, LenProperties DEF Result
<1>12. client[q].started = Len(client[q].results) + 1
  BY <1>5, <1>6, <1>8 DEF PromiseOK, ResultOK, CountOK
<1>13. CountOK(q)'
  <2>1. ~ NoneLive(q) /\ ~ NoneLive(q)'
    BY <1>5, <1>8, <1>9 DEF NoneLive
  <2> QED BY <1>2, <1>8, <1>9, <1>10, <1>11, <1>12, <2>1 DEF PromiseOK, ResultOK, CountOK
<1>14. CodeOK(q)'
  <2>1. request[q].code = "OK"
    BY <1>5, <1>6, <1>8 DEF PromiseOK, ResultOK, CodeOK
  <2> QED BY <1>2, <1>6, <1>7, <1>8, <1>9, <1>11, <2>1 DEF CodeOK
<1>15. EndOK(q)'
  BY <1>2, <1>6, <1>7, <1>8 DEF EndOK
<1>16. WaitedOK(q)' /\ OwnedOK(q)'
  <2>1. WaitedOK(q) /\ OwnedOK(q)
    BY <1>8 DEF PromiseOK
  <2> QED BY <1>2, <1>5, <1>8, <1>10, <2>1, OwnerAlike
<1>17. Len(client[q].results) < client[q].started
  BY <1>10, <1>11, <1>12
<1> QED BY <1>3, <1>5, <1>8, <1>13, <1>14, <1>15, <1>16, <1>17, OthersPromise DEF PromiseOK, ResultOK

(* The callback gets the result of the last inference.                     *)
LEMMA RunCallbackPromise ==
  ASSUME IInv, Promises, NEW e \in Executor, RunCallback(e)
  PROVE  /\ Promises'
         /\ \E q \in Callback :
              /\ Len(client[q].called) < Len(client[q].results)
              /\ client' = [client EXCEPT ![q].called =
                              Append(@, client[q].results[Len(client[q].called) + 1])]
<1>1. PICK q, x : q = Of(e) /\ x = task[e]
  OBVIOUS
<1>2. e = callbackExecutor /\ UNCHANGED request /\ tasks'[x].failed = tasks[x].failed
  BY <1>1, RunCallbackOK DEF RunCallback
<1>3. PICK to \in {"failure", "StartAsync", "called"} :
        /\ Turn(e, q, x, "runCallback", to)
        /\ to = "failure" <=> ~ client[q].owned
        /\ to # "failure" => client' = [client EXCEPT ![q].called = Append(@, request[q].code)]
  BY <1>1, RunCallbackOK
<1>4. {"runCallback", to} \cap Starting = {} /\ to \in AfterCall
  BY DEF Starting, AfterCall
<1>5. /\ q \in Request /\ x \in TasksOf(q) /\ Queued(x) /\ x[1] = q /\ q \in Callback
      /\ Held2(x)' /\ Queued(x)' /\ (Held1(x)' <=> Held1(x)) /\ (In1(x)' <=> In1(x))
      /\ pc[e] = "runCallback" /\ pc'[e] = to
      /\ \A u \in Request \ {q} : Elsewhere(u)
  BY <1>2, <1>3, TurnMoves DEF TasksOf, Queued
<1>6. Live(x) /\ ~ Live(x)' /\ ~ Ahead(x) /\ ~ Ahead(x)' /\ ~ Held1(x) /\ ~ Failing(x)
  <2>1. Live(x) /\ ~ In1(x) /\ ~ Held1(x)
    BY <1>1, <1>2, <1>5, BeforeCall DEF AfterCall, Starting
  <2> QED BY <1>2, <1>4, <1>5, <2>1 DEF Live, Past, Ahead, Failing
<1>7. request[q].async = x /\ (\A y \in TasksOf(q) : y # x => ~ Live(y) /\ ~ Ahead(y))
      /\ client[q].started >= 1 /\ Len(client[q].called) < Repeats[q]
  <2>1. client[q].started >= 1 /\ Len(client[q].called) < Repeats[q]
    BY <1>5, <1>6 DEF IInv, RequestOK, TasksOK, InferenceOK
  <2> QED BY <1>5, <1>6, <2>1, LiveHolds
<1>8. /\ PromiseOK(q) /\ TasksOf(q)' = TasksOf(q) /\ task' = task /\ pc'[q] = pc[q]
      /\ Codes(q)' <=> Codes(q)
      /\ (\E t \in Starters(q) : pc[t] = "resetStages")'
           <=> (\E t \in Starters(q) : pc[t] = "resetStages")
      /\ task'[callbackExecutor] \in TasksOf(q) => pc'[callbackExecutor] # "refuse"
      /\ FreshOK(q)'
      /\ \A y \in TasksOf(q) : y # x => (Live(y)' <=> Live(y)) /\ (Ahead(y)' <=> Ahead(y))
      /\ \A y : Queued(y)' <=> Queued(y)
  BY <1>2, <1>3, <1>4, TurnAround
<1>9. \A y \in TasksOf(q) : ~ Ahead(y) /\ ~ Ahead(y)' /\ ~ Live(y)' /\ (Live(y) <=> y = x)
  BY <1>6, <1>7, <1>8
<1>10. /\ client[q].called \in Seq({"OK", "GENERAL_ERROR"}) /\ client[q].started \in Nat
       /\ client[q].results \in Seq({"OK", "GENERAL_ERROR"})
       /\ request[q].code \in {"OK", "GENERAL_ERROR"} /\ Repeats[q] \in Nat
       /\ Len(client[q].called) \in Nat
  BY <1>5, RequestAssumption, LenProperties DEF IInv, Types, ClientFields, RequestFields
<1>11. to # "failure"
  <2>1. ~ client[q].owned => client[q].started = 0 \/ Len(client[q].called) >= Repeats[q]
    BY <1>5, <1>8 DEF PromiseOK, OwnedOK
  <2> QED BY <1>3, <1>7, <1>10, <2>1
<1>12. /\ client' = [client EXCEPT ![q].called = Append(@, request[q].code)]
       /\ client'[q].called = Append(client[q].called, request[q].code)
       /\ client'[q].results = client[q].results /\ client'[q].started = client[q].started
       /\ client'[q].waits = client[q].waits /\ client'[q].owned = client[q].owned
       /\ client'[q].last = client[q].last
  BY <1>3, <1>5, <1>11 DEF IInv, Types, ClientFields
<1>13. Len(client'[q].called) = Len(client[q].called) + 1 /\ Result(q)' = Result(q)
  BY <1>10, <1>12, AppendProperties DEF Result
<1>14. /\ client[q].started = Len(client[q].results)
       /\ client[q].started = Len(client[q].called) + 1
  <2>1. ~ NoneLive(q)
    BY <1>5, <1>6 DEF NoneLive
  <2> QED BY <1>5, <1>8, <1>9, <2>1 DEF PromiseOK, ResultOK, CountOK
<1>15. request[q].code = Result(q) /\ (request[q].exception <=> Result(q) = "GENERAL_ERROR")
  BY <1>5, <1>6, <1>8 DEF PromiseOK, ResultOK, CodeOK
<1>16. CountOK(q)'
  <2>1. NoneLive(q)'
    BY <1>8, <1>9 DEF NoneLive
  <2> QED BY <1>2, <1>8, <1>9, <1>12, <1>13, <1>14, <2>1 DEF PromiseOK, ResultOK, CountOK
<1>17. CodeOK(q)'
  BY <1>2, <1>8, <1>9 DEF PromiseOK, ResultOK, CodeOK
<1>18. EndOK(q)'
  <2>1. ToldOK(q)'
    BY <1>2, <1>3, <1>5, <1>11, <1>13, <1>15 DEF ToldOK
  <2> QED BY <1>2, <1>5, <1>6, <1>7, <1>8, <2>1 DEF EndOK
<1>19. WaitedOK(q)' /\ OwnedOK(q)'
  <2>1. WaitedOK(q) /\ OwnedOK(q)
    BY <1>8 DEF PromiseOK
  <2> QED BY <1>2, <1>5, <1>8, <1>12, <1>13, <2>1, OwnerAlike
<1>20. /\ Len(client[q].called) < Len(client[q].results)
       /\ request[q].code = client[q].results[Len(client[q].called) + 1]
  <2>1. Len(client[q].results) = Len(client[q].called) + 1
    BY <1>14
  <2>2. Len(client[q].called) < Len(client[q].results)
    BY <1>10, <2>1
  <2>3. request[q].code = client[q].results[Len(client[q].called) + 1]
    BY <1>15, <2>1 DEF Result
  <2> QED BY <2>2, <2>3
<1>21. Promises'
  BY <1>5, <1>8, <1>16, <1>17, <1>18, <1>19, OthersPromise DEF PromiseOK, ResultOK
<1> QED BY <1>5, <1>12, <1>20, <1>21

-----------------------------------------------------------------------------
(* The steps of StartAsync.                                                *)

LEMMA StartsPromise ==
  ASSUME IInv, Promises, NEW t \in Thread, NEW q, q = Of(t), NEW to,
         pc[t] \in Starting \cup {"StartAsync"}, to \in Starting \cup {Back(t)},
         pc[t] = "StartAsync" => to = Back(t) \/ ~ request[q].busy,
         Move(t, to), UNCHANGED <<client, copy, task>>,
         \A x \in TasksOf(q) : /\ tasks'[x].status = tasks[x].status
                               /\ tasks'[x].failed = tasks[x].failed,
         request'[q].async = request[q].async \/ request'[q].async # NoTask,
         \/ request'[q].current = request'[q].async
         \/ to = "resetStages"
         \/ /\ pc[t] # "resetStages"
            /\ request'[q].current = request[q].current
            /\ request'[q].async = request[q].async
  PROVE  /\ q \in Request /\ PromiseOK(q) /\ TasksOf(q)' = TasksOf(q)
         /\ t \in Starters(q) /\ Starters(q)' = Starters(q) /\ pc'[t] = to
         /\ \A u \in Starters(q) : u # t => pc[u] \notin Starting /\ pc'[u] \notin Starting
         /\ task[callbackExecutor] \in TasksOf(q) => t = callbackExecutor
         /\ pc[t] \in Starting \/ to \in Starting =>
              \A x \in TasksOf(q) : ~ Live(x) /\ ~ Ahead(x) /\ ~ Live(x)' /\ ~ Ahead(x)'
         /\ \A x \in TasksOf(q) : /\ Queued(x)' <=> Queued(x)
                                  /\ Live(x)' <=> Live(x)
                                  /\ Ahead(x)' <=> Ahead(x)
                                  /\ Failing(x)' <=> Failing(x)
                                  /\ Held1(x)' <=> Held1(x)
                                  /\ Held2(x)' <=> Held2(x)
                                  /\ Answer(x)' = Answer(x)
         /\ Result(q)' = Result(q)
         /\ CountOK(q)' /\ FreshOK(q)' /\ WaitedOK(q)' /\ OwnedOK(q)'
         /\ \A u \in Request \ {q} : Elsewhere(u)
<1>1. /\ q \in Request /\ t \in Starters(q) /\ t # taskExecutor
      /\ t # q => t = callbackExecutor
      /\ \A u \in Starters(q) : u # t =>
           pc[u] \notin Starting \cup Inferring \cup Waiting \cup {"StartAsync", "InferSync"}
      /\ pc[q] \notin Inferring \cup Waiting
      /\ task[callbackExecutor] \in TasksOf(q) => t = callbackExecutor
  BY Begins
<1>2. /\ \A x \in TasksOf(q) : /\ Queued(x)' <=> Queued(x)
                               /\ Live(x)' <=> Live(x)
                               /\ Ahead(x)' <=> Ahead(x)
      /\ pc[t] \in Starting \/ to \in Starting =>
           NoneLive(q) /\ NoneLive(q)' /\ \A x \in TasksOf(q) : ~ Live(x) /\ ~ Ahead(x)
      /\ Starters(q)' = Starters(q) /\ \A u \in Starters(q) : u # t => pc'[u] = pc[u]
  BY Starts
<1>3. /\ \A u \in Thread : pc'[u] = IF u = t THEN to ELSE pc[u]
      /\ \A x : /\ Held1(x)' <=> Held1(x)
                /\ Held2(x)' <=> Held2(x)
      /\ \A u \in Request \ {q} : Elsewhere(u)
  BY MoveOK
<1>4. TasksOf(q)' = TasksOf(q) /\ Result(q)' = Result(q) /\ PromiseOK(q)
  BY <1>1 DEF TasksOf, Result, Promises
<1>5. \A x \in TasksOf(q) : (Failing(x)' <=> Failing(x)) /\ Answer(x)' = Answer(x)
  BY <1>1, <1>3, Threads DEF Failing, Answer
<1>6. CountOK(q)'
  <2>1. (\E x \in TasksOf(q) : Ahead(x))' <=> \E x \in TasksOf(q) : Ahead(x)
    BY <1>2, <1>4
  <2>2. NoneLive(q)' <=> NoneLive(q)
    BY <1>2, <1>4 DEF NoneLive
  <2>3. CountOK(q)
    BY <1>4 DEF PromiseOK, ResultOK
  <2> QED BY <2>1, <2>2, <2>3 DEF CountOK
<1>7. FreshOK(q)'
  <2>1. \A x \in TasksOf(q) : Held2(x) /\ pc'[callbackExecutor] # "run"
                                => pc[callbackExecutor] # "run"
    <3>1. pc[t] # "run"
      BY DEF Starting
    <3> QED BY <1>3, <3>1, Threads
  <2>2. pc'[taskExecutor] = pc[taskExecutor]
    BY <1>1, <1>3, Threads
  <2> QED BY <1>3, <1>4, <2>1, <2>2 DEF PromiseOK, ResultOK, FreshOK
<1>8. pc[q] \notin Waiting /\ pc'[q] \notin Waiting
  <2>1. t = q => pc'[q] \in Starting \cup {"idle"}
    BY <1>1, <1>3, Threads DEF Back
  <2>2. t # q => pc'[q] = pc[q]
    BY <1>1, <1>3, Threads
  <2> QED BY <1>1, <2>1, <2>2 DEF Starting, Waiting
<1>9. WaitedOK(q)'
  <2>1. ASSUME client[q].last = "StartAsync"
        PROVE  /\ client[q].started >= 1
               /\ \/ request'[q].current = request'[q].async
                  \/ (\E u \in Starters(q) : pc[u] = "resetStages")'
    <3>1. /\ client[q].started >= 1
          /\ \/ request[q].current = request[q].async
             \/ \E u \in Starters(q) : pc[u] = "resetStages"
      BY <1>4, <2>1 DEF PromiseOK, WaitedOK
    <3>2. CASE to = "resetStages"
      BY <1>1, <1>2, <1>3, <3>1, <3>2
    <3>3. CASE to # "resetStages" /\ pc[t] # "resetStages"
      <4>1. ~ \E u \in Starters(q) : pc[u] = "resetStages"
        BY <1>1, <3>3 DEF Starting
      <4> QED BY <3>1, <3>3, <4>1
    <3>4. CASE to # "resetStages" /\ pc[t] = "resetStages"
      BY <3>1, <3>4
    <3> QED BY <3>2, <3>3, <3>4
  <2> QED BY <1>8, <2>1 DEF WaitedOK, Waiting
<1>10. OwnedOK(q)'
  <2>1. ~ client[q].owned => pc'[q] = pc[q]
    <3>1. pc[t] \notin {"destroy", "ended"}
      BY DEF Starting
    <3>2. ~ client[q].owned => q # t
      BY <1>4, <3>1 DEF PromiseOK, OwnedOK
    <3> QED BY <1>1, <1>3, <3>2, Threads
  <2> QED BY <1>4, <2>1 DEF PromiseOK, OwnedOK
<1>11. \A u \in Starters(q) : u # t => pc[u] \notin Starting /\ pc'[u] \notin Starting
  BY <1>1, <1>2
<1> QED BY <1>1, <1>2, <1>3, <1>4, <1>5, <1>6, <1>7, <1>9, <1>10, <1>11

(* One that leaves what the callback gets, and the task chosen.            *)
LEMMA StartsQuiet ==
  ASSUME IInv, Promises, NEW t \in Thread, NEW q, q = Of(t), NEW to,
         pc[t] \in {"StartAsync", "setBusy", "resetStages", "refuse"},
         to \in {"setBusy", "reset", "startTask", Back(t)},
         pc[t] = "resetStages" <=> to = "startTask",
         pc[t] = "StartAsync" => to = Back(t) \/ ~ request[q].busy,
         Move(t, to), UNCHANGED <<client, copy, task>>,
         \A x \in TasksOf(q) : /\ tasks'[x].status = tasks[x].status
                               /\ tasks'[x].failed = tasks[x].failed,
         request'[q].async = request[q].async, request'[q].code = request[q].code,
         request'[q].exception = request[q].exception,
         request'[q].current = IF to = "startTask" THEN request[q].async ELSE request[q].current
  PROVE  Promises'
<1>1. /\ q \in Request /\ PromiseOK(q) /\ TasksOf(q)' = TasksOf(q)
      /\ t \in Starters(q) /\ Starters(q)' = Starters(q) /\ pc'[t] = to
      /\ \A u \in Starters(q) : u # t => pc[u] \notin Starting /\ pc'[u] \notin Starting
      /\ task[callbackExecutor] \in TasksOf(q) => t = callbackExecutor
      /\ \A x \in TasksOf(q) : /\ Queued(x)' <=> Queued(x)
                               /\ Live(x)' <=> Live(x)
                               /\ Ahead(x)' <=> Ahead(x)
                               /\ Failing(x)' <=> Failing(x)
                               /\ Held1(x)' <=> Held1(x)
                               /\ Held2(x)' <=> Held2(x)
      /\ Result(q)' = Result(q)
      /\ FreshOK(q)' /\ WaitedOK(q)' /\ OwnedOK(q)'
      /\ \A u \in Request \ {q} : Elsewhere(u)
  <2>1. pc[t] \in Starting \cup {"StartAsync"} /\ to \in Starting \cup {Back(t)}
    BY DEF Starting
  <2>2. \/ request'[q].current = request'[q].async
        \/ /\ pc[t] # "resetStages"
           /\ request'[q].current = request[q].current
           /\ request'[q].async = request[q].async
    OBVIOUS
  <2> QED BY <2>1, <2>2, StartsPromise
<1>2. {"initNext", "resetStages", "startTask"} \subseteq Starting
  BY DEF Starting
<1>3. Back(t) \notin {"initNext", "resetStages", "startTask"}
  BY DEF Back
<1>4. (Codes(q)' => Codes(q)) /\ (Prepares(q) => Prepares(q)')
  BY <1>1, <1>2, <1>3 DEF Codes, Prepares
<1>5. task'[callbackExecutor] \in TasksOf(q) =>
        pc[callbackExecutor] # "refuse" /\ pc'[callbackExecutor] # "refuse"
  <2>1. Back(t) # "refuse"
    BY DEF Back
  <2> QED BY <1>1, <2>1 DEF PromiseOK, ResultOK, EndOK
<1>6. ASSUME NEW x \in TasksOf(q), Held2(x), ToldOK(q)
      PROVE  ToldOK(q)'
  <2>1. t = callbackExecutor /\ task'[callbackExecutor] \in TasksOf(q)
    BY <1>1, <1>6 DEF Held2
  <2>2. pc[t] \in {"StartAsync", "setBusy", "resetStages"}
    BY <1>5, <2>1
  <2>3. to \in {"setBusy", "reset", "startTask", "called"} /\ (to = "called" => pc[t] # "resetStages")
    BY <2>1, Threads DEF Back
  <2>4. pc[t] = "resetStages" => to = "startTask"
    OBVIOUS
  <2> QED BY <1>1, <1>6, <2>1, <2>2, <2>3, <2>4 DEF ToldOK
<1>7. Alike(q)
  BY <1>1, <1>4, <1>5, <1>6 DEF Alike
<1>8. ResultOK(q)'
  BY <1>1, <1>7, AlikeOK DEF PromiseOK
<1> QED BY <1>1, <1>8, OthersPromise DEF PromiseOK

LEMMA QuietStarts ==
  ASSUME IInv, Promises, NEW t \in Thread, NEW q, q = Of(t),
         IsRequestBusy(t) \/ SetBusy(t) \/ ResetStages(t) \/ Refuse(t)
  PROVE  Promises' /\ client' = client
<1>1. /\ request \in [Request -> RequestFields] /\ tasks \in [Task -> TaskFields]
      /\ {"setBusy", "reset", "resetStages", "startTask", "refuse"} \subseteq Starting
  BY DEF IInv, Types, Starting
<1>2. ASSUME pc[t] \in {"setBusy", "resetStages", "refuse"}
      PROVE  q \in Request
  BY <1>1, <1>2, Begins
<1>3. CASE IsRequestBusy(t)
  <2>1. PICK to : /\ Go(t, "StartAsync", to)
                  /\ to = Back(t) \/ (to = "setBusy" /\ ~ request[q].busy)
    BY <1>3 DEF IsRequestBusy
  <2>2. UNCHANGED <<request, tasks, taskQueue, task, copy, client>>
    BY <1>3 DEF IsRequestBusy
  <2>3. to \in Starting \cup {Back(t)} /\ pc[t] = "StartAsync" /\ to # "startTask"
    BY <1>1, <2>1 DEF Go, Back
  <2>4. Move(t, to)
    BY <2>1, <2>2, <2>3, StartsMove
  <2> QED BY <2>1, <2>2, <2>3, <2>4, StartsQuiet
<1>4. CASE SetBusy(t)
  <2>1. /\ Go(t, "setBusy", "reset") /\ pc[t] = "setBusy"
        /\ UNCHANGED <<tasks, taskQueue, task, copy, client>>
        /\ request' = [request EXCEPT ![q].busy = TRUE]
    BY <1>4 DEF SetBusy, Go
  <2>2. /\ request'[q].async = request[q].async /\ request'[q].code = request[q].code
        /\ request'[q].exception = request[q].exception
        /\ request'[q].current = request[q].current
        /\ \A u \in Request \ {q} : request'[u] = request[u]
    BY <1>1, <1>2, <2>1 DEF RequestFields
  <2>3. Move(t, "reset")
    BY <1>1, <2>1, <2>2, StartsMove
  <2> QED BY <2>1, <2>2, <2>3, StartsQuiet
<1>5. CASE Refuse(t)
  <2>1. /\ Go(t, "refuse", Back(t)) /\ pc[t] = "refuse" /\ Back(t) # "startTask"
        /\ UNCHANGED <<tasks, taskQueue, task, copy, client>>
        /\ request' = [request EXCEPT ![q].busy = FALSE]
    BY <1>5 DEF Refuse, Go, Back
  <2>2. /\ request'[q].async = request[q].async /\ request'[q].code = request[q].code
        /\ request'[q].exception = request[q].exception
        /\ request'[q].current = request[q].current
        /\ \A u \in Request \ {q} : request'[u] = request[u]
    BY <1>1, <1>2, <2>1 DEF RequestFields
  <2>3. Move(t, Back(t))
    BY <1>1, <2>1, <2>2, StartsMove
  <2> QED BY <2>1, <2>2, <2>3, StartsQuiet
<1>6. CASE ResetStages(t)
  <2>1. Go(t, "resetStages", "startTask") /\ pc[t] = "resetStages"
    BY <1>6 DEF ResetStages, Go
  <2>2. q \in Request /\ t \in Starters(q)
    BY <1>1, <2>1, Begins
  <2>3. PICK x \in TasksOf(q) : x = request[q].async
    BY <2>1, <2>2 DEF IInv, RequestOK, StartOK, FieldsOK
  <2>4. /\ UNCHANGED <<taskQueue, task, copy, client>>
        /\ tasks' = [tasks EXCEPT ![x].stage = 2]
        /\ request' = [request EXCEPT ![q].current = x]
    BY <1>6, <2>3 DEF ResetStages
  <2>5. x \in Task /\ (\A y \in TasksOf(q) : y \in Task)
        /\ \A u \in Request \ {q} : \A y \in TasksOf(u) : y \in Task /\ y # x
    BY <2>2, TasksOfRequest, TasksApart, ZenonT(30)
  <2>6. /\ \A y \in Task : /\ tasks'[y].status = tasks[y].status
                           /\ tasks'[y].failed = tasks[y].failed
                           /\ y # x => tasks'[y] = tasks[y]
    BY <1>1, <2>4, <2>5 DEF TaskFields
  <2>7. /\ request'[q].async = request[q].async /\ request'[q].code = request[q].code
        /\ request'[q].exception = request[q].exception
        /\ request'[q].current = request[q].async
        /\ \A u \in Request \ {q} : request'[u] = request[u]
    BY <1>1, <2>2, <2>3, <2>4 DEF RequestFields
  <2>8. \A u \in Request \ {q} : \A y \in TasksOf(u) : tasks'[y] = tasks[y]
    BY <2>5, <2>6
  <2>9. Move(t, "startTask")
    BY <1>1, <2>1, <2>4, <2>7, <2>8, StartsMove
  <2> QED BY <2>1, <2>4, <2>5, <2>6, <2>7, <2>9, StartsQuiet
<1> QED BY <1>3, <1>4, <1>5, <1>6

(* What a start does to the code its callback gets, and to its task: the   *)
(* promise of the inference before is no longer looked at.                 *)
LEMMA ResetPromise ==
  ASSUME IInv, Promises, NEW t \in Thread, NEW q, q = Of(t), ResetCallback(t)
  PROVE  Promises' /\ client' = client
<1>1. /\ Go(t, "reset", "initNext") /\ pc[t] = "reset"
      /\ UNCHANGED <<tasks, taskQueue, task, copy, client>>
      /\ request' = [request EXCEPT ![q].code = "OK", ![q].exception = FALSE]
  BY DEF ResetCallback, Go
<1>2. request \in [Request -> RequestFields] /\ {"reset", "initNext"} \subseteq Starting
  BY DEF IInv, Types, Starting
<1>3. q \in Request
  BY <1>1, <1>2, Begins
<1>4. /\ request'[q].async = request[q].async /\ request'[q].code = "OK"
      /\ request'[q].current = request[q].current
      /\ \A u \in Request \ {q} : request'[u] = request[u]
  BY <1>1, <1>2, <1>3 DEF RequestFields
<1>5. Move(t, "initNext")
  BY <1>1, <1>2, <1>4, StartsMove
<1>6. /\ PromiseOK(q) /\ TasksOf(q)' = TasksOf(q)
      /\ t \in Starters(q) /\ Starters(q)' = Starters(q) /\ pc'[t] = "initNext"
      /\ \A u \in Starters(q) : u # t => pc[u] \notin Starting
      /\ task[callbackExecutor] \in TasksOf(q) => t = callbackExecutor
      /\ \A x \in TasksOf(q) : ~ Live(x) /\ ~ Ahead(x) /\ ~ Live(x)' /\ ~ Ahead(x)'
      /\ \A x \in TasksOf(q) : /\ Queued(x)' <=> Queued(x)
                               /\ Held1(x)' <=> Held1(x)
                               /\ Held2(x)' <=> Held2(x)
                               /\ Answer(x)' = Answer(x)
      /\ Result(q)' = Result(q)
      /\ CountOK(q)' /\ FreshOK(q)' /\ WaitedOK(q)' /\ OwnedOK(q)'
      /\ \A u \in Request \ {q} : Elsewhere(u)
  <2>1. /\ pc[t] \in Starting \cup {"StartAsync"} /\ "initNext" \in Starting \cup {Back(t)}
        /\ pc[t] # "StartAsync" /\ pc[t] # "resetStages" /\ UNCHANGED <<client, copy, task>>
        /\ \A x \in TasksOf(q) : /\ tasks'[x].status = tasks[x].status
                                 /\ tasks'[x].failed = tasks[x].failed
    BY <1>1, <1>2
  <2> QED BY <1>2, <1>4, <1>5, <2>1, StartsPromise
<1>7. CodeOK(q)'
  BY <1>4, <1>6 DEF CodeOK
<1>8. ~ Prepares(q)
  BY <1>1, <1>6 DEF Prepares, Starting
<1>9. EndOK(q)'
  <2>1. EndOK(q)
    BY <1>6 DEF PromiseOK, ResultOK
  <2>2. ASSUME NEW x \in TasksOf(q), Held2(x)
        PROVE  ToldOK(q)'
    <3>1. t = callbackExecutor
      BY <1>6, <2>2 DEF Held2
    <3> QED BY <1>6, <3>1 DEF ToldOK
  <2>3. task'[callbackExecutor] \in TasksOf(q) => pc'[callbackExecutor] # "refuse"
    BY <1>1, <1>6
  <2> QED BY <1>1, <1>4, <1>6, <1>8, <2>1, <2>2, <2>3 DEF EndOK
<1> QED BY <1>1, <1>3, <1>6, <1>7, <1>9, OthersPromise DEF PromiseOK, ResultOK

LEMMA InitNextPromise ==
  ASSUME IInv, Promises, NEW t \in Thread, NEW q, q = Of(t), InitNextAsyncTask(t)
  PROVE  Promises' /\ client' = client
<1>1. PICK x \in TasksOf(q), n \in 0 .. 2 :
        request' = [request EXCEPT ![q].async = x, ![q].created = n]
  BY NextTask
<1>2. /\ Go(t, "initNext", "resetStages") /\ pc[t] = "initNext"
      /\ UNCHANGED <<tasks, taskQueue, task, copy, client>>
  BY DEF InitNextAsyncTask, Go
<1>3. request \in [Request -> RequestFields] /\ {"initNext", "resetStages"} \subseteq Starting
  BY DEF IInv, Types, Starting
<1>4. q \in Request
  BY <1>2, <1>3, Begins
<1>5. /\ request'[q].async = x /\ request'[q].code = request[q].code
      /\ \A u \in Request \ {q} : request'[u] = request[u]
  BY <1>1, <1>3, <1>4 DEF RequestFields
<1>6. Move(t, "resetStages")
  BY <1>2, <1>3, <1>5, StartsMove
<1>7. x # NoTask
  BY <1>4, TasksOfRequest
<1>8. /\ PromiseOK(q) /\ TasksOf(q)' = TasksOf(q)
      /\ t \in Starters(q) /\ Starters(q)' = Starters(q) /\ pc'[t] = "resetStages"
      /\ task[callbackExecutor] \in TasksOf(q) => t = callbackExecutor
      /\ \A y \in TasksOf(q) : ~ Live(y) /\ ~ Ahead(y) /\ ~ Live(y)' /\ ~ Ahead(y)'
      /\ CountOK(q)' /\ FreshOK(q)' /\ WaitedOK(q)' /\ OwnedOK(q)'
      /\ \A u \in Request \ {q} : Elsewhere(u)
  BY <1>2, <1>3, <1>5, <1>6, <1>7, StartsPromise
<1>9. Codes(q) /\ Prepares(q)'
  BY <1>2, <1>8 DEF Codes, Prepares
<1>10. CodeOK(q)'
  <2>1. request[q].code = "OK"
    BY <1>8, <1>9 DEF PromiseOK, ResultOK, CodeOK
  <2> QED BY <1>5, <1>8, <2>1 DEF CodeOK
<1>11. EndOK(q)'
  <2>1. task'[callbackExecutor] \in TasksOf(q) => pc'[callbackExecutor] # "refuse"
    BY <1>2, <1>8
  <2> QED BY <1>8, <1>9, <2>1 DEF EndOK
<1> QED BY <1>2, <1>4, <1>8, <1>10, <1>11, OthersPromise DEF PromiseOK, ResultOK

(* The task of the inference started is live.                              *)
LEMMA StartPromise ==
  ASSUME IInv, Promises, NEW t \in Thread, NEW q, q = Of(t), StartAsyncTask(t)
  PROVE  /\ Promises' /\ q \in Request
         /\ client' = [client EXCEPT ![q].started = @ + 1, ![q].last = "StartAsync"]
         /\ Len(client[q].results) = client[q].started
         /\ q \in Callback => Len(client[q].called) = client[q].started
<1>1. PICK x \in TasksOf(q) :
        /\ q \in Request /\ x = request[q].async /\ request[q].current = x /\ NoneLive(q)
        /\ ~ In1(x) /\ ~ In2(x) /\ ~ Held1(x) /\ ~ Held2(x)
        /\ request' = request /\ task' = task
        /\ client' = [client EXCEPT ![q].started = @ + 1, ![q].last = "StartAsync"]
        /\ \A v \in Thread : pc'[v] = IF v = t THEN Back(t) ELSE pc[v]
        /\ \A y \in Task : y # x => tasks'[y] = tasks[y]
        /\ \A y : /\ In1(y)' <=> In1(y) \/ y = x
                  /\ In2(y)' <=> In2(y)
                  /\ Held1(y)' <=> Held1(y)
                  /\ Held2(y)' <=> Held2(y)
        /\ \A u \in Request \ {q} : Elsewhere(u)
  BY StartAsyncTaskOK
<1>2. pc[t] = "startTask" /\ pc[t] \in Starting
  BY DEF StartAsyncTask, Go, Starting
<1>3. /\ t \in Starters(q) /\ t # taskExecutor
      /\ t # q => t = callbackExecutor
      /\ \A u \in Starters(q) : u # t => pc[u] \notin Starting
      /\ pc[q] \notin Waiting
      /\ task[callbackExecutor] \in TasksOf(q) => t = callbackExecutor
  BY <1>2, Begins
<1>4. /\ TasksOf(q)' = TasksOf(q) /\ PromiseOK(q) /\ x \in Task /\ x # NoTask
      /\ \A y \in TasksOf(q) : y \in Task
      /\ taskExecutor \in Thread /\ callbackExecutor \in Thread /\ q \in Thread
  BY <1>1, TasksOfRequest, Threads DEF TasksOf, Promises
<1>5. client \in [Request -> ClientFields] /\ client[q].started \in Nat
      /\ Len(client[q].called) \in Nat /\ Len(client[q].results) \in Nat
  BY <1>1, LenProperties DEF IInv, Types, ClientFields
<1>6. /\ client'[q].started = client[q].started + 1 /\ client'[q].last = "StartAsync"
      /\ client'[q].results = client[q].results /\ client'[q].called = client[q].called
      /\ client'[q].waits = client[q].waits /\ client'[q].owned = client[q].owned
  BY <1>1, <1>5 DEF ClientFields
<1>7. \A y \in TasksOf(q) : ~ Live(y) /\ ~ Ahead(y)
  BY <1>1, QueuedStatus DEF IInv, RequestOK, NoneLive
<1>8. Live(x)' /\ Ahead(x)'
  BY <1>1 DEF Live, Ahead, Past, Queued
<1>9. ASSUME NEW y \in TasksOf(q), y # x
      PROVE  ~ Live(y)' /\ ~ Ahead(y)'
  <2>1. pc'[taskExecutor] = pc[taskExecutor]
    BY <1>1, <1>3, <1>4
  <2>2. Held2(y) /\ pc[callbackExecutor] \in AfterCall => pc'[callbackExecutor] \in AfterCall
    <3>1. "called" \in AfterCall
      BY DEF AfterCall
    <3>2. t = callbackExecutor => pc'[t] = "called"
      BY <1>1, <1>4, Threads DEF Back
    <3> QED BY <1>1, <1>4, <3>1, <3>2
  <2>3. ~ Ahead(y)'
    BY <1>1, <1>7, <1>9, <2>1 DEF Ahead
  <2>4. Queued(y)' => Queued(y)
    BY <1>1, <1>9 DEF Queued
  <2>5. Past(y) => Past(y)'
    BY <1>1, <2>1, <2>2 DEF Past
  <2> QED BY <1>7, <2>3, <2>4, <2>5 DEF Live
<1>10. /\ Len(client[q].results) = client[q].started
       /\ q \in Callback => Len(client[q].called) = client[q].started
  BY <1>1, <1>4, <1>7 DEF PromiseOK, ResultOK, CountOK
<1>11. CountOK(q)'
  <2>1. (\E y \in TasksOf(q) : Ahead(y))'
    BY <1>4, <1>8
  <2>2. ~ NoneLive(q)'
    BY <1>4, <1>8 DEF NoneLive
  <2> QED BY <1>1, <1>4, <1>5, <1>6, <1>10, <2>1, <2>2 DEF CountOK
<1>12. Starters(q)' = Starters(q) /\ \A u \in Starters(q) : pc'[u] \notin Starting
  <2>1. Starters(q)' = Starters(q) /\ Starters(q) \subseteq Thread
    BY <1>1, <1>4 DEF Starters
  <2>2. Back(t) \notin Starting
    BY DEF Back, Starting
  <2> QED BY <1>1, <1>3, <2>1, <2>2
<1>13. CodeOK(q)'
  <2>1. request[q].code = "OK"
    <3>1. Codes(q)
      BY <1>2, <1>3 DEF Codes
    <3> QED BY <1>4, <3>1 DEF PromiseOK, ResultOK, CodeOK
  <2> QED BY <1>1, <1>4, <1>8, <1>9, <2>1 DEF CodeOK
<1>14. FreshOK(q)'
  <2>1. ASSUME NEW y \in TasksOf(q), Held1(y) \/ Held2(y)
        PROVE  tasks'[y] = tasks[y] /\ pc'[taskExecutor] = pc[taskExecutor]
               /\ (Held2(y) => pc[callbackExecutor] # "run")
    <3>1. y # x
      BY <1>1, <2>1
    <3>2. Held2(y) => t = callbackExecutor
      BY <1>3 DEF Held2
    <3> QED BY <1>1, <1>2, <1>3, <1>4, <3>1, <3>2
  <2> QED BY <1>1, <1>4, <2>1 DEF PromiseOK, ResultOK, FreshOK
<1>15. EndOK(q)'
  <2>1. task'[callbackExecutor] \in TasksOf(q) => pc'[callbackExecutor] # "refuse"
    BY <1>1, <1>3, <1>4 DEF Back
  <2> QED BY <1>1, <1>4, <1>8, <2>1 DEF EndOK
<1>16. WaitedOK(q)'
  <2>1. pc'[q] \notin Waiting
    BY <1>1, <1>3, <1>4 DEF Back, Waiting
  <2>2. client'[q].started >= 1
    BY <1>5, <1>6
  <2> QED BY <1>1, <1>6, <2>1, <2>2 DEF WaitedOK, Waiting
<1>17. OwnedOK(q)'
  <2>1. OwnedOK(q)
    BY <1>4 DEF PromiseOK
  <2>2. ASSUME ~ client[q].owned
        PROVE  pc'[q] = pc[q] /\ (q \in Callback => Len(client[q].called) >= Repeats[q])
    <3>1. t # q
      BY <1>2, <2>1, <2>2 DEF OwnedOK
    <3>2. task[callbackExecutor] \in TasksOf(q)
      BY <1>1, <1>3, <3>1, Threads DEF Starters
    <3>3. client[q].started # 0
      BY <1>1, <1>5, <3>2, WhileCalledBack
    <3> QED BY <1>1, <1>4, <2>1, <2>2, <3>1, <3>3 DEF OwnedOK
  <2> QED BY <1>6, <2>1, <2>2 DEF OwnedOK
<1> QED BY <1>1, <1>4, <1>10, <1>11, <1>13, <1>14, <1>15, <1>16, <1>17, OthersPromise
    DEF PromiseOK, ResultOK

-----------------------------------------------------------------------------
(* The other steps of the owners.                                          *)

LEMMA OwnerPromise ==
  ASSUME IInv, Promises, NEW q \in Request, NEW to, Move(q, to), pc[q] \notin Starting,
         to \notin {"setBusy", "reset", "initNext", "resetStages", "startTask"},
         \A x \in TasksOf(q) : /\ tasks'[x].status = tasks[x].status
                               /\ tasks'[x].failed = tasks[x].failed,
         request'[q].async = request[q].async, request'[q].code = request[q].code,
         request'[q].exception = request[q].exception,
         client'[q].started = client[q].started, client'[q].results = client[q].results,
         client'[q].called = client[q].called,
         \/ client'[q].last = "Infer"
         \/ client'[q].last = client[q].last /\ request'[q].current = request[q].current,
         to \in Waiting => client'[q].last = "StartAsync",
         to = "awake" => task'[q] = request'[q].current /\ ~ Queued(request'[q].current),
         \/ client'[q].waits = client[q].waits
         \/ q \in Callback => Len(client[q].called) >= Repeats[q],
         \/ client'[q].owned = client[q].owned
            /\ (pc[q] \notin {"destroy", "ended"} \/ to \in {"destroy", "ended"})
         \/ /\ to \in {"destroy", "ended"}
            /\ q \in Callback =>
                 client[q].started = 0 \/ Len(client[q].called) >= Repeats[q]
  PROVE  Promises'
<1>1. /\ \A u \in Request \ {q} : Elsewhere(u)
      /\ pc'[q] = to /\ \A u \in Executor : pc'[u] = pc[u] /\ task'[u] = task[u]
      /\ \A x : /\ Queued(x)' <=> Queued(x)
                /\ In1(x)' <=> In1(x)
                /\ Held1(x)' <=> Held1(x)
                /\ Held2(x)' <=> Held2(x)
  <2>1. q \in Thread /\ Of(q) = q
    BY Threads DEF Of
  <2>2. \A u \in Executor : u \in Thread /\ u # q
    BY Threads
  <2>3. \A u \in Executor : task'[u] = task[u]
    BY DEF Move
  <2> QED BY <2>1, <2>2, <2>3, MoveOK DEF Queued
<1>2. TasksOf(q)' = TasksOf(q) /\ PromiseOK(q) /\ Result(q)' = Result(q)
  BY DEF TasksOf, Promises, Result
<1>3. \A x \in TasksOf(q) : /\ Ahead(x)' <=> Ahead(x)
                            /\ Live(x)' <=> Live(x)
                            /\ Failing(x)' <=> Failing(x)
  BY <1>1, Threads DEF Ahead, Live, Past, Failing
<1>4. Starters(q)' = Starters(q) /\ \A u \in Starters(q) : u = q \/ pc'[u] = pc[u]
  BY <1>1, <1>2, Threads DEF Starters
<1>5. \A at \in {"initNext", "resetStages", "startTask"} :
        (\E u \in Starters(q) : pc[u] = at)' <=> \E u \in Starters(q) : pc[u] = at
  BY <1>1, <1>4 DEF Starting
<1>6. (Codes(q)' <=> Codes(q)) /\ (Prepares(q)' <=> Prepares(q))
  BY <1>5 DEF Codes, Prepares
<1>7. FreshOK(q)'
  BY <1>1, <1>2, Threads DEF PromiseOK, ResultOK, FreshOK
<1>8. ToldOK(q) => ToldOK(q)'
  BY <1>1, <1>2, Threads DEF ToldOK
<1>9. task'[callbackExecutor] \in TasksOf(q) => pc'[callbackExecutor] # "refuse"
  BY <1>1, <1>2, Threads DEF PromiseOK, ResultOK, EndOK
<1>10. Alike(q)
  BY <1>1, <1>3, <1>6, <1>7, <1>8, <1>9 DEF Alike
<1>11. ResultOK(q)'
  BY <1>2, <1>10, AlikeOK DEF PromiseOK
<1>12. WaitedOK(q)'
  <2>1. client'[q].last = "StartAsync" =>
          /\ client'[q].started >= 1
          /\ \/ request'[q].current = request'[q].async
             \/ (\E u \in Starters(q) : pc[u] = "resetStages")'
    BY <1>2, <1>5 DEF PromiseOK, WaitedOK
  <2>2. PICK x : x = request'[q].current
    OBVIOUS
  <2>3. Queued(x)' <=> Queued(x)
    BY <1>1
  <2> QED BY <1>1, <2>1, <2>2, <2>3 DEF WaitedOK
<1>13. OwnedOK(q)'
  BY <1>1, <1>2 DEF PromiseOK, OwnedOK
<1> QED BY <1>1, <1>11, <1>12, <1>13, OthersPromise DEF PromiseOK

LEMMA CallsPromise ==
  ASSUME IInv, Promises, Callback \cap WaitsInLoop = {}, NEW q \in Request, Owner(q)
  PROVE  Promises' /\ (client' = client \/ client' = [client EXCEPT ![q].owned = FALSE])
<1>1. PICK to \in {"StartAsync", "InferSync", "Wait", "destroy", "ended"} :
        /\ Go(q, "idle", to)
        /\ UNCHANGED <<request, tasks, taskQueue, task, copy>>
        /\ \/ client' = client /\ to \notin {"destroy", "ended"}
           \/ /\ client' = [client EXCEPT ![q].owned = FALSE]
              /\ to \in {"destroy", "ended"} /\ MayLetGo(q)
        /\ to = "Wait" => MayWait(q)
  <2>1. CASE MayStart(q) /\ Call(q, "StartAsync")
    BY <2>1 DEF Call
  <2>2. CASE MayInfer(q) /\ Call(q, "InferSync")
    BY <2>2 DEF Call
  <2>3. CASE MayWait(q) /\ Call(q, "Wait")
    BY <2>3 DEF Call
  <2>4. CASE MayLetGo(q) /\ LetGo(q)
    BY <2>4 DEF LetGo
  <2> QED BY <2>1, <2>2, <2>3, <2>4 DEF Owner, WaitOrLetGo
<1>2. client \in [Request -> ClientFields] /\ to \in OwnerAt
  BY DEF IInv, Types, OwnerAt, Waiting
<1>3. /\ client'[q].started = client[q].started /\ client'[q].results = client[q].results
      /\ client'[q].called = client[q].called /\ client'[q].last = client[q].last
      /\ client'[q].waits = client[q].waits
      /\ to \in {"destroy", "ended"} \/ client'[q].owned = client[q].owned
      /\ \A u \in Request \ {q} : client'[u] = client[u]
  BY <1>1, <1>2 DEF ClientFields
<1>4. Move(q, to) /\ pc[q] = "idle"
  BY <1>1, <1>2, <1>3, OwnerMoves
<1>5. to \in Waiting => client'[q].last = "StartAsync"
  BY <1>1, <1>3 DEF MayWait, Waiting
<1>6. to \in {"destroy", "ended"} /\ q \in Callback =>
        client[q].started = 0 \/ Len(client[q].called) >= Repeats[q]
  <2>1. SUFFICES ASSUME to \in {"destroy", "ended"}, q \in Callback, client[q].started # 0
                 PROVE  Len(client[q].called) >= Repeats[q]
    OBVIOUS
  <2>2. client[q].waits = 1
    BY <1>1, <2>1 DEF MayLetGo
  <2> QED BY <2>1, <2>2 DEF Promises, PromiseOK, OwnedOK
<1>7. pc[q] \notin Starting
  BY <1>4 DEF Starting
<1> QED BY <1>1, <1>3, <1>4, <1>5, <1>6, <1>7, OwnerPromise

LEMMA InferPromise ==
  ASSUME IInv, Promises, NEW q \in Request, Infer(q)
  PROVE  /\ Promises'
         /\ client' = client \/ client' = [client EXCEPT ![q].infers = @ + 1, ![q].last = "Infer"]
<1>1. PICK from \in {"InferSync"} \cup Inferring, to \in {"idle", "refuse"} \cup Inferring :
        /\ Go(q, from, to)
        /\ UNCHANGED <<taskQueue, task, copy>>
        /\ \/ request' = request /\ client' = client
           \/ /\ request' = [request EXCEPT ![q].busy = TRUE, ![q].current = Sync(q)]
              /\ client' = [client EXCEPT ![q].infers = @ + 1, ![q].last = "Infer"]
        /\ \A x \in Task : x # Sync(q) => tasks'[x] = tasks[x]
  <2>1. tasks \in [Task -> TaskFields]
    BY DEF IInv, Types
  <2>2. CASE InferIsBusy(q)
    BY <2>2 DEF InferIsBusy, Inferring
  <2>3. CASE InferSetBusy(q)
    BY <2>3 DEF InferSetBusy, Inferring
  <2>4. CASE InferOccupy(q)
    BY <2>1, <2>4 DEF InferOccupy, Inferring
  <2>5. CASE Lock(q)
    BY <2>5 DEF Lock, Inferring
  <2>6. CASE WaitInQueue(q)
    BY <2>6 DEF WaitInQueue, Inferring
  <2>7. CASE InferEnds(q)
    BY <2>1, <2>7 DEF InferEnds, Inferring
  <2>8. CASE Unlock(q)
    BY <2>8 DEF Unlock, Inferring
  <2> QED BY <2>2, <2>3, <2>4, <2>5, <2>6, <2>7, <2>8 DEF Infer
<1>2. client \in [Request -> ClientFields] /\ request \in [Request -> RequestFields]
  BY DEF IInv, Types
<1>3. /\ request'[q].async = request[q].async /\ request'[q].code = request[q].code
      /\ request'[q].exception = request[q].exception
      /\ client'[q].started = client[q].started /\ client'[q].results = client[q].results
      /\ client'[q].called = client[q].called /\ client'[q].waits = client[q].waits
      /\ client'[q].owned = client[q].owned
      /\ \/ client'[q].last = "Infer"
         \/ client'[q].last = client[q].last /\ request'[q].current = request[q].current
      /\ \A u \in Request \ {q} : client'[u] = client[u] /\ request'[u] = request[u]
  BY <1>1, <1>2 DEF ClientFields, RequestFields
<1>4. \A u \in Request : \A x \in TasksOf(u) : tasks'[x] = tasks[x]
  <2>1. ASSUME NEW u \in Request, NEW x \in TasksOf(u)
        PROVE  x \in Task /\ x # Sync(q)
    BY <2>1, TasksOfRequest DEF TasksOf, Sync
  <2> QED BY <1>1, <2>1
<1>5. /\ to \in OwnerAt /\ to \notin Waiting \cup {"destroy", "ended", "awake"}
      /\ to \notin {"setBusy", "reset", "initNext", "resetStages", "startTask"}
      /\ from \notin Starting \cup {"destroy", "ended"}
  BY DEF OwnerAt, Waiting, Inferring, Starting
<1>6. Move(q, to) /\ pc[q] = from
  BY <1>1, <1>3, <1>4, <1>5, OwnerMoves
<1> QED BY <1>1, <1>3, <1>4, <1>5, <1>6, OwnerPromise

LEMMA WaitsPromise ==
  ASSUME IInv, Promises, NEW q \in Request, TakeCurrent(q) \/ OnWait(q) \/ WakeUp(q)
  PROVE  Promises' /\ client' = client
<1>1. PICK from \in {"Wait", "onWait", "asleep"}, to \in {"onWait", "asleep", "awake"} :
        /\ Go(q, from, to)
        /\ UNCHANGED <<request, taskQueue, copy, client>>
        /\ \A t \in Thread : t # q => task'[t] = task[t]
        /\ to = "awake" => from = "asleep" /\ task' = task /\ IsTaskDone(task[q])
        /\ \A x \in Task : /\ tasks'[x].status = tasks[x].status
                           /\ tasks'[x].failed = tasks[x].failed
                           /\ x # request[q].current => tasks'[x] = tasks[x]
  <2>1. /\ tasks \in [Task -> TaskFields] /\ task \in [Thread -> Task \cup {NoTask}]
        /\ request[q].current \in Task
    BY DEF IInv, Types, RequestFields
  <2>2. CASE TakeCurrent(q)
    BY <2>1, <2>2 DEF TakeCurrent
  <2>3. CASE OnWait(q)
    <3>1. task[q] = request[q].current
      BY <2>3 DEF OnWait, Go, IInv, RequestOK, OwnerOK
    <3> QED BY <2>1, <2>3, <3>1 DEF OnWait, TaskFields
  <2>4. CASE WakeUp(q)
    <3>1. task[q] = request[q].current
      BY <2>4 DEF WakeUp, Go, IInv, RequestOK, OwnerOK
    <3> QED BY <2>1, <2>4, <3>1 DEF WakeUp, TaskFields
  <2> QED BY <2>2, <2>3, <2>4
<1>2. /\ from \in Waiting /\ to \in OwnerAt
      /\ from \notin Starting \cup {"destroy", "ended"}
      /\ to \notin {"setBusy", "reset", "initNext", "resetStages", "startTask"}
  BY DEF Waiting, OwnerAt, Starting
<1>3. pc[q] = from
  BY <1>1 DEF Go
<1>4. /\ request[q].current = request[q].async /\ request[q].async \in TasksOf(q)
      /\ client[q].last = "StartAsync"
  BY <1>2, <1>3, WaitsForLast DEF Promises, PromiseOK, WaitedOK
<1>5. \A u \in Request \ {q} : \A x \in TasksOf(u) : tasks'[x] = tasks[x]
  BY <1>1, <1>4, TasksOfRequest, TasksApart
<1>6. \A x \in TasksOf(q) : x \in Task
  BY TasksOfRequest
<1>7. Move(q, to)
  BY <1>1, <1>2, <1>5, OwnerMoves
<1>8. ASSUME to = "awake"
      PROVE  task'[q] = request[q].current /\ ~ Queued(request[q].current)
  <2>1. task[q] = request[q].current
    BY <1>1, <1>3, <1>8 DEF IInv, RequestOK, OwnerOK
  <2>2. PICK x \in TasksOf(q) : x = request[q].current
    BY <1>4
  <2>3. tasks[x].status \in Final \cup {"TS_INITIAL"}
    BY <1>1, <1>8, <2>1, <2>2 DEF IsTaskDone
  <2>4. ~ Queued(x)
    BY <2>3, QueuedStatus DEF IInv, RequestOK, Final
  <2> QED BY <1>1, <1>8, <2>1, <2>2, <2>4
<1> QED BY <1>1, <1>2, <1>3, <1>4, <1>6, <1>7, <1>8, OwnerPromise

(* What Wait tells.                                                        *)
LEMMA WaitEndsPromise ==
  ASSUME IInv, Promises, NEW q \in Request, WaitEnds(q)
  PROVE  /\ Promises'
         /\ client' = [client EXCEPT ![q].waits = @ + 1, ![q].told = Result(q)]
         /\ client[q].started >= 1 /\ Len(client[q].results) = client[q].started
         /\ q \in Callback => Len(client[q].called) = client[q].started
<1>1. /\ Go(q, "awake", "idle") /\ pc[q] = "awake" /\ task' = [task EXCEPT ![q] = NoTask]
      /\ request' = [request EXCEPT ![q].busy = FALSE]
      /\ client' = [client EXCEPT ![q].waits = @ + 1, ![q].told = Answer(task[q])]
      /\ UNCHANGED <<tasks, taskQueue, copy>>
  BY DEF WaitEnds, Go
<1>2. /\ request \in [Request -> RequestFields] /\ client \in [Request -> ClientFields]
      /\ task \in [Thread -> Task \cup {NoTask}] /\ q \in Thread
      /\ "awake" \in Waiting /\ "idle" \in OwnerAt
      /\ "awake" \notin Starting /\ "idle" \notin Waiting
  BY Threads DEF IInv, Types, Waiting, OwnerAt, Starting
<1>3. PromiseOK(q)
  BY DEF Promises
<1>4. /\ request[q].current = request[q].async /\ request[q].async \in TasksOf(q)
      /\ client[q].started >= 1 /\ ~ Prepares(q)
  BY <1>1, <1>2, <1>3, WaitsForLast DEF PromiseOK
<1>5. PICK x \in TasksOf(q) : x = request[q].async
  BY <1>4
<1>6. task[q] = x /\ ~ Queued(x)
  BY <1>1, <1>3, <1>4, <1>5 DEF PromiseOK, WaitedOK
<1>7. Answer(x) = Result(q)
  BY <1>3, <1>4, <1>5, <1>6 DEF PromiseOK, ResultOK, EndOK, Live
<1>8. NoneLive(q) /\ \A y \in TasksOf(q) : ~ Ahead(y)
  BY <1>1, QueuedStatus DEF IInv, RequestOK, OwnerOK, NoneLive
<1>9. /\ Len(client[q].results) = client[q].started
      /\ q \in Callback => Len(client[q].called) = client[q].started
  BY <1>3, <1>8 DEF PromiseOK, ResultOK, CountOK
<1>10. /\ request'[q].async = request[q].async /\ request'[q].code = request[q].code
       /\ request'[q].exception = request[q].exception
       /\ request'[q].current = request[q].current
       /\ client'[q].started = client[q].started /\ client'[q].results = client[q].results
       /\ client'[q].called = client[q].called /\ client'[q].last = client[q].last
       /\ client'[q].owned = client[q].owned
       /\ \A u \in Request \ {q} : client'[u] = client[u] /\ request'[u] = request[u]
       /\ \A t \in Thread : t # q => task'[t] = task[t]
  BY <1>1, <1>2 DEF ClientFields, RequestFields
<1>11. Move(q, "idle")
  BY <1>1, <1>2, <1>10, OwnerMoves
<1>12. q \in Callback => Len(client[q].called) >= Repeats[q]
  BY <1>1, <1>2 DEF IInv, RequestOK, OwnerOK
<1>13. Promises'
  BY <1>1, <1>2, <1>10, <1>11, <1>12, OwnerPromise
<1> QED BY <1>1, <1>4, <1>6, <1>7, <1>9, <1>13

LEMMA DestroyPromise ==
  ASSUME IInv, Promises, NEW t \in Thread, WaitAllAsyncTasks(t)
  PROVE  Promises' /\ client' = client
<1>1. t \in Request
  BY DestroysOwn
<1>2. /\ Go(t, "destroy", "ended")
      /\ request' = [request EXCEPT ![t].destroyed = TRUE]
      /\ UNCHANGED <<tasks, taskQueue, task, copy, client>>
  BY <1>1 DEF WaitAllAsyncTasks, Of
<1>3. /\ request \in [Request -> RequestFields] /\ "ended" \in OwnerAt
      /\ "destroy" \notin Starting /\ "ended" \notin Waiting
  BY DEF IInv, Types, OwnerAt, Starting, Waiting
<1>4. /\ request'[t].async = request[t].async /\ request'[t].code = request[t].code
      /\ request'[t].exception = request[t].exception
      /\ request'[t].current = request[t].current
      /\ \A u \in Request \ {t} : request'[u] = request[u]
  BY <1>1, <1>2, <1>3 DEF RequestFields
<1>5. Move(t, "ended") /\ pc[t] = "destroy"
  BY <1>1, <1>2, <1>3, <1>4, OwnerMoves
<1> QED BY <1>1, <1>2, <1>3, <1>4, <1>5, OwnerPromise

-----------------------------------------------------------------------------
(* All steps, and what they are in module Completion.                      *)

LEMMA NothingPromise ==
  ASSUME IInv, Promises,
         \/ \E e \in Executor : Exit(e) \/ Stop(e)
         \/ UNCHANGED vars
  PROVE  Promises' /\ client' = client
<1>1. CASE \E e \in Executor : Exit(e)
  <2>1. \A u \in Request : Elsewhere(u)
    BY <1>1, ExitOK
  <2> QED BY <1>1, <2>1, ElsewherePromise DEF Promises, Exit
<1>2. CASE (\E e \in Executor : Stop(e)) \/ UNCHANGED vars
  <2>1. UNCHANGED <<request, tasks, taskQueue, syncQueue, pc, task, copy, client>>
    BY <1>2 DEF Stop, vars
  <2>2. \A u \in Request : Elsewhere(u)
    BY <2>1, UnmovedOK
  <2> QED BY <2>1, <2>2, ElsewherePromise DEF Promises
<1> QED BY <1>1, <1>2

(* What a step tells of a request is as before.                            *)
Silent == \A q \in Request : /\ client'[q].started = client[q].started
                             /\ client'[q].results = client[q].results
                             /\ client'[q].called = client[q].called
                             /\ client'[q].told = client[q].told

LEMMA SilentStutters ==
  ASSUME Silent
  PROVE  UNCHANGED Promise!vars
BY DEF Silent, Promise!vars

(* What is told of one request changes.                                    *)
Started == [q \in Request |-> client[q].started]
Results == [q \in Request |-> client[q].results]
Calls   == [q \in Request |-> client[q].called]
Tells   == [q \in Request |-> client[q].told]

LEMMA OneTold ==
  ASSUME NEW q \in Request, \A u \in Request \ {q} : client'[u] = client[u]
  PROVE  /\ Started' = [Started EXCEPT ![q] = client'[q].started]
         /\ Results' = [Results EXCEPT ![q] = client'[q].results]
         /\ Calls' = [Calls EXCEPT ![q] = client'[q].called]
         /\ Tells' = [Tells EXCEPT ![q] = client'[q].told]
         /\ client'[q].started = client[q].started => Started' = Started
         /\ client'[q].results = client[q].results => Results' = Results
         /\ client'[q].called = client[q].called => Calls' = Calls
         /\ client'[q].told = client[q].told => Tells' = Tells
         /\ /\ Started[q] = client[q].started /\ Results[q] = client[q].results
            /\ Calls[q] = client[q].called /\ Tells[q] = client[q].told
<1>1. /\ Started' = [Started EXCEPT ![q] = client'[q].started]
      /\ client'[q].started = client[q].started => Started' = Started
  BY DEF Started
<1>2. /\ Results' = [Results EXCEPT ![q] = client'[q].results]
      /\ client'[q].results = client[q].results => Results' = Results
  BY DEF Results
<1>3. /\ Calls' = [Calls EXCEPT ![q] = client'[q].called]
      /\ client'[q].called = client[q].called => Calls' = Calls
  BY DEF Calls
<1>4. /\ Tells' = [Tells EXCEPT ![q] = client'[q].told]
      /\ client'[q].told = client[q].told => Tells' = Tells
  BY DEF Tells
<1>5. /\ Started[q] = client[q].started /\ Results[q] = client[q].results
      /\ Calls[q] = client[q].called /\ Tells[q] = client[q].told
  BY DEF Started, Results, Calls, Tells
<1> QED BY <1>1, <1>2, <1>3, <1>4, <1>5

LEMMA ExecutorPromise ==
  ASSUME IInv, Promises, NEW e \in Executor, ExecutorStep(e)
  PROVE  Promises' /\ [Promise!Next]_Promise!vars
<1>1. client \in [Request -> ClientFields]
  BY DEF IInv, Types
<1>2. CASE EndInfer(e)
  <2>1. Promises'
    BY <1>2, EndInferPromise
  <2>2. PICK q \in Request, code \in {"OK", "GENERAL_ERROR"} :
          /\ Len(client[q].results) < client[q].started
          /\ client' = [client EXCEPT ![q].results = Append(@, code)]
    BY <1>2, EndInferPromise
  <2>3. /\ client'[q].started = client[q].started
        /\ client'[q].results = Append(client[q].results, code)
        /\ client'[q].called = client[q].called
        /\ client'[q].told = client[q].told
        /\ \A u \in Request \ {q} : client'[u] = client[u]
    BY <1>1, <2>2 DEF ClientFields
  <2>4. /\ Results' = [Results EXCEPT ![q] = Append(Results[q], code)]
        /\ Started' = Started /\ Calls' = Calls /\ Tells' = Tells
        /\ Len(Results[q]) < Started[q]
    BY <2>2, <2>3, OneTold
  <2>5. Promise!Finish(q)
    BY <2>4 DEF Promise!Finish, Promise!Code, Started, Results, Calls, Tells
  <2> QED BY <2>1, <2>5 DEF Promise!Next
<1>3. CASE RunCallback(e)
  <2>1. Promises'
    BY <1>3, RunCallbackPromise
  <2>2. PICK q \in Callback :
          /\ Len(client[q].called) < Len(client[q].results)
          /\ client' = [client EXCEPT ![q].called =
                          Append(@, client[q].results[Len(client[q].called) + 1])]
    BY <1>3, RunCallbackPromise
  <2>3. q \in Request
    BY RequestAssumption
  <2>4. /\ client'[q].started = client[q].started
        /\ client'[q].results = client[q].results
        /\ client'[q].called =
             Append(client[q].called, client[q].results[Len(client[q].called) + 1])
        /\ client'[q].told = client[q].told
        /\ \A u \in Request \ {q} : client'[u] = client[u]
    BY <1>1, <2>2, <2>3 DEF ClientFields
  <2>5. /\ Calls' = [Calls EXCEPT ![q] = Append(Calls[q], Results[q][Len(Calls[q]) + 1])]
        /\ Started' = Started /\ Results' = Results /\ Tells' = Tells
        /\ Len(Calls[q]) < Len(Results[q])
    BY <2>2, <2>3, <2>4, OneTold
  <2>6. Promise!CompletionCallback(q)
    BY <2>5 DEF Promise!CompletionCallback, Started, Results, Calls, Tells
  <2> QED BY <2>1, <2>3, <2>6 DEF Promise!Next
<1>4. CASE Exit(e) \/ Stop(e)
  <2>1. Promises' /\ client' = client
    BY <1>4, NothingPromise
  <2> QED BY <2>1, SilentStutters DEF Silent
<1>5. CASE \/ Run(e) \/ Lambda(e) \/ Inferred(e) \/ SkipCallback(e) \/ Unbusy(e)
           \/ Called(e) \/ Fetch(e) \/ StartCallback(e) \/ Done(e) \/ Threw(e)
           \/ Failure(e) \/ Failed(e)
  <2>1. Promises'
    BY <1>5, QuietTurns, CalledPromise, HandsPromise, FailurePromise, FailedPromise
  <2>2. client' = client
    BY <1>5 DEF Run, Lambda, Inferred, SkipCallback, Unbusy, Called, Fetch, StartCallback,
                Done, Threw, EndTurn, Failure, Failed
  <2> QED BY <2>1, <2>2, SilentStutters DEF Silent
<1> QED BY <1>2, <1>3, <1>4, <1>5 DEF ExecutorStep

LEMMA StartAsyncPromise ==
  ASSUME IInv, Promises, NEW t \in Thread, StartAsync(t)
  PROVE  Promises' /\ [Promise!Next]_Promise!vars
<1>1. PICK q : q = Of(t)
  OBVIOUS
<1>2. CASE StartAsyncTask(t)
  <2>1. /\ Promises' /\ q \in Request
        /\ client' = [client EXCEPT ![q].started = @ + 1, ![q].last = "StartAsync"]
        /\ Len(client[q].results) = client[q].started
        /\ q \in Callback => Len(client[q].called) = client[q].started
    BY <1>1, <1>2, StartPromise
  <2>2. client \in [Request -> ClientFields]
    BY DEF IInv, Types
  <2>3. /\ client'[q].started = client[q].started + 1
        /\ client'[q].results = client[q].results
        /\ client'[q].called = client[q].called
        /\ client'[q].told = client[q].told
        /\ \A u \in Request \ {q} : client'[u] = client[u]
    BY <2>1, <2>2 DEF ClientFields
  <2>4. /\ Started' = [Started EXCEPT ![q] = Started[q] + 1]
        /\ Results' = Results /\ Calls' = Calls /\ Tells' = Tells
        /\ Len(Results[q]) = Started[q]
        /\ q \in Callback => Len(Calls[q]) = Started[q]
    BY <2>1, <2>3, OneTold, ZenonT(30)
  <2>5. Promise!StartAsync(q)
    BY <2>4 DEF Promise!StartAsync, Promise!Ended, Started, Results, Calls, Tells
  <2> QED BY <2>1, <2>5 DEF Promise!Next
<1>3. CASE ~ StartAsyncTask(t)
  <2>1. Promises' /\ client' = client
    BY <1>1, <1>3, QuietStarts, ResetPromise, InitNextPromise DEF StartAsync
  <2> QED BY <2>1, SilentStutters DEF Silent
<1> QED BY <1>2, <1>3

LEMMA WaitPromise ==
  ASSUME IInv, Promises, NEW q \in Request, Wait(q)
  PROVE  Promises' /\ [Promise!Next]_Promise!vars
<1>1. CASE WaitEnds(q)
  <2>1. /\ Promises'
        /\ client' = [client EXCEPT ![q].waits = @ + 1, ![q].told = Result(q)]
        /\ client[q].started >= 1 /\ Len(client[q].results) = client[q].started
        /\ q \in Callback => Len(client[q].called) = client[q].started
    BY <1>1, WaitEndsPromise
  <2>2. client \in [Request -> ClientFields] /\ client[q].started \in Nat
    BY DEF IInv, Types, ClientFields
  <2>3. /\ client'[q].started = client[q].started
        /\ client'[q].results = client[q].results
        /\ client'[q].called = client[q].called
        /\ client'[q].told = client[q].results[Len(client[q].results)]
        /\ \A u \in Request \ {q} : client'[u] = client[u]
    BY <2>1, <2>2 DEF ClientFields, Result
  <2>4. /\ Tells' = [Tells EXCEPT ![q] = Results[q][Len(Results[q])]]
        /\ Started' = Started /\ Results' = Results /\ Calls' = Calls
        /\ Len(Results[q]) = Started[q] /\ Started[q] > 0
        /\ q \in Callback => Len(Calls[q]) = Started[q]
    BY <2>1, <2>2, <2>3, OneTold
  <2>5. Promise!Wait(q)
    BY <2>4 DEF Promise!Wait, Promise!Ended, Started, Results, Calls, Tells
  <2> QED BY <2>1, <2>5 DEF Promise!Next
<1>2. CASE ~ WaitEnds(q)
  <2>1. Promises' /\ client' = client
    BY <1>2, WaitsPromise DEF Wait
  <2> QED BY <2>1, SilentStutters DEF Silent
<1> QED BY <1>1, <1>2

LEMMA StepPromise ==
  ASSUME Callback \cap WaitsInLoop = {}, IInv, Promises, [Next]_vars
  PROVE  Promises' /\ [Promise!Next]_Promise!vars
<1>1. client \in [Request -> ClientFields]
  BY DEF IInv, Types
<1>2. CASE UNCHANGED vars
  <2>1. Promises' /\ client' = client
    BY <1>2, NothingPromise
  <2> QED BY <2>1, SilentStutters DEF Silent
<1>3. ASSUME NEW q \in Request, Owner(q)
      PROVE  Promises' /\ [Promise!Next]_Promise!vars
  <2>1. Promises' /\ (client' = client \/ client' = [client EXCEPT ![q].owned = FALSE])
    BY <1>3, CallsPromise
  <2>2. /\ \A u \in Request \ {q} : client'[u] = client[u]
        /\ client'[q].started = client[q].started /\ client'[q].results = client[q].results
        /\ client'[q].called = client[q].called /\ client'[q].told = client[q].told
    BY <1>1, <2>1 DEF ClientFields
  <2>3. Silent
    BY <2>2 DEF Silent
  <2> QED BY <2>1, <2>3, SilentStutters
<1>4. ASSUME NEW q \in Request, Infer(q)
      PROVE  Promises' /\ [Promise!Next]_Promise!vars
  <2>1. /\ Promises'
        /\ client' = client \/ client' = [client EXCEPT ![q].infers = @ + 1, ![q].last = "Infer"]
    BY <1>4, InferPromise
  <2>2. /\ \A u \in Request \ {q} : client'[u] = client[u]
        /\ client'[q].started = client[q].started /\ client'[q].results = client[q].results
        /\ client'[q].called = client[q].called /\ client'[q].told = client[q].told
    BY <1>1, <2>1 DEF ClientFields
  <2>3. Silent
    BY <2>2 DEF Silent
  <2> QED BY <2>1, <2>3, SilentStutters
<1>5. ASSUME NEW t \in Thread, WaitAllAsyncTasks(t)
      PROVE  Promises' /\ [Promise!Next]_Promise!vars
  <2>1. Promises' /\ client' = client
    BY <1>5, DestroyPromise
  <2> QED BY <2>1, SilentStutters DEF Silent
<1>6. ASSUME NEW t \in Thread, ThreadStep(t)
      PROVE  Promises' /\ [Promise!Next]_Promise!vars
  BY <1>4, <1>5, <1>6, StartAsyncPromise, WaitPromise, ExecutorPromise DEF ThreadStep
<1> QED BY <1>2, <1>3, <1>6 DEF Next

LEMMA InitPromise ==
  ASSUME Init
  PROVE  Promises /\ Promise!Init
<1>1. Promise!Init
  BY DEF Init, Promise!Init
<1>2. ASSUME NEW q \in Request
      PROVE  PromiseOK(q)
  <2>1. /\ pc[q] = "idle" /\ pc[taskExecutor] = "fetch" /\ pc[callbackExecutor] = "fetch"
        /\ task[callbackExecutor] = NoTask /\ task[taskExecutor] = NoTask
        /\ taskQueue[taskExecutor] = <<>> /\ taskQueue[callbackExecutor] = <<>>
    BY Threads DEF Init
  <2>2. \A x \in TasksOf(q) : x # NoTask
    BY TasksOfRequest
  <2>3. \A x \in TasksOf(q) : /\ ~ In1(x) /\ ~ In2(x) /\ ~ Held1(x) /\ ~ Held2(x)
    BY <2>1, <2>2 DEF In1, In2, Held1, Held2, QueueOf
  <2>4. \A x \in TasksOf(q) : ~ Queued(x) /\ ~ Live(x) /\ ~ Ahead(x)
    BY <2>3 DEF Queued, Live, Ahead
  <2>5. /\ client[q].started = 0 /\ client[q].results = <<>> /\ client[q].called = <<>>
        /\ client[q].waits = 0 /\ client[q].owned /\ client[q].last = "none"
    BY DEF Init
  <2>6. NoneLive(q)
    BY <2>4 DEF NoneLive
  <2>7. CountOK(q)
    BY <2>4, <2>5, <2>6 DEF CountOK
  <2>8. \A t \in Starters(q) : pc[t] \in {"idle", "fetch"}
    BY <2>1 DEF Starters
  <2>9. CodeOK(q)
    BY <2>4, <2>8 DEF CodeOK, Codes
  <2>10. FreshOK(q) /\ EndOK(q) /\ WaitedOK(q) /\ OwnedOK(q)
    BY <2>1, <2>3, <2>5 DEF FreshOK, EndOK, WaitedOK, OwnedOK, Waiting
  <2> QED BY <2>7, <2>9, <2>10 DEF PromiseOK, ResultOK
<1> QED BY <1>1, <1>2 DEF Promises

(* Every inference started ends with one result, in order; its callback is *)
(* called once, with that result, before the next is started; and Wait     *)
(* tells the result of the last one: whoever starts the inferences, and    *)
(* whether they fail.                                                      *)
THEOREM KeepsThePromise == Callback \cap WaitsInLoop = {} /\ Spec => RefinesCompletion
<1>1. Init => Promises /\ Promise!Init
  BY InitPromise
<1>2. Callback \cap WaitsInLoop = {} /\ IInv /\ Promises /\ [Next]_vars
        => Promises' /\ [Promise!Next]_Promise!vars
  BY StepPromise
<1>3. (Callback \cap WaitsInLoop = {}) => [](Callback \cap WaitsInLoop = {})
  OBVIOUS
<1> QED BY <1>1, <1>2, <1>3, Invariant, PTL DEF Spec, RefinesCompletion, Promise!Spec

-----------------------------------------------------------------------------
(* No deadlock.  Of each request with a callback: the chain in which a     *)
(* callback starts the inference whose callback comes next, which would    *)
(* leave its owner waiting if it broke; of the TaskSynchronizer, that who  *)
(* is in its queue comes to the end of Infer; and the order in which the   *)
(* executors are stopped.                                                  *)

(* The executor of callbacks has a task of the request in its hands.       *)
Holds(q)      == task[callbackExecutor] \in TasksOf(q)
NoneQueued(q) == \A x \in TasksOf(q) : ~ Queued(x)

(* The callback is about to start the next inference.                      *)
CallsAgain(q) ==
  /\ Holds(q)
  /\ pc[callbackExecutor] \in {"StartAsync", "setBusy", "reset", "initNext", "resetStages",
                               "startTask"}

(* The request is free when its callback runs, and the task whose callback *)
(* runs is the last one, until the next is started.                        *)
CallingOK(q) ==
  Holds(q) =>
    /\ pc[callbackExecutor] \in {"runCallback", "StartAsync"} => ~ request[q].busy
    /\ pc[callbackExecutor] \in AfterCall =>
         \/ task[callbackExecutor] = request[q].async
         \/ client[q].started > Len(client[q].called)
         \/ pc[callbackExecutor] \in {"resetStages", "startTask"}

(* The chain of callbacks does not break.                                  *)
ChainOK(q) ==
  LET c == client[q]
  IN  /\ c.started >= 1 => c.last = "StartAsync"
      /\ Len(c.called) <= Repeats[q]
      /\ c.started >= 1 /\ c.started = Len(c.called) /\ Len(c.called) < Repeats[q] =>
           CallsAgain(q)

(* The owner waits once, and nothing is left to do for it then.            *)
WaitsOnce(q) ==
  LET c == client[q]
  IN  /\ c.waits <= 1
      /\ pc[q] \in Waiting => c.waits = 0
      /\ c.waits >= 1 \/ ~ c.owned => NoneQueued(q)

Lively(q) == CallingOK(q) /\ ChainOK(q) /\ WaitsOnce(q)

(* Who is in the queue of the TaskSynchronizer is there once, and has not  *)
(* come to the end of Infer.                                               *)
InLine == {"waitInQueue", "inferringSync", "unlock"}

LineOK ==
  /\ \A i \in DOMAIN syncQueue : pc[syncQueue[i]] \in InLine
  /\ \A i, j \in DOMAIN syncQueue : syncQueue[i] = syncQueue[j] => i = j

(* The executors are stopped after the requests, in their order.           *)
StopOK ==
  /\ isStopped # {} => \A q \in Request : request[q].destroyed
  /\ \A e \in Executor : pc[e] = "ended" => e \in isStopped
  /\ \A q \in Request : pc[q] = "ended" => request[q].destroyed
  /\ taskExecutor \in isStopped => pc[callbackExecutor] = "ended"
  /\ pc[callbackExecutor] # "destroy"

GoingOn == LineOK /\ StopOK /\ \A q \in Callback : Lively(q)

-----------------------------------------------------------------------------
(* What a step leaves alone.                                               *)

(* The counts of the application are as before.                            *)
SameCounts(q) ==
  /\ client'[q].started = client[q].started /\ client'[q].called = client[q].called
  /\ client'[q].last = client[q].last /\ client'[q].waits = client[q].waits
  /\ client'[q].owned = client[q].owned

LEMMA LivelyStays ==
  ASSUME NEW q \in Callback, Lively(q), SameCounts(q),
         pc'[q] \in Waiting => pc[q] \in Waiting \/ client[q].waits = 0,
         \A x \in TasksOf(q) : Queued(x)' => Queued(x),
         CallsAgain(q) => CallsAgain(q)', CallingOK(q)'
  PROVE  Lively(q)'
<1>1. NoneQueued(q) => NoneQueued(q)'
  BY DEF NoneQueued, TasksOf
<1>2. WaitsOnce(q)'
  BY <1>1 DEF Lively, WaitsOnce, SameCounts
<1>3. ChainOK(q)'
  BY DEF Lively, ChainOK, SameCounts
<1> QED BY <1>2, <1>3 DEF Lively

(* A step that the executor of callbacks does not take.                    *)
LEMMA LivelyBeside ==
  ASSUME NEW q \in Callback, Lively(q), SameCounts(q),
         pc'[q] \in Waiting => pc[q] \in Waiting \/ client[q].waits = 0,
         \A x \in TasksOf(q) : Queued(x)' => Queued(x),
         pc'[callbackExecutor] = pc[callbackExecutor],
         task'[callbackExecutor] = task[callbackExecutor],
         ~ Holds(q) \/ request'[q].async = request[q].async,
         ~ Holds(q) \/ (request'[q].busy => request[q].busy)
  PROVE  Lively(q)'
<1>1. TasksOf(q)' = TasksOf(q)
  BY DEF TasksOf
<1>2. Holds(q)' <=> Holds(q)
  BY <1>1 DEF Holds
<1>3. CallingOK(q)'
  BY <1>2 DEF Lively, CallingOK, SameCounts
<1>4. CallsAgain(q) => CallsAgain(q)'
  BY <1>2 DEF CallsAgain
<1> QED BY <1>3, <1>4, LivelyStays

(* One that the executor of callbacks takes for another, or for none.      *)
LEMMA LivelyAway ==
  ASSUME NEW q \in Callback, Lively(q), SameCounts(q), pc'[q] = pc[q],
         \A x \in TasksOf(q) : Queued(x)' => Queued(x), ~ Holds(q) \/ (~ Holds(q)' /\ ~ CallsAgain(q)),
         Holds(q)' => pc'[callbackExecutor] = "run"
  PROVE  Lively(q)'
<1>1. ~ CallsAgain(q)
  BY DEF CallsAgain
<1>2. CallingOK(q)'
  BY DEF CallingOK, AfterCall, Starting
<1> QED BY <1>1, <1>2, LivelyStays

LEMMA SameQueues ==
  ASSUME UNCHANGED taskQueue
  PROVE  \A x : Queued(x)' <=> Queued(x)
BY DEF Queued, In1, In2, QueueOf

(* A request that a step is not about.                                     *)
LEMMA LivelyElsewhere ==
  ASSUME NEW q \in Callback, Lively(q), Elsewhere(q)
  PROVE  Lively(q)'
<1>1. \A x \in TasksOf(q) : (Queued(x)' <=> Queued(x)) /\ (Held2(x)' <=> Held2(x))
  BY StillLive DEF Elsewhere, Still
<1>2. TasksOf(q)' = TasksOf(q)
  BY DEF TasksOf
<1>3. /\ Holds(q)' <=> Holds(q)
      /\ Holds(q) => /\ task'[callbackExecutor] = task[callbackExecutor]
                     /\ pc'[callbackExecutor] = pc[callbackExecutor]
  BY <1>1, <1>2 DEF Holds, Held2, Elsewhere
<1>4. SameCounts(q) /\ request'[q] = request[q] /\ pc'[q] = pc[q]
  BY DEF SameCounts, Elsewhere
<1>5. CallingOK(q)'
  BY <1>3, <1>4 DEF Lively, CallingOK, SameCounts
<1>6. CallsAgain(q) => CallsAgain(q)'
  BY <1>3 DEF CallsAgain
<1> QED BY <1>1, <1>4, <1>5, <1>6, LivelyStays

-----------------------------------------------------------------------------
(* The owners.                                                             *)

(* A step of an owner that only reads, or changes what Lively is not about.*)
LEMMA OwnerLively ==
  ASSUME IInv, NEW r \in Request, NEW from, NEW to, Go(r, from, to), UNCHANGED taskQueue,
         \A u \in Thread : u # r => task'[u] = task[u],
         \A u \in Request : u # r => request'[u] = request[u] /\ client'[u] = client[u],
         r \in Callback /\ Lively(r) => Lively(r)',
         NEW q \in Callback, Lively(q)
  PROVE  Lively(q)'
<1>1. \A u \in Thread : u # r => pc'[u] = pc[u]
  BY DEF Go, IInv, Types
<1>2. q \in Request
  BY RequestAssumption
<1>3. CASE q # r
  <2>1. SameCounts(q) /\ request'[q] = request[q] /\ pc'[q] = pc[q]
    BY <1>1, <1>2, <1>3, Threads DEF SameCounts
  <2>2. /\ pc'[callbackExecutor] = pc[callbackExecutor]
        /\ task'[callbackExecutor] = task[callbackExecutor]
    BY <1>1, Threads
  <2> QED BY <2>1, <2>2, SameQueues, LivelyBeside
<1> QED BY <1>3

LEMMA CallsLively ==
  ASSUME IInv, Promises, Callback \cap WaitsInLoop = {}, NEW r \in Request, Owner(r),
         NEW q \in Callback, Lively(q)
  PROVE  Lively(q)'
<1>1. PICK to :
        /\ Go(r, "idle", to)
        /\ UNCHANGED <<request, taskQueue, task>>
        /\ \/ client' = client /\ to \in {"StartAsync", "InferSync"}
           \/ client' = client /\ to = "Wait" /\ MayWait(r)
           \/ client' = [client EXCEPT ![r].owned = FALSE] /\ to \notin Waiting /\ MayLetGo(r)
  <2>1. CASE MayStart(r) /\ Call(r, "StartAsync")
    BY <2>1 DEF Call
  <2>2. CASE MayInfer(r) /\ Call(r, "InferSync")
    BY <2>2 DEF Call
  <2>3. CASE MayWait(r) /\ Call(r, "Wait")
    BY <2>3 DEF Call
  <2>4. CASE MayLetGo(r) /\ LetGo(r)
    BY <2>4 DEF LetGo, Waiting
  <2> QED BY <2>1, <2>2, <2>3, <2>4 DEF Owner, WaitOrLetGo
<1>2. client \in [Request -> ClientFields]
  BY DEF IInv, Types
<1>3. \A u \in Request : u # r => client'[u] = client[u]
  BY <1>1, <1>2
<1>4. ASSUME r \in Callback, Lively(r)
      PROVE  Lively(r)'
  <2>1. /\ \A u \in Thread : pc'[u] = IF u = r THEN to ELSE pc[u]
        /\ pc[r] = "idle"
    BY <1>1 DEF Go, IInv, Types
  <2>2. /\ pc'[callbackExecutor] = pc[callbackExecutor] /\ pc'[r] = to
        /\ task'[callbackExecutor] = task[callbackExecutor]
    BY <1>1, <2>1, Threads
  <2>3. to = "Wait" => client[r].waits = 0
    <3>1. to = "Wait" => client[r].waits < 1
      BY <1>1, <1>4 DEF MayWait, Waiting
    <3>2. client[r].waits \in Nat
      BY <1>2 DEF ClientFields
    <3> QED BY <3>1, <3>2
  <2>4. CASE client' = client
    <3>1. to \in Waiting => to = "Wait"
      BY <1>1, <2>4 DEF Waiting
    <3> QED BY <1>1, <1>4, <2>2, <2>3, <2>4, <3>1, SameQueues, LivelyBeside DEF SameCounts
  <2>5. CASE client' = [client EXCEPT ![r].owned = FALSE] /\ to \notin Waiting /\ MayLetGo(r)
    <3>1. /\ client'[r].started = client[r].started /\ client'[r].called = client[r].called
          /\ client'[r].last = client[r].last /\ client'[r].waits = client[r].waits
      BY <1>2, <2>5 DEF ClientFields
    <3>2. NoneQueued(r)
      <4>1. CASE client[r].started = 0
        <5>1. \A x \in TasksOf(r) : Queued(x) => client[r].started >= 1
          BY DEF IInv, RequestOK, TasksOK, InferenceOK
        <5> QED BY <4>1, <5>1 DEF NoneQueued
      <4>2. CASE client[r].waits = 1
        BY <1>4, <4>2 DEF Lively, WaitsOnce
      <4> QED BY <1>4, <2>5, <4>1, <4>2 DEF MayLetGo
    <3>3. NoneQueued(r)' /\ TasksOf(r)' = TasksOf(r)
      BY <1>1, <3>2, SameQueues DEF NoneQueued, TasksOf
    <3>4. Holds(r)' <=> Holds(r)
      BY <2>2, <3>3 DEF Holds
    <3>5. CallingOK(r)'
      BY <1>1, <1>4, <2>2, <3>1, <3>4 DEF Lively, CallingOK
    <3>6. ChainOK(r)'
      BY <1>4, <2>2, <3>1, <3>4 DEF Lively, ChainOK, CallsAgain
    <3>7. WaitsOnce(r)'
      BY <1>4, <2>2, <2>5, <3>1, <3>3 DEF Lively, WaitsOnce
    <3> QED BY <3>5, <3>6, <3>7 DEF Lively
  <2> QED BY <1>1, <2>4, <2>5
<1> QED BY <1>1, <1>3, <1>4, OwnerLively

LEMMA InferLively ==
  ASSUME IInv, NEW r \in Request, Infer(r), NEW q \in Callback, Lively(q)
  PROVE  Lively(q)'
<1>1. PICK from \in {"InferSync"} \cup Inferring, to \in {"idle", "refuse"} \cup Inferring :
        /\ Go(r, from, to)
        /\ UNCHANGED <<taskQueue, task>>
        /\ \/ UNCHANGED <<request, client>>
           \/ /\ request' = [request EXCEPT ![r].busy = TRUE, ![r].current = Sync(r)]
              /\ client' = [client EXCEPT ![r].infers = @ + 1, ![r].last = "Infer"]
  <2>1. CASE InferSetBusy(r)
    BY <2>1 DEF InferSetBusy, Inferring
  <2>2. CASE InferIsBusy(r)
    BY <2>2 DEF InferIsBusy, Inferring
  <2>4. CASE InferOccupy(r)
    BY <2>4 DEF InferOccupy, Inferring
  <2>5. CASE Lock(r)
    BY <2>5 DEF Lock, Inferring
  <2>3. CASE WaitInQueue(r) \/ InferEnds(r) \/ Unlock(r)
    BY <2>3 DEF WaitInQueue, InferEnds, Unlock, Inferring
  <2> QED BY <2>1, <2>2, <2>3, <2>4, <2>5 DEF Infer
<1>2. client \in [Request -> ClientFields] /\ request \in [Request -> RequestFields]
  BY DEF IInv, Types
<1>3. \A u \in Request : u # r => request'[u] = request[u] /\ client'[u] = client[u]
  BY <1>1, <1>2
<1>4. ASSUME r \in Callback, Lively(r)
      PROVE  Lively(r)'
  <2>1. pc[r] = from /\ \A u \in Thread : pc'[u] = IF u = r THEN to ELSE pc[u]
    BY <1>1 DEF Go, IInv, Types
  <2>2. /\ pc'[callbackExecutor] = pc[callbackExecutor] /\ pc'[r] = to
        /\ task'[callbackExecutor] = task[callbackExecutor]
    BY <1>1, <2>1, Threads
  <2>3. client[r].started = 0
    BY <1>1, <1>4, <2>1 DEF IInv, RequestOK, OwnerOK
  <2>4. ~ Holds(r) /\ ~ Holds(r)'
    <3>1. ~ Holds(r)
      BY <2>3, WhileCalledBack DEF Holds
    <3> QED BY <2>2, <3>1 DEF Holds, TasksOf
  <2>5. /\ client'[r].started = client[r].started /\ client'[r].called = client[r].called
        /\ client'[r].waits = client[r].waits /\ client'[r].owned = client[r].owned
    BY <1>1, <1>2 DEF ClientFields
  <2>6. CallingOK(r)'
    BY <2>4 DEF CallingOK
  <2>7. ChainOK(r)'
    BY <1>4, <2>3, <2>5 DEF Lively, ChainOK
  <2>8. to \notin Waiting
    BY DEF Waiting, Inferring
  <2>9. NoneQueued(r) => NoneQueued(r)'
    BY <1>1, SameQueues DEF NoneQueued, TasksOf
  <2>10. WaitsOnce(r)'
    BY <1>4, <2>2, <2>5, <2>8, <2>9 DEF Lively, WaitsOnce
  <2> QED BY <2>6, <2>7, <2>10 DEF Lively
<1> QED BY <1>1, <1>3, <1>4, OwnerLively

LEMMA WaitLively ==
  ASSUME IInv, Promises, NEW r \in Request, Wait(r), NEW q \in Callback, Lively(q)
  PROVE  Lively(q)'
<1>1. PICK from \in Waiting, to \in {"idle"} \cup Waiting :
        /\ Go(r, from, to) /\ UNCHANGED taskQueue
        /\ \A u \in Thread : u # r => task'[u] = task[u]
        /\ \/ UNCHANGED <<request, client>>
           \/ WaitEnds(r) /\ from = "awake" /\ to = "idle"
  <2>1. task \in [Thread -> Task \cup {NoTask}]
    BY DEF IInv, Types
  <2>2. CASE TakeCurrent(r)
    BY <2>1, <2>2 DEF TakeCurrent, Waiting
  <2>3. CASE OnWait(r) \/ WakeUp(r)
    BY <2>3 DEF OnWait, WakeUp, Waiting
  <2>4. CASE WaitEnds(r)
    BY <2>1, <2>4 DEF WaitEnds, Waiting
  <2> QED BY <2>2, <2>3, <2>4 DEF Wait
<1>2. client \in [Request -> ClientFields] /\ request \in [Request -> RequestFields]
  BY DEF IInv, Types
<1>3. \A u \in Request : u # r => request'[u] = request[u] /\ client'[u] = client[u]
  BY <1>1, <1>2 DEF WaitEnds
<1>4. ASSUME r \in Callback, Lively(r)
      PROVE  Lively(r)'
  <2>1. pc[r] = from /\ \A u \in Thread : pc'[u] = IF u = r THEN to ELSE pc[u]
    BY <1>1 DEF Go, IInv, Types
  <2>2. /\ pc'[callbackExecutor] = pc[callbackExecutor] /\ pc'[r] = to
        /\ task'[callbackExecutor] = task[callbackExecutor]
    BY <1>1, <2>1, Threads
  <2>3. CASE UNCHANGED <<request, client>>
    BY <1>1, <1>4, <2>1, <2>2, <2>3, SameQueues, LivelyBeside DEF SameCounts
  <2>4. CASE WaitEnds(r) /\ from = "awake" /\ to = "idle"
    <3>1. /\ client'[r].started = client[r].started /\ client'[r].called = client[r].called
          /\ client'[r].last = client[r].last /\ client'[r].waits = client[r].waits + 1
          /\ client'[r].owned = client[r].owned /\ client[r].waits = 0
          /\ request'[r].async = request[r].async /\ ~ request'[r].busy
      BY <1>1, <1>2, <1>4, <2>1, <2>4 DEF WaitEnds, ClientFields, RequestFields, Lively, WaitsOnce
    <3>2. TasksOf(r)' = TasksOf(r) /\ (Holds(r)' <=> Holds(r))
      BY <2>2 DEF TasksOf, Holds
    <3>3. CallingOK(r)'
      BY <1>4, <2>2, <3>1, <3>2 DEF Lively, CallingOK
    <3>4. ChainOK(r)'
      BY <1>4, <2>2, <3>1, <3>2 DEF Lively, ChainOK, CallsAgain
    <3>5. ASSUME NEW x \in TasksOf(r), Queued(x)
          PROVE  FALSE
      <4>1. /\ PromiseOK(r) /\ WaitedOK(r) /\ CountOK(r)
            /\ request[r].current = request[r].async /\ ~ Prepares(r)
            /\ ~ Queued(request[r].current) /\ client[r].started >= 1
        BY <1>1, <2>1, <2>4, WaitsForLast DEF Promises, PromiseOK, ResultOK, WaitedOK
      <4>2. NoneLive(r)
        BY <2>1, <2>4 DEF IInv, RequestOK, OwnerOK
      <4>3. client[r].started = Len(client[r].called)
        BY <1>4, <4>1, <4>2 DEF CountOK
      <4>4. Past(x) /\ x[1] \in Callback
        BY <1>4, <3>5, <4>2, TasksOfRequest DEF NoneLive, Live
      <4>5. Holds(r) /\ x = task[callbackExecutor] /\ pc[callbackExecutor] \in AfterCall
        BY <3>5, <4>4 DEF Past, Holds, Held2
      <4>6. pc[callbackExecutor] \notin {"resetStages", "startTask"}
        BY <4>1, <4>5 DEF Prepares, Starters, Holds
      <4>7. ~ (client[r].started > Len(client[r].called))
        BY <1>2, <4>3 DEF ClientFields
      <4>8. x = request[r].async
        BY <1>4, <4>5, <4>6, <4>7 DEF Lively, CallingOK
      <4> QED BY <3>5, <4>1, <4>8
    <3>6. NoneQueued(r)'
      BY <1>1, <3>2, <3>5, SameQueues DEF NoneQueued
    <3>7. WaitsOnce(r)'
      BY <2>2, <2>4, <3>1, <3>6 DEF WaitsOnce, Waiting
    <3> QED BY <3>3, <3>4, <3>7 DEF Lively
  <2> QED BY <1>1, <2>3, <2>4
<1> QED BY <1>1, <1>3, <1>4, OwnerLively

LEMMA DestroyLively ==
  ASSUME IInv, NEW t \in Thread, WaitAllAsyncTasks(t), NEW q \in Callback, Lively(q)
  PROVE  Lively(q)'
<1>1. t \in Request
  BY DestroysOwn
<1>2. /\ Go(t, "destroy", "ended") /\ pc[t] = "destroy"
      /\ request' = [request EXCEPT ![t].destroyed = TRUE]
      /\ UNCHANGED <<taskQueue, task, client>>
  BY <1>1 DEF WaitAllAsyncTasks, Of, Go
<1>3. request \in [Request -> RequestFields]
  BY DEF IInv, Types
<1>4. \A u \in Request : /\ u # t => request'[u] = request[u]
                         /\ request'[u].async = request[u].async
                         /\ request'[u].busy = request[u].busy
  BY <1>1, <1>2, <1>3 DEF RequestFields
<1>5. ASSUME t \in Callback, Lively(t)
      PROVE  Lively(t)'
  <2>1. \A u \in Thread : pc'[u] = IF u = t THEN "ended" ELSE pc[u]
    BY <1>2 DEF Go, IInv, Types
  <2>2. /\ pc'[callbackExecutor] = pc[callbackExecutor] /\ pc'[t] = "ended"
        /\ task'[callbackExecutor] = task[callbackExecutor] /\ "ended" \notin Waiting
    BY <1>1, <1>2, <2>1, Threads DEF Waiting
  <2> QED BY <1>1, <1>2, <1>4, <1>5, <2>2, SameQueues, LivelyBeside DEF SameCounts
<1> QED BY <1>1, <1>2, <1>4, <1>5, OwnerLively

-----------------------------------------------------------------------------
(* The executor of callbacks.                                              *)

Again == {"StartAsync", "setBusy", "reset", "initNext", "resetStages", "startTask"}

(* A step in the middle of its turn.                                       *)
LEMMA CallbackGoes ==
  ASSUME IInv, NEW from, NEW to, NEW r, r = Of(callbackExecutor),
         Go(callbackExecutor, from, to), from \notin {"fetch", "ended"},
         UNCHANGED <<taskQueue, task>>,
         \A u \in Request : u # r => request'[u] = request[u] /\ client'[u] = client[u],
         SameCounts(r),
         to \in {"runCallback", "StartAsync"} => ~ request'[r].busy,
         to \in AfterCall => \/ task[callbackExecutor] = request'[r].async
                            \/ to \in {"resetStages", "startTask"}
                            \/ /\ request'[r].async = request[r].async
                               /\ from \in AfterCall \ {"resetStages", "startTask"},
         from \in Again => to \in Again,
         NEW q \in Callback, Lively(q)
  PROVE  Lively(q)'
<1>1. /\ pc[callbackExecutor] = from /\ pc'[callbackExecutor] = to
      /\ \A u \in Thread : u # callbackExecutor => pc'[u] = pc[u]
  BY Threads DEF Go, IInv, Types
<1>2. q \in Request /\ pc'[q] = pc[q] /\ TasksOf(q)' = TasksOf(q)
  <2>1. q \in Request
    BY RequestAssumption
  <2> QED BY <1>1, <2>1, Threads DEF TasksOf
<1>3. Holds(q)' <=> Holds(q)
  BY <1>2 DEF Holds
<1>4. Holds(q) => q = r
  BY <1>2, TasksOfRequest, Threads DEF Holds, Of
<1>5. CASE ~ Holds(q)
  <2>1. SameCounts(q)
    BY <1>2, <1>5 DEF SameCounts
  <2> QED BY <1>2, <1>3, <1>5, <2>1, SameQueues, LivelyAway
<1>6. CASE Holds(q)
  <2>1. q = r
    BY <1>4, <1>6
  <2>2. CallingOK(q)'
    BY <1>1, <1>3, <1>6, <2>1 DEF Lively, CallingOK, SameCounts
  <2>3. CallsAgain(q) => CallsAgain(q)'
    BY <1>1, <1>3 DEF CallsAgain, Again
  <2> QED BY <1>2, <2>1, <2>2, <2>3, SameQueues, LivelyStays
<1> QED BY <1>5, <1>6

(* StartAsync, by an owner or by a callback.                               *)
LEMMA StartsLively ==
  ASSUME IInv, NEW t \in Thread, NEW r, r = Of(t), NEW to,
         NEW from \in Starting \cup {"StartAsync"}, Go(t, from, to), from # "startTask",
         UNCHANGED <<taskQueue, task, client>>,
         \A u \in Request : u # r => request'[u] = request[u],
         t = callbackExecutor =>
           /\ to \in Again
           /\ request'[r].async = request[r].async \/ to = "resetStages"
           /\ from \in {"resetStages", "startTask"} => to = "startTask"
           /\ to = "StartAsync" => ~ request'[r].busy,
         to \notin Waiting,
         NEW q \in Callback, Lively(q)
  PROVE  Lively(q)'
<1>1. /\ r \in Request /\ t # taskExecutor
      /\ t # r => t = callbackExecutor
      /\ task[callbackExecutor] \in TasksOf(r) => t = callbackExecutor
      /\ pc[t] = from /\ pc[r] \notin Waiting
  <2>1. pc[t] = from
    BY DEF Go
  <2> QED BY <2>1, Begins
<1>2. CASE t = callbackExecutor
  <2>1. /\ from \in AfterCall /\ from \notin {"fetch", "ended"}
        /\ SameCounts(r) /\ "runCallback" \notin Again
    BY DEF AfterCall, Starting, SameCounts, Again
  <2>2. to = "startTask" => from # "startTask"
    OBVIOUS
  <2> QED BY <1>2, <2>1, <2>2, CallbackGoes
<1>3. CASE t = r
  <2>1. ~ Holds(r)
    BY <1>1, <1>3, Threads DEF Holds
  <2>2. ASSUME r \in Callback, Lively(r)
        PROVE  Lively(r)'
    <3>1. \A u \in Thread : pc'[u] = IF u = r THEN to ELSE pc[u]
      BY <1>1, <1>3 DEF Go, IInv, Types
    <3>2. /\ pc'[callbackExecutor] = pc[callbackExecutor] /\ pc'[r] = to
          /\ task'[callbackExecutor] = task[callbackExecutor]
      BY <1>1, <3>1, Threads
    <3> QED BY <1>1, <2>1, <2>2, <3>2, SameQueues, LivelyBeside DEF SameCounts
  <2> QED BY <1>1, <1>3, <2>2, OwnerLively
<1> QED BY <1>1, <1>2, <1>3

LEMMA StartTaskLively ==
  ASSUME IInv, Promises, NEW t \in Thread, StartAsyncTask(t), NEW q \in Callback, Lively(q)
  PROVE  Lively(q)'
<1>1. PICK r : r = Of(t)
  OBVIOUS
<1>2. PICK x \in TasksOf(r) :
        /\ r \in Request /\ request' = request /\ task' = task
        /\ \A v \in Thread : pc'[v] = IF v = t THEN Back(t) ELSE pc[v]
        /\ \A u \in Request \ {r} : Elsewhere(u)
  BY <1>1, StartAsyncTaskOK
<1>3. CASE q # r
  BY <1>2, <1>3, LivelyElsewhere, RequestAssumption
<1>4. CASE q = r
  <2>1. /\ client' = [client EXCEPT ![q].started = @ + 1, ![q].last = "StartAsync"]
        /\ Len(client[q].called) = client[q].started
        /\ client \in [Request -> ClientFields] /\ client[q].started \in Nat
    <3>1. client \in [Request -> ClientFields]
      BY DEF IInv, Types
    <3>2. client[q].started \in Nat
      BY <1>2, <1>4, <3>1 DEF ClientFields
    <3> QED BY <1>1, <1>4, <3>1, <3>2, StartPromise
  <2>2. /\ client'[q].started = client[q].started + 1 /\ client'[q].last = "StartAsync"
        /\ client'[q].called = client[q].called
        /\ client'[q].waits = client[q].waits /\ client'[q].owned = client[q].owned
    BY <1>2, <1>4, <2>1 DEF ClientFields
  <2>3. /\ pc[t] = "startTask" /\ Len(client[q].called) < Repeats[q]
        /\ t # q => t = callbackExecutor /\ Holds(q)
        /\ q \in Thread /\ callbackExecutor \in Thread /\ q # callbackExecutor
        /\ Holds(q) => t = callbackExecutor
    <3>1. pc[t] = "startTask" /\ "startTask" \in Starting
      BY DEF StartAsyncTask, Go, Starting
    <3> QED BY <1>1, <1>2, <1>4, <3>1, Begins, Threads DEF Starters, Holds
  <2>4. TasksOf(q)' = TasksOf(q) /\ (Holds(q)' <=> Holds(q))
    BY <1>2 DEF TasksOf, Holds
  <2>5. CallingOK(q)'
    <3>1. client'[q].started > Len(client'[q].called)
      BY <2>1, <2>2
    <3>2. Holds(q)' => pc'[callbackExecutor] = "called"
      BY <1>2, <2>3, <2>4, Threads DEF Back
    <3> QED BY <3>1, <3>2 DEF CallingOK
  <2>6. ChainOK(q)'
    <3>1. client'[q].started # Len(client'[q].called)
      BY <2>1, <2>2
    <3> QED BY <2>2, <3>1 DEF Lively, ChainOK
  <2>7. WaitsOnce(q)'
    <3>1. Len(client[q].called) \in Nat /\ Repeats[q] \in Nat /\ client[q].waits \in Nat
      BY <1>2, <1>4, <2>1, RequestAssumption DEF ClientFields
    <3>2. ~ (client[q].waits >= 1)
      BY <1>2, <1>4, <2>3, <3>1 DEF Promises, PromiseOK, OwnedOK
    <3>3. client[q].owned
      <4>1. SUFFICES ASSUME ~ client[q].owned PROVE FALSE
        OBVIOUS
      <4>2. pc[q] \in {"destroy", "ended"} /\ client[q].started = 0
        BY <1>2, <1>4, <2>3, <3>1, <4>1 DEF Promises, PromiseOK, OwnedOK
      <4>3. ~ Holds(q)
        BY <1>2, <1>4, <4>2, WhileCalledBack DEF Holds
      <4> QED BY <2>3, <4>2, <4>3
    <3>4. pc'[q] \notin Waiting
      <4>1. pc[q] \notin Waiting
        BY <1>1, <1>4, <2>3, Begins DEF Starting
      <4> QED BY <1>2, <1>4, <2>3, <4>1 DEF Back, Waiting
    <3> QED BY <2>2, <3>1, <3>2, <3>3, <3>4 DEF Lively, WaitsOnce
  <2> QED BY <2>5, <2>6, <2>7 DEF Lively
<1> QED BY <1>3, <1>4

LEMMA StartAsyncLively ==
  ASSUME IInv, Promises, NEW t \in Thread, StartAsync(t), \A q \in Callback : Lively(q)
  PROVE  \A q \in Callback : Lively(q)'
<1> SUFFICES ASSUME NEW q \in Callback PROVE Lively(q)'
  OBVIOUS
<1> DEFINE r == Of(t)
<1>1. request \in [Request -> RequestFields]
  BY DEF IInv, Types
<1>2. /\ Back(t) \notin Waiting /\ "StartAsync" \notin Starting
      /\ Starting \cap Waiting = {} /\ Again \subseteq Starting \cup {"StartAsync"}
      /\ {"setBusy", "reset", "initNext", "resetStages", "startTask", "refuse"} = Starting
      /\ {"setBusy", "reset", "initNext", "resetStages", "startTask"} \subseteq Again
  BY DEF Back, Waiting, Starting, Again
<1>3. ASSUME pc[t] \in Starting \cup {"StartAsync"}
      PROVE  /\ r \in Request
             /\ t = callbackExecutor =>
                  pc[t] # "refuse" /\ (pc[t] = "StartAsync" => ~ request[r].busy)
  <2>1. r \in Request /\ t \in Starters(r)
    BY <1>3, Begins
  <2>2. t = callbackExecutor => Holds(r)
    BY <2>1, Threads DEF Starters, Holds
  <2>3. t = callbackExecutor => pc[t] # "refuse"
    BY <2>1, <2>2 DEF Promises, PromiseOK, ResultOK, EndOK, Holds
  <2>4. t = callbackExecutor => r \in Callback
    BY <2>1, <2>2, WhileCalledBack DEF Holds
  <2> QED BY <2>1, <2>2, <2>3, <2>4 DEF Lively, CallingOK
<1>4. CASE IsRequestBusy(t)
  <2>1. /\ pc[t] = "StartAsync" /\ UNCHANGED <<request, taskQueue, task, client>>
        /\ Go(t, "StartAsync", IF request[r].busy THEN Back(t) ELSE "setBusy")
    BY <1>4 DEF IsRequestBusy, Go
  <2> QED BY <1>2, <1>3, <2>1, StartsLively
<1>5. CASE SetBusy(t)
  <2>1. /\ pc[t] = "setBusy" /\ UNCHANGED <<taskQueue, task, client>>
        /\ request' = [request EXCEPT ![r].busy = TRUE] /\ Go(t, "setBusy", "reset")
    BY <1>5 DEF SetBusy, Go
  <2>2. /\ request'[r].async = request[r].async
        /\ \A u \in Request : u # r => request'[u] = request[u]
    BY <1>1, <1>2, <1>3, <2>1 DEF RequestFields
  <2> QED BY <1>2, <2>1, <2>2, StartsLively
<1>6. CASE ResetCallback(t)
  <2>1. /\ pc[t] = "reset" /\ UNCHANGED <<taskQueue, task, client>>
        /\ request' = [request EXCEPT ![r].code = "OK", ![r].exception = FALSE]
        /\ Go(t, "reset", "initNext")
    BY <1>6 DEF ResetCallback, Go
  <2>2. /\ request'[r].async = request[r].async
        /\ \A u \in Request : u # r => request'[u] = request[u]
    BY <1>1, <1>2, <1>3, <2>1 DEF RequestFields
  <2>3. /\ UNCHANGED <<taskQueue, task, client>> /\ Go(t, "reset", "initNext")
        /\ "reset" \in Starting /\ "initNext" \in Again /\ "initNext" \notin Waiting
    BY <1>2, <2>1
  <2> QED BY <2>2, <2>3, StartsLively
<1>7. CASE InitNextAsyncTask(t)
  <2>1. /\ pc[t] = "initNext" /\ UNCHANGED <<taskQueue, task, client>>
        /\ Go(t, "initNext", "resetStages")
    BY <1>7 DEF InitNextAsyncTask, Go
  <2>2. \A u \in Request : u # r => request'[u] = request[u]
    BY <1>1, <1>7 DEF InitNextAsyncTask
  <2> QED BY <1>2, <2>1, <2>2, StartsLively
<1>8. CASE ResetStages(t)
  <2>1. /\ pc[t] = "resetStages" /\ UNCHANGED <<taskQueue, task, client>>
        /\ request' = [request EXCEPT ![r].current = request[r].async]
        /\ Go(t, "resetStages", "startTask")
    BY <1>8 DEF ResetStages, Go
  <2>2. /\ request'[r].async = request[r].async
        /\ \A u \in Request : u # r => request'[u] = request[u]
    BY <1>1, <1>2, <1>3, <2>1 DEF RequestFields
  <2> QED BY <1>2, <2>1, <2>2, StartsLively
<1>9. CASE Refuse(t)
  <2>1. /\ pc[t] = "refuse" /\ UNCHANGED <<taskQueue, task, client>>
        /\ request' = [request EXCEPT ![r].busy = FALSE] /\ Go(t, "refuse", Back(t))
    BY <1>9 DEF Refuse, Go
  <2>2. \A u \in Request : u # r => request'[u] = request[u]
    BY <1>1, <2>1
  <2> QED BY <1>2, <1>3, <2>1, <2>2, StartsLively
<1>10. CASE StartAsyncTask(t)
  BY <1>10, StartTaskLively
<1> QED BY <1>4, <1>5, <1>6, <1>7, <1>8, <1>9, <1>10 DEF StartAsync

(* The callback itself: who asks for one more is called by a request that  *)
(* can start it.                                                           *)
LEMMA RunCallbackLively ==
  ASSUME IInv, Promises, NEW e \in Executor, RunCallback(e), NEW q \in Callback, Lively(q)
  PROVE  Lively(q)'
<1>1. PICK r, x : r = Of(e) /\ x = task[e]
  OBVIOUS
<1>2. PICK to \in {"failure", "StartAsync", "called"} :
        /\ e = callbackExecutor /\ Turn(e, r, x, "runCallback", to)
        /\ to = "failure" <=> ~ client[r].owned
        /\ to # "failure" => client' = [client EXCEPT ![r].called = Append(@, request[r].code)]
  BY <1>1, RunCallbackOK
<1>3. /\ r \in Request /\ x \in TasksOf(r) /\ Queued(x) /\ r \in Callback
      /\ pc[e] = "runCallback" /\ pc'[e] = to /\ \A u \in Thread : u # e => pc'[u] = pc[u]
      /\ \A u \in Request \ {r} : Elsewhere(u)
  BY <1>2, TurnMoves
<1>4. CASE q # r
  BY <1>3, <1>4, LivelyElsewhere, RequestAssumption
<1>5. CASE q = r
  <2>1. Holds(q)
    BY <1>1, <1>2, <1>3, <1>5 DEF Holds
  <2>2. client[q].owned
    <3>1. ~ NoneQueued(q)
      BY <1>3, <1>5 DEF NoneQueued
    <3> QED BY <3>1 DEF Lively, WaitsOnce
  <2>3. /\ UNCHANGED <<request, taskQueue, task>>
        /\ client' = [client EXCEPT ![q].called = Append(@, request[q].code)]
        /\ Len(client[q].called) + 1 < Repeats[q] => to = "StartAsync"
    <3>1. /\ UNCHANGED <<request, taskQueue, task>> /\ copy[e] = x /\ tasks[x].stage = 1
      <4>1. "runCallback" \notin AfterCall
        BY DEF AfterCall, Starting
      <4> QED BY <1>1, <1>2, <1>3, <4>1, BeforeCall DEF RunCallback
    <3>2. ASSUME Len(client[q].called) + 1 < Repeats[q]
          PROVE  to = "StartAsync"
      <4>1. Go(e, "runCallback", "StartAsync")
        BY <1>1, <1>5, <2>2, <3>1, <3>2 DEF RunCallback, StageDone
      <4>2. pc'[e] = "StartAsync"
        BY <1>2, <4>1, Threads DEF Go, IInv, Types
      <4> QED BY <1>3, <4>2
    <3> QED BY <1>2, <1>5, <2>2, <3>1, <3>2
  <2>4. /\ client \in [Request -> ClientFields] /\ request[q].code \in {"OK", "GENERAL_ERROR"}
        /\ client[q].called \in Seq({"OK", "GENERAL_ERROR"}) /\ Repeats[q] \in Nat
        /\ client[q].started \in Nat /\ Len(client[q].called) \in Nat
    BY <1>3, <1>5, RequestAssumption, LenProperties DEF IInv, Types, RequestFields, ClientFields
  <2>5. /\ client'[q].started = client[q].started /\ client'[q].last = client[q].last
        /\ client'[q].waits = client[q].waits /\ client'[q].owned = client[q].owned
        /\ Len(client'[q].called) = Len(client[q].called) + 1
    <3>1. /\ client'[q].called = Append(client[q].called, request[q].code)
          /\ client'[q].started = client[q].started /\ client'[q].last = client[q].last
          /\ client'[q].waits = client[q].waits /\ client'[q].owned = client[q].owned
      BY <1>3, <1>5, <2>3, <2>4 DEF ClientFields
    <3> QED BY <2>4, <3>1, AppendProperties
  <2>6. /\ Len(client[q].called) < Repeats[q] /\ x = request[q].async
    <3>1. Live(x)
      <4>1. "runCallback" \notin AfterCall
        BY DEF AfterCall, Starting
      <4> QED BY <1>1, <1>2, <1>3, <4>1, BeforeCall
    <3> QED BY <1>3, <1>5, <3>1 DEF IInv, RequestOK, TasksOK, InferenceOK
  <2>7. TasksOf(q)' = TasksOf(q) /\ Holds(q)' /\ x = task'[callbackExecutor]
    BY <1>1, <1>2, <2>1, <2>3 DEF TasksOf, Holds
  <2>8. CallingOK(q)'
    BY <1>2, <1>3, <2>1, <2>3, <2>6, <2>7 DEF Lively, CallingOK
  <2>9. ChainOK(q)'
    BY <1>2, <1>3, <2>3, <2>4, <2>5, <2>6, <2>7 DEF Lively, ChainOK, CallsAgain
  <2>10. WaitsOnce(q)'
    <3>1. NoneQueued(q) => NoneQueued(q)'
      BY <2>3, SameQueues DEF NoneQueued, TasksOf
    <3>2. pc'[q] = pc[q]
      BY <1>2, <1>3, <1>5, Threads
    <3> QED BY <2>5, <3>1, <3>2 DEF Lively, WaitsOnce
  <2> QED BY <2>8, <2>9, <2>10 DEF Lively
<1> QED BY <1>4, <1>5

-----------------------------------------------------------------------------
(* The other steps of the executors.                                       *)

LEMMA TurnLively ==
  ASSUME IInv, NEW e \in Executor, NEW r, NEW x, NEW from, NEW to, Turn(e, r, x, from, to),
         SameCounts(r), request'[r].async = request[r].async,
         request'[r].busy => request[r].busy,
         e = callbackExecutor =>
           /\ to \in {"runCallback", "StartAsync"} => ~ request'[r].busy
           /\ to \in AfterCall => from \in AfterCall \ {"resetStages", "startTask"}
           /\ from \notin Again,
         NEW q \in Callback, Lively(q)
  PROVE  Lively(q)'
<1>1. /\ r = Of(e) /\ Go(e, from, to) /\ from \notin {"fetch", "ended"}
      /\ UNCHANGED <<taskQueue, task>>
      /\ \A u \in Request : u # r => request'[u] = request[u] /\ client'[u] = client[u]
  BY DEF Turn
<1>2. CASE e = callbackExecutor
  BY <1>1, <1>2, CallbackGoes
<1>3. CASE e = taskExecutor
  <2>1. \A u \in Thread : u # e => pc'[u] = pc[u]
    BY <1>1 DEF Go, IInv, Types
  <2>2. pc'[callbackExecutor] = pc[callbackExecutor] /\ pc'[q] = pc[q] /\ q \in Request
    BY <1>3, <2>1, Threads, RequestAssumption
  <2>3. /\ SameCounts(q) /\ request'[q].async = request[q].async
        /\ request'[q].busy => request[q].busy
    <3>1. CASE q = r
      BY <3>1
    <3>2. CASE q # r
      BY <1>1, <2>2, <3>2 DEF SameCounts
    <3> QED BY <3>1, <3>2
  <2> QED BY <1>1, <2>2, <2>3, SameQueues, LivelyBeside
<1> QED BY <1>2, <1>3, Threads

LEMMA HandedLively ==
  ASSUME IInv, NEW e \in Executor, NEW r, NEW x, NEW from, NEW to, Handed(e, r, x, from, to),
         to = "run" \/ task'[e] = NoTask \/ e = taskExecutor,
         to = "run" => task[e] = NoTask, from \notin Again,
         NEW q \in Callback, Lively(q)
  PROVE  Lively(q)'
<1>1. /\ r \in Request /\ x \in TasksOf(r) /\ Queued(x) /\ Go(e, from, to)
      /\ \A t \in Thread : t # e => task'[t] = task[t]
      /\ UNCHANGED <<request, client>>
      /\ \A y \in Task : y # x => (In1(y)' <=> In1(y)) /\ (In2(y)' <=> In2(y))
  BY DEF Handed, Passes
<1>2. /\ q \in Request /\ SameCounts(q) /\ pc[e] = from /\ pc'[e] = to
      /\ \A t \in Thread : t # e => pc'[t] = pc[t]
      /\ TasksOf(q)' = TasksOf(q) /\ \A y \in TasksOf(q) : y \in Task /\ y # NoTask
  <2>1. q \in Request
    BY RequestAssumption
  <2>2. \A y \in TasksOf(q) : y \in Task /\ y # NoTask
    BY <2>1, TasksOfRequest
  <2>3. pc[e] = from /\ pc'[e] = to /\ \A t \in Thread : t # e => pc'[t] = pc[t]
    BY <1>1, Threads DEF Go, IInv, Types
  <2> QED BY <1>1, <2>1, <2>2, <2>3 DEF SameCounts, TasksOf
<1>3. \A y \in TasksOf(q) : Queued(y)' => Queued(y)
  BY <1>1, <1>2 DEF Queued
<1>4. pc'[q] = pc[q]
  BY <1>2, Threads
<1>5. CASE e = taskExecutor
  <2>1. /\ pc'[callbackExecutor] = pc[callbackExecutor]
        /\ task'[callbackExecutor] = task[callbackExecutor]
    BY <1>1, <1>2, <1>5, Threads
  <2> QED BY <1>1, <1>2, <1>3, <1>4, <2>1, LivelyBeside
<1>6. CASE e = callbackExecutor
  <2>1. ~ CallsAgain(q)
    BY <1>2, <1>6 DEF CallsAgain, Again
  <2>2. to = "run" => ~ Holds(q)
    BY <1>2, <1>6 DEF Holds
  <2>3. to # "run" => ~ Holds(q)'
    BY <1>2, <1>6, Threads DEF Holds
  <2>4. Holds(q)' => pc'[callbackExecutor] = "run"
    BY <1>2, <1>6, <2>3
  <2> QED BY <1>2, <1>3, <1>4, <2>1, <2>2, <2>3, <2>4, LivelyAway
<1> QED BY <1>5, <1>6, Threads

LEMMA ExecutorLively ==
  ASSUME IInv, Promises, NEW e \in Executor, ExecutorStep(e), NEW q \in Callback, Lively(q)
  PROVE  Lively(q)'
<1> DEFINE r == Of(e)
           x == task[e]
<1>1. /\ request \in [Request -> RequestFields] /\ client \in [Request -> ClientFields]
      /\ q \in Request
  BY RequestAssumption DEF IInv, Types
<1>2. /\ {"run", "lambda", "unbusy", "runCallback", "called", "failure", "failed", "inferring",
          "inferred", "skipCallback", "fetch", "startCallback", "done", "threw"} \cap Again = {}
      /\ {"lambda", "unbusy", "runCallback", "startCallback"} \cap AfterCall = {}
      /\ {"called", "failure", "failed"} \subseteq AfterCall \ {"resetStages", "startTask"}
  BY DEF Again, AfterCall, Starting
<1>3. CASE Run(e)
  <2>1. Turn(e, r, x, "run", "lambda") /\ UNCHANGED <<request, client>>
    BY <1>3, RunOK DEF Run
  <2> QED BY <1>2, <2>1, TurnLively DEF SameCounts
<1>4. CASE Lambda(e)
  <2>1. PICK to : /\ Turn(e, r, x, "lambda", to)
                  /\ \/ e = taskExecutor /\ to = "inferring"
                     \/ e = callbackExecutor /\ to = "unbusy"
    BY <1>4, LambdaOK
  <2>2. UNCHANGED <<request, client>>
    BY <1>4 DEF Lambda
  <2> QED BY <1>2, <2>1, <2>2, TurnLively, Threads DEF SameCounts
<1>5. CASE EndInfer(e)
  <2>1. PICK code \in {"OK", "GENERAL_ERROR"}, to \in {"inferred", "failure"} :
          /\ e = taskExecutor /\ Turn(e, r, x, "inferring", to)
          /\ client' = [client EXCEPT ![r].results = Append(@, code)]
    BY <1>5, EndInferOK
  <2>2. r \in Request /\ request' = request
    BY <1>5, <2>1, TurnMoves DEF EndInfer
  <2>3. SameCounts(r)
    BY <1>1, <2>1, <2>2 DEF SameCounts, ClientFields
  <2> QED BY <2>1, <2>2, <2>3, TurnLively, Threads
<1>6. CASE Inferred(e) \/ SkipCallback(e)
  <2>1. PICK from, to : e = taskExecutor /\ Turn(e, r, x, from, to)
    BY <1>6, StagesOK
  <2>2. UNCHANGED <<request, client>>
    BY <1>6 DEF Inferred, SkipCallback
  <2> QED BY <2>1, <2>2, TurnLively, Threads DEF SameCounts
<1>7. CASE Unbusy(e)
  <2>1. Turn(e, r, x, "unbusy", "runCallback") /\ r \in Request
    BY <1>7, UnbusyOK, TurnMoves
  <2>2. request' = [request EXCEPT ![r].busy = FALSE] /\ client' = client
    BY <1>7 DEF Unbusy
  <2>3. request'[r].async = request[r].async /\ ~ request'[r].busy
    BY <1>1, <2>1, <2>2 DEF RequestFields
  <2> QED BY <1>2, <2>1, <2>2, <2>3, TurnLively DEF SameCounts
<1>8. CASE RunCallback(e)
  BY <1>8, RunCallbackLively
<1>9. CASE Called(e)
  <2>1. PICK to : Turn(e, r, x, "called", to) /\ to \in {"destroy", "failure", "done"}
    BY <1>9, CalledOK
  <2>2. UNCHANGED <<request, client>>
    BY <1>9 DEF Called
  <2> QED BY <1>2, <2>1, <2>2, TurnLively DEF SameCounts
<1>10. CASE Failure(e)
  <2>1. Turn(e, r, x, "failure", "failed") /\ r \in Request
    BY <1>10, FailureOK, TurnMoves
  <2>2. request' = [request EXCEPT ![r].busy = FALSE] /\ client' = client
    BY <1>10 DEF Failure
  <2>3. request'[r].async = request[r].async /\ ~ request'[r].busy
    BY <1>1, <2>1, <2>2 DEF RequestFields
  <2> QED BY <1>2, <2>1, <2>2, <2>3, TurnLively DEF SameCounts
<1>11. CASE Failed(e)
  <2>1. PICK to : Turn(e, r, x, "failed", to) /\ (to = "threw" \/ to = "startCallback")
    BY <1>11, FailedOK
  <2>2. r \in Request
    BY <2>1, TurnMoves
  <2>3. request'[r].async = request[r].async /\ request'[r].busy = request[r].busy
        /\ client' = client
    <3>1. \/ UNCHANGED request
          \/ request' = [request EXCEPT ![r].code = FailureCode, ![r].exception = TRUE]
      BY <1>11, FailedOK
    <3> QED BY <1>1, <1>11, <2>2, <3>1 DEF Failed, RequestFields
  <2> QED BY <1>2, <2>1, <2>3, TurnLively DEF SameCounts
<1>12. CASE Fetch(e)
  <2>1. PICK u, y : Handed(e, u, y, "fetch", "run")
    BY <1>12, FetchOK
  <2>2. task[e] = NoTask
    BY <1>12, Threads DEF Fetch, Go, IInv, QueuesOK, TurnOK
  <2> QED BY <1>2, <2>1, <2>2, HandedLively
<1>13. CASE StartCallback(e)
  <2>1. PICK u, y : Handed(e, u, y, "startCallback", "done") /\ e = taskExecutor
    BY <1>13, StartCallbackOK
  <2> QED BY <1>2, <2>1, HandedLively
<1>14. CASE Done(e) \/ Threw(e)
  <2>1. PICK u, y, from : Handed(e, u, y, from, "fetch") /\ from \in {"done", "threw"}
    BY <1>14, TurnEnds
  <2>2. task'[e] = NoTask
    BY <1>14, Threads DEF Done, Threw, EndTurn, IInv, Types
  <2> QED BY <1>2, <2>1, <2>2, HandedLively
<1>15. CASE Exit(e) \/ Stop(e)
  <2>1. Elsewhere(q)
    BY <1>1, <1>15, ExitOK, UnmovedOK DEF Stop
  <2> QED BY <2>1, LivelyElsewhere
<1> QED BY <1>3, <1>4, <1>5, <1>6, <1>7, <1>8, <1>9, <1>10, <1>11, <1>12, <1>13, <1>14, <1>15
        DEF ExecutorStep

LEMMA StepLively ==
  ASSUME Callback \cap WaitsInLoop = {}, IInv, Promises, [Next]_vars,
         \A q \in Callback : Lively(q)
  PROVE  \A q \in Callback : Lively(q)'
<1>1. CASE UNCHANGED vars
  <2>1. UNCHANGED <<request, tasks, taskQueue, syncQueue, pc, task, copy, client>>
    BY <1>1 DEF vars
  <2>2. \A q \in Callback : Elsewhere(q)
    BY <2>1, UnmovedOK, RequestAssumption
  <2> QED BY <2>2, LivelyElsewhere
<1>2. ASSUME NEW t \in Thread, ThreadStep(t)
      PROVE  \A q \in Callback : Lively(q)'
  BY <1>2, StartAsyncLively, InferLively, WaitLively, DestroyLively, ExecutorLively
     DEF ThreadStep
<1>3. ASSUME NEW r \in Request, Owner(r)
      PROVE  \A q \in Callback : Lively(q)'
  BY <1>3, CallsLively
<1> QED BY <1>1, <1>2, <1>3 DEF Next

-----------------------------------------------------------------------------
(* Stopping.                                                               *)

(* A thread goes on, and nothing ends.                                     *)
Moves(t, from, to) ==
  /\ Go(t, from, to) /\ from # "ended" /\ to # "ended"
  /\ to = "destroy" => t \in Request
  /\ UNCHANGED isStopped
  /\ \A q \in Request : request'[q].destroyed = request[q].destroyed

(* It is not in line for Infer.                                            *)
Plain(t, from, to) == Moves(t, from, to) /\ from \notin InLine /\ UNCHANGED syncQueue

LEMMA StartAsyncMoves ==
  ASSUME IInv, NEW t \in Thread, StartAsync(t)
  PROVE  \E from, to : Plain(t, from, to)
<1>1. request \in [Request -> RequestFields]
  BY DEF IInv, Types
<1>2. Back(t) \in {"idle", "called"}
  BY DEF Back
<1>3. CASE IsRequestBusy(t)
  <2>1. PICK to \in {"idle", "called", "setBusy"} : Go(t, "StartAsync", to)
    BY <1>2, <1>3 DEF IsRequestBusy
  <2> QED BY <1>3, <2>1 DEF IsRequestBusy, Plain, Moves, InLine
<1>4. CASE SetBusy(t)
  <2>1. \A q \in Request : request'[q].destroyed = request[q].destroyed
    BY <1>1, <1>4 DEF SetBusy, RequestFields
  <2> QED BY <1>4, <2>1 DEF SetBusy, Plain, Moves, InLine
<1>5. CASE ResetCallback(t)
  <2>1. \A q \in Request : request'[q].destroyed = request[q].destroyed
    BY <1>1, <1>5 DEF ResetCallback, RequestFields
  <2>2. Go(t, "reset", "initNext") /\ UNCHANGED <<isStopped, syncQueue>>
    BY <1>5 DEF ResetCallback
  <2> QED BY <2>1, <2>2 DEF Plain, Moves, InLine
<1>6. CASE InitNextAsyncTask(t)
  <2>1. \A q \in Request : request'[q].destroyed = request[q].destroyed
    <3>1. PICK a, c : request' = [request EXCEPT ![Of(t)].async = a, ![Of(t)].created = c]
      <4>1. pc[t] = "initNext"
        BY <1>6 DEF InitNextAsyncTask, Go
      <4> QED BY <1>6, NextTask
    <3> QED BY <1>1, <3>1 DEF RequestFields
  <2>2. Go(t, "initNext", "resetStages") /\ UNCHANGED <<isStopped, syncQueue>>
    BY <1>6 DEF InitNextAsyncTask
  <2> QED BY <2>1, <2>2 DEF Plain, Moves, InLine
<1>7. CASE ResetStages(t)
  <2>1. \A q \in Request : request'[q].destroyed = request[q].destroyed
    BY <1>1, <1>7 DEF ResetStages, RequestFields
  <2>2. Go(t, "resetStages", "startTask") /\ UNCHANGED <<isStopped, syncQueue>>
    BY <1>7 DEF ResetStages
  <2> QED BY <2>1, <2>2 DEF Plain, Moves, InLine
<1>8. CASE StartAsyncTask(t)
  <2>1. PICK to \in {"idle", "called", "refuse"} : Go(t, "startTask", to)
    BY <1>2, <1>8 DEF StartAsyncTask
  <2>2. UNCHANGED <<request, isStopped, syncQueue>>
    BY <1>8 DEF StartAsyncTask
  <2> QED BY <2>1, <2>2 DEF Plain, Moves, InLine
<1>9. CASE Refuse(t)
  <2>1. \A q \in Request : request'[q].destroyed = request[q].destroyed
    BY <1>1, <1>9 DEF Refuse, RequestFields
  <2>2. Go(t, "refuse", Back(t)) /\ UNCHANGED <<isStopped, syncQueue>>
    BY <1>9 DEF Refuse
  <2> QED BY <1>2, <2>1, <2>2 DEF Plain, Moves, InLine
<1> QED BY <1>3, <1>4, <1>5, <1>6, <1>7, <1>8, <1>9 DEF StartAsync

LEMMA WaitMoves ==
  ASSUME IInv, NEW q \in Request, Wait(q)
  PROVE  \E from, to : Plain(q, from, to)
<1>1. CASE TakeCurrent(q)
  BY <1>1 DEF TakeCurrent, Plain, Moves, InLine
<1>2. CASE OnWait(q)
  BY <1>2 DEF OnWait, Plain, Moves, InLine
<1>3. CASE WakeUp(q)
  BY <1>3 DEF WakeUp, Plain, Moves, InLine
<1>4. CASE WaitEnds(q)
  <2>1. request \in [Request -> RequestFields]
    BY DEF IInv, Types
  <2>2. \A u \in Request : request'[u].destroyed = request[u].destroyed
    BY <1>4, <2>1 DEF WaitEnds, RequestFields
  <2>3. Go(q, "awake", "idle") /\ UNCHANGED <<isStopped, syncQueue>>
    BY <1>4 DEF WaitEnds
  <2> QED BY <2>2, <2>3 DEF Plain, Moves, InLine
<1> QED BY <1>1, <1>2, <1>3, <1>4 DEF Wait

LEMMA InferMoves ==
  ASSUME IInv, NEW q \in Request, Infer(q)
  PROVE  \E from, to : Moves(q, from, to)
<1>1. CASE InferSetBusy(q)
  <2>1. request \in [Request -> RequestFields]
    BY DEF IInv, Types
  <2>2. \A u \in Request : request'[u].destroyed = request[u].destroyed
    BY <1>1, <2>1 DEF InferSetBusy, RequestFields
  <2>3. Go(q, "setBusySync", "occupySync") /\ UNCHANGED isStopped
    BY <1>1 DEF InferSetBusy
  <2> QED BY <2>2, <2>3 DEF Moves
<1>2. CASE InferIsBusy(q)
  BY <1>2 DEF InferIsBusy, Moves
<1>3. CASE InferOccupy(q)
  <2>1. PICK to \in {"refuse", "lock"} : Go(q, "occupySync", to)
    BY <1>3 DEF InferOccupy
  <2> QED BY <1>3, <2>1 DEF InferOccupy, Moves
<1>4. CASE Lock(q)
  <2>1. PICK to \in {"refuse", "waitInQueue"} : Go(q, "lock", to)
    BY <1>4 DEF Lock
  <2> QED BY <1>4, <2>1 DEF Lock, Moves
<1>5. CASE WaitInQueue(q)
  BY <1>5 DEF WaitInQueue, Moves
<1>6. CASE InferEnds(q)
  BY <1>6 DEF InferEnds, Moves
<1>7. CASE Unlock(q)
  BY <1>7 DEF Unlock, Moves
<1> QED BY <1>1, <1>2, <1>3, <1>4, <1>5, <1>6, <1>7 DEF Infer

LEMMA ExecutorMoves ==
  ASSUME IInv, NEW e \in Executor, ExecutorStep(e), ~ Exit(e), ~ Stop(e),
         Called(e) => client[Of(e)].owned
  PROVE  \E from, to : Plain(e, from, to)
<1>1. request \in [Request -> RequestFields]
  BY DEF IInv, Types
<1>2. CASE Run(e) \/ Lambda(e) \/ EndInfer(e)
  <2>1. PICK from \in {"run", "lambda", "inferring"},
             to \in {"lambda", "unbusy", "inferring", "inferred", "failure", "done"} : Go(e, from, to)
    BY <1>2 DEF Run, Lambda, EndInfer
  <2>2. UNCHANGED <<request, isStopped, syncQueue>>
    BY <1>2 DEF Run, Lambda, EndInfer
  <2> QED BY <2>1, <2>2 DEF Plain, Moves, InLine
<1>3. CASE Inferred(e) \/ SkipCallback(e) \/ RunCallback(e) \/ StartCallback(e)
  <2>1. PICK from \in {"inferred", "skipCallback", "runCallback", "startCallback"},
             to \in {"startCallback", "skipCallback", "done", "failure", "StartAsync", "called"} :
          Go(e, from, to)
    <3>1. CASE Inferred(e)
      BY <1>3, <3>1 DEF Inferred, StageDone
    <3>2. CASE SkipCallback(e)
      BY <1>3, <3>2 DEF SkipCallback, StageDone
    <3>3. CASE StartCallback(e)
      BY <1>3, <3>3 DEF StartCallback
    <3>4. CASE RunCallback(e)
      <4>1. PICK to \in {"failure", "StartAsync", "called"} :
              Turn(e, Of(e), task[e], "runCallback", to)
        BY <3>4, RunCallbackOK
      <4> QED BY <4>1 DEF Turn
    <3> QED BY <1>3, <3>1, <3>2, <3>3, <3>4
  <2>2. UNCHANGED <<request, isStopped, syncQueue>>
    BY <1>3 DEF Inferred, SkipCallback, RunCallback, StartCallback
  <2> QED BY <2>1, <2>2 DEF Plain, Moves, InLine
<1>4. CASE Unbusy(e) \/ Failure(e)
  <2>1. PICK from \in {"unbusy", "failure"}, to \in {"runCallback", "failed"} : Go(e, from, to)
    BY <1>4 DEF Unbusy, Failure
  <2>2. /\ request' = [request EXCEPT ![Of(e)].busy = FALSE]
        /\ UNCHANGED <<isStopped, syncQueue>>
    BY <1>4 DEF Unbusy, Failure
  <2>3. \A q \in Request : request'[q].destroyed = request[q].destroyed
    BY <1>1, <2>2 DEF RequestFields
  <2>4. UNCHANGED <<isStopped, syncQueue>>
    BY <2>2
  <2> QED BY <2>1, <2>3, <2>4 DEF Plain, Moves, InLine
<1>5. CASE Called(e)
  <2>1. PICK to \in {"failure", "done"} : Go(e, "called", to)
    BY <1>5 DEF Called
  <2>2. UNCHANGED <<request, isStopped, syncQueue>>
    BY <1>5 DEF Called
  <2> QED BY <2>1, <2>2 DEF Plain, Moves, InLine
<1>6. CASE Failed(e)
  <2>1. PICK to \in {"startCallback", "threw"} : Go(e, "failed", to)
    BY <1>6 DEF Failed
  <2>2. UNCHANGED <<isStopped, syncQueue>>
    BY <1>6 DEF Failed
  <2>3. \A q \in Request : request'[q].destroyed = request[q].destroyed
    <3>1. \/ UNCHANGED request
          \/ request' = [request EXCEPT ![Of(e)].code = FailureCode, ![Of(e)].exception = TRUE]
      BY <1>6, FailedOK
    <3> QED BY <1>1, <3>1 DEF RequestFields
  <2> QED BY <2>1, <2>2, <2>3 DEF Plain, Moves, InLine
<1>7. CASE Fetch(e) \/ Done(e) \/ Threw(e)
  <2>1. PICK from \in {"fetch", "done", "threw"}, to \in {"run", "fetch"} : Go(e, from, to)
    BY <1>7 DEF Fetch, Done, Threw, EndTurn
  <2>2. UNCHANGED <<request, isStopped, syncQueue>>
    BY <1>7 DEF Fetch, Done, Threw, EndTurn
  <2> QED BY <2>1, <2>2 DEF Plain, Moves, InLine
<1> QED BY <1>2, <1>3, <1>4, <1>5, <1>6, <1>7 DEF ExecutorStep

(* The owner still holds a request whose callback returns.                 *)
LEMMA CalledOwned ==
  ASSUME IInv, \A q \in Callback : Lively(q), NEW e \in Executor, Called(e)
  PROVE  client[Of(e)].owned
<1>1. e = callbackExecutor /\ pc[e] \notin {"fetch", "ended"}
  BY CalledOK DEF Called, Go
<1>2. /\ Of(e) \in Request /\ task[e] \in TasksOf(Of(e)) /\ task[e] \in QueueOf(e)
  BY <1>1, Hold DEF IInv
<1>3. Of(e) \in Callback /\ ~ NoneQueued(Of(e))
  BY <1>1, <1>2, WhileCalledBack DEF NoneQueued, Queued, In2
<1> QED BY <1>3 DEF Lively, WaitsOnce

(* No owner lets go of a request whose callback runs.                      *)
LEMMA OwnerMove ==
  ASSUME IInv, NEW q \in Request, q \in Callback \ WaitsInLoop => Lively(q),
         Callback \cap WaitsInLoop = {}, Owner(q)
  PROVE  \E from, to : Plain(q, from, to)
<1>1. CASE \E to \in {"StartAsync", "InferSync", "Wait"} : Call(q, to)
  BY <1>1 DEF Call, Plain, Moves, InLine
<1>2. CASE MayLetGo(q) /\ LetGo(q)
  <2>1. ASSUME NEW e \in Executor, InCallback(e), Of(e) = q
        PROVE  FALSE
    <3>1. e = callbackExecutor /\ pc[e] \notin {"fetch", "ended"}
      BY <2>1, Threads DEF InCallback, IInv, PlacesOK, TaskAt
    <3>2. task[e] \in TasksOf(q) /\ task[e] \in QueueOf(e)
      BY <2>1, <3>1, Hold DEF IInv
    <3>3. q \in Callback /\ client[q].started >= 1
      BY <3>1, <3>2, WhileCalledBack
    <3>4. ~ NoneQueued(q)
      BY <3>1, <3>2 DEF NoneQueued, Queued, In2
    <3>5. client[q].waits = 1
      BY <1>2, <3>3 DEF MayLetGo
    <3> QED BY <3>3, <3>4, <3>5 DEF Lively, WaitsOnce
  <2>2. Go(q, "idle", "destroy") /\ UNCHANGED <<request, isStopped, syncQueue>>
    BY <1>2, <2>1 DEF LetGo
  <2> QED BY <2>2 DEF Plain, Moves, InLine
<1> QED BY <1>1, <1>2 DEF Owner, WaitOrLetGo

LEMMA MovesStop ==
  ASSUME IInv, StopOK, NEW t \in Thread, NEW from, NEW to, Moves(t, from, to)
  PROVE  StopOK'
<1>1. pc[t] = from /\ \A u \in Thread : pc'[u] = IF u = t THEN to ELSE pc[u]
  BY DEF Moves, Go, IInv, Types
<1> QED BY <1>1, Threads DEF StopOK, Moves

LEMMA StepStop ==
  ASSUME Callback \cap WaitsInLoop = {}, IInv, GoingOn, [Next]_vars
  PROVE  StopOK'
<1>1. StopOK
  BY DEF GoingOn
<1>2. \A t \in Thread : (\E from, to : Moves(t, from, to)) => StopOK'
  BY <1>1, MovesStop
<1>3. CASE UNCHANGED vars
  BY <1>1, <1>3 DEF StopOK, vars
<1>4. ASSUME NEW q \in Request, Owner(q)
      PROVE  StopOK'
  <2>1. \E from, to : Plain(q, from, to)
    BY <1>4, OwnerMove DEF GoingOn
  <2> QED BY <1>2, <2>1, Threads DEF Plain
<1>5. ASSUME NEW t \in Thread, WaitAllAsyncTasks(t)
      PROVE  StopOK'
  <2>1. t \in Request
    BY <1>5, DestroysOwn
  <2>2. /\ pc' = [pc EXCEPT ![t] = "ended"] /\ pc[t] = "destroy" /\ UNCHANGED isStopped
        /\ request' = [request EXCEPT ![t].destroyed = TRUE]
    BY <1>5, <2>1 DEF WaitAllAsyncTasks, Go, Of
  <2>3. \A u \in Thread : pc'[u] = IF u = t THEN "ended" ELSE pc[u]
    BY <2>2 DEF IInv, Types
  <2>4. \A u \in Request : request'[u].destroyed = IF u = t THEN TRUE ELSE request[u].destroyed
    <3>1. request \in [Request -> RequestFields]
      BY DEF IInv, Types
    <3> QED BY <2>1, <2>2, <3>1 DEF RequestFields
  <2>5. UNCHANGED isStopped
    BY <2>2
  <2> QED BY <1>1, <2>1, <2>3, <2>4, <2>5, Threads DEF StopOK
<1>6. ASSUME NEW e \in Executor, ExecutorStep(e)
      PROVE  StopOK'
  <2>1. CASE Exit(e)
    <3>1. /\ e \in isStopped /\ UNCHANGED <<request, isStopped>>
          /\ \A u \in Thread : pc'[u] = IF u = e THEN "ended" ELSE pc[u]
      BY <2>1 DEF Exit, Go, IInv, Types
    <3> QED BY <1>1, <3>1, Threads DEF StopOK
  <2>2. CASE Stop(e)
    <3>1. /\ \A q \in Request : request[q].destroyed
          /\ e = taskExecutor => pc[callbackExecutor] = "ended"
          /\ isStopped' = isStopped \cup {e} /\ UNCHANGED <<request, pc>>
      BY <2>2 DEF Stop
    <3> QED BY <1>1, <3>1, Threads DEF StopOK
  <2>3. CASE ~ Exit(e) /\ ~ Stop(e)
    <3>1. \E from, to : Plain(e, from, to)
      BY <1>6, <2>3, CalledOwned, ExecutorMoves DEF GoingOn
    <3> QED BY <1>2, <3>1, Threads DEF Plain
  <2> QED BY <2>1, <2>2, <2>3
<1>7. ASSUME NEW t \in Thread, ThreadStep(t)
      PROVE  StopOK'
  <2>1. CASE StartAsync(t)
    BY <1>2, <2>1, StartAsyncMoves DEF Plain
  <2>2. CASE t \in Request /\ Infer(t)
    BY <1>2, <2>2, InferMoves
  <2>3. CASE t \in Request /\ Wait(t)
    BY <1>2, <2>3, WaitMoves DEF Plain
  <2> QED BY <1>5, <1>6, <1>7, <2>1, <2>2, <2>3 DEF ThreadStep
<1> QED BY <1>3, <1>4, <1>7 DEF Next

-----------------------------------------------------------------------------
(* The line.                                                               *)

LEMMA LineStays ==
  ASSUME IInv, LineOK, UNCHANGED syncQueue, NEW t \in Thread, NEW from, NEW to, Go(t, from, to),
         from \notin InLine \/ to \in InLine
  PROVE  LineOK'
<1>1. pc[t] = from /\ \A u \in Thread : pc'[u] = IF u = t THEN to ELSE pc[u]
  BY DEF Go, IInv, Types
<1>2. \A i \in DOMAIN syncQueue : syncQueue[i] \in Thread
  BY ElementOfSeq, LenProperties, Threads DEF IInv, Types
<1> QED BY <1>1, <1>2 DEF LineOK

LEMMA PlainLine ==
  ASSUME IInv, LineOK, NEW t \in Thread, \E from, to : Plain(t, from, to)
  PROVE  LineOK'
BY LineStays DEF Plain, Moves

LEMMA InferLine ==
  ASSUME IInv, LineOK, NEW q \in Request, Infer(q)
  PROVE  LineOK'
<1>1. /\ pc \in [Thread -> OwnerAt \cup TaskAt \cup CallbackAt]
      /\ syncQueue \in Seq(Request) /\ SyncOK /\ q \in Thread
      /\ Len(syncQueue) \in Nat /\ DOMAIN syncQueue = 1 .. Len(syncQueue)
      /\ \A i \in 1 .. Len(syncQueue) : syncQueue[i] \in Thread
  BY Threads, LenProperties, ElementOfSeq DEF IInv, Types
<1>2. CASE InferIsBusy(q) \/ InferSetBusy(q) \/ InferOccupy(q) \/ (Lock(q) /\ Full)
  <2>1. PICK from \in {"InferSync", "setBusySync", "occupySync", "lock"},
             to \in {"idle", "setBusySync", "occupySync", "refuse", "lock"} : Go(q, from, to)
    BY <1>2 DEF InferIsBusy, InferSetBusy, InferOccupy, Lock
  <2>2. UNCHANGED syncQueue
    BY <1>2 DEF InferIsBusy, InferSetBusy, InferOccupy, Lock
  <2>3. from \notin InLine
    BY <2>1 DEF InLine
  <2> QED BY <1>1, <2>1, <2>2, <2>3, LineStays
<1>3. CASE WaitInQueue(q) \/ InferEnds(q)
  <2>1. PICK from, to \in InLine : Go(q, from, to)
    BY <1>3 DEF WaitInQueue, InferEnds, InLine
  <2>2. UNCHANGED syncQueue
    BY <1>3 DEF WaitInQueue, InferEnds
  <2> QED BY <1>1, <2>1, <2>2, LineStays
<1>4. CASE Lock(q) /\ ~ Full
  <2>1. /\ syncQueue' = Append(syncQueue, q) /\ pc[q] = "lock"
        /\ \A u \in Thread : pc'[u] = IF u = q THEN "waitInQueue" ELSE pc[u]
    BY <1>1, <1>4 DEF Lock, Go
  <2>2. /\ Len(syncQueue') = Len(syncQueue) + 1 /\ syncQueue' \in Seq(Request)
        /\ \A i \in 1 .. Len(syncQueue) : syncQueue'[i] = syncQueue[i]
        /\ syncQueue'[Len(syncQueue) + 1] = q
    BY <1>1, <2>1, AppendProperties
  <2>3. DOMAIN syncQueue' = 1 .. Len(syncQueue) + 1
    BY <2>2, LenProperties
  <2>4. \A i \in 1 .. Len(syncQueue) : syncQueue[i] # q
    BY <1>1, <2>1 DEF LineOK, InLine
  <2>5. \A i \in DOMAIN syncQueue' : i \in 1 .. Len(syncQueue) \/ i = Len(syncQueue) + 1
    BY <1>1, <2>3
  <2>6. \A i \in DOMAIN syncQueue' : pc'[syncQueue'[i]] \in InLine
    BY <1>1, <2>1, <2>2, <2>5 DEF LineOK, InLine
  <2>7. \A i, j \in DOMAIN syncQueue' : syncQueue'[i] = syncQueue'[j] => i = j
    BY <1>1, <2>2, <2>4, <2>5 DEF LineOK
  <2> QED BY <2>6, <2>7 DEF LineOK
<1>5. CASE Unlock(q)
  <2>1. /\ syncQueue # <<>> /\ Head(syncQueue) = q /\ syncQueue' = Tail(syncQueue)
        /\ \A u \in Thread : u # q => pc'[u] = pc[u]
    BY <1>1, <1>5 DEF Unlock, Go, SyncOK
  <2>2. /\ syncQueue' \in Seq(Request) /\ Len(syncQueue') = Len(syncQueue) - 1
        /\ \A i \in 1 .. Len(syncQueue') : syncQueue'[i] = syncQueue[i + 1]
        /\ Len(syncQueue) >= 1 /\ Head(syncQueue) = syncQueue[1]
    BY <1>1, <2>1, HeadTailProperties, EmptySeq
  <2>3. DOMAIN syncQueue' = 1 .. Len(syncQueue) - 1
    BY <2>2, LenProperties
  <2>4. \A i \in DOMAIN syncQueue' : /\ i + 1 \in 1 .. Len(syncQueue) /\ i + 1 # 1
                                     /\ syncQueue'[i] = syncQueue[i + 1]
    BY <1>1, <2>2, <2>3
  <2>5. \A i \in 1 .. Len(syncQueue) : i # 1 => syncQueue[i] # q
    BY <1>1, <2>1, <2>2 DEF LineOK
  <2>6. \A i \in DOMAIN syncQueue' : pc'[syncQueue'[i]] \in InLine
    BY <1>1, <2>1, <2>4, <2>5 DEF LineOK
  <2>7. \A i, j \in DOMAIN syncQueue' : syncQueue'[i] = syncQueue'[j] => i = j
    <3>1. SUFFICES ASSUME NEW i \in DOMAIN syncQueue', NEW j \in DOMAIN syncQueue',
                          syncQueue'[i] = syncQueue'[j]
                   PROVE  i = j
      OBVIOUS
    <3>2. i + 1 = j + 1
      BY <1>1, <2>4, <3>1 DEF LineOK
    <3> QED BY <1>1, <2>3, <3>2
  <2> QED BY <2>6, <2>7 DEF LineOK
<1> QED BY <1>2, <1>3, <1>4, <1>5 DEF Infer

LEMMA StepLine ==
  ASSUME Callback \cap WaitsInLoop = {}, IInv, GoingOn, [Next]_vars
  PROVE  LineOK'
<1>1. LineOK
  BY DEF GoingOn
<1>2. CASE UNCHANGED vars
  BY <1>1, <1>2 DEF LineOK, vars
<1>3. ASSUME NEW q \in Request, Owner(q)
      PROVE  LineOK'
  <2>1. \E from, to : Plain(q, from, to)
    BY <1>3, OwnerMove DEF GoingOn
  <2> QED BY <1>1, <2>1, Threads, PlainLine
<1>4. ASSUME NEW t \in Thread, WaitAllAsyncTasks(t)
      PROVE  LineOK'
  <2>1. Go(t, "destroy", "ended") /\ UNCHANGED syncQueue /\ "destroy" \notin InLine
    BY <1>4 DEF WaitAllAsyncTasks, InLine
  <2> QED BY <1>1, <2>1, LineStays
<1>5. ASSUME NEW e \in Executor, ExecutorStep(e)
      PROVE  LineOK'
  <2>1. CASE Exit(e)
    <3>1. Go(e, "fetch", "ended") /\ UNCHANGED syncQueue /\ "fetch" \notin InLine
      BY <2>1 DEF Exit, InLine
    <3> QED BY <1>1, <3>1, LineStays, Threads
  <2>2. CASE Stop(e)
    BY <1>1, <2>2 DEF Stop, LineOK
  <2>3. CASE ~ Exit(e) /\ ~ Stop(e)
    <3>1. \E from, to : Plain(e, from, to)
      BY <1>5, <2>3, CalledOwned, ExecutorMoves DEF GoingOn
    <3> QED BY <1>1, <3>1, PlainLine, Threads
  <2> QED BY <2>1, <2>2, <2>3
<1>6. ASSUME NEW t \in Thread, ThreadStep(t)
      PROVE  LineOK'
  <2>1. CASE StartAsync(t)
    BY <1>1, <2>1, StartAsyncMoves, PlainLine
  <2>2. CASE t \in Request /\ Wait(t)
    BY <1>1, <2>2, WaitMoves, PlainLine
  <2> QED BY <1>1, <1>4, <1>5, <1>6, <2>1, <2>2, InferLine DEF ThreadStep
<1> QED BY <1>2, <1>3, <1>6 DEF Next

-----------------------------------------------------------------------------
(* Whoever waits, somebody else goes on.                                   *)

LEMMA InitGoing ==
  ASSUME Init
  PROVE  GoingOn
<1>1. /\ \A q \in Request : pc[q] = "idle" /\ ~ request[q].destroyed
      /\ \A e \in Executor : pc[e] = "fetch" /\ task[e] = NoTask /\ taskQueue[e] = <<>>
      /\ syncQueue = <<>> /\ isStopped = {}
  BY Threads DEF Init
<1>2. LineOK
  BY <1>1 DEF LineOK
<1>3. StopOK
  BY <1>1, Threads DEF StopOK
<1>4. ASSUME NEW q \in Callback
      PROVE  Lively(q)
  <2>1. q \in Request /\ Repeats[q] \in Nat \ {0}
    BY RequestAssumption
  <2>2. \A x \in TasksOf(q) : x # NoTask
    BY <2>1, TasksOfRequest
  <2>3. /\ client[q].started = 0 /\ client[q].called = <<>> /\ client[q].waits = 0
        /\ client[q].owned
    BY <2>1 DEF Init
  <2>4. ~ Holds(q)
    BY <1>1, <2>2, Threads DEF Holds
  <2>5. Len(client[q].called) = 0
    BY <2>3
  <2> QED BY <2>1, <2>3, <2>4, <2>5 DEF Lively, CallingOK, ChainOK, WaitsOnce
<1> QED BY <1>2, <1>3, <1>4 DEF GoingOn

(* When executors wait while a request lives, nothing is queued.           *)
LEMMA NothingToRun ==
  ASSUME IInv, StopOK, NEW r \in Request, ~ Ended(r),
         \A e \in Executor : ExecutorWaits(e) \/ Ended(e)
  PROVE  pc[callbackExecutor] = "fetch" /\ \A q \in Request : \A x \in TasksOf(q) : ~ Queued(x)
<1>1. ~ request[r].destroyed
  BY DEF IInv, RequestOK, FieldsOK, Ended
<1>2. \A e \in Executor : e \notin isStopped /\ ~ Ended(e)
  BY <1>1 DEF StopOK, Ended
<1>3. \A e \in Executor : ExecutorWaits(e)
  BY <1>2
<1>4. ASSUME NEW e \in Executor, pc[e] = "run"
      PROVE  \E q \in Request : task[e] \in TasksOf(q) /\ TaskOK(task[e])
  BY <1>4, Hold DEF IInv, RequestOK
<1>5. pc[taskExecutor] = "fetch" /\ taskQueue[taskExecutor] = <<>>
  <2>1. pc[taskExecutor] # "destroy"
    BY DEF IInv, PlacesOK, TaskAt
  <2>2. pc[taskExecutor] = "run" => CanRun(task[taskExecutor])
    BY <1>4, Threads DEF TaskOK, Held1, FirstTurn, Has, CanRun
  <2> QED BY <1>3, <2>1, <2>2, Threads DEF ExecutorWaits
<1>6. \A x : ~ In1(x)
  BY <1>5 DEF In1, QueueOf
<1>7. pc[callbackExecutor] = "fetch" /\ taskQueue[callbackExecutor] = <<>>
  <2>1. pc[callbackExecutor] # "destroy"
    BY DEF StopOK
  <2>2. pc[callbackExecutor] = "run" => CanRun(task[callbackExecutor])
    <3>1. SUFFICES ASSUME pc[callbackExecutor] = "run"
                   PROVE  CanRun(task[callbackExecutor])
      OBVIOUS
    <3>2. TaskOK(task[callbackExecutor]) /\ Held2(task[callbackExecutor])
      BY <1>4, <3>1, Threads DEF Held2
    <3>3. In2(task[callbackExecutor])
      BY <3>2 DEF TaskOK, SecondTurn
    <3> QED BY <1>6, <3>1, <3>2, <3>3 DEF TaskOK, Has, CanRun
  <2> QED BY <1>3, <2>1, <2>2, Threads DEF ExecutorWaits
<1>8. \A x : ~ In2(x)
  BY <1>7 DEF In2, QueueOf
<1> QED BY <1>6, <1>7, <1>8 DEF Queued

(* An owner whose call sleeps, or that waits for a callback, has something *)
(* to wait for.                                                            *)
LEMMA OwnerGoesOn ==
  ASSUME Callback \cap WaitsInLoop = {}, IInv, Promises, GoingOn,
         NEW q \in Request, \A u \in Request : OwnerWaits(u) \/ Ended(u),
         pc[callbackExecutor] = "fetch", \A x \in TasksOf(q) : ~ Queued(x)
  PROVE  ~ OwnerWaits(q)
<1>1. \A x \in TasksOf(q) : IsTaskDone(x)
  BY DEF IInv, RequestOK, TaskOK, IsTaskDone
<1>2. ASSUME pc[q] = "asleep"
      PROVE  IsTaskDone(task[q])
  <2>1. task[q] \in TasksOf(q)
    BY <1>2, WaitsForLast DEF Waiting, Promises, PromiseOK, IInv, RequestOK, OwnerOK
  <2> QED BY <1>1, <2>1
<1>3. AllEnded(q)
  <2>1. request[q].created \in 0 .. 2
    BY DEF IInv, Types, RequestFields
  <2>2. \A i \in 1 .. request[q].created : i \in 1 .. 2
    BY <2>1
  <2> QED BY <1>1, <2>2, TasksOfRequest DEF AllEnded
<1>4. ASSUME pc[q] = "waitInQueue"
      PROVE  FALSE
  <2>1. syncQueue \in Seq(Request) /\ Len(syncQueue) \in Nat /\ DOMAIN syncQueue = 1 .. Len(syncQueue)
    BY LenProperties DEF IInv, Types
  <2>2. PICK i \in DOMAIN syncQueue : syncQueue[i] = q
    BY <1>4 DEF IInv, SyncOK
  <2>3. syncQueue # <<>> /\ 1 \in DOMAIN syncQueue
    BY <2>1, <2>2
  <2>4. Head(syncQueue) = syncQueue[1] /\ Head(syncQueue) \in Request
    BY <2>1, <2>3, HeadTailProperties
  <2>5. pc[Head(syncQueue)] \in InLine
    BY <2>3, <2>4 DEF GoingOn, LineOK
  <2> QED BY <2>4, <2>5 DEF OwnerWaits, Ended, InLine, MyTurn
<1>5. ASSUME pc[q] = "idle", ~ MayLetGo(q), ~ MayWait(q)
      PROVE  FALSE
  <2>1. q \in Callback /\ q \notin WaitsInLoop /\ client[q].started # 0 /\ client[q].waits # 1
    BY <1>5 DEF MayLetGo
  <2>2. /\ client[q].started \in Nat /\ client[q].waits \in Nat
        /\ Len(client[q].called) \in Nat /\ Repeats[q] \in Nat
    BY RequestAssumption, LenProperties DEF IInv, Types, ClientFields
  <2>3. ChainOK(q) /\ WaitsOnce(q)
    BY <2>1 DEF GoingOn, Lively
  <2>4. client[q].waits = 0 /\ client[q].last = "StartAsync" /\ client[q].started >= 1
    BY <2>1, <2>2, <2>3 DEF ChainOK, WaitsOnce
  <2>5. Len(client[q].called) # Repeats[q]
    BY <1>5, <2>1, <2>4 DEF MayWait
  <2>6. Len(client[q].called) < Repeats[q]
    BY <2>2, <2>3, <2>5 DEF ChainOK
  <2>7. client[q].started = Len(client[q].called)
    BY <2>1 DEF NoneLive, Live, Promises, PromiseOK, ResultOK, CountOK
  <2>8. CallsAgain(q)
    BY <2>3, <2>4, <2>6, <2>7 DEF ChainOK
  <2> QED BY <2>8 DEF CallsAgain
<1> QED BY <1>2, <1>3, <1>4, <1>5 DEF OwnerWaits

LEMMA SomebodyGoes ==
  ASSUME Callback \cap WaitsInLoop = {}, IInv, Promises, GoingOn
  PROVE  NoDeadlock
<1> SUFFICES ASSUME \A q \in Request : OwnerWaits(q) \/ Ended(q),
                    \A e \in Executor : ExecutorWaits(e) \/ Ended(e)
             PROVE  \A t \in Thread : Ended(t)
  BY DEF NoDeadlock
<1>1. \A q \in Request : Ended(q)
  <2>1. SUFFICES ASSUME NEW q \in Request, ~ Ended(q)
                 PROVE  FALSE
    OBVIOUS
  <2>2. pc[callbackExecutor] = "fetch" /\ \A x \in TasksOf(q) : ~ Queued(x)
    BY <2>1, NothingToRun DEF GoingOn
  <2> QED BY <2>1, <2>2, OwnerGoesOn
<1>2. \A q \in Request : request[q].destroyed
  BY <1>1 DEF GoingOn, StopOK, Ended
<1>3. ASSUME NEW e \in Executor, pc[e] = "run"
      PROVE  FALSE
  <2>1. Of(e) \in Request /\ task[e] \in TasksOf(Of(e)) /\ task[e] \in QueueOf(e)
    BY <1>3, Hold DEF IInv
  <2>2. Queued(task[e])
    BY <2>1, Threads DEF Queued, In1, In2
  <2> QED BY <1>2, <2>1, <2>2 DEF IInv, RequestOK, TasksOK, InferenceOK
<1>4. Ended(callbackExecutor)
  BY <1>2, <1>3, Threads DEF ExecutorWaits, GoingOn, StopOK
<1>5. Ended(taskExecutor)
  BY <1>2, <1>3, <1>4, Threads DEF ExecutorWaits, IInv, PlacesOK, TaskAt, Ended
<1> QED BY <1>1, <1>4, <1>5 DEF Thread, Executor

(* Threads never wait for one another in a circle, nor for what nobody is  *)
(* going to do: until all have ended, some thread can go on, whatever      *)
(* inferences fail and however many requests share the two executors.      *)
THEOREM NobodyStuck == Callback \cap WaitsInLoop = {} /\ Spec => []NoDeadlock
<1>1. Init => Promises /\ GoingOn
  BY InitPromise, InitGoing
<1>2. Callback \cap WaitsInLoop = {} /\ IInv /\ Promises /\ GoingOn /\ [Next]_vars
        => Promises' /\ GoingOn'
  <2>1. SUFFICES ASSUME Callback \cap WaitsInLoop = {}, IInv, Promises, GoingOn, [Next]_vars
                 PROVE  Promises' /\ GoingOn'
    OBVIOUS
  <2>2. Promises' /\ LineOK' /\ StopOK'
    BY <2>1, StepPromise, StepLine, StepStop
  <2>3. \A q \in Callback : Lively(q)'
    BY <2>1, StepLively DEF GoingOn
  <2> QED BY <2>2, <2>3 DEF GoingOn
<1>3. Callback \cap WaitsInLoop = {} /\ IInv /\ Promises /\ GoingOn => NoDeadlock
  BY SomebodyGoes
<1>4. (Callback \cap WaitsInLoop = {}) => [](Callback \cap WaitsInLoop = {})
  OBVIOUS
<1> QED BY <1>1, <1>2, <1>3, <1>4, Invariant, PTL DEF Spec
=============================================================================
