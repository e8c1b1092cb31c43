CONSTANTS
  q1 = q1
  q2 = q2
  Request = {q1, q2}
  taskExecutor = taskExecutor
  callbackExecutor = callbackExecutor
  Callback = {q1}
  Repeats <- CRepeats
  WaitsInLoop = {}
  MaxInfers = 1
  MAX_NUMBER_OF_TASKS_IN_QUEUE = 2
  Nobody = Nobody
SPECIFICATION Spec
INVARIANTS TypeOK BusyWhileInferring OneInferAtATime NoUseAfterDestruction NoDeadlock
PROPERTIES RefinesCompletion EverythingEnds
\* All threads end.
CHECK_DEADLOCK FALSE
