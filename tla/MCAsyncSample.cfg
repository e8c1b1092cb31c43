CONSTANTS
  q1 = q1
  q2 = q2
  Request = {q1}
  taskExecutor = taskExecutor
  callbackExecutor = callbackExecutor
  Callback = {q1}
  Repeats <- CRepeats
  WaitsInLoop = {q1}
  MaxInfers = 0
  MAX_NUMBER_OF_TASKS_IN_QUEUE = 10
  Nobody = Nobody
SPECIFICATION Spec
INVARIANT AllRepetitionsWaited
CHECK_DEADLOCK FALSE
