\* One task whose callbacks fail; nothing else happens.
CONSTANTS
  OS_MAXIMUM_TASKS = 2
  OS_MSG_QUEUE_SIZE = 1
  OS_MAXIMUM_TIMERS = 1
  OS_COUNTER_TIME = 2
  UINT16_MOD = 2
  Msg = {m}
  ZeroMsg = m
  TimerValue = {}
  UINT64_MOD = 4
  Byte = 2
  ByteWeights = {1, 2}
  MaxCounter = 1
  Call = {"os_subscribe_for_event"}
  SetupCall = {}
  Subscribable = {"os_event_idle"}
  Others = {}
  ReturnCode = {"os_task_failed"}
  MaxCalls = 1
SPECIFICATION FairSpec
PROPERTY FailedStops
CHECK_DEADLOCK FALSE
