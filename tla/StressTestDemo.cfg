CONSTANTS
  OS_MAXIMUM_TASKS = 4
  OS_MSG_QUEUE_SIZE = 1
  OS_MAXIMUM_TIMERS = 4
  OS_COUNTER_TIME = 2
  UINT16_MOD = 8
  Msg = {"none"}
  ZeroMsg = "none"
  TimerValue = {14}
  UINT64_MOD = 64
  Byte = 16
  ByteWeights = {1, 16}
  MaxCounter = 45
  Period = 14
  MaxTicksPerPass = 1
  MaxTicksAnalog = 10
SPECIFICATION FairSpec
INVARIANTS NoBacklog LedFollows
PROPERTY LedServed
CHECK_DEADLOCK FALSE
