CONSTANTS
  OS_MAXIMUM_TASKS = 4
  OS_MSG_QUEUE_SIZE = 4
  OS_MAXIMUM_TIMERS = 4
  OS_COUNTER_TIME = 2
  UINT16_MOD = 8
  Msg = {"none", "0x55", "0xAA"}
  ZeroMsg = "none"
  TimerValue = {44, 4}
  UINT64_MOD = 128
  Byte = 4
  ByteWeights = {1, 4, 16, 64}
  MaxCounter = 111
  Period = 44
  Delay = 4
  MaxTicksPerPass = 2
SPECIFICATION FairSpec
INVARIANTS NoError NoTokenInvented OneTokenAtATime PeriodKept
PROPERTY TokenReported
CHECK_DEADLOCK FALSE
