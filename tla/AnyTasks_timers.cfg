\* Up to two running tasks that share two timers.  Timer and idle callbacks make
\* one call each, so the calls come in every order.  MaxCounter gives two ticks:
\* both timers can expire, and one of them twice before its owner is called.
CONSTANTS
  OS_MAXIMUM_TASKS = 3
  OS_MSG_QUEUE_SIZE = 1
  OS_MAXIMUM_TIMERS = 2
  OS_COUNTER_TIME = 2
  UINT16_MOD = 4
  Msg = {m}
  ZeroMsg = m
  TimerValue = {2}
  UINT64_MOD = 16
  Byte = 4
  ByteWeights = {1, 4}
  MaxCounter = 5
  Call = {"os_subscribe_for_event", "os_timer_add", "os_timer_start", "os_timer_stop"}
  SetupCall = {}
  Subscribable = {"os_event_timer", "os_event_idle"}
  Others = {}
  ReturnCode = {"os_task_succeed"}
  MaxCalls = 1
SPECIFICATION FairSpec
INVARIANT TimerOwners
PROPERTY TimerServed
CHECK_DEADLOCK FALSE
