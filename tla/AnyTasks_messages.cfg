\* Up to two running tasks that send messages and subscribe each other, as setup
\* does; a third is added in vain by setup or an init callback, the second also
\* by a callback of a pass; two calls per callback.  No timers, no ticks.
\* Two queue slots, so that two posts per removal overrun the queue.
CONSTANTS
  OS_MAXIMUM_TASKS = 3
  OS_MSG_QUEUE_SIZE = 2
  OS_MAXIMUM_TIMERS = 1
  OS_COUNTER_TIME = 2
  UINT16_MOD = 4
  Msg = {m}
  ZeroMsg = m
  TimerValue = {}
  UINT64_MOD = 4
  Byte = 2
  ByteWeights = {1, 2}
  MaxCounter = 1
  Call = {"os_add_task", "os_subscribe_for_event", "os_post_msg", "os_retrieve_msg"}
  SetupCall = {"os_post_msg", "os_subscribe_for_event"}
  Subscribable = {"os_event_msg_pending", "os_event_idle"}
  Others = {0, 1}
  ReturnCode = {"os_task_succeed"}
  MaxCalls = 2
SPECIFICATION FairSpec
INVARIANTS IdleIndexInTable RetrieveSafe
PROPERTIES InitOnce MessageServed IdleServed
CHECK_DEADLOCK FALSE
