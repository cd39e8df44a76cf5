\* One task that uses the whole API: messages, a timer with two values, errors
\* from os_add_task, os_timer_add and os_retrieve_msg, also out of setup.  A timer
\* that setup adds belongs to no task.
CONSTANTS
  OS_MAXIMUM_TASKS = 2
  OS_MSG_QUEUE_SIZE = 2
  OS_MAXIMUM_TIMERS = 1
  OS_COUNTER_TIME = 2
  UINT16_MOD = 4
  Msg = {m}
  ZeroMsg = m
  TimerValue = {2,4}
  UINT64_MOD = 16
  Byte = 4
  ByteWeights = {1, 4}
  MaxCounter = 5
  Call = {"os_add_task", "os_post_msg", "os_retrieve_msg", "os_subscribe_for_event", "os_timer_add", "os_timer_start", "os_timer_stop", "os_timer_new_value"}
  SetupCall = {"os_post_msg", "os_retrieve_msg", "os_timer_add"}
  Subscribable = {"os_event_msg_pending", "os_event_timer", "os_event_idle"}
  Others = {0}
  ReturnCode = {"os_task_succeed"}
  MaxCalls = 1
SPECIFICATION FairSpec
INVARIANTS TypeOK TimerOwners
PROPERTIES TimerServed ErrorStops
CHECK_DEADLOCK FALSE
