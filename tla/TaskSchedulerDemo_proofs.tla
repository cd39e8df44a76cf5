---------------------- MODULE TaskSchedulerDemo_proofs ----------------------
(***************************************************************************)
(* The sketch Task_scheduler.ino never makes the kernel stop: for every    *)
(* task table that holds its three tasks and a spare entry, every timer    *)
(* table that holds its two timers, every size of the message queue and    *)
(* every period and delay.  If eight passes of the loop fit between delay  *)
(* and period, and as long as no access to the counter is torn, it has one *)
(* token under way at a time, and its period drifts by less than the ticks *)
(* of two passes.                                                          *)
(***************************************************************************)
EXTENDS TaskSchedulerDemo, Scheduler_proofs, FiniteSetTheorems

LEMMA DemoSizes ==
  /\ Msg = {"none", "0x55", "0xAA"}
  /\ OS_MAXIMUM_TASKS > 3
  /\ OS_MAXIMUM_TIMERS >= 2
  /\ Period \in TimerValue /\ Delay \in TimerValue
  BY DemoAssumption

(* The variables a callback changes, and what they must be for TypeOK. *)
LEMMA SucceedType ==
  ASSUME TypeOK, Succeed,
         os_error' \in BOOLEAN,
         os_timer_counter' \in 0 .. MaxCounter,
         os_task_admin' \in [TaskIds -> os_task_admin_t],
         os_timers' \in [TimerIds -> os_timer_t],
         os_msg_buffer' \in QueueOf(os_msg_queue_entry_t, OS_MSG_QUEUE_SIZE)
  PROVE  TypeOK'
  BY DEF Succeed, TypeOK, loopVars, os_task_return_codes_t

LEMMA SubscribesType ==
  ASSUME TypeOK, NEW events, Subscribes(events)
  PROVE  /\ os_task_admin' \in [TaskIds -> os_task_admin_t]
         /\ \A t \in TaskIds : os_task_admin'[t].task_cb = os_task_admin[t].task_cb
<1> DEFINE entry == [os_task_admin[task_running] EXCEPT !.event_subscribe =
                       [e \in os_event_t |-> @[e] \/ e \in events]]
<1>1. os_task_admin' = [os_task_admin EXCEPT ![task_running] = entry]
  BY DEF Subscribes
<1>2. task_running \in TaskIds => /\ entry \in os_task_admin_t
                                  /\ entry.task_cb = os_task_admin[task_running].task_cb
  BY DEF TypeOK, os_task_admin_t
<1> HIDE DEF entry
<1> QED
  BY <1>1, <1>2 DEF TypeOK

(* A message that a callback posts. *)
LEMMA PostType ==
  ASSUME TypeOK, NEW t \in os_task_id_t, NEW msg \in Msg
  PROVE  os_queue_add(os_msg_buffer, [destination |-> t, msg |-> msg])
           \in QueueOf(os_msg_queue_entry_t, OS_MSG_QUEUE_SIZE)
<1> DEFINE entry == [destination |-> t, msg |-> msg]
<1>1. entry \in os_msg_queue_entry_t
  BY DEF os_msg_queue_entry_t
<1> HIDE DEF entry
<1>2. os_queue_add(os_msg_buffer, entry) \in QueueOf(os_msg_queue_entry_t, OS_MSG_QUEUE_SIZE)
  BY <1>1, AddQueue, Sizes DEF TypeOK
<1> QED
  BY <1>2 DEF entry

LEMMA TaskIdsOfDemo ==
  taskID_1 \in os_task_id_t /\ taskID_2 \in os_task_id_t /\ taskID_3 \in os_task_id_t
  BY Sizes, DemoSizes DEF taskID_1, taskID_2, taskID_3, os_task_id_t

LEMMA TypeTasks ==
  ASSUME TypeOK, Tasks
  PROVE  TypeOK'
<1> USE Sizes, DemoSizes
<1>1. /\ os_error \in BOOLEAN
      /\ os_task_admin \in [TaskIds -> os_task_admin_t]
      /\ os_timers \in [TimerIds -> os_timer_t]
      /\ os_msg_buffer \in QueueOf(os_msg_queue_entry_t, OS_MSG_QUEUE_SIZE)
      /\ os_timer_counter \in 0 .. MaxCounter
      /\ task_running \in os_task_id_t
  BY DEF TypeOK
<1>2. CASE Task1Init
  <2>1. PICK slot \in 0 .. OS_MAXIMUM_TIMERS :
          /\ Starts(TimerAdded(os_timers, slot, task_running, Period, "os_timer_repeat"),
                    slot)
          /\ os_error' = (os_error \/ slot = OS_MAXIMUM_TIMERS)
    BY <1>2 DEF Task1Init
  <2>2. /\ os_timers' \in [TimerIds -> os_timer_t]
        /\ os_timer_counter' \in 0 .. MaxCounter
    BY <1>1, <2>1, TimerAddedType, TypeStarts
  <2>3. os_task_admin' \in [TaskIds -> os_task_admin_t]
    BY <1>2, SubscribesType DEF Task1Init
  <2>4. os_error' \in BOOLEAN
    BY <2>1
  <2> QED
    BY <1>1, <1>2, <2>2, <2>3, <2>4, SucceedType DEF Task1Init
<1>3. CASE Task2Init
  <2>1. PICK slot \in 0 .. OS_MAXIMUM_TIMERS :
          /\ os_timers' =
               TimerAdded(os_timers, slot, task_running, Delay, "os_timer_one_shot")
          /\ os_error' = (os_error \/ slot = OS_MAXIMUM_TIMERS)
    BY <1>3 DEF Task2Init
  <2>2. os_timers' \in [TimerIds -> os_timer_t]
    BY <1>1, <2>1, TimerAddedType
  <2>3. os_task_admin' \in [TaskIds -> os_task_admin_t]
    BY <1>3, SubscribesType DEF Task2Init
  <2>4. os_error' \in BOOLEAN
    BY <2>1
  <2> QED
    BY <1>1, <1>3, <2>2, <2>3, <2>4, SucceedType DEF Task2Init
<1>4. CASE Task3Init
  <2>1. os_task_admin' \in [TaskIds -> os_task_admin_t]
    BY <1>4, SubscribesType DEF Task3Init
  <2> QED
    BY <1>1, <1>4, <2>1, SucceedType DEF Task3Init
<1>5. CASE Task1Timer
  <2>1. os_msg_buffer' \in QueueOf(os_msg_queue_entry_t, OS_MSG_QUEUE_SIZE)
    BY <1>5, PostType, TaskIdsOfDemo DEF Task1Timer
  <2> QED
    BY <1>1, <1>5, <2>1, SucceedType DEF Task1Timer
<1>6. CASE Task2Timer
  <2>1. os_msg_buffer' \in QueueOf(os_msg_queue_entry_t, OS_MSG_QUEUE_SIZE)
    BY <1>6, PostType, TaskIdsOfDemo DEF Task2Timer
  <2> QED
    BY <1>1, <1>6, <2>1, SucceedType DEF Task2Timer
<1>7. CASE Task2Msg
  <2>1. /\ os_timers' \in [TimerIds -> os_timer_t]
        /\ os_timer_counter' \in 0 .. MaxCounter
    BY <1>1, <1>7, TypeStarts DEF Task2Msg
  <2>2. os_error' \in BOOLEAN
    <3>1. PICK msg \in Msg : Retrieves(msg)
      BY <1>7 DEF Task2Msg
    <3> QED
      BY <1>1, <3>1 DEF Retrieves
  <2> QED
    BY <1>1, <1>7, <2>1, <2>2, SucceedType DEF Task2Msg
<1>8. CASE Task3Msg
  <2>1. os_error' \in BOOLEAN
    <3>1. PICK msg \in Msg : Retrieves(msg)
      BY <1>8 DEF Task3Msg
    <3> QED
      BY <1>1, <3>1 DEF Retrieves
  <2> QED
    BY <1>1, <1>8, <2>1, SucceedType DEF Task3Msg
<1>9. CASE Task3Idle
  BY <1>1, <1>9, SucceedType DEF Task3Idle
<1> QED
  BY <1>2, <1>3, <1>4, <1>5, <1>6, <1>7, <1>8, <1>9 DEF Tasks

LEMMA TypeStep == TypeOK /\ [Next]_vars => TypeOK'
<1> SUFFICES ASSUME TypeOK, [Next]_vars
             PROVE  TypeOK'
  OBVIOUS
<1>1. CASE AddTasks
  BY <1>1, TypeAddTask DEF AddTasks
<1>2. CASE Tasks
  BY <1>2, TypeTasks
<1>3. CASE Kernel
  BY <1>3, TypeKernel DEF Kernel
<1>4. CASE Tick
  BY <1>4, TypeTimerCount DEF Tick
<1>5. CASE UNCHANGED vars
  BY <1>5 DEF vars, osVars, TypeOK, taskVars, runVars, msgVars, timerVars, loopVars
<1> QED
  BY <1>1, <1>2, <1>3, <1>4, <1>5 DEF Next

(* The three tasks keep the kernel to its types, too. *)
THEOREM TypeCorrect == Spec => []TypeOK
<1>1. DemoInit => TypeOK
  BY KernelTypeInit DEF DemoInit
<1> QED
  BY <1>1, TypeStep, PTL DEF Spec
-----------------------------------------------------------------------------
(* The tasks whose init callback has returned. *)
Initialised == IF event = "os_event_init" THEN index - 1 ELSE index

(***************************************************************************)
(* NoError strengthened.  The error sources are a full task table, a full  *)
(* timer table, and a message retrieved by another task.  The first needs  *)
(* the number of tasks, the second that each init callback takes one slot  *)
(* at most and is called once, the third that the pending message belongs  *)
(* to the task that handles it.                                            *)
(***************************************************************************)
TasksFit ==
  /\ os_latest_added_task <= 3
  /\ \A t \in TaskIds : os_latest_added_task <= t => ~os_task_admin[t].task_cb

TimersFit ==
  /\ pc = "setup" => index = 0
  /\ pc \in {"setup", "init"} => event \in {"none", "os_event_init"}
  /\ event = "os_event_init" => pc = "init" /\ task_running = index - 1
  /\ pc \in {"setup", "init"} =>
       \A id \in TimerIds : os_timers[id].used => id < Initialised

NoErrorInv == NoError /\ TasksFit /\ TimersFit /\ PendingIsOwn

LEMMA NoErrorInit == DemoInit => NoErrorInv
<1> SUFFICES ASSUME DemoInit
             PROVE  NoErrorInv
  OBVIOUS
<1> USE DEF DemoInit, Init
<1>1. NoError /\ PendingIsOwn
  BY DEF NoError, PendingIsOwn
<1>2. TasksFit
  BY DEF TasksFit, os_task_init
<1>3. TimersFit
  BY DEF TimersFit, os_timer_init
<1> QED
  BY <1>1, <1>2, <1>3 DEF NoErrorInv

(* The third task leaves an entry, so the table never counts as full. *)
LEMMA NoErrorAddTasks ==
  ASSUME TypeOK, NoErrorInv, AddTasks
  PROVE  NoErrorInv'
<1> USE Sizes, DemoSizes
<1> DEFINE n == os_latest_added_task
           admin == Subscribed(os_task_admin, "os_event_init", n)
<1>1. n \in TaskIds /\ n < 3 /\ pc = "setup" /\ os_add_task(TRUE)
  <2>1. n < 3 /\ pc = "setup" /\ os_add_task(TRUE)
    BY DEF AddTasks
  <2>2. n \in 0 .. OS_MAXIMUM_TASKS
    BY DEF TypeOK, os_task_id_t
  <2>3. n \in TaskIds
    BY <2>1, <2>2 DEF TaskIds
  <2> QED
    BY <2>1, <2>3
<1>2. ~os_task_admin[n].task_cb
  BY <1>1 DEF NoErrorInv, TasksFit, TaskIds
<1>3. /\ os_task_admin' = [admin EXCEPT ![n].task_cb = TRUE]
      /\ os_latest_added_task' = n + 1
      /\ os_error' = (os_error \/ os_latest_added_task' >= OS_MAXIMUM_TASKS)
  BY <1>1, <1>2 DEF os_add_task
<1>4. admin \in [TaskIds -> os_task_admin_t]
  BY SubscribedType DEF TypeOK, os_event_t
<1>5. \A t \in TaskIds : admin[t].task_cb = os_task_admin[t].task_cb
  BY DEF Subscribed, TypeOK, os_task_admin_t
<1>6. UNCHANGED <<os_timers, task_running, event, msg_pending, pc, index>>
  BY <1>1 DEF os_add_task, runVars, msgVars, timerVars, loopVars
<1>7. ~(os_latest_added_task' >= OS_MAXIMUM_TASKS)
  BY <1>1, <1>3 DEF TaskIds
<1>8. NoError'
  BY <1>3, <1>7 DEF NoErrorInv, NoError
<1>9. TasksFit'
  <2>1. n + 1 <= 3
    BY <1>1 DEF TaskIds
  <2>2. \A t \in TaskIds : n + 1 <= t => t # n /\ n <= t
    BY <1>1 DEF TaskIds
  <2>3. \A t \in TaskIds : t # n => os_task_admin'[t] = admin[t]
    <3> HIDE DEF admin, n
    <3> QED
      BY <1>3, <1>4
  <2> HIDE DEF admin
  <2> QED
    BY <1>3, <1>5, <2>1, <2>2, <2>3 DEF NoErrorInv, TasksFit
<1>10. TimersFit' /\ PendingIsOwn'
  BY <1>6 DEF NoErrorInv, TimersFit, Initialised, PendingIsOwn
<1> QED
  BY <1>8, <1>9, <1>10 DEF NoErrorInv

(* A free slot lies below the number of tasks that may have taken one. *)
LEMMA FreeSlot ==
  ASSUME TypeOK, NoErrorInv, event = "os_event_init", task_running \in {0, 1},
         NEW slot \in 0 .. OS_MAXIMUM_TIMERS, IsFreeSlot(os_timers, slot)
  PROVE  slot < index /\ slot < OS_MAXIMUM_TIMERS
<1> USE Sizes, DemoSizes
<1>1. pc = "init" /\ task_running = index - 1 /\ index \in Nat
  BY DEF NoErrorInv, TimersFit, TypeOK
<1>2. \A id \in TimerIds : os_timers[id].used => id < index - 1
  BY <1>1 DEF NoErrorInv, TimersFit, Initialised
<1>3. ~os_timers[index - 1].used /\ index - 1 \in TimerIds
  BY <1>1, <1>2 DEF TimerIds
<1>4. ~(index - 1 < slot)
  BY <1>3 DEF IsFreeSlot
<1> QED
  BY <1>1, <1>4

(* The slots in use after a timer is added, and perhaps started. *)
LEMMA UsedSlots ==
  ASSUME NEW timers \in [TimerIds -> os_timer_t], NEW slot, NEW t, NEW value, NEW type,
         NEW n
  PROVE  LET added == TimerAdded(timers, slot, t, value, type)
         IN  \A id \in TimerIds :
               /\ added[id].used => timers[id].used \/ id = slot
               /\ StartValueSet(added, slot, n)[id].used => timers[id].used \/ id = slot
<1> DEFINE entry == [task_id |-> t, type |-> type, value |-> value, used |-> TRUE,
                     start_value |-> timers[slot].start_value]
           added == TimerAdded(timers, slot, t, value, type)
           started == [added[slot] EXCEPT !.start_value = n]
<1>1. added \in {timers, [timers EXCEPT ![slot] = entry]}
  BY DEF TimerAdded
<1>2. StartValueSet(added, slot, n) \in {added, [added EXCEPT ![slot] = started]}
  BY DEF StartValueSet
<1> HIDE DEF entry, started
<1>3. \A id \in TimerIds : id # slot => added[id] = timers[id]
  BY <1>1
<1>4. DOMAIN added = TimerIds
  BY <1>1
<1> HIDE DEF added
<1>5. \A id \in TimerIds : id # slot => StartValueSet(added, slot, n)[id] = timers[id]
  BY <1>2, <1>3, <1>4
<1> QED
  BY <1>3, <1>5 DEF added

(* What is left to see after the callbacks of an event other than init. *)
LEMMA NoErrorSucceed ==
  ASSUME TypeOK, NoErrorInv, Succeed, ~os_error',
         \A t \in TaskIds : os_task_admin'[t].task_cb = os_task_admin[t].task_cb,
         event = "os_event_init" =>
           \A id \in TimerIds : os_timers'[id].used => id < index,
         event # "none"
  PROVE  NoErrorInv'
<1>1. /\ event' = "none"
      /\ UNCHANGED <<task_running, os_latest_added_task, msg_pending, pc, index>>
  BY DEF Succeed, loopVars
<1>2. TasksFit'
  BY <1>1 DEF NoErrorInv, TasksFit
<1>3. TimersFit'
  BY <1>1 DEF NoErrorInv, TimersFit, Initialised
<1>4. PendingIsOwn' /\ NoError'
  BY <1>1 DEF PendingIsOwn, NoError
<1> QED
  BY <1>2, <1>3, <1>4 DEF NoErrorInv

(* os_timer_start changes start_value at most. *)
LEMMA StartsSome ==
  ASSUME NEW timers, NEW id, Starts(timers, id)
  PROVE  \E n : os_timers' = StartValueSet(timers, id, n)
  BY DEF Starts, StartValueSet

LEMMA NoErrorTasks ==
  ASSUME TypeOK, NoErrorInv, Tasks
  PROVE  NoErrorInv'
<1> USE Sizes, DemoSizes
<1>1. ~os_error /\ PendingIsOwn
  BY DEF NoErrorInv, NoError
<1>2. os_timers \in [TimerIds -> os_timer_t] /\ index \in Nat
  BY DEF TypeOK
<1>3. CASE Task1Init
  <2>1. PICK slot \in 0 .. OS_MAXIMUM_TIMERS :
          /\ IsFreeSlot(os_timers, slot)
          /\ Starts(TimerAdded(os_timers, slot, task_running, Period, "os_timer_repeat"),
                    slot)
          /\ os_error' = (os_error \/ slot = OS_MAXIMUM_TIMERS)
    BY <1>3 DEF Task1Init
  <2>2. event = "os_event_init" /\ task_running = 0
    BY <1>3 DEF Task1Init, Handles, taskID_1
  <2>3. slot < index /\ ~os_error'
    <3>1. slot < index /\ slot < OS_MAXIMUM_TIMERS
      BY <2>1, <2>2, FreeSlot
    <3>2. slot # OS_MAXIMUM_TIMERS
      BY <3>1
    <3>3. ~os_error'
      BY <1>1, <2>1, <3>2, Zenon
    <3> QED
      BY <3>1, <3>3
  <2>4. \A id \in TimerIds : os_timers'[id].used => os_timers[id].used \/ id = slot
    <3>1. PICK n : os_timers' = StartValueSet(
            TimerAdded(os_timers, slot, task_running, Period, "os_timer_repeat"), slot, n)
      BY <2>1, StartsSome
    <3> QED
      BY <1>2, <3>1, UsedSlots
  <2>5. \A id \in TimerIds : os_timers[id].used => id < index
    BY <1>2, <2>2 DEF NoErrorInv, TimersFit, Initialised, TimerIds
  <2>6. \A t \in TaskIds : os_task_admin'[t].task_cb = os_task_admin[t].task_cb
    BY <1>3, SubscribesType DEF Task1Init
  <2>7. Succeed
    BY <1>3 DEF Task1Init
  <2> QED
    BY <2>2, <2>3, <2>4, <2>5, <2>6, <2>7, NoErrorSucceed
<1>4. CASE Task2Init
  <2>1. PICK slot \in 0 .. OS_MAXIMUM_TIMERS :
          /\ IsFreeSlot(os_timers, slot)
          /\ os_timers' =
               TimerAdded(os_timers, slot, task_running, Delay, "os_timer_one_shot")
          /\ os_error' = (os_error \/ slot = OS_MAXIMUM_TIMERS)
    BY <1>4 DEF Task2Init
  <2>2. event = "os_event_init" /\ task_running = 1
    BY <1>4 DEF Task2Init, Handles, taskID_2
  <2>3. slot < index /\ ~os_error'
    <3>1. slot < index /\ slot < OS_MAXIMUM_TIMERS
      BY <2>1, <2>2, FreeSlot
    <3>2. slot # OS_MAXIMUM_TIMERS
      BY <3>1
    <3>3. ~os_error'
      BY <1>1, <2>1, <3>2, Zenon
    <3> QED
      BY <3>1, <3>3
  <2>4. \A id \in TimerIds : os_timers'[id].used => os_timers[id].used \/ id = slot
    BY <1>2, <2>1, UsedSlots
  <2>5. \A id \in TimerIds : os_timers[id].used => id < index
    BY <1>2, <2>2 DEF NoErrorInv, TimersFit, Initialised, TimerIds
  <2>6. \A t \in TaskIds : os_task_admin'[t].task_cb = os_task_admin[t].task_cb
    BY <1>4, SubscribesType DEF Task2Init
  <2>7. Succeed
    BY <1>4 DEF Task2Init
  <2> QED
    BY <2>2, <2>3, <2>4, <2>5, <2>6, <2>7, NoErrorSucceed
<1>5. CASE Task3Init
  <2>1. event = "os_event_init" /\ Succeed /\ ~os_error' /\ UNCHANGED os_timers
    BY <1>1, <1>5 DEF Task3Init, Handles
  <2>2. \A id \in TimerIds : os_timers'[id].used => id < index
    BY <1>2, <2>1 DEF NoErrorInv, TimersFit, Initialised, TimerIds
  <2>3. \A t \in TaskIds : os_task_admin'[t].task_cb = os_task_admin[t].task_cb
    BY <1>5, SubscribesType DEF Task3Init
  <2> QED
    BY <2>1, <2>2, <2>3, NoErrorSucceed
<1>6. CASE Task1Timer \/ Task2Timer \/ Task3Idle
  <2>1. /\ event \notin {"none", "os_event_init"} /\ Succeed /\ ~os_error'
        /\ UNCHANGED os_task_admin
    BY <1>1, <1>6 DEF Task1Timer, Task2Timer, Task3Idle, Handles
  <2> QED
    BY <2>1, NoErrorSucceed
<1>7. CASE Task2Msg \/ Task3Msg
  <2>1. /\ event = "os_event_msg_pending" /\ Succeed /\ \E msg : Retrieves(msg)
        /\ UNCHANGED os_task_admin
    BY <1>7 DEF Task2Msg, Task3Msg, Handles
  <2>2. ~os_error'
    BY <1>1, <2>1 DEF Retrieves, PendingIsOwn
  <2> QED
    BY <2>1, <2>2, NoErrorSucceed
<1> QED
  BY <1>3, <1>4, <1>5, <1>6, <1>7 DEF Tasks

LEMMA NoErrorKernel ==
  ASSUME TypeOK, NoErrorInv, Kernel
  PROVE  NoErrorInv'
<1>1. UNCHANGED <<os_error, os_task_admin, os_latest_added_task>>
  BY CheckTimerOutcome
     DEF Kernel, os_main, StartMain, InitTask, InitDone, LeaveMain, MsgStage,
         RearmTimer, CheckDone, TimerStage, IdleStage, taskVars
<1>2. NoError' /\ TasksFit'
  BY <1>1 DEF NoErrorInv, NoError, TasksFit
<1>3. PendingIsOwn'
  BY PendingKernel DEF Kernel, NoErrorInv
<1>4. TimersFit'
  <2>1. index \in Nat /\ InKernel
    BY DEF TypeOK, Kernel, os_main, StartMain, InitTask, InitDone, LeaveMain, MsgStage,
           CheckTimer, RearmTimer, CheckDone, TimerStage, IdleStage
  <2>2. CASE StartMain
    <3>1. /\ UNCHANGED <<event, index, os_timers, task_running>>
          /\ pc = "setup" /\ pc' \in {"init", "halt"}
      BY <2>2 DEF StartMain, runVars, timerVars
    <3> QED
      BY <2>1, <3>1 DEF NoErrorInv, TimersFit, Initialised, InKernel
  <2>3. CASE InitTask
    <3>1. pc = "init" /\ pc' = "init" /\ index' = index + 1 /\ UNCHANGED os_timers
      BY <2>3 DEF InitTask, timerVars
    <3>2. os_run_task(index, "os_event_init")
      BY <2>3 DEF InitTask
    <3>3. event' \in {"none", "os_event_init"}
      BY <2>1, <3>2, RunEvent DEF InKernel
    <3>4. event' = "os_event_init" => task_running' = index
      BY <2>1, <3>2, RunTask DEF os_event_t
    <3>5. \A id \in TimerIds : os_timers[id].used => id < index
      BY <2>1, <3>1 DEF NoErrorInv, TimersFit, Initialised, InKernel
    <3>6. Initialised' \in {index, index + 1}
      BY <2>1, <3>1 DEF Initialised
    <3>7. \A id \in TimerIds : os_timers'[id].used => id < Initialised'
      BY <2>1, <3>1, <3>5, <3>6 DEF TimerIds
    <3> QED
      BY <2>1, <3>1, <3>3, <3>4, <3>7 DEF TimersFit
  <2>4. CASE InitDone \/ LeaveMain \/ CheckTimer \/ RearmTimer \/ CheckDone
    <3>1. UNCHANGED event /\ pc' \notin {"setup", "init"}
      BY <2>4, CheckTimerOutcome
         DEF InitDone, LeaveMain, CheckTimer, QueueOwner, PassTimer, RearmTimer, CheckDone,
             runVars
    <3> QED
      BY <2>1, <3>1 DEF TimersFit, InKernel
  <2>5. CASE MsgStage \/ TimerStage \/ IdleStage
    <3>1. pc' \notin {"setup", "init"}
      BY <2>5 DEF MsgStage, TimerStage, IdleStage
    <3>2. event' # "os_event_init"
      BY <2>1, <2>5, RunEvent
         DEF MsgStage, DispatchMsg, TimerStage, IdleStage, InKernel, runVars
    <3> QED
      BY <3>1, <3>2 DEF TimersFit
  <2> QED
    BY <2>2, <2>3, <2>4, <2>5 DEF Kernel, os_main
<1> QED
  BY <1>2, <1>3, <1>4 DEF NoErrorInv

LEMMA NoErrorStep == TypeOK /\ NoErrorInv /\ [Next]_vars => NoErrorInv'
<1> SUFFICES ASSUME TypeOK, NoErrorInv, [Next]_vars
             PROVE  NoErrorInv'
  OBVIOUS
<1>1. CASE AddTasks
  BY <1>1, NoErrorAddTasks
<1>2. CASE Tasks
  BY <1>2, NoErrorTasks
<1>3. CASE Kernel
  BY <1>3, NoErrorKernel
<1>4. CASE Tick \/ UNCHANGED vars
  <2>1. UNCHANGED <<os_error, taskVars, runVars, msgVars, timerVars, loopVars>>
    BY <1>4 DEF Tick, os_timer_count, vars, osVars
  <2> QED
    BY <2>1 DEF NoErrorInv, NoError, TasksFit, TimersFit, Initialised, PendingIsOwn,
                taskVars, runVars, msgVars, timerVars, loopVars
<1> QED
  BY <1>1, <1>2, <1>3, <1>4 DEF Next

(* Nothing the sketch does is an error to the kernel: the loop of os_main  *)
(* is never left.                                                          *)
THEOREM NoErrorCorrect == Spec => []NoError
<1>1. NoErrorInv => NoError
  BY DEF NoErrorInv
<1>2. DemoInit => TypeOK
  BY KernelTypeInit DEF DemoInit
<1> QED
  BY <1>1, <1>2, TypeStep, NoErrorInit, NoErrorStep, PTL DEF Spec
-----------------------------------------------------------------------------
(***************************************************************************)
(* The token on its way.  PassesAssumption leaves time for the whole trip  *)
(* before task 1's timer runs out again; the invariant says at each place  *)
(* how long the token can have taken to get there, in passes and delays.   *)
(***************************************************************************)

(* The longest a pass can take, and the counter at the start of this one. *)
PassTime  == MaxTicksPerPass * OS_COUNTER_TIME
PassStart == os_timer_counter - ticks * OS_COUNTER_TIME

(* When the timers of task 1 and task 2 were started; 0 if they are not. *)
First  == os_timers[0].start_value
Second == os_timers[1].start_value

(* The init callback of task t has returned. *)
Ready(t) == pc \in {"setup", "init"} => t < Initialised

EventsOf(t) ==
  CASE t = taskID_1 -> {"os_event_timer"}
    [] t = taskID_2 -> {"os_event_msg_pending", "os_event_timer"}
    [] t = taskID_3 -> {"os_event_msg_pending", "os_event_idle"}

(* What setup and the init callbacks leave behind. *)
Subscribers ==
  \A t \in 0 .. 2 :
    /\ t < os_latest_added_task => Registered(t, "os_event_init") /\ HasCallback(t)
    /\ Ready(t) => \A e \in EventsOf(t) : Registered(t, e)

Slots ==
  /\ \A id \in TimerIds :
       /\ os_timers[id].used <=> id < 2 /\ Ready(id)
       /\ ~os_timers[id].used => os_timers[id].start_value = 0
  /\ Ready(taskID_1) => /\ os_timers[0].task_id = taskID_1
                        /\ os_timers[0].type = "os_timer_repeat"
                        /\ os_timers[0].value = Period
                        /\ First >= 1
  /\ Ready(taskID_2) => /\ timer = 1
                        /\ os_timers[1].task_id = taskID_2
                        /\ os_timers[1].type = "os_timer_one_shot"
                        /\ os_timers[1].value = Delay
  /\ ~Ready(taskID_2) => timer = OS_MAXIMUM_TIMERS

(* Each event is handled where the pass gives it. *)
Stages ==
  /\ pc # "halt"
  /\ pc # "setup" => os_latest_added_task = 3
  /\ pc \in {"setup", "init"} => index <= 3
  /\ pc = "rearm" => index \in {0, 1}
  /\ last_checked_task_id <= 3
  /\ event = "os_event_msg_pending" => pc = "check" /\ index = 0
  /\ event = "os_event_timer" => pc = "idle"
  /\ event = "os_event_idle" => pc = "loop"

(* A pass looks at task 1's timer once. *)
Late == pc \in {"check", "rearm"} /\ index = 0

Clock ==
  /\ sent \in Nat /\ reported \in Nat
  /\ ticks \in 0 .. MaxTicksPerPass
  /\ PassStart >= 1
  /\ pc \in {"setup", "init"} => PassStart = 1
  /\ Ready(taskID_1) => PassStart < First + Period + (IF Late THEN PassTime ELSE 0)

(* Task 1's timer has been restarted n times, none early, none late. *)
Turn(n) ==
  /\ First >= 1 + n * Period
  /\ First <= 1 + n * (Period + 2 * PassTime) + 2 * PassTime

(* Once for each token, or once more with an expiry on its way to task 1. *)
Kept     == Turn(sent)
KeptOnce == Turn(sent + 1)

(* This pass began less than that long after the last restart. *)
Age(bound) == PassStart < First + bound

Empty(q) == q.currentSize = 0 /\ q.in = q.out
Holds(q, element) ==
  /\ q.currentSize = 1 /\ q.in = (q.out + 1) % q.capacity
  /\ os_queue_front(q) = element

NoMessage == Empty(os_msg_buffer)
Message(t, msg) == Holds(os_msg_buffer, [destination |-> t, msg |-> msg])

NoExpiry == Empty(os_timer_pending_queue)
Expiry(t) == Holds(os_timer_pending_queue, t)

(* No task is about to take or to post a message. *)
Calm == event \notin {"os_event_msg_pending", "os_event_timer"}

(* Where the token can be. *)
AtRest ==
  /\ NoMessage /\ NoExpiry /\ Second = 0 /\ Calm /\ ~msgReceived
  /\ pc # "rearm" /\ sent = reported /\ (First # 0 => Kept)

PeriodOver ==
  /\ NoMessage /\ Expiry(taskID_1) /\ Second = 0 /\ InKernel /\ ~msgReceived
  /\ sent = reported
  /\ \/ pc = "rearm" /\ index = 0 /\ os_timer_counter >= First + Period /\ Kept
     \/ pc = "check" /\ index > 0 /\ Age(1) /\ KeptOnce
     \/ pc = "timer" /\ Age(1) /\ KeptOnce

Posting ==
  /\ NoMessage /\ NoExpiry /\ Second = 0 /\ Handles(taskID_1, "os_event_timer")
  /\ ~msgReceived /\ sent = reported /\ KeptOnce
  /\ Age(1)

Posted ==
  /\ Message(taskID_2, "0x55") /\ NoExpiry /\ Second = 0 /\ Calm /\ ~msgReceived
  /\ sent = reported + 1 /\ Kept
  /\ pc \in {"idle", "loop"} /\ Age(1)

Starting ==
  /\ NoMessage /\ NoExpiry /\ Second = 0 /\ Handles(taskID_2, "os_event_msg_pending")
  /\ msg_pending.msg = "0x55" /\ ~msgReceived /\ sent = reported + 1 /\ Kept
  /\ Age(1 + PassTime)

Delayed ==
  /\ NoMessage /\ NoExpiry /\ Calm /\ ~msgReceived /\ pc # "rearm"
  /\ sent = reported + 1 /\ Kept
  /\ Second >= 1 /\ Second <= First + 2 * PassTime
  /\ PassStart < Second + Delay + (IF pc = "check" /\ index <= 1 THEN PassTime ELSE 0)

DelayOver ==
  /\ NoMessage /\ Expiry(taskID_2) /\ InKernel /\ ~msgReceived
  /\ sent = reported + 1 /\ Kept
  /\ \/ pc = "rearm" /\ index = 1 /\ Second # 0
     \/ pc = "check" /\ index > 1 /\ Second = 0
     \/ pc = "timer" /\ Second = 0
  /\ Age(Delay + 3 * PassTime)

Answering ==
  /\ NoMessage /\ NoExpiry /\ Second = 0 /\ Handles(taskID_2, "os_event_timer")
  /\ ~msgReceived /\ sent = reported + 1 /\ Kept
  /\ Age(Delay + 3 * PassTime)

Answered ==
  /\ Message(taskID_3, "0xAA") /\ NoExpiry /\ Second = 0 /\ Calm /\ ~msgReceived
  /\ sent = reported + 1 /\ Kept
  /\ pc \in {"idle", "loop"} /\ Age(Delay + 3 * PassTime)

Noting ==
  /\ NoMessage /\ NoExpiry /\ Second = 0 /\ Handles(taskID_3, "os_event_msg_pending")
  /\ msg_pending.msg = "0xAA" /\ ~msgReceived /\ sent = reported + 1 /\ Kept
  /\ Age(Delay + 4 * PassTime)

(* Idle turns go by until that of task 3, at most three of them. *)
Noted ==
  /\ NoMessage /\ NoExpiry /\ Second = 0 /\ Calm /\ msgReceived /\ pc # "rearm"
  /\ sent = reported + 1 /\ Kept
  /\ last_checked_task_id = 1 => Age(Delay + (IF pc = "loop" THEN 6 ELSE 7) * PassTime)
  /\ last_checked_task_id = 0 => Age(Delay + (IF pc = "loop" THEN 5 ELSE 6) * PassTime)
  /\ last_checked_task_id = 3 => Age(Delay + (IF pc = "loop" THEN 4 ELSE 5) * PassTime)
  /\ last_checked_task_id = 2 => IF pc = "loop"
                                 THEN /\ Handles(taskID_3, "os_event_idle")
                                      /\ Age(Delay + 7 * PassTime)
                                 ELSE Age(Delay + 4 * PassTime)

TokenInv ==
  \/ AtRest \/ PeriodOver \/ Posting \/ Posted \/ Starting \/ Delayed
  \/ DelayOver \/ Answering \/ Answered \/ Noting \/ Noted

Early == pc \in {"setup", "init"} => AtRest /\ sent = 0

DemoInv == Subscribers /\ Slots /\ Stages /\ Clock /\ TokenInv /\ Early
-----------------------------------------------------------------------------
LEMMA DemoTimes ==
  /\ PassTime \in Nat /\ Period \in Nat \ {0} /\ Delay \in Nat \ {0}
  /\ Period >= Delay + 8 * PassTime
  BY Sizes, DemoSizes, DemoAssumption, PassesAssumption, SchedulerAssumption DEF PassTime

(* The slots of the two timers, and the ids of the tasks. *)
LEMMA DemoIds ==
  /\ 0 \in TimerIds /\ 1 \in TimerIds /\ \A t \in 0 .. 2 : t \in TaskIds
  /\ taskID_1 = 0 /\ taskID_2 = 1 /\ taskID_3 = 2
  BY Sizes, DemoSizes DEF TimerIds, TaskIds, taskID_1, taskID_2, taskID_3

(* The counter is at most a pass ahead of the start of the pass. *)
LEMMA InPass ==
  ASSUME TypeOK, Clock
  PROVE  /\ os_timer_counter \in Nat /\ PassStart \in Int
         /\ PassStart <= os_timer_counter /\ os_timer_counter <= PassStart + PassTime
<1>1. /\ ticks \in Nat /\ MaxTicksPerPass \in Nat /\ OS_COUNTER_TIME \in Nat
      /\ MaxTicksPerPass - ticks \in Nat /\ os_timer_counter \in Nat
  BY Sizes, DemoAssumption DEF Clock, TypeOK
<1>2. /\ ticks * OS_COUNTER_TIME \in Nat
      /\ (MaxTicksPerPass - ticks) * OS_COUNTER_TIME \in Nat
  BY <1>1
<1>3. (MaxTicksPerPass - ticks) * OS_COUNTER_TIME
        = MaxTicksPerPass * OS_COUNTER_TIME - ticks * OS_COUNTER_TIME
  BY <1>1
<1> QED
  BY <1>1, <1>2, <1>3 DEF PassStart, PassTime

(* A tick moves the counter, not the start of the pass. *)
LEMMA PassTick ==
  ASSUME TypeOK, Clock, Tick
  PROVE  /\ PassStart' = PassStart /\ os_timer_counter' >= os_timer_counter
         /\ ticks' \in 0 .. MaxTicksPerPass
<1>1. /\ ticks \in Nat /\ MaxTicksPerPass \in Nat /\ OS_COUNTER_TIME \in Nat
      /\ ticks < MaxTicksPerPass /\ ticks' = ticks + 1
      /\ os_timer_counter' = os_timer_counter + OS_COUNTER_TIME
      /\ os_timer_counter \in Nat
  BY Sizes, DemoAssumption DEF Clock, TypeOK, Tick, os_timer_count, Ticks
<1>2. (ticks + 1) * OS_COUNTER_TIME = ticks * OS_COUNTER_TIME + OS_COUNTER_TIME
  BY <1>1
<1> QED
  BY <1>1, <1>2 DEF PassStart

(* The next pass begins where the last one has got to. *)
LEMMA PassBegins ==
  ASSUME TypeOK, ticks' = 0, UNCHANGED os_timer_counter
  PROVE  PassStart' = os_timer_counter
<1>1. 0 * OS_COUNTER_TIME = 0 /\ os_timer_counter \in Nat
  BY Sizes DEF TypeOK
<1> QED
  BY <1>1 DEF PassStart

(* What does not change goes on to hold. *)
LEMMA TimersFrame ==
  ASSUME UNCHANGED <<os_timers, sent>>
  PROVE  First' = First /\ Second' = Second /\ (Kept' <=> Kept) /\ (KeptOnce' <=> KeptOnce)
  BY DEF First, Second, Kept, KeptOnce, Turn

LEMMA MessagesFrame ==
  ASSUME UNCHANGED os_msg_buffer
  PROVE  /\ NoMessage' <=> NoMessage
         /\ Message(taskID_2, "0x55")' <=> Message(taskID_2, "0x55")
         /\ Message(taskID_3, "0xAA")' <=> Message(taskID_3, "0xAA")
  BY DEF NoMessage, Message, Empty, Holds, os_queue_front, taskID_2, taskID_3

LEMMA ExpiriesFrame ==
  ASSUME UNCHANGED os_timer_pending_queue
  PROVE  /\ NoExpiry' <=> NoExpiry
         /\ Expiry(taskID_1)' <=> Expiry(taskID_1)
         /\ Expiry(taskID_2)' <=> Expiry(taskID_2)
  BY DEF NoExpiry, Expiry, Empty, Holds, os_queue_front, taskID_1, taskID_2

LEMMA TablesFrame ==
  ASSUME Subscribers, Slots, UNCHANGED <<os_task_admin, os_latest_added_task, os_timers, timer>>,
         \A t \in Nat : Ready(t)' <=> Ready(t)
  PROVE  Subscribers' /\ Slots'
<1>1. \A t : \A e : (Registered(t, e)' <=> Registered(t, e)) /\ (HasCallback(t)' <=> HasCallback(t))
  BY DEF Registered, HasCallback
<1>2. 0 .. 2 \subseteq Nat /\ TimerIds \subseteq Nat /\ taskID_1 \in Nat /\ taskID_2 \in Nat
  BY DEF TimerIds, taskID_1, taskID_2
<1>3. Subscribers'
  BY <1>1, <1>2 DEF Subscribers
<1>4. Slots'
  BY <1>2 DEF Slots, First
<1> QED
  BY <1>3, <1>4

(* In the loop everybody is ready. *)
LEMMA ReadyFrame ==
  ASSUME \/ UNCHANGED <<pc, index, event>>
         \/ pc \notin {"setup", "init"} /\ pc' \notin {"setup", "init"}
  PROVE  \A t \in Nat : Ready(t)' <=> Ready(t)
  BY DEF Ready, Initialised

(* A queue of one element, put in and taken out. *)
LEMMA HoldsAdded ==
  ASSUME NEW S, NEW C \in Nat \ {0}, NEW q \in QueueOf(S, C), NEW e \in S, Empty(q)
  PROVE  Holds(os_queue_add(q, e), e)
<1>1. UINT16_MOD >= 2
  <2>1. OS_MAXIMUM_TIMERS >= 2 /\ UINT16_MOD % OS_MAXIMUM_TIMERS = 0 /\ UINT16_MOD \in Nat \ {0}
        /\ OS_MAXIMUM_TIMERS \in Nat
    BY DemoSizes, Sizes, SchedulerAssumption
  <2>2. UINT16_MOD = 1 => 1 % OS_MAXIMUM_TIMERS = 1
    BY <2>1
  <2> QED
    BY <2>1, <2>2
<1>2. UINT16_MOD \in Nat \ {0}
  BY Sizes
<1>3. q.in = q.out /\ q.currentSize = 0 /\ q.in \in 0 .. C - 1 /\ q.capacity = C
  BY QueueFields DEF Empty
<1> DEFINE r == os_queue_add(q, e)
<1>4. /\ r \in QueueOf(S, C)
      /\ r.currentSize = (q.currentSize + 1) % UINT16_MOD /\ r.in = (q.in + 1) % C /\ r.out = q.out
  <2>1. r \in QueueOf(S, C)
    BY <1>2, AddQueue
  <2>2. /\ os_queue_add(q, e).out = q.out
        /\ os_queue_add(q, e).currentSize = (q.currentSize + 1) % UINT16_MOD
        /\ os_queue_add(q, e).in = (q.in + 1) % C
    BY QueueFields DEF os_queue_add, QueueOf
  <2> QED
    BY <2>1, <2>2
<1>5. r.buffer[q.in] = e
  BY <1>3, AddSlot
<1>6. r.capacity = C
  <2> HIDE DEF r
  <2> QED
    BY <1>4, QueueFields
<1> HIDE DEF r
<1>7. (0 + 1) % UINT16_MOD = 1
  BY <1>1, <1>2
<1> QED
  BY <1>3, <1>4, <1>5, <1>6, <1>7 DEF Holds, os_queue_front, r

LEMMA EmptyRemoved ==
  ASSUME NEW S, NEW C \in Nat \ {0}, NEW q \in QueueOf(S, C), NEW e, Holds(q, e)
  PROVE  Empty(os_queue_remove(q)) /\ os_queue_front(q) = e /\ ~os_queue_isEmpty(q)
<1>1. ~os_queue_isEmpty(q) /\ q.capacity = C
  BY QueueFields DEF Holds, os_queue_isEmpty
<1>2. /\ os_queue_remove(q).currentSize = q.currentSize - 1
      /\ os_queue_remove(q).in = q.in
      /\ os_queue_remove(q).out = (q.out + 1) % q.capacity
  BY DEF os_queue_remove, QueueOf
<1> QED
  BY <1>1, <1>2 DEF Holds, Empty

LEMMA RunReady ==
  ASSUME NEW t, NEW e, Registered(t, e), HasCallback(t), os_run_task(t, e)
  PROVE  event' = e /\ task_running' = t
  BY DEF os_run_task, Enter
-----------------------------------------------------------------------------
LEMMA TokenInit == DemoInit => DemoInv
<1> SUFFICES ASSUME DemoInit
             PROVE  DemoInv
  OBVIOUS
<1> USE Sizes, DemoSizes
<1>1. /\ pc = "setup" /\ index = 0 /\ event = "none" /\ os_latest_added_task = 0
      /\ last_checked_task_id = 0 /\ os_timer_counter = 1
      /\ timer = OS_MAXIMUM_TIMERS /\ ~msgReceived /\ ticks = 0 /\ sent = 0 /\ reported = 0
      /\ os_timers = [id \in TimerIds |->
           [task_id |-> OS_MAXIMUM_TASKS, type |-> "os_timer_repeat", value |-> 0,
            used |-> FALSE, start_value |-> 0]]
  BY DEF DemoInit, Init, os_task_init, os_timer_init
<1>2. \A t \in Nat : ~Ready(t)
  BY <1>1 DEF Ready, Initialised
<1>3. Subscribers
  BY <1>1, <1>2 DEF Subscribers
<1>4. Slots /\ First = 0 /\ Second = 0
  <2>1. TimerIds \subseteq Nat /\ taskID_1 \in Nat /\ taskID_2 \in Nat
    BY DEF TimerIds, taskID_1, taskID_2
  <2> QED
    BY <1>1, <1>2, <2>1, DemoIds DEF Slots, First, Second
<1>5. Stages
  BY <1>1 DEF Stages
<1>6. Clock
  <2>1. PassStart = 1
    BY <1>1 DEF PassStart
  <2> QED
    BY <1>1, <1>2, <2>1, DemoIds, DemoAssumption DEF Clock
<1>7. NoMessage /\ NoExpiry
  BY DEF DemoInit, Init, os_msg_init, os_timer_init, os_queue_init, NoMessage, NoExpiry, Empty
<1>8. AtRest
  BY <1>1, <1>4, <1>7 DEF AtRest, Calm
<1> QED
  BY <1>1, <1>3, <1>4, <1>5, <1>6, <1>8 DEF DemoInv, TokenInv, Early

LEMMA TokenAddTasks ==
  ASSUME TypeOK, NoErrorInv, DemoInv, AddTasks
  PROVE  DemoInv'
<1> USE Sizes, DemoSizes
<1>1. PICK n \in 0 .. 2 : n = os_latest_added_task /\ n \in TaskIds /\ pc = "setup" /\ os_add_task(TRUE)
  <2>1. os_latest_added_task < 3 /\ pc = "setup" /\ os_add_task(TRUE)
    BY DEF AddTasks
  <2>2. os_latest_added_task \in 0 .. OS_MAXIMUM_TASKS
    BY DEF TypeOK, os_task_id_t
  <2>3. os_latest_added_task \in 0 .. 2
    BY <2>1, <2>2
  <2> QED
    BY <2>1, <2>3, DemoIds
<1> DEFINE admin == Subscribed(os_task_admin, "os_event_init", n)
<1>2. ~os_task_admin[n].task_cb
  BY <1>1 DEF NoErrorInv, TasksFit, TaskIds
<1>3. /\ os_task_admin' = [admin EXCEPT ![n].task_cb = TRUE]
      /\ os_latest_added_task' = n + 1
  BY <1>1, <1>2 DEF os_add_task
<1>4. /\ UNCHANGED <<os_timers, task_running, event, msg_pending, pc, index, os_msg_buffer,
                     os_timer_pending_queue, os_timer_counter, last_checked_task_id>>
      /\ UNCHANGED <<timer, msgReceived, ticks, sent, reported>>
  BY <1>1 DEF AddTasks, os_add_task, runVars, msgVars, timerVars, loopVars, history
<1>5. /\ Registered(n, "os_event_init")' /\ HasCallback(n)'
      /\ \A t \in TaskIds \ {n} : os_task_admin'[t] = os_task_admin[t]
  <2>1. os_task_admin \in [TaskIds -> os_task_admin_t]
    BY DEF TypeOK
  <2>2. /\ admin \in [TaskIds -> os_task_admin_t]
        /\ admin[n].event_subscribe["os_event_init"] = TRUE
        /\ \A t \in TaskIds \ {n} : admin[t] = os_task_admin[t]
    BY <1>1, <2>1 DEF Subscribed, os_task_admin_t, os_event_t
  <2> HIDE DEF admin
  <2>3. /\ os_task_admin'[n] = [admin[n] EXCEPT !.task_cb = TRUE]
        /\ \A t \in TaskIds \ {n} : os_task_admin'[t] = admin[t]
    BY <1>1, <1>3, <2>2
  <2>4. os_task_admin'[n].task_cb /\ os_task_admin'[n].event_subscribe["os_event_init"]
    BY <1>1, <2>2, <2>3 DEF os_task_admin_t
  <2> QED
    BY <1>1, <2>2, <2>3, <2>4 DEF Registered, HasCallback
<1>6. \A t \in Nat : ~Ready(t) /\ ~Ready(t)'
  <2>1. index = 0 /\ event # "os_event_init"
    BY <1>1 DEF NoErrorInv, TimersFit
  <2> QED
    BY <1>1, <1>4, <2>1 DEF Ready, Initialised
<1>7. Subscribers'
  <2>1. ASSUME NEW t \in 0 .. 2, t < n + 1
        PROVE  Registered(t, "os_event_init")' /\ HasCallback(t)'
    <3>1. CASE t = n
      BY <1>5, <3>1
    <3>2. CASE t # n
      <4>1. t < os_latest_added_task /\ t \in TaskIds \ {n}
        BY <1>1, <2>1, <3>2, DemoIds
      <4>2. Registered(t, "os_event_init") /\ HasCallback(t) /\ os_task_admin'[t] = os_task_admin[t]
        BY <1>5, <4>1 DEF DemoInv, Subscribers
      <4> QED
        BY <4>2 DEF Registered, HasCallback
    <3> QED
      BY <3>1, <3>2
  <2> QED
    BY <1>3, <1>6, <2>1 DEF Subscribers
<1>8. Slots'
  <2>1. TimerIds \subseteq Nat /\ taskID_1 \in Nat /\ taskID_2 \in Nat
    BY DEF TimerIds, taskID_1, taskID_2
  <2> QED
    BY <1>4, <1>6, <2>1 DEF DemoInv, Slots
<1>9. Stages'
  BY <1>1, <1>4 DEF DemoInv, Stages
<1>10. First' = First /\ Second' = Second /\ (Kept' <=> Kept)
  BY <1>4, TimersFrame
<1>11. Clock'
  <2>1. PassStart' = PassStart
    BY <1>4 DEF PassStart
  <2>2. taskID_1 \in Nat
    BY DEF taskID_1
  <2> QED
    BY <1>1, <1>4, <1>6, <2>1, <2>2 DEF DemoInv, Clock
<1>12. AtRest'
  <2>1. AtRest
    BY <1>1 DEF DemoInv, Early
  <2> QED
    BY <1>4, <1>10, <2>1, MessagesFrame, ExpiriesFrame DEF AtRest, Calm
<1> QED
  BY <1>1, <1>4, <1>7, <1>8, <1>9, <1>11, <1>12 DEF DemoInv, TokenInv, Early

(* A tick: the pass gets longer, and stays within its time. *)
LEMMA TokenTick ==
  ASSUME TypeOK, DemoInv, Tick
  PROVE  DemoInv'
<1>1. /\ UNCHANGED <<os_task_admin, os_latest_added_task, os_timers, task_running, event,
                     msg_pending, pc, index, os_msg_buffer, os_timer_pending_queue,
                     last_checked_task_id>>
      /\ UNCHANGED <<timer, msgReceived, sent, reported>>
  BY DEF Tick, os_timer_count, taskVars, runVars, msgVars, timerVars, loopVars, history
<1>2. /\ PassStart' = PassStart /\ os_timer_counter' >= os_timer_counter
      /\ ticks' \in 0 .. MaxTicksPerPass
  BY PassTick DEF DemoInv
<1>3. \A t \in Nat : Ready(t)' <=> Ready(t)
  BY <1>1, ReadyFrame
<1>4. Subscribers' /\ Slots'
  BY <1>1, <1>3, TablesFrame DEF DemoInv
<1>5. First' = First /\ Second' = Second /\ (Kept' <=> Kept) /\ (KeptOnce' <=> KeptOnce)
  BY <1>1, TimersFrame
<1>6. Stages'
  BY <1>1 DEF DemoInv, Stages
<1>7. Clock'
  BY <1>1, <1>2, <1>3, <1>5, DemoIds DEF DemoInv, Clock, Late, PassTime
<1>9. TokenInv'
  <2>1. /\ PassStart' = PassStart /\ PassTime' = PassTime
        /\ os_timer_counter \in Nat /\ os_timer_counter' \in Nat
        /\ First \in Nat
    <3>1. os_timer_counter \in Nat /\ First \in Nat
      BY DemoIds, Sizes DEF TypeOK, First, os_timer_t
    <3>2. os_timer_counter' \in Nat
      BY <3>1, Sizes DEF Tick, os_timer_count, Ticks
    <3> QED
      BY <1>2, <3>1, <3>2 DEF PassTime
  <2>2. TokenInv
    BY DEF DemoInv
  <2> USE MessagesFrame, ExpiriesFrame, DemoTimes
  <2> USE DEF Calm, Age, InKernel, Handles
  <2>3. AtRest => AtRest'
    BY <1>1, <1>5 DEF AtRest
  <2>4. PeriodOver => PeriodOver'
    BY <1>1, <1>2, <1>5, <2>1 DEF PeriodOver
  <2>5. Posting => Posting'
    BY <1>1, <1>5, <2>1 DEF Posting
  <2>6. Posted => Posted'
    BY <1>1, <1>5, <2>1 DEF Posted
  <2>7. Starting => Starting'
    BY <1>1, <1>5, <2>1 DEF Starting
  <2>8. Delayed => Delayed'
    BY <1>1, <1>5, <2>1 DEF Delayed
  <2>9. DelayOver => DelayOver'
    BY <1>1, <1>5, <2>1 DEF DelayOver
  <2>10. Answering => Answering'
    BY <1>1, <1>5, <2>1 DEF Answering
  <2>11. Answered => Answered'
    BY <1>1, <1>5, <2>1 DEF Answered
  <2>12. Noting => Noting'
    BY <1>1, <1>5, <2>1 DEF Noting
  <2>13. Noted => Noted'
    BY <1>1, <1>5, <2>1 DEF Noted
  <2> QED
    BY <2>2, <2>3, <2>4, <2>5, <2>6, <2>7, <2>8, <2>9, <2>10, <2>11, <2>12, <2>13 DEF TokenInv
<1>10. Early'
  <2>1. Early
    BY DEF DemoInv
  <2>2. AtRest => AtRest'
    BY <1>1, <1>5, MessagesFrame, ExpiriesFrame DEF AtRest, Calm
  <2> QED
    BY <1>1, <2>1, <2>2 DEF Early
<1> QED
  BY <1>4, <1>6, <1>7, <1>9, <1>10 DEF DemoInv
-----------------------------------------------------------------------------
(***************************************************************************)
(* Until an access to the counter is torn, none lets a tick in: what the   *)
(* main loop reads is the counter, which the step leaves as it is.         *)
(***************************************************************************)
LEMMA NoTickInAccess ==
  ASSUME NEW before \in Nat, CountTick(before), ~torn'
  PROVE  UNCHANGED os_timer_counter /\ ticks' = before
<1>1. UNCHANGED os_timer_counter
  BY DEF CountTick
<1> QED
  BY <1>1 DEF CountTick, One

LEMMA ReadsWhole ==
  ASSUME os_timer_counter \in Nat, NEW n, Reads(n), UNCHANGED os_timer_counter
  PROVE  n = os_timer_counter
  BY Sizes DEF Reads, Ticks

LEMMA StartsWhole ==
  ASSUME TypeOK, NEW timers, NEW id, Starts(timers, id), UNCHANGED os_timer_counter
  PROVE  os_timers' = StartValueSet(timers, id, os_timer_counter)
<1>1. os_timer_counter \in Nat
  BY Sizes DEF TypeOK
<1> QED
  BY <1>1, ReadsWhole DEF Starts, StartValueSet

CheckTimerWhole ==
  IF Started(index) /\ Expired(index, os_timer_counter) THEN QueueOwner ELSE PassTimer

LEMMA ChecksWhole ==
  ASSUME TypeOK, CheckTimer, UNCHANGED os_timer_counter
  PROVE  CheckTimerWhole
<1>1. os_timer_counter \in Nat
  BY Sizes DEF TypeOK
<1> QED
  BY <1>1, ReadsWhole DEF CheckTimer, CheckTimerWhole

(* What no step of the kernel touches. *)
LEMMA KernelFrame ==
  ASSUME DemoInv, ~torn', Kernel
  PROVE  /\ UNCHANGED <<os_error, os_task_admin, os_latest_added_task, os_timer_counter>>
         /\ UNCHANGED <<timer, msgReceived, sent, reported>>
         /\ InKernel /\ ticks' = IF pc = "loop" THEN 0 ELSE ticks
         /\ pc = "setup" => os_latest_added_task = 3
<1>1. ticks \in Nat
  BY DemoAssumption DEF DemoInv, Clock
<1>2. /\ UNCHANGED os_timer_counter /\ ticks' = IF pc = "loop" THEN 0 ELSE ticks
  <2> DEFINE before == IF pc = "loop" THEN 0 ELSE ticks
  <2>1. before \in Nat /\ CountTick(before)
    BY <1>1 DEF Kernel
  <2> QED
    BY <2>1, NoTickInAccess
<1> QED
  BY <1>2, CheckTimerOutcome
     DEF Kernel, os_main, StartMain, InitTask, InitDone, LeaveMain, MsgStage,
         CheckTimer, RearmTimer, CheckDone, TimerStage, IdleStage, taskVars, history

(* A step within a pass does not move its start. *)
LEMMA SamePass ==
  ASSUME UNCHANGED <<os_timer_counter, ticks>>
  PROVE  PassStart' = PassStart /\ PassTime' = PassTime
  BY DEF PassStart, PassTime

(* setup and the init loop: the token is not yet under way. *)
LEMMA TokenStarts ==
  ASSUME TypeOK, NoErrorInv, DemoInv, ~torn', Kernel, StartMain \/ InitTask
  PROVE  DemoInv'
<1>1. /\ UNCHANGED <<os_task_admin, os_latest_added_task, os_timer_counter, timer, msgReceived,
                     sent, reported, ticks, os_msg_buffer, os_timer_pending_queue, os_timers,
                     last_checked_task_id>>
      /\ pc \in {"setup", "init"} /\ pc' = "init" /\ os_latest_added_task = 3
      /\ event = "none" /\ index \in Nat /\ index <= 3
  <2>1. InKernel /\ (pc = "setup" => os_latest_added_task = 3)
    BY KernelFrame DEF NoErrorInv, NoError
  <2> QED
    BY <2>1, KernelFrame DEF StartMain, InitTask, msgVars, timerVars, InKernel, TypeOK,
       NoErrorInv, NoError, DemoInv, Stages
<1>2. event' \in {"none", "os_event_init"} /\ Initialised' = Initialised /\ index' <= 3
  <2>1. CASE StartMain
    BY <1>1, <2>1 DEF StartMain, runVars, Initialised
  <2>2. CASE InitTask
    <3>1. PICK t \in 0 .. 2 : t = index
      BY <1>1, <2>2 DEF InitTask
    <3>2. Registered(t, "os_event_init") /\ HasCallback(t)
      BY <1>1, <3>1 DEF DemoInv, Subscribers
    <3>3. event' = "os_event_init"
      BY <2>2, <3>1, <3>2, RunReady DEF InitTask
    <3> QED
      BY <1>1, <2>2, <3>1, <3>3 DEF InitTask, Initialised
  <2> QED
    BY <2>1, <2>2
<1>3. \A t \in Nat : Ready(t)' <=> Ready(t)
  BY <1>1, <1>2 DEF Ready
<1>4. Subscribers' /\ Slots'
  BY <1>1, <1>3, TablesFrame DEF DemoInv
<1>5. First' = First /\ Second' = Second /\ (Kept' <=> Kept)
  BY <1>1, TimersFrame
<1>6. Stages'
  BY <1>1, <1>2 DEF DemoInv, Stages
<1>7. Clock'
  BY <1>1, <1>2, <1>3, <1>5, SamePass, DemoIds DEF DemoInv, Clock, Late
<1>8. AtRest'
  <2>1. AtRest
    BY <1>1 DEF DemoInv, Early
  <2> QED
    BY <1>1, <1>2, <1>5, <2>1, MessagesFrame, ExpiriesFrame DEF AtRest, Calm
<1> QED
  BY <1>1, <1>4, <1>6, <1>7, <1>8 DEF DemoInv, TokenInv, Early, Clock

LEMMA TokenInitDone ==
  ASSUME TypeOK, NoErrorInv, DemoInv, ~torn', Kernel, InitDone
  PROVE  DemoInv'
<1>1. /\ UNCHANGED <<os_task_admin, os_latest_added_task, os_timer_counter, timer, msgReceived,
                     sent, reported, ticks, os_msg_buffer, os_timer_pending_queue, os_timers,
                     last_checked_task_id, event, index>>
      /\ pc = "init" /\ pc' = "loop" /\ os_latest_added_task = 3
      /\ event = "none" /\ index = 3
  BY KernelFrame DEF InitDone, msgVars, timerVars, runVars, InKernel, TypeOK, DemoInv, Stages
<1>2. /\ \A t \in Nat : Ready(t)'
      /\ \A t \in Nat : t < 3 => Ready(t)
  BY <1>1 DEF Ready, Initialised
<1>3. Subscribers'
  <2>1. \A t : \A e : (Registered(t, e)' <=> Registered(t, e)) /\ (HasCallback(t)' <=> HasCallback(t))
    BY <1>1 DEF Registered, HasCallback
  <2> QED
    BY <1>1, <1>2, <2>1 DEF DemoInv, Subscribers
<1>4. Slots'
  <2>1. TimerIds \subseteq Nat /\ taskID_1 \in 0 .. 2 /\ taskID_2 \in 0 .. 2
    BY DEF TimerIds, taskID_1, taskID_2
  <2> QED
    BY <1>1, <1>2, <2>1 DEF DemoInv, Slots, First
<1>5. First' = First /\ Second' = Second /\ (Kept' <=> Kept)
  BY <1>1, TimersFrame
<1>6. Stages'
  BY <1>1 DEF DemoInv, Stages
<1>7. Clock'
  BY <1>1, <1>2, <1>5, SamePass, DemoIds DEF DemoInv, Clock, Late
<1>8. AtRest'
  <2>1. AtRest
    BY <1>1 DEF DemoInv, Early
  <2> QED
    BY <1>1, <1>5, <2>1, MessagesFrame, ExpiriesFrame DEF AtRest, Calm
<1> QED
  BY <1>1, <1>3, <1>4, <1>6, <1>7, <1>8 DEF DemoInv, TokenInv, Early

(* A step within the loop that leaves the timers alone. *)
LEMMA LoopFrame ==
  ASSUME DemoInv, ~torn', Kernel, UNCHANGED os_timers,
         pc \notin {"setup", "init"}, pc' \notin {"setup", "init"}
  PROVE  /\ Subscribers' /\ Slots' /\ Early'
         /\ First' = First /\ Second' = Second
         /\ (Kept' <=> Kept) /\ (KeptOnce' <=> KeptOnce)
<1>1. UNCHANGED <<os_task_admin, os_latest_added_task, timer, sent>>
  BY KernelFrame
<1>2. Subscribers' /\ Slots'
  BY <1>1, ReadyFrame, TablesFrame DEF DemoInv
<1> QED
  BY <1>1, <1>2, TimersFrame DEF Early

(* What is known while the loop runs. *)
LEMMA InLoop ==
  ASSUME TypeOK, DemoInv, pc \notin {"setup", "init"}
  PROVE  /\ \A t \in 0 .. 2 : HasCallback(t) /\ \A e \in EventsOf(t) : Registered(t, e)
         /\ os_timers[0].task_id = taskID_1 /\ os_timers[0].type = "os_timer_repeat"
         /\ os_timers[0].value = Period /\ os_timers[0].used
         /\ os_timers[1].task_id = taskID_2 /\ os_timers[1].type = "os_timer_one_shot"
         /\ os_timers[1].value = Delay /\ os_timers[1].used
         /\ \A id \in TimerIds : id >= 2 => ~os_timers[id].used
         /\ timer = 1 /\ First \in Nat /\ First >= 1 /\ Second \in Nat
         /\ PassStart < First + Period + (IF Late THEN PassTime ELSE 0)
<1>1. \A t \in Nat : Ready(t)
  BY DEF Ready
<1>2. TimerIds \subseteq Nat /\ taskID_1 \in Nat /\ taskID_2 \in Nat
  BY DEF TimerIds, taskID_1, taskID_2
<1>3. os_latest_added_task = 3
  BY DEF DemoInv, Stages
<1>4. \A t \in 0 .. 2 : HasCallback(t) /\ \A e \in EventsOf(t) : Registered(t, e)
  BY <1>1, <1>3 DEF DemoInv, Subscribers
<1>5. First \in Nat /\ Second \in Nat
  BY DemoIds, Sizes DEF TypeOK, First, Second, os_timer_t
<1> QED
  BY <1>1, <1>2, <1>4, <1>5, DemoIds DEF DemoInv, Slots, Clock
-----------------------------------------------------------------------------
(* The head of a pass: a message is taken out and handed to its task. *)
LEMMA TokenMsgStage ==
  ASSUME TypeOK, DemoInv, ~torn', Kernel, MsgStage
  PROVE  DemoInv'
<1>1. /\ pc = "loop" /\ event = "none" /\ pc' = "check" /\ index' = 0 /\ ticks' = 0
      /\ UNCHANGED <<os_timers, os_timer_pending_queue, last_checked_task_id>>
      /\ UNCHANGED <<os_latest_added_task, os_timer_counter, timer, msgReceived, sent, reported>>
  BY KernelFrame DEF MsgStage, InKernel, timerVars
<1>2. /\ Subscribers' /\ Slots' /\ Early' /\ First' = First /\ Second' = Second
      /\ (Kept' <=> Kept) /\ (KeptOnce' <=> KeptOnce)
  BY <1>1, LoopFrame
<1>3. /\ \A t \in 0 .. 2 : HasCallback(t) /\ \A e \in EventsOf(t) : Registered(t, e)
      /\ First \in Nat /\ Second \in Nat /\ PassStart < First + Period
  <2>1. ~Late /\ pc \notin {"setup", "init"}
    BY <1>1 DEF Late
  <2>2. PassStart < First + Period + 0
    BY <2>1, InLoop
  <2> QED
    BY <2>1, <2>2, InLoop, DemoTimes
<1>4. /\ PassStart' = os_timer_counter /\ PassTime' = PassTime
      /\ os_timer_counter \in Nat /\ PassStart \in Int /\ os_timer_counter' \in Nat
      /\ PassStart <= os_timer_counter /\ os_timer_counter <= PassStart + PassTime
  BY <1>1, InPass, PassBegins DEF DemoInv, PassTime
<1>5. CASE NoMessage
  <2>1. UNCHANGED <<event, os_msg_buffer>>
    BY <1>5 DEF MsgStage, NoMessage, Empty, os_queue_isEmpty, runVars, msgVars
  <2>2. NoMessage'
    BY <1>5, <2>1, MessagesFrame
  <2>3. AtRest => AtRest'
    BY <1>1, <1>2, <2>1, <2>2, ExpiriesFrame DEF AtRest, Calm
  <2>4. Delayed => Delayed'
    BY <1>1, <1>2, <1>3, <1>4, <2>1, <2>2, ExpiriesFrame, DemoTimes DEF Delayed, Calm
  <2>5. Noted => Noted'
    BY <1>1, <1>2, <1>3, <1>4, <2>1, <2>2, ExpiriesFrame, DemoTimes DEF Noted, Calm, Age, Handles
  <2>6. AtRest \/ Delayed \/ Noted
    <3>1. ~Message(taskID_2, "0x55") /\ ~Message(taskID_3, "0xAA")
      BY <1>5 DEF NoMessage, Empty, Message, Holds
    <3> QED
      BY <1>1, <3>1 DEF DemoInv, TokenInv, PeriodOver, Posting, Posted, Starting, DelayOver,
         Answering, Answered, Noting, Handles
  <2>7. TokenInv'
    BY <2>3, <2>4, <2>5, <2>6 DEF TokenInv
  <2>8. Stages'
    BY <1>1, <2>1 DEF DemoInv, Stages
  <2>9. Clock'
    BY <1>1, <1>2, <1>3, <1>4, DemoTimes, DemoAssumption DEF DemoInv, Clock, Late
  <2> QED
    BY <1>2, <2>7, <2>8, <2>9 DEF DemoInv
<1>6. ASSUME NEW t \in {taskID_2, taskID_3}, NEW msg \in Msg, Message(t, msg)
      PROVE  /\ NoMessage' /\ event' = "os_event_msg_pending" /\ task_running' = t
             /\ msg_pending'.msg = msg
  <2> DEFINE entry == [destination |-> t, msg |-> msg]
  <2>1. Holds(os_msg_buffer, entry)
    BY <1>6 DEF Message
  <2>2. entry.destination = t /\ entry.msg = msg
    OBVIOUS
  <2> HIDE DEF entry
  <2>3. /\ Empty(os_queue_remove(os_msg_buffer)) /\ os_queue_front(os_msg_buffer) = entry
        /\ ~os_queue_isEmpty(os_msg_buffer)
    BY <2>1, Sizes, EmptyRemoved DEF TypeOK
  <2>4. /\ os_msg_buffer' = os_queue_remove(os_msg_buffer)
        /\ msg_pending' = entry /\ DispatchMsg(msg_pending')
    BY <2>3 DEF MsgStage
  <2>5. NoMessage'
    BY <2>3, <2>4 DEF NoMessage
  <2>6. t \in 0 .. 2 /\ t < OS_MAXIMUM_TASKS /\ "os_event_msg_pending" \in EventsOf(t)
    BY Sizes, DemoSizes DEF taskID_1, taskID_2, taskID_3, EventsOf
  <2>7. os_run_task(t, "os_event_msg_pending")
    BY <2>2, <2>4, <2>6 DEF DispatchMsg
  <2>8. Registered(t, "os_event_msg_pending") /\ HasCallback(t)
    BY <1>3, <2>6
  <2>9. event' = "os_event_msg_pending" /\ task_running' = t
    BY <2>7, <2>8, RunReady
  <2> QED
    BY <2>2, <2>4, <2>5, <2>9
<1>7. CASE ~NoMessage
  <2>1. Posted \/ Answered
    BY <1>1, <1>7 DEF DemoInv, TokenInv, AtRest, PeriodOver, Posting, Starting, Delayed, DelayOver,
       Answering, Noting, Noted
  <2>2. ASSUME Posted
        PROVE  Starting' /\ event' = "os_event_msg_pending"
    <3>1. /\ NoMessage' /\ event' = "os_event_msg_pending" /\ task_running' = taskID_2
          /\ msg_pending'.msg = "0x55"
      BY <1>6, <2>2, DemoSizes DEF Posted
    <3>2. task_running' = 1 /\ taskID_2 = 1
      BY <3>1 DEF taskID_2
    <3> QED
      BY <1>1, <1>2, <1>3, <1>4, <2>2, <3>1, <3>2, ExpiriesFrame, DemoTimes
         DEF Posted, Starting, Handles, Age, taskID_2
  <2>3. ASSUME Answered
        PROVE  Noting' /\ event' = "os_event_msg_pending"
    <3>1. /\ NoMessage' /\ event' = "os_event_msg_pending" /\ task_running' = taskID_3
          /\ msg_pending'.msg = "0xAA"
      BY <1>6, <2>3, DemoSizes DEF Answered
    <3> QED
      BY <1>1, <1>2, <1>3, <1>4, <2>3, <3>1, ExpiriesFrame, DemoTimes
         DEF Answered, Noting, Handles, Age, taskID_3
  <2>4. TokenInv' /\ event' = "os_event_msg_pending"
    BY <2>1, <2>2, <2>3 DEF TokenInv
  <2>5. Stages'
    BY <1>1, <2>4 DEF DemoInv, Stages
  <2>6. Clock'
    BY <1>1, <1>2, <1>3, <1>4, DemoTimes, DemoAssumption DEF DemoInv, Clock, Late
  <2> QED
    BY <1>2, <2>4, <2>5, <2>6 DEF DemoInv
<1> QED
  BY <1>5, <1>7

(* One turn of os_timer_check_timers.  When task 1's timer has run out,    *)
(* the last token has long arrived.                                        *)
LEMMA TokenCheckTimer ==
  ASSUME TypeOK, DemoInv, ~torn', Kernel, CheckTimer
  PROVE  DemoInv'
<1>1. /\ pc = "check" /\ event = "none" /\ event' = "none" /\ index \in TimerIds /\ index \in Nat
      /\ pc' \in {"check", "rearm"} /\ ticks' = ticks
      /\ UNCHANGED <<os_timers, os_msg_buffer, last_checked_task_id>>
      /\ UNCHANGED <<os_latest_added_task, os_timer_counter, timer, msgReceived, sent, reported>>
  BY KernelFrame, CheckTimerOutcome
     DEF CheckTimer, QueueOwner, PassTimer, InKernel, runVars, msgVars, TimerIds
<1>2. /\ Subscribers' /\ Slots' /\ Early' /\ First' = First /\ Second' = Second
      /\ (Kept' <=> Kept) /\ (KeptOnce' <=> KeptOnce)
  BY <1>1, LoopFrame
<1>3. /\ os_timers[0].task_id = taskID_1 /\ os_timers[0].value = Period /\ os_timers[0].used
      /\ os_timers[1].task_id = taskID_2 /\ os_timers[1].value = Delay /\ os_timers[1].used
      /\ \A id \in TimerIds : id >= 2 => ~os_timers[id].used
      /\ First \in Nat /\ First >= 1 /\ Second \in Nat
      /\ PassStart < First + Period + (IF Late THEN PassTime ELSE 0)
  BY <1>1, InLoop
<1>4. /\ PassStart' = PassStart /\ PassTime' = PassTime
      /\ os_timer_counter \in Nat /\ PassStart \in Int /\ os_timer_counter' \in Nat
      /\ PassStart <= os_timer_counter /\ os_timer_counter <= PassStart + PassTime
  BY <1>1, InPass, SamePass DEF DemoInv
<1>5. NoMessage' <=> NoMessage
  BY <1>1, MessagesFrame
<1>6. AtRest \/ PeriodOver \/ Delayed \/ DelayOver \/ Noted
  BY <1>1 DEF DemoInv, TokenInv, Posting, Posted, Starting, Answering, Answered, Noting, Handles
<1> DEFINE due == Started(index) /\ Expired(index, os_timer_counter)
<1>7. CASE ~due
  <2>1. pc' = "check" /\ index' = index + 1 /\ UNCHANGED os_timer_pending_queue
    BY <1>1, <1>7, ChecksWhole DEF CheckTimerWhole, PassTimer
  <2>2. index = 0 => os_timer_counter < First + Period
    BY <1>3, <1>4, <1>7, DemoTimes DEF Started, Expired, First
  <2>3. index = 1 /\ Second >= 1 => os_timer_counter < Second + Delay
    BY <1>3, <1>4, <1>7, DemoTimes DEF Started, Expired, Second
  <2>4. AtRest => AtRest'
    BY <1>1, <1>2, <1>5, <2>1, ExpiriesFrame DEF AtRest, Calm
  <2>5. PeriodOver => PeriodOver'
    BY <1>1, <1>2, <1>4, <1>5, <2>1, ExpiriesFrame DEF PeriodOver, Age, InKernel
  <2>6. Delayed => Delayed'
    BY <1>1, <1>2, <1>3, <1>4, <1>5, <2>1, <2>3, ExpiriesFrame, DemoTimes DEF Delayed, Calm
  <2>7. DelayOver => DelayOver'
    BY <1>1, <1>2, <1>4, <1>5, <2>1, ExpiriesFrame DEF DelayOver, Age, InKernel
  <2>8. Noted => Noted'
    BY <1>1, <1>2, <1>4, <1>5, <2>1, ExpiriesFrame DEF Noted, Calm, Age, Handles
  <2>9. TokenInv'
    BY <1>6, <2>4, <2>5, <2>6, <2>7, <2>8 DEF TokenInv
  <2>10. Clock'
    BY <1>1, <1>2, <1>3, <1>4, <2>1, <2>2, DemoTimes DEF DemoInv, Clock, Late
  <2>11. Stages'
    BY <1>1, <2>1 DEF DemoInv, Stages
  <2> QED
    BY <1>2, <2>9, <2>10, <2>11 DEF DemoInv
<1>8. CASE due
  <2>1. /\ pc' = "rearm" /\ index' = index
        /\ os_timer_pending_queue' = os_queue_add(os_timer_pending_queue, os_timers[index].task_id)
    BY <1>1, <1>8, ChecksWhole DEF CheckTimerWhole, QueueOwner
  <2>2. index \in {0, 1}
    BY <1>1, <1>3, <1>8 DEF Started, Expired
  <2>3. index = 0 => os_timer_counter >= First + Period
    BY <1>3, <1>8 DEF Started, Expired, First
  <2>4. index = 1 => Second # 0 /\ os_timer_counter >= Second + Delay
    BY <1>3, <1>8 DEF Started, Expired, Second
  <2>5. NoExpiry /\ ~PeriodOver /\ ~DelayOver
    <3>1. ~DelayOver
      BY <1>1, <2>2 DEF DelayOver
    <3>2. ~PeriodOver
      BY <1>1, <2>2, <2>4 DEF PeriodOver
    <3> QED
      BY <1>6, <3>1, <3>2 DEF AtRest, Delayed, Noted
  <2>6. ASSUME NEW t \in {taskID_1, taskID_2}, os_timers[index].task_id = t
        PROVE  Expiry(t)'
    <3>1. /\ os_timer_pending_queue \in QueueOf(os_task_id_t, OS_MAXIMUM_TIMERS)
          /\ t \in os_task_id_t
      BY TaskIdsOfDemo DEF TypeOK
    <3>2. Holds(os_queue_add(os_timer_pending_queue, t), t)
      BY <2>5, <3>1, Sizes, HoldsAdded DEF NoExpiry
    <3> QED
      BY <2>1, <2>6, <3>2 DEF Expiry
  <2>7. TokenInv'
    <3>1. CASE index = 0
      <4>1. AtRest
        <5>1. ~Delayed
          BY <1>1, <1>3, <1>4, <2>3, <3>1, DemoTimes DEF Delayed
        <5>2. last_checked_task_id \in {0, 1, 2, 3}
          BY Sizes DEF DemoInv, Stages, TypeOK, os_task_id_t
        <5>3. ~Noted
          BY <1>1, <1>3, <1>4, <2>3, <3>1, <5>2, DemoTimes DEF Noted, Age
        <5> QED
          BY <1>6, <2>5, <5>1, <5>3
      <4>2. Expiry(taskID_1)'
        BY <1>3, <2>6, <3>1
      <4>3. PeriodOver'
        BY <1>1, <1>2, <1>3, <1>5, <2>1, <2>3, <3>1, <4>1, <4>2 DEF AtRest, PeriodOver, InKernel
      <4> QED
        BY <4>3 DEF TokenInv
    <3>2. CASE index = 1
      <4>1. Delayed
        BY <1>6, <2>4, <2>5, <3>2 DEF AtRest, Noted
      <4>2. Expiry(taskID_2)'
        BY <1>3, <2>6, <3>2
      <4>3. DelayOver'
        BY <1>1, <1>2, <1>3, <1>4, <1>5, <2>1, <2>4, <3>2, <4>1, <4>2, DemoTimes
           DEF Delayed, DelayOver, InKernel, Age
      <4> QED
        BY <4>3 DEF TokenInv
    <3> QED
      BY <2>2, <3>1, <3>2
  <2>8. Clock'
    BY <1>1, <1>2, <1>3, <1>4, <2>1 DEF DemoInv, Clock, Late
  <2>9. Stages'
    BY <1>1, <2>1, <2>2 DEF DemoInv, Stages
  <2> QED
    BY <1>2, <2>7, <2>8, <2>9 DEF DemoInv
<1> QED
  BY <1>7, <1>8

(* The rest of the turn: task 1's timer starts anew, task 2's stops. *)
LEMMA TokenRearmTimer ==
  ASSUME TypeOK, DemoInv, ~torn', Kernel, RearmTimer
  PROVE  DemoInv'
<1>1. /\ pc = "rearm" /\ event = "none" /\ event' = "none" /\ pc' = "check"
      /\ index \in {0, 1} /\ index' = index + 1 /\ ticks' = ticks
      /\ UNCHANGED <<os_msg_buffer, os_timer_pending_queue, last_checked_task_id>>
      /\ UNCHANGED <<os_task_admin, os_latest_added_task, os_timer_counter, timer, msgReceived,
                     sent, reported>>
  BY KernelFrame DEF RearmTimer, InKernel, runVars, msgVars, DemoInv, Stages
<1>2. /\ os_timers[0].task_id = taskID_1 /\ os_timers[0].type = "os_timer_repeat"
      /\ os_timers[0].value = Period /\ os_timers[0].used
      /\ os_timers[1].task_id = taskID_2 /\ os_timers[1].type = "os_timer_one_shot"
      /\ os_timers[1].value = Delay /\ os_timers[1].used
      /\ First \in Nat /\ First >= 1 /\ Second \in Nat
      /\ PassStart < First + Period + (IF Late THEN PassTime ELSE 0)
  BY <1>1, InLoop
<1>3. /\ PassStart' = PassStart /\ PassTime' = PassTime
      /\ os_timer_counter \in Nat /\ PassStart \in Int /\ PassStart >= 1
      /\ PassStart <= os_timer_counter /\ os_timer_counter <= PassStart + PassTime
  BY <1>1, InPass, SamePass DEF DemoInv, Clock
<1>4. \A t \in Nat : Ready(t) /\ Ready(t)'
  BY <1>1 DEF Ready
<1>5. Subscribers'
  <2>1. \A t : \A e : (Registered(t, e)' <=> Registered(t, e)) /\ (HasCallback(t)' <=> HasCallback(t))
    BY <1>1 DEF Registered, HasCallback
  <2> QED
    BY <1>1, <1>4, <2>1 DEF DemoInv, Subscribers
<1>6. PICK i \in {0, 1}, n \in Nat :
        i = index /\ n = IF i = 0 THEN os_timer_counter ELSE 0
  BY <1>1, <1>3
<1>7. os_timers' = [os_timers EXCEPT ![i].start_value = n]
  <2>1. CASE i = 0
    <3>1. os_timers' = StartValueSet(os_timers, 0, n)
      BY <1>1, <1>2, <1>6, <2>1, StartsWhole DEF RearmTimer
    <3> QED
      BY <1>2, <2>1, <3>1 DEF StartValueSet
  <2>2. CASE i = 1
    <3>1. os_timers' = StartValueSet(os_timers, 1, n)
      BY <1>1, <1>2, <1>6, <2>2 DEF RearmTimer
    <3> QED
      BY <1>2, <2>2, <3>1 DEF StartValueSet
  <2> QED
    BY <2>1, <2>2
<1>8. /\ \A id \in TimerIds : /\ os_timers'[id].used = os_timers[id].used
                              /\ os_timers'[id].task_id = os_timers[id].task_id
                              /\ os_timers'[id].type = os_timers[id].type
                              /\ os_timers'[id].value = os_timers[id].value
                              /\ id # i => os_timers'[id] = os_timers[id]
      /\ os_timers'[i].start_value = n
  <2>1. os_timers \in [TimerIds -> os_timer_t] /\ i \in TimerIds
    BY <1>6, DemoIds DEF TypeOK
  <2> QED
    BY <1>7, <2>1 DEF os_timer_t
<1>9. /\ index = 0 => First' = os_timer_counter /\ Second' = Second
      /\ index = 1 => First' = First /\ Second' = 0
  BY <1>6, <1>8, DemoIds DEF First, Second
<1>10. Slots'
  <2>1. TimerIds \subseteq Nat /\ taskID_1 \in Nat /\ taskID_2 \in Nat
    BY DEF TimerIds, taskID_1, taskID_2
  <2>2. First' >= 1
    BY <1>1, <1>2, <1>3, <1>9
  <2>3. \A id \in TimerIds : ~os_timers'[id].used => os_timers'[id].start_value = 0
    <3>1. \A id \in TimerIds : ~os_timers[id].used => id # i
      BY <1>2, <1>6
    <3> QED
      BY <1>8, <3>1 DEF DemoInv, Slots
  <2> QED
    BY <1>1, <1>4, <1>8, <2>1, <2>2, <2>3, DemoIds DEF DemoInv, Slots
<1>11. Stages'
  BY <1>1 DEF DemoInv, Stages
<1>12. Clock'
  BY <1>1, <1>2, <1>3, <1>4, <1>9, DemoTimes DEF DemoInv, Clock, Late
<1>13. TokenInv'
  <2>1. PeriodOver \/ DelayOver
    BY <1>1 DEF DemoInv, TokenInv, AtRest, Posting, Posted, Starting, Delayed, Answering, Answered,
       Noting, Noted, Handles
  <2>2. CASE PeriodOver
    <3>1. index = 0 /\ os_timer_counter >= First + Period /\ Kept /\ sent \in Nat
      BY <1>1, <2>2 DEF PeriodOver, DemoInv, Clock
    <3>2. KeptOnce'
      <4>1. /\ First >= 1 + sent * Period
            /\ First <= 1 + sent * (Period + 2 * PassTime) + 2 * PassTime
        BY <3>1 DEF Kept, Turn
      <4>2. PICK s \in Nat, p \in Nat, q \in Nat : s = sent /\ p = Period /\ q = PassTime
        BY <3>1, DemoTimes
      <4>3. /\ (s + 1) * p = s * p + p
            /\ (s + 1) * (p + 2 * q) = s * (p + 2 * q) + p + 2 * q
        OBVIOUS
      <4>4. os_timer_counter >= 1 + (s + 1) * p
        <5>1. s * p \in Nat /\ First >= 1 + s * p /\ os_timer_counter >= First + p
          BY <3>1, <4>1, <4>2
        <5> QED
          BY <1>2, <1>3, <4>3, <5>1
      <4>5. os_timer_counter <= 1 + (s + 1) * (p + 2 * q) + 2 * q
        <5>1. /\ s * (p + 2 * q) \in Nat /\ First <= 1 + s * (p + 2 * q) + 2 * q
              /\ PassStart < First + p + q /\ os_timer_counter <= PassStart + q
          BY <1>1, <1>2, <1>3, <3>1, <4>1, <4>2 DEF Late
        <5> QED
          BY <1>2, <1>3, <4>3, <5>1
      <4>6. First' = os_timer_counter /\ sent' = s /\ PassTime' = q
        BY <1>1, <1>3, <1>9, <3>1, <4>2
      <4> QED
        BY <4>2, <4>4, <4>5, <4>6 DEF KeptOnce, Turn
    <3>3. PeriodOver'
      BY <1>1, <1>2, <1>3, <1>9, <2>2, <3>1, <3>2, MessagesFrame, ExpiriesFrame
         DEF PeriodOver, InKernel, Age
    <3> QED
      BY <3>3 DEF TokenInv
  <2>3. CASE DelayOver
    <3>1. index = 1
      BY <1>1, <2>3 DEF DelayOver
    <3>2. Kept' <=> Kept
      BY <1>1, <1>3, <1>9, <3>1 DEF Kept, Turn
    <3>3. DelayOver'
      BY <1>1, <1>2, <1>3, <1>9, <2>3, <3>1, <3>2, MessagesFrame, ExpiriesFrame
         DEF DelayOver, InKernel, Age
    <3> QED
      BY <3>3 DEF TokenInv
  <2> QED
    BY <2>1, <2>2, <2>3
<1> QED
  BY <1>1, <1>5, <1>10, <1>11, <1>12, <1>13 DEF DemoInv, Early

LEMMA TokenCheckDone ==
  ASSUME TypeOK, DemoInv, ~torn', Kernel, CheckDone
  PROVE  DemoInv'
<1>1. /\ pc = "check" /\ pc' = "timer" /\ event = "none" /\ event' = "none" /\ ticks' = ticks
      /\ index = OS_MAXIMUM_TIMERS /\ index' = index
      /\ UNCHANGED <<os_timers, os_msg_buffer, os_timer_pending_queue, last_checked_task_id>>
      /\ UNCHANGED <<os_latest_added_task, os_timer_counter, timer, msgReceived, sent, reported>>
  BY KernelFrame DEF CheckDone, InKernel, runVars, msgVars, timerVars
<1>2. /\ Subscribers' /\ Slots' /\ Early' /\ First' = First /\ Second' = Second
      /\ (Kept' <=> Kept) /\ (KeptOnce' <=> KeptOnce)
  BY <1>1, LoopFrame
<1>3. index >= 2 /\ index \in Nat
  BY <1>1, Sizes, DemoSizes
<1>4. PassStart' = PassStart /\ PassTime' = PassTime
  BY <1>1, SamePass
<1>5. Stages'
  BY <1>1 DEF DemoInv, Stages
<1>6. Clock'
  BY <1>1, <1>2, <1>3, <1>4, InLoop DEF DemoInv, Clock, Late
<1>7. TokenInv'
  <2> USE MessagesFrame, ExpiriesFrame
  <2> USE DEF Calm, Age, InKernel, Handles
  <2>1. AtRest \/ PeriodOver \/ Delayed \/ DelayOver \/ Noted
    BY <1>1 DEF DemoInv, TokenInv, Posting, Posted, Starting, Answering, Answered, Noting
  <2>2. AtRest => AtRest'
    BY <1>1, <1>2 DEF AtRest
  <2>3. PeriodOver => PeriodOver'
    BY <1>1, <1>2, <1>3, <1>4 DEF PeriodOver
  <2>4. Delayed => Delayed'
    BY <1>1, <1>2, <1>3, <1>4 DEF Delayed
  <2>5. DelayOver => DelayOver'
    BY <1>1, <1>2, <1>3, <1>4 DEF DelayOver
  <2>6. Noted => Noted'
    BY <1>1, <1>2, <1>3, <1>4 DEF Noted
  <2> QED
    BY <2>1, <2>2, <2>3, <2>4, <2>5, <2>6 DEF TokenInv
<1> QED
  BY <1>2, <1>5, <1>6, <1>7 DEF DemoInv

(* One expiry is taken out and handed to its task. *)
LEMMA TokenTimerStage ==
  ASSUME TypeOK, DemoInv, ~torn', Kernel, TimerStage
  PROVE  DemoInv'
<1>1. /\ pc = "timer" /\ pc' = "idle" /\ event = "none" /\ ticks' = ticks
      /\ UNCHANGED <<os_timers, os_msg_buffer, msg_pending, last_checked_task_id, index>>
      /\ UNCHANGED <<os_latest_added_task, os_timer_counter, timer, msgReceived, sent, reported>>
  BY KernelFrame DEF TimerStage, InKernel, msgVars
<1>2. /\ Subscribers' /\ Slots' /\ Early' /\ First' = First /\ Second' = Second
      /\ (Kept' <=> Kept) /\ (KeptOnce' <=> KeptOnce)
  BY <1>1, LoopFrame
<1>3. \A t \in 0 .. 2 : HasCallback(t) /\ \A e \in EventsOf(t) : Registered(t, e)
  BY <1>1, InLoop
<1>4. PassStart' = PassStart /\ PassTime' = PassTime
  BY <1>1, SamePass
<1>5. Clock'
  BY <1>1, <1>2, <1>4, InLoop DEF DemoInv, Clock, Late
<1>6. CASE NoExpiry
  <2>1. UNCHANGED <<event, os_timer_pending_queue>>
    BY <1>6 DEF TimerStage, NoExpiry, Empty, os_queue_isEmpty, runVars
  <2>2. AtRest \/ Delayed \/ Noted
    <3>1. ~Expiry(taskID_1) /\ ~Expiry(taskID_2)
      BY <1>6 DEF NoExpiry, Empty, Expiry, Holds
    <3> QED
      BY <1>1, <3>1 DEF DemoInv, TokenInv, PeriodOver, Posting, Posted, Starting, DelayOver,
         Answering, Answered, Noting, Handles
  <2> USE MessagesFrame, ExpiriesFrame
  <2> USE DEF Calm, Age, Handles
  <2>3. AtRest => AtRest'
    BY <1>1, <1>2, <2>1 DEF AtRest
  <2>4. Delayed => Delayed'
    BY <1>1, <1>2, <1>4, <2>1 DEF Delayed
  <2>5. Noted => Noted'
    BY <1>1, <1>2, <1>4, <2>1 DEF Noted
  <2>6. TokenInv'
    BY <2>2, <2>3, <2>4, <2>5 DEF TokenInv
  <2>7. Stages'
    BY <1>1, <2>1 DEF DemoInv, Stages
  <2> QED
    BY <1>2, <1>5, <2>6, <2>7 DEF DemoInv
<1>7. ASSUME NEW t \in {taskID_1, taskID_2}, Expiry(t)
      PROVE  NoExpiry' /\ event' = "os_event_timer" /\ task_running' = t
  <2>1. /\ Empty(os_queue_remove(os_timer_pending_queue))
        /\ os_queue_front(os_timer_pending_queue) = t
        /\ ~os_queue_isEmpty(os_timer_pending_queue)
    BY <1>7, Sizes, EmptyRemoved DEF TypeOK, Expiry
  <2>2. t \in 0 .. 2 /\ t < OS_MAXIMUM_TASKS /\ "os_event_timer" \in EventsOf(t)
    BY Sizes, DemoSizes DEF taskID_1, taskID_2, taskID_3, EventsOf
  <2>3. /\ os_timer_pending_queue' = os_queue_remove(os_timer_pending_queue)
        /\ os_run_task(t, "os_event_timer")
    BY <2>1, <2>2 DEF TimerStage
  <2>4. Registered(t, "os_event_timer") /\ HasCallback(t)
    BY <1>3, <2>2
  <2> QED
    BY <2>1, <2>3, <2>4, RunReady DEF NoExpiry
<1>8. CASE ~NoExpiry
  <2>1. PeriodOver \/ DelayOver
    BY <1>1, <1>8 DEF DemoInv, TokenInv, AtRest, Posting, Posted, Starting, Delayed,
       Answering, Answered, Noting, Noted
  <2>2. ASSUME PeriodOver
        PROVE  Posting' /\ event' = "os_event_timer"
    <3>1. NoExpiry' /\ event' = "os_event_timer" /\ task_running' = taskID_1
      BY <1>7, <2>2 DEF PeriodOver
    <3> QED
      BY <1>1, <1>2, <1>4, <2>2, <3>1, MessagesFrame
         DEF PeriodOver, Posting, Handles, Age, taskID_1
  <2>3. ASSUME DelayOver
        PROVE  Answering' /\ event' = "os_event_timer"
    <3>1. NoExpiry' /\ event' = "os_event_timer" /\ task_running' = taskID_2
      BY <1>7, <2>3 DEF DelayOver
    <3> QED
      BY <1>1, <1>2, <1>4, <2>3, <3>1, MessagesFrame
         DEF DelayOver, Answering, Handles, Age, taskID_2
  <2>4. TokenInv' /\ event' = "os_event_timer"
    BY <2>1, <2>2, <2>3 DEF TokenInv
  <2>5. Stages'
    BY <1>1, <2>4 DEF DemoInv, Stages
  <2> QED
    BY <1>2, <1>5, <2>4, <2>5 DEF DemoInv
<1> QED
  BY <1>6, <1>8

(* The idle turn: when it is task 3's, it reports. *)
LEMMA TokenIdleStage ==
  ASSUME TypeOK, DemoInv, ~torn', Kernel, IdleStage
  PROVE  DemoInv'
<1>1. /\ pc = "idle" /\ pc' = "loop" /\ event = "none" /\ ticks' = ticks
      /\ os_latest_added_task = 3 /\ last_checked_task_id \in {0, 1, 2, 3}
      /\ UNCHANGED <<os_timers, os_msg_buffer, os_timer_pending_queue, msg_pending, index>>
      /\ UNCHANGED <<os_latest_added_task, os_timer_counter, timer, msgReceived, sent, reported>>
  <2>1. last_checked_task_id \in Nat /\ last_checked_task_id <= 3
    BY Sizes DEF DemoInv, Stages, TypeOK, os_task_id_t
  <2> QED
    BY <2>1, KernelFrame DEF IdleStage, InKernel, msgVars, timerVars, DemoInv, Stages
<1>2. /\ Subscribers' /\ Slots' /\ Early' /\ First' = First /\ Second' = Second
      /\ (Kept' <=> Kept) /\ (KeptOnce' <=> KeptOnce)
  BY <1>1, LoopFrame
<1>3. \A t \in 0 .. 2 : HasCallback(t) /\ \A e \in EventsOf(t) : Registered(t, e)
  BY <1>1, InLoop
<1>4. PassStart' = PassStart /\ PassTime' = PassTime
  BY <1>1, SamePass
<1>5. Clock'
  BY <1>1, <1>2, <1>4, InLoop DEF DemoInv, Clock, Late
<1>6. PICK last \in {0, 1, 2, 3}, next \in {0, 1, 2, 3} :
        /\ last = last_checked_task_id /\ next = NextIdle /\ last_checked_task_id' = next
        /\ next = IF last = 3 THEN 0 ELSE last + 1
        /\ os_run_task(next, "os_event_idle")
  <2>1. NextIdle \in {0, 1, 2, 3} /\ NextIdle = IF last_checked_task_id = 3 THEN 0
                                                ELSE last_checked_task_id + 1
    BY <1>1 DEF NextIdle
  <2> QED
    BY <1>1, <2>1 DEF IdleStage
<1>7. event' \in {"none", "os_event_idle"}
  BY <1>1, <1>6, RunEvent
<1>8. next = 2 => event' = "os_event_idle" /\ task_running' = taskID_3
  <2>1. "os_event_idle" \in EventsOf(2) /\ 2 = taskID_3
    BY DEF EventsOf, taskID_1, taskID_2, taskID_3
  <2>2. Registered(2, "os_event_idle") /\ HasCallback(2)
    BY <1>3, <2>1
  <2> QED
    BY <1>6, <2>1, <2>2, RunReady
<1>9. TokenInv'
  <2> USE MessagesFrame, ExpiriesFrame
  <2> USE DEF Calm, Age, Handles
  <2>1. AtRest \/ Posted \/ Delayed \/ Answered \/ Noted
    BY <1>1 DEF DemoInv, TokenInv, PeriodOver, Posting, Starting, DelayOver, Answering, Noting
  <2>2. AtRest => AtRest'
    BY <1>1, <1>2, <1>7 DEF AtRest
  <2>3. Posted => Posted'
    BY <1>1, <1>2, <1>4, <1>7 DEF Posted
  <2>4. Delayed => Delayed'
    BY <1>1, <1>2, <1>4, <1>7 DEF Delayed
  <2>5. Answered => Answered'
    BY <1>1, <1>2, <1>4, <1>7 DEF Answered
  <2>6. Noted => Noted'
    BY <1>1, <1>2, <1>4, <1>6, <1>7, <1>8 DEF Noted, taskID_3
  <2> QED
    BY <2>1, <2>2, <2>3, <2>4, <2>5, <2>6 DEF TokenInv
<1>10. Stages'
  BY <1>1, <1>6, <1>7 DEF DemoInv, Stages
<1> QED
  BY <1>2, <1>5, <1>9, <1>10 DEF DemoInv

LEMMA TokenKernel ==
  ASSUME TypeOK, NoErrorInv, DemoInv, ~torn', Kernel
  PROVE  DemoInv'
<1>1. ~LeaveMain
  BY DEF LeaveMain, NoErrorInv, NoError
<1> QED
  BY <1>1, TokenStarts, TokenInitDone, TokenMsgStage, TokenCheckTimer, TokenRearmTimer,
     TokenCheckDone, TokenTimerStage, TokenIdleStage DEF Kernel, os_main
-----------------------------------------------------------------------------
(* A callback other than init: what its return leaves alone. *)
LEMMA CallbackFrame ==
  ASSUME DemoInv, ~torn', Succeed,
         event \in {"os_event_msg_pending", "os_event_timer", "os_event_idle"},
         UNCHANGED <<os_task_admin, timer>>
  PROVE  /\ UNCHANGED <<task_running, ticks, os_latest_added_task, msg_pending, pc, index,
                        os_timer_pending_queue, os_timer_counter, last_checked_task_id>>
         /\ event' = "none" /\ pc \notin {"setup", "init"}
         /\ PassStart' = PassStart /\ PassTime' = PassTime
         /\ Subscribers' /\ Stages' /\ Early' /\ \A t \in Nat : Ready(t) /\ Ready(t)'
<1>1. /\ UNCHANGED <<task_running, ticks, os_latest_added_task, msg_pending, pc, index,
                     os_timer_pending_queue, os_timer_counter, last_checked_task_id>>
      /\ event' = "none"
  <2>1. ticks \in Nat
    BY DemoAssumption DEF DemoInv, Clock
  <2> QED
    BY <2>1, NoTickInAccess DEF Succeed, loopVars
<1>2. pc \notin {"setup", "init"}
  BY DEF DemoInv, Stages
<1>3. \A t \in Nat : Ready(t) /\ Ready(t)'
  BY <1>1, <1>2 DEF Ready
<1>4. Subscribers'
  <2>1. \A t : \A e : (Registered(t, e)' <=> Registered(t, e)) /\ (HasCallback(t)' <=> HasCallback(t))
    BY DEF Registered, HasCallback
  <2> QED
    BY <1>1, <1>3, <2>1 DEF DemoInv, Subscribers
<1> QED
  BY <1>1, <1>2, <1>3, <1>4, SamePass DEF DemoInv, Stages, Early

(* The callbacks that leave the timers alone. *)
LEMMA TimersKept ==
  ASSUME DemoInv, ~torn', Succeed,
         event \in {"os_event_msg_pending", "os_event_timer", "os_event_idle"},
         UNCHANGED <<os_task_admin, timer, os_timers>>
  PROVE  Slots' /\ First' = First /\ Second' = Second
<1>1. \A t \in Nat : Ready(t)' <=> Ready(t)
  BY CallbackFrame
<1>2. UNCHANGED os_latest_added_task
  BY CallbackFrame
<1> QED
  BY <1>1, <1>2, TablesFrame DEF DemoInv, First, Second

(* Posting to the empty queue of messages. *)
LEMMA Posts ==
  ASSUME TypeOK, NoMessage, NEW t \in os_task_id_t, NEW msg \in Msg,
         os_msg_buffer' = os_queue_add(os_msg_buffer, [destination |-> t, msg |-> msg])
  PROVE  Message(t, msg)'
<1> DEFINE entry == [destination |-> t, msg |-> msg]
<1>1. entry \in os_msg_queue_entry_t
  BY DEF os_msg_queue_entry_t
<1> HIDE DEF entry
<1>2. Holds(os_queue_add(os_msg_buffer, entry), entry)
  BY <1>1, Sizes, HoldsAdded DEF TypeOK, NoMessage
<1> QED
  BY <1>2 DEF Message, entry

LEMMA TokenTask1Timer ==
  ASSUME TypeOK, DemoInv, ~torn', Task1Timer
  PROVE  DemoInv'
<1>1. /\ Handles(taskID_1, "os_event_timer") /\ Succeed /\ sent' = sent + 1
      /\ UNCHANGED <<os_task_admin, os_timers, timer, msgReceived, reported>>
      /\ os_msg_buffer' =
           os_queue_add(os_msg_buffer, [destination |-> taskID_2, msg |-> "0x55"])
  BY DEF Task1Timer
<1>2. event = "os_event_timer" /\ task_running = 0
  BY <1>1 DEF Handles, taskID_1
<1>3. /\ UNCHANGED <<task_running, ticks, os_latest_added_task, msg_pending, pc, index,
                     os_timer_pending_queue, os_timer_counter, last_checked_task_id>>
      /\ event' = "none" /\ pc = "idle"
      /\ PassStart' = PassStart /\ PassTime' = PassTime
      /\ Subscribers' /\ Stages' /\ Early' /\ \A t \in Nat : Ready(t) /\ Ready(t)'
  BY <1>1, <1>2, CallbackFrame DEF DemoInv, Stages
<1>4. Slots' /\ First' = First /\ Second' = Second
  BY <1>1, <1>2, TimersKept
<1>5. Posting
  BY <1>2 DEF DemoInv, TokenInv, AtRest, PeriodOver, Posted, Starting, Delayed, DelayOver,
     Answering, Answered, Noting, Noted, Calm, InKernel, Handles, taskID_2
<1>6. Message(taskID_2, "0x55")'
  BY <1>1, <1>5, Posts, TaskIdsOfDemo, DemoSizes DEF Posting
<1>7. Kept'
  BY <1>1, <1>3, <1>4, <1>5 DEF Posting, KeptOnce, Kept, Turn
<1>8. Posted'
  BY <1>1, <1>3, <1>4, <1>5, <1>6, <1>7, ExpiriesFrame DEF Posting, Posted, Calm, Age
<1>9. Clock'
  BY <1>1, <1>2, <1>3, <1>4, DemoIds DEF DemoInv, Clock, Late
<1> QED
  BY <1>3, <1>4, <1>8, <1>9 DEF DemoInv, TokenInv

LEMMA TokenTask2Timer ==
  ASSUME TypeOK, DemoInv, ~torn', Task2Timer
  PROVE  DemoInv'
<1>1. /\ Handles(taskID_2, "os_event_timer") /\ Succeed
      /\ UNCHANGED <<os_task_admin, os_timers, timer, msgReceived, sent, reported>>
      /\ os_msg_buffer' =
           os_queue_add(os_msg_buffer, [destination |-> taskID_3, msg |-> "0xAA"])
  BY DEF Task2Timer, history
<1>2. event = "os_event_timer" /\ task_running = 1
  BY <1>1 DEF Handles, taskID_2
<1>3. /\ UNCHANGED <<task_running, ticks, os_latest_added_task, msg_pending, pc, index,
                     os_timer_pending_queue, os_timer_counter, last_checked_task_id>>
      /\ event' = "none" /\ pc = "idle"
      /\ PassStart' = PassStart /\ PassTime' = PassTime
      /\ Subscribers' /\ Stages' /\ Early' /\ \A t \in Nat : Ready(t) /\ Ready(t)'
  BY <1>1, <1>2, CallbackFrame DEF DemoInv, Stages
<1>4. Slots' /\ First' = First /\ Second' = Second
  BY <1>1, <1>2, TimersKept
<1>5. Answering
  BY <1>2 DEF DemoInv, TokenInv, AtRest, PeriodOver, Posting, Posted, Starting, Delayed, DelayOver,
     Answered, Noting, Noted, Calm, InKernel, Handles, taskID_1
<1>6. Message(taskID_3, "0xAA")'
  BY <1>1, <1>5, Posts, TaskIdsOfDemo, DemoSizes DEF Answering
<1>7. Kept' <=> Kept
  BY <1>1, TimersFrame
<1>8. Answered'
  BY <1>1, <1>3, <1>4, <1>5, <1>6, <1>7, ExpiriesFrame DEF Answering, Answered, Calm, Age
<1>9. Clock'
  BY <1>1, <1>2, <1>3, <1>4, DemoIds DEF DemoInv, Clock, Late
<1> QED
  BY <1>3, <1>4, <1>8, <1>9 DEF DemoInv, TokenInv

LEMMA TokenTask2Msg ==
  ASSUME TypeOK, NoErrorInv, DemoInv, ~torn', Task2Msg
  PROVE  DemoInv'
<1>1. /\ Handles(taskID_2, "os_event_msg_pending") /\ Succeed
      /\ UNCHANGED <<os_task_admin, os_msg_buffer, timer, msgReceived, sent, reported>>
      /\ msg_pending.msg = "0x55" => Starts(os_timers, timer)
  <2>1. PICK msg \in Msg : /\ Retrieves(msg)
                           /\ msg = "0x55" => Starts(os_timers, timer)
    BY DEF Task2Msg
  <2>2. msg = msg_pending.msg
    BY <2>1 DEF Task2Msg, Retrieves, Handles, NoErrorInv, PendingIsOwn
  <2> QED
    BY <2>1, <2>2 DEF Task2Msg, history
<1>2. event = "os_event_msg_pending" /\ task_running = 1
  BY <1>1 DEF Handles, taskID_2
<1>3. /\ UNCHANGED <<task_running, ticks, os_latest_added_task, msg_pending, pc, index,
                     os_timer_pending_queue, os_timer_counter, last_checked_task_id>>
      /\ event' = "none" /\ pc = "check" /\ index = 0
      /\ PassStart' = PassStart /\ PassTime' = PassTime
      /\ Subscribers' /\ Stages' /\ Early' /\ \A t \in Nat : Ready(t) /\ Ready(t)'
  BY <1>1, <1>2, CallbackFrame DEF DemoInv, Stages
<1>4. Starting
  BY <1>2 DEF DemoInv, TokenInv, AtRest, PeriodOver, Posting, Posted, Delayed, DelayOver,
     Answering, Answered, Noting, Noted, Calm, InKernel, Handles, taskID_3
<1>5. /\ timer = 1 /\ os_timers[1].used /\ First \in Nat /\ First >= 1
      /\ os_timer_counter \in Nat /\ PassStart \in Int /\ PassStart >= 1
      /\ PassStart <= os_timer_counter /\ os_timer_counter <= PassStart + PassTime
  BY <1>3, InLoop, InPass DEF DemoInv, Clock
<1>6. PICK n \in Nat : n = os_timer_counter
  BY <1>5
<1>7. os_timers' = [os_timers EXCEPT ![1].start_value = n]
  <2>1. os_timers' = StartValueSet(os_timers, 1, n)
    BY <1>1, <1>3, <1>4, <1>5, <1>6, StartsWhole DEF Starting
  <2> QED
    BY <1>5, <2>1 DEF StartValueSet
<1>8. /\ \A id \in TimerIds : /\ os_timers'[id].used = os_timers[id].used
                              /\ os_timers'[id].task_id = os_timers[id].task_id
                              /\ os_timers'[id].type = os_timers[id].type
                              /\ os_timers'[id].value = os_timers[id].value
                              /\ id # 1 => os_timers'[id] = os_timers[id]
      /\ os_timers'[1].start_value = n
  <2>1. os_timers \in [TimerIds -> os_timer_t]
    BY DEF TypeOK
  <2> QED
    BY <1>7, <2>1, DemoIds DEF os_timer_t
<1>9. First' = First /\ Second' = os_timer_counter
  BY <1>6, <1>8, DemoIds DEF First, Second
<1>10. Slots'
  <2>1. TimerIds \subseteq Nat /\ taskID_1 \in Nat /\ taskID_2 \in Nat
    BY DEF TimerIds, taskID_1, taskID_2
  <2>2. \A id \in TimerIds : ~os_timers'[id].used => os_timers'[id].start_value = 0
    <3>1. \A id \in TimerIds : ~os_timers[id].used => id # 1
      BY <1>5
    <3> QED
      BY <1>8, <3>1 DEF DemoInv, Slots
  <2> QED
    BY <1>1, <1>3, <1>8, <1>9, <2>1, <2>2, DemoIds DEF DemoInv, Slots
<1>11. Kept' <=> Kept
  BY <1>1, <1>3, <1>9 DEF Kept, Turn
<1>12. Delayed'
  BY <1>1, <1>3, <1>4, <1>5, <1>9, <1>11, MessagesFrame, ExpiriesFrame, DemoTimes
     DEF Starting, Delayed, Calm, Age
<1>13. Clock'
  BY <1>1, <1>2, <1>3, <1>9, DemoIds DEF DemoInv, Clock, Late
<1> QED
  BY <1>3, <1>10, <1>12, <1>13 DEF DemoInv, TokenInv

LEMMA TokenTask3 ==
  ASSUME TypeOK, NoErrorInv, DemoInv, ~torn', Task3Msg \/ Task3Idle
  PROVE  DemoInv'
<1>1. /\ Succeed /\ task_running = 2
      /\ UNCHANGED <<os_task_admin, os_msg_buffer, timer, os_timers, sent>>
      /\ \/ event = "os_event_msg_pending" /\ UNCHANGED reported
            /\ msgReceived' = (msgReceived \/ msg_pending.msg = "0xAA")
         \/ event = "os_event_idle" /\ msgReceived' = FALSE
            /\ reported' = IF msgReceived THEN reported + 1 ELSE reported
  <2>1. CASE Task3Msg
    <3>1. PICK msg \in Msg : /\ Retrieves(msg)
                             /\ msgReceived' = (msgReceived \/ msg = "0xAA")
      BY <2>1 DEF Task3Msg
    <3>2. msg = msg_pending.msg
      BY <2>1, <3>1 DEF Task3Msg, Retrieves, Handles, NoErrorInv, PendingIsOwn
    <3> QED
      BY <2>1, <3>1, <3>2 DEF Task3Msg, Handles, history, taskID_3
  <2>2. CASE Task3Idle
    BY <2>2 DEF Task3Idle, Handles, taskID_3
  <2> QED
    BY <2>1, <2>2
<1>2. /\ UNCHANGED <<task_running, ticks, os_latest_added_task, msg_pending, pc, index,
                     os_timer_pending_queue, os_timer_counter, last_checked_task_id>>
      /\ event' = "none" /\ pc \notin {"setup", "init"}
      /\ PassStart' = PassStart /\ PassTime' = PassTime
      /\ Subscribers' /\ Stages' /\ Early' /\ \A t \in Nat : Ready(t) /\ Ready(t)'
  BY <1>1, CallbackFrame
<1>3. Slots' /\ First' = First /\ Second' = Second /\ (Kept' <=> Kept)
  BY <1>1, TimersKept, TimersFrame
<1>4. reported \in Nat /\ reported' \in Nat
  BY <1>1 DEF DemoInv, Clock
<1>5. Clock'
  BY <1>1, <1>2, <1>3, <1>4, DemoIds DEF DemoInv, Clock, Late
<1>6. CASE event = "os_event_msg_pending"
  <2>1. Noting
    BY <1>1, <1>6 DEF DemoInv, TokenInv, AtRest, PeriodOver, Posting, Posted, Starting, Delayed,
       DelayOver, Answering, Answered, Noted, Calm, InKernel, Handles, taskID_2
  <2>2. msgReceived' /\ UNCHANGED reported
    BY <1>1, <1>6, <2>1 DEF Noting
  <2>3. pc = "check"
    BY <1>6 DEF DemoInv, Stages
  <2>4. First \in Nat /\ PassStart \in Int
    BY <2>3, InLoop, InPass DEF DemoInv
  <2>5. Noted'
    BY <1>1, <1>2, <1>3, <2>1, <2>2, <2>3, <2>4, MessagesFrame, ExpiriesFrame, DemoTimes
       DEF Noting, Noted, Calm, Age
  <2> QED
    BY <1>2, <1>3, <1>5, <2>5 DEF DemoInv, TokenInv
<1>7. CASE event = "os_event_idle"
  <2>n. event # "os_event_msg_pending" /\ pc = "loop"
    BY <1>7 DEF DemoInv, Stages
  <2>1. AtRest \/ Posted \/ Delayed \/ Answered \/ Noted
    BY <1>7 DEF DemoInv, TokenInv, PeriodOver, Posting, Starting, DelayOver, Answering, Noting,
       InKernel, Handles
  <2>2. /\ msgReceived' = FALSE
        /\ reported' = IF msgReceived THEN reported + 1 ELSE reported
    BY <1>1, <2>n
  <2> USE MessagesFrame, ExpiriesFrame
  <2> USE DEF Calm, Age
  <2>3. AtRest => AtRest'
    BY <1>1, <1>2, <1>3, <2>2 DEF AtRest
  <2>4. Posted => Posted'
    BY <1>1, <1>2, <1>3, <2>2 DEF Posted
  <2>5. Delayed => Delayed'
    BY <1>1, <1>2, <1>3, <2>2 DEF Delayed
  <2>6. Answered => Answered'
    BY <1>1, <1>2, <1>3, <2>2 DEF Answered
  <2>7. Noted => AtRest'
    BY <1>1, <1>2, <1>3, <2>2, <2>n DEF Noted, AtRest
  <2>8. TokenInv'
    BY <2>1, <2>3, <2>4, <2>5, <2>6, <2>7 DEF TokenInv
  <2> QED
    BY <1>2, <1>3, <1>5, <2>8 DEF DemoInv
<1> QED
  BY <1>1, <1>6, <1>7
-----------------------------------------------------------------------------
LEMMA SubscribesMore ==
  ASSUME TypeOK, NEW events \in SUBSET os_event_t, NEW k \in TaskIds, task_running = k,
         Subscribes(events)
  PROVE  \A t : \A e \in os_event_t :
           /\ HasCallback(t)' <=> HasCallback(t)
           /\ Registered(t, e)' <=> (Registered(t, e) \/ (t = k /\ e \in events))
<1> DEFINE entry == [os_task_admin[k] EXCEPT !.event_subscribe =
                       [e \in os_event_t |-> @[e] \/ e \in events]]
<1>1. os_task_admin' = [os_task_admin EXCEPT ![k] = entry]
  BY DEF Subscribes
<1>2. /\ os_task_admin \in [TaskIds -> os_task_admin_t]
      /\ entry.task_cb = os_task_admin[k].task_cb
      /\ \A e \in os_event_t :
           entry.event_subscribe[e] = (os_task_admin[k].event_subscribe[e] \/ e \in events)
  BY DEF TypeOK, os_task_admin_t
<1> HIDE DEF entry
<1>3. os_task_admin'[k] = entry /\ \A t \in TaskIds \ {k} : os_task_admin'[t] = os_task_admin[t]
  BY <1>1, <1>2
<1> QED
  BY <1>2, <1>3 DEF HasCallback, Registered

(* What the three init callbacks have in common. *)
LEMMA InitCallback ==
  ASSUME TypeOK, NoErrorInv, DemoInv, ~torn', NEW k \in 0 .. 2,
         Handles(k, "os_event_init"), Succeed,
         Subscribes(EventsOf(k))
  PROVE  /\ UNCHANGED <<os_timer_pending_queue, os_timer_counter, ticks>>
         /\ pc = "init" /\ pc' = "init" /\ event' = "none" /\ index = k + 1
         /\ \A t \in Nat : (Ready(t) <=> t < k) /\ (Ready(t)' <=> t < k + 1)
         /\ Subscribers' /\ Stages'
         /\ AtRest /\ sent = 0 /\ PassStart = 1 /\ PassStart' = 1
<1>1. event = "os_event_init" /\ task_running = k
  BY DEF Handles
<1>2. pc = "init" /\ index = k + 1
  BY <1>1 DEF NoErrorInv, TimersFit, TypeOK
<1>3. /\ UNCHANGED <<os_timer_pending_queue, os_timer_counter, ticks, pc, index,
                     os_latest_added_task, last_checked_task_id>>
      /\ event' = "none"
  <2>1. ticks \in Nat
    BY DemoAssumption DEF DemoInv, Clock
  <2> QED
    BY <2>1, NoTickInAccess DEF Succeed, loopVars
<1>4. \A t \in Nat : (Ready(t) <=> t < k) /\ (Ready(t)' <=> t < k + 1)
  BY <1>1, <1>2, <1>3 DEF Ready, Initialised
<1>5. Subscribers'
  <2>1. /\ EventsOf(k) \in SUBSET os_event_t /\ k \in TaskIds /\ 0 .. 2 \subseteq Nat
        /\ "os_event_init" \in os_event_t /\ \A t \in 0 .. 2 : EventsOf(t) \in SUBSET os_event_t
    BY DemoIds DEF EventsOf, os_event_t
  <2>2. \A t : \A e \in os_event_t :
          /\ HasCallback(t)' <=> HasCallback(t)
          /\ Registered(t, e)' <=> (Registered(t, e) \/ (t = k /\ e \in EventsOf(k)))
    BY <1>1, <2>1, SubscribesMore
  <2>3. ASSUME NEW t \in 0 .. 2, t < os_latest_added_task
        PROVE  Registered(t, "os_event_init")' /\ HasCallback(t)'
    BY <2>1, <2>2, <2>3 DEF DemoInv, Subscribers
  <2>4. ASSUME NEW t \in 0 .. 2, t < k + 1, NEW e \in EventsOf(t)
        PROVE  Registered(t, e)'
    <3>1. e \in os_event_t /\ t \in Nat
      BY <2>1, <2>4
    <3>2. CASE t = k
      BY <2>2, <2>4, <3>1, <3>2
    <3>3. CASE t # k
      <4>1. t < k
        BY <2>4, <3>3
      <4>2. Registered(t, e)
        BY <1>4, <2>4, <3>1, <4>1 DEF DemoInv, Subscribers
      <4> QED
        BY <2>2, <3>1, <4>2
    <3> QED
      BY <3>2, <3>3
  <2> QED
    BY <1>3, <1>4, <2>1, <2>3, <2>4 DEF Subscribers
<1>6. Stages'
  BY <1>2, <1>3 DEF DemoInv, Stages
<1>7. AtRest /\ sent = 0 /\ PassStart = 1
  BY <1>2 DEF DemoInv, Early, Clock
<1>8. PassStart' = PassStart
  BY <1>3, SamePass
<1> QED
  BY <1>1, <1>2, <1>3, <1>4, <1>5, <1>6, <1>7, <1>8

(* The slot a timer is put into, when the ones before it are in use. *)
LEMMA NextSlot ==
  ASSUME NEW timers \in [TimerIds -> os_timer_t], NEW k \in {0, 1},
         \A id \in TimerIds : timers[id].used <=> id < k,
         NEW slot \in 0 .. OS_MAXIMUM_TIMERS, IsFreeSlot(timers, slot)
  PROVE  slot = k /\ slot # OS_MAXIMUM_TIMERS
<1>1. k \in TimerIds /\ k < OS_MAXIMUM_TIMERS /\ OS_MAXIMUM_TIMERS \in Nat
  BY Sizes, DemoSizes, DemoIds
<1>2. ~(k < slot)
  BY <1>1 DEF IsFreeSlot
<1>3. slot < k => slot \in TimerIds /\ timers[slot].used
  BY <1>1 DEF TimerIds
<1>4. ~(slot < k)
  BY <1>3 DEF IsFreeSlot
<1> QED
  BY <1>1, <1>2, <1>4

LEMMA TokenTask1Init ==
  ASSUME TypeOK, NoErrorInv, DemoInv, ~torn', Task1Init
  PROVE  DemoInv'
<1>1. /\ Handles(0, "os_event_init") /\ Succeed /\ Subscribes(EventsOf(0)) /\ task_running = 0
      /\ UNCHANGED <<os_msg_buffer, timer, msgReceived, sent, reported>>
  BY DEF Task1Init, EventsOf, taskID_1, taskID_2, taskID_3, history, Handles
<1>2. /\ UNCHANGED <<os_timer_pending_queue, os_timer_counter, ticks>>
      /\ pc = "init" /\ pc' = "init" /\ event' = "none" /\ index = 1
      /\ \A t \in Nat : ~Ready(t) /\ (Ready(t)' <=> t < 1)
      /\ Subscribers' /\ Stages'
      /\ AtRest /\ sent = 0 /\ PassStart = 1 /\ PassStart' = 1
  BY <1>1, InitCallback
<1>3. /\ os_timers \in [TimerIds -> os_timer_t] /\ TimerIds \subseteq Nat
      /\ os_timer_counter \in Nat /\ os_timer_counter >= 1 /\ os_timer_counter <= 1 + PassTime
  BY <1>2, InPass DEF TypeOK, TimerIds, DemoInv
<1>4. \A id \in TimerIds : ~os_timers[id].used
  BY <1>2, <1>3 DEF DemoInv, Slots
<1>5. PICK slot \in 0 .. OS_MAXIMUM_TIMERS :
        /\ IsFreeSlot(os_timers, slot)
        /\ os_timers' = StartValueSet(
             TimerAdded(os_timers, slot, task_running, Period, "os_timer_repeat"),
             slot, os_timer_counter)
  BY <1>2, StartsWhole DEF Task1Init
<1>6. slot = 0 /\ slot # OS_MAXIMUM_TIMERS
  <2>1. \A id \in TimerIds : os_timers[id].used <=> id < 0
    BY <1>4 DEF TimerIds
  <2> QED
    BY <1>3, <1>5, <2>1, NextSlot
<1>7. PICK n \in Nat : n = os_timer_counter
  BY <1>3
<1> DEFINE entry == [task_id |-> 0, type |-> "os_timer_repeat", value |-> Period,
                     used |-> TRUE, start_value |-> os_timers[0].start_value]
           added == [os_timers EXCEPT ![0] = entry]
<1>8. os_timers' = [added EXCEPT ![0].start_value = n]
  <2>1. TimerAdded(os_timers, 0, 0, Period, "os_timer_repeat") = added
    BY <1>6 DEF TimerAdded
  <2>2. added[0].used
    BY <1>3, DemoIds
  <2> HIDE DEF added
  <2> QED
    BY <1>1, <1>5, <1>6, <1>7, <2>1, <2>2 DEF StartValueSet
<1>9. /\ os_timers'[0].used /\ os_timers'[0].task_id = 0
      /\ os_timers'[0].type = "os_timer_repeat" /\ os_timers'[0].value = Period
      /\ os_timers'[0].start_value = n
      /\ \A id \in TimerIds \ {0} : os_timers'[id] = os_timers[id]
  BY <1>3, <1>8, DemoIds
<1> HIDE DEF entry, added
<1>10. First' = n /\ Second' = Second
  BY <1>9, DemoIds DEF First, Second
<1>11. Slots'
  <2>1. \A id \in TimerIds : /\ os_timers'[id].used <=> id < 2 /\ Ready(id)'
                             /\ ~os_timers'[id].used => os_timers'[id].start_value = 0
    <3>1. \A id \in TimerIds : id # 0 => ~(id < 1)
      BY DEF TimerIds
    <3> QED
      BY <1>2, <1>3, <1>4, <1>9, <3>1, DemoIds DEF DemoInv, Slots
  <2>2. timer' = OS_MAXIMUM_TIMERS
    BY <1>1, <1>2, DemoIds DEF DemoInv, Slots
  <2> QED
    BY <1>2, <1>3, <1>7, <1>9, <1>10, <2>1, <2>2, DemoIds DEF Slots
<1>12. Clock'
  BY <1>1, <1>2, <1>3, <1>7, <1>10, DemoIds, DemoTimes DEF DemoInv, Clock, Late
<1>13. Kept'
  <2>1. /\ 0 * Period = 0 /\ 0 * (Period + 2 * PassTime) = 0 /\ PassTime' = PassTime
    BY DemoTimes DEF PassTime
  <2> QED
    BY <1>1, <1>2, <1>3, <1>7, <1>10, <2>1, DemoTimes DEF Kept, Turn
<1>14. AtRest'
  BY <1>1, <1>2, <1>10, <1>13, MessagesFrame, ExpiriesFrame DEF AtRest, Calm
<1> QED
  BY <1>1, <1>2, <1>11, <1>12, <1>14 DEF DemoInv, TokenInv, Early

LEMMA TokenTask2Init ==
  ASSUME TypeOK, NoErrorInv, DemoInv, ~torn', Task2Init
  PROVE  DemoInv'
<1>1. /\ Handles(1, "os_event_init") /\ Succeed /\ Subscribes(EventsOf(1)) /\ task_running = 1
      /\ UNCHANGED <<os_msg_buffer, msgReceived, sent, reported>>
  BY DEF Task2Init, EventsOf, taskID_1, taskID_2, taskID_3, history, Handles
<1>2. /\ UNCHANGED <<os_timer_pending_queue, os_timer_counter, ticks>>
      /\ pc = "init" /\ pc' = "init" /\ event' = "none" /\ index = 2
      /\ \A t \in Nat : (Ready(t) <=> t < 1) /\ (Ready(t)' <=> t < 2)
      /\ Subscribers' /\ Stages'
      /\ AtRest /\ sent = 0 /\ PassStart = 1 /\ PassStart' = 1
  BY <1>1, InitCallback
<1>3. os_timers \in [TimerIds -> os_timer_t] /\ TimerIds \subseteq Nat
  BY DEF TypeOK, TimerIds
<1>4. \A id \in TimerIds : os_timers[id].used <=> id < 1
  <2>1. \A id \in TimerIds : id \in Nat
    BY <1>3
  <2> QED
    BY <1>2, <2>1 DEF DemoInv, Slots
<1>5. PICK slot \in 0 .. OS_MAXIMUM_TIMERS :
        /\ IsFreeSlot(os_timers, slot) /\ timer' = slot
        /\ os_timers' =
             TimerAdded(os_timers, slot, task_running, Delay, "os_timer_one_shot")
  BY DEF Task2Init
<1>6. slot = 1 /\ slot # OS_MAXIMUM_TIMERS
  BY <1>3, <1>4, <1>5, NextSlot
<1> DEFINE entry == [task_id |-> 1, type |-> "os_timer_one_shot", value |-> Delay,
                     used |-> TRUE, start_value |-> os_timers[1].start_value]
<1>7. os_timers' = [os_timers EXCEPT ![1] = entry]
  BY <1>1, <1>5, <1>6 DEF TimerAdded
<1>8. /\ os_timers'[1].used /\ os_timers'[1].task_id = 1
      /\ os_timers'[1].type = "os_timer_one_shot" /\ os_timers'[1].value = Delay
      /\ os_timers'[1].start_value = os_timers[1].start_value
      /\ \A id \in TimerIds \ {1} : os_timers'[id] = os_timers[id]
  BY <1>3, <1>7, DemoIds
<1> HIDE DEF entry
<1>9. First' = First /\ Second' = Second
  BY <1>8, DemoIds DEF First, Second
<1>10. Slots'
  <2>1. \A id \in TimerIds : /\ os_timers'[id].used <=> id < 2 /\ Ready(id)'
                             /\ ~os_timers'[id].used => os_timers'[id].start_value = 0
    <3>1. \A id \in TimerIds : id \in Nat /\ (id # 1 => (id < 2 <=> id < 1))
      BY DEF TimerIds
    <3> QED
      BY <1>2, <1>4, <1>8, <3>1, DemoIds DEF DemoInv, Slots
  <2> QED
    BY <1>2, <1>5, <1>6, <1>8, <1>9, <2>1, DemoIds DEF DemoInv, Slots
<1>11. Clock'
  BY <1>1, <1>2, <1>9, DemoIds DEF DemoInv, Clock, Late
<1>12. Kept' <=> Kept
  BY <1>1, <1>9 DEF Kept, Turn, PassTime
<1>13. AtRest'
  BY <1>1, <1>2, <1>9, <1>12, MessagesFrame, ExpiriesFrame DEF AtRest, Calm
<1> QED
  BY <1>1, <1>2, <1>10, <1>11, <1>13 DEF DemoInv, TokenInv, Early

LEMMA TokenTask3Init ==
  ASSUME TypeOK, NoErrorInv, DemoInv, ~torn', Task3Init
  PROVE  DemoInv'
<1>1. /\ Handles(2, "os_event_init") /\ Succeed /\ Subscribes(EventsOf(2))
      /\ UNCHANGED <<os_msg_buffer, os_timers, timer, msgReceived, sent, reported>>
  BY DEF Task3Init, EventsOf, taskID_1, taskID_2, taskID_3, history, Handles
<1>2. /\ UNCHANGED <<os_timer_pending_queue, os_timer_counter, ticks>>
      /\ pc = "init" /\ pc' = "init" /\ event' = "none" /\ index = 3
      /\ \A t \in Nat : (Ready(t) <=> t < 2) /\ (Ready(t)' <=> t < 3)
      /\ Subscribers' /\ Stages'
      /\ AtRest /\ sent = 0 /\ PassStart = 1 /\ PassStart' = 1
  BY <1>1, InitCallback
<1>3. First' = First /\ Second' = Second /\ (Kept' <=> Kept)
  BY <1>1, TimersFrame
<1>4. Slots'
  <2>1. \A id \in TimerIds : id \in Nat /\ (id < 2 => id < 3)
    BY DEF TimerIds
  <2>2. \A id \in TimerIds : /\ os_timers[id].used <=> id < 2 /\ Ready(id)
                             /\ ~os_timers[id].used => os_timers[id].start_value = 0
    BY DEF DemoInv, Slots
  <2> QED
    BY <1>1, <1>2, <1>3, <2>1, <2>2, DemoIds DEF DemoInv, Slots
<1>5. Clock'
  BY <1>1, <1>2, <1>3, DemoIds DEF DemoInv, Clock, Late
<1>6. AtRest'
  BY <1>1, <1>2, <1>3, MessagesFrame, ExpiriesFrame DEF AtRest, Calm
<1> QED
  BY <1>1, <1>2, <1>4, <1>5, <1>6 DEF DemoInv, TokenInv, Early

LEMMA TokenStep ==
  ASSUME TypeOK, NoErrorInv, DemoInv, ~torn', [Next]_vars
  PROVE  DemoInv'
<1>1. CASE AddTasks
  BY <1>1, TokenAddTasks
<1>2. CASE Tasks
  BY <1>2, TokenTask1Init, TokenTask2Init, TokenTask3Init, TokenTask1Timer, TokenTask2Msg,
     TokenTask2Timer, TokenTask3 DEF Tasks
<1>3. CASE Kernel
  BY <1>3, TokenKernel
<1>4. CASE Tick
  BY <1>4, TokenTick
<1>5. CASE UNCHANGED vars
  <2>1. /\ UNCHANGED <<os_task_admin, os_latest_added_task, os_timers, task_running, event,
                       msg_pending, pc, index, os_msg_buffer, os_timer_pending_queue,
                       last_checked_task_id, os_timer_counter>>
        /\ UNCHANGED <<timer, msgReceived, sent, reported, ticks>>
    BY <1>5 DEF vars, osVars, taskVars, runVars, msgVars, timerVars, loopVars, history
  <2>2. \A t \in Nat : Ready(t)' <=> Ready(t)
    BY <2>1, ReadyFrame
  <2>3. Subscribers' /\ Slots'
    BY <2>1, <2>2, TablesFrame DEF DemoInv
  <2>4. First' = First /\ Second' = Second /\ (Kept' <=> Kept) /\ (KeptOnce' <=> KeptOnce)
    BY <2>1, TimersFrame
  <2>5. PassStart' = PassStart /\ PassTime' = PassTime
    BY <2>1, SamePass
  <2>6. Stages' /\ Clock'
    BY <2>1, <2>2, <2>4, <2>5, DemoIds DEF DemoInv, Stages, Clock, Late
  <2>7. AtRest => AtRest'
    BY <2>1, <2>4, MessagesFrame, ExpiriesFrame DEF AtRest, Calm
  <2>8. TokenInv'
    <3> USE MessagesFrame, ExpiriesFrame
    <3> USE DEF Calm, Age, InKernel, Handles
    <3>1. PeriodOver => PeriodOver'
      BY <2>1, <2>4, <2>5 DEF PeriodOver
    <3>2. Posting => Posting'
      BY <2>1, <2>4, <2>5 DEF Posting
    <3>3. Posted => Posted'
      BY <2>1, <2>4, <2>5 DEF Posted
    <3>4. Starting => Starting'
      BY <2>1, <2>4, <2>5 DEF Starting
    <3>5. Delayed => Delayed'
      BY <2>1, <2>4, <2>5 DEF Delayed
    <3>6. DelayOver => DelayOver'
      BY <2>1, <2>4, <2>5 DEF DelayOver
    <3>7. Answering => Answering'
      BY <2>1, <2>4, <2>5 DEF Answering
    <3>8. Answered => Answered'
      BY <2>1, <2>4, <2>5 DEF Answered
    <3>9. Noting => Noting'
      BY <2>1, <2>4, <2>5 DEF Noting
    <3>10. Noted => Noted'
      BY <2>1, <2>4, <2>5 DEF Noted
    <3> QED
      BY <2>7, <3>1, <3>2, <3>3, <3>4, <3>5, <3>6, <3>7, <3>8, <3>9, <3>10 DEF TokenInv, DemoInv
  <2> QED
    BY <2>1, <2>3, <2>6, <2>7, <2>8 DEF DemoInv, Early
<1> QED
  BY <1>1, <1>2, <1>3, <1>4, <1>5 DEF Next

(* Once torn, an execution remains so. *)
LEMMA TornForGood == torn /\ [Next]_vars => torn'
<1> SUFFICES ASSUME torn, [Next]_vars
             PROVE  torn'
  OBVIOUS
<1>1. ASSUME NEW before, CountTick(before)
      PROVE  torn'
  BY <1>1 DEF CountTick
<1>2. CASE Tasks
  <2>1. CountTick(ticks)
    BY <1>2 DEF Tasks, Task1Init, Task1Timer, Task2Init, Task2Msg, Task2Timer, Task3Init,
                Task3Msg, Task3Idle, Succeed
  <2> QED
    BY <1>1, <2>1
<1>3. CASE Kernel
  BY <1>1, <1>3 DEF Kernel
<1>4. CASE AddTasks \/ Tick \/ UNCHANGED vars
  BY <1>4 DEF AddTasks, Tick, vars
<1> QED
  BY <1>2, <1>3, <1>4 DEF Next

LEMMA DemoInvariant == Spec => [](TypeOK /\ (torn \/ DemoInv))
<1>1. DemoInit => TypeOK
  BY KernelTypeInit DEF DemoInit
<1>2. TypeOK /\ NoErrorInv /\ (torn \/ DemoInv) /\ [Next]_vars => (torn \/ DemoInv)'
  BY TornForGood, TokenStep
<1> QED
  BY <1>1, <1>2, TypeStep, NoErrorInit, NoErrorStep, TokenInit, PTL DEF Spec
-----------------------------------------------------------------------------
(* What the places of the token say of the counts in the properties. *)

LEMMA ExpiriesCounted ==
  ASSUME TypeOK, NEW t
  PROVE  /\ NoExpiry => ExpiriesWaiting(t) = 0
         /\ \A u : Expiry(u) => ExpiriesWaiting(t) = One(u = t)
<1> DEFINE q == os_timer_pending_queue
<1> DEFINE found == {k \in 0 .. q.capacity - 1 :
                       k < q.currentSize /\ q.buffer[(q.out + k) % q.capacity] = t}
<1>1. ExpiriesWaiting(t) = Cardinality(found)
  BY DEF ExpiriesWaiting
<1>2. q.currentSize = 0 => found = {}
  OBVIOUS
<1>3. /\ q.capacity \in Nat \ {0}
      /\ q.out \in 0 .. q.capacity - 1
  BY Sizes, QueueFields DEF TypeOK
<1>4. (q.out + 0) % q.capacity = q.out
  BY <1>3, ModSmall
<1>5. q.currentSize = 1 => found = IF q.buffer[q.out] = t THEN {0} ELSE {}
  <2> DEFINE c == q.capacity
  <2> DEFINE n == q.currentSize
  <2>1. c \in Nat \ {0} /\ found = {k \in 0 .. c - 1 : k < n /\ q.buffer[(q.out + k) % c] = t}
    BY <1>3
  <2>2. n = 1 => \A k \in 0 .. c - 1 : k < n <=> k = 0
    BY <2>1
  <2>3. 0 \in 0 .. c - 1 /\ (q.out + 0) % c = q.out
    BY <1>4, <2>1
  <2> HIDE DEF found, q, c
  <2>4. ASSUME n = 1 PROVE \A k : k \in found <=> k = 0 /\ q.buffer[q.out] = t
    BY <2>1, <2>2, <2>3, <2>4, Zenon
  <2> QED
    BY <2>4, Zenon DEF n
<1> HIDE DEF found
<1>6. Cardinality({}) = 0 /\ Cardinality({0}) = 1
  BY FS_EmptySet, FS_Singleton
<1>7. NoExpiry => q.currentSize = 0
  BY DEF NoExpiry, Empty
<1>8. \A u : Expiry(u) => q.currentSize = 1 /\ q.buffer[q.out] = u
  BY DEF Expiry, Holds, os_queue_front
<1> HIDE DEF q
<1> QED
  BY <1>1, <1>2, <1>5, <1>6, <1>7, <1>8 DEF One

LEMMA MessagesCounted ==
  /\ NoMessage => os_msg_buffer.currentSize = 0
  /\ \A t, msg : Message(t, msg) => os_msg_buffer.currentSize = 1
  BY DEF NoMessage, Empty, Message, Holds

(* Task 2's timer is the second of the table. *)
LEMMA DelayCounted ==
  ASSUME TypeOK, DemoInv
  PROVE  DelayRuns <=> Second # 0 /\ ~(pc = "rearm" /\ index = 1)
<1>1. Second # 0 => timer = 1
  <2>1. ~os_timers[1].used => Second = 0
    BY DemoIds DEF DemoInv, Slots, Second
  <2>2. os_timers[1].used => Ready(1)
    BY DemoIds DEF DemoInv, Slots
  <2> QED
    BY <2>1, <2>2, DemoIds DEF DemoInv, Slots
<1>2. timer = 1 \/ timer \notin TimerIds
  <2>1. OS_MAXIMUM_TIMERS \notin TimerIds
    BY Sizes DEF TimerIds
  <2> QED
    BY <2>1 DEF DemoInv, Slots
<1> QED
  BY <1>1, <1>2, DemoIds DEF DelayRuns, Second

(* One token for each message of task 1 that task 3 has not reported. *)
LEMMA TokenCounted ==
  ASSUME TypeOK, DemoInv
  PROVE  OneTokenAtATime
<1> DEFINE delayed == Second # 0 /\ ~(pc = "rearm" /\ index = 1)
<1> DEFINE count == os_msg_buffer.currentSize
                      + One(event = "os_event_msg_pending")
                      + One(delayed)
                      + ExpiriesWaiting(taskID_2)
                      + One(Handles(taskID_2, "os_event_timer"))
                      + One(msgReceived)
<1>1. InFlight = count
  <2>1. One(DelayRuns) = One(delayed)
    BY DelayCounted DEF One
  <2> QED
    BY <2>1 DEF InFlight
<1>2. taskID_1 # taskID_2 /\ taskID_1 # taskID_3 /\ taskID_2 # taskID_3
  BY DemoIds
<1>3. sent \in Nat /\ reported \in Nat
  BY DEF DemoInv, Clock
<1>4. /\ NoExpiry => ExpiriesWaiting(taskID_2) = 0
      /\ Expiry(taskID_1) => ExpiriesWaiting(taskID_2) = 0
      /\ Expiry(taskID_2) => ExpiriesWaiting(taskID_2) = 1
  BY ExpiriesCounted, <1>2 DEF One
<1> SUFFICES sent - reported = count /\ count <= 1
  BY <1>1 DEF OneTokenAtATime
<1> USE <1>2, <1>3, <1>4, MessagesCounted DEF One, Handles, Calm, InKernel
<1>5. CASE AtRest
  BY <1>5 DEF AtRest
<1>6. CASE PeriodOver
  BY <1>6 DEF PeriodOver
<1>7. CASE Posting
  BY <1>7 DEF Posting
<1>8. CASE Posted
  BY <1>8 DEF Posted
<1>9. CASE Starting
  BY <1>9 DEF Starting
<1>10. CASE Delayed
  <2>1. Second # 0
    BY <1>10, DemoIds DEF Delayed, Second, TypeOK, os_timer_t
  <2> QED
    BY <1>10, <2>1 DEF Delayed
<1>11. CASE DelayOver
  <2>1. ~delayed
    BY <1>11 DEF DelayOver
  <2> QED
    BY <1>11, <2>1 DEF DelayOver
<1>12. CASE Answering
  BY <1>12 DEF Answering
<1>13. CASE Answered
  BY <1>13 DEF Answered
<1>14. CASE Noting
  BY <1>14 DEF Noting
<1>15. CASE Noted
  BY <1>15 DEF Noted
<1> QED
  BY <1>5, <1>6, <1>7, <1>8, <1>9, <1>10, <1>11, <1>12, <1>13, <1>14, <1>15
     DEF DemoInv, TokenInv

(* What the invariant says of task 1's timer, with its restarts counted. *)
LEMMA PeriodCounted ==
  ASSUME TypeOK, DemoInv
  PROVE  PeriodKept
<1>1. 2 * MaxTicksPerPass * OS_COUNTER_TIME = 2 * PassTime
  BY DemoAssumption, Sizes DEF PassTime
<1>2. taskID_1 # taskID_2
  BY DemoIds
<1>3. sent \in Nat
  BY DEF DemoInv, Clock
<1>4. /\ NoExpiry => ExpiriesWaiting(taskID_1) = 0
      /\ Expiry(taskID_1) => ExpiriesWaiting(taskID_1) = 1
      /\ Expiry(taskID_2) => ExpiriesWaiting(taskID_1) = 0
  BY ExpiriesCounted, <1>2 DEF One
<1>5. SUFFICES First # 0 => Turn(Restarts)
  BY <1>1 DEF PeriodKept, Turn, First
<1> USE <1>2, <1>3, <1>4 DEF Restarts, One, Handles, Calm, InKernel
<1>6. CASE AtRest
  <2>1. Restarts = sent
    BY <1>6 DEF AtRest
  <2> QED
    BY <1>6, <2>1 DEF AtRest, Kept
<1>7. CASE PeriodOver
  <2>1. Restarts = IF pc = "rearm" THEN sent ELSE sent + 1
    BY <1>7 DEF PeriodOver
  <2>2. IF pc = "rearm" THEN Kept ELSE KeptOnce
    BY <1>7 DEF PeriodOver
  <2> QED
    BY <2>1, <2>2 DEF Kept, KeptOnce
<1>8. CASE Posting
  <2>1. Restarts = sent + 1
    <3>1. pc # "rearm"
      BY <1>8 DEF Posting, DemoInv, Stages
    <3> QED
      BY <1>8, <3>1 DEF Posting
  <2> QED
    BY <1>8, <2>1 DEF Posting, KeptOnce
<1>9. CASE /\ ~AtRest /\ ~PeriodOver /\ ~Posting
  <2>1. Kept
    BY <1>9 DEF DemoInv, TokenInv, Posted, Starting, Delayed, DelayOver, Answering,
                Answered, Noting, Noted
  <2>2. pc = "rearm" => index # 0
    BY <1>9 DEF DemoInv, TokenInv, Stages, Posted, Starting, Delayed, DelayOver, Answering,
                Answered, Noting, Noted
  <2>3. NoExpiry \/ Expiry(taskID_2)
    BY <1>9 DEF DemoInv, TokenInv, Posted, Starting, Delayed, DelayOver, Answering,
                Answered, Noting, Noted
  <2>4. ~Handles(taskID_1, "os_event_timer")
    BY <1>9 DEF DemoInv, TokenInv, Posted, Starting, Delayed, DelayOver, Answering,
                Answered, Noting, Noted
  <2>5. Restarts = sent
    BY <2>2, <2>3, <2>4
  <2> QED
    BY <2>1, <2>5 DEF Kept
<1> QED
  BY <1>6, <1>7, <1>8, <1>9

(***************************************************************************)
(* Until an access to the counter is torn, tokens are neither lost nor     *)
(* doubled on their way from task 1 through task 2 to task 3, and there is *)
(* never more than one: for every period that leaves eight passes of the   *)
(* loop beyond the delay, however the ticks fall into the passes.          *)
(***************************************************************************)
THEOREM OneTokenCorrect == Spec => []OneTokenAtATime
<1>1. TypeOK /\ (torn \/ DemoInv) => OneTokenAtATime
  BY TokenCounted DEF OneTokenAtATime
<1> QED
  BY <1>1, DemoInvariant, PTL

(***************************************************************************)
(* Until an access to the counter is torn, task 1's repeating timer never  *)
(* fires early and drifts by less than the ticks of two passes a period,   *)
(* after any number of periods.                                            *)
(***************************************************************************)
THEOREM PeriodCorrect == Spec => []PeriodKept
<1>1. TypeOK /\ (torn \/ DemoInv) => PeriodKept
  BY PeriodCounted DEF PeriodKept
<1> QED
  BY <1>1, DemoInvariant, PTL
=============================================================================
