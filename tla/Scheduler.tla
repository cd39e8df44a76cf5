----------------------------- MODULE Scheduler -----------------------------
(***************************************************************************)
(* The cooperative kernel of Task_scheduler/scheduler.cpp.  One loop       *)
(* (os_main) runs task callbacks one at a time, each to completion; the    *)
(* only thing that interrupts it is the timer interrupt, os_timer_count.   *)
(*                                                                         *)
(* The kernel's steps are actions here.  What the callbacks do is left to  *)
(* the modules that extend this one: AnyTasks lets them call anything, the *)
(* demo modules give them the code of the sketches.  So that a callback    *)
(* can be one step or many, every call of the API is also given as an      *)
(* operator on the data it changes.                                        *)
(*                                                                         *)
(* os_add_function_pointers and os_init come first in every sketch and     *)
(* cannot fail there, so Init is the state os_init leaves.                 *)
(***************************************************************************)
EXTENDS OsQueue

CONSTANTS OS_MAXIMUM_TASKS,
          OS_MSG_QUEUE_SIZE,
          OS_MAXIMUM_TIMERS,
          OS_COUNTER_TIME,     \* what one interrupt adds to the counter
          Msg,                 \* os_msg_t
          ZeroMsg,             \* the zeroed os_msg_t of static storage
          TimerValue,          \* the timer_value_ms in use
          UINT64_MOD,          \* 2^64: the range of the counter
          Byte,                \* 2^8: the values of a byte
          ByteWeights,         \* 1, 2^8, 2^16, ...: what a 1 counts in each byte
          MaxCounter           \* bound on os_timer_counter; none in the code

ASSUME SchedulerAssumption ==
  /\ OS_MAXIMUM_TASKS \in Nat \ {0}
  /\ OS_MSG_QUEUE_SIZE \in Nat \ {0}
  /\ OS_MAXIMUM_TIMERS \in Nat \ {0}
  /\ OS_COUNTER_TIME \in Nat \ {0}
  /\ UINT16_MOD \in Nat \ {0}
  /\ UINT16_MOD % OS_MAXIMUM_TIMERS = 0
  /\ ZeroMsg \in Msg
  /\ TimerValue \subseteq Nat
  /\ 0 \notin TimerValue
  /\ UINT64_MOD \in Nat \ {0}
  /\ Byte \in Nat \ {0}
  /\ ByteWeights \subseteq Nat \ {0}
  /\ MaxCounter \in 1 .. UINT64_MOD - 1

TaskIds  == 0 .. OS_MAXIMUM_TASKS - 1
TimerIds == 0 .. OS_MAXIMUM_TIMERS - 1

(* A task id is a uint16_t; OS_MAXIMUM_TASKS stands for "no task". *)
os_task_id_t == 0 .. OS_MAXIMUM_TASKS

os_event_t == {"os_event_msg_pending", "os_event_init", "os_event_idle", "os_event_timer"}

os_task_return_codes_t == {"os_task_succeed", "os_task_failed", "os_task_not_registerd"}

(* task_cb is only ever tested against NULL: TRUE means it is not NULL. *)
os_task_admin_t == [task_cb : BOOLEAN, event_subscribe : [os_event_t -> BOOLEAN]]

os_msg_queue_entry_t == [destination : os_task_id_t, msg : Msg]

os_timer_t == [ task_id     : os_task_id_t,
                type        : {"os_timer_repeat", "os_timer_one_shot"},
                value       : TimerValue \cup {0},
                used        : BOOLEAN,
                start_value : 0 .. UINT64_MOD - 1 ]

VARIABLES
  os_error,
  os_task_admin,            \* the task table
  os_latest_added_task,     \* number of tasks
  task_running,             \* the last task whose callback was entered
  os_msg_buffer,            \* queue of os_msg_queue_entry_t
  msg_pending,              \* the entry os_msg_pending removed last
  os_timers,
  os_timer_pending_queue,   \* queue of task ids
  os_timer_counter,
  last_checked_task_id,     \* whose turn of the idle event it is
  pc,                       \* where setup and os_main are
  index,                    \* the loop variable of the init loop and of
                            \*   os_timer_check_timers
  event,                    \* the event whose callback runs, or "none"
  returnValue               \* what the last os_run_task returned

taskVars  == <<os_task_admin, os_latest_added_task>>
runVars   == <<task_running, event, returnValue>>
msgVars   == <<os_msg_buffer, msg_pending>>
timerVars == <<os_timers, os_timer_pending_queue>>
loopVars  == <<last_checked_task_id, pc, index>>
osVars    == <<os_error, taskVars, runVars, msgVars, timerVars, os_timer_counter, loopVars>>

(* No callback runs: the kernel itself is executing. *)
InKernel == event = "none"
-----------------------------------------------------------------------------
(* os_msg_init, os_task_init, os_timer_init; static data is zeroed. *)

ZeroEntry == [destination |-> 0, msg |-> ZeroMsg]

os_msg_init ==
  /\ os_msg_buffer = os_queue_init(OS_MSG_QUEUE_SIZE, ZeroEntry)
  /\ msg_pending = ZeroEntry

os_task_init ==
  /\ os_task_admin = [t \in TaskIds |->
       [task_cb |-> FALSE, event_subscribe |-> [e \in os_event_t |-> FALSE]]]
  /\ os_latest_added_task = 0
  /\ task_running = OS_MAXIMUM_TASKS

(* The counter starts at 1, so that a start_value of 0 can mean "stopped". *)
os_timer_init ==
  /\ os_timer_counter = 1
  /\ os_timers = [id \in TimerIds |->
       [task_id |-> OS_MAXIMUM_TASKS, type |-> "os_timer_repeat", value |-> 0,
        used |-> FALSE, start_value |-> 0]]
  /\ os_timer_pending_queue = os_queue_init(OS_MAXIMUM_TIMERS, 0)

Init ==
  /\ os_error = FALSE
  /\ os_msg_init
  /\ os_task_init
  /\ os_timer_init
  /\ last_checked_task_id = 0
  /\ pc = "setup"
  /\ index = 0
  /\ event = "none"
  /\ returnValue = "os_task_succeed"
-----------------------------------------------------------------------------
(* The API, as operators on the data a call changes. *)

(* os_subscribe_for_event; every id in use is below OS_MAXIMUM_TASKS. *)
Subscribed(admin, e, t) == [admin EXCEPT ![t].event_subscribe[e] = TRUE]

(* The slot os_timer_add takes: the first unused one, else OS_MAXIMUM_TIMERS. *)
IsFreeSlot(timers, slot) ==
  /\ slot \in TimerIds => ~timers[slot].used
  /\ \A id \in TimerIds : id < slot => timers[id].used

(* os_timer_add for task t in that slot; start_value is not touched. *)
TimerAdded(timers, slot, t, value, type) ==
  IF slot = OS_MAXIMUM_TIMERS THEN timers
  ELSE [timers EXCEPT ![slot] = [task_id |-> t, type |-> type, value |-> value,
                                 used |-> TRUE, start_value |-> @.start_value]]

(* os_timer_start and os_timer_stop set start_value of a timer in use. *)
StartValueSet(timers, id, start_value) ==
  IF timers[id].used THEN [timers EXCEPT ![id].start_value = start_value] ELSE timers

(* os_timer_new_value: only for a timer that is in use and stopped. *)
ValueSet(timers, id, value) ==
  IF timers[id].used /\ timers[id].start_value = 0
  THEN [timers EXCEPT ![id].value = value] ELSE timers
-----------------------------------------------------------------------------
(***************************************************************************)
(* The interrupt, os_timer_count, may come between any two steps once      *)
(* setup has started the hardware timer, just before it calls os_main.     *)
(***************************************************************************)
Ticks ==
  /\ pc # "setup"
  /\ os_timer_counter + OS_COUNTER_TIME <= MaxCounter
  /\ os_timer_counter' = os_timer_counter + OS_COUNTER_TIME

os_timer_count ==
  /\ Ticks
  /\ UNCHANGED <<os_error, taskVars, runVars, msgVars, timerVars, loopVars>>

(***************************************************************************)
(* It may also come in the middle of an access to the 64-bit counter,      *)
(* which an 8-bit machine loads byte by byte with interrupts enabled.      *)
(* Each byte read is then that of before or that of after the tick.  An    *)
(* access takes microseconds, so one tick at most falls into it.  When the *)
(* value read is one the counter had, it is as if the tick came before or  *)
(* after the access; the others are torn.  TornCounter opens the access.   *)
(***************************************************************************)
IsTorn(n, before, after) ==
  /\ n \notin {before, after}
  /\ \A w \in ByteWeights :
       (n \div w) % Byte \in {(before \div w) % Byte, (after \div w) % Byte}

(* n is what an access of the main loop to os_timer_counter may read. *)
Reads(n) ==
  \/ n = os_timer_counter /\ UNCHANGED os_timer_counter
  \/ Ticks /\ IsTorn(n, os_timer_counter, os_timer_counter')

(* os_timer_start on these timers; one not in use is left alone, unread. *)
Starts(timers, id) ==
  IF timers[id].used
  THEN \E n \in 0 .. UINT64_MOD - 1 :
         Reads(n) /\ os_timers' = StartValueSet(timers, id, n)
  ELSE os_timers' = timers /\ UNCHANGED os_timer_counter
-----------------------------------------------------------------------------
(* Calls of setup and of callbacks. *)

(* Faulty variant: the table counts as full one entry too late. *)
AddTaskFillsTable(task_cb) ==
  /\ os_latest_added_task < OS_MAXIMUM_TASKS
  /\ os_task_admin' =
       [Subscribed(os_task_admin, "os_event_init", os_latest_added_task)
          EXCEPT ![os_latest_added_task].task_cb = task_cb]
  /\ os_latest_added_task' = os_latest_added_task + 1
  /\ os_error' = (os_error \/ os_latest_added_task' > OS_MAXIMUM_TASKS)
  /\ UNCHANGED <<runVars, msgVars, timerVars, os_timer_counter, loopVars>>

(***************************************************************************)
(* os_add_task.  The entry is taken even when the call reports an error,   *)
(* which it does as soon as the table is full.  The guard is the caller's  *)
(* duty: with a full table the code would read past its end.               *)
(***************************************************************************)
os_add_task(task_cb) ==
  /\ os_latest_added_task < OS_MAXIMUM_TASKS
  /\ IF os_task_admin[os_latest_added_task].task_cb
     THEN /\ os_error' = TRUE
          /\ UNCHANGED taskVars
     ELSE /\ os_task_admin' =
               [Subscribed(os_task_admin, "os_event_init", os_latest_added_task)
                  EXCEPT ![os_latest_added_task].task_cb = task_cb]
          /\ os_latest_added_task' = os_latest_added_task + 1
          /\ os_error' = (os_error \/ os_latest_added_task' >= OS_MAXIMUM_TASKS)
  /\ UNCHANGED <<runVars, msgVars, timerVars, os_timer_counter, loopVars>>

os_subscribe_for_event(e, t) ==
  /\ os_task_admin' = Subscribed(os_task_admin, e, t)
  /\ UNCHANGED <<os_error, os_latest_added_task, runVars, msgVars, timerVars,
                 os_timer_counter, loopVars>>

(* os_post_msg always reports success, room or not. *)
os_post_msg(msg, dest_task_id) ==
  /\ os_msg_buffer' =
       os_queue_add(os_msg_buffer, [destination |-> dest_task_id, msg |-> msg])
  /\ UNCHANGED <<os_error, taskVars, runVars, msg_pending, timerVars,
                 os_timer_counter, loopVars>>

(* os_retrieve_msg: a task that is not addressed stops the OS. *)
os_retrieve_msg ==
  /\ os_error' = (os_error \/ msg_pending.destination # task_running)
  /\ UNCHANGED <<taskVars, runVars, msgVars, timerVars, os_timer_counter, loopVars>>

os_timer_add(value, type) ==
  /\ \E slot \in 0 .. OS_MAXIMUM_TIMERS :
       /\ IsFreeSlot(os_timers, slot)
       /\ os_timers' = TimerAdded(os_timers, slot, task_running, value, type)
       /\ os_error' = (os_error \/ slot = OS_MAXIMUM_TIMERS)
  /\ UNCHANGED <<taskVars, runVars, msgVars, os_timer_pending_queue,
                 os_timer_counter, loopVars>>

(* os_timer_stop, os_timer_new_value. *)
TimersBecome(timers) ==
  /\ os_timers' = timers
  /\ UNCHANGED <<os_error, taskVars, runVars, msgVars, os_timer_pending_queue,
                 os_timer_counter, loopVars>>

os_timer_start(id) ==
  /\ Starts(os_timers, id)
  /\ UNCHANGED <<os_error, taskVars, runVars, msgVars, os_timer_pending_queue, loopVars>>

os_timer_stop(id) == TimersBecome(StartValueSet(os_timers, id, 0))

os_timer_new_value(id, value) == TimersBecome(ValueSet(os_timers, id, value))

(* The callback returns to os_run_task, which returns to os_main. *)
Return(code) ==
  /\ ~InKernel
  /\ event' = "none"
  /\ returnValue' = code
  /\ UNCHANGED <<os_error, taskVars, task_running, msgVars, timerVars,
                 os_timer_counter, loopVars>>

-----------------------------------------------------------------------------
(* os_main *)

(***************************************************************************)
(* os_run_task: enter the callback, or say why not.  An index outside the  *)
(* table would be read as whatever lies behind it; IdleIndexInTable below  *)
(* says it never is, so such a lookup finds nothing here.                  *)
(***************************************************************************)
Registered(task_id, e) ==
  task_id \in TaskIds /\ os_task_admin[task_id].event_subscribe[e]

HasCallback(task_id) == task_id \in TaskIds /\ os_task_admin[task_id].task_cb

Refuse(code) ==
  /\ returnValue' = code
  /\ UNCHANGED <<task_running, event>>

(* Faulty variant: the running task is recorded for the init event only. *)
EnterKeepsTask(task_id, e) ==
  /\ task_running' = IF e = "os_event_init" THEN task_id ELSE task_running
  /\ event' = e
  /\ UNCHANGED returnValue

Enter(task_id, e) ==
  /\ task_running' = task_id
  /\ event' = e
  /\ UNCHANGED returnValue

os_run_task(task_id, e) ==
  \/ /\ Registered(task_id, e)
     /\ HasCallback(task_id)
     /\ Enter(task_id, e)
  \/ /\ Registered(task_id, e)
     /\ ~HasCallback(task_id)
     /\ Refuse("os_task_failed")
  \/ /\ ~Registered(task_id, e)
     /\ Refuse("os_task_not_registerd")

(* setup calls os_main: an error reported by then skips both loops. *)
StartMain ==
  /\ pc = "setup" /\ InKernel
  /\ pc' = IF os_error THEN "halt" ELSE "init"
  /\ UNCHANGED <<os_error, taskVars, runVars, msgVars, timerVars, os_timer_counter,
                 last_checked_task_id, index>>

(* One turn of the init loop; the number of tasks is read anew each turn. *)
InitTask ==
  /\ pc = "init" /\ InKernel
  /\ index < os_latest_added_task
  /\ os_run_task(index, "os_event_init")
  /\ index' = index + 1
  /\ UNCHANGED <<os_error, taskVars, msgVars, timerVars, os_timer_counter,
                 last_checked_task_id, pc>>

(* Faulty variant: the init loop ends one task early. *)
InitDoneEarly ==
  /\ pc = "init" /\ InKernel
  /\ index + 1 >= os_latest_added_task
  /\ pc' = "loop"
  /\ UNCHANGED <<os_error, taskVars, runVars, msgVars, timerVars, os_timer_counter,
                 last_checked_task_id, index>>

InitDone ==
  /\ pc = "init" /\ InKernel
  /\ index >= os_latest_added_task
  /\ pc' = "loop"
  /\ UNCHANGED <<os_error, taskVars, runVars, msgVars, timerVars, os_timer_counter,
                 last_checked_task_id, index>>

(* Faulty variant: messages are drained before an error counts. *)
LeaveMainDrained ==
  /\ pc = "loop" /\ InKernel
  /\ os_error
  /\ os_queue_isEmpty(os_msg_buffer)
  /\ pc' = "halt"
  /\ UNCHANGED <<os_error, taskVars, runVars, msgVars, timerVars, os_timer_counter,
                 last_checked_task_id, index>>

(* The head of the loop is the only place that looks at os_error. *)
LeaveMain ==
  /\ pc = "loop" /\ InKernel
  /\ os_error
  /\ pc' = "halt"
  /\ UNCHANGED <<os_error, taskVars, runVars, msgVars, timerVars, os_timer_counter,
                 last_checked_task_id, index>>

(* Faulty variant: the addressee is read before the message is removed. *)
DispatchStale(entry) ==
  IF msg_pending.destination < OS_MAXIMUM_TASKS
  THEN os_run_task(msg_pending.destination, "os_event_msg_pending")
  ELSE UNCHANGED runVars

(* os_msg_pending removes the message; the task it names gets the event. *)
DispatchMsg(entry) ==
  IF entry.destination < OS_MAXIMUM_TASKS
  THEN os_run_task(entry.destination, "os_event_msg_pending")
  ELSE UNCHANGED runVars

MsgStage ==
  /\ pc = "loop" /\ InKernel
  /\ ~os_error
  /\ IF os_queue_isEmpty(os_msg_buffer)
     THEN UNCHANGED <<runVars, msgVars>>
     ELSE /\ msg_pending' = os_queue_front(os_msg_buffer)
          /\ os_msg_buffer' = os_queue_remove(os_msg_buffer)
          /\ DispatchMsg(msg_pending')
  /\ pc' = "check"
  /\ index' = 0
  /\ UNCHANGED <<os_error, taskVars, timerVars, os_timer_counter, last_checked_task_id>>

(* Faulty variant: a timer expires at one value of the counter only. *)
ExpiredExactly(id, now) == now = os_timers[id].start_value + os_timers[id].value

(* Faulty variant: the start of the timer is left out of the comparison. *)
ExpiredFromZero(id, now) == now >= os_timers[id].value

(* Whether a started timer has run out, by the counter as it was read. *)
Expired(id, now) == now >= os_timers[id].start_value + os_timers[id].value

(* A timer in use and started; of any other the counter is not read. *)
Started(id) == os_timers[id].used /\ os_timers[id].start_value > 0

PassTimer ==
  /\ index' = index + 1
  /\ UNCHANGED <<os_timer_pending_queue, pc>>

(* Faulty variant: the id of the timer is queued, not that of its owner. *)
QueueTimerId ==
  /\ os_timer_pending_queue' = os_queue_add(os_timer_pending_queue, index)
  /\ pc' = "rearm"
  /\ UNCHANGED index

QueueOwner ==
  /\ os_timer_pending_queue' =
       os_queue_add(os_timer_pending_queue, os_timers[index].task_id)
  /\ pc' = "rearm"
  /\ UNCHANGED index

(* os_timer_check_timers: one turn of its loop up to the comparison. *)
CheckTimer ==
  /\ pc = "check" /\ InKernel
  /\ index \in TimerIds
  /\ IF Started(index)
     THEN \E now \in 0 .. UINT64_MOD - 1 :
            Reads(now) /\ IF Expired(index, now) THEN QueueOwner ELSE PassTimer
     ELSE PassTimer /\ UNCHANGED os_timer_counter
  /\ UNCHANGED <<os_error, taskVars, runVars, msgVars, os_timers, last_checked_task_id>>

(* The rest of the turn reads the counter again: a tick may lie between. *)
RearmTimer ==
  /\ pc = "rearm" /\ InKernel
  /\ IF os_timers[index].type = "os_timer_repeat"
     THEN Starts(os_timers, index)
     ELSE os_timers' = StartValueSet(os_timers, index, 0) /\ UNCHANGED os_timer_counter
  /\ index' = index + 1
  /\ pc' = "check"
  /\ UNCHANGED <<os_error, taskVars, runVars, msgVars, os_timer_pending_queue,
                 last_checked_task_id>>

CheckDone ==
  /\ pc = "check" /\ InKernel
  /\ index = OS_MAXIMUM_TIMERS
  /\ pc' = "timer"
  /\ UNCHANGED <<os_error, taskVars, runVars, msgVars, timerVars, os_timer_counter,
                 last_checked_task_id, index>>

(* Faulty variant: a timer event only in a pass that leaves no message. *)
TimerStageAfterMsgs ==
  /\ pc = "timer" /\ InKernel
  /\ IF os_queue_isEmpty(os_timer_pending_queue) \/ ~os_queue_isEmpty(os_msg_buffer)
     THEN UNCHANGED <<runVars, os_timer_pending_queue>>
     ELSE /\ os_timer_pending_queue' = os_queue_remove(os_timer_pending_queue)
          /\ os_run_task(os_queue_front(os_timer_pending_queue), "os_event_timer")
  /\ pc' = "idle"
  /\ UNCHANGED <<os_error, taskVars, msgVars, os_timers, os_timer_counter,
                 last_checked_task_id, index>>

(* os_timer_pending, and the timer event of the task it returns. *)
TimerStage ==
  /\ pc = "timer" /\ InKernel
  /\ IF os_queue_isEmpty(os_timer_pending_queue)
     THEN UNCHANGED <<runVars, os_timer_pending_queue>>
     ELSE /\ os_timer_pending_queue' = os_queue_remove(os_timer_pending_queue)
          /\ IF os_queue_front(os_timer_pending_queue) < OS_MAXIMUM_TASKS
             THEN os_run_task(os_queue_front(os_timer_pending_queue), "os_event_timer")
             ELSE UNCHANGED runVars
  /\ pc' = "idle"
  /\ UNCHANGED <<os_error, taskVars, msgVars, os_timers, os_timer_counter,
                 last_checked_task_id, index>>

(* Faulty variant: the turn never comes back to the first task. *)
NextIdleSkipsFirst ==
  IF last_checked_task_id < os_latest_added_task THEN last_checked_task_id + 1 ELSE 1

(* Faulty variant: every turn goes to the same task. *)
NextIdleSticks == 1

(* The idle event goes to one table entry per turn: 1, 2, ..., n, then 0. *)
NextIdle == IF last_checked_task_id < os_latest_added_task
            THEN last_checked_task_id + 1 ELSE 0

IdleStage ==
  /\ pc = "idle" /\ InKernel
  /\ last_checked_task_id' = NextIdle
  /\ os_run_task(NextIdle, "os_event_idle")
  /\ pc' = "loop"
  /\ UNCHANGED <<os_error, taskVars, msgVars, timerVars, os_timer_counter, index>>

os_main ==
  \/ StartMain
  \/ InitTask
  \/ InitDone
  \/ LeaveMain
  \/ MsgStage
  \/ CheckTimer
  \/ RearmTimer
  \/ CheckDone
  \/ TimerStage
  \/ IdleStage
-----------------------------------------------------------------------------
(* Vocabulary of the properties of the modules that extend this one. *)

TypeOK ==
  /\ os_error \in BOOLEAN
  /\ os_task_admin \in [TaskIds -> os_task_admin_t]
  /\ os_latest_added_task \in os_task_id_t
  /\ task_running \in os_task_id_t
  /\ os_msg_buffer \in QueueOf(os_msg_queue_entry_t, OS_MSG_QUEUE_SIZE)
  /\ msg_pending \in os_msg_queue_entry_t
  /\ os_timers \in [TimerIds -> os_timer_t]
  /\ os_timer_pending_queue \in QueueOf(os_task_id_t, OS_MAXIMUM_TIMERS)
  /\ os_timer_counter \in 0 .. MaxCounter
  /\ last_checked_task_id \in os_task_id_t
  /\ pc \in {"setup", "init", "loop", "check", "rearm", "timer", "idle", "halt"}
  /\ index \in Nat
  /\ event \in os_event_t \cup {"none"}
  /\ returnValue \in os_task_return_codes_t

(* A callback of task t for event e is executing. *)
Handles(t, e) == event = e /\ task_running = t

Stopped == pc = "halt"
=============================================================================
