-------------------------- MODULE AnyTasks_proofs --------------------------
(***************************************************************************)
(* Tasks that do anything the API allows never lead the kernel out of its  *)
(* types, past the end of the task table, or to a message callback whose   *)
(* pending message is another task's; every task has its init event once,  *)
(* and only owners of timers wait for a timer event.  For all table and    *)
(* queue sizes.                                                            *)
(***************************************************************************)
EXTENDS AnyTasks, Scheduler_proofs

LEMMA TypeInit == AnyInit => TypeOK
  BY KernelTypeInit DEF AnyInit

(* Every call keeps the types. *)
LEMMA TypeCallback ==
  ASSUME TypeOK, Callback
  PROVE  TypeOK'
<1> USE Sizes
<1>1. CASE CallAddTask
  BY <1>1, TypeAddTask DEF CallAddTask
<1>2. CASE CallSubscribe
  <2>1. PICK e \in Subscribable, t \in TaskIds : os_subscribe_for_event(e, t)
    BY <1>2 DEF CallSubscribe
  <2>2. os_task_admin' \in [TaskIds -> os_task_admin_t]
    BY <2>1, SubscribedType, AnyTasksAssumption DEF os_subscribe_for_event, TypeOK
  <2> QED
    BY <2>1, <2>2 DEF os_subscribe_for_event, TypeOK, runVars, msgVars, timerVars, loopVars
<1>3. CASE CallPost
  <2>1. PICK msg \in Msg, dest_task_id \in os_task_id_t : os_post_msg(msg, dest_task_id)
    BY <1>3 DEF CallPost
  <2> DEFINE entry == [destination |-> dest_task_id, msg |-> msg]
  <2>2. entry \in os_msg_queue_entry_t
    BY DEF os_msg_queue_entry_t
  <2>3. os_msg_buffer' = os_queue_add(os_msg_buffer, entry)
    BY <2>1 DEF os_post_msg
  <2> HIDE DEF entry
  <2>4. os_msg_buffer' \in QueueOf(os_msg_queue_entry_t, OS_MSG_QUEUE_SIZE)
    BY <2>2, <2>3, AddQueue DEF TypeOK
  <2> QED
    BY <2>1, <2>4 DEF os_post_msg, TypeOK, taskVars, runVars, timerVars, loopVars
<1>4. CASE CallRetrieve
  <2>1. os_error' \in BOOLEAN
    BY <1>4 DEF CallRetrieve, os_retrieve_msg
  <2> QED
    BY <1>4, <2>1
       DEF CallRetrieve, os_retrieve_msg, TypeOK, taskVars, runVars, msgVars, timerVars, loopVars
<1>5. CASE CallTimerAdd
  <2>1. PICK value \in TimerValue, type \in {"os_timer_repeat", "os_timer_one_shot"} :
          os_timer_add(value, type)
    BY <1>5 DEF CallTimerAdd
  <2>2. PICK slot : /\ os_timers' = TimerAdded(os_timers, slot, task_running, value, type)
                    /\ os_error' = (os_error \/ slot = OS_MAXIMUM_TIMERS)
    BY <2>1 DEF os_timer_add
  <2>3. os_timers' \in [TimerIds -> os_timer_t]
    BY <2>2, TimerAddedType DEF TypeOK
  <2>4. os_error' \in BOOLEAN
    BY <2>2
  <2> QED
    BY <2>1, <2>3, <2>4 DEF os_timer_add, TypeOK, taskVars, runVars, msgVars, loopVars
<1>6. ASSUME NEW timers \in [TimerIds -> os_timer_t], TimersBecome(timers)
      PROVE  TypeOK'
  BY <1>6 DEF TimersBecome, TypeOK, taskVars, runVars, msgVars, loopVars
<1>7. CASE CallTimerStart
  <2>1. PICK id \in TimerIds : os_timer_start(id)
    BY <1>7 DEF CallTimerStart
  <2>2. /\ os_timers' \in [TimerIds -> os_timer_t]
        /\ os_timer_counter' \in 0 .. MaxCounter
    BY <2>1, TypeStarts DEF os_timer_start, TypeOK
  <2> QED
    BY <2>1, <2>2 DEF os_timer_start, TypeOK, taskVars, runVars, msgVars, loopVars
<1>8. CASE CallTimerStop
  BY <1>6, <1>8, StartValueSetType DEF CallTimerStop, os_timer_stop, TypeOK
<1>9. CASE CallTimerNewValue
  BY <1>6, <1>9, ValueSetType DEF CallTimerNewValue, os_timer_new_value, TypeOK
<1> QED
  BY <1>1, <1>2, <1>3, <1>4, <1>5, <1>7, <1>8, <1>9 DEF Callback

LEMMA TypeReturns ==
  ASSUME TypeOK, CallbackReturns
  PROVE  TypeOK'
<1>1. PICK code \in ReturnCode : Return(code)
  BY DEF CallbackReturns
<1> QED
  BY <1>1, AnyTasksAssumption
     DEF Return, TypeOK, taskVars, msgVars, timerVars, loopVars

LEMMA TypeStep == TypeOK /\ [Next]_vars => TypeOK'
<1> SUFFICES ASSUME TypeOK, [Next]_vars
             PROVE  TypeOK'
  OBVIOUS
<1>1. CASE SetupAddsTask
  BY <1>1, TypeAddTask DEF SetupAddsTask
<1>2. CASE Callback
  BY <1>2, TypeCallback
<1>3. CASE CallbackReturns
  BY <1>3, TypeReturns
<1>4. CASE Kernel
  BY <1>4, TypeKernel DEF Kernel
<1>5. CASE Tick
  BY <1>5, TypeTimerCount DEF Tick
<1>6. CASE UNCHANGED vars
  BY <1>6 DEF vars, osVars, TypeOK, taskVars, runVars, msgVars, timerVars, loopVars
<1> QED
  BY <1>1, <1>2, <1>3, <1>4, <1>5, <1>6 DEF Next

(* Whatever the tasks do, every variable of the kernel keeps its type; with *)
(* it, both ring buffers keep their indices inside the buffer.              *)
THEOREM TypeCorrect == Spec => []TypeOK
<1> QED
  BY TypeInit, TypeStep, PTL DEF Spec

-----------------------------------------------------------------------------
(***************************************************************************)
(* IdleIndexInTable by itself is not inductive: the idle turn may step to  *)
(* the number of tasks.  That is inside the table because past the head of *)
(* the loop the table is not full: a full table is an error, the head of   *)
(* the loop does not let an error pass, and later callbacks do not add the *)
(* task that fills the table.                                              *)
(***************************************************************************)
TableInv ==
  /\ IdleIndexInTable
  /\ os_latest_added_task = OS_MAXIMUM_TASKS => os_error
  /\ pc \in {"check", "rearm", "timer", "idle"} => os_latest_added_task < OS_MAXIMUM_TASKS
  /\ event = "os_event_init" => pc = "init"

LEMMA TableInit == AnyInit => TableInv
  BY Sizes DEF AnyInit, Init, os_task_init, TableInv, IdleIndexInTable, TaskIds

LEMMA TableStep == TypeOK /\ TableInv /\ [Next]_vars => TableInv'
<1> SUFFICES ASSUME TypeOK, TableInv, [Next]_vars
             PROVE  TableInv'
  OBVIOUS
<1> USE Sizes DEF TypeOK, os_task_id_t
<1>1. ASSUME NEW task_cb \in BOOLEAN, os_add_task(task_cb),
             pc \in {"setup", "init"} \/ os_latest_added_task + 1 < OS_MAXIMUM_TASKS
      PROVE  TableInv'
  <2>1. os_latest_added_task' = OS_MAXIMUM_TASKS => os_error'
    <3>1. CASE os_task_admin[os_latest_added_task].task_cb
      BY <1>1, <3>1 DEF os_add_task
    <3>2. CASE ~os_task_admin[os_latest_added_task].task_cb
      <4>1. os_error' = (os_error \/ os_latest_added_task' >= OS_MAXIMUM_TASKS)
        BY <1>1, <3>2 DEF os_add_task
      <4>2. os_latest_added_task' = OS_MAXIMUM_TASKS =>
              os_latest_added_task' >= OS_MAXIMUM_TASKS
        OBVIOUS
      <4> QED
        BY <4>1, <4>2
    <3> QED
      BY <3>1, <3>2
  <2>2. UNCHANGED <<event, pc, last_checked_task_id>>
    BY <1>1 DEF os_add_task, runVars, loopVars
  <2>3. os_latest_added_task' \in {os_latest_added_task, os_latest_added_task + 1}
    BY <1>1 DEF os_add_task, taskVars
  <2> QED
    BY <1>1, <2>1, <2>2, <2>3 DEF TableInv, IdleIndexInTable
<1>2. CASE SetupAddsTask
  BY <1>1, <1>2 DEF SetupAddsTask
<1>3. CASE CallAddTask
  BY <1>1, <1>3 DEF CallAddTask, TableInv
<1>4. CASE CallSubscribe \/ CallPost \/ CallTimerStart \/ CallTimerStop \/ CallTimerNewValue
  <2>1. UNCHANGED <<os_error, os_latest_added_task, event, pc, last_checked_task_id>>
    BY <1>4 DEF CallSubscribe, CallPost, CallTimerStart, CallTimerStop, CallTimerNewValue,
                os_subscribe_for_event, os_post_msg, os_timer_start, os_timer_stop,
                os_timer_new_value, TimersBecome, taskVars, runVars, loopVars
  <2> QED
    BY <2>1 DEF TableInv, IdleIndexInTable
<1>5. CASE CallRetrieve \/ CallTimerAdd
  <2>1. /\ UNCHANGED <<os_latest_added_task, event, pc, last_checked_task_id>>
        /\ os_error => os_error'
    BY <1>5 DEF CallRetrieve, CallTimerAdd, os_retrieve_msg, os_timer_add,
                taskVars, runVars, loopVars
  <2> QED
    BY <2>1 DEF TableInv, IdleIndexInTable
<1>6. CASE CallbackReturns
  BY <1>6 DEF CallbackReturns, Return, TableInv, IdleIndexInTable, taskVars, loopVars
<1>7. CASE Kernel
  <2>1. UNCHANGED <<os_error, os_latest_added_task>>
    BY <1>7, CheckTimerOutcome DEF Kernel, os_main, StartMain, InitTask, InitDone, LeaveMain, MsgStage,
                RearmTimer, CheckDone, TimerStage, IdleStage, taskVars
  <2>2. CASE StartMain \/ InitDone \/ LeaveMain \/ RearmTimer \/ CheckDone
    BY <2>1, <2>2 DEF StartMain, InitDone, LeaveMain, RearmTimer, CheckDone,
                      InKernel, runVars, TableInv, IdleIndexInTable
  <2>3. CASE CheckTimer
    BY <2>1, <2>3, CheckTimerOutcome
       DEF CheckTimer, QueueOwner, PassTimer, InKernel, runVars, TableInv, IdleIndexInTable
  <2>4. CASE InitTask
    BY <2>1, <2>4, RunEvent DEF InitTask, InKernel, TableInv, IdleIndexInTable
  <2>5. CASE MsgStage
    <3>1. event' # "os_event_init"
      BY <2>5, RunEvent DEF MsgStage, DispatchMsg, InKernel, runVars
    <3> QED
      BY <2>1, <2>5, <3>1 DEF MsgStage, TableInv, IdleIndexInTable
  <2>6. CASE TimerStage
    <3>1. event' # "os_event_init"
      BY <2>6, RunEvent DEF TimerStage, InKernel, runVars
    <3> QED
      BY <2>1, <2>6, <3>1 DEF TimerStage, TableInv, IdleIndexInTable
  <2>7. CASE IdleStage
    <3>1. event' # "os_event_init"
      BY <2>7, RunEvent DEF IdleStage, InKernel
    <3>2. NextIdle \in TaskIds
      BY <2>7 DEF IdleStage, NextIdle, TableInv, TaskIds
    <3> QED
      BY <2>1, <2>7, <3>1, <3>2 DEF IdleStage, TableInv, IdleIndexInTable
  <2> QED
    BY <1>7, <2>2, <2>3, <2>4, <2>5, <2>6, <2>7 DEF Kernel, os_main
<1>8. CASE Tick
  BY <1>8 DEF Tick, os_timer_count, TableInv, IdleIndexInTable, taskVars, runVars, loopVars
<1>9. CASE UNCHANGED vars
  BY <1>9 DEF vars, osVars, TableInv, IdleIndexInTable, taskVars, runVars, loopVars
<1> QED
  BY <1>2, <1>3, <1>4, <1>5, <1>6, <1>7, <1>8, <1>9 DEF Next, Callback

(* The task table is never read past its end. *)
THEOREM IdleIndexCorrect == Spec => []IdleIndexInTable
<1>1. TableInv => IdleIndexInTable
  BY DEF TableInv
<1> QED
  BY <1>1, TypeInit, TypeStep, TableInit, TableStep, PTL DEF Spec

-----------------------------------------------------------------------------
LEMMA RetrieveStep == RetrieveSafe /\ [Next]_vars => RetrieveSafe'
<1> SUFFICES ASSUME RetrieveSafe, [Next]_vars
             PROVE  RetrieveSafe'
  OBVIOUS
<1>1. CASE SetupAddsTask \/ Callback \/ Tick
  <2>1. UNCHANGED <<runVars, msg_pending>>
    BY <1>1 DEF SetupAddsTask, os_add_task, Callback, CallAddTask, CallSubscribe,
                CallPost, CallRetrieve, CallTimerAdd, CallTimerStart, CallTimerStop,
                CallTimerNewValue, os_subscribe_for_event, os_post_msg, os_retrieve_msg,
                os_timer_add, os_timer_start, os_timer_stop, os_timer_new_value,
                TimersBecome, Tick, os_timer_count, msgVars
  <2> QED
    BY <2>1 DEF RetrieveSafe, runVars
<1>2. CASE CallbackReturns
  BY <1>2 DEF CallbackReturns, Return, RetrieveSafe
<1>3. CASE Kernel
  BY <1>3, PendingKernel DEF Kernel, RetrieveSafe, PendingIsOwn
<1>4. CASE UNCHANGED vars
  BY <1>4 DEF vars, osVars, runVars, msgVars, RetrieveSafe
<1> QED
  BY <1>1, <1>2, <1>3, <1>4 DEF Next

(* A task that handles a message can retrieve it, and it is the one that   *)
(* was taken off the queue for it.                                         *)
THEOREM RetrieveCorrect == Spec => []RetrieveSafe
<1>1. AnyInit => RetrieveSafe
  BY DEF AnyInit, Init, RetrieveSafe
<1> QED
  BY <1>1, RetrieveStep, PTL DEF Spec
-----------------------------------------------------------------------------
(***************************************************************************)
(* Every task that is there when the init loop ends has had the init       *)
(* event, once, however many tasks the init callbacks add; none later has. *)
(***************************************************************************)

(* What is known about a task that is in the table. *)
TasksInTable ==
  \A t \in TaskIds :
    /\ HasCallback(t) => t < os_latest_added_task
    /\ t < os_latest_added_task => os_task_admin[t].event_subscribe["os_event_init"]

(* In the init loop the tasks below index have had their event, but for    *)
(* the one that is handling it.                                            *)
InitProgress ==
  /\ index <= os_latest_added_task
  /\ event \in {"none", "os_event_init"}
  /\ event = "os_event_init" => task_running = index - 1 /\ HasCallback(task_running)
  /\ \A t \in TaskIds :
       inits[t] = IF HasCallback(t) /\ t < index /\ ~Handles(t, "os_event_init")
                  THEN 1 ELSE 0

(* What the steps of InitOnce rest on. *)
InitInv ==
  /\ inits \in [TaskIds -> Nat]
  /\ pc = "setup" => index = 0 /\ InKernel
  /\ event = "os_event_init" => pc = "init"
  /\ pc \in {"setup", "init"} => TasksInTable /\ InitProgress

LEMMA InitInvInit == AnyInit => InitInv
<1> SUFFICES ASSUME AnyInit
             PROVE  InitInv
  OBVIOUS
<1> USE DEF AnyInit, Init, os_task_init
<1>1. TasksInTable
  BY Sizes DEF TasksInTable, HasCallback, TaskIds
<1>2. InitProgress
  BY DEF InitProgress, TaskIds
<1> QED
  BY <1>1, <1>2 DEF InitInv, InKernel

(* Subscribing changes neither callbacks nor earlier subscriptions. *)
LEMMA SubscribedKeeps ==
  ASSUME NEW admin \in [TaskIds -> os_task_admin_t], NEW e \in os_event_t, NEW u,
         NEW t \in TaskIds
  PROVE  /\ Subscribed(admin, e, u)[t].task_cb = admin[t].task_cb
         /\ \A f \in os_event_t : admin[t].event_subscribe[f]
              => Subscribed(admin, e, u)[t].event_subscribe[f]
  BY DEF Subscribed, os_task_admin_t

(* A step that changes none of the variables InitInv speaks of. *)
LEMMA InitUnchanged ==
  ASSUME InitInv,
         UNCHANGED <<os_task_admin, os_latest_added_task, task_running, event, pc, index, inits>>
  PROVE  InitInv'
  BY DEF InitInv, TasksInTable, InitProgress, HasCallback, Handles, InKernel

(* After the init loop only the event of the callback matters. *)
LEMMA InitOver ==
  ASSUME InitInv, pc \notin {"setup", "init"},
         UNCHANGED <<pc, event, inits>>
  PROVE  InitInv'
  BY DEF InitInv

(* A task is added behind all those that index has passed. *)
LEMMA InitAddTask ==
  ASSUME TypeOK, InitInv, NEW task_cb \in BOOLEAN, os_add_task(task_cb),
         pc \in {"setup", "init"}, UNCHANGED inits
  PROVE  InitInv'
<1> USE Sizes
<1>1. UNCHANGED <<task_running, event, pc, index>>
  BY DEF os_add_task, runVars, loopVars
<1>2. CASE os_task_admin[os_latest_added_task].task_cb
  <2>1. UNCHANGED taskVars
    BY <1>2 DEF os_add_task
  <2> QED
    BY <1>1, <2>1, InitUnchanged DEF taskVars
<1>3. CASE ~os_task_admin[os_latest_added_task].task_cb
  <2> DEFINE n == os_latest_added_task
             admin == Subscribed(os_task_admin, "os_event_init", n)
  <2>1. /\ n \in TaskIds
        /\ os_latest_added_task' = n + 1
        /\ os_task_admin' = [admin EXCEPT ![n].task_cb = task_cb]
    BY <1>3 DEF os_add_task, TypeOK, os_task_id_t, TaskIds
  <2>2. admin \in [TaskIds -> os_task_admin_t]
    BY SubscribedType DEF TypeOK, os_event_t
  <2>3. admin[n].event_subscribe["os_event_init"]
    BY <2>1 DEF TypeOK, Subscribed, os_task_admin_t, os_event_t
  <2>4. \A t \in TaskIds :
          /\ t # n => (HasCallback(t)' <=> HasCallback(t))
          /\ os_task_admin'[t].event_subscribe = admin[t].event_subscribe
    <3> TAKE t \in TaskIds
    <3>1. admin[t].task_cb = os_task_admin[t].task_cb
      BY SubscribedKeeps DEF TypeOK, os_event_t
    <3> HIDE DEF admin
    <3>2. admin[t] \in os_task_admin_t /\ admin[n] \in os_task_admin_t
      BY <2>1, <2>2
    <3>3. t # n => os_task_admin'[t] = admin[t]
      BY <2>1, <2>2
    <3>4. t = n => os_task_admin'[t] = [admin[n] EXCEPT !.task_cb = task_cb]
      BY <2>1, <2>2
    <3>5. t # n => (HasCallback(t)' <=> HasCallback(t))
      BY <3>1, <3>3 DEF HasCallback
    <3>6. os_task_admin'[t].event_subscribe = admin[t].event_subscribe
      BY <3>2, <3>3, <3>4 DEF os_task_admin_t
    <3> QED
      BY <3>5, <3>6
  <2>5. TasksInTable'
    <3> SUFFICES ASSUME NEW t \in TaskIds
                 PROVE  /\ HasCallback(t)' => t < os_latest_added_task'
                        /\ t < os_latest_added_task' =>
                             os_task_admin'[t].event_subscribe["os_event_init"]
      BY DEF TasksInTable
    <3>1. n \in Nat /\ t \in Nat
      BY <2>1 DEF TaskIds
    <3>2. CASE t = n
      BY <2>1, <2>3, <2>4, <3>1, <3>2
    <3>3. CASE t # n
      <4>1. HasCallback(t)' => t < n
        BY <2>4, <3>3 DEF InitInv, TasksInTable
      <4>2. t < n => admin[t].event_subscribe["os_event_init"]
        BY SubscribedKeeps DEF TypeOK, InitInv, TasksInTable, os_event_t
      <4> QED
        BY <2>1, <2>4, <3>1, <3>3, <4>1, <4>2
    <3> QED
      BY <3>2, <3>3
  <2>6. index \in Nat /\ n \in Nat /\ index <= n
    BY <2>1 DEF InitInv, InitProgress, TypeOK, TaskIds
  <2>7. InitProgress'
    <3>1. \A t \in TaskIds : t < index => (HasCallback(t)' <=> HasCallback(t))
      BY <2>4, <2>6 DEF TaskIds
    <3>2. event = "os_event_init" => task_running = index - 1 /\ HasCallback(task_running)'
      <4> SUFFICES ASSUME event = "os_event_init"
                   PROVE  task_running = index - 1 /\ HasCallback(task_running)'
        OBVIOUS
      <4>1. task_running = index - 1 /\ HasCallback(task_running)
        BY DEF InitInv, InitProgress
      <4>2. task_running \in TaskIds
        BY <4>1 DEF HasCallback
      <4>3. task_running < index
        BY <2>6, <4>1
      <4>4. HasCallback(task_running)'
        BY <1>1, <3>1, <4>1, <4>2, <4>3 DEF HasCallback
      <4> QED
        BY <4>1, <4>4
    <3> QED
      BY <1>1, <2>1, <2>6, <3>1, <3>2 DEF InitInv, InitProgress, Handles
  <2> QED
    BY <1>1, <2>5, <2>7 DEF InitInv, InKernel
<1> QED
  BY <1>2, <1>3

LEMMA InitSubscribe ==
  ASSUME TypeOK, InitInv, CallSubscribe
  PROVE  InitInv'
<1>1. PICK e \in os_event_t, u \in TaskIds : os_subscribe_for_event(e, u)
  BY AnyTasksAssumption DEF CallSubscribe
<1>2. UNCHANGED <<os_latest_added_task, task_running, event, pc, index, inits>>
  BY <1>1 DEF CallSubscribe, Calling, os_subscribe_for_event, runVars, loopVars
<1>3. \A t \in TaskIds :
        /\ HasCallback(t)' <=> HasCallback(t)
        /\ os_task_admin[t].event_subscribe["os_event_init"]
             => os_task_admin'[t].event_subscribe["os_event_init"]
  BY <1>1, SubscribedKeeps DEF os_subscribe_for_event, HasCallback, TypeOK, os_event_t
<1>4. HasCallback(task_running)' <=> HasCallback(task_running)
  BY <1>2, <1>3 DEF HasCallback
<1> QED
  BY <1>2, <1>3, <1>4 DEF InitInv, TasksInTable, InitProgress, Handles, InKernel

(* An init callback that returns is counted. *)
LEMMA InitReturns ==
  ASSUME TypeOK, InitInv, CallbackReturns
  PROVE  InitInv'
<1>1. /\ event' = "none" /\ ~InKernel
      /\ UNCHANGED <<os_task_admin, os_latest_added_task, task_running, pc, index>>
  BY DEF CallbackReturns, Return, taskVars, loopVars
<1>2. \A t \in TaskIds : HasCallback(t)' <=> HasCallback(t)
  BY <1>1 DEF HasCallback
<1>3. CASE event = "os_event_init"
  <2>1. /\ pc = "init" /\ InitProgress
        /\ task_running = index - 1 /\ HasCallback(task_running)
        /\ task_running \in TaskIds
    BY <1>3 DEF InitInv, InitProgress, HasCallback
  <2>2. inits' = [inits EXCEPT ![task_running] = @ + 1]
    BY <1>3 DEF CallbackReturns
  <2>3. inits[task_running] = 0
    BY <1>3, <2>1 DEF InitProgress, Handles
  <2>4. \A t \in TaskIds : inits'[t] = IF HasCallback(t) /\ t < index THEN 1 ELSE 0
    <3> TAKE t \in TaskIds
    <3>1. CASE t = task_running
      BY <2>1, <2>2, <2>3, <3>1 DEF InitInv, TypeOK
    <3>2. CASE t # task_running
      BY <2>1, <2>2, <3>2 DEF InitInv, InitProgress, Handles
    <3> QED
      BY <3>1, <3>2
  <2> QED
    BY <1>1, <1>2, <2>1, <2>2, <2>4
       DEF InitInv, TasksInTable, InitProgress, Handles
<1>4. CASE event # "os_event_init"
  <2>1. UNCHANGED inits
    BY <1>4 DEF CallbackReturns
  <2>2. pc \notin {"setup", "init"}
    BY <1>1, <1>4 DEF InitInv, InitProgress, InKernel
  <2> QED
    BY <1>1, <1>2, <2>1, <2>2 DEF InitInv, TasksInTable
<1> QED
  BY <1>3, <1>4

(* One turn of the init loop: the task at index gets its event if it can. *)
LEMMA InitTurn ==
  ASSUME TypeOK, InitInv, InitTask, UNCHANGED inits
  PROVE  InitInv'
<1>1. /\ pc = "init" /\ InKernel /\ index < os_latest_added_task /\ index' = index + 1
      /\ UNCHANGED <<os_task_admin, os_latest_added_task, pc>>
  BY DEF InitTask, taskVars
<1>2. index \in Nat /\ os_latest_added_task \in Nat /\ index \in TaskIds
  BY <1>1, Sizes DEF TypeOK, os_task_id_t, TaskIds
<1>3. \A t : HasCallback(t)' <=> HasCallback(t)
  BY <1>1 DEF HasCallback
<1>4. Registered(index, "os_event_init")
  BY <1>1, <1>2 DEF InitInv, TasksInTable, Registered
<1>5. \/ HasCallback(index) /\ task_running' = index /\ event' = "os_event_init"
      \/ ~HasCallback(index) /\ event' = "none"
  BY <1>1, <1>4 DEF InitTask, os_run_task, Enter, Refuse, InKernel
<1>6. InitProgress'
  <2>1. \A t \in TaskIds :
          inits[t] = IF HasCallback(t) /\ t < index THEN 1 ELSE 0
    BY <1>1 DEF InitInv, InitProgress, Handles, InKernel
  <2>2. \A t \in TaskIds : t < index' <=> t < index \/ t = index
    BY <1>1, <1>2 DEF TaskIds
  <2>3. CASE HasCallback(index) /\ task_running' = index /\ event' = "os_event_init"
    <3>1. \A t \in TaskIds : Handles(t, "os_event_init")' <=> t = index
      BY <2>3 DEF Handles
    <3>2. HasCallback(task_running)'
      BY <1>3, <2>3 DEF HasCallback
    <3>3. \A t \in TaskIds : t = index => ~(t < index)
      BY <1>2
    <3> QED
      BY <1>1, <1>2, <1>3, <2>1, <2>2, <2>3, <3>1, <3>2, <3>3 DEF InitProgress
  <2>4. CASE ~HasCallback(index) /\ event' = "none"
    <3>1. \A t \in TaskIds : ~Handles(t, "os_event_init")'
      BY <2>4 DEF Handles
    <3> QED
      BY <1>1, <1>2, <1>3, <2>1, <2>2, <2>4, <3>1 DEF InitProgress
  <2> QED
    BY <1>5, <2>3, <2>4
<1> QED
  BY <1>1, <1>3, <1>6 DEF InitInv, TasksInTable

LEMMA InitKernel ==
  ASSUME TypeOK, InitInv, Kernel
  PROVE  InitInv'
<1>1. UNCHANGED <<os_task_admin, os_latest_added_task, inits>>
  BY DEF Kernel, os_main, StartMain, InitTask, InitDone, LeaveMain, MsgStage,
         CheckTimer, RearmTimer, CheckDone, TimerStage, IdleStage, taskVars
<1>2. \A t : HasCallback(t)' <=> HasCallback(t)
  BY <1>1 DEF HasCallback
<1>3. pc \in {"setup", "init"} => TasksInTable'
  BY <1>1, <1>2 DEF InitInv, TasksInTable
<1>4. CASE StartMain
  <2>1. UNCHANGED <<task_running, event, index>> /\ pc = "setup" /\ pc' \in {"init", "halt"}
    BY <1>4 DEF StartMain, runVars
  <2> QED
    BY <1>1, <1>2, <1>3, <2>1
       DEF InitInv, InitProgress, InKernel, Handles, HasCallback
<1>5. CASE InitTask
  BY <1>1, <1>5, InitTurn
<1>6. CASE InitDone
  <2>1. /\ UNCHANGED <<task_running, event, index>> /\ pc = "init" /\ pc' = "loop"
        /\ InKernel /\ index >= os_latest_added_task
    BY <1>6 DEF InitDone, runVars
  <2> QED
    BY <1>1, <2>1 DEF InitInv, InKernel
<1>7. CASE LeaveMain \/ MsgStage \/ CheckTimer \/ RearmTimer \/ CheckDone \/ TimerStage \/ IdleStage
  <2>1. /\ pc \notin {"setup", "init", "halt"} /\ pc' \notin {"setup", "init"}
        /\ InKernel
    BY <1>7, CheckTimerOutcome
       DEF LeaveMain, MsgStage, CheckTimer, QueueOwner, PassTimer, RearmTimer, CheckDone,
           TimerStage, IdleStage
  <2>2. event' # "os_event_init"
    BY <1>7, <2>1, RunEvent, CheckTimerOutcome
       DEF LeaveMain, MsgStage, DispatchMsg, RearmTimer, CheckDone, TimerStage,
           IdleStage, InKernel, runVars
  <2> QED
    BY <1>1, <2>1, <2>2 DEF InitInv
<1> QED
  BY <1>4, <1>5, <1>6, <1>7 DEF Kernel, os_main

LEMMA InitStep == TypeOK /\ InitInv /\ [Next]_vars => InitInv'
<1> SUFFICES ASSUME TypeOK, InitInv, [Next]_vars
             PROVE  InitInv'
  OBVIOUS
<1>1. CASE SetupAddsTask
  BY <1>1, InitAddTask DEF SetupAddsTask
<1>2. CASE CallAddTask
  <2>1. os_add_task(TRUE) /\ UNCHANGED inits
    BY <1>2 DEF CallAddTask, Calling
  <2>2. CASE pc \in {"setup", "init"}
    BY <2>1, <2>2, InitAddTask
  <2>3. CASE pc \notin {"setup", "init"}
    BY <2>1, <2>3, InitOver DEF os_add_task, runVars, loopVars
  <2> QED
    BY <2>2, <2>3
<1>3. CASE CallSubscribe
  BY <1>3, InitSubscribe
<1>4. CASE CallPost \/ CallRetrieve \/ CallTimerAdd
  BY <1>4, InitUnchanged
     DEF CallPost, CallRetrieve, CallTimerAdd, Calling, os_post_msg, os_retrieve_msg,
         os_timer_add, taskVars, runVars, loopVars
<1>5. CASE CallTimerStart \/ CallTimerStop \/ CallTimerNewValue
  BY <1>5, InitUnchanged
     DEF CallTimerStart, CallTimerStop, CallTimerNewValue, Calling, os_timer_start,
         os_timer_stop, os_timer_new_value, TimersBecome, taskVars, runVars, loopVars
<1>6. CASE CallbackReturns
  BY <1>6, InitReturns
<1>7. CASE Kernel
  BY <1>7, InitKernel
<1>8. CASE Tick
  BY <1>8, InitUnchanged DEF Tick, os_timer_count, taskVars, runVars, loopVars
<1>9. CASE UNCHANGED vars
  BY <1>9, InitUnchanged DEF vars, osVars, taskVars, runVars, loopVars
<1> QED
  BY <1>1, <1>2, <1>3, <1>4, <1>5, <1>6, <1>7, <1>8, <1>9 DEF Next, Callback

(* The init loop ends when every task in the table has had its event. *)
LEMMA InitLoopEnds ==
  ASSUME TypeOK, InitInv, [Next]_vars, pc = "init", pc' # "init"
  PROVE  \A t \in TaskIds : inits[t] = IF HasCallback(t) THEN 1 ELSE 0
<1>1. ~(SetupAddsTask \/ Callback \/ CallbackReturns \/ Tick \/ UNCHANGED vars)
  BY DEF SetupAddsTask, os_add_task, Callback, CallAddTask, CallSubscribe,
         CallPost, CallRetrieve, CallTimerAdd, CallTimerStart, CallTimerStop,
         CallTimerNewValue, os_subscribe_for_event, os_post_msg, os_retrieve_msg,
         os_timer_add, os_timer_start, os_timer_stop, os_timer_new_value, TimersBecome,
         CallbackReturns, Return, Tick, os_timer_count, vars, osVars, loopVars
<1>2. InitDone
  BY <1>1 DEF Next, Kernel, os_main, StartMain, InitTask, LeaveMain, MsgStage,
              CheckTimer, RearmTimer, CheckDone, TimerStage, IdleStage
<1>3. InKernel /\ index >= os_latest_added_task
  BY <1>2 DEF InitDone
<1>4. \A t \in TaskIds : HasCallback(t) => t < index
  BY <1>3, Sizes DEF InitInv, TasksInTable, TypeOK, os_task_id_t, TaskIds
<1> QED
  BY <1>3, <1>4 DEF InitInv, InitProgress, Handles, InKernel

(* Only the return of an init callback counts, and that is in the init loop. *)
LEMMA InitCounted ==
  ASSUME InitInv, [Next]_vars, inits' # inits
  PROVE  pc = "init"
<1>1. CallbackReturns
  BY DEF Next, SetupAddsTask, Callback, CallAddTask, CallSubscribe, CallPost,
         CallRetrieve, CallTimerAdd, CallTimerStart, CallTimerStop,
         CallTimerNewValue, Calling, Kernel, Tick, vars
<1> QED
  BY <1>1 DEF CallbackReturns, InitInv

(* Every task is initialised once, by the time the init loop ends, also one *)
(* that an init callback added; and no callback is an init callback later.  *)
THEOREM InitOnceCorrect == Spec => InitOnce
<1>1. TypeOK /\ InitInv /\ [Next]_vars =>
        [ /\ pc = "init" /\ pc' # "init" =>
               \A t \in TaskIds : inits[t] = IF HasCallback(t) THEN 1 ELSE 0
          /\ inits' # inits => pc = "init" ]_vars
  BY InitLoopEnds, InitCounted
<1> QED
  BY <1>1, TypeInit, TypeStep, InitInvInit, InitStep, PTL DEF Spec, InitOnce
-----------------------------------------------------------------------------
(***************************************************************************)
(* Whatever setup and the tasks do with timers, and however often the      *)
(* queue of expired timers is overrun, only tasks that have a callback are *)
(* ever queued for a timer event, and "no task" for a timer of setup.      *)
(***************************************************************************)

(* What runs is a task with a callback, or setup, which runs no task. *)
RunningHasCallback ==
  /\ ~InKernel => HasCallback(task_running)
  /\ pc = "setup" => InKernel /\ task_running = OS_MAXIMUM_TASKS

(***************************************************************************)
(* TimerOwners strengthened.  That the queue hands out elements somebody   *)
(* put there needs `in` to be where the queue ends.                        *)
(***************************************************************************)
OwnersInv ==
  /\ RunningHasCallback
  /\ TimerOwners
  /\ InStep(os_timer_pending_queue)

(* An empty queue hands out nothing, and ends where it begins. *)
LEMMA EmptyQueue ==
  ASSUME UINT16_MOD \in Nat \ {0}, NEW C \in Nat \ {0}, NEW zero
  PROVE  /\ Waiting(os_queue_init(C, zero)) = {}
         /\ InStep(os_queue_init(C, zero))
<1> DEFINE q == os_queue_init(C, zero)
<1>1. q.capacity = C /\ q.currentSize = 0 /\ q.in = 0 /\ q.out = 0
  BY DEF os_queue_init
<1> HIDE DEF q
<1>2. Waiting(q) = {}
  BY <1>1 DEF Waiting
<1>3. (0 + 0) % C = 0
  BY ModSmall
<1>4. InStep(q)
  BY <1>1, <1>3 DEF InStep
<1> QED
  BY <1>2, <1>4 DEF q

LEMMA OwnersInit == AnyInit => OwnersInv
<1> SUFFICES ASSUME AnyInit
             PROVE  OwnersInv
  OBVIOUS
<1> USE Sizes DEF AnyInit, Init
<1>1. RunningHasCallback
  BY DEF RunningHasCallback, InKernel, os_task_init
<1>2. Waiting(os_timer_pending_queue) = {} /\ InStep(os_timer_pending_queue)
  BY EmptyQueue DEF os_timer_init
<1>3. Owners = {}
  BY DEF os_timer_init, Owners
<1> QED
  BY <1>1, <1>2, <1>3 DEF OwnersInv, TimerOwners
-----------------------------------------------------------------------------
(* Timers in use keep their owners, a new one belongs to task t. *)
OwnersKept(old, new, t) ==
  \A id \in TimerIds :
    /\ old[id].used => new[id].used /\ new[id].task_id = old[id].task_id
    /\ new[id].used => old[id].used \/ new[id].task_id = t

LEMMA StartValueKeeps ==
  ASSUME NEW timers \in [TimerIds -> os_timer_t], NEW id, NEW n, NEW t
  PROVE  OwnersKept(timers, StartValueSet(timers, id, n), t)
  BY DEF OwnersKept, StartValueSet, os_timer_t

LEMMA StartsKeeps ==
  ASSUME NEW timers \in [TimerIds -> os_timer_t], NEW id, NEW t, Starts(timers, id)
  PROVE  OwnersKept(timers, os_timers', t)
<1>1. CASE \E n : os_timers' = StartValueSet(timers, id, n)
  BY <1>1, StartValueKeeps
<1>2. CASE os_timers' = timers
  BY <1>2 DEF OwnersKept
<1> QED
  BY <1>1, <1>2 DEF Starts

LEMMA ValueKeeps ==
  ASSUME NEW timers \in [TimerIds -> os_timer_t], NEW id, NEW value, NEW t
  PROVE  OwnersKept(timers, ValueSet(timers, id, value), t)
  BY DEF OwnersKept, ValueSet, os_timer_t

(* The slot that is taken belonged to nobody. *)
LEMMA AddKeeps ==
  ASSUME NEW timers \in [TimerIds -> os_timer_t], NEW slot, NEW t, NEW value, NEW type,
         IsFreeSlot(timers, slot)
  PROVE  OwnersKept(timers, TimerAdded(timers, slot, t, value, type), t)
<1> DEFINE entry == [task_id |-> t, type |-> type, value |-> value, used |-> TRUE,
                     start_value |-> timers[slot].start_value]
<1>1. TimerAdded(timers, slot, t, value, type) \in {timers, [timers EXCEPT ![slot] = entry]}
  BY DEF TimerAdded
<1>2. entry.used /\ entry.task_id = t
  OBVIOUS
<1>3. slot \in TimerIds => ~timers[slot].used
  BY DEF IsFreeSlot
<1> HIDE DEF entry
<1>4. \A id \in TimerIds :
        [timers EXCEPT ![slot] = entry][id] = IF id = slot THEN entry ELSE timers[id]
  OBVIOUS
<1> QED
  BY <1>1, <1>2, <1>3, <1>4 DEF OwnersKept

(* The set of owners of a step that keeps them. *)
LEMMA OwnersGrow ==
  ASSUME NEW t, OwnersKept(os_timers, os_timers', t)
  PROVE  Owners \subseteq Owners' /\ Owners' \subseteq Owners \cup {t}
<1>1. \A id \in TimerIds :
        /\ os_timers[id].used =>
             os_timers'[id].used /\ os_timers'[id].task_id = os_timers[id].task_id
        /\ os_timers'[id].used =>
             os_timers[id].used \/ os_timers'[id].task_id = t
  BY DEF OwnersKept
<1>2. Owners \subseteq Owners'
  BY <1>1 DEF Owners
<1>3. Owners' \subseteq Owners \cup {t}
  BY <1>1 DEF Owners
<1> QED
  BY <1>2, <1>3
-----------------------------------------------------------------------------
(* A call of a callback or of setup: a timer it adds is the running task's. *)
LEMMA OwnersCall ==
  ASSUME OwnersInv, pc = "setup" \/ ~InKernel,
         OwnersKept(os_timers, os_timers', task_running),
         \A t : HasCallback(t) => HasCallback(t)',
         UNCHANGED <<os_timer_pending_queue, task_running, event, pc>>
  PROVE  OwnersInv'
<1>1. task_running = OS_MAXIMUM_TASKS \/ HasCallback(task_running)'
  BY DEF OwnersInv, RunningHasCallback, HasCallback
<1>2. Owners \subseteq Owners' /\ Owners' \subseteq Owners \cup {task_running}
  BY OwnersGrow
<1>3. \A t \in Owners' : t = OS_MAXIMUM_TASKS \/ HasCallback(t)'
  BY <1>1, <1>2 DEF OwnersInv, TimerOwners, HasCallback
<1>4. Waiting(os_timer_pending_queue)' \subseteq Owners'
  BY <1>2 DEF OwnersInv, TimerOwners
<1>5. RunningHasCallback'
  BY DEF OwnersInv, RunningHasCallback, InKernel, HasCallback
<1> QED
  BY <1>3, <1>4, <1>5 DEF OwnersInv, TimerOwners

(* A task that is added takes an entry that had no callback. *)
LEMMA AddTaskKeeps ==
  ASSUME TypeOK, NEW task_cb \in BOOLEAN, os_add_task(task_cb)
  PROVE  \A t : HasCallback(t) => HasCallback(t)'
<1> SUFFICES ASSUME NEW t \in TaskIds, os_task_admin[t].task_cb
             PROVE  os_task_admin'[t].task_cb
  BY DEF HasCallback
<1> DEFINE n == os_latest_added_task
           admin == Subscribed(os_task_admin, "os_event_init", n)
<1>1. CASE os_task_admin[n].task_cb
  BY <1>1 DEF os_add_task, taskVars
<1>2. CASE ~os_task_admin[n].task_cb
  <2>1. os_task_admin' = [admin EXCEPT ![n].task_cb = task_cb]
    BY <1>2 DEF os_add_task
  <2>2. admin \in [TaskIds -> os_task_admin_t]
    BY SubscribedType DEF TypeOK, os_event_t
  <2>3. admin[t].task_cb
    BY DEF Subscribed, TypeOK, os_task_admin_t
  <2> HIDE DEF admin
  <2>4. os_task_admin'[t] = admin[t]
    BY <1>2, <2>1, <2>2
  <2> QED
    BY <2>3, <2>4
<1> QED
  BY <1>1, <1>2

LEMMA SubscribeKeeps ==
  ASSUME TypeOK, NEW e \in os_event_t, NEW u, os_subscribe_for_event(e, u)
  PROVE  \A t : HasCallback(t) => HasCallback(t)'
<1>1. \A t \in TaskIds : os_task_admin'[t].task_cb = os_task_admin[t].task_cb
  BY DEF os_subscribe_for_event, Subscribed, TypeOK, os_task_admin_t
<1> QED
  BY <1>1 DEF HasCallback

(* setup adds tasks while no callback runs. *)
LEMMA OwnersSetup ==
  ASSUME TypeOK, OwnersInv, SetupAddsTask
  PROVE  OwnersInv'
<1>1. PICK task_cb \in BOOLEAN : os_add_task(task_cb)
  BY DEF SetupAddsTask
<1>2. \A t : HasCallback(t) => HasCallback(t)'
  BY <1>1, AddTaskKeeps
<1>3. UNCHANGED <<os_timers, os_timer_pending_queue, task_running, event, pc>>
  BY <1>1 DEF os_add_task, timerVars, runVars, loopVars
<1>4. Owners' = Owners
  BY <1>3 DEF Owners
<1>5. RunningHasCallback'
  BY <1>2, <1>3 DEF OwnersInv, RunningHasCallback, InKernel, HasCallback
<1> QED
  BY <1>2, <1>3, <1>4, <1>5 DEF OwnersInv, TimerOwners

LEMMA OwnersCallback ==
  ASSUME TypeOK, OwnersInv, Callback
  PROVE  OwnersInv'
<1>1. pc = "setup" \/ ~InKernel
  BY DEF Callback, CallAddTask, CallSubscribe, CallPost, CallRetrieve, CallTimerAdd,
         CallTimerStart, CallTimerStop, CallTimerNewValue, Calling
<1>2. OwnersKept(os_timers, os_timers, task_running)
  BY DEF OwnersKept
<1>3. CASE CallAddTask
  <2>1. os_add_task(TRUE)
    BY <1>3 DEF CallAddTask
  <2>2. UNCHANGED <<os_timers, os_timer_pending_queue, task_running, event, pc>>
    BY <2>1 DEF os_add_task, timerVars, runVars, loopVars
  <2> QED
    BY <1>1, <1>2, <2>1, <2>2, AddTaskKeeps, OwnersCall
<1>4. CASE CallSubscribe
  <2>1. PICK e \in Subscribable, task_id \in TaskIds : os_subscribe_for_event(e, task_id)
    BY <1>4 DEF CallSubscribe
  <2>2. \A t : HasCallback(t) => HasCallback(t)'
    BY <2>1, SubscribeKeeps, AnyTasksAssumption
  <2>3. UNCHANGED <<os_timers, os_timer_pending_queue, task_running, event, pc>>
    BY <2>1 DEF os_subscribe_for_event, timerVars, runVars, loopVars
  <2> QED
    BY <1>1, <1>2, <2>2, <2>3, OwnersCall
<1>5. ASSUME UNCHANGED os_task_admin
      PROVE  \A t : HasCallback(t) => HasCallback(t)'
  BY <1>5 DEF HasCallback
<1>6. CASE CallPost \/ CallRetrieve
  <2>1. UNCHANGED <<os_task_admin, os_timers, os_timer_pending_queue, task_running, event, pc>>
    BY <1>6 DEF CallPost, CallRetrieve, os_post_msg, os_retrieve_msg,
                taskVars, timerVars, runVars, loopVars
  <2> QED
    BY <1>1, <1>2, <1>5, <2>1, OwnersCall
<1>7. CASE CallTimerAdd
  <2>1. PICK value \in TimerValue, type \in {"os_timer_repeat", "os_timer_one_shot"} :
          os_timer_add(value, type)
    BY <1>7 DEF CallTimerAdd
  <2>2. PICK slot : /\ IsFreeSlot(os_timers, slot)
                    /\ os_timers' = TimerAdded(os_timers, slot, task_running, value, type)
    BY <2>1 DEF os_timer_add
  <2>3. OwnersKept(os_timers, os_timers', task_running)
    BY <2>2, AddKeeps DEF TypeOK
  <2>4. UNCHANGED <<os_task_admin, os_timer_pending_queue, task_running, event, pc>>
    BY <2>1 DEF os_timer_add, taskVars, runVars, loopVars
  <2> QED
    BY <1>1, <1>5, <2>3, <2>4, OwnersCall
<1>8. ASSUME NEW timers, TimersBecome(timers), OwnersKept(os_timers, timers, task_running)
      PROVE  OwnersInv'
  <2>1. /\ os_timers' = timers
        /\ UNCHANGED <<os_task_admin, os_timer_pending_queue, task_running, event, pc>>
    BY <1>8 DEF TimersBecome, taskVars, runVars, loopVars
  <2> QED
    BY <1>1, <1>5, <1>8, <2>1, OwnersCall
<1>9. CASE CallTimerStart
  <2>1. PICK id \in TimerIds : os_timer_start(id)
    BY <1>9 DEF CallTimerStart
  <2>2. OwnersKept(os_timers, os_timers', task_running)
    BY <2>1, StartsKeeps DEF os_timer_start, TypeOK
  <2>3. UNCHANGED <<os_task_admin, os_timer_pending_queue, task_running, event, pc>>
    BY <2>1 DEF os_timer_start, taskVars, runVars, loopVars
  <2> QED
    BY <1>1, <1>5, <2>2, <2>3, OwnersCall
<1>10. CASE CallTimerStop
  BY <1>8, <1>10, StartValueKeeps DEF CallTimerStop, os_timer_stop, TypeOK
<1>11. CASE CallTimerNewValue
  BY <1>8, <1>11, ValueKeeps DEF CallTimerNewValue, os_timer_new_value, TypeOK
<1> QED
  BY <1>3, <1>4, <1>6, <1>7, <1>9, <1>10, <1>11 DEF Callback
-----------------------------------------------------------------------------
(* os_run_task enters a callback of the task it is asked to run, or none. *)
LEMMA RunHasCallback ==
  ASSUME NEW t, NEW e, os_run_task(t, e), RunningHasCallback, UNCHANGED os_task_admin,
         pc' # "setup"
  PROVE  RunningHasCallback'
<1>1. CASE HasCallback(t) /\ Enter(t, e)
  BY <1>1 DEF Enter, RunningHasCallback, HasCallback
<1>2. CASE UNCHANGED <<task_running, event>>
  BY <1>2 DEF RunningHasCallback, InKernel, HasCallback
<1> QED
  BY <1>1, <1>2 DEF os_run_task, Refuse

(* The kernel enters tasks with a callback only. *)
LEMMA KernelRuns ==
  ASSUME OwnersInv, os_main
  PROVE  RunningHasCallback' /\ UNCHANGED os_task_admin
<1>1. UNCHANGED os_task_admin
  BY CheckTimerOutcome DEF os_main, StartMain, InitTask, InitDone, LeaveMain, MsgStage,
         RearmTimer, CheckDone, TimerStage, IdleStage, taskVars
<1>2. ASSUME UNCHANGED <<task_running, event>>, pc' # "setup"
      PROVE  RunningHasCallback'
  BY <1>1, <1>2 DEF OwnersInv, RunningHasCallback, InKernel, HasCallback
<1>3. CASE StartMain \/ InitDone \/ LeaveMain \/ RearmTimer \/ CheckDone
  <2>1. UNCHANGED <<task_running, event>> /\ pc' # "setup"
    BY <1>3 DEF StartMain, InitDone, LeaveMain, RearmTimer, CheckDone, runVars
  <2> QED
    BY <1>1, <1>2, <2>1
<1>4. CASE CheckTimer
  <2>1. UNCHANGED <<task_running, event>> /\ pc' # "setup"
    BY <1>4, CheckTimerOutcome DEF CheckTimer, QueueOwner, PassTimer, runVars
  <2> QED
    BY <1>1, <1>2, <2>1
<1>5. CASE InitTask
  BY <1>1, <1>5, RunHasCallback DEF InitTask, OwnersInv
<1>6. CASE MsgStage
  BY <1>1, <1>2, <1>6, RunHasCallback DEF MsgStage, DispatchMsg, OwnersInv, runVars
<1>7. CASE TimerStage
  BY <1>1, <1>2, <1>7, RunHasCallback DEF TimerStage, OwnersInv, runVars
<1>8. CASE IdleStage
  BY <1>1, <1>8, RunHasCallback DEF IdleStage, OwnersInv
<1> QED
  BY <1>1, <1>3, <1>5, <1>6, <1>7, <1>8, <1>4 DEF os_main

(* The owner of an expired timer is queued; the queue hands out owners. *)
LEMMA OwnersKernel ==
  ASSUME TypeOK, OwnersInv, os_main
  PROVE  OwnersInv'
<1> USE Sizes
<1>1. RunningHasCallback' /\ \A t : HasCallback(t)' <=> HasCallback(t)
  BY KernelRuns DEF HasCallback
<1> DEFINE Q == os_timer_pending_queue
<1>2. ASSUME Owners' = Owners, Waiting(Q)' \subseteq Owners, InStep(Q)'
      PROVE  OwnersInv'
  BY <1>1, <1>2 DEF OwnersInv, TimerOwners
<1>3. ASSUME UNCHANGED Q, Owners' = Owners
      PROVE  OwnersInv'
  BY <1>2, <1>3 DEF OwnersInv, TimerOwners
<1>4. ASSUME UNCHANGED os_timers
      PROVE  Owners' = Owners
  BY <1>4 DEF Owners
<1>5. CASE StartMain \/ InitTask \/ InitDone \/ LeaveMain \/ MsgStage \/ CheckDone \/ IdleStage
  <2>1. UNCHANGED <<os_timers, os_timer_pending_queue>>
    BY <1>5 DEF StartMain, InitTask, InitDone, LeaveMain, MsgStage, CheckDone, IdleStage,
                timerVars
  <2> QED
    BY <1>3, <1>4, <2>1
<1>6. CASE CheckTimer
  <2>1. UNCHANGED os_timers
    BY <1>6, CheckTimerOutcome
  <2>2. CASE PassTimer
    <3>1. UNCHANGED Q
      BY <2>2 DEF PassTimer
    <3> QED
      BY <1>3, <1>4, <2>1, <3>1
  <2>3. CASE Started(index) /\ QueueOwner
    <3> DEFINE owner == os_timers[index].task_id
    <3>1. owner \in Owners /\ owner \in os_task_id_t
      BY <1>6, <2>3 DEF CheckTimer, Started, Owners, TypeOK, os_timer_t
    <3>2. Q' = os_queue_add(Q, owner)
      BY <2>3 DEF QueueOwner
    <3>3. Q \in QueueOf(os_task_id_t, OS_MAXIMUM_TIMERS) /\ InStep(Q)
      BY DEF TypeOK, OwnersInv
    <3>4. Divides(OS_MAXIMUM_TIMERS, UINT16_MOD)
      BY SchedulerAssumption DEF Divides
    <3> HIDE DEF owner, Q
    <3>5. /\ InStep(os_queue_add(Q, owner))
          /\ Waiting(os_queue_add(Q, owner)) \subseteq Waiting(Q) \cup {owner}
      BY <3>1, <3>3, <3>4, AddWaiting
    <3>6. InStep(Q)' /\ Waiting(Q)' \subseteq Owners
      BY <3>1, <3>2, <3>5 DEF OwnersInv, TimerOwners, Q
    <3> QED
      BY <1>2, <1>4, <2>1, <3>6
  <2> QED
    BY <1>6, <2>2, <2>3 DEF CheckTimer
<1>7. CASE RearmTimer
  <2>1. UNCHANGED Q
    BY <1>7 DEF RearmTimer
  <2>2. \A id \in TimerIds :
          /\ os_timers'[id].used <=> os_timers[id].used
          /\ os_timers'[id].task_id = os_timers[id].task_id
    BY <1>7 DEF RearmTimer, Starts, StartValueSet, TypeOK, os_timer_t
  <2>3. Owners' = Owners
    BY <2>2 DEF Owners
  <2> QED
    BY <1>3, <2>1, <2>3
<1>8. CASE TimerStage
  <2>1. UNCHANGED os_timers
    BY <1>8 DEF TimerStage
  <2>2. CASE os_queue_isEmpty(Q)
    <3>1. UNCHANGED Q
      BY <1>8, <2>2 DEF TimerStage
    <3> QED
      BY <1>3, <1>4, <2>1, <3>1
  <2>3. CASE ~os_queue_isEmpty(Q)
    <3>1. Q' = os_queue_remove(Q)
      BY <1>8, <2>3 DEF TimerStage
    <3>2. Q \in QueueOf(os_task_id_t, OS_MAXIMUM_TIMERS) /\ InStep(Q)
      BY DEF TypeOK, OwnersInv
    <3> HIDE DEF Q
    <3>3. InStep(os_queue_remove(Q)) /\ Waiting(os_queue_remove(Q)) \subseteq Waiting(Q)
      BY <2>3, <3>2, RemoveWaiting
    <3>4. InStep(Q)' /\ Waiting(Q)' \subseteq Owners
      BY <3>1, <3>3 DEF OwnersInv, TimerOwners, Q
    <3> QED
      BY <1>2, <1>4, <2>1, <3>4
  <2> QED
    BY <2>2, <2>3
<1> QED
  BY <1>5, <1>6, <1>7, <1>8 DEF os_main

LEMMA OwnersStep == TypeOK /\ OwnersInv /\ [Next]_vars => OwnersInv'
<1> SUFFICES ASSUME TypeOK, OwnersInv, [Next]_vars
             PROVE  OwnersInv'
  OBVIOUS
<1>1. CASE SetupAddsTask
  BY <1>1, OwnersSetup
<1>2. CASE Callback
  BY <1>2, OwnersCallback
<1>3. ASSUME UNCHANGED <<os_task_admin, os_timers, os_timer_pending_queue, task_running, pc>>,
             event' \in {event, "none"}
      PROVE  OwnersInv'
  <2>1. Owners' = Owners
    BY <1>3 DEF Owners
  <2>2. \A t : HasCallback(t)' <=> HasCallback(t)
    BY <1>3 DEF HasCallback
  <2>3. RunningHasCallback'
    BY <1>3 DEF OwnersInv, RunningHasCallback, InKernel, HasCallback
  <2> QED
    BY <1>3, <2>1, <2>2, <2>3 DEF OwnersInv, TimerOwners
<1>4. CASE CallbackReturns
  BY <1>3, <1>4 DEF CallbackReturns, Return, taskVars, timerVars, loopVars
<1>5. CASE Kernel
  BY <1>5, OwnersKernel DEF Kernel
<1>6. CASE Tick
  BY <1>3, <1>6 DEF Tick, os_timer_count, taskVars, runVars, timerVars, loopVars
<1>7. CASE UNCHANGED vars
  BY <1>3, <1>7 DEF vars, osVars, taskVars, runVars, timerVars, loopVars
<1> QED
  BY <1>1, <1>2, <1>4, <1>5, <1>6, <1>7 DEF Next

(* Only tasks that once added a timer wait for a timer event, and they      *)
(* have a callback to enter; for a timer of setup "no task" waits.          *)
THEOREM TimerOwnersCorrect == Spec => []TimerOwners
<1>1. OwnersInv => TimerOwners
  BY DEF OwnersInv
<1> QED
  BY <1>1, TypeInit, TypeStep, OwnersInit, OwnersStep, PTL DEF Spec
=============================================================================
