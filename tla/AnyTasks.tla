----------------------------- MODULE AnyTasks ------------------------------
(***************************************************************************)
(* The kernel with a sketch that may do anything the API allows.  setup    *)
(* adds tasks and makes calls, and a callback of any task makes calls, in  *)
(* any order, with any arguments, up to MaxCalls of them, and returns any  *)
(* code.  One thing only is left out: a task added after setup that fills  *)
(* the table, see CallAddTask.                                             *)
(***************************************************************************)
EXTENDS Scheduler

CONSTANTS Call,         \* the calls the tasks make, by name
          SetupCall,    \* the calls setup makes, besides adding tasks
          Subscribable, \* the events that are subscribed for ...
          Others,       \* ... and for which tasks besides the running one
          ReturnCode,   \* what callbacks return
          MaxCalls      \* bound on the calls of setup, and of each callback, not
                        \*   counting the tasks setup adds; none in the code

ASSUME AnyTasksAssumption ==
  /\ Subscribable \subseteq os_event_t
  /\ Others \subseteq TaskIds
  /\ ReturnCode \subseteq os_task_return_codes_t
  /\ MaxCalls \in Nat

VARIABLES calls,      \* calls made by setup or the callback that is executing
          inits       \* init events each task has handled (history)

vars == <<osVars, calls, inits>>

AnyInit == Init /\ calls = 0 /\ inits = [t \in TaskIds |-> 0]

(* setup, before os_main; a task without a callback is accepted, too. *)
SetupAddsTask ==
  /\ pc = "setup"
  /\ \E task_cb \in BOOLEAN : os_add_task(task_cb)
  /\ UNCHANGED <<calls, inits>>

(* setup, or the callback of a task, makes a call. *)
Calling(name) ==
  /\ \/ pc = "setup" /\ name \in SetupCall
     \/ ~InKernel /\ name \in Call
  /\ calls < MaxCalls
  /\ calls' = calls + 1
  /\ UNCHANGED inits

(***************************************************************************)
(* Callbacks add tasks, too, but only init callbacks fill the table.  If   *)
(* the loop has begun, the error that a full table is does not stop the    *)
(* pass, whose idle turn would read past the end of the table.             *)
(***************************************************************************)
CallAddTask ==
  /\ Calling("os_add_task") /\ ~InKernel
  /\ event = "os_event_init" \/ os_latest_added_task + 1 < OS_MAXIMUM_TASKS
  /\ os_add_task(TRUE)

CallSubscribe ==
  /\ Calling("os_subscribe_for_event")
  /\ \E e \in Subscribable, t \in TaskIds \cap (Others \cup {task_running}) :
       os_subscribe_for_event(e, t)

CallPost ==
  /\ Calling("os_post_msg")
  /\ \E msg \in Msg, dest_task_id \in os_task_id_t : os_post_msg(msg, dest_task_id)

CallRetrieve ==
  /\ Calling("os_retrieve_msg")
  /\ os_retrieve_msg

CallTimerAdd ==
  /\ Calling("os_timer_add")
  /\ \E value \in TimerValue, type \in {"os_timer_repeat", "os_timer_one_shot"} :
       os_timer_add(value, type)

CallTimerStart ==
  /\ Calling("os_timer_start")
  /\ \E id \in TimerIds : os_timer_start(id)

CallTimerStop ==
  /\ Calling("os_timer_stop")
  /\ \E id \in TimerIds : os_timer_stop(id)

CallTimerNewValue ==
  /\ Calling("os_timer_new_value")
  /\ \E id \in TimerIds, value \in TimerValue : os_timer_new_value(id, value)

Callback ==
  \/ CallAddTask
  \/ CallSubscribe
  \/ CallPost
  \/ CallRetrieve
  \/ CallTimerAdd
  \/ CallTimerStart
  \/ CallTimerStop
  \/ CallTimerNewValue

CallbackReturns ==
  /\ \E code \in ReturnCode : Return(code)
  /\ calls' = 0
  /\ inits' = IF event = "os_event_init"
              THEN [inits EXCEPT ![task_running] = @ + 1] ELSE inits

Kernel == os_main /\ calls' = 0 /\ UNCHANGED inits

Tick == os_timer_count /\ UNCHANGED <<calls, inits>>

Next == SetupAddsTask \/ Callback \/ CallbackReturns \/ Kernel \/ Tick

Spec == AnyInit /\ [][Next]_vars

(***************************************************************************)
(* setup calls os_main; the loop of os_main goes on whenever no callback   *)
(* executes; every callback returns.  The last is the discipline a         *)
(* cooperative scheduler asks of its tasks.  Ticks need no fairness.       *)
(***************************************************************************)
Fairness == WF_vars(Kernel) /\ WF_vars(CallbackReturns)

FairSpec == Spec /\ Fairness
-----------------------------------------------------------------------------

(***************************************************************************)
(* The idle turn stays inside the table.  It lets last_checked_task_id     *)
(* reach the number of tasks, an index without a task; that is inside the  *)
(* table only because os_add_task reports an error already when the last   *)
(* entry is taken and os_main then never gets to the idle turn.            *)
(***************************************************************************)
IdleIndexInTable == last_checked_task_id \in TaskIds

(***************************************************************************)
(* While a task handles os_event_msg_pending the pending message is its    *)
(* own, whatever was posted in the meantime: os_retrieve_msg in a message  *)
(* callback never stops the OS.                                            *)
(***************************************************************************)
RetrieveSafe ==
  event = "os_event_msg_pending" => msg_pending.destination = task_running

(***************************************************************************)
(* os_event_init: "calls each task one time on init" (scheduler.h:37).     *)
(* When the init loop ends every task has had the event once, even one     *)
(* that another task's init callback added, and although an error does not *)
(* end the loop; and no task has it later.                                 *)
(***************************************************************************)
InitOnce ==
  [][ /\ pc = "init" /\ pc' # "init" =>
           \A t \in TaskIds : inits[t] = IF HasCallback(t) THEN 1 ELSE 0
      /\ inits' # inits => pc = "init" ]_vars

(***************************************************************************)
(* Timer events go to tasks that exist.  The owner of a timer in use is a  *)
(* task, or "no task" when setup added the timer; and every id that waits  *)
(* in the queue of expired timers is such an owner.                        *)
(***************************************************************************)
Owners == {os_timers[id].task_id : id \in {i \in TimerIds : os_timers[i].used}}

TimerOwners ==
  /\ \A t \in Owners : t = OS_MAXIMUM_TASKS \/ HasCallback(t)
  /\ Waiting(os_timer_pending_queue) \subseteq Owners

(***************************************************************************)
(* No message is forgotten: one that waits for a subscribed task is        *)
(* handed to it, unless the queue is overrun or the OS is stopped.         *)
(***************************************************************************)
MessageServed ==
  \A entry \in os_msg_queue_entry_t :
    /\ entry \in Waiting(os_msg_buffer)
    /\ Registered(entry.destination, "os_event_msg_pending")
    /\ HasCallback(entry.destination)
    ~> \/ msg_pending = entry /\ Handles(entry.destination, "os_event_msg_pending")
       \/ Overrun(os_msg_buffer)
       \/ Stopped

(***************************************************************************)
(* No expiry is forgotten.  The id of the owner of a started timer that    *)
(* has run out is queued, unless a callback stops or restarts the timer    *)
(* first; and a task whose id is queued gets the timer event, unless the   *)
(* queue of expired timers is overrun or the OS is stopped.                *)
(***************************************************************************)
Due(id) ==
  /\ os_timers[id].used
  /\ os_timers[id].start_value # 0
  /\ os_timers[id].start_value + os_timers[id].value <= os_timer_counter

ExpiryWaits(t) == t \in Waiting(os_timer_pending_queue)

TimerServed ==
  /\ \A id \in TimerIds :
       Due(id) ~> (\/ ExpiryWaits(os_timers[id].task_id)
                   \/ ~InKernel /\ ~Due(id)
                   \/ Stopped)
  /\ \A t \in TaskIds :
       (ExpiryWaits(t) /\ Registered(t, "os_event_timer") /\ HasCallback(t))
       ~> (\/ Handles(t, "os_event_timer")
           \/ Overrun(os_timer_pending_queue)
           \/ Stopped)

(* Every task that subscribed gets the idle event again and again. *)
IdleServed ==
  \A t \in TaskIds :
    (Registered(t, "os_event_idle") /\ HasCallback(t))
    ~> (Handles(t, "os_event_idle") \/ Stopped)

(* An error that anything reports stops the OS. *)
ErrorStops == os_error ~> Stopped

(***************************************************************************)
(* What scheduler.h says and os_main does not do.  "os_task_failed: the    *)
(* called task has failed stops running the OS" (scheduler.h:31): os_main  *)
(* only logs it.                                                           *)
(***************************************************************************)
FailedStops == InKernel /\ returnValue = "os_task_failed" ~> Stopped
=============================================================================
