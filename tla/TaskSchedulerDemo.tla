------------------------- MODULE TaskSchedulerDemo -------------------------
(***************************************************************************)
(* The sketch Task_scheduler.ino on the kernel.  Task 1's repeating timer  *)
(* posts 0x55 to task 2; that message starts task 2's one-shot timer,      *)
(* which posts 0xAA to task 3; task 3 takes note and reports in its next   *)
(* idle event.  One token per period travels this way, through two queue   *)
(* entries, two timers and a flag.                                         *)
(***************************************************************************)
EXTENDS Scheduler, FiniteSets

CONSTANTS Period,            \* 10 s: the timer of task 1
          Delay,             \* 1 s: the timer of task 2
          MaxTicksPerPass    \* ticks during one pass of the loop of os_main

ASSUME DemoAssumption ==
  /\ Msg = {"none", "0x55", "0xAA"} /\ ZeroMsg = "none"
  /\ OS_MAXIMUM_TASKS > 3
  /\ OS_MAXIMUM_TIMERS >= 2
  /\ TimerValue = {Period, Delay}
  /\ MaxTicksPerPass \in Nat

(* Eight passes fit between delay and period: the code has 9 s for them. *)
ASSUME PassesAssumption == Period >= Delay + 8 * (MaxTicksPerPass * OS_COUNTER_TIME)

(* setup adds the tasks in this order; each learns its id in its init event. *)
taskID_1 == 0
taskID_2 == 1
taskID_3 == 2

VARIABLES timer,         \* task 2's static variable
          msgReceived,   \* task 3's static variable
          ticks,         \* ticks since the last pass of the loop began
          torn,          \* an access to the counter has been torn (history)
          sent,          \* messages task 1 has posted (history)
          reported       \* reports task 3 has made (history)

history == <<sent, reported>>
vars == <<osVars, timer, msgReceived, ticks, torn, history>>

DemoInit ==
  /\ Init
  /\ timer = OS_MAXIMUM_TIMERS
  /\ msgReceived = FALSE
  /\ ticks = 0
  /\ torn = FALSE
  /\ sent = 0 /\ reported = 0

(* setup adds three tasks, then calls os_main. *)
AddTasks ==
  /\ pc = "setup" /\ os_latest_added_task < 3
  /\ os_add_task(TRUE)
  /\ UNCHANGED <<timer, msgReceived, ticks, torn, history>>

One(condition) == IF condition THEN 1 ELSE 0

(***************************************************************************)
(* The interrupt comes every 10 ms, a pass of the loop takes milliseconds: *)
(* at most MaxTicksPerPass ticks fall into one.  This notes whether one    *)
(* fell into the access that a step makes; ticksBefore are those before.   *)
(***************************************************************************)
CountTick(ticksBefore) ==
  LET tick == os_timer_counter' # os_timer_counter
  IN  /\ ticksBefore + One(tick) <= MaxTicksPerPass
      /\ ticks' = ticksBefore + One(tick)
      /\ torn' = (torn \/ tick)

(* A callback breaks out of its switch and returns os_task_succeed. *)
Succeed ==
  /\ CountTick(ticks)
  /\ event' = "none"
  /\ returnValue' = "os_task_succeed"
  /\ UNCHANGED <<task_running, os_latest_added_task, msg_pending,
                 os_timer_pending_queue, loopVars>>

Subscribes(events) ==
  os_task_admin' = [os_task_admin EXCEPT ![task_running].event_subscribe =
                      [e \in os_event_t |-> @[e] \/ e \in events]]

(* os_timer_add, and for task 1 also os_timer_start. *)
Task1Init ==
  /\ Handles(taskID_1, "os_event_init")
  /\ Subscribes({"os_event_timer"})
  /\ \E slot \in 0 .. OS_MAXIMUM_TIMERS :
       /\ IsFreeSlot(os_timers, slot)
       /\ Starts(TimerAdded(os_timers, slot, task_running, Period, "os_timer_repeat"),
                 slot)
       /\ os_error' = (os_error \/ slot = OS_MAXIMUM_TIMERS)
  /\ Succeed
  /\ UNCHANGED <<os_msg_buffer, timer, msgReceived, history>>

Task1Timer ==
  /\ Handles(taskID_1, "os_event_timer")
  /\ os_msg_buffer' =
       os_queue_add(os_msg_buffer, [destination |-> taskID_2, msg |-> "0x55"])
  /\ sent' = sent + 1
  /\ UNCHANGED os_timer_counter /\ Succeed
  /\ UNCHANGED <<os_error, os_task_admin, os_timers, timer, msgReceived, reported>>

(* Faulty variant: the delay is not a one-shot timer. *)
Task2InitRepeats ==
  /\ Handles(taskID_2, "os_event_init")
  /\ Subscribes({"os_event_msg_pending", "os_event_timer"})
  /\ \E slot \in 0 .. OS_MAXIMUM_TIMERS :
       /\ IsFreeSlot(os_timers, slot)
       /\ timer' = slot
       /\ os_timers' =
            TimerAdded(os_timers, slot, task_running, Delay, "os_timer_repeat")
       /\ os_error' = (os_error \/ slot = OS_MAXIMUM_TIMERS)
  /\ UNCHANGED os_timer_counter /\ Succeed
  /\ UNCHANGED <<os_msg_buffer, msgReceived, history>>

Task2Init ==
  /\ Handles(taskID_2, "os_event_init")
  /\ Subscribes({"os_event_msg_pending", "os_event_timer"})
  /\ \E slot \in 0 .. OS_MAXIMUM_TIMERS :
       /\ IsFreeSlot(os_timers, slot)
       /\ timer' = slot
       /\ os_timers' =
            TimerAdded(os_timers, slot, task_running, Delay, "os_timer_one_shot")
       /\ os_error' = (os_error \/ slot = OS_MAXIMUM_TIMERS)
  /\ UNCHANGED os_timer_counter /\ Succeed
  /\ UNCHANGED <<os_msg_buffer, msgReceived, history>>

(* os_retrieve_msg; refused, it leaves msg as it is: uninitialised. *)
Retrieves(msg) ==
  IF msg_pending.destination = task_running
  THEN msg = msg_pending.msg /\ UNCHANGED os_error
  ELSE os_error' = TRUE

(* Faulty variant: the message of task 1 is not recognised. *)
Task2MsgWrongData ==
  /\ Handles(taskID_2, "os_event_msg_pending")
  /\ \E msg \in Msg :
       /\ Retrieves(msg)
       /\ IF msg = "0xAA"
          THEN Starts(os_timers, timer)
          ELSE UNCHANGED <<os_timers, os_timer_counter>>
  /\ Succeed
  /\ UNCHANGED <<os_task_admin, os_msg_buffer, timer, msgReceived, history>>

Task2Msg ==
  /\ Handles(taskID_2, "os_event_msg_pending")
  /\ \E msg \in Msg :
       /\ Retrieves(msg)
       /\ IF msg = "0x55"
          THEN Starts(os_timers, timer)
          ELSE UNCHANGED <<os_timers, os_timer_counter>>
  /\ Succeed
  /\ UNCHANGED <<os_task_admin, os_msg_buffer, timer, msgReceived, history>>

Task2Timer ==
  /\ Handles(taskID_2, "os_event_timer")
  /\ os_msg_buffer' =
       os_queue_add(os_msg_buffer, [destination |-> taskID_3, msg |-> "0xAA"])
  /\ UNCHANGED os_timer_counter /\ Succeed
  /\ UNCHANGED <<os_error, os_task_admin, os_timers, timer, msgReceived, history>>

Task3Init ==
  /\ Handles(taskID_3, "os_event_init")
  /\ Subscribes({"os_event_msg_pending", "os_event_idle"})
  /\ UNCHANGED os_timer_counter /\ Succeed
  /\ UNCHANGED <<os_error, os_msg_buffer, os_timers, timer, msgReceived, history>>

Task3Msg ==
  /\ Handles(taskID_3, "os_event_msg_pending")
  /\ \E msg \in Msg :
       Retrieves(msg) /\ msgReceived' = (msgReceived \/ msg = "0xAA")
  /\ UNCHANGED os_timer_counter /\ Succeed
  /\ UNCHANGED <<os_task_admin, os_msg_buffer, os_timers, timer, history>>

Task3Idle ==
  /\ Handles(taskID_3, "os_event_idle")
  /\ reported' = IF msgReceived THEN reported + 1 ELSE reported
  /\ msgReceived' = FALSE
  /\ UNCHANGED os_timer_counter /\ Succeed
  /\ UNCHANGED <<os_error, os_task_admin, os_msg_buffer, os_timers, timer, sent>>

Tasks ==
  \/ Task1Init \/ Task1Timer
  \/ Task2Init \/ Task2Msg \/ Task2Timer
  \/ Task3Init \/ Task3Msg \/ Task3Idle

Kernel ==
  /\ pc = "setup" => os_latest_added_task = 3
  /\ os_main
  /\ CountTick(IF pc = "loop" THEN 0 ELSE ticks)
  /\ UNCHANGED <<timer, msgReceived, history>>

(* The interrupt between two steps. *)
Tick ==
  /\ ticks < MaxTicksPerPass
  /\ os_timer_count
  /\ ticks' = ticks + 1
  /\ UNCHANGED <<timer, msgReceived, torn, history>>

Next == AddTasks \/ Tasks \/ Kernel \/ Tick

Spec == DemoInit /\ [][Next]_vars

(* setup, the loop and the callbacks run on; the hardware timer ticks. *)
FairSpec ==
  Spec /\ WF_vars(AddTasks) /\ WF_vars(Tasks) /\ WF_vars(Kernel) /\ SF_vars(Tick)
-----------------------------------------------------------------------------
(***************************************************************************)
(* Nothing goes wrong that the kernel would stop for: the tables are large *)
(* enough and every os_retrieve_msg is made by the task addressed.         *)
(***************************************************************************)
NoError == ~os_error

(* Expiries of task t that wait in the queue. *)
ExpiriesWaiting(t) ==
  LET q == os_timer_pending_queue
  IN  Cardinality({k \in 0 .. q.capacity - 1 :
                     k < q.currentSize /\ q.buffer[(q.out + k) % q.capacity] = t})

(* The timer of task 2 runs; in "rearm" its expiry is already queued. *)
DelayRuns ==
  /\ timer \in TimerIds
  /\ os_timers[timer].start_value # 0
  /\ ~(pc = "rearm" /\ index = timer)

(* The tokens between task 1's post and task 3's report, place by place. *)
InFlight ==
  os_msg_buffer.currentSize
    + One(event = "os_event_msg_pending")
    + One(DelayRuns)
    + ExpiriesWaiting(taskID_2)
    + One(Handles(taskID_2, "os_event_timer"))
    + One(msgReceived)

(***************************************************************************)
(* No token comes from nowhere and none is doubled: what is under way or   *)
(* reported was sent.  This holds whatever the main loop reads from the    *)
(* counter; that a timer may fire too early or too late only shows in      *)
(* tokens that are lost, see OneTokenAtATime.                              *)
(***************************************************************************)
NoTokenInvented == InFlight + reported <= sent

(***************************************************************************)
(* As long as no access to the counter has been torn, tokens are neither   *)
(* lost nor doubled, and the pipeline is empty again before task 1's timer *)
(* fires: a second token would restart the delay of the first, or meet a   *)
(* flag that is already set, and be lost.  A torn access that lets task    *)
(* 1's timer fire too early does lose one that way.                        *)
(***************************************************************************)
OneTokenAtATime == ~torn => sent - reported = InFlight /\ InFlight <= 1

(* How often task 1's timer, the first of the table, has been restarted. *)
Restarts ==
  sent + ExpiriesWaiting(taskID_1) + One(Handles(taskID_1, "os_event_timer"))
       - One(pc = "rearm" /\ index = 0)

(***************************************************************************)
(* As long as no access to the counter has been torn, task 1's timer never *)
(* fires early, and since it is restarted from the counter it drifts, by   *)
(* less than the ticks of two passes per period.  A torn access may let it *)
(* fire early (TornCounter, NotEarly).                                     *)
(***************************************************************************)
PeriodKept ==
  LET drift == 2 * MaxTicksPerPass * OS_COUNTER_TIME
  IN  ~torn /\ os_timers[0].start_value # 0 =>
        /\ os_timers[0].start_value >= 1 + Restarts * Period
        /\ os_timers[0].start_value <= 1 + Restarts * (Period + drift) + drift

(***************************************************************************)
(* Every token is reported, unless an access to the counter is torn.  The  *)
(* clock of the model ends at MaxCounter, so this is asked of tokens sent  *)
(* early enough for the delay to run out.                                  *)
(***************************************************************************)
TokenReported ==
  /\ sent # reported
  /\ os_timer_counter + Delay + 3 * MaxTicksPerPass * OS_COUNTER_TIME <= MaxCounter
  ~> sent = reported \/ torn
=============================================================================
