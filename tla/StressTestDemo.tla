-------------------------- MODULE StressTestDemo ---------------------------
(***************************************************************************)
(* The sketch Task_scheduler_stress_test.ino on the kernel (its copy of    *)
(* scheduler.cpp differs from the other in one log line).  Two tasks share *)
(* the loop: BlinkingLED toggles the LED on a repeating timer, AnalogRead  *)
(* prints on a timer of the same period and computes in its idle event for *)
(* so long that a period may pass meanwhile.                               *)
(***************************************************************************)
EXTENDS Scheduler, FiniteSets

CONSTANTS Period,            \* 100 ms: both timers
          MaxTicksPerPass,   \* ticks during a pass, analog_function left out
          MaxTicksAnalog     \* ticks during one call of analog_function

ASSUME StressAssumption ==
  /\ OS_MAXIMUM_TASKS > 2
  /\ OS_MAXIMUM_TIMERS >= 2
  /\ TimerValue = {Period}
  /\ MaxTicksPerPass \in Nat
  /\ MaxTicksAnalog \in Nat

(* setup adds the tasks in this order; each learns its id in its init event. *)
blinkingLED_taskID == 0
AnalogRead_taskID  == 1

VARIABLES LED_Status,    \* BlinkingLED's static variable
          ticks,         \* ticks of this pass outside analog_function
          analogTicks,   \* ticks during this call of analog_function
          expiries,      \* expiries of the LED's timer (history)
          toggles        \* toggles of the LED (history)

vars == <<osVars, LED_Status, ticks, analogTicks, expiries, toggles>>

DemoInit ==
  /\ Init
  /\ LED_Status = FALSE
  /\ ticks = 0 /\ analogTicks = 0
  /\ expiries = 0 /\ toggles = 0

(* setup adds two tasks, then calls os_main. *)
AddTasks ==
  /\ pc = "setup" /\ os_latest_added_task < 2
  /\ os_add_task(TRUE)
  /\ UNCHANGED <<LED_Status, ticks, analogTicks, expiries, toggles>>

(* The interrupt may come in the middle of the access a step makes. *)
CountTick(ticksBefore) ==
  LET tick == os_timer_counter' # os_timer_counter
  IN  /\ tick => ticksBefore < MaxTicksPerPass
      /\ ticks' = IF tick THEN ticksBefore + 1 ELSE ticksBefore

(* A callback breaks out of its switch and returns os_task_succeed. *)
Succeed ==
  /\ Return("os_task_succeed")
  /\ UNCHANGED <<ticks, expiries>>

(* The init callbacks: subscribe, add a repeating timer and start it. *)
InitCallback(events) ==
  /\ os_task_admin' = [os_task_admin EXCEPT ![task_running].event_subscribe =
                         [e \in os_event_t |-> @[e] \/ e \in events]]
  /\ \E slot \in 0 .. OS_MAXIMUM_TIMERS :
       /\ IsFreeSlot(os_timers, slot)
       /\ Starts(TimerAdded(os_timers, slot, task_running, Period, "os_timer_repeat"),
                 slot)
       /\ os_error' = (os_error \/ slot = OS_MAXIMUM_TIMERS)
  /\ CountTick(ticks)
  /\ event' = "none"
  /\ returnValue' = "os_task_succeed"
  /\ UNCHANGED <<os_latest_added_task, task_running, msgVars, os_timer_pending_queue,
                 loopVars, LED_Status, analogTicks, expiries, toggles>>

LedInit ==
  /\ Handles(blinkingLED_taskID, "os_event_init")
  /\ InitCallback({"os_event_timer"})

AnalogInit ==
  /\ Handles(AnalogRead_taskID, "os_event_init")
  /\ InitCallback({"os_event_idle", "os_event_timer"})

LedTimer ==
  /\ Handles(blinkingLED_taskID, "os_event_timer")
  /\ LED_Status' = ~LED_Status
  /\ toggles' = toggles + 1
  /\ Succeed
  /\ UNCHANGED analogTicks

(* analog_function has run; what it computes nothing here depends on. *)
AnalogIdle ==
  /\ Handles(AnalogRead_taskID, "os_event_idle")
  /\ analogTicks' = 0
  /\ Succeed
  /\ UNCHANGED <<LED_Status, toggles>>

AnalogTimer ==
  /\ Handles(AnalogRead_taskID, "os_event_timer")
  /\ Succeed
  /\ UNCHANGED <<LED_Status, analogTicks, toggles>>

Tasks == LedInit \/ AnalogInit \/ LedTimer \/ AnalogIdle \/ AnalogTimer

LedTimerExpires == pc = "check" /\ pc' = "rearm" /\ os_timers[index].task_id = blinkingLED_taskID

Kernel ==
  /\ pc = "setup" => os_latest_added_task = 2
  /\ os_main
  /\ CountTick(IF pc = "loop" THEN 0 ELSE ticks)
  /\ expiries' = IF LedTimerExpires THEN expiries + 1 ELSE expiries
  /\ UNCHANGED <<LED_Status, analogTicks, toggles>>

(* The interrupt between two steps: during analog_function and elsewhere. *)
TickAnalog ==
  /\ Handles(AnalogRead_taskID, "os_event_idle")
  /\ analogTicks < MaxTicksAnalog
  /\ os_timer_count
  /\ analogTicks' = analogTicks + 1
  /\ UNCHANGED <<LED_Status, ticks, expiries, toggles>>

Tick ==
  /\ ~Handles(AnalogRead_taskID, "os_event_idle")
  /\ ticks < MaxTicksPerPass
  /\ os_timer_count
  /\ ticks' = ticks + 1
  /\ UNCHANGED <<LED_Status, analogTicks, expiries, toggles>>

Next == AddTasks \/ Tasks \/ Kernel \/ TickAnalog \/ Tick

Spec == DemoInit /\ [][Next]_vars

(* setup, the loop and the callbacks run on. *)
FairSpec == Spec /\ WF_vars(AddTasks) /\ WF_vars(Tasks) /\ WF_vars(Kernel)
-----------------------------------------------------------------------------
(* Expiries of task t that wait in the queue. *)
ExpiriesWaiting(t) ==
  LET q == os_timer_pending_queue
  IN  Cardinality({k \in 0 .. q.capacity - 1 :
                     k < q.currentSize /\ q.buffer[(q.out + k) % q.capacity] = t})

(***************************************************************************)
(* However long analog_function takes, expired timers do not pile up.  A   *)
(* pass hands out one expiry, and a long pass lets both timers expire; but *)
(* only every third pass is long, since the idle turn also visits the      *)
(* other task and the entry after the last.  At worst three expiries wait  *)
(* (both timers ran out before a long pass and again during it), which is  *)
(* within the queue, so none is ever lost.                                 *)
(***************************************************************************)
NoBacklog ==
  /\ ~os_error
  /\ os_timer_pending_queue.currentSize <= 3
  /\ \A t \in {blinkingLED_taskID, AnalogRead_taskID} : ExpiriesWaiting(t) <= 2

(***************************************************************************)
(* The LED toggles once per expiry of its timer: an expiry is waiting,     *)
(* being handled, or has toggled the LED, and the LED shows the parity.    *)
(***************************************************************************)
LedFollows ==
  /\ expiries = toggles + ExpiriesWaiting(blinkingLED_taskID)
                + (IF Handles(blinkingLED_taskID, "os_event_timer") THEN 1 ELSE 0)
  /\ LED_Status = (toggles % 2 = 1)

(* Every expiry of the LED's timer does toggle it. *)
LedServed == \A n \in 1 .. (MaxCounter \div Period) : expiries = n ~> toggles >= n
=============================================================================
