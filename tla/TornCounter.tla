---------------------------- MODULE TornCounter ----------------------------
(***************************************************************************)
(* os_timer_counter seen from the main loop.  It is a uint64_t on an 8-bit *)
(* machine: os_timer_start and the comparison in os_timer_check_timers     *)
(* load it byte by byte with interrupts enabled, and os_timer_count may    *)
(* run between two of the loads.  The order of the loads is the            *)
(* compiler's.  The module follows one repeating timer; Scheduler takes    *)
(* each access as one step, whose result is whole or torn as it is here.   *)
(***************************************************************************)
EXTENDS Integers, FiniteSets

CONSTANTS OS_COUNTER_TIME,   \* added by every interrupt; even (scheduler.h: 10)
          Byte,              \* 2^8: the values of a byte
          Bytes,             \* how many bytes the counter has
          value,             \* timer_value_ms of the timer
          MaxTicksPerAccess, \* ticks during one access, which takes microseconds
          MaxCounter         \* bound on the counter; none in the code

(* What a 1 counts in each byte: 1, 2^8, 2^16 and so on. *)
Weight[i \in 0 .. Bytes] == IF i = 0 THEN 1 ELSE Byte * Weight[i - 1]

(* 2^64 milliseconds do not pass. *)
ASSUME TornCounterAssumption ==
  /\ OS_COUNTER_TIME \in Nat \ {0} /\ OS_COUNTER_TIME % 2 = 0
  /\ Byte \in Nat \ {0} /\ Byte % 2 = 0
  /\ Bytes \in Nat \ {0}
  /\ value \in Nat \ {0}
  /\ MaxTicksPerAccess \in Nat
  /\ MaxCounter \in 1 .. Weight[Bytes] - 1

Positions == 0 .. Bytes - 1

VARIABLES os_timer_counter,
          start_value,     \* of the timer
          pc,              \* what the main loop does with the timer
          loaded,          \* the positions loaded so far
          copy,            \* the bytes loaded
          begun,           \* the counter when the access began (history)
          startedAt        \* the counter when os_timer_start began (history)

access == <<loaded, copy, begun>>
vars == <<os_timer_counter, start_value, pc, access, startedAt>>

(* Faulty variant: the counter starts at 0. *)
InitAtZero ==
  /\ os_timer_counter = 0
  /\ start_value = 0
  /\ pc = "stopped"
  /\ loaded = {} /\ copy = [i \in Positions |-> 0]
  /\ begun = 0 /\ startedAt = 0

(* os_timer_init: "start at one so zero can be used to disable timer". *)
Init ==
  /\ os_timer_counter = 1
  /\ start_value = 0
  /\ pc = "stopped"
  /\ loaded = {} /\ copy = [i \in Positions |-> 0]
  /\ begun = 1 /\ startedAt = 1

(* os_timer_count, in the interrupt: nothing comes between its bytes. *)
os_timer_count ==
  /\ os_timer_counter + OS_COUNTER_TIME <= MaxCounter
  /\ pc \in {"start", "check"} =>
       os_timer_counter - begun < MaxTicksPerAccess * OS_COUNTER_TIME
  /\ os_timer_counter' = os_timer_counter + OS_COUNTER_TIME
  /\ UNCHANGED <<start_value, pc, access, startedAt>>

ByteAt(n, i) == (n \div Weight[i]) % Byte

(* Faulty variant: the copy has one byte less than the counter. *)
Narrow[i \in 0 .. Bytes] ==
  IF i <= 1 THEN 0 ELSE Narrow[i - 1] + copy[i - 2] * Weight[i - 2]

AssembledNarrow == Narrow[Bytes]

(* The number whose bytes are in copy. *)
Assemble[i \in 0 .. Bytes] ==
  IF i = 0 THEN 0 ELSE Assemble[i - 1] + copy[i - 1] * Weight[i - 1]

Assembled == Assemble[Bytes]

BeginAccess(purpose) ==
  /\ pc' = purpose
  /\ loaded' = {}
  /\ copy' = [i \in Positions |-> 0]
  /\ begun' = os_timer_counter

(* The task starts its timer, or the expired timer is restarted. *)
BeginStart ==
  /\ pc \in {"stopped", "expired"}
  /\ BeginAccess("start")
  /\ startedAt' = os_timer_counter
  /\ UNCHANGED <<os_timer_counter, start_value>>

BeginCheck ==
  /\ pc = "running"
  /\ BeginAccess("check")
  /\ UNCHANGED <<os_timer_counter, start_value, startedAt>>

LoadByte(i) ==
  /\ pc \in {"start", "check"}
  /\ i \notin loaded
  /\ loaded' = loaded \cup {i}
  /\ copy' = [copy EXCEPT ![i] = ByteAt(os_timer_counter, i)]
  /\ UNCHANGED <<os_timer_counter, start_value, pc, begun, startedAt>>

EndStart ==
  /\ pc = "start" /\ loaded = Positions
  /\ start_value' = Assembled
  /\ pc' = "running"
  /\ UNCHANGED <<os_timer_counter, access, startedAt>>

(* A start_value of 0 is a stopped timer and is not compared. *)
EndCheck ==
  /\ pc = "check" /\ loaded = Positions
  /\ pc' = IF start_value > 0 /\ Assembled >= start_value + value
           THEN "expired" ELSE "running"
  /\ UNCHANGED <<os_timer_counter, start_value, access, startedAt>>

Loop == BeginStart \/ BeginCheck \/ (\E i \in Positions : LoadByte(i)) \/ EndStart \/ EndCheck

Next == Loop \/ os_timer_count

Spec == Init /\ [][Next]_vars

-----------------------------------------------------------------------------
(***************************************************************************)
(* A started timer never looks stopped, torn access or not: the counter    *)
(* is odd, so its lowest byte is, so whatever is read is not 0.            *)
(***************************************************************************)
StartNonZero == pc \in {"running", "check"} => start_value # 0

(* The values the counter has had since the access began. *)
Meanwhile == {n \in begun .. os_timer_counter : (n - begun) % OS_COUNTER_TIME = 0}

(***************************************************************************)
(* An access is exact to the tick unless a carry left the lowest byte      *)
(* while it lasted: then the value read is one the counter had meanwhile.  *)
(***************************************************************************)
ExactWithoutCarry ==
  /\ pc \in {"start", "check"}
  /\ loaded = Positions
  /\ begun \div Byte = os_timer_counter \div Byte
  => Assembled \in Meanwhile

(***************************************************************************)
(* With a carry the value read may be off in both directions, but by less  *)
(* than the weight of the highest byte the carry changed: if the bytes     *)
(* above position i stay the same, it is less than the weight of i behind  *)
(* the counter when the access began, or ahead of the counter now.         *)
(***************************************************************************)
OffByLessThanCarry ==
  /\ pc \in {"start", "check"}
  /\ loaded = Positions
  => \A i \in Positions :
       begun \div Weight[i + 1] = os_timer_counter \div Weight[i + 1]
         => /\ begun < Assembled + Weight[i]
            /\ Assembled < os_timer_counter + Weight[i]

(***************************************************************************)
(* What the sketches expect: "Create timer for 1 seconds = 1000            *)
(* milliseconds" (Task_scheduler.ino:144), so no expiry before that.       *)
(***************************************************************************)
NotEarly == pc = "expired" => os_timer_counter - startedAt >= value
=============================================================================
