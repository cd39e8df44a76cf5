-------------------------- MODULE Scheduler_proofs -------------------------
(***************************************************************************)
(* What the kernel's own steps and the operators of its API preserve,      *)
(* whatever the callbacks are; shared by the proofs about AnyTasks and     *)
(* about the sketch.                                                       *)
(***************************************************************************)
EXTENDS Scheduler, TLAPS
-----------------------------------------------------------------------------
(* Facts about the remainder. *)

Divides(c, m) == m % c = 0

(* Below twice the capacity, % subtracts the capacity at most once. *)
LEMMA ModOnce ==
  ASSUME NEW c \in Nat \ {0}, NEW a \in 0 .. 2 * c - 1
  PROVE  a % c = IF a < c THEN a ELSE a - c
  OBVIOUS

(* An index is its own remainder. *)
LEMMA ModSmall ==
  ASSUME NEW c \in Nat \ {0}, NEW a \in 0 .. c - 1
  PROVE  a % c = a /\ (a + 0) % c = a /\ (a + c) % c = a
  OBVIOUS

(* A remainder is an index. *)
LEMMA ModRange ==
  ASSUME NEW c \in Nat \ {0}, NEW a \in Nat
  PROVE  a % c \in 0 .. c - 1
  OBVIOUS

(* ... and not more than what it is the remainder of. *)
LEMMA ModAtMost ==
  ASSUME NEW c \in Nat \ {0}, NEW a \in Nat
  PROVE  a % c <= a
  OBVIOUS

(* A remainder is recognised by any quotient it comes with. *)
LEMMA ModUnique ==
  ASSUME NEW c \in Nat \ {0}, NEW q \in Nat, NEW r \in 0 .. c - 1
  PROVE  (c * q + r) % c = r
  OBVIOUS

(* Quotient and remainder of Euclidean division. *)
LEMMA ModSplit ==
  ASSUME NEW c \in Nat \ {0}, NEW a \in Nat
  PROVE  \E q \in Nat : a = c * q + (a % c)
<1>1. a \div c \in Nat /\ a = c * (a \div c) + (a % c)
  OBVIOUS
<1> QED
  BY <1>1

(* The remainder may be taken before or after adding. *)
LEMMA ModAdd ==
  ASSUME NEW c \in Nat \ {0}, NEW a \in Nat, NEW b \in Nat
  PROVE  ((a % c) + b) % c = (a + b) % c
<1>1. PICK q \in Nat : a = c * q + (a % c)
  BY ModSplit
<1>2. PICK p \in Nat : (a % c) + b = c * p + (((a % c) + b) % c)
  <2>1. (a % c) + b \in Nat
    BY ModRange
  <2> QED
    BY <2>1, ModSplit
<1> DEFINE r == ((a % c) + b) % c
<1>3. r \in 0 .. c - 1
  <2>1. (a % c) + b \in Nat
    BY ModRange
  <2> QED
    BY <2>1, ModRange
<1>4. a % c \in Nat
  BY ModRange
<1>5. a + b = c * (q + p) + r
  <2> HIDE DEF r
  <2>1. (a % c) + b = c * p + r
    BY <1>2 DEF r
  <2> QED
    BY <1>1, <2>1, <1>3, <1>4
<1>6. (c * (q + p) + r) % c = r
  <2> HIDE DEF r
  <2> QED
    BY <1>3, ModUnique
<1> QED
  BY <1>5, <1>6

(* A multiple of the modulus does not move an index. *)
LEMMA ModBase ==
  ASSUME NEW c \in Nat \ {0}, NEW a \in 0 .. c - 1, NEW m \in Nat, m % c = 0
  PROVE  (a + m) % c = a
  OBVIOUS
-----------------------------------------------------------------------------
(* The queue. *)

(* The fields of a queue record, one by one. *)
LEMMA QueueFields ==
  ASSUME NEW S, NEW C \in Nat \ {0}, NEW q \in QueueOf(S, C)
  PROVE  /\ q.buffer \in [0 .. C - 1 -> S]
         /\ q.capacity = C
         /\ q.currentSize \in 0 .. UINT16_MOD - 1
         /\ q.in \in 0 .. C - 1
         /\ q.out \in 0 .. C - 1
  BY DEF QueueOf

(* Advancing an index keeps it inside the buffer. *)
LEMMA NextIndex ==
  ASSUME NEW c \in Nat \ {0}, NEW i \in 0 .. c - 1
  PROVE  (i + 1) % c \in 0 .. c - 1
<1>1. i + 1 \in Nat
  OBVIOUS
<1> QED
  BY <1>1, ModRange

(* The fields after an addition, and that it stays a queue. *)
LEMMA AddQueue ==
  ASSUME NEW S, NEW C \in Nat \ {0}, UINT16_MOD \in Nat \ {0},
         NEW q \in QueueOf(S, C), NEW e \in S
  PROVE  /\ os_queue_add(q, e) \in QueueOf(S, C)
         /\ os_queue_add(q, e).currentSize = (q.currentSize + 1) % UINT16_MOD
         /\ os_queue_add(q, e).in = (q.in + 1) % C
         /\ os_queue_add(q, e).out = q.out
<1>1. (q.in + 1) % C \in 0 .. C - 1
  BY QueueFields, NextIndex
<1>2. (q.currentSize + 1) % UINT16_MOD \in 0 .. UINT16_MOD - 1
  BY QueueFields, NextIndex
<1> DEFINE i == (q.in + 1) % C
           n == (q.currentSize + 1) % UINT16_MOD
<1>3. os_queue_add(q, e) = [q EXCEPT !.buffer[q.in] = e, !.currentSize = n, !.in = i]
  BY QueueFields DEF os_queue_add
<1> HIDE DEF i, n
<1>4. i \in 0 .. C - 1 /\ n \in 0 .. UINT16_MOD - 1
  BY <1>1, <1>2 DEF i, n
<1>5. [q EXCEPT !.buffer[q.in] = e, !.currentSize = n, !.in = i] \in QueueOf(S, C)
  BY <1>4 DEF QueueOf
<1> QED
  BY <1>3, <1>5 DEF QueueOf, i, n

(* Only the slot at `in` is written. *)
LEMMA AddSlot ==
  ASSUME NEW S, NEW C \in Nat \ {0}, NEW q \in QueueOf(S, C), NEW e \in S,
         NEW slot \in 0 .. C - 1
  PROVE  os_queue_add(q, e).buffer[slot] = IF slot = q.in THEN e ELSE q.buffer[slot]
  BY QueueFields DEF os_queue_add, QueueOf

(* The fields after a removal from a queue that is not empty. *)
LEMMA RemoveQueue ==
  ASSUME NEW S, NEW C \in Nat \ {0}, UINT16_MOD \in Nat \ {0},
         NEW q \in QueueOf(S, C), ~os_queue_isEmpty(q)
  PROVE  /\ os_queue_remove(q) \in QueueOf(S, C)
         /\ os_queue_remove(q).buffer = q.buffer
         /\ os_queue_remove(q).currentSize = q.currentSize - 1
         /\ os_queue_remove(q).in = q.in
         /\ os_queue_remove(q).out = (q.out + 1) % C
<1>1. (q.out + 1) % C \in 0 .. C - 1
  BY QueueFields, NextIndex
<1> DEFINE o == (q.out + 1) % C
<1>2. os_queue_remove(q) = [q EXCEPT !.currentSize = q.currentSize - 1, !.out = o]
  BY QueueFields DEF os_queue_remove
<1> HIDE DEF o
<1>3. o \in 0 .. C - 1
  BY <1>1 DEF o
<1>4. q.currentSize - 1 \in 0 .. UINT16_MOD - 1
  BY QueueFields DEF os_queue_isEmpty
<1> QED
  BY <1>2, <1>3, <1>4 DEF QueueOf, o

(* What a removal hands out is one of the queue's elements. *)
LEMMA FrontElement ==
  ASSUME NEW S, NEW C \in Nat \ {0}, NEW q \in QueueOf(S, C)
  PROVE  os_queue_front(q) \in S
  BY QueueFields DEF os_queue_front
-----------------------------------------------------------------------------
(* Index arithmetic: adding moves `in` as it moves the end of the queue,   *)
(* also when the count wraps to zero.                                      *)
LEMMA AddInStep ==
  ASSUME UINT16_MOD \in Nat \ {0}, NEW C \in Nat \ {0}, Divides(C, UINT16_MOD),
         NEW out \in 0 .. C - 1, NEW n \in 0 .. UINT16_MOD - 1
  PROVE  (((out + n) % C) + 1) % C
           = (out + ((n + 1) % UINT16_MOD)) % C
<1>1. (((out + n) % C) + 1) % C = (out + n + 1) % C
  <2>1. out + n \in Nat
    OBVIOUS
  <2> QED
    BY <2>1, ModAdd
<1>2. CASE n + 1 < UINT16_MOD
  <2>1. n + 1 \in 0 .. 2 * UINT16_MOD - 1
    BY <1>2
  <2>2. (n + 1) % UINT16_MOD = n + 1
    BY <1>2, <2>1, ModOnce
  <2> QED
    BY <1>1, <2>2
<1>3. CASE n + 1 = UINT16_MOD
  <2>1. (n + 1) % UINT16_MOD = 0
    BY <1>3
  <2>2. (out + UINT16_MOD) % C = out
    BY ModBase DEF Divides
  <2>3. out % C = out
    BY ModSmall
  <2> QED
    BY <1>1, <1>3, <2>1, <2>2, <2>3
<1> QED
  BY <1>2, <1>3

(* Removing moves `out` towards `in` by one. *)
LEMMA RemoveInStep ==
  ASSUME UINT16_MOD \in Nat \ {0}, NEW C \in Nat \ {0},
         NEW out \in 0 .. C - 1, NEW n \in 1 .. UINT16_MOD - 1
  PROVE  (out + n) % C = (((out + 1) % C) + (n - 1)) % C
<1> DEFINE a == out + 1
           b == n - 1
<1>1. a \in Nat /\ b \in Nat /\ a + b = out + n
  OBVIOUS
<1>2. ((a % C) + b) % C = (a + b) % C
  <2> HIDE DEF a, b
  <2> QED
    BY <1>1, ModAdd
<1> QED
  BY <1>1, <1>2

(* Then `in` is where the queue ends. *)
InStep(q) == q.in = (q.out + q.currentSize) % q.capacity

(* What waits after an addition waited before, or is the new element. *)
LEMMA AddWaiting ==
  ASSUME UINT16_MOD \in Nat \ {0}, NEW S, NEW C \in Nat \ {0}, Divides(C, UINT16_MOD),
         NEW q \in QueueOf(S, C), InStep(q), NEW e \in S
  PROVE  /\ InStep(os_queue_add(q, e))
         /\ Waiting(os_queue_add(q, e)) \subseteq Waiting(q) \cup {e}
<1> DEFINE r == os_queue_add(q, e)
           n == q.currentSize
           out == q.out
           in == q.in
<1>1. /\ r \in QueueOf(S, C)
      /\ r.out = out
      /\ r.currentSize = (n + 1) % UINT16_MOD
      /\ r.in = (in + 1) % C
  <2>1. r \in QueueOf(S, C)
    BY AddQueue
  <2>2. /\ os_queue_add(q, e).out = q.out
        /\ os_queue_add(q, e).currentSize = (q.currentSize + 1) % UINT16_MOD
        /\ os_queue_add(q, e).in = (q.in + 1) % C
    BY QueueFields DEF os_queue_add, QueueOf
  <2> QED
    BY <2>1, <2>2
<1>2. r.capacity = C
  BY <1>1, QueueFields
<1>3. \A slot \in 0 .. C - 1 : slot # in => r.buffer[slot] = q.buffer[slot]
  BY AddSlot
<1>4. in \in 0 .. C - 1 /\ r.buffer[in] = e
  BY AddSlot, QueueFields
<1>5. q.capacity = C /\ out \in 0 .. C - 1 /\ n \in 0 .. UINT16_MOD - 1
  BY QueueFields
<1>6. in = (out + n) % C
  BY <1>5 DEF InStep
<1> HIDE DEF r, n, out, in
<1>7. InStep(r)
  <2>1. (((out + n) % C) + 1) % C = (out + ((n + 1) % UINT16_MOD)) % C
    BY <1>5, AddInStep
  <2> QED
    BY <1>1, <1>2, <1>6, <2>1 DEF InStep
<1>8. Waiting(r) \subseteq Waiting(q) \cup {e}
  <2> SUFFICES ASSUME NEW k \in 0 .. C - 1, k < (n + 1) % UINT16_MOD
               PROVE  r.buffer[(out + k) % C] \in Waiting(q) \cup {e}
    BY <1>1, <1>2 DEF Waiting
  <2> DEFINE slot == (out + k) % C
  <2>1. slot \in 0 .. C - 1
    <3>1. out + k \in Nat
      BY <1>5
    <3> QED
      BY <3>1, ModRange
  <2>2. CASE slot = in
    BY <1>4, <2>2
  <2>3. CASE slot # in
    <3>1. k # n
      BY <1>6, <2>3
    <3>2. k < n + 1
      <4> DEFINE m == n + 1
      <4>1. m \in Nat
        BY <1>5
      <4> HIDE DEF m, slot
      <4>2. m % UINT16_MOD <= m /\ m % UINT16_MOD \in 0 .. UINT16_MOD - 1
        BY <4>1, ModAtMost, ModRange
      <4>3. k < m % UINT16_MOD
        BY DEF m
      <4>4. k < m
        BY <4>1, <4>2, <4>3
      <4> QED
        BY <4>4 DEF m
    <3>3. k < n
      BY <1>5, <3>1, <3>2
    <3>4. q.buffer[slot] \in Waiting(q)
      BY <1>5, <3>3 DEF Waiting, n, out
    <3> QED
      BY <1>3, <2>1, <2>3, <3>4
  <2> QED
    BY <2>2, <2>3
<1> QED
  BY <1>7, <1>8 DEF r

(* What waits after a removal waited before. *)
LEMMA RemoveWaiting ==
  ASSUME UINT16_MOD \in Nat \ {0}, NEW S, NEW C \in Nat \ {0},
         NEW q \in QueueOf(S, C), InStep(q), ~os_queue_isEmpty(q)
  PROVE  /\ InStep(os_queue_remove(q))
         /\ Waiting(os_queue_remove(q)) \subseteq Waiting(q)
<1> DEFINE r == os_queue_remove(q)
           n == q.currentSize
           out == q.out
<1>1. /\ r \in QueueOf(S, C) /\ r.buffer = q.buffer
      /\ r.currentSize = n - 1 /\ r.in = q.in /\ r.out = (out + 1) % C
  BY RemoveQueue
<1>2. r.capacity = C
  BY <1>1, QueueFields
<1>3. q.capacity = C /\ out \in 0 .. C - 1 /\ n \in 1 .. UINT16_MOD - 1
  BY QueueFields DEF os_queue_isEmpty
<1>4. q.in = (out + n) % C
  BY <1>3 DEF InStep
<1> HIDE DEF r, n, out
<1>5. InStep(r)
  <2>1. (out + n) % C = (((out + 1) % C) + (n - 1)) % C
    BY <1>3, RemoveInStep
  <2> QED
    BY <1>1, <1>2, <1>4, <2>1 DEF InStep
<1>6. Waiting(r) \subseteq Waiting(q)
  <2> SUFFICES ASSUME NEW k \in 0 .. C - 1, k < n - 1
               PROVE  q.buffer[(((out + 1) % C) + k) % C] \in Waiting(q)
    BY <1>1, <1>2 DEF Waiting
  <2>1. (((out + 1) % C) + k) % C = (out + (k + 1)) % C
    <3> DEFINE a == out + 1
    <3>1. a \in Nat /\ k \in Nat /\ a + k = out + (k + 1)
      BY <1>3
    <3>2. ((a % C) + k) % C = (a + k) % C
      <4> HIDE DEF a
      <4> QED
        BY <3>1, ModAdd
    <3> QED
      BY <3>1, <3>2
  <2>2. \A j \in 0 .. C - 1 : j < n => q.buffer[(out + j) % C] \in Waiting(q)
    BY <1>3 DEF Waiting, n, out
  <2>3. CASE k + 1 \in 0 .. C - 1
    <3>1. k + 1 < n
      BY <1>3
    <3>2. q.buffer[(out + (k + 1)) % C] \in Waiting(q)
      BY <2>2, <2>3, <3>1
    <3> QED
      BY <2>1, <3>2
  <2>4. CASE k + 1 = C
    <3>1. (out + (k + 1)) % C = (out + 0) % C
      BY <1>3, <2>4, ModSmall
    <3>2. 0 \in 0 .. C - 1 /\ 0 < n
      BY <1>3
    <3>3. q.buffer[(out + 0) % C] \in Waiting(q)
      BY <2>2, <3>2
    <3> QED
      BY <2>1, <3>1, <3>3
  <2> QED
    BY <2>3, <2>4
<1> QED
  BY <1>5, <1>6 DEF r
-----------------------------------------------------------------------------
(* The constants, as the proofs use them. *)
LEMMA Sizes ==
  /\ OS_MAXIMUM_TASKS \in Nat \ {0}
  /\ OS_MSG_QUEUE_SIZE \in Nat \ {0}
  /\ OS_MAXIMUM_TIMERS \in Nat \ {0}
  /\ OS_COUNTER_TIME \in Nat \ {0}
  /\ UINT16_MOD \in Nat \ {0}
  /\ ZeroMsg \in Msg
  /\ TimerValue \subseteq Nat
  /\ UINT64_MOD \in Nat \ {0}
  /\ MaxCounter \in Nat \ {0}
  /\ MaxCounter < UINT64_MOD
  BY SchedulerAssumption

(* The queue os_queue_init makes. *)
LEMMA InitQueue ==
  ASSUME NEW S, NEW C \in Nat \ {0}, NEW zero \in S
  PROVE  os_queue_init(C, zero) \in QueueOf(S, C)
  BY Sizes DEF os_queue_init, QueueOf

-----------------------------------------------------------------------------
(* Types of the data operators of the API. *)

LEMMA SubscribedType ==
  ASSUME NEW admin \in [TaskIds -> os_task_admin_t], NEW e \in os_event_t, NEW t
  PROVE  Subscribed(admin, e, t) \in [TaskIds -> os_task_admin_t]
  BY DEF Subscribed, os_task_admin_t

(* A table in which one entry is replaced by a timer, or none is. *)
LEMMA TimersExcept ==
  ASSUME NEW timers \in [TimerIds -> os_timer_t], NEW id,
         NEW entry, id \in TimerIds => entry \in os_timer_t
  PROVE  [timers EXCEPT ![id] = entry] \in [TimerIds -> os_timer_t]
  OBVIOUS

LEMMA TimerAddedType ==
  ASSUME NEW timers \in [TimerIds -> os_timer_t], NEW slot, NEW t \in os_task_id_t,
         NEW value \in TimerValue, NEW type \in {"os_timer_repeat", "os_timer_one_shot"}
  PROVE  TimerAdded(timers, slot, t, value, type) \in [TimerIds -> os_timer_t]
<1> DEFINE entry == [task_id |-> t, type |-> type, value |-> value, used |-> TRUE,
                     start_value |-> timers[slot].start_value]
<1>1. slot \in TimerIds => entry \in os_timer_t
  BY DEF os_timer_t
<1>2. TimerAdded(timers, slot, t, value, type) \in {timers, [timers EXCEPT ![slot] = entry]}
  BY DEF TimerAdded
<1> HIDE DEF entry
<1> QED
  BY <1>1, <1>2, TimersExcept

LEMMA StartValueSetType ==
  ASSUME NEW timers \in [TimerIds -> os_timer_t], NEW id,
         NEW n \in 0 .. UINT64_MOD - 1
  PROVE  StartValueSet(timers, id, n) \in [TimerIds -> os_timer_t]
<1> DEFINE entry == [timers[id] EXCEPT !.start_value = n]
<1>1. id \in TimerIds => entry \in os_timer_t
  BY DEF os_timer_t
<1>2. StartValueSet(timers, id, n) \in {timers, [timers EXCEPT ![id] = entry]}
  BY DEF StartValueSet
<1> HIDE DEF entry
<1> QED
  BY <1>1, <1>2, TimersExcept

LEMMA ValueSetType ==
  ASSUME NEW timers \in [TimerIds -> os_timer_t], NEW id, NEW value \in TimerValue
  PROVE  ValueSet(timers, id, value) \in [TimerIds -> os_timer_t]
<1> DEFINE entry == [timers[id] EXCEPT !.value = value]
<1>1. id \in TimerIds => entry \in os_timer_t
  BY DEF os_timer_t
<1>2. ValueSet(timers, id, value) \in {timers, [timers EXCEPT ![id] = entry]}
  BY DEF ValueSet
<1> HIDE DEF entry
<1> QED
  BY <1>1, <1>2, TimersExcept

(* What os_run_task leaves in the variables it changes. *)
LEMMA RunType ==
  ASSUME TypeOK, NEW task_id, NEW e \in os_event_t, os_run_task(task_id, e)
  PROVE  /\ task_running' \in os_task_id_t
         /\ event' \in {e, event}
         /\ returnValue' \in os_task_return_codes_t
<1>1. CASE Registered(task_id, e) /\ HasCallback(task_id) /\ Enter(task_id, e)
  BY <1>1, Sizes DEF Registered, Enter, TypeOK, TaskIds, os_task_id_t
<1>2. CASE Refuse("os_task_failed") \/ Refuse("os_task_not_registerd")
  BY <1>2 DEF Refuse, TypeOK, os_task_return_codes_t
<1> QED
  BY <1>1, <1>2 DEF os_run_task

-----------------------------------------------------------------------------
(* What os_init leaves is of the kernel's types. *)
LEMMA KernelTypeInit == Init => TypeOK
<1> SUFFICES ASSUME Init
             PROVE  TypeOK
  OBVIOUS
<1> USE Sizes DEF Init
<1>1. ZeroEntry \in os_msg_queue_entry_t
  BY DEF ZeroEntry, os_msg_queue_entry_t, os_task_id_t
<1>2. /\ os_msg_buffer \in QueueOf(os_msg_queue_entry_t, OS_MSG_QUEUE_SIZE)
      /\ msg_pending \in os_msg_queue_entry_t
  BY <1>1, InitQueue DEF os_msg_init
<1>3. 0 \in os_task_id_t /\ OS_MAXIMUM_TASKS \in os_task_id_t
  BY DEF os_task_id_t
<1>4. os_timer_pending_queue \in QueueOf(os_task_id_t, OS_MAXIMUM_TIMERS)
  BY <1>3, InitQueue DEF os_timer_init
<1>5. os_timers \in [TimerIds -> os_timer_t]
  BY <1>3 DEF os_timer_init, os_timer_t
<1>6. /\ os_task_admin \in [TaskIds -> os_task_admin_t]
      /\ os_latest_added_task \in os_task_id_t
      /\ task_running \in os_task_id_t
  BY <1>3 DEF os_task_init, os_task_admin_t
<1>7. os_timer_counter \in 0 .. MaxCounter
  BY DEF os_timer_init
<1> QED
  BY <1>2, <1>3, <1>4, <1>5, <1>6, <1>7 DEF TypeOK, os_task_return_codes_t

-----------------------------------------------------------------------------
(* Every call and every step of the kernel keeps the types. *)

LEMMA TypeAddTask ==
  ASSUME TypeOK, NEW task_cb \in BOOLEAN, os_add_task(task_cb)
  PROVE  TypeOK'
<1> USE Sizes
<1>1. /\ os_error' \in BOOLEAN
      /\ os_task_admin' \in [TaskIds -> os_task_admin_t]
      /\ os_latest_added_task' \in os_task_id_t
  <2>1. CASE os_task_admin[os_latest_added_task].task_cb
    BY <2>1 DEF os_add_task, TypeOK, taskVars
  <2>2. CASE ~os_task_admin[os_latest_added_task].task_cb
    <3> DEFINE admin == Subscribed(os_task_admin, "os_event_init", os_latest_added_task)
    <3>1. admin \in [TaskIds -> os_task_admin_t]
      BY SubscribedType DEF TypeOK, os_event_t
    <3>2. os_task_admin' = [admin EXCEPT ![os_latest_added_task].task_cb = task_cb]
      BY <2>2 DEF os_add_task
    <3> HIDE DEF admin
    <3>3. os_task_admin' \in [TaskIds -> os_task_admin_t]
      BY <3>1, <3>2 DEF os_task_admin_t
    <3>4. os_latest_added_task' \in os_task_id_t
      BY <2>2 DEF os_add_task, TypeOK, os_task_id_t
    <3>5. os_error' \in BOOLEAN
      BY <2>2, ZenonT(30) DEF os_add_task, TypeOK
    <3> QED
      BY <3>3, <3>4, <3>5
  <2> QED
    BY <2>1, <2>2
<1>2. UNCHANGED <<runVars, msgVars, timerVars, os_timer_counter, loopVars>>
  BY DEF os_add_task
<1> QED
  BY <1>1, <1>2 DEF TypeOK, runVars, msgVars, timerVars, loopVars

(* A tick keeps the counter in its range, alone or in an access. *)
LEMMA TypeTicks ==
  ASSUME os_timer_counter \in 0 .. MaxCounter, Ticks
  PROVE  os_timer_counter' \in 0 .. MaxCounter
  BY Sizes DEF Ticks

LEMMA TypeReads ==
  ASSUME os_timer_counter \in 0 .. MaxCounter, NEW n, Reads(n)
  PROVE  os_timer_counter' \in 0 .. MaxCounter
  BY TypeTicks DEF Reads

LEMMA TypeStarts ==
  ASSUME NEW timers \in [TimerIds -> os_timer_t], NEW id,
         os_timer_counter \in 0 .. MaxCounter, Starts(timers, id)
  PROVE  /\ os_timers' \in [TimerIds -> os_timer_t]
         /\ os_timer_counter' \in 0 .. MaxCounter
<1>1. CASE timers[id].used
  <2>1. PICK n \in 0 .. UINT64_MOD - 1 :
          Reads(n) /\ os_timers' = StartValueSet(timers, id, n)
    BY <1>1 DEF Starts
  <2> QED
    BY <2>1, TypeReads, StartValueSetType
<1>2. CASE ~timers[id].used
  BY <1>2 DEF Starts
<1> QED
  BY <1>1, <1>2

LEMMA TypeTimerCount ==
  ASSUME TypeOK, os_timer_count
  PROVE  TypeOK'
<1>1. os_timer_counter' \in 0 .. MaxCounter
  BY TypeTicks DEF os_timer_count, TypeOK
<1> QED
  BY <1>1 DEF os_timer_count, TypeOK, taskVars, runVars, msgVars, timerVars, loopVars

(* The steps that only move the loop on, or run a task for an event. *)
LEMMA TypeMain ==
  ASSUME TypeOK,
         StartMain \/ InitTask \/ InitDone \/ LeaveMain \/ CheckDone \/ IdleStage
  PROVE  TypeOK'
<1> USE Sizes DEF TypeOK, taskVars, msgVars, timerVars
<1>1. CASE StartMain \/ InitDone \/ LeaveMain \/ CheckDone
  BY <1>1 DEF StartMain, InitDone, LeaveMain, CheckDone, runVars
<1>2. CASE InitTask
  <2>1. /\ task_running' \in os_task_id_t
        /\ event' \in os_event_t \cup {"none"}
        /\ returnValue' \in os_task_return_codes_t
    BY <1>2, RunType DEF InitTask, os_event_t
  <2> QED
    BY <1>2, <2>1 DEF InitTask
<1>3. CASE IdleStage
  <2>1. NextIdle \in os_task_id_t
    BY DEF NextIdle, os_task_id_t
  <2>2. /\ task_running' \in os_task_id_t
        /\ event' \in os_event_t \cup {"none"}
        /\ returnValue' \in os_task_return_codes_t
    BY <1>3, RunType DEF IdleStage, os_event_t
  <2> QED
    BY <1>3, <2>1, <2>2 DEF IdleStage
<1> QED
  BY <1>1, <1>2, <1>3

LEMMA TypeMsgStage ==
  ASSUME TypeOK, MsgStage
  PROVE  TypeOK'
<1> USE Sizes
<1>1. CASE os_queue_isEmpty(os_msg_buffer)
  BY <1>1 DEF MsgStage, TypeOK, runVars, msgVars, taskVars, timerVars
<1>2. CASE ~os_queue_isEmpty(os_msg_buffer)
  <2>1. os_msg_buffer' \in QueueOf(os_msg_queue_entry_t, OS_MSG_QUEUE_SIZE)
    BY <1>2, RemoveQueue DEF MsgStage, TypeOK
  <2>2. msg_pending' \in os_msg_queue_entry_t
    BY <1>2, FrontElement DEF MsgStage, TypeOK
  <2>3. DispatchMsg(msg_pending')
    BY <1>2 DEF MsgStage
  <2>4. /\ task_running' \in os_task_id_t
        /\ event' \in os_event_t \cup {"none"}
        /\ returnValue' \in os_task_return_codes_t
    <3>1. CASE UNCHANGED runVars
      BY <3>1 DEF runVars, TypeOK
    <3>2. CASE os_run_task(msg_pending'.destination, "os_event_msg_pending")
      BY <3>2, RunType DEF os_event_t, TypeOK
    <3> QED
      BY <2>3, <3>1, <3>2 DEF DispatchMsg
  <2> QED
    BY <2>1, <2>2, <2>4 DEF MsgStage, TypeOK, taskVars, timerVars
<1> QED
  BY <1>1, <1>2

(* The pending queue, the counter and the loop after a check of a timer. *)
LEMMA CheckTimerOutcome ==
  ASSUME CheckTimer
  PROVE  /\ QueueOwner \/ PassTimer
         /\ UNCHANGED os_timer_counter \/ \E now : Reads(now)
         /\ UNCHANGED <<os_error, taskVars, runVars, msgVars, os_timers, last_checked_task_id>>
  BY DEF CheckTimer

LEMMA TypeTimers ==
  ASSUME TypeOK, CheckTimer \/ RearmTimer
  PROVE  TypeOK'
<1> USE Sizes
<1>1. CASE CheckTimer
  <2>1. os_timer_counter' \in 0 .. MaxCounter
    BY <1>1, CheckTimerOutcome, TypeReads DEF TypeOK
  <2>2. UNCHANGED <<os_error, taskVars, runVars, msgVars, os_timers, last_checked_task_id>>
    BY <1>1, CheckTimerOutcome
  <2>3. CASE QueueOwner
    <3>1. os_timers[index].task_id \in os_task_id_t
      BY <1>1 DEF CheckTimer, TypeOK, os_timer_t
    <3>2. os_timer_pending_queue' \in QueueOf(os_task_id_t, OS_MAXIMUM_TIMERS)
      BY <2>3, <3>1, AddQueue DEF QueueOwner, TypeOK
    <3> QED
      BY <2>1, <2>2, <2>3, <3>2 DEF QueueOwner, TypeOK, taskVars, runVars, msgVars
  <2>4. CASE PassTimer
    BY <2>1, <2>2, <2>4 DEF PassTimer, TypeOK, taskVars, runVars, msgVars
  <2> QED
    BY <1>1, <2>3, <2>4, CheckTimerOutcome
<1>2. CASE RearmTimer
  <2>1. /\ os_timers' \in [TimerIds -> os_timer_t]
        /\ os_timer_counter' \in 0 .. MaxCounter
    <3>1. CASE Starts(os_timers, index)
      BY <3>1, TypeStarts DEF TypeOK
    <3>2. CASE os_timers' = StartValueSet(os_timers, index, 0) /\ UNCHANGED os_timer_counter
      BY <3>2, StartValueSetType DEF TypeOK
    <3> QED
      BY <1>2, <3>1, <3>2 DEF RearmTimer
  <2> QED
    BY <1>2, <2>1 DEF RearmTimer, TypeOK, taskVars, runVars, msgVars
<1> QED
  BY <1>1, <1>2

LEMMA TypeTimerStage ==
  ASSUME TypeOK, TimerStage
  PROVE  TypeOK'
<1> USE Sizes
<1>1. CASE os_queue_isEmpty(os_timer_pending_queue)
  BY <1>1 DEF TimerStage, TypeOK, runVars, taskVars, msgVars
<1>2. CASE ~os_queue_isEmpty(os_timer_pending_queue)
  <2> DEFINE owner == os_queue_front(os_timer_pending_queue)
  <2>1. os_timer_pending_queue' \in QueueOf(os_task_id_t, OS_MAXIMUM_TIMERS)
    BY <1>2, RemoveQueue DEF TimerStage, TypeOK
  <2>2. UNCHANGED runVars \/ os_run_task(owner, "os_event_timer")
    BY <1>2 DEF TimerStage
  <2> HIDE DEF owner
  <2>3. /\ task_running' \in os_task_id_t
        /\ event' \in os_event_t \cup {"none"}
        /\ returnValue' \in os_task_return_codes_t
    BY <2>2, RunType DEF os_event_t, TypeOK, runVars
  <2> QED
    BY <2>1, <2>3 DEF TimerStage, TypeOK, taskVars, msgVars
<1> QED
  BY <1>1, <1>2

LEMMA TypeKernel == TypeOK /\ os_main => TypeOK'
  BY TypeMain, TypeMsgStage, TypeTimers, TypeTimerStage DEF os_main

-----------------------------------------------------------------------------
(* os_run_task enters a callback for the event asked for, or none. *)
LEMMA RunEvent ==
  ASSUME NEW task_id, NEW e, os_run_task(task_id, e)
  PROVE  event' = e \/ event' = event
  BY DEF os_run_task, Enter, Refuse

(* A callback that os_run_task enters belongs to the task it was given. *)
LEMMA RunTask ==
  ASSUME NEW task_id, NEW e \in os_event_t, InKernel, os_run_task(task_id, e)
  PROVE  event' = e => task_running' = task_id
<1>1. e # "none"
  BY DEF os_event_t
<1> QED
  BY <1>1 DEF os_run_task, Enter, Refuse, InKernel

(* While a task handles a message, the pending message is its own. *)
PendingIsOwn ==
  event = "os_event_msg_pending" => msg_pending.destination = task_running

(* Only MsgStage begins a message callback, and with the message it removed. *)
LEMMA PendingKernel ==
  ASSUME PendingIsOwn, os_main
  PROVE  PendingIsOwn'
<1>1. CASE MsgStage
  <2>1. CASE os_queue_isEmpty(os_msg_buffer)
    BY <1>1, <2>1 DEF MsgStage, PendingIsOwn, runVars, InKernel
  <2>2. CASE ~os_queue_isEmpty(os_msg_buffer)
    <3>1. DispatchMsg(msg_pending') /\ InKernel
      BY <1>1, <2>2 DEF MsgStage
    <3>2. CASE UNCHANGED runVars
      BY <3>1, <3>2 DEF PendingIsOwn, runVars, InKernel
    <3>3. CASE os_run_task(msg_pending'.destination, "os_event_msg_pending")
      BY <3>1, <3>3, RunTask DEF PendingIsOwn, os_event_t
    <3> QED
      BY <3>1, <3>2, <3>3 DEF DispatchMsg
  <2> QED
    BY <2>1, <2>2
<1>2. CASE InitTask \/ TimerStage \/ IdleStage
  <2>1. event' # "os_event_msg_pending"
    BY <1>2, RunEvent DEF InitTask, TimerStage, IdleStage, InKernel, runVars
  <2> QED
    BY <2>1 DEF PendingIsOwn
<1>3. CASE StartMain \/ InitDone \/ LeaveMain \/ RearmTimer \/ CheckDone
  BY <1>3 DEF StartMain, InitDone, LeaveMain, RearmTimer, CheckDone,
              PendingIsOwn, runVars, msgVars
<1>4. CASE CheckTimer
  BY <1>4, CheckTimerOutcome DEF PendingIsOwn, runVars, msgVars
<1> QED
  BY <1>1, <1>2, <1>3, <1>4 DEF os_main
=============================================================================
