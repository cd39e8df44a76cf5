-------------------------- MODULE QueueUse_proofs --------------------------
(***************************************************************************)
(* For every capacity and every width of the count that QueueAssumption    *)
(* admits: the ring buffer's indices stay in range and in step, and it     *)
(* implements WindowQueue.                                                 *)
(***************************************************************************)
EXTENDS QueueUse, TLAPS
-----------------------------------------------------------------------------
(* Facts about the remainder. *)

Divides(c, m) == m % c = 0

(* Below twice the capacity, % subtracts the capacity at most once. *)
LEMMA ModOnce ==
  ASSUME NEW c \in Nat \ {0}, NEW a \in 0 .. 2 * c - 1
  PROVE  a % c = IF a < c THEN a ELSE a - c
  OBVIOUS

(* An index is its own remainder. *)
LEMMA ModSmall ==
  ASSUME NEW c \in Nat \ {0}, NEW a \in 0 .. c - 1
  PROVE  a % c = a /\ (a + 0) % c = a /\ (a + c) % c = a
  OBVIOUS

(* A remainder is an index. *)
LEMMA ModRange ==
  ASSUME NEW c \in Nat \ {0}, NEW a \in Nat
  PROVE  a % c \in 0 .. c - 1
  OBVIOUS

(* A remainder is recognised by any quotient it comes with. *)
LEMMA ModUnique ==
  ASSUME NEW c \in Nat \ {0}, NEW q \in Nat, NEW r \in 0 .. c - 1
  PROVE  (c * q + r) % c = r
  OBVIOUS

(* Quotient and remainder of Euclidean division. *)
LEMMA ModSplit ==
  ASSUME NEW c \in Nat \ {0}, NEW a \in Nat
  PROVE  \E q \in Nat : a = c * q + (a % c)
<1>1. a \div c \in Nat /\ a = c * (a \div c) + (a % c)
  OBVIOUS
<1> QED
  BY <1>1

(* The remainder may be taken before or after adding. *)
LEMMA ModAdd ==
  ASSUME NEW c \in Nat \ {0}, NEW a \in Nat, NEW b \in Nat
  PROVE  ((a % c) + b) % c = (a + b) % c
<1>1. PICK q \in Nat : a = c * q + (a % c)
  BY ModSplit
<1>2. PICK p \in Nat : (a % c) + b = c * p + (((a % c) + b) % c)
  <2>1. (a % c) + b \in Nat
    BY ModRange
  <2> QED
    BY <2>1, ModSplit
<1> DEFINE r == ((a % c) + b) % c
<1>3. r \in 0 .. c - 1
  <2>1. (a % c) + b \in Nat
    BY ModRange
  <2> QED
    BY <2>1, ModRange
<1>4. a % c \in Nat
  BY ModRange
<1>5. a + b = c * (q + p) + r
  <2> HIDE DEF r
  <2>1. (a % c) + b = c * p + r
    BY <1>2 DEF r
  <2> QED
    BY <1>1, <2>1, <1>3, <1>4
<1>6. (c * (q + p) + r) % c = r
  <2> HIDE DEF r
  <2> QED
    BY <1>3, ModUnique
<1> QED
  BY <1>5, <1>6

(* A multiple of the modulus does not move an index. *)
LEMMA ModBase ==
  ASSUME NEW c \in Nat \ {0}, NEW a \in 0 .. c - 1, NEW m \in Nat, m % c = 0
  PROVE  (a + m) % c = a
  OBVIOUS
-----------------------------------------------------------------------------
(* The queue. *)

(* The fields of a queue record, one by one. *)
LEMMA QueueFields ==
  ASSUME NEW S, NEW C \in Nat \ {0}, NEW q \in QueueOf(S, C)
  PROVE  /\ q.buffer \in [0 .. C - 1 -> S]
         /\ q.capacity = C
         /\ q.currentSize \in 0 .. UINT16_MOD - 1
         /\ q.in \in 0 .. C - 1
         /\ q.out \in 0 .. C - 1
  BY DEF QueueOf

(* Advancing an index keeps it inside the buffer. *)
LEMMA NextIndex ==
  ASSUME NEW c \in Nat \ {0}, NEW i \in 0 .. c - 1
  PROVE  (i + 1) % c \in 0 .. c - 1
<1>1. i + 1 \in Nat
  OBVIOUS
<1> QED
  BY <1>1, ModRange

(* The fields after an addition, and that it stays a queue. *)
LEMMA AddQueue ==
  ASSUME NEW S, NEW C \in Nat \ {0}, UINT16_MOD \in Nat \ {0},
         NEW q \in QueueOf(S, C), NEW e \in S
  PROVE  /\ os_queue_add(q, e) \in QueueOf(S, C)
         /\ os_queue_add(q, e).currentSize = (q.currentSize + 1) % UINT16_MOD
         /\ os_queue_add(q, e).in = (q.in + 1) % C
         /\ os_queue_add(q, e).out = q.out
<1>1. (q.in + 1) % C \in 0 .. C - 1
  BY QueueFields, NextIndex
<1>2. (q.currentSize + 1) % UINT16_MOD \in 0 .. UINT16_MOD - 1
  BY QueueFields, NextIndex
<1> DEFINE i == (q.in + 1) % C
           n == (q.currentSize + 1) % UINT16_MOD
<1>3. os_queue_add(q, e) = [q EXCEPT !.buffer[q.in] = e, !.currentSize = n, !.in = i]
  BY QueueFields DEF os_queue_add
<1> HIDE DEF i, n
<1>4. i \in 0 .. C - 1 /\ n \in 0 .. UINT16_MOD - 1
  BY <1>1, <1>2 DEF i, n
<1>5. [q EXCEPT !.buffer[q.in] = e, !.currentSize = n, !.in = i] \in QueueOf(S, C)
  BY <1>4 DEF QueueOf
<1> QED
  BY <1>3, <1>5 DEF QueueOf, i, n

(* Only the slot at `in` is written. *)
LEMMA AddSlot ==
  ASSUME NEW S, NEW C \in Nat \ {0}, NEW q \in QueueOf(S, C), NEW e \in S,
         NEW slot \in 0 .. C - 1
  PROVE  os_queue_add(q, e).buffer[slot] = IF slot = q.in THEN e ELSE q.buffer[slot]
  BY QueueFields DEF os_queue_add, QueueOf

(* The fields after a removal from a queue that is not empty. *)
LEMMA RemoveQueue ==
  ASSUME NEW S, NEW C \in Nat \ {0}, UINT16_MOD \in Nat \ {0},
         NEW q \in QueueOf(S, C), ~os_queue_isEmpty(q)
  PROVE  /\ os_queue_remove(q) \in QueueOf(S, C)
         /\ os_queue_remove(q).buffer = q.buffer
         /\ os_queue_remove(q).currentSize = q.currentSize - 1
         /\ os_queue_remove(q).in = q.in
         /\ os_queue_remove(q).out = (q.out + 1) % C
<1>1. (q.out + 1) % C \in 0 .. C - 1
  BY QueueFields, NextIndex
<1> DEFINE o == (q.out + 1) % C
<1>2. os_queue_remove(q) = [q EXCEPT !.currentSize = q.currentSize - 1, !.out = o]
  BY QueueFields DEF os_queue_remove
<1> HIDE DEF o
<1>3. o \in 0 .. C - 1
  BY <1>1 DEF o
<1>4. q.currentSize - 1 \in 0 .. UINT16_MOD - 1
  BY QueueFields DEF os_queue_isEmpty
<1> QED
  BY <1>2, <1>3, <1>4 DEF QueueOf, o

(* What a removal hands out is one of the queue's elements. *)
LEMMA FrontElement ==
  ASSUME NEW S, NEW C \in Nat \ {0}, NEW q \in QueueOf(S, C)
  PROVE  os_queue_front(q) \in S
  BY QueueFields DEF os_queue_front
-----------------------------------------------------------------------------
(* Index arithmetic: adding moves `in` as it moves the end of the queue,   *)
(* also when the count wraps to zero.                                      *)
LEMMA AddInStep ==
  ASSUME UINT16_MOD \in Nat \ {0}, NEW C \in Nat \ {0}, Divides(C, UINT16_MOD),
         NEW out \in 0 .. C - 1, NEW n \in 0 .. UINT16_MOD - 1
  PROVE  (((out + n) % C) + 1) % C
           = (out + ((n + 1) % UINT16_MOD)) % C
<1>1. (((out + n) % C) + 1) % C = (out + n + 1) % C
  <2>1. out + n \in Nat
    OBVIOUS
  <2> QED
    BY <2>1, ModAdd
<1>2. CASE n + 1 < UINT16_MOD
  <2>1. n + 1 \in 0 .. 2 * UINT16_MOD - 1
    BY <1>2
  <2>2. (n + 1) % UINT16_MOD = n + 1
    BY <1>2, <2>1, ModOnce
  <2> QED
    BY <1>1, <2>2
<1>3. CASE n + 1 = UINT16_MOD
  <2>1. (n + 1) % UINT16_MOD = 0
    BY <1>3
  <2>2. (out + UINT16_MOD) % C = out
    BY ModBase DEF Divides
  <2>3. out % C = out
    BY ModSmall
  <2> QED
    BY <1>1, <1>3, <2>1, <2>2, <2>3
<1> QED
  BY <1>2, <1>3

(* Removing moves `out` towards `in` by one. *)
LEMMA RemoveInStep ==
  ASSUME UINT16_MOD \in Nat \ {0}, NEW C \in Nat \ {0},
         NEW out \in 0 .. C - 1, NEW n \in 1 .. UINT16_MOD - 1
  PROVE  (out + n) % C = (((out + 1) % C) + (n - 1)) % C
<1> DEFINE a == out + 1
           b == n - 1
<1>1. a \in Nat /\ b \in Nat /\ a + b = out + n
  OBVIOUS
<1>2. ((a % C) + b) % C = (a + b) % C
  <2> HIDE DEF a, b
  <2> QED
    BY <1>1, ModAdd
<1> QED
  BY <1>1, <1>2
-----------------------------------------------------------------------------
(* What QueueAssumption says, in the form the lemmas ask for. *)
LEMMA Parameters ==
  /\ Capacity \in Nat \ {0}
  /\ UINT16_MOD \in Nat \ {0}
  /\ Zero \in Element
  /\ Divides(Capacity, UINT16_MOD)
  BY QueueAssumption DEF Divides

-----------------------------------------------------------------------------
(* Initially, and after every step, every index is inside the buffer. *)
LEMMA TypeInit == Init => TypeOK
  BY Parameters, QueueAssumption DEF Init, TypeOK, os_queue_init, QueueOf

LEMMA TypeStep == TypeOK /\ [Next]_vars => TypeOK'
<1> SUFFICES ASSUME TypeOK, [Next]_vars
             PROVE  TypeOK'
  OBVIOUS
<1>1. ASSUME NEW e \in Element, Add(e)
      PROVE  TypeOK'
  BY <1>1, AddQueue, Parameters DEF Add, TypeOK
<1>2. CASE Remove
  BY <1>2, RemoveQueue, FrontElement, Parameters DEF Remove, TypeOK
<1>3. CASE UNCHANGED vars
  BY <1>3 DEF vars, TypeOK
<1> QED
  BY <1>1, <1>2, <1>3 DEF Next

(* Every index of the buffer stays in range, whatever the load. *)
THEOREM TypeCorrect == Spec => []TypeOK
<1> QED
  BY TypeInit, TypeStep, PTL DEF Spec

-----------------------------------------------------------------------------
(* TypeOK and IndicesAgree are inductive together. *)
LEMMA IndicesStep == TypeOK /\ IndicesAgree /\ [Next]_vars => IndicesAgree'
<1> SUFFICES ASSUME TypeOK, IndicesAgree, [Next]_vars
             PROVE  IndicesAgree'
  OBVIOUS
<1>0. /\ queue.out \in 0 .. Capacity - 1
      /\ queue.currentSize \in 0 .. UINT16_MOD - 1
  BY QueueFields, Parameters DEF TypeOK
<1>1. ASSUME NEW e \in Element, Add(e)
      PROVE  IndicesAgree'
  <2>1. /\ queue'.in = (queue.in + 1) % Capacity
        /\ queue'.out = queue.out
        /\ queue'.currentSize = (queue.currentSize + 1) % UINT16_MOD
    BY <1>1, AddQueue, Parameters DEF Add, TypeOK
  <2> QED
    BY <1>0, <2>1, AddInStep, Parameters DEF IndicesAgree
<1>2. CASE Remove
  <2>1. /\ queue'.in = queue.in
        /\ queue'.out = (queue.out + 1) % Capacity
        /\ queue'.currentSize = queue.currentSize - 1
    BY <1>2, RemoveQueue, Parameters DEF Remove, TypeOK
  <2>2. queue.currentSize \in 1 .. UINT16_MOD - 1
    BY <1>0, <1>2, Parameters DEF Remove, os_queue_isEmpty
  <2> QED
    BY <1>0, <2>1, <2>2, RemoveInStep, Parameters DEF IndicesAgree
<1>3. CASE UNCHANGED vars
  BY <1>3 DEF vars, IndicesAgree
<1> QED
  BY <1>1, <1>2, <1>3 DEF Next

LEMMA IndicesInit == Init => IndicesAgree
  BY Parameters, ModOnce DEF Init, IndicesAgree, os_queue_init

(* `in` and `out` never drift apart, overrun or not. *)
THEOREM IndicesCorrect == Spec => []IndicesAgree
<1> QED
  BY TypeInit, TypeStep, IndicesInit, IndicesStep, PTL DEF Spec
-----------------------------------------------------------------------------
(* Where the window's elements lie, in terms of `in`. *)
LEMMA SlotBehind ==
  ASSUME NEW in \in 0 .. Capacity - 1, NEW k \in 1 .. Capacity
  PROVE  /\ (((in + 1) % Capacity) + k - 1) % Capacity = (in + k) % Capacity
         /\ (in + k) % Capacity \in 0 .. Capacity - 1
         /\ k < Capacity => (in + k) % Capacity # in
         /\ k = Capacity => (in + k) % Capacity = in
<1> USE Parameters
<1>1. (((in + 1) % Capacity) + k - 1) % Capacity = (in + k) % Capacity
  <2> DEFINE a == in + 1
             b == k - 1
  <2>1. a \in Nat /\ b \in Nat /\ a + b = in + k
    OBVIOUS
  <2>2. ((a % Capacity) + b) % Capacity = (a + b) % Capacity
    <3> HIDE DEF a, b
    <3> QED
      BY <2>1, ModAdd
  <2>3. a % Capacity \in 0 .. Capacity - 1
    <3> HIDE DEF a
    <3> QED
      BY <2>1, ModRange
  <2>4. ((a % Capacity) + b) = ((a % Capacity) + k - 1)
    BY <2>3
  <2> QED
    BY <2>1, <2>2, <2>4
<1>2. in + k \in 0 .. 2 * Capacity - 1
  OBVIOUS
<1>3. (in + k) % Capacity = IF in + k < Capacity THEN in + k ELSE in + k - Capacity
  <2> DEFINE s == in + k
  <2>1. s \in 0 .. 2 * Capacity - 1
    BY <1>2
  <2> HIDE DEF s
  <2>2. s % Capacity = IF s < Capacity THEN s ELSE s - Capacity
    BY <2>1, ModOnce
  <2> QED
    BY <2>2 DEF s
<1> QED
  BY <1>1, <1>3

(* Adding shifts the window by one. *)
LEMMA AddRefines ==
  ASSUME TypeOK, NEW e \in Element, Add(e)
  PROVE  Window!Put(e)
<1>1. /\ queue'.in = (queue.in + 1) % Capacity
      /\ queue'.currentSize = (queue.currentSize + 1) % UINT16_MOD
      /\ queue.in \in 0 .. Capacity - 1
  <2>1. queue \in QueueOf(Element, Capacity) /\ queue' = os_queue_add(queue, e)
    BY DEF Add, TypeOK
  <2> QED
    BY <2>1, AddQueue, QueueFields, Parameters, SMTT(30)
<1>2. ASSUME NEW k \in 1 .. Capacity
      PROVE  Recent'[k] = IF k = Capacity THEN e ELSE Recent[k + 1]
  <2>1. Recent'[k] = queue'.buffer[(queue.in + k) % Capacity]
    BY <1>1, SlotBehind DEF Recent
  <2>2. queue'.buffer[(queue.in + k) % Capacity]
          = IF (queue.in + k) % Capacity = queue.in
            THEN e ELSE queue.buffer[(queue.in + k) % Capacity]
    BY <1>1, AddSlot, SlotBehind, Parameters DEF Add, TypeOK
  <2>3. ASSUME k # Capacity
        PROVE  Recent[k + 1] = queue.buffer[(queue.in + k) % Capacity]
    <3>1. k + 1 \in 1 .. Capacity
      BY <2>3, Parameters
    <3>2. Recent[k + 1] = queue.buffer[(queue.in + (k + 1) - 1) % Capacity]
      BY <3>1 DEF Recent
    <3>3. queue.in + (k + 1) - 1 = queue.in + k
      BY <1>1, Parameters
    <3> QED
      BY <3>2, <3>3
  <2>4. /\ k < Capacity => (queue.in + k) % Capacity # queue.in
        /\ k = Capacity => (queue.in + k) % Capacity = queue.in
    BY <1>1, SlotBehind
  <2>5. CASE k = Capacity
    BY <2>1, <2>2, <2>4, <2>5
  <2>6. CASE k # Capacity
    <3>1. k < Capacity
      BY <2>6, Parameters
    <3> QED
      BY <2>1, <2>2, <2>3, <2>4, <2>6, <3>1
  <2> QED
    BY <2>5, <2>6
<1>3. Recent' = [k \in 1 .. Capacity |-> IF k = Capacity THEN e ELSE Recent[k + 1]]
  BY <1>2 DEF Recent
<1> QED
  BY <1>1, <1>3 DEF Window!Put, Add

(* Removing hands out the oldest element owed, or some element of the window. *)
LEMMA RemoveRefines ==
  ASSUME TypeOK, IndicesAgree, Remove
  PROVE  Window!Get
<1> USE Parameters
<1> DEFINE in == queue.in
           out == queue.out
           n == queue.currentSize
<1>1. /\ in \in 0 .. Capacity - 1
      /\ out \in 0 .. Capacity - 1
      /\ n \in 1 .. UINT16_MOD - 1
      /\ in = (out + n) % Capacity
  BY QueueFields DEF TypeOK, IndicesAgree, Remove, os_queue_isEmpty
<1>2. /\ queue'.in = in
      /\ queue'.buffer = queue.buffer
      /\ queue'.currentSize = n - 1
      /\ taken' = queue.buffer[out]
  BY RemoveQueue DEF Remove, TypeOK, os_queue_front
<1>3. Recent' = Recent
  BY <1>2 DEF Recent
<1>4. CASE n \in 1 .. Capacity
  <2> HIDE DEF in, out, n
  <2>1. out + n \in 0 .. 2 * Capacity - 1
    BY <1>1, <1>4
  <2>2. in = IF out + n < Capacity THEN out + n ELSE out + n - Capacity
    <3> DEFINE s == out + n
    <3>1. s \in 0 .. 2 * Capacity - 1 /\ in = s % Capacity /\ s = out + n
      BY <1>1, <2>1
    <3> HIDE DEF s
    <3>2. in = IF s < Capacity THEN s ELSE s - Capacity
      BY <3>1, ModOnce
    <3> QED
      BY <1>1, <3>1, <3>2
  <2>3. in + (Capacity - n + 1) - 1 = out \/ in + (Capacity - n + 1) - 1 = out + Capacity
    BY <1>1, <1>4, <2>2
  <2>4. out % Capacity = out /\ (out + Capacity) % Capacity = out
    BY <1>1, ModSmall
  <2>5. Capacity - n + 1 \in 1 .. Capacity
    BY <1>4
  <2>6. Recent[Capacity - n + 1] = queue.buffer[(in + (Capacity - n + 1) - 1) % Capacity]
    BY <2>5 DEF Recent, in
  <2>7. Recent[Capacity - n + 1] = queue.buffer[out]
    BY <2>3, <2>4, <2>6
  <2>8. Window!GetInOrder
    BY <1>2, <1>4, <2>7 DEF Window!GetInOrder, n
  <2> QED
    BY <1>2, <1>3, <2>8 DEF Window!Get, n
<1>5. CASE n > Capacity
  <2> DEFINE k == IF in <= out THEN out - in + 1 ELSE out - in + Capacity + 1
  <2>1. k \in 1 .. Capacity
    BY <1>1
  <2>2. in + k - 1 = out \/ in + k - 1 = out + Capacity
    BY <1>1
  <2>3. out % Capacity = out /\ (out + Capacity) % Capacity = out
    <3> HIDE DEF in, out, n
    <3> QED
      BY <1>1, ModSmall
  <2> HIDE DEF k
  <2>4. Recent[k] = queue.buffer[(in + k - 1) % Capacity]
    BY <2>1 DEF Recent
  <2>5. taken' = Recent[k]
    BY <1>2, <2>2, <2>3, <2>4
  <2>6. Window!GetOverrun
    BY <1>5, <2>1, <2>5 DEF Window!GetOverrun
  <2> QED
    BY <1>2, <1>3, <2>6 DEF Window!Get
<1> QED
  BY <1>1, <1>4, <1>5

LEMMA InitRefines == Init => Window!Init
<1> SUFFICES ASSUME Init
             PROVE  Window!Init
  OBVIOUS
<1>1. ASSUME NEW k \in 1 .. Capacity
      PROVE  Recent[k] = Zero
  <2>1. k - 1 \in Nat
    OBVIOUS
  <2>2. (k - 1) % Capacity \in 0 .. Capacity - 1
    BY <2>1, ModRange, Parameters
  <2> QED
    BY <2>2, Parameters DEF Init, Recent, os_queue_init
<1>2. Recent = [k \in 1 .. Capacity |-> Zero]
  BY <1>1 DEF Recent
<1> QED
  BY <1>2 DEF Init, Window!Init, os_queue_init

LEMMA StepRefines ==
  TypeOK /\ IndicesAgree /\ [Next]_vars
    => [Window!Next]_<<Recent, queue.currentSize, taken>>
<1> SUFFICES ASSUME TypeOK, IndicesAgree, [Next]_vars
             PROVE  [Window!Next]_<<Recent, queue.currentSize, taken>>
  OBVIOUS
<1>1. CASE Remove
  BY <1>1, RemoveRefines DEF Window!Next
<1>2. ASSUME NEW e \in Element, Add(e)
      PROVE  Window!Next
  BY <1>2, AddRefines DEF Window!Next
<1>3. CASE UNCHANGED vars
  BY <1>3 DEF vars, Recent
<1> QED
  BY <1>1, <1>2, <1>3 DEF Next

(* The ring buffer keeps the contract of WindowQueue for every capacity. *)
THEOREM QueueImplementsWindow == Spec => ImplementsWindow
<1> QED
  BY TypeInit, TypeStep, IndicesInit, IndicesStep, InitRefines, StepRefines, PTL
     DEF Spec, ImplementsWindow, Window!Spec
=============================================================================
