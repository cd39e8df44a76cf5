------------------------------ MODULE OsQueue ------------------------------
(***************************************************************************)
(* The ring buffer of scheduler.cpp (os_queue_...), as operators over one  *)
(* os_queue_t record.  Both queues of the scheduler, the message queue and *)
(* the queue of pending timers, are such records.                          *)
(*                                                                         *)
(* os_queue_add never asks whether there is room: on a full buffer it      *)
(* overwrites the oldest slot and still counts the element.                *)
(***************************************************************************)
EXTENDS Integers

CONSTANT UINT16_MOD   \* 2^16 on the target: currentSize is a uint16_t

(***************************************************************************)
(* os_queue_init.  The buffers are static arrays, so before the first add  *)
(* every slot holds the zeroed element.                                    *)
(***************************************************************************)
os_queue_init(bufferSize, zero) ==
  [ buffer      |-> [slot \in 0 .. bufferSize - 1 |-> zero],
    capacity    |-> bufferSize,
    currentSize |-> 0,
    in          |-> 0,
    out         |-> 0 ]

(***************************************************************************)
(* Faulty variants, one mistake each, for the checks that show that a      *)
(* property notices it: the index is moved before the copy; the index is   *)
(* not brought back to the start of the buffer.                            *)
(***************************************************************************)
AddMovesFirst(q, element) ==
  LET next == (q.in + 1) % q.capacity
  IN  [q EXCEPT !.buffer[next] = element,
                !.currentSize  = (@ + 1) % UINT16_MOD,
                !.in           = next]

AddForgetsModulo(q, element) ==
  [q EXCEPT !.buffer[q.in] = element,
            !.currentSize  = (@ + 1) % UINT16_MOD,
            !.in           = @ + 1]

(* os_queue_add: copy, count, advance; no test for room. *)
os_queue_add(q, element) ==
  [q EXCEPT !.buffer[q.in] = element,
            !.currentSize  = (@ + 1) % UINT16_MOD,
            !.in           = (@ + 1) % q.capacity]

os_queue_isEmpty(q) == q.currentSize = 0

(***************************************************************************)
(* Faulty variant of os_queue_remove: `out` is reset when the queue drains *)
(* (a "start over when empty" optimisation that forgets `in`).             *)
(***************************************************************************)
RemoveRewinds(q) ==
  [q EXCEPT !.currentSize = @ - 1,
            !.out         = IF q.currentSize = 1 THEN 0
                            ELSE (@ + 1) % q.capacity]

(* The queue os_queue_remove leaves; every caller has seen it is not empty. *)
os_queue_remove(q) ==
  [q EXCEPT !.currentSize = @ - 1,
            !.out         = (@ + 1) % q.capacity]

(* The element os_queue_remove copies out. *)
os_queue_front(q) == q.buffer[q.out]

-----------------------------------------------------------------------------
(* Vocabulary for the properties of the modules that hold a queue. *)

QueueOf(Element, capacity) ==
  [ buffer      : [0 .. capacity - 1 -> Element],
    capacity    : {capacity},
    currentSize : 0 .. UINT16_MOD - 1,
    in          : 0 .. capacity - 1,
    out         : 0 .. capacity - 1 ]

(* More elements are counted than the buffer has slots for. *)
Overrun(q) == q.currentSize > q.capacity

(* The elements the next removals will hand out. *)
Waiting(q) ==
  { q.buffer[(q.out + k) % q.capacity] :
      k \in {i \in 0 .. q.capacity - 1 : i < q.currentSize} }
=============================================================================
