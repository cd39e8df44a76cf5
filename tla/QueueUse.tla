----------------------------- MODULE QueueUse ------------------------------
(***************************************************************************)
(* One os_queue_t and whoever calls it: os_post_msg and                    *)
(* os_timer_check_timers add without asking for room, os_msg_pending and   *)
(* os_timer_pending test for emptiness and remove.  Nothing limits how far *)
(* additions run ahead of removals.                                        *)
(***************************************************************************)
EXTENDS OsQueue

CONSTANTS Element,    \* what is queued: message entries, or task ids
          Zero,       \* the zeroed element of the static buffer
          Capacity    \* OS_MSG_QUEUE_SIZE, or OS_MAXIMUM_TIMERS

(***************************************************************************)
(* A buffer has a slot, and its capacity divides 2^16 (both capacities of  *)
(* scheduler.h are 4): a count that wraps then leaves `in` and `out` in    *)
(* step.                                                                   *)
(***************************************************************************)
ASSUME QueueAssumption ==
  /\ Capacity \in Nat \ {0}
  /\ UINT16_MOD \in Nat \ {0}
  /\ UINT16_MOD > Capacity
  /\ UINT16_MOD % Capacity = 0
  /\ Zero \in Element

VARIABLES queue,   \* the os_queue_t
          taken    \* the caller's copy of the last element removed

vars == <<queue, taken>>

Init ==
  /\ queue = os_queue_init(Capacity, Zero)
  /\ taken = Zero

(* os_post_msg, os_timer_check_timers: add at any time. *)
Add(e) ==
  /\ queue' = os_queue_add(queue, e)
  /\ UNCHANGED taken

(* os_msg_pending, os_timer_pending: remove if not empty. *)
Remove ==
  /\ ~os_queue_isEmpty(queue)
  /\ taken' = os_queue_front(queue)
  /\ queue' = os_queue_remove(queue)

Next == Remove \/ \E e \in Element : Add(e)

Spec == Init /\ [][Next]_vars

-----------------------------------------------------------------------------

(***************************************************************************)
(* Every index stays inside the buffer, however far additions outrun       *)
(* removals: `in` and `out` are indices of os_queue_add's and              *)
(* os_queue_remove's memcpy.                                               *)
(***************************************************************************)
TypeOK ==
  /\ queue \in QueueOf(Element, Capacity)
  /\ taken \in Element

(***************************************************************************)
(* `in` is where `out` will be after the removals that are owed, also      *)
(* after an overrun and after the uint16_t count has wrapped.              *)
(***************************************************************************)
IndicesAgree == queue.in = (queue.out + queue.currentSize) % Capacity

(* The last Capacity elements added, read off the buffer. *)
Recent == [k \in 1 .. Capacity |-> queue.buffer[(queue.in + k - 1) % Capacity]]

(***************************************************************************)
(* The ring buffer implements WindowQueue: FIFO while it is not overrun,   *)
(* never anything but one of the last Capacity elements added, and FIFO    *)
(* again as soon as the count is back within capacity.                     *)
(***************************************************************************)
Window == INSTANCE WindowQueue WITH recent <- Recent,
                                    owed   <- queue.currentSize,
                                    Wrap   <- UINT16_MOD

ImplementsWindow == Window!Spec
=============================================================================
