---------------------------- MODULE WindowQueue ----------------------------
(***************************************************************************)
(* What a user of an os_queue_t may rely on, with no indices.              *)
(*                                                                         *)
(* The queue remembers exactly the last Capacity elements added, oldest    *)
(* first, in `recent`, and how many removals it still owes in `owed`.      *)
(* As long as no more than Capacity removals are owed it is a perfect      *)
(* FIFO.  Once more are owed, elements are lost and others handed out      *)
(* twice, but what is handed out is always one of the last Capacity        *)
(* elements, and FIFO order returns by itself when `owed` is back to       *)
(* Capacity.  The count is taken modulo Wrap.                              *)
(***************************************************************************)
EXTENDS Integers

CONSTANTS Element, Zero, Capacity, Wrap

VARIABLES recent,   \* the last Capacity elements added, oldest first
          owed,     \* removals still owed
          taken     \* what the last removal handed out

Init ==
  /\ recent = [k \in 1 .. Capacity |-> Zero]
  /\ owed = 0
  /\ taken = Zero

Put(e) ==
  /\ recent' = [k \in 1 .. Capacity |-> IF k = Capacity THEN e ELSE recent[k + 1]]
  /\ owed' = (owed + 1) % Wrap
  /\ UNCHANGED taken

(* The oldest element that has not been handed out. *)
GetInOrder ==
  /\ owed \in 1 .. Capacity
  /\ taken' = recent[Capacity - owed + 1]

(* After an overrun: some element of the window. *)
GetOverrun ==
  /\ owed > Capacity
  /\ \E k \in 1 .. Capacity : taken' = recent[k]

Get ==
  /\ GetInOrder \/ GetOverrun
  /\ owed' = owed - 1
  /\ UNCHANGED recent

Next == Get \/ \E e \in Element : Put(e)

Spec == Init /\ [][Next]_<<recent, owed, taken>>
=============================================================================
