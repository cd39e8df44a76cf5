---------------------------- MODULE MCCoroutine -----------------------------
(* Coroutine with two coroutines and two values to hand over; those of each *)
(* kind are interchangeable.                                               *)
EXTENDS Coroutine, TLC

CONSTANTS A, B, v, w

MCContext == {"ret", "exec"} \X {A, B}

Symmetry == Permutations({A, B}) \cup Permutations({v, w})
=============================================================================
