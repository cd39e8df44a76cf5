------------------------ MODULE AsymmetricCoroutines ------------------------
(***************************************************************************)
(* What the coroutines of Context_switcher/avrcoro.h promise, without      *)
(* contexts or stacks.  The running code stands at the end of a chain that *)
(* begins with the main program, each having resumed the next.  To yield a *)
(* coroutine of the chain suspends the chain from it on, in one piece; to  *)
(* resume it puts that piece back at the end.  Most often the piece is one *)
(* coroutine, the one that calls avr_coro_yield(self).                     *)
(***************************************************************************)
EXTENDS Naturals, Sequences, SequencesExt

CONSTANTS Main,      \* the main program
          Coro,      \* the coroutines
          Value,     \* the data handed over
          NoData,    \* sent by who has nothing to send
          Deaf       \* who neither sends data nor wants an answer

Party == {Main} \cup Coro

VARIABLES chain,       \* who runs, after all who wait for it
          suspended,   \* the piece of chain each coroutine resumes with
          variable,    \* of each party, for the data it sends and receives
          refused      \* the call that has just failed, if it did

vars == <<chain, suspended, variable, refused>>

Init ==
  /\ chain = <<Main>>
  /\ suspended = [c \in Coro |-> <<>>]
  /\ variable = [p \in Party |-> NoData]
  /\ refused = <<>>

Data == Value \cup {NoData}

Sends(p) == IF p \in Deaf THEN {NoData} ELSE Value

(* The sender's variable holds v, and so does then that of p, which waits. *)
Hand(p, v) ==
  /\ v \in Sends(Last(chain))
  /\ variable' = [q \in Party |-> IF q = Last(chain) \/ q \in {p} \ Deaf THEN v
                                 ELSE variable[q]]

(* avr_coro_init *)
Create(c) ==
  /\ c \notin Range(chain)
  /\ \A other \in Coro \ {c} : c \notin Range(suspended[other])
  /\ suspended' = [suspended EXCEPT ![c] = <<c>>]
  /\ refused' = <<>>
  /\ UNCHANGED <<chain, variable>>

Resume(c, v) ==
  /\ suspended[c] # <<>>
  /\ chain' = chain \o suspended[c]
  /\ suspended' = [suspended EXCEPT ![c] = <<>>]
  /\ Hand(Last(suspended[c]), v)
  /\ refused' = <<>>

Yield(c, v) ==
  \E i \in 2 .. Len(chain) :
    /\ chain[i] = c
    /\ chain' = SubSeq(chain, 1, i - 1)
    /\ suspended' = [suspended EXCEPT ![c] = SubSeq(chain, i, Len(chain))]
    /\ Hand(chain[i - 1], v)
    /\ refused' = <<>>

(* The function of the coroutine that runs returns; its variable is gone. *)
Finish(v) ==
  /\ Len(chain) > 1
  /\ chain' = Front(chain)
  /\ variable' = [q \in Party |-> IF q = Last(chain) THEN NoData
                                 ELSE IF q = Last(chain') /\ q \notin Deaf THEN v
                                 ELSE variable[q]]
  /\ refused' = <<>>
  /\ UNCHANGED suspended

(* Only a coroutine that is not suspended cannot be resumed; only one that *)
(* is not in the chain cannot be yielded.                                  *)
Refuse(c) ==
  /\ \/ suspended[c] = <<>> /\ refused' = <<"resume", c>>
     \/ c \notin Range(chain) /\ refused' = <<"yield", c>>
  /\ UNCHANGED <<chain, suspended, variable>>

Next ==
  \/ \E c \in Coro : Create(c) \/ Refuse(c)
  \/ \E c \in Coro, v \in Data : Resume(c, v) \/ Yield(c, v)
  \/ \E v \in Data : Finish(v)

Spec == Init /\ [][Next]_vars
=============================================================================
