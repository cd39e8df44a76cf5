----------------------------- MODULE Coroutine ------------------------------
(***************************************************************************)
(* The coroutines of Context_switcher/avrcoro_impl.h on the machine and    *)
(* the context functions of AvrContext.  The main program and coroutines   *)
(* make any call in any order, nested as deep as there are coroutines; an  *)
(* interrupt may come between any two instructions of a context function.  *)
(*                                                                         *)
(* A return address on a stack carries the locals of the function it leads *)
(* back to: <<"pc", function, ...>>.                                       *)
(***************************************************************************)
EXTENDS AvrContext, FiniteSets

CONSTANTS Main,               \* the main program
          Coro,               \* the avr_coro_t variables, each with its stack
          Value,              \* the data handed over
          NoData,             \* NULL: no data
          Deaf,               \* who gives NULL for the variable of data
          Silent,             \* who calls with interrupts disabled
          InterruptsSplitSP   \* may an interrupt see half a stack pointer?

Party == {Main} \cup Coro
Data  == Value \cup {NoData}

(* What p may send: data == NULL ? NULL : *data. *)
Sends(p) == IF p \in Deaf THEN {NoData} ELSE Value

ASSUME CoroutineAssumption ==
  /\ IsFiniteSet(Coro) /\ Main \notin Coro /\ NoData \notin Value
  /\ Context = {"ret", "exec"} \X Coro /\ Stack = Party
  /\ Deaf \subseteq Party /\ Silent \subseteq Party /\ InterruptsSplitSP \in BOOLEAN
  /\ StackSize >= 7

VARIABLES status,     \* of each coroutine
          data,       \* of each coroutine
          variable,   \* of each party, for the data it sends and receives
          refused,    \* the call that has just returned 1, if it did
          waits,      \* the frame where a party that waits goes on (history)
          visible     \* the abstract state before the current call (history)

coroVars == <<status, data>>
userVars == <<variable, refused>>
vars == <<machine, coroVars, userVars, waits, visible>>

Nothing == <<>>

Init ==
  /\ reg = [r \in Register |->
       IF r = "SP" THEN StackPointer(Main, 0) ELSE <<r, Main, Nothing>>]
  /\ pc = <<"pc", "user", Main>>
  /\ memory = [s \in Stack |-> [i \in 1 .. StackSize |-> Junk]]
  /\ context = [c \in Context |-> [f \in Field |-> Junk]]
  /\ code = <<>>
  /\ status = [c \in Coro |-> "uninitialised"] /\ data = [c \in Coro |-> NoData]
  /\ variable = [p \in Party |-> NoData]
  /\ refused = <<>>
  /\ waits = [p \in Party |-> Nothing]
  /\ visible = Nothing
-----------------------------------------------------------------------------
(* The abstract state, read off the contexts: a coroutine that runs was    *)
(* resumed by the party on whose stack its context ret is.                 *)

At(function) == code = <<>> /\ pc[1] = "pc" /\ pc[2] = function

UserRuns == At("user")

me == pc[3]

Ancestor(p) ==
  LET up[n \in 0 .. Cardinality(Coro)] ==
        IF n = 0 THEN p
        ELSE IF up[n - 1] \in Coro THEN context[<<"ret", up[n - 1]>>]["SP"][2]
        ELSE up[n - 1]
  IN  up

PathTo(c, p) ==
  LET up   == Ancestor(p)
      hops == {n \in DOMAIN up : up[n] = c}
  IN  IF hops = {} THEN <<>>
      ELSE LET first == CHOOSE n \in hops : \A m \in hops : n <= m
           IN  [i \in 1 .. first + 1 |-> up[first + 1 - i]]

Chain == PathTo(Main, me)

Abstract ==
  [ chain     |-> Chain,
    suspended |-> [c \in Coro |->
                     IF status[c] = "AVR_CORO_SUSPENDED"
                     THEN PathTo(c, context[<<"exec", c>>]["SP"][2]) ELSE <<>>],
    variable  |-> variable,
    refused   |-> refused ]

(* In the middle of a call it is what it was before. *)
Mapped == IF UserRuns THEN Abstract ELSE visible
-----------------------------------------------------------------------------
(* Calls of the user's code. *)

Flag(p) == IF p \in Silent THEN "off" ELSE "on"

(***************************************************************************)
(* The user calls a function of avrcoro, which goes on at frame when the   *)
(* context function it calls returns.  By now the user has put new values  *)
(* into its registers (the frame marks them), and what lay behind the      *)
(* stack pointer is lost.                                                  *)
(***************************************************************************)
Call(frame, arg1, arg2, function) ==
  LET used == reg["SP"][3]
  IN  /\ memory' = [memory EXCEPT ![me] = [i \in 1 .. StackSize |->
                      IF i <= used THEN @[i]
                      ELSE IF i = used + 1 THEN <<"pc", "user", me>>
                      ELSE IF i = used + 2 THEN frame ELSE Junk]]
      /\ reg' = [r \in Register |->
                   IF r = "SP" THEN StackPointer(me, used + 2)
                   ELSE IF r = "arg1" THEN arg1 ELSE IF r = "arg2" THEN arg2
                   ELSE IF r = "SREG" THEN <<Flag(me), me, frame>>
                   ELSE <<r, me, frame>>]
      /\ code' = function
      /\ refused' = <<>>
      /\ visible' = Abstract
      /\ UNCHANGED <<pc, context>>

(* A call that returns 1 changes nothing. *)
Refuse(call, c) ==
  /\ refused' = <<call, c>>
  /\ UNCHANGED <<machine, coroVars, variable, waits, visible>>

Initialised(c) == status[c] # "uninitialised"

(***************************************************************************)
(* avr_coro_init, also of a coroutine that was used before.  Not of one    *)
(* that runs: its context and its stack are in use.  NULL for a coroutine, *)
(* a stack or a function, which every call refuses, is not passed.         *)
(***************************************************************************)
avr_coro_init(c) ==
  /\ UserRuns
  /\ status[c] # "AVR_CORO_RUNNING"
  /\ status' = [status EXCEPT ![c] = "AVR_CORO_SUSPENDED"]
  /\ Call(<<"pc", "init", c>>, Pointer(<<"exec", c>>), Junk, avr_getcontext)
  /\ waits' = [waits EXCEPT ![c] = Nothing]
  /\ UNCHANGED <<data, variable>>

InitReturns ==
  /\ At("init")
  /\ LET c == pc[3]
     IN  avr_makecontext(<<"exec", c>>, c, <<"pc", "avr_makecontext_callfunc">>,
                         Pointer(<<"ret", c>>), <<"pc", "avr_coro_trampoline">>, Pointer(c))
  /\ pc' = Top
  /\ reg' = [reg EXCEPT !["SP"] = Shallower]
  /\ visible' = Nothing
  /\ memory' = MemoryWithoutTop
  /\ UNCHANGED <<code, coroVars, variable, refused, waits>>

(* What resume and yield have in common: the data goes to the coroutine,   *)
(* and the context of the caller is swapped for the other one.             *)
SwapOut(call, c, v, from, to) ==
  /\ data' = [data EXCEPT ![c] = v]
  /\ v \in Sends(me)
  /\ Call(<<"pc", call, c>>, Pointer(<<from, c>>), Pointer(<<to, c>>), avr_swapcontext)
  /\ variable' = [variable EXCEPT ![me] = v]
  /\ waits' = [waits EXCEPT ![me] = <<"pc", call, c>>]

(* Faulty variant: a coroutine that is not dead can be resumed. *)
ResumeUnlessDead(c, v) ==
  /\ UserRuns /\ Initialised(c)
  /\ \/ status[c] = "AVR_CORO_DEAD" /\ Refuse("resume", c)
     \/ /\ status[c] # "AVR_CORO_DEAD"
        /\ status' = [status EXCEPT ![c] = "AVR_CORO_RUNNING"]
        /\ SwapOut("resume", c, v, "ret", "exec")

(* A coroutine is resumed if it is initialised or has yielded. *)
avr_coro_resume(c, v) ==
  /\ UserRuns /\ Initialised(c)
  /\ \/ status[c] # "AVR_CORO_SUSPENDED" /\ Refuse("resume", c)
     \/ /\ status[c] = "AVR_CORO_SUSPENDED"
        /\ status' = [status EXCEPT ![c] = "AVR_CORO_RUNNING"]
        /\ SwapOut("resume", c, v, "ret", "exec")

(* Faulty variant: a coroutine that has yielded still counts as running. *)
YieldKeepsStatus(c, v) ==
  /\ UserRuns /\ Initialised(c)
  /\ \/ status[c] # "AVR_CORO_RUNNING" /\ Refuse("yield", c)
     \/ /\ status[c] = "AVR_CORO_RUNNING"
        /\ \E i \in DOMAIN Chain : Chain[i] = c
        /\ UNCHANGED status
        /\ SwapOut("yield", c, v, "exec", "ret")

(***************************************************************************)
(* Any coroutine that is running may be yielded, also one that waits for   *)
(* the caller.  One that was suspended, or lost, as part of another must   *)
(* not be: the code does not see the difference.                           *)
(***************************************************************************)
avr_coro_yield(c, v) ==
  /\ UserRuns /\ Initialised(c)
  /\ \/ status[c] # "AVR_CORO_RUNNING" /\ Refuse("yield", c)
     \/ /\ status[c] = "AVR_CORO_RUNNING"
        /\ \E i \in DOMAIN Chain : Chain[i] = c
        /\ status' = [status EXCEPT ![c] = "AVR_CORO_SUSPENDED"]
        /\ SwapOut("yield", c, v, "exec", "ret")

(* if (data != NULL) *data = ... *)
Given(p, v) == IF p \in Deaf THEN variable ELSE [variable EXCEPT ![p] = v]

(* The rest of resume and yield, when the context is swapped back in. *)
SwapIn ==
  /\ At("resume") \/ At("yield")
  /\ LET c == pc[3]
         p == Top[3]
     IN  /\ variable' = Given(p, data[c])
         /\ waits' = [waits EXCEPT ![p] = Nothing]
  /\ pc' = Top
  /\ reg' = [reg EXCEPT !["SP"] = Shallower]
  /\ visible' = Nothing
  /\ memory' = MemoryWithoutTop
  /\ UNCHANGED <<context, code, coroVars, refused>>
-----------------------------------------------------------------------------
(* The first and the last steps of a coroutine. *)

(* func(funcarg); the successor is kept for later. *)
avr_makecontext_callfunc ==
  /\ At("avr_makecontext_callfunc")
  /\ memory' = MemoryWith(<<"pc", "successor", reg["arg1"]>>)
  /\ reg' = [reg EXCEPT !["SP"] = Deeper, !["arg1"] = reg["arg3"]]
  /\ pc' = reg["arg2"]
  /\ UNCHANGED <<context, code, coroVars, userVars, waits, visible>>

(* funcp(coro, coro->data) *)
avr_coro_trampoline ==
  /\ At("avr_coro_trampoline")
  /\ LET c == reg["arg1"][2]
     IN  /\ memory' = MemoryWith(<<"pc", "trampoline", c>>)
         /\ pc' = <<"pc", "user", c>>
         /\ variable' = Given(c, data[c])
  /\ reg' = [reg EXCEPT !["SP"] = Deeper]
  /\ visible' = Nothing
  /\ UNCHANGED <<context, code, coroVars, refused, waits>>

(***************************************************************************)
(* The function of a coroutine returns to the trampoline, that to          *)
(* avr_makecontext_callfunc, and that calls avr_setcontext(successor).     *)
(***************************************************************************)
FunctionReturns(v) ==
  /\ UserRuns /\ me # Main
  /\ variable' = [variable EXCEPT ![me] = NoData]
  /\ LET c == Top[3]
         successor == memory[me][reg["SP"][3] - 1][3]
     IN  /\ data' = [data EXCEPT ![c] = v]
         /\ status' = [status EXCEPT ![c] = "AVR_CORO_DEAD"]
         /\ memory' = [memory EXCEPT ![me][1] = <<"pc", "callfunc">>, ![me][2] = Junk]
         /\ reg' = [reg EXCEPT !["SP"] = StackPointer(me, 1), !["arg1"] = successor]
  /\ code' = avr_setcontext
  /\ refused' = <<>>
  /\ visible' = Abstract
  /\ UNCHANGED <<pc, context, waits>>
-----------------------------------------------------------------------------
(* An instruction of a context function. *)
ContextStep ==
  /\ Instruction
  /\ UNCHANGED <<coroVars, userVars, waits, visible>>

(***************************************************************************)
(* An interrupt that comes in a context function and is over: it has used  *)
(* whatever lay behind the stack pointer.  Between the two halves of the   *)
(* stack pointer the address is neither the old one nor the new one.       *)
(***************************************************************************)
Interrupt ==
  /\ code # <<>>
  /\ reg["SREG"][1] = "on"
  /\ Executes("out_SP_L") => InterruptsSplitSP
  /\ memory' = [memory EXCEPT ![reg["SP"][2]] = [i \in 1 .. StackSize |->
                  IF i <= reg["SP"][3] THEN @[i] ELSE Junk]]
  /\ UNCHANGED <<reg, pc, context, code, coroVars, userVars, waits, visible>>

User ==
  \/ \E c \in Coro : avr_coro_init(c)
  \/ \E c \in Coro, v \in Data : avr_coro_resume(c, v) \/ avr_coro_yield(c, v)
  \/ \E v \in Data : FunctionReturns(v)

Library ==
  \/ InitReturns
  \/ SwapIn
  \/ avr_makecontext_callfunc
  \/ avr_coro_trampoline
  \/ ContextStep

Next == User \/ Library \/ Interrupt

Spec == Init /\ [][Next]_vars
-----------------------------------------------------------------------------
Specified ==
  INSTANCE AsymmetricCoroutines
    WITH chain <- Mapped.chain, suspended <- Mapped.suspended,
         variable <- Mapped.variable,
         refused <- Mapped.refused

(***************************************************************************)
(* Resume, yield and the end of a coroutine do what avrcoro.h promises:    *)
(* control and data go to the party that waits for them, a call succeeds   *)
(* whenever it should, and a chain that is suspended in one piece comes    *)
(* back in one piece.                                                      *)
(***************************************************************************)
ImplementsCoroutines == Specified!Spec

(* What p, which waits, has on its stack. *)
Frames(p) ==
  (IF p = Main THEN <<>>
   ELSE << <<"pc", "successor", Pointer(<<"ret", p>>)>>, <<"pc", "trampoline", p>> >>)
  \o << <<"pc", "user", p>> >>

(***************************************************************************)
(* "saves the current context [...] and then activates the context [...]   *)
(* as one operation" (avrcontext.h:89): nothing that happens meanwhile     *)
(* touches the stack of a party that waits.                                *)
(***************************************************************************)
StacksKept ==
  \A p \in Party : waits[p] # Nothing =>
    \A i \in DOMAIN Frames(p) : memory[p][i] = Frames(p)[i]

(***************************************************************************)
(* "It may return later" (avrcontext.h:91), and then as if nothing had     *)
(* happened: the caller finds its place, its stack, its flags with the     *)
(* interrupt bit, and every register but those of the arguments.           *)
(***************************************************************************)
PartiesRestored ==
  At("resume") \/ At("yield") =>
    LET p == reg["SP"][2]
    IN  /\ pc = waits[p]
        /\ reg["SP"][3] = Len(Frames(p))
        /\ reg["SREG"] = <<Flag(p), p, waits[p]>>
        /\ \A r \in Register \ {"SP", "SREG", "arg1", "arg2"} : reg[r] = <<r, p, waits[p]>>
=============================================================================
