--------------------------- MODULE ContextSwitch ---------------------------
(***************************************************************************)
(* The sketch Context_switcher.ino: two tasks, loop and analog_task, that  *)
(* never call each other; the timer interrupt saves the context of one and *)
(* restores that of the other.                                             *)
(*                                                                         *)
(* The processor is the one of the sketch's TCB2 timer (megaAVR 0): an     *)
(* interrupt leaves the enable bit of SREG alone and blocks others until   *)
(* reti, and after reti one instruction runs before the next interrupt.    *)
(***************************************************************************)
EXTENDS AvrContext

CONSTANT MaxUse    \* stack entries a task itself uses

loop        == 0
analog_task == 1
Task        == {loop, analog_task}

(* tasks[0], tasks[1]; loop has the main stack, the other analog_stack. *)
ASSUME SwitchAssumption ==
  /\ Context = Task /\ Stack = Task
  /\ MaxUse \in Nat /\ StackSize >= MaxUse + 4

VARIABLES current_task_num,
          current_task_ctx,
          setup,           \* statements of setup that have run
          pending,         \* INTFLAGS of the timer
          mayInterrupt,    \* an instruction has run since reti
          step,            \* what each task has got to (history)
          depth,           \* stack entries each task uses (history)
          tickSince        \* a tick came since the last interrupt (history)

sketchVars == <<current_task_num, current_task_ctx, setup, pending, mayInterrupt>>
history == <<step, depth, tickSince>>
vars == <<machine, sketchVars, history>>

General == Register \ {"SREG", "SP"}

Init ==
  /\ reg = [r \in Register |->
       IF r = "SREG" THEN <<"on", loop, "start">>
       ELSE IF r = "SP" THEN StackPointer(loop, 0) ELSE <<r, loop, "start">>]
  /\ pc = <<"pc", loop, "start">>
  /\ memory = [s \in Stack |-> [i \in 1 .. StackSize |-> Junk]]
  /\ context = [c \in Context |-> [f \in Field |-> Junk]]
  /\ code = <<>>
  /\ current_task_num = 0 /\ current_task_ctx = Junk
  /\ setup = 0 /\ pending = FALSE /\ mayInterrupt = FALSE
  /\ step = [t \in Task |-> "start"] /\ depth = [t \in Task |-> 0]
  /\ tickSince = FALSE
-----------------------------------------------------------------------------
(***************************************************************************)
(* setup, statement by statement.  The context of the function that        *)
(* follows analog_task, dummy_ctx, is left out: analog_task never returns. *)
(***************************************************************************)

InSetup(n) ==
  /\ setup = n /\ code = <<>>
  /\ setup' = n + 1
  /\ UNCHANGED <<pending, mayInterrupt, history>>

(* The context that executes setup becomes that of the first task. *)
SetupFirstTask ==
  /\ InSetup(0)
  /\ current_task_num' = 0
  /\ current_task_ctx' = Pointer(0)
  /\ UNCHANGED machine

(* avr_getcontext(&tasks[1]); the call pushes the return address. *)
SetupGetContext ==
  /\ InSetup(1)
  /\ memory' = MemoryWith(pc)
  /\ reg' = [reg EXCEPT !["SP"] = Deeper, !["arg1"] = Pointer(1)]
  /\ code' = avr_getcontext
  /\ UNCHANGED <<pc, context, current_task_num, current_task_ctx>>

(***************************************************************************)
(* The code enters analog_task by a call in avr_makecontext_callfunc; this *)
(* enters it at once, on the same empty stack less that return address.    *)
(***************************************************************************)
SetupMakeContext ==
  /\ InSetup(2)
  /\ avr_makecontext(1, analog_task, <<"pc", analog_task, "start">>,
                     <<"arg1", analog_task, "start">>, <<"arg2", analog_task, "start">>,
                     <<"arg3", analog_task, "start">>)
  /\ UNCHANGED <<reg, pc, memory, code, current_task_num, current_task_ctx>>

(* The last statement of setup. *)
start_system_timer ==
  /\ InSetup(3)
  /\ UNCHANGED <<machine, current_task_num, current_task_ctx>>

Setup == SetupFirstTask \/ SetupGetContext \/ SetupMakeContext \/ start_system_timer

(* The hardware timer: one period is over. *)
Tick ==
  /\ setup = 4
  /\ pending' = TRUE /\ tickSince' = TRUE
  /\ UNCHANGED <<machine, current_task_num, current_task_ctx, setup, mayInterrupt,
                 step, depth>>
-----------------------------------------------------------------------------
(* The interrupt service routine. *)

LoadsCurrent == << <<"lds", "Z">> >>

(* Faulty variant: the flag of the timer is not cleared. *)
IsrKeepsFlag ==
  AVR_SAVE_CONTEXT(<< <<"cli">> >>, LoadsCurrent)
  \o << <<"switch_task">> >>
  \o AVR_RESTORE_CONTEXT(LoadsCurrent) \o << <<"ret">> >>

TCB2_INT_vect ==
  AVR_SAVE_CONTEXT(<< <<"cli">> >>, LoadsCurrent)
  \o << <<"switch_task">>, <<"INTFLAGS">> >>
  \o AVR_RESTORE_CONTEXT(LoadsCurrent) \o << <<"ret">> >>

InterruptDue == pending /\ reg["SREG"][1] = "on" /\ mayInterrupt

Interrupt ==
  /\ setup = 4 /\ code = <<>>
  /\ InterruptDue
  /\ memory' = MemoryWith(pc)
  /\ reg' = [reg EXCEPT !["SP"] = Deeper]
  /\ code' = TCB2_INT_vect
  /\ tickSince' = FALSE
  /\ UNCHANGED <<pc, context, sketchVars, step, depth>>

(* lds ZL, current_task_ctx; lds ZH, current_task_ctx + 1 *)
LoadCurrent ==
  /\ Executes("lds")
  /\ reg' = [reg EXCEPT ![Operand(1)] = current_task_ctx]
  /\ code' = Tail(code)
  /\ UNCHANGED <<pc, memory, context, sketchVars, history>>

(* A call of C code may leave anything in the call-clobbered registers. *)
CallClobbers ==
  /\ reg' = [reg EXCEPT !["r0"] = Junk, !["arg1"] = Junk, !["arg2"] = Junk,
                        !["arg3"] = Junk, !["X"] = Junk, !["Z"] = Junk,
                        !["SREG"] = WithFlags(@, Junk)]
  /\ memory' = MemoryWith(Junk)
  /\ code' = Tail(code)
  /\ UNCHANGED <<pc, context, setup, mayInterrupt, history>>

(* Faulty variant: the pointer is set before the number changes. *)
SwitchSetsPointerFirst ==
  /\ Executes("switch_task")
  /\ current_task_ctx' = Pointer(current_task_num)
  /\ current_task_num' = IF current_task_num = 0 THEN 1 ELSE 0
  /\ CallClobbers
  /\ UNCHANGED pending

switch_task ==
  /\ Executes("switch_task")
  /\ current_task_num' = IF current_task_num = 0 THEN 1 ELSE 0
  /\ current_task_ctx' = Pointer(current_task_num')
  /\ CallClobbers
  /\ UNCHANGED pending

ClearFlag ==
  /\ Executes("INTFLAGS")
  /\ pending' = FALSE
  /\ CallClobbers
  /\ UNCHANGED <<current_task_num, current_task_ctx>>

MacroStep ==
  /\ Instruction
  /\ mayInterrupt' = (mayInterrupt /\ ~Executes("ret"))
  /\ UNCHANGED <<current_task_num, current_task_ctx, setup, pending, history>>

Isr == Interrupt \/ LoadCurrent \/ switch_task \/ ClearFlag \/ MacroStep
-----------------------------------------------------------------------------
(***************************************************************************)
(* An instruction of the task that runs, which is the one pc belongs to.   *)
(* It puts new values into all of its registers and uses one stack entry   *)
(* more, or less, or as many as before.                                    *)
(***************************************************************************)
Work ==
  /\ setup = 4 /\ code = <<>> /\ ~InterruptDue
  /\ LET t    == pc[2]
         next == IF step[t] = "odd" THEN "even" ELSE "odd"
         used == reg["SP"][3]
     IN  \E n \in {used - 1, used, used + 1} \cap (0 .. MaxUse) :
           /\ reg' = [r \in Register |->
                IF r = "SREG" THEN WithFlags(reg[r], <<r, t, next>>)
                ELSE IF r = "SP" THEN StackPointer(reg[r][2], n) ELSE <<r, t, next>>]
           /\ pc' = <<"pc", t, next>>
           /\ memory' = IF n > used THEN MemoryWith(<<"entry", t, n>>) ELSE memory
           /\ step' = [step EXCEPT ![t] = next]
           /\ depth' = [depth EXCEPT ![t] = @ + n - used]
  /\ mayInterrupt' = TRUE
  /\ UNCHANGED <<context, code, current_task_num, current_task_ctx, setup, pending,
                 tickSince>>

Next == Setup \/ Tick \/ Isr \/ Work

Spec == Init /\ [][Next]_vars

(* The processor executes, and the timer keeps ticking. *)
FairSpec ==
  Spec /\ WF_vars(Setup) /\ WF_vars(Tick) /\ WF_vars(Isr) /\ WF_vars(Work)
-----------------------------------------------------------------------------
(* The registers task t relies on; a task that starts relies on its arguments. *)
Relied(t) == IF step[t] # "start" THEN General
             ELSE IF t = analog_task THEN {"arg1", "arg2", "arg3"} ELSE {}

(* The register file, or the context, holds what task t left there. *)
Intact(t, file) ==
  /\ \A r \in Relied(t) : file[r] = <<r, t, step[t]>>
  /\ step[t] # "start" => file["SREG"] = <<"on", t, step[t]>>
  /\ file["SP"] = StackPointer(t, depth[t])
  /\ \A i \in 1 .. depth[t] : memory[t][i] = <<"entry", t, i>>

TaskRuns == setup = 4 /\ code = <<>>

(***************************************************************************)
(* Each task finds its registers, its flags, its stack and its place as it *)
(* left them, wherever it was interrupted: the one that runs in the        *)
(* processor, the other one in its context.                                *)
(***************************************************************************)
TasksIsolated ==
  TaskRuns =>
    LET t == pc[2]
    IN  /\ pc = <<"pc", t, step[t]>>
        /\ Intact(t, reg)
        /\ context[1 - t]["pc"] = <<"pc", 1 - t, step[1 - t]>>
        /\ Intact(1 - t, context[1 - t])

(* Outside the interrupt, number and pointer name the task that runs. *)
CurrentAgrees ==
  TaskRuns => current_task_num = pc[2] /\ current_task_ctx = Pointer(pc[2])

(***************************************************************************)
(* No task is switched out twice for one tick: since the last switch there *)
(* was another.                                                            *)
(***************************************************************************)
SwitchesEarned == [][Interrupt => tickSince]_vars

(***************************************************************************)
(* Neither task keeps the processor for ever, however much it has to       *)
(* compute; in particular interrupts are enabled whenever a task runs.     *)
(***************************************************************************)
BothRun == \A t \in Task : []<><<Work /\ pc[2] = t>>_vars
=============================================================================
