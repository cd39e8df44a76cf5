------------------------ MODULE ContextSwitch_proofs ------------------------
(***************************************************************************)
(* The two tasks of Context_switcher.ino never disturb each other, for     *)
(* every size of the stacks: the invariant says at each instruction of the *)
(* interrupt service routine what is where.                                *)
(***************************************************************************)
EXTENDS ContextSwitch, AvrContext_proofs

USE DEF loop, analog_task, Task

TypeOK ==
  /\ MachineOK
  /\ setup \in 0 .. 4 /\ current_task_num \in Task
  /\ pending \in BOOLEAN /\ mayInterrupt \in BOOLEAN /\ tickSince \in BOOLEAN
  /\ step \in [Task -> {"start", "odd", "even"}]
  /\ depth \in [Task -> 0 .. MaxUse]

(***************************************************************************)
(* The pieces of the code: the interrupt service routine is EnterIsr, then *)
(* Saving, then Switching and the restoring macro with its ret.            *)
(***************************************************************************)
EnterIsr  == Entering(<< <<"cli">> >>, LoadsCurrent)
Switching == << <<"switch_task">>, <<"INTFLAGS">>, <<"lds", "Z">> >>

(* The entries that a task has on its stack. *)
StackIntact(t) == \A i \in 1 .. depth[t] : memory[t][i] = <<"entry", t, i>>

(* Task t waits in its context, with interrupts enabled. *)
Suspended(t) ==
  /\ context[t]["pc"] = <<"pc", t, step[t]>>
  /\ context[t]["SREG"][1] = "on"
  /\ Intact(t, context[t])

(* Task t has the processor. *)
Running(t) ==
  /\ code = <<>>
  /\ pc = <<"pc", t, step[t]>>
  /\ reg["SREG"][1] = "on"
  /\ Intact(t, reg)
  /\ mayInterrupt => step[t] # "start"
  /\ pending => tickSince

(***************************************************************************)
(* setup is task 0, the loop, that has not started yet.                    *)
(***************************************************************************)
SetupState ==
  /\ step = [t \in Task |-> "start"] /\ depth = [t \in Task |-> 0]
  /\ ~pending /\ ~mayInterrupt
  /\ current_task_num = 0
  /\ setup > 0 => current_task_ctx = Pointer(0)

(* The registers avr_getcontext is called with. *)
SetupContext ==
  [f \in Field |->
     IF f = "SREG" THEN <<"on", loop, "start">>
     ELSE IF f = "SP" THEN StackPointer(loop, 0)
     ELSE IF f = "arg1" THEN Pointer(1) ELSE <<f, loop, "start">>]

InSetup1 ==
  /\ setup \in 0 .. 1 /\ code = <<>>
  /\ pc = SetupContext["pc"]
  /\ \A r \in Register \ {"arg1"} : reg[r] = SetupContext[r]

InGetContext(v) ==
  /\ setup = 2
  /\ \/ \E j \in 1 .. 5 :
          /\ code = Left(GetContext, j, Saving \o Return)
          /\ EnteringAt(j, v, loop, 0, v["SREG"])
     \/ \E p \in 1 .. 29 :
          /\ code = Left(Saving, p, Return)
          /\ SavingAt(p, v, loop, 0, 1, v["SREG"])

InSetup2 ==
  /\ setup \in 2 .. 3 /\ code = <<>>
  /\ pc = <<"pc", loop, "start">>
  /\ reg["SP"] = StackPointer(loop, 0) /\ reg["SREG"][1] = "on"
  /\ setup = 2 => context[1]["SREG"][1] = "on"
  /\ setup = 3 => Suspended(1)

SettingUp ==
  /\ SetupState
  /\ InSetup1 \/ InGetContext(SetupContext) \/ InSetup2

(***************************************************************************)
(* What task t had in the registers when it was interrupted.               *)
(***************************************************************************)
TaskContext(t) ==
  [f \in Field |->
     IF f = "SREG" THEN <<"on", t, step[t]>>
     ELSE IF f = "SP" THEN StackPointer(t, depth[t])
     ELSE <<f, t, step[t]>>]

InEnterIsr(t, v, d) ==
  \E k \in 1 .. 6 :
    /\ code = Left(EnterIsr, k, Saving \o (Switching \o Resuming))
    /\ k <= 3 => EnteringAt(k, v, t, d, v["SREG"])
    /\ k > 3 => EnteringAt(k - 1, v, t, d, Masked(v["SREG"]))

InSaving(t, v, d) ==
  \E p \in 1 .. 28 :
    /\ code = Left(Saving, p, Switching \o Resuming)
    /\ SavingAt(p, v, t, d, t, Masked(v["SREG"]))

(* Until task t is saved the other one waits; t is still the current one. *)
Leaving(t, v, d) ==
  /\ step[t] # "start" /\ v = TaskContext(t) /\ d = depth[t]
  /\ current_task_num = t /\ current_task_ctx = Pointer(t)
  /\ pc = v["pc"]
  /\ StackIntact(t) /\ Suspended(1 - t)
  /\ InEnterIsr(t, v, d) \/ InSaving(t, v, d)

(* Then both wait, and switch_task makes task u the current one. *)
InSwitching(u) ==
  \E i \in 1 .. 3 :
    /\ code = Left(Switching, i, Resuming)
    /\ i = 1 => current_task_num = 1 - u /\ current_task_ctx = Pointer(1 - u)
    /\ i > 1 => current_task_num = u /\ current_task_ctx = Pointer(u)
    /\ i > 2 /\ pending => tickSince
    /\ reg["SP"] = StackPointer(1 - u, depth[1 - u] + 1)

InResuming(u) ==
  \E p \in 1 .. 23 :
    /\ code = Left(LoadAll, p, Return)
    /\ RestoringAt(p, u, depth[u], u)
    /\ current_task_num = u /\ current_task_ctx = Pointer(u)
    /\ pending => tickSince

Arriving(u) ==
  /\ Suspended(u) /\ Suspended(1 - u)
  /\ InSwitching(u) \/ InResuming(u)

TaskStage(t) ==
  \/ Running(t) /\ Suspended(1 - t) /\ current_task_num = t /\ current_task_ctx = Pointer(t)
  \/ \E v \in {TaskContext(t)}, d \in {depth[t]} : Leaving(t, v, d)
  \/ Arriving(t)

IInv ==
  /\ TypeOK
  /\ \/ setup < 4 /\ SettingUp
     \/ setup = 4 /\ \E t \in Task : TaskStage(t)
-----------------------------------------------------------------------------
(* The pieces of the code and their instructions.                           *)

(* Each piece is made of instructions. *)
LEMMA Pieces ==
  /\ Return \in Program /\ Switching \in Program /\ LoadsCurrent \in Program
  /\ <<>> \in Program /\ << <<"cli">> >> \in Program /\ << <<"mov", "Z", "arg1">> >> \in Program
  /\ Saving \in Program /\ LoadAll \in Program /\ Resuming \in Program
  /\ Switching \o Resuming \in Program
<1>1. /\ Return \in Program /\ Switching \in Program /\ LoadsCurrent \in Program
      /\ <<>> \in Program /\ << <<"cli">> >> \in Program /\ << <<"mov", "Z", "arg1">> >> \in Program
  BY DEF Return, Switching, LoadsCurrent, Program, Instructions
<1>2. Saving \in Program /\ LoadAll \in Program
  BY SavingBlock, LoadingBlock
<1>3. Resuming \in Program
  BY <1>1, <1>2, Concat DEF Resuming
<1>4. Switching \o Resuming \in Program
  BY <1>1, <1>3, Concat
<1> QED
  BY <1>1, <1>2, <1>3, <1>4

(* The instructions that get the pointer to the context into Z, by position. *)
LEMMA EnterIsrBlock ==
  /\ EnterIsr \in Program /\ Len(EnterIsr) = 6
  /\ \A k \in 1 .. 2 : EnterIsr[k] = Entry[k]
  /\ EnterIsr[3] = <<"cli">>
  /\ \A k \in 4 .. 5 : EnterIsr[k] = Entry[k - 1]
  /\ EnterIsr[6] = <<"lds", "Z">>
<1> DEFINE mask == << <<"cli">> >>
<1>1. mask \in Program /\ LoadsCurrent \in Program
  BY Pieces
<1>2. /\ Len(mask) = 1 /\ mask[1] = <<"cli">>
      /\ Len(LoadsCurrent) = 1 /\ LoadsCurrent[1] = <<"lds", "Z">>
  BY DEF LoadsCurrent
<1>3. EnterIsr = Entering(mask, LoadsCurrent)
  BY DEF EnterIsr
<1> HIDE DEF mask
<1>4. /\ EnterIsr \in Program /\ Len(EnterIsr) = 4 + Len(mask) + Len(LoadsCurrent)
      /\ EnterIsr[1] = Entry[1] /\ EnterIsr[2] = Entry[2]
      /\ \A i \in 1 .. Len(mask) : EnterIsr[2 + i] = mask[i]
      /\ EnterIsr[3 + Len(mask)] = Entry[3] /\ EnterIsr[4 + Len(mask)] = Entry[4]
      /\ \A i \in 1 .. Len(LoadsCurrent) : EnterIsr[4 + Len(mask) + i] = LoadsCurrent[i]
  BY <1>1, <1>3, EnteringBlock
<1> QED
  BY <1>2, <1>4

(* The interrupt service routine, in pieces. *)
LEMMA IsrCode == TCB2_INT_vect = EnterIsr \o (Saving \o (Switching \o Resuming))
<1> DEFINE calls == << <<"switch_task">>, <<"INTFLAGS">> >>
           save  == EnterIsr \o Saving
           load  == LoadsCurrent \o LoadAll
           after == Switching \o Resuming
<1>1. /\ EnterIsr \in Program
      /\ AVR_SAVE_CONTEXT(<< <<"cli">> >>, LoadsCurrent) = EnterIsr \o Saving
  BY Pieces, SaveSplit DEF EnterIsr
<1>2. Saving \in Program /\ LoadsCurrent \in Program /\ LoadAll \in Program /\ Return \in Program
  BY Pieces
<1>3. calls \in Program
  BY DEF Program, Instructions
<1>4. TCB2_INT_vect = ((save \o calls) \o load) \o Return
  BY <1>1 DEF TCB2_INT_vect, AVR_RESTORE_CONTEXT, Return
<1>5. Switching = calls \o LoadsCurrent
  <2>1. /\ calls \o LoadsCurrent \in Program
        /\ Len(calls \o LoadsCurrent) = Len(calls) + Len(LoadsCurrent)
        /\ \A i \in 1 .. Len(calls) + Len(LoadsCurrent) : (calls \o LoadsCurrent)[i] =
             IF i <= Len(calls) THEN calls[i] ELSE LoadsCurrent[i - Len(calls)]
    <3> HIDE DEF calls
    <3> QED
      BY <1>2, <1>3, Concat
  <2>2. /\ Len(calls) = 2 /\ calls[1] = Switching[1] /\ calls[2] = Switching[2]
        /\ Len(LoadsCurrent) = 1 /\ LoadsCurrent[1] = Switching[3]
        /\ Len(Switching) = 3
    BY DEF Switching, LoadsCurrent
  <2>3. Switching \in Program
    BY Pieces
  <2> HIDE DEF calls
  <2> QED
    BY <2>1, <2>2, <2>3, SeqEqual DEF Program
<1> HIDE DEF calls
<1>6. save \in Program /\ load \in Program
  BY <1>1, <1>2, Concat
<1> HIDE DEF save, load
<1>7. (save \o calls) \o load = save \o (calls \o load)
  BY <1>3, <1>6, ConcatTwice
<1>8. calls \o load = Switching \o LoadAll
  BY <1>2, <1>3, <1>5, ConcatTwice DEF load
<1>9. Switching \in Program
  BY Pieces
<1> DEFINE half == Switching \o LoadAll
<1>10. half \in Program
  BY <1>2, <1>9, Concat
<1>11. half \o Return = after
  BY <1>2, <1>9, ConcatTwice DEF Resuming
<1> HIDE DEF half
<1>12. (save \o half) \o Return = save \o (half \o Return)
  <2>1. save \in Program
    BY <1>6
  <2>2. Return \in Program
    BY <1>2
  <2> QED
    BY <2>1, <2>2, <1>10, ConcatTwice
<1>13. after \in Program
  BY Pieces
<1> HIDE DEF after
<1>14. save \o after = EnterIsr \o (Saving \o after)
  BY <1>1, <1>2, <1>13, ConcatTwice, SMTT(30) DEF save
<1> QED
  BY <1>4, <1>7, <1>8, <1>11, <1>12, <1>14 DEF half, after
-----------------------------------------------------------------------------
(* What the steps have in common.                                           *)

Called == {"lds", "switch_task", "INTFLAGS"}

(* The constants, as the proofs use them. *)
LEMMA Sizes ==
  /\ Context = {0, 1} /\ Stack = {0, 1}
  /\ MaxUse \in Nat /\ StackSize \in Nat /\ StackSize >= MaxUse + 4
BY SwitchAssumption, ContextAssumption

(* While a macro has instructions left, one of them is next. *)
LEMMA NextInstruction ==
  ASSUME code # <<>>, Next, ~Tick
  PROVE  /\ Head(code)[1] \notin Called => MacroStep
         /\ Head(code)[1] = "lds" => LoadCurrent
         /\ Head(code)[1] = "switch_task" => switch_task
         /\ Head(code)[1] = "INTFLAGS" => ClearFlag
<1>1. ~Setup
  BY DEF Setup, SetupFirstTask, SetupGetContext, SetupMakeContext, start_system_timer, InSetup
<1>2. ~Interrupt /\ ~Work
  BY DEF Interrupt, Work
<1>3. MacroStep \/ LoadCurrent \/ switch_task \/ ClearFlag
  BY <1>1, <1>2 DEF Next, Isr
<1>4. \A op : Executes(op) <=> op = Head(code)[1]
  BY DEF Executes
<1>5. LoadCurrent => Head(code)[1] = "lds"
  BY <1>4 DEF LoadCurrent
<1>6. switch_task => Head(code)[1] = "switch_task"
  BY <1>4 DEF switch_task
<1>7. ClearFlag => Head(code)[1] = "INTFLAGS"
  BY <1>4 DEF ClearFlag
<1>8. MacroStep => Head(code)[1] \notin Called
  BY <1>4 DEF MacroStep, Instruction, Push, Pop, Move, Offset, Cli, Store, Load, WriteHigh,
              WriteLow, Ret, Called
<1> QED
  BY <1>3, <1>5, <1>6, <1>7, <1>8 DEF Called

(* The instructions of the macros are none of the routine's own. *)
LEMMA MacroInstructions ==
  /\ \A p \in 1 .. 28 : Saving[p][1] \notin Called
  /\ \A p \in 1 .. 22 : LoadAll[p][1] \notin Called
  /\ \A j \in 1 .. 4 : Entry[j][1] \notin Called
<1>1. /\ \A p \in 1 .. 9 : StoreFirst[p][1] \notin Called
      /\ \A p \in 1 .. 17 : StoreRest[p][1] \notin Called
  BY DEF StoreFirst, StoreRest, Called
<1>2. Saving[10][1] \notin Called /\ Saving[11][1] \notin Called
  BY SavingBlock DEF Called
<1>3. \A p \in 1 .. 28 : Saving[p][1] \notin Called
  BY <1>1, <1>2, SavingBlock
<1>4. \A p \in 1 .. 22 : LoadAll[p][1] \notin Called
  BY DEF LoadAll, Called
<1>5. \A j \in 1 .. 4 : Entry[j][1] \notin Called
  BY DEF Entry, Called
<1> QED
  BY <1>3, <1>4, <1>5

(* An instruction of a macro leaves the types of the sketch alone. *)
LEMMA MacroTypes ==
  ASSUME TypeOK, MacroStep, MachineOK'
  PROVE  TypeOK'
<1>1. mayInterrupt' \in BOOLEAN
  BY DEF MacroStep
<1>2. UNCHANGED <<setup, current_task_num, pending, tickSince, step, depth>>
  BY DEF MacroStep, history
<1>3. pending' \in BOOLEAN /\ tickSince' \in BOOLEAN
  BY <1>2 DEF TypeOK
<1>4. /\ setup' \in 0 .. 4 /\ current_task_num' \in Task
      /\ step' \in [Task -> {"start", "odd", "even"}] /\ depth' \in [Task -> 0 .. MaxUse]
  BY <1>2 DEF TypeOK
<1> QED
  BY <1>1, <1>3, <1>4 DEF TypeOK

(* A task waits undisturbed while its context and its part of its stack do. *)
LEMMA SuspendedKept ==
  ASSUME TypeOK, NEW t \in Task, Suspended(t), UNCHANGED <<step, depth>>,
         context'[t] = context[t], \A i \in 1 .. depth[t] : memory'[t][i] = memory[t][i]
  PROVE  Suspended(t)'
BY DEF Suspended, Intact, Relied

(* So do the entries on its stack. *)
LEMMA StackIntactKept ==
  ASSUME TypeOK, NEW t \in Task, StackIntact(t), UNCHANGED depth,
         \A i \in 1 .. depth[t] : memory'[t][i] = memory[t][i]
  PROVE  StackIntact(t)'
BY DEF StackIntact
-----------------------------------------------------------------------------
(* The routine, from the interrupted task ...                                *)

(* While its registers are saved, the task stays as it was interrupted.     *)
LEMMA LeavingFrame ==
  ASSUME TypeOK, NEW t \in Task, NEW v, NEW d, Leaving(t, v, d), Undisturbed(t, d, t),
         UNCHANGED <<step, depth>>
  PROVE  /\ step'[t] # "start" /\ v = TaskContext(t)' /\ d = depth'[t] /\ pc' = v["pc"]
         /\ StackIntact(t)' /\ Suspended(1 - t)'
<1>1. step'[t] # "start" /\ d = depth'[t] /\ pc' = v["pc"]
  BY DEF Leaving, Undisturbed
<1>2. v = TaskContext(t)'
  BY DEF Leaving, TaskContext
<1>3. StackIntact(t)'
  BY StackIntactKept DEF Leaving, Undisturbed
<1>4. Suspended(1 - t)'
  <2>1. 1 - t \in Task /\ 1 - t # t
    OBVIOUS
  <2>2. context'[1 - t] = context[1 - t] /\ memory'[1 - t] = memory[1 - t]
    BY <2>1, Sizes DEF Undisturbed
  <2> QED
    BY <2>1, <2>2, SuspendedKept DEF Leaving
<1> QED
  BY <1>1, <1>2, <1>3, <1>4

(* Its context is saved instruction by instruction. *)
LEMMA LeavingStep ==
  ASSUME TypeOK, NEW t \in Task, NEW v, NEW d, Leaving(t, v, d), Next, ~Tick
  PROVE  TypeOK' /\ setup' = setup /\ (Leaving(t, v, d)' \/ Arriving(1 - t)')
<1> DEFINE after == Switching \o Resuming
           rest == Saving \o after
<1>1. Saving \in Program /\ Len(Saving) = 28 /\ after \in Program /\ rest \in Program
  BY Pieces, SavingBlock, Concat
<1>2. /\ MachineOK /\ t \in Stack /\ t \in Context /\ d \in Nat /\ d + 4 <= StackSize
      /\ StackSize \in Nat
  BY Sizes DEF TypeOK, Leaving
<1>3. v["SP"] = StackPointer(t, d) /\ Pointer(t) = current_task_ctx
  BY DEF Leaving, TaskContext, Field, Register
<1> HIDE DEF after
<1>4. CASE InEnterIsr(t, v, d)
  <2> HIDE DEF rest
  <2>1. PICK k \in 1 .. 6 : /\ code = Left(EnterIsr, k, rest)
                            /\ k <= 3 => EnteringAt(k, v, t, d, v["SREG"])
                            /\ k > 3 => EnteringAt(k - 1, v, t, d, Masked(v["SREG"]))
    BY <1>4 DEF InEnterIsr, rest, after
  <2>2. code # <<>> /\ Head(code) = EnterIsr[k] /\ Tail(code) = Left(EnterIsr, k + 1, rest)
    <3>1. EnterIsr \in Program /\ k \in 1 .. Len(EnterIsr)
      BY EnterIsrBlock
    <3>2. rest \in Program
      BY <1>1
    <3> QED
      BY <2>1, <3>1, <3>2, LeftStep
  <2>3. CASE k \in {1, 2}
    <3>n. k \in 1 .. 4 /\ k \in 1 .. 2
      BY <2>3
    <3>1. Head(code) = Entry[k]
      BY <2>2, <3>n, EnterIsrBlock
    <3>q. PICK q : q = v["SREG"]
      OBVIOUS
    <3>2. MacroStep /\ Instruction
      BY <2>2, <3>n, <3>1, MacroInstructions, NextInstruction DEF MacroStep
    <3>3. EnteringAt(k, v, t, d, q)
      BY <2>1, <2>3, <3>q
    <3>4. /\ MachineOK' /\ code' = Tail(code) /\ Undisturbed(t, d, t)
          /\ EnteringAt(k + 1, v, t, d, q)'
      BY <1>2, <2>2, <3>n, <3>q, <3>1, <3>2, <3>3, EnteringStep
    <3>5. InEnterIsr(t, v, d)'
      BY <2>2, <2>3, <3>q, <3>4 DEF InEnterIsr, rest, after
    <3>6. UNCHANGED <<setup, current_task_num, current_task_ctx, step, depth>>
      BY <3>2 DEF MacroStep, history
    <3> QED
      BY <3>2, <3>4, <3>5, <3>6, LeavingFrame, MacroTypes DEF Leaving
  <2>4. CASE k = 3
    <3>1. Head(code) = <<"cli">> /\ Head(code)[1] \notin Called
      BY <2>2, <2>4, EnterIsrBlock DEF Called
    <3>2. MacroStep /\ Instruction
      BY <2>2, <3>1, NextInstruction DEF MacroStep
    <3>3. EnteringAt(3, v, t, d, v["SREG"])
      BY <2>1, <2>4
    <3>4. MachineOK' /\ code' = Tail(code) /\ Assigned("SREG", Masked(reg["SREG"]))
      BY <1>2, <2>2, <3>1, <3>2, CliEffect
    <3>5. EnteringAt(3, v, t, d, Masked(v["SREG"]))' /\ Undisturbed(t, d, t)
      BY <3>3, <3>4 DEF EnteringAt, EntryDepth, Assigned, Undisturbed, Register
    <3>6. InEnterIsr(t, v, d)'
      BY <2>2, <2>4, <3>4, <3>5 DEF InEnterIsr, rest, after
    <3>7. UNCHANGED <<setup, current_task_num, current_task_ctx, step, depth>>
      BY <3>2 DEF MacroStep, history
    <3> QED
      BY <3>2, <3>4, <3>5, <3>6, <3>7, LeavingFrame, MacroTypes DEF Leaving
  <2>5. CASE k \in {4, 5}
    <3>n. k - 1 \in 1 .. 4 /\ k - 1 # 2 /\ k \in 4 .. 5
      BY <2>5
    <3>1. Head(code) = Entry[k - 1]
      BY <2>2, <3>n, EnterIsrBlock
    <3>q. PICK q : q = Masked(v["SREG"])
      OBVIOUS
    <3>2. MacroStep /\ Instruction
      BY <2>2, <3>n, <3>1, MacroInstructions, NextInstruction DEF MacroStep
    <3>j. PICK j \in 1 .. 4 : j = k - 1
      BY <3>n
    <3>3. EnteringAt(j, v, t, d, q)
      BY <2>1, <2>5, <3>q, <3>j
    <3>4. /\ MachineOK' /\ code' = Tail(code) /\ Undisturbed(t, d, t)
          /\ EnteringAt(j + 1, v, t, d, q)'
      <4>1. j # 2 /\ Head(code) = Entry[j]
        BY <3>n, <3>j, <3>1
      <4> QED
        BY <1>2, <2>2, <4>1, <3>2, <3>3, EnteringStep
    <3>5. InEnterIsr(t, v, d)'
      <4>1. k + 1 \in 1 .. 6 /\ k + 1 > 3 /\ (k + 1) - 1 = j + 1 /\ ~(k + 1 <= 3)
        BY <3>n, <3>j
      <4> QED
        BY <2>2, <4>1, <3>q, <3>4 DEF InEnterIsr, rest, after
    <3>6. UNCHANGED <<setup, current_task_num, current_task_ctx, step, depth>>
      BY <3>2 DEF MacroStep, history
    <3> QED
      BY <3>2, <3>4, <3>5, <3>6, LeavingFrame, MacroTypes DEF Leaving
  <2>6. CASE k = 6
    <3>1. Head(code) = <<"lds", "Z">>
      BY <2>2, <2>6, EnterIsrBlock
    <3>2. LoadCurrent
      BY <2>2, <3>1, NextInstruction
    <3>3. EnteringAt(5, v, t, d, Masked(v["SREG"]))
      BY <2>1, <2>6
    <3>4. Assigned("Z", Pointer(t)) /\ MachineOK' /\ "Z" \in Register
      BY <1>2, <1>3, <3>1, <3>2 DEF LoadCurrent, Operand, Assigned, MachineOK, Register
    <3>q. PICK q : q = Masked(v["SREG"])
      OBVIOUS
    <3>5. SavingAt(1, v, t, d, t, q)'
      BY <3>3, <3>4, <3>q, EntryDone
    <3>6. code' = Left(Saving, 1, after)
      <4>1. code' = Left(EnterIsr, Len(EnterIsr) + 1, rest)
        BY <2>2, <2>6, <3>2, EnterIsrBlock DEF LoadCurrent
      <4>2. code' = rest
        BY <1>1, <4>1, EnterIsrBlock, LeftNothing
      <4> QED
        BY <1>1, <4>2, LeftAll DEF rest
    <3>7. InSaving(t, v, d)'
      BY <3>5, <3>6, <3>q DEF InSaving, after
    <3>8. Undisturbed(t, d, t)
      BY <3>4 DEF Undisturbed, Assigned
    <3>9. /\ UNCHANGED <<setup, current_task_num, current_task_ctx, step, depth>>
          /\ UNCHANGED <<pending, mayInterrupt, tickSince>>
      BY <3>2 DEF LoadCurrent, history, sketchVars
    <3>10. TypeOK'
      BY <3>4, <3>9 DEF TypeOK
    <3> QED
      BY <3>7, <3>8, <3>9, <3>10, LeavingFrame DEF Leaving
  <2> QED
    BY <2>1, <2>3, <2>4, <2>5, <2>6
<1>5. CASE InSaving(t, v, d)
  <2>1. PICK p \in 1 .. 28 : /\ code = Left(Saving, p, after)
                             /\ SavingAt(p, v, t, d, t, Masked(v["SREG"]))
    BY <1>5 DEF InSaving, after
  <2>q. PICK q : q = Masked(v["SREG"])
    OBVIOUS
  <2>2. code # <<>> /\ Head(code) = Saving[p]
    <3>1. p \in 1 .. Len(Saving) /\ Saving \in Program /\ after \in Program
      BY <1>1
    <3>2. Left(Saving, p, after) # <<>> /\ Head(Left(Saving, p, after)) = Saving[p]
      BY <3>1, LeftStep
    <3> QED
      BY <2>1, <3>2
  <2>3. MacroStep /\ Instruction
    BY <2>2, MacroInstructions, NextInstruction DEF MacroStep
  <2>4. SavingAt(p, v, t, d, t, q)
    BY <2>1, <2>q
  <2>5. /\ MachineOK' /\ Undisturbed(t, d, t)
        /\ code' = Left(Saving, p + 1, after) /\ SavingAt(p + 1, v, t, d, t, q)'
    BY <1>1, <1>2, <1>3, <2>1, <2>3, <2>4, SavingStep
  <2>6. UNCHANGED <<setup, current_task_num, current_task_ctx, step, depth>>
    BY <2>3 DEF MacroStep, history
  <2>7. CASE p < 28
    <3>1. InSaving(t, v, d)'
      BY <2>5, <2>7, <2>q DEF InSaving, after
    <3> QED
      BY <2>3, <2>5, <2>6, <3>1, LeavingFrame, MacroTypes DEF Leaving
  <2>8. CASE p = 28
    <3>1. code' = Left(Switching, 1, Resuming)
      <4>1. code' = Left(Saving, Len(Saving) + 1, after)
        BY <1>1, <2>5, <2>8
      <4>2. code' = after
        BY <1>1, <4>1, LeftNothing
      <4> QED
        BY <4>2, Pieces, LeftAll DEF after
    <3>2. SavingAt(29, v, t, d, t, q)'
      BY <2>5, <2>8
    <3>3. reg'["SP"] = StackPointer(t, d + 1)
      BY <3>2 DEF SavingAt, StackAt, SaveDepth
    <3>4. \A f \in Field : context'[t][f] = v[f]
      BY <3>2 DEF SavingAt, StoredAt, Field, Register
    <3>5. Suspended(t)'
      <4>1. /\ step'[t] # "start" /\ v = TaskContext(t)' /\ StackIntact(t)'
            /\ d = depth'[t]
        BY <2>5, <2>6, LeavingFrame
      <4>2. \A r \in General : context'[t][r] = <<r, t, step'[t]>>
        BY <3>4, <4>1 DEF TaskContext, General, Field
      <4>3. /\ context'[t]["pc"] = <<"pc", t, step'[t]>>
            /\ context'[t]["SREG"] = <<"on", t, step'[t]>>
            /\ context'[t]["SP"] = StackPointer(t, depth'[t])
        BY <3>4, <4>1 DEF TaskContext, Field, Register
      <4> QED
        BY <4>1, <4>2, <4>3 DEF Suspended, Intact, Relied, StackIntact
    <3>6. Suspended(1 - t)' /\ d = depth'[t]
      BY <2>5, <2>6, LeavingFrame
    <3>7. current_task_num' = t /\ current_task_ctx' = Pointer(t)
      BY <2>6 DEF Leaving
    <3>8. 1 - (1 - t) = t /\ 1 - t \in Task
      OBVIOUS
    <3>9. InSwitching(1 - t)'
      BY <3>1, <3>3, <3>6, <3>7, <3>8 DEF InSwitching
    <3> QED
      BY <2>3, <2>5, <2>6, <3>5, <3>6, <3>8, <3>9, MacroTypes DEF Arriving
  <2> QED
    BY <2>7, <2>8
<1> QED
  BY <1>4, <1>5 DEF Leaving
-----------------------------------------------------------------------------
(* ... to the task that is resumed.                                          *)

(* A call of C code uses the stack above the return address only.           *)
LEMMA CallKeepsSuspended ==
  ASSUME TypeOK, NEW u \in Task, Suspended(u), Suspended(1 - u), CallClobbers,
         reg["SP"] = StackPointer(1 - u, depth[1 - u] + 1)
  PROVE  /\ MachineOK' /\ Suspended(u)' /\ Suspended(1 - u)'
         /\ reg'["SP"] = StackPointer(1 - u, depth'[1 - u] + 1)
<1>1. /\ MachineOK /\ 1 - u \in Stack /\ u \in Stack /\ 1 - u # u
      /\ depth[1 - u] \in Nat /\ depth[1 - u] + 2 <= StackSize
  BY Sizes DEF TypeOK
<1>2. /\ memory' = [memory EXCEPT ![1 - u][depth[1 - u] + 2] = Junk]
      /\ UNCHANGED <<context, step, depth>>
  <2>1. reg["SP"][2] = 1 - u /\ reg["SP"][3] + 1 = depth[1 - u] + 2
    BY <1>1 DEF StackPointer
  <2> QED
    BY <2>1 DEF CallClobbers, MemoryWith, history
<1>3. /\ memory'[u] = memory[u]
      /\ \A i \in 1 .. depth[1 - u] : memory'[1 - u][i] = memory[1 - u][i]
      /\ DOMAIN memory' = Stack /\ \A s \in Stack : DOMAIN memory'[s] = 1 .. StackSize
  BY <1>1, <1>2 DEF MachineOK
<1>4. DOMAIN reg' = Register /\ reg'["SP"] = reg["SP"]
  BY <1>1 DEF CallClobbers, MachineOK, Register
<1>5. MachineOK'
  BY <1>1, <1>2, <1>3, <1>4 DEF MachineOK
<1>6. Suspended(u)' /\ Suspended(1 - u)'
  BY <1>2, <1>3, SuspendedKept
<1> QED
  BY <1>2, <1>4, <1>5, <1>6

(* The other task becomes the current one, and its registers are loaded.    *)
LEMMA ArrivingStep ==
  ASSUME TypeOK, NEW u \in Task, Arriving(u), Next, ~Tick
  PROVE  /\ TypeOK' /\ setup' = setup
         /\ \/ Arriving(u)'
            \/ /\ Running(u)' /\ Suspended(1 - u)'
               /\ current_task_num' = u /\ current_task_ctx' = Pointer(u)
<1>1. /\ MachineOK /\ u \in Stack /\ u \in Context /\ depth[u] \in Nat
      /\ depth[u] + 3 <= StackSize /\ StackSize \in Nat
      /\ 1 - u \in Task /\ 1 - u # u /\ 1 - (1 - u) = u
  BY Sizes DEF TypeOK
<1>2. Suspended(u) /\ Suspended(1 - u)
  BY DEF Arriving
<1>3. CASE InSwitching(u)
  <2>1. PICK i \in 1 .. 3 :
          /\ code = Left(Switching, i, Resuming)
          /\ i = 1 => current_task_num = 1 - u /\ current_task_ctx = Pointer(1 - u)
          /\ i > 1 => current_task_num = u /\ current_task_ctx = Pointer(u)
          /\ i > 2 /\ pending => tickSince
          /\ reg["SP"] = StackPointer(1 - u, depth[1 - u] + 1)
    BY <1>3 DEF InSwitching
  <2>2. /\ Len(Switching) = 3 /\ Switching[1] = <<"switch_task">>
        /\ Switching[2] = <<"INTFLAGS">> /\ Switching[3] = <<"lds", "Z">>
    BY DEF Switching
  <2>3. code # <<>> /\ Head(code) = Switching[i] /\ Tail(code) = Left(Switching, i + 1, Resuming)
    <3>1. Switching \in Program /\ Resuming \in Program /\ i \in 1 .. Len(Switching)
      BY <2>2, Pieces
    <3> QED
      BY <2>1, <3>1, LeftStep
  <2>4. CASE i = 1
    <3>1. switch_task
      BY <2>2, <2>3, <2>4, NextInstruction
    <3>2. current_task_num' = u /\ current_task_ctx' = Pointer(u)
      BY <2>1, <2>4, <3>1 DEF switch_task
    <3>3. CallClobbers /\ UNCHANGED pending
      BY <3>1 DEF switch_task
    <3>4. InSwitching(u)'
      <4>1. /\ code' = Left(Switching, 2, Resuming)
            /\ reg'["SP"] = StackPointer(1 - u, depth'[1 - u] + 1)
        BY <1>2, <2>1, <2>3, <2>4, <3>3, CallKeepsSuspended DEF CallClobbers
      <4> QED
        BY <3>2, <4>1 DEF InSwitching
    <3>5. MachineOK' /\ Suspended(u)' /\ Suspended(1 - u)'
      BY <1>2, <2>1, <3>3, CallKeepsSuspended
    <3>6. UNCHANGED <<setup, pending, mayInterrupt, tickSince, step, depth>>
      BY <3>3 DEF CallClobbers, history
    <3> QED
      BY <3>2, <3>4, <3>5, <3>6 DEF Arriving, TypeOK
  <2>5. CASE i = 2
    <3>1. ClearFlag
      BY <2>2, <2>3, <2>5, NextInstruction
    <3>2. CallClobbers /\ pending' = FALSE /\ UNCHANGED <<current_task_num, current_task_ctx>>
      BY <3>1 DEF ClearFlag
    <3>3. MachineOK' /\ Suspended(u)' /\ Suspended(1 - u)'
      BY <1>2, <2>1, <3>2, CallKeepsSuspended
    <3>4. InSwitching(u)'
      <4>1. /\ code' = Left(Switching, 3, Resuming)
            /\ reg'["SP"] = StackPointer(1 - u, depth'[1 - u] + 1)
        BY <1>2, <2>1, <2>3, <2>5, <3>2, CallKeepsSuspended DEF CallClobbers
      <4> QED
        BY <2>1, <2>5, <3>2, <4>1 DEF InSwitching
    <3>5. UNCHANGED <<setup, mayInterrupt, tickSince, step, depth>>
      BY <3>2 DEF CallClobbers, history
    <3> QED
      BY <3>2, <3>3, <3>4, <3>5 DEF Arriving, TypeOK
  <2>6. CASE i = 3
    <3>1. LoadCurrent /\ Head(code) = <<"lds", "Z">>
      BY <2>2, <2>3, <2>6, NextInstruction
    <3>2. Assigned("Z", Pointer(u)) /\ MachineOK'
      BY <1>1, <2>1, <2>6, <3>1 DEF LoadCurrent, Operand, Assigned, MachineOK, Register
    <3>3. code' = Left(LoadAll, 1, Return)
      <4>1. code' = Left(Switching, Len(Switching) + 1, Resuming)
        BY <2>2, <2>3, <2>6, <3>1 DEF LoadCurrent
      <4>2. code' = Resuming
        BY <4>1, Pieces, LeftNothing
      <4> QED
        BY <4>2, Pieces, LeftAll DEF Resuming
    <3>4. RestoringAt(1, u, depth[u], u)'
      BY <3>2 DEF RestoringAt, Assigned, Register
    <3>5. /\ UNCHANGED <<setup, current_task_num, current_task_ctx, step, depth>>
          /\ UNCHANGED <<pending, mayInterrupt, tickSince, memory, context>>
      BY <3>1 DEF LoadCurrent, history, sketchVars
    <3>6. InResuming(u)'
      BY <2>1, <2>6, <3>3, <3>4, <3>5 DEF InResuming
    <3>7. Suspended(u)' /\ Suspended(1 - u)'
      BY <1>1, <1>2, <3>5, SuspendedKept
    <3> QED
      BY <3>2, <3>5, <3>6, <3>7 DEF Arriving, TypeOK
  <2> QED
    BY <2>4, <2>5, <2>6
<1>4. CASE InResuming(u)
  <2>1. PICK p \in 1 .. 23 : code = Left(LoadAll, p, Return) /\ RestoringAt(p, u, depth[u], u)
    BY <1>4 DEF InResuming
  <2>2. /\ current_task_num = u /\ current_task_ctx = Pointer(u)
        /\ pending => tickSince
    BY <1>4 DEF InResuming
  <2>3. LoadAll \in Program /\ Len(LoadAll) = 22 /\ Return \in Program
    BY LoadingBlock, Pieces
  <2>4. /\ context[u]["SP"] = StackPointer(u, depth[u])
        /\ context[u]["pc"] = <<"pc", u, step[u]>> /\ context[u]["SREG"][1] = "on"
    BY <1>2 DEF Suspended, Intact
  <2>5. CASE p < 23
    <3>n. p \in 1 .. 22
      BY <2>5
    <3>1. code # <<>> /\ Head(code) = LoadAll[p]
      BY <2>1, <2>3, <3>n, LeftStep
    <3>2. MacroStep /\ Instruction
      BY <3>n, <3>1, MacroInstructions, NextInstruction DEF MacroStep
    <3>d. PICK d \in Nat : d = depth[u]
      BY <1>1
    <3>3. /\ MachineOK' /\ Undisturbed(u, d, u) /\ UNCHANGED context
          /\ code' = Left(LoadAll, p + 1, Return) /\ RestoringAt(p + 1, u, d, u)'
      <4>1. /\ RestoringAt(p, u, d, u) /\ context[u]["SP"] = StackPointer(u, d)
            /\ d + 3 <= StackSize
        BY <1>1, <2>1, <2>4, <3>d
      <4> QED
        BY <1>1, <2>1, <2>3, <3>n, <3>2, <4>1, RestoringStep
    <3>4. /\ UNCHANGED <<setup, current_task_num, current_task_ctx, step, depth>>
          /\ UNCHANGED <<pending, tickSince>>
      BY <3>2 DEF MacroStep, history
    <3>5. InResuming(u)'
      <4>1. p + 1 \in 1 .. 23 /\ d = depth'[u]
        BY <3>n, <3>d, <3>4
      <4> QED
        BY <2>2, <3>3, <3>4, <4>1 DEF InResuming
    <3>6. Suspended(u)' /\ Suspended(1 - u)'
      <4>1. memory'[1 - u] = memory[1 - u] /\ \A i \in 1 .. depth[u] : memory'[u][i] = memory[u][i]
        BY <1>1, <3>d, <3>3, Sizes DEF Undisturbed
      <4> QED
        BY <1>1, <1>2, <3>3, <3>4, <4>1, SuspendedKept
    <3> QED
      BY <3>2, <3>3, <3>4, <3>5, <3>6, MacroTypes DEF Arriving
  <2>6. CASE p = 23
    <3>1. code = Return
      <4>1. code = Left(LoadAll, Len(LoadAll) + 1, Return)
        BY <2>1, <2>3, <2>6
      <4> QED
        BY <2>3, <4>1, LeftNothing
    <3>2. code # <<>> /\ Head(code) = <<"ret">> /\ Tail(code) = <<>>
      BY <3>1 DEF Return
    <3>3. MacroStep /\ Instruction
      BY <3>2, NextInstruction DEF MacroStep, Called
    <3>4. /\ reg["SP"] = StackPointer(u, depth[u] + 1)
          /\ memory[u][depth[u] + 1] = context[u]["pc"]
          /\ \A r \in Register \ {"SP"} : reg[r] = context[u][r]
      BY <2>1, <2>6 DEF RestoringAt, RestoreDepth, Register
    <3>d. PICK d \in Nat : d = depth[u]
      BY <1>1
    <3>5. /\ MachineOK' /\ code' = <<>> /\ Taken(u, d + 1) /\ pc' = memory[u][d + 1]
          /\ \A y \in Register \ {"SP"} : reg'[y] = reg[y]
      <4>1. d + 1 \in Nat /\ d + 1 <= StackSize /\ reg["SP"] = StackPointer(u, d + 1)
        BY <1>1, <3>4, <3>d
      <4> DEFINE n == d + 1
      <4>2. n \in Nat /\ n <= StackSize /\ reg["SP"] = StackPointer(u, n)
        BY <4>1
      <4> HIDE DEF n
      <4>3. /\ MachineOK' /\ code' = Tail(code) /\ Taken(u, n) /\ pc' = memory[u][n]
            /\ \A y \in Register \ {"SP"} : reg'[y] = reg[y]
        BY <1>1, <3>2, <3>3, <4>2, RetEffect
      <4> QED
        BY <3>2, <4>3 DEF n
    <3>6. /\ UNCHANGED <<setup, current_task_num, current_task_ctx, step, depth>>
          /\ UNCHANGED <<pending, tickSince>>
      BY <3>3 DEF MacroStep, history
    <3>7. mayInterrupt' = FALSE
      <4>1. Executes("ret")
        BY <3>2 DEF Executes
      <4> QED
        BY <3>3, <4>1, Zenon DEF MacroStep
    <3>8. /\ \A i \in 1 .. depth[u] : memory'[u][i] = memory[u][i]
          /\ memory'[1 - u] = memory[1 - u] /\ UNCHANGED context
      BY <1>1, <3>d, <3>5, Sizes DEF Taken
    <3>9. Suspended(u)' /\ Suspended(1 - u)'
      BY <1>1, <1>2, <3>6, <3>8, SuspendedKept
    <3>10. /\ reg'["SP"] = StackPointer(u, depth'[u])
           /\ \A r \in Register \ {"SP"} : reg'[r] = context'[u][r]
      BY <3>d, <3>4, <3>5, <3>6, <3>8 DEF Taken
    <3>11. Intact(u, reg)' /\ reg'["SREG"][1] = "on"
      <4>1. Intact(u, context[u])' /\ context'[u]["SREG"][1] = "on"
        BY <3>9 DEF Suspended
      <4>2. Relied(u)' \subseteq Register \ {"SP"} /\ "SREG" \in Register \ {"SP"}
        BY DEF Relied, General, Register
      <4>3. context'[u]["SP"] = StackPointer(u, depth'[u])
        BY <4>1 DEF Intact
      <4> QED
        BY <3>10, <4>1, <4>2, <4>3 DEF Intact
    <3>12. pc' = <<"pc", u, step'[u]>>
      BY <2>4, <3>d, <3>4, <3>5, <3>6
    <3>13. (pending => tickSince)'
      BY <2>2, <3>6, Zenon
    <3>14. Running(u)'
      BY <3>5, <3>7, <3>11, <3>12, <3>13 DEF Running
    <3> QED
      BY <2>2, <3>3, <3>5, <3>6, <3>9, <3>14, MacroTypes
  <2> QED
    BY <2>5, <2>6
<1> QED
  BY <1>3, <1>4 DEF Arriving
-----------------------------------------------------------------------------
(* A task at work, and interrupted.                                          *)

(* A task's own instruction disturbs neither its stack nor the other task.  *)
LEMMA WorkStep ==
  ASSUME TypeOK, NEW t \in Task, Running(t), Suspended(1 - t), Work
  PROVE  /\ TypeOK' /\ Running(t)' /\ Suspended(1 - t)'
         /\ UNCHANGED <<setup, current_task_num, current_task_ctx>>
<1> DEFINE next == IF step[t] = "odd" THEN "even" ELSE "odd"
<1>1. /\ MachineOK /\ t \in Stack /\ 1 - t \in Stack /\ 1 - t \in Task /\ 1 - t # t
      /\ depth[t] \in 0 .. MaxUse /\ MaxUse \in Nat /\ MaxUse <= StackSize /\ StackSize \in Nat
  BY Sizes DEF TypeOK
<1>2. pc[2] = t /\ reg["SP"] = StackPointer(t, depth[t]) /\ reg["SREG"][1] = "on"
  BY DEF Running, Intact
<1>3. reg["SP"][2] = t /\ reg["SP"][3] = depth[t]
  BY <1>2 DEF StackPointer
<1>4. PICK n \in {depth[t] - 1, depth[t], depth[t] + 1} \cap (0 .. MaxUse) :
        /\ DOMAIN reg' = Register
        /\ \A r \in General : reg'[r] = <<r, t, next>>
        /\ reg'["SREG"] = WithFlags(reg["SREG"], <<"SREG", t, next>>)
        /\ reg'["SP"] = StackPointer(reg["SP"][2], n)
        /\ pc' = <<"pc", t, next>>
        /\ memory' = IF n > depth[t] THEN MemoryWith(<<"entry", t, n>>) ELSE memory
        /\ step' = [step EXCEPT ![t] = next]
        /\ depth' = [depth EXCEPT ![t] = @ + n - depth[t]]
  <2> DEFINE u  == pc[2]
             m  == IF step[u] = "odd" THEN "even" ELSE "odd"
             du == reg["SP"][3]
  <2>1. PICK n \in {du - 1, du, du + 1} \cap (0 .. MaxUse) :
          /\ reg' = [r \in Register |->
               IF r = "SREG" THEN WithFlags(reg[r], <<r, u, m>>)
               ELSE IF r = "SP" THEN StackPointer(reg[r][2], n) ELSE <<r, u, m>>]
          /\ pc' = <<"pc", u, m>>
          /\ memory' = IF n > du THEN MemoryWith(<<"entry", u, n>>) ELSE memory
          /\ step' = [step EXCEPT ![u] = m]
          /\ depth' = [depth EXCEPT ![u] = @ + n - du]
    BY DEF Work
  <2>2. u = t /\ du = depth[t] /\ m = next
    BY <1>2, <1>3
  <2> HIDE DEF u, m, du, next
  <2>3. /\ DOMAIN reg' = Register
        /\ \A r \in General : reg'[r] = <<r, u, m>>
        /\ reg'["SREG"] = WithFlags(reg["SREG"], <<"SREG", u, m>>)
        /\ reg'["SP"] = StackPointer(reg["SP"][2], n)
    BY <2>1 DEF General, Register
  <2> QED
    BY <2>1, <2>2, <2>3
<1>5. /\ code = <<>> /\ code' = <<>> /\ UNCHANGED <<context, setup, pending, tickSince>>
      /\ UNCHANGED <<current_task_num, current_task_ctx>>
      /\ mayInterrupt' \in BOOLEAN
  BY DEF Work
<1>6. next \in {"start", "odd", "even"} /\ next # "start"
  OBVIOUS
<1> HIDE DEF next
<1>7. n \in Int /\ depth[t] \in Int
  BY <1>1, <1>4
<1>8. depth \in [Task -> 0 .. MaxUse] /\ step \in [Task -> {"start", "odd", "even"}]
  BY DEF TypeOK
<1>9. /\ depth'[t] = n /\ depth'[1 - t] = depth[1 - t]
      /\ step'[t] = next /\ step'[1 - t] = step[1 - t]
      /\ depth' \in [Task -> 0 .. MaxUse] /\ step' \in [Task -> {"start", "odd", "even"}]
  BY <1>1, <1>4, <1>6, <1>7, <1>8
<1>10. /\ memory'[1 - t] = memory[1 - t]
       /\ DOMAIN memory' = Stack /\ \A s \in Stack : DOMAIN memory'[s] = 1 .. StackSize
       /\ \A i \in 1 .. n : memory'[t][i] = <<"entry", t, i>>
  <2>1. \A i \in 1 .. depth[t] : memory[t][i] = <<"entry", t, i>>
    BY DEF Running, Intact
  <2>2. CASE n > depth[t]
    <3>1. n = depth[t] + 1 /\ n \in 1 .. StackSize
      BY <1>1, <1>4, <2>2
    <3>2. memory' = [memory EXCEPT ![t][n] = <<"entry", t, n>>]
      BY <1>3, <1>4, <2>2, <3>1 DEF MemoryWith
    <3> QED
      BY <1>1, <2>1, <3>1, <3>2 DEF MachineOK
  <2>3. CASE ~(n > depth[t])
    <3>1. memory' = memory /\ n <= depth[t]
      BY <1>4, <1>7, <2>3
    <3>2. \A i \in 1 .. n : i \in 1 .. depth[t]
      BY <1>7, <3>1
    <3> QED
      BY <1>1, <2>1, <3>1, <3>2 DEF MachineOK
  <2> QED
    BY <2>2, <2>3
<1>11. /\ DOMAIN reg' = Register
       /\ \A r \in General : reg'[r] = <<r, t, next>>
       /\ reg'["SP"] = StackPointer(t, n)
       /\ reg'["SREG"] = <<"on", t, next>>
  <2>1. reg'["SREG"] = <<"on", t, next>>
    BY <1>2, <1>4 DEF WithFlags
  <2> QED
    BY <1>3, <1>4, <2>1
<1>12. TypeOK'
  <2>1. MachineOK'
    BY <1>1, <1>5, <1>10, <1>11 DEF MachineOK
  <2>2. setup' \in 0 .. 4 /\ current_task_num' \in Task /\ pending' \in BOOLEAN /\ tickSince' \in BOOLEAN
    BY <1>5 DEF TypeOK
  <2> QED
    BY <1>5, <1>9, <2>1, <2>2 DEF TypeOK
<1>13. Intact(t, reg)'
  BY <1>6, <1>9, <1>10, <1>11 DEF Intact, Relied
<1>14. (pending => tickSince)'
  <2>1. pending => tickSince
    BY DEF Running
  <2> QED
    BY <1>5, <2>1, Zenon
<1>15. Running(t)'
  <2>1. code' = <<>> /\ pc' = <<"pc", t, step'[t]>> /\ step'[t] # "start" /\ reg'["SREG"][1] = "on"
    BY <1>4, <1>5, <1>6, <1>9, <1>11
  <2> QED
    BY <1>13, <1>14, <2>1 DEF Running
<1>16. Suspended(1 - t)'
  BY <1>1, <1>5, <1>9, <1>10 DEF Suspended, Intact, Relied
<1> QED
  BY <1>5, <1>12, <1>15, <1>16

(* The interrupt finds the task's registers in the processor.               *)
LEMMA InterruptStep ==
  ASSUME TypeOK, NEW t \in Task, Running(t), Suspended(1 - t), Interrupt,
         current_task_num = t, current_task_ctx = Pointer(t)
  PROVE  /\ TypeOK' /\ setup' = setup
         /\ \E v \in {TaskContext(t)'}, d \in {depth'[t]} : Leaving(t, v, d)'
<1>1. PICK v : v = TaskContext(t)
  OBVIOUS
<1>2. PICK d : d = depth[t]
  OBVIOUS
<1>3. /\ MachineOK /\ t \in Stack /\ 1 - t \in Stack /\ 1 - t \in Task /\ 1 - t # t
      /\ d \in Nat /\ d + 1 \in 1 .. StackSize /\ StackSize \in Nat
  BY <1>2, Sizes DEF TypeOK
<1>4. /\ step[t] # "start" /\ pc = <<"pc", t, step[t]>> /\ code = <<>>
      /\ Intact(t, reg) /\ reg["SREG"][1] = "on"
  BY DEF Interrupt, InterruptDue, Running
<1>5. \A f \in Register : reg[f] = v[f]
  BY <1>1, <1>4 DEF Intact, Relied, TaskContext, General, Register, Field
<1>6. v["pc"] = pc /\ v["SP"] = StackPointer(t, d)
  BY <1>1, <1>2, <1>4 DEF TaskContext, Field, Register
<1>7. /\ UNCHANGED <<pc, context, current_task_num, current_task_ctx, setup, pending, mayInterrupt>>
      /\ UNCHANGED <<step, depth>> /\ tickSince' = FALSE /\ code' = TCB2_INT_vect
  BY DEF Interrupt, sketchVars
<1>8. reg["SP"][2] = t /\ reg["SP"][3] = d
  BY <1>2, <1>4 DEF Intact, StackPointer
<1>9. /\ memory' = [memory EXCEPT ![t][d + 1] = pc]
      /\ reg' = [reg EXCEPT !["SP"] = StackPointer(t, d + 1)]
  BY <1>8 DEF Interrupt, MemoryWith, Deeper
<1>10. /\ memory'[t][d + 1] = pc /\ memory'[1 - t] = memory[1 - t]
       /\ \A i \in 1 .. d : memory'[t][i] = memory[t][i]
       /\ DOMAIN memory' = Stack /\ \A s \in Stack : DOMAIN memory'[s] = 1 .. StackSize
  BY <1>3, <1>9 DEF MachineOK
<1>11. /\ DOMAIN reg' = Register /\ reg'["SP"] = StackPointer(t, d + 1)
       /\ \A f \in Register \ {"SP"} : reg'[f] = reg[f]
  BY <1>3, <1>9 DEF MachineOK, Register
<1>12. EnteringAt(1, v, t, d, v["SREG"])'
  BY <1>5, <1>6, <1>10, <1>11 DEF EnteringAt, EntryDepth, Register
<1>13. InEnterIsr(t, v, d)'
  <2>1. code' = Left(EnterIsr, 1, Saving \o (Switching \o Resuming))
    BY <1>7, IsrCode, EnterIsrBlock, LeftAll
  <2> QED
    BY <1>12, <2>1 DEF InEnterIsr
<1>14. StackIntact(t)' /\ Suspended(1 - t)'
  <2>1. StackIntact(t)
    BY <1>4 DEF Intact, StackIntact
  <2> QED
    BY <1>2, <1>3, <1>7, <1>10, <2>1, StackIntactKept, SuspendedKept
<1>15. v = TaskContext(t)' /\ d = depth'[t]
  BY <1>1, <1>2, <1>7 DEF TaskContext
<1>16. Leaving(t, v, d)'
  BY <1>4, <1>6, <1>7, <1>13, <1>14, <1>15 DEF Leaving
<1>17. TypeOK'
  <2>1. MachineOK'
    BY <1>3, <1>7, <1>10, <1>11 DEF MachineOK
  <2>2. pending' \in BOOLEAN /\ mayInterrupt' \in BOOLEAN /\ tickSince' \in BOOLEAN
    BY <1>7 DEF TypeOK
  <2>3. /\ setup' \in 0 .. 4 /\ current_task_num' \in Task
        /\ step' \in [Task -> {"start", "odd", "even"}] /\ depth' \in [Task -> 0 .. MaxUse]
    BY <1>7 DEF TypeOK
  <2> QED
    BY <2>1, <2>2, <2>3 DEF TypeOK
<1> QED
  BY <1>7, <1>15, <1>16, <1>17
-----------------------------------------------------------------------------
(* setup.                                                                    *)

(* While a statement of setup runs the sketch is as it was.                 *)
LEMMA SetupStateKept ==
  ASSUME SetupState, UNCHANGED <<pending, mayInterrupt, step, depth, current_task_num>>,
         setup' > 0 => current_task_ctx' = Pointer(0)
  PROVE  SetupState'
<1>1. ~pending' /\ ~mayInterrupt'
  <2>1. ~pending /\ ~mayInterrupt
    BY DEF SetupState
  <2> QED
    BY <2>1
<1>2. /\ step' = [t \in Task |-> "start"] /\ depth' = [t \in Task |-> 0]
      /\ current_task_num' = 0
  BY DEF SetupState
<1> QED
  BY <1>1, <1>2 DEF SetupState

(* They leave the types alone. *)
LEMMA SetupTypes ==
  ASSUME TypeOK, UNCHANGED <<pending, mayInterrupt, tickSince, step, depth, current_task_num>>,
         MachineOK', setup' \in 0 .. 4
  PROVE  TypeOK'
<1>1. pending' \in BOOLEAN /\ mayInterrupt' \in BOOLEAN /\ tickSince' \in BOOLEAN
  BY DEF TypeOK
<1>2. /\ current_task_num' \in Task
      /\ step' \in [Task -> {"start", "odd", "even"}] /\ depth' \in [Task -> 0 .. MaxUse]
  BY DEF TypeOK
<1> QED
  BY <1>1, <1>2 DEF TypeOK

(* Between the statements only the next one can run. *)
LEMMA StatementNext ==
  ASSUME code = <<>>, setup < 4, setup \in Nat, Next
  PROVE  /\ setup = 0 => SetupFirstTask
         /\ setup = 1 => SetupGetContext
         /\ setup = 2 => SetupMakeContext
         /\ setup = 3 => start_system_timer
<1>1. ~Tick /\ ~Work /\ ~Interrupt
  BY DEF Tick, Work, Interrupt
<1>2. \A op : ~Executes(op)
  BY DEF Executes
<1>3. ~LoadCurrent /\ ~switch_task /\ ~ClearFlag /\ ~MacroStep
  BY <1>2 DEF LoadCurrent, switch_task, ClearFlag, MacroStep, Instruction, Push, Pop, Move,
              Offset, Cli, Store, Load, WriteHigh, WriteLow, Ret
<1>4. Setup
  BY <1>1, <1>3 DEF Next, Isr
<1> QED
  BY <1>4 DEF Setup, SetupFirstTask, SetupGetContext, SetupMakeContext, start_system_timer, InSetup

(* avr_getcontext saves the context that setup runs in to that of task 1.   *)
LEMMA GetContextStep ==
  ASSUME TypeOK, SetupState, InGetContext(SetupContext), Next
  PROVE  TypeOK' /\ SetupState' /\ setup' = setup
         /\ (InGetContext(SetupContext)' \/ InSetup2')
<1> DEFINE rest == Saving \o Return
<1>1. /\ GetContext \in Program /\ Len(GetContext) = 5 /\ Saving \in Program /\ Len(Saving) = 28
      /\ Return \in Program /\ rest \in Program
  BY GetContextBlock, SavingBlock, Pieces, Concat
<1>2. PICK v : v = SetupContext
  OBVIOUS
<1>3. PICK q : q = v["SREG"]
  OBVIOUS
<1>4. /\ MachineOK /\ 0 \in Stack /\ 1 \in Context /\ 0 \in Nat /\ 0 + 4 <= StackSize
      /\ StackSize \in Nat
  BY Sizes DEF TypeOK
<1>5. /\ v["SP"] = StackPointer(0, 0) /\ v["arg1"] = Pointer(1)
      /\ v["SREG"] = <<"on", 0, "start">> /\ v["pc"] = <<"pc", 0, "start">>
  BY <1>2 DEF SetupContext, Field, Register
<1>6. setup = 2 /\ ~Tick
  BY DEF InGetContext, Tick
<1> HIDE DEF rest
<1>7. (* Whatever instruction of the macro runs, the sketch is as it was. *)
      ASSUME MacroStep, MachineOK'
      PROVE  TypeOK' /\ SetupState' /\ setup' = setup
  <2>1. UNCHANGED <<current_task_num, current_task_ctx, setup, pending, step, depth>>
    BY <1>7 DEF MacroStep, history
  <2>2. mayInterrupt' = mayInterrupt
    <3>1. ~mayInterrupt
      BY DEF SetupState
    <3> QED
      BY <1>7, <3>1 DEF MacroStep, TypeOK
  <2>3. SetupState'
    <3>1. setup' > 0 => current_task_ctx' = Pointer(0)
      BY <2>1 DEF SetupState
    <3> QED
      BY <2>1, <2>2, <3>1, SetupStateKept
  <2> QED
    BY <1>7, <2>1, <2>3, MacroTypes
<1>8. CASE \E j \in 1 .. 5 : /\ code = Left(GetContext, j, rest)
                             /\ EnteringAt(j, v, 0, 0, q)
  <2>1. PICK j \in 1 .. 5 : code = Left(GetContext, j, rest) /\ EnteringAt(j, v, 0, 0, q)
    BY <1>8
  <2>2. code # <<>> /\ Head(code) = GetContext[j] /\ Tail(code) = Left(GetContext, j + 1, rest)
    <3>1. j \in 1 .. Len(GetContext)
      BY <1>1
    <3>2. GetContext \in Program /\ rest \in Program
      BY <1>1
    <3> QED
      BY <2>1, <3>1, <3>2, LeftStep
  <2>3. CASE j < 5
    <3>n. j \in 1 .. 4
      BY <2>3
    <3>1. Head(code) = Entry[j]
      BY <2>2, <3>n, GetContextBlock
    <3>2. MacroStep /\ Instruction
      BY <1>6, <2>2, <3>n, <3>1, MacroInstructions, NextInstruction DEF MacroStep
    <3>3. /\ MachineOK' /\ code' = Tail(code) /\ Undisturbed(0, 0, 1)
          /\ EnteringAt(j + 1, v, 0, 0, q)'
      BY <1>3, <1>4, <2>1, <2>2, <3>n, <3>1, <3>2, EnteringStep
    <3>4. TypeOK' /\ SetupState' /\ setup' = setup
      BY <1>7, <3>2, <3>3
    <3>5. InGetContext(SetupContext)'
      <4>1. j + 1 \in 1 .. 5 /\ code' = Left(GetContext, j + 1, rest)
        BY <2>2, <3>n, <3>3
      <4>2. \E i \in 1 .. 5 : code' = Left(GetContext, i, rest) /\ EnteringAt(i, v, 0, 0, q)'
        BY <3>3, <4>1
      <4> QED
        BY <1>2, <1>3, <1>6, <3>4, <4>2 DEF InGetContext, rest
    <3> QED
      BY <3>4, <3>5
  <2>4. CASE j = 5
    <3>1. Head(code) = <<"mov", "Z", "arg1">> /\ Head(code)[1] \notin Called
      BY <2>2, <2>4, GetContextBlock DEF Called
    <3>2. MacroStep /\ Instruction
      BY <1>6, <2>2, <3>1, NextInstruction DEF MacroStep
    <3>3. "Z" \in Register /\ "arg1" \in Register
      BY DEF Register
    <3>4. EnteringAt(5, v, 0, 0, q) /\ reg["arg1"] = Pointer(1)
      BY <1>5, <2>1, <2>4 DEF EnteringAt
    <3>5. MachineOK' /\ code' = Tail(code) /\ Assigned("Z", Pointer(1))
      BY <1>4, <2>2, <3>1, <3>2, <3>3, <3>4, MoveEffect
    <3>6. SavingAt(1, v, 0, 0, 1, q)'
      BY <3>3, <3>4, <3>5, EntryDone
    <3>7. code' = Left(Saving, 1, Return)
      <4>1. code' = Left(GetContext, Len(GetContext) + 1, rest)
        BY <1>1, <2>2, <2>4, <3>5
      <4>2. code' = rest
        BY <1>1, <4>1, LeftNothing
      <4> QED
        BY <1>1, <4>2, LeftAll DEF rest
    <3>8. TypeOK' /\ SetupState' /\ setup' = setup
      BY <1>7, <3>2, <3>5
    <3>9. InGetContext(SetupContext)'
      BY <1>2, <1>3, <1>6, <3>6, <3>7, <3>8 DEF InGetContext
    <3> QED
      BY <3>8, <3>9
  <2> QED
    BY <2>1, <2>3, <2>4
<1>9. CASE \E p \in 1 .. 29 : code = Left(Saving, p, Return) /\ SavingAt(p, v, 0, 0, 1, q)
  <2>1. PICK p \in 1 .. 29 : code = Left(Saving, p, Return) /\ SavingAt(p, v, 0, 0, 1, q)
    BY <1>9
  <2>2. CASE p < 29
    <3>n. p \in 1 .. 28
      BY <2>2
    <3>1. code # <<>> /\ Head(code) = Saving[p]
      <4>1. p \in 1 .. Len(Saving) /\ Saving \in Program /\ Return \in Program
        BY <1>1, <3>n
      <4> QED
        BY <2>1, <4>1, LeftStep
    <3>2. MacroStep /\ Instruction
      BY <1>6, <3>n, <3>1, MacroInstructions, NextInstruction DEF MacroStep
    <3>3. /\ MachineOK' /\ code' = Left(Saving, p + 1, Return)
          /\ SavingAt(p + 1, v, 0, 0, 1, q)'
      BY <1>1, <1>4, <1>5, <2>1, <3>n, <3>2, SavingStep
    <3>4. TypeOK' /\ SetupState' /\ setup' = setup
      BY <1>7, <3>2, <3>3
    <3>5. InGetContext(SetupContext)'
      BY <1>2, <1>3, <1>6, <3>n, <3>3, <3>4 DEF InGetContext
    <3> QED
      BY <3>4, <3>5
  <2>3. CASE p = 29
    <3>1. code = Return
      <4>1. code = Left(Saving, Len(Saving) + 1, Return)
        BY <1>1, <2>1, <2>3
      <4> QED
        BY <1>1, <4>1, LeftNothing
    <3>2. code # <<>> /\ Head(code) = <<"ret">> /\ Tail(code) = <<>>
      BY <3>1 DEF Return
    <3>3. MacroStep /\ Instruction
      BY <1>6, <3>2, NextInstruction DEF MacroStep, Called
    <3>4. /\ reg["SP"] = StackPointer(0, 1) /\ memory[0][1] = v["pc"]
          /\ reg["SREG"] = q /\ context[1]["SREG"] = v["SREG"]
      BY <2>1, <2>3 DEF SavingAt, StackAt, SaveDepth, RegistersAt, StoredAt
    <3>5. /\ MachineOK' /\ code' = <<>> /\ Taken(0, 1) /\ pc' = memory[0][1]
          /\ \A y \in Register \ {"SP"} : reg'[y] = reg[y]
      BY <1>4, <3>2, <3>3, <3>4, RetEffect
    <3>6. TypeOK' /\ SetupState' /\ setup' = setup
      BY <1>7, <3>3, <3>5
    <3>7. reg'["SP"] = StackPointer(0, 0) /\ UNCHANGED context /\ reg'["SREG"] = q
      BY <3>4, <3>5 DEF Taken, Register
    <3>8. InSetup2'
      BY <1>3, <1>5, <1>6, <3>4, <3>5, <3>6, <3>7 DEF InSetup2
    <3> QED
      BY <3>6, <3>8
  <2> QED
    BY <2>1, <2>2, <2>3
<1> QED
  BY <1>2, <1>3, <1>8, <1>9 DEF InGetContext, rest
(* The statements of setup, and the calls they make.                        *)
LEMMA SettingUpStep ==
  ASSUME TypeOK, setup < 4, SettingUp, Next
  PROVE  IInv'
<1>1. MachineOK /\ setup \in Nat /\ SetupState
  BY DEF TypeOK, SettingUp
<1>2. CASE InSetup1
  <2>1. code = <<>> /\ setup \in 0 .. 1 /\ pc = SetupContext["pc"]
        /\ \A r \in Register \ {"arg1"} : reg[r] = SetupContext[r]
    BY <1>2 DEF InSetup1
  <2>2. CASE setup = 0
    <3>1. SetupFirstTask
      BY <1>1, <2>1, <2>2, StatementNext
    <3>2. /\ setup' = 1 /\ current_task_num' = current_task_num /\ current_task_ctx' = Pointer(0)
          /\ UNCHANGED <<reg, pc, memory, context, code>>
          /\ UNCHANGED <<pending, mayInterrupt, tickSince, step, depth>>
      BY <1>1, <2>2, <3>1 DEF SetupFirstTask, InSetup, machine, history, SetupState
    <3>3. SetupState'
      BY <1>1, <3>2, SetupStateKept
    <3>4. InSetup1'
      BY <2>1, <3>2 DEF InSetup1
    <3>5. MachineOK'
      BY <1>1, <3>2 DEF MachineOK
    <3>6. TypeOK'
      BY <3>2, <3>5, SetupTypes
    <3> QED
      BY <3>2, <3>3, <3>4, <3>6 DEF IInv, SettingUp
  <2>3. CASE setup = 1
    <3>1. SetupGetContext
      BY <1>1, <2>1, <2>3, StatementNext
    <3>2. reg["SP"] = StackPointer(0, 0) /\ reg["SP"][2] = 0 /\ reg["SP"][3] = 0
      <4>1. "SP" \in Register \ {"arg1"} /\ SetupContext["SP"] = StackPointer(0, 0)
        BY DEF SetupContext, Register, Field
      <4>2. reg["SP"] = StackPointer(0, 0)
        BY <2>1, <4>1
      <4> QED
        BY <4>2 DEF StackPointer
    <3>3. /\ setup' = 2 /\ code' = avr_getcontext
          /\ memory' = [memory EXCEPT ![0][1] = pc]
          /\ reg' = [reg EXCEPT !["SP"] = StackPointer(0, 1), !["arg1"] = Pointer(1)]
          /\ UNCHANGED <<pc, context, current_task_num, current_task_ctx>>
          /\ UNCHANGED <<pending, mayInterrupt, tickSince, step, depth>>
      <4>1. /\ memory' = MemoryWith(pc)
            /\ reg' = [reg EXCEPT !["SP"] = Deeper, !["arg1"] = Pointer(1)]
        BY <3>1 DEF SetupGetContext
      <4>2. MemoryWith(pc) = [memory EXCEPT ![0][1] = pc] /\ Deeper = StackPointer(0, 1)
        <5>1. reg["SP"][3] + 1 = 1
          BY <3>2
        <5> QED
          BY <3>2, <5>1 DEF MemoryWith, Deeper
      <4>3. /\ setup' = 2 /\ code' = avr_getcontext
            /\ UNCHANGED <<pc, context, current_task_num, current_task_ctx>>
            /\ UNCHANGED <<pending, mayInterrupt, tickSince, step, depth>>
        BY <2>3, <3>1 DEF SetupGetContext, InSetup, history
      <4> QED
        BY <4>1, <4>2, <4>3
    <3>4. 0 \in Stack /\ 1 \in 1 .. StackSize /\ StackSize \in Nat
      BY Sizes
    <3>5. /\ memory'[0][1] = pc
          /\ DOMAIN memory' = Stack /\ \A s \in Stack : DOMAIN memory'[s] = 1 .. StackSize
      BY <1>1, <3>3, <3>4 DEF MachineOK
    <3>6. /\ DOMAIN reg' = Register /\ reg'["SP"] = StackPointer(0, 1)
          /\ reg'["arg1"] = Pointer(1)
          /\ \A r \in Register \ {"SP", "arg1"} : reg'[r] = reg[r]
      BY <1>1, <3>3 DEF MachineOK, Register
    <3>7. EnteringAt(1, SetupContext, 0, 0, SetupContext["SREG"])'
      <4>1. \A r \in Register \ {"SP"} : reg'[r] = SetupContext[r]
        BY <2>1, <3>6 DEF SetupContext, Register, Field
      <4> QED
        BY <2>1, <3>5, <3>6, <4>1 DEF EnteringAt, EntryDepth, Register
    <3>8. code' = Left(GetContext, 1, Saving \o Return)
      BY <3>3, GetContextCode, GetContextBlock, LeftAll
    <3>9. InGetContext(SetupContext)'
      BY <3>3, <3>7, <3>8 DEF InGetContext
    <3>10. SetupState'
      BY <1>1, <2>3, <3>3, SetupStateKept DEF SetupState
    <3>11. MachineOK'
      BY <1>1, <3>3, <3>5, <3>6 DEF MachineOK
    <3>12. TypeOK'
      BY <3>3, <3>11, SetupTypes
    <3> QED
      BY <3>3, <3>9, <3>10, <3>12 DEF IInv, SettingUp
  <2> QED
    BY <2>1, <2>2, <2>3
<1>3. CASE InGetContext(SetupContext)
  BY <1>1, <1>3, GetContextStep DEF IInv, SettingUp
<1>4. CASE InSetup2
  <2>1. /\ code = <<>> /\ setup \in 2 .. 3
        /\ pc = <<"pc", 0, "start">> /\ reg["SP"] = StackPointer(0, 0) /\ reg["SREG"][1] = "on"
        /\ setup = 2 => context[1]["SREG"][1] = "on"
        /\ setup = 3 => Suspended(1)
    BY <1>4 DEF InSetup2
  <2>2. /\ step[0] = "start" /\ step[1] = "start" /\ depth[0] = 0 /\ depth[1] = 0
        /\ current_task_num = 0 /\ current_task_ctx = Pointer(0) /\ ~pending /\ ~mayInterrupt
    BY <1>1, <2>1 DEF SetupState
  <2>3. CASE setup = 2
    <3>1. SetupMakeContext
      BY <1>1, <2>1, <2>3, StatementNext
    <3>2. /\ setup' = 3 /\ UNCHANGED <<reg, pc, memory, code, current_task_num, current_task_ctx>>
          /\ UNCHANGED <<pending, mayInterrupt, tickSince, step, depth>>
      BY <2>3, <3>1 DEF SetupMakeContext, InSetup, history
    <3>3. 1 \in Context /\ DOMAIN context[1] = Field /\ DOMAIN context = Context
      BY <1>1, Sizes DEF MachineOK
    <3>4. /\ context'[1]["SP"] = StackPointer(1, 0) /\ context'[1]["pc"] = <<"pc", 1, "start">>
          /\ \A r \in {"arg1", "arg2", "arg3"} : context'[1][r] = <<r, 1, "start">>
          /\ context'[1]["SREG"] = context[1]["SREG"]
          /\ DOMAIN context' = Context /\ \A c \in Context : DOMAIN context'[c] = Field
      BY <1>1, <3>1, <3>3 DEF SetupMakeContext, avr_makecontext, Field, Register, MachineOK
    <3>5. Suspended(1)'
      BY <2>1, <2>2, <2>3, <3>2, <3>4 DEF Suspended, Intact, Relied
    <3>6. InSetup2'
      BY <2>1, <3>2, <3>5 DEF InSetup2
    <3>7. SetupState'
      BY <1>1, <2>2, <3>2, SetupStateKept
    <3>8. MachineOK'
      BY <1>1, <3>2, <3>4 DEF MachineOK
    <3>9. TypeOK'
      BY <3>2, <3>8, SetupTypes
    <3> QED
      BY <3>2, <3>6, <3>7, <3>9 DEF IInv, SettingUp
  <2>4. CASE setup = 3
    <3>1. start_system_timer
      BY <1>1, <2>1, <2>4, StatementNext
    <3>2. /\ setup' = 4 /\ UNCHANGED <<reg, pc, memory, context, code>>
          /\ UNCHANGED <<current_task_num, current_task_ctx>>
          /\ UNCHANGED <<pending, mayInterrupt, tickSince, step, depth>>
      BY <2>4, <3>1 DEF start_system_timer, InSetup, machine, history
    <3>3. Intact(0, reg)'
      BY <2>1, <2>2, <3>2 DEF Intact, Relied
    <3>4. ~mayInterrupt' /\ ~pending'
      <4>1. mayInterrupt' = mayInterrupt /\ pending' = pending
        BY <3>2
      <4> QED
        BY <2>2, <4>1
    <3>5. Running(0)'
      BY <2>1, <2>2, <3>2, <3>3, <3>4 DEF Running
    <3>6. Suspended(1)'
      BY <2>1, <2>4, <3>2 DEF Suspended, Intact, Relied
    <3>7. TypeOK'
      <4>1. MachineOK'
        BY <1>1, <3>2 DEF MachineOK
      <4> QED
        BY <3>2, <4>1, SetupTypes
    <3>8. TaskStage(0)'
      BY <2>2, <3>2, <3>5, <3>6 DEF TaskStage
    <3> QED
      BY <3>2, <3>7, <3>8 DEF IInv
  <2> QED
    BY <2>1, <2>3, <2>4
<1> QED
  BY <1>2, <1>3, <1>4 DEF SettingUp

-----------------------------------------------------------------------------
(* All together.                                                             *)

(* A tick, and a step of nothing here, leave the machine and both tasks.    *)
LEMMA MachineKept ==
  ASSUME IInv, UNCHANGED <<machine, current_task_num, current_task_ctx, setup, mayInterrupt,
                           step, depth>>,
         pending' \in BOOLEAN, tickSince' \in BOOLEAN, setup < 4 => ~pending',
         (pending => tickSince) => (pending' => tickSince')
  PROVE  IInv'
<1>1. UNCHANGED <<reg, pc, memory, context, code>>
  BY DEF machine
<1>2. TypeOK'
  <2>1. MachineOK'
    BY <1>1 DEF IInv, TypeOK, MachineOK
  <2>2. mayInterrupt' \in BOOLEAN
    BY DEF IInv, TypeOK
  <2>3. /\ setup' \in 0 .. 4 /\ current_task_num' \in Task
        /\ step' \in [Task -> {"start", "odd", "even"}] /\ depth' \in [Task -> 0 .. MaxUse]
    BY DEF IInv, TypeOK
  <2> QED
    BY <2>1, <2>2, <2>3 DEF TypeOK
<1>3. \A j, v, s, d, q : EnteringAt(j, v, s, d, q) => EnteringAt(j, v, s, d, q)'
  BY <1>1 DEF EnteringAt
<1>4. \A p, v, s, d, c, q : SavingAt(p, v, s, d, c, q) => SavingAt(p, v, s, d, c, q)'
  BY <1>1 DEF SavingAt, StackAt, RegistersAt, StoredAt
<1>5. \A p, s, d, c : RestoringAt(p, s, d, c) => RestoringAt(p, s, d, c)'
  BY <1>1 DEF RestoringAt
<1>6. \A t : Suspended(t) => Suspended(t)'
  BY <1>1 DEF Suspended, Intact, Relied
<1>7. ASSUME setup < 4, SettingUp
      PROVE  SettingUp'
  <2>1. SetupState'
    <3>1. ~mayInterrupt' /\ ~pending'
      <4>1. ~mayInterrupt
        BY <1>7 DEF SettingUp, SetupState
      <4> QED
        BY <1>7, <4>1
    <3>2. SetupState /\ UNCHANGED <<setup, current_task_num, current_task_ctx, step, depth>>
      BY <1>7 DEF SettingUp
    <3> QED
      BY <3>1, <3>2 DEF SetupState
  <2>2. InSetup1 => InSetup1'
    BY <1>1 DEF InSetup1
  <2>3. InGetContext(SetupContext) => InGetContext(SetupContext)'
    BY <1>1, <1>3, <1>4 DEF InGetContext
  <2>4. InSetup2 => InSetup2'
    BY <1>1, <1>6 DEF InSetup2
  <2> QED
    BY <1>7, <2>1, <2>2, <2>3, <2>4 DEF SettingUp
<1>8. ASSUME NEW t \in Task, Running(t)
      PROVE  Running(t)'
  <2>1. (pending => tickSince) /\ (mayInterrupt => step[t] # "start") /\ Intact(t, reg)
    BY <1>8 DEF Running
  <2>2. pending' => tickSince'
    BY <2>1
  <2>3. Intact(t, reg)'
    BY <1>1, <2>1 DEF Intact, Relied
  <2>4. mayInterrupt' => step'[t] # "start"
    BY <2>1
  <2>5. code' = <<>> /\ pc' = <<"pc", t, step'[t]>> /\ reg'["SREG"][1] = "on"
    BY <1>1, <1>8 DEF Running
  <2> QED
    BY <2>2, <2>3, <2>4, <2>5 DEF Running
<1>9. ASSUME NEW t \in Task, NEW v, NEW d, Leaving(t, v, d)
      PROVE  Leaving(t, v, d)' /\ TaskContext(t)' = TaskContext(t) /\ depth'[t] = depth[t]
  <2>1. InEnterIsr(t, v, d) => InEnterIsr(t, v, d)'
    BY <1>1, <1>3 DEF InEnterIsr
  <2>2. InSaving(t, v, d) => InSaving(t, v, d)'
    BY <1>1, <1>4 DEF InSaving
  <2>3. StackIntact(t)' /\ TaskContext(t)' = TaskContext(t)
    BY <1>1, <1>9 DEF Leaving, StackIntact, TaskContext
  <2> QED
    BY <1>1, <1>6, <1>9, <2>1, <2>2, <2>3 DEF Leaving
<1>10. ASSUME NEW u \in Task, Arriving(u)
       PROVE  Arriving(u)'
  <2>1. CASE InSwitching(u)
    <3>1. PICK i \in 1 .. 3 :
            /\ code = Left(Switching, i, Resuming)
            /\ i = 1 => current_task_num = 1 - u /\ current_task_ctx = Pointer(1 - u)
            /\ i > 1 => current_task_num = u /\ current_task_ctx = Pointer(u)
            /\ i > 2 /\ pending => tickSince
            /\ reg["SP"] = StackPointer(1 - u, depth[1 - u] + 1)
      BY <2>1 DEF InSwitching
    <3>2. i > 2 /\ pending' => tickSince'
      BY <3>1
    <3>3. InSwitching(u)'
      BY <1>1, <3>1, <3>2 DEF InSwitching
    <3> QED
      BY <1>6, <1>10, <3>3 DEF Arriving
  <2>2. CASE InResuming(u)
    <3>1. PICK p \in 1 .. 23 :
            /\ code = Left(LoadAll, p, Return) /\ RestoringAt(p, u, depth[u], u)
            /\ current_task_num = u /\ current_task_ctx = Pointer(u)
            /\ pending => tickSince
      BY <2>2 DEF InResuming
    <3>2. pending' => tickSince'
      BY <3>1
    <3>3. InResuming(u)'
      BY <1>1, <1>5, <3>1, <3>2 DEF InResuming
    <3> QED
      BY <1>6, <1>10, <3>3 DEF Arriving
  <2> QED
    BY <1>10, <2>1, <2>2 DEF Arriving
<1>11. \A t \in Task : TaskStage(t) => TaskStage(t)'
  BY <1>6, <1>8, <1>9, <1>10 DEF TaskStage
<1> QED
  BY <1>2, <1>7, <1>11 DEF IInv

(* A task that runs works or is interrupted. *)
LEMMA RunningStep ==
  ASSUME TypeOK, setup = 4, NEW t \in Task, Running(t), Suspended(1 - t), Next, ~Tick,
         current_task_num = t, current_task_ctx = Pointer(t)
  PROVE  TypeOK' /\ setup' = setup /\ TaskStage(t)'
<1>1. code = <<>>
  BY DEF Running
<1>2. \A op : ~Executes(op)
  BY <1>1 DEF Executes
<1>3. ~LoadCurrent /\ ~switch_task /\ ~ClearFlag /\ ~MacroStep
  BY <1>2 DEF LoadCurrent, switch_task, ClearFlag, MacroStep, Instruction, Push, Pop, Move,
              Offset, Cli, Store, Load, WriteHigh, WriteLow, Ret
<1>4. ~Setup
  BY DEF Setup, SetupFirstTask, SetupGetContext, SetupMakeContext, start_system_timer, InSetup
<1>5. Work \/ Interrupt
  BY <1>3, <1>4 DEF Next, Isr
<1>6. CASE Work
  BY <1>6, WorkStep DEF TaskStage
<1>7. CASE Interrupt
  BY <1>7, InterruptStep DEF TaskStage
<1> QED
  BY <1>5, <1>6, <1>7

(* The invariant holds initially. *)
LEMMA InvariantInit ==
  ASSUME Init
  PROVE  IInv
<1>1. TypeOK
  <2>1. MachineOK
    BY DEF Init, MachineOK
  <2>2. pending \in BOOLEAN /\ mayInterrupt \in BOOLEAN /\ tickSince \in BOOLEAN
    BY DEF Init
  <2>3. /\ setup \in 0 .. 4 /\ current_task_num \in Task
        /\ step \in [Task -> {"start", "odd", "even"}] /\ depth \in [Task -> 0 .. MaxUse]
    BY Sizes DEF Init
  <2> QED
    BY <2>1, <2>2, <2>3 DEF TypeOK
<1>2. SettingUp
  BY DEF Init, SettingUp, SetupState, InSetup1, SetupContext, Register, Field
<1> QED
  BY <1>1, <1>2 DEF Init, IInv

(* Every step keeps it. *)
LEMMA InvariantNext ==
  ASSUME IInv, [Next]_vars
  PROVE  IInv'
<1>1. CASE UNCHANGED vars
  <2>1. UNCHANGED <<machine, current_task_num, current_task_ctx, setup, mayInterrupt, step, depth>>
    BY <1>1 DEF vars, sketchVars, history
  <2>2. pending' = pending /\ tickSince' = tickSince
    BY <1>1 DEF vars, sketchVars, history
  <2>3. setup < 4 => ~pending'
    BY <2>2 DEF IInv, SettingUp, SetupState
  <2>4. pending' \in BOOLEAN /\ tickSince' \in BOOLEAN
    BY <2>2 DEF IInv, TypeOK
  <2> QED
    BY <2>1, <2>2, <2>3, <2>4, MachineKept
<1>2. CASE Tick
  <2>1. UNCHANGED <<machine, current_task_num, current_task_ctx, setup, mayInterrupt, step, depth>>
    BY <1>2 DEF Tick
  <2>2. pending' = TRUE /\ tickSince' = TRUE /\ setup = 4
    BY <1>2 DEF Tick
  <2> QED
    BY <2>1, <2>2, MachineKept
<1>3. CASE Next /\ ~Tick
  <2>1. CASE setup < 4
    BY <1>3, <2>1, SettingUpStep DEF IInv
  <2>2. CASE setup = 4
    <3>1. PICK t \in Task : TaskStage(t)
      BY <2>2 DEF IInv
    <3>2. TypeOK
      BY DEF IInv
    <3>3. 1 - t \in Task
      OBVIOUS
    <3>4. CASE Arriving(t)
      BY <1>3, <2>2, <3>2, <3>4, ArrivingStep DEF IInv, TaskStage
    <3>5. CASE \E v \in {TaskContext(t)}, d \in {depth[t]} : Leaving(t, v, d)
      <4>1. PICK v, d : Leaving(t, v, d)
        BY <3>5
      <4>2. TypeOK' /\ setup' = setup /\ (Leaving(t, v, d)' \/ Arriving(1 - t)')
        BY <1>3, <3>2, <4>1, LeavingStep
      <4>3. Leaving(t, v, d)' => v = TaskContext(t)' /\ d = depth'[t]
        BY DEF Leaving
      <4> QED
        BY <2>2, <3>3, <4>2, <4>3 DEF IInv, TaskStage
    <3>6. CASE /\ Running(t) /\ Suspended(1 - t)
               /\ current_task_num = t /\ current_task_ctx = Pointer(t)
      BY <1>3, <2>2, <3>2, <3>6, RunningStep DEF IInv
    <3> QED
      BY <3>1, <3>4, <3>5, <3>6 DEF TaskStage
  <2> QED
    BY <2>1, <2>2 DEF IInv
<1> QED
  BY <1>1, <1>2, <1>3

(* It holds always. *)
LEMMA Invariant == Spec => []IInv
<1>1. Init => IInv
  BY InvariantInit
<1>2. IInv /\ [Next]_vars => IInv'
  BY InvariantNext
<1> QED
  BY <1>1, <1>2, PTL DEF Spec

(* A running task's stage is the one in which it runs. *)
LEMMA RunningStage ==
  ASSUME IInv, TaskRuns
  PROVE  \E t \in Task : /\ Running(t) /\ Suspended(1 - t)
                         /\ current_task_num = t /\ current_task_ctx = Pointer(t)
<1>1. PICK t \in Task : TaskStage(t)
  BY DEF IInv, TaskRuns
<1>2. ASSUME NEW v, NEW d, Leaving(t, v, d)
      PROVE  FALSE
  <2>1. Saving \o (Switching \o Resuming) \in Program /\ Switching \o Resuming \in Program
    BY Pieces, Concat
  <2>2. \A k \in 1 .. 6 : Left(EnterIsr, k, Saving \o (Switching \o Resuming)) # <<>>
    <3>1. EnterIsr \in Program /\ Len(EnterIsr) = 6
      BY EnterIsrBlock
    <3> QED
      BY <2>1, <3>1, LeftStep
  <2>3. \A p \in 1 .. 28 : Left(Saving, p, Switching \o Resuming) # <<>>
    <3>1. Saving \in Program /\ \A p \in 1 .. 28 : p \in 1 .. Len(Saving)
      BY SavingBlock
    <3> QED
      BY <2>1, <3>1, LeftStep
  <2> QED
    BY <1>2, <2>2, <2>3 DEF Leaving, InEnterIsr, InSaving, TaskRuns
<1>3. ~Arriving(t)
  <2>1. \A i \in 1 .. 3 : Left(Switching, i, Resuming) # <<>>
    <3>1. Len(Switching) = 3
      BY DEF Switching
    <3> QED
      BY <3>1, Pieces, LeftStep
  <2>2. \A p \in 1 .. 22 : Left(LoadAll, p, Return) # <<>>
    BY LoadingBlock, Pieces, LeftStep
  <2>3. Left(LoadAll, 23, Return) # <<>>
    <3>1. Left(LoadAll, Len(LoadAll) + 1, Return) = Return
      BY LoadingBlock, Pieces, LeftNothing
    <3> QED
      BY <3>1, LoadingBlock DEF Return
  <2> QED
    BY <2>1, <2>2, <2>3 DEF Arriving, InSwitching, InResuming, TaskRuns
<1> QED
  BY <1>1, <1>2, <1>3 DEF TaskStage

(***************************************************************************)
(* The interrupt service routine keeps the tasks apart: whenever a task    *)
(* runs, its registers, flags and stack are as it left them, and those of  *)
(* the other are in its context.                                           *)
(***************************************************************************)
THEOREM TasksIsolatedCorrect == Spec => []TasksIsolated
<1>1. IInv => TasksIsolated
  <2> SUFFICES ASSUME IInv, TaskRuns
               PROVE  TasksIsolated
    BY DEF TasksIsolated
  <2>1. PICK t \in Task : Running(t) /\ Suspended(1 - t)
    BY RunningStage
  <2>2. pc[2] = t
    BY <2>1 DEF Running
  <2> QED
    BY <2>1, <2>2 DEF TasksIsolated, Running, Suspended
<1> QED
  BY <1>1, Invariant, PTL

(* switch_task's number and pointer name the task that runs afterwards. *)
THEOREM CurrentCorrect == Spec => []CurrentAgrees
<1>1. IInv => CurrentAgrees
  <2> SUFFICES ASSUME IInv, TaskRuns
               PROVE  CurrentAgrees
    BY DEF CurrentAgrees
  <2>1. PICK t \in Task : Running(t) /\ current_task_num = t /\ current_task_ctx = Pointer(t)
    BY RunningStage
  <2> QED
    BY <2>1 DEF CurrentAgrees, Running
<1> QED
  BY <1>1, Invariant, PTL

(* The routine clears the flag of the timer: no switch without a new tick. *)
THEOREM SwitchesEarnedCorrect == Spec => SwitchesEarned
<1>1. IInv /\ [Next]_vars => [Interrupt => tickSince]_vars
  <2> SUFFICES ASSUME IInv, Interrupt
               PROVE  tickSince
    OBVIOUS
  <2>1. TaskRuns /\ pending
    BY DEF Interrupt, InterruptDue, TaskRuns
  <2>2. pending => tickSince
    BY <2>1, RunningStage DEF Running
  <2> QED
    BY <2>1, <2>2, Zenon
<1> QED
  BY <1>1, Invariant, PTL DEF Spec, SwitchesEarned
=============================================================================
