------------------------- MODULE AvrContext_proofs -------------------------
(***************************************************************************)
(* What the macros of AvrContext do, instruction by instruction, for every *)
(* stack and depth, every context and whatever code they are part of.  A   *)
(* position in a macro is the number of the instruction that comes next;   *)
(* the macro is described by what holds at each of its positions, and a    *)
(* lemma takes that description from one position to the next.             *)
(***************************************************************************)
EXTENDS AvrContext, SequenceTheorems, TLAPS

(* The instructions that code is made of. *)
Instructions ==
  { <<"pop", "r0">>, <<"st", "r0", "Z", "SREG">>, <<"st", "r0", "Z", "r0">>,
    <<"st", "saved", "Z", "saved">>, <<"st", "arg3", "Z", "arg3">>,
    <<"st", "arg2", "Z", "arg2">>, <<"st", "arg1", "Z", "arg1">>, <<"st", "X", "Z", "X">>,
    <<"st", "Y", "Z", "Y">>, <<"mov", "Y", "Z">>, <<"pop", "Z">>, <<"st", "Z", "Y", "Z">>,
    <<"st", "Z", "Y", "pc">>, <<"mov", "X", "SP">>, <<"st", "X", "Y", "SP">>,
    <<"push", "Z">>, <<"mov", "Z", "Y">>, <<"mov", "Y", "SREG">>, <<"adiw">>,
    <<"mov", "SREG", "Y">>, <<"ld", "X", "Z", "X">>, <<"ld", "Y", "Z", "Y">>,
    <<"push", "Y">>, <<"ld", "Z", "Y", "Z">>, <<"pop", "Y">>, <<"ld", "r0", "Z", "SP">>,
    <<"out_SP_H", "r0">>, <<"out_SP_L", "r0">>, <<"ld", "r0", "Z", "pc">>,
    <<"push", "r0">>, <<"ld", "arg1", "Z", "arg1">>, <<"ld", "arg2", "Z", "arg2">>,
    <<"ld", "arg3", "Z", "arg3">>, <<"ld", "saved", "Z", "saved">>,
    <<"ld", "r0", "Z", "r0">>, <<"ld", "r0", "Z", "SREG">>, <<"mov", "SREG", "r0">>,
    <<"mov", "Z", "SREG">>, <<"cli">>, <<"lds", "Z">>, <<"mov", "Z", "arg1">>,
    <<"switch_task">>, <<"INTFLAGS">>, <<"mov", "Z", "arg2">>, <<"ret">> }

Program == Seq(Instructions)

(* What is left to execute from instruction j of a block on, with rest to follow. *)
Left(block, j, rest) == SubSeq(block, j, Len(block)) \o rest

(* The next instruction of a block is its jth, and what is left after it. *)
LEMMA LeftStep ==
  ASSUME NEW block \in Program, NEW rest \in Program, NEW j \in 1 .. Len(block)
  PROVE  /\ Left(block, j, rest) # <<>>
         /\ Head(Left(block, j, rest)) = block[j]
         /\ Tail(Left(block, j, rest)) = Left(block, j + 1, rest)
<1> DEFINE here == SubSeq(block, j, Len(block))
           next == SubSeq(block, j + 1, Len(block))
<1>1. Len(block) \in Nat /\ \A i \in 1 .. Len(block) : block[i] \in Instructions
  BY LenProperties, ElementOfSeq DEF Program
<1>2. <<block[j]>> \in Program /\ next \in Program /\ here \in Program
  BY <1>1, SubSeqProperties DEF Program
<1>3. here = <<block[j]>> \o next
  BY <1>1, SubSeqRecursiveFirst DEF Program
<1>4. Left(block, j, rest) = <<block[j]>> \o (next \o rest)
  <2>1. Left(block, j, rest) = here \o rest
    BY DEF Left
  <2> HIDE DEF here, next
  <2> QED
    BY <1>2, <1>3, <2>1, ConcatAssociative DEF Program
<1>5. next \o rest \in Program
  BY <1>2, ConcatProperties DEF Program
<1> HIDE DEF here, next
<1>6. /\ <<block[j]>> \o (next \o rest) # <<>>
      /\ Head(<<block[j]>> \o (next \o rest)) = block[j]
      /\ Tail(<<block[j]>> \o (next \o rest)) = next \o rest
  <2> DEFINE t == next \o rest
             s == <<block[j]>> \o t
  <2>1. /\ s \in Program /\ Len(s) = 1 + Len(t) /\ s[1] = block[j]
        /\ \A i \in 1 .. Len(t) : s[i + 1] = t[i]
        /\ Len(t) \in Nat
    BY <1>2, <1>5, ConcatProperties, LenProperties DEF Program
  <2> HIDE DEF s, t
  <2>2. s # <<>> /\ Head(s) = block[j]
    BY <2>1, EmptySeq DEF Program
  <2>3. Tail(s) \in Program /\ Len(Tail(s)) = Len(t) /\ \A i \in 1 .. Len(t) : Tail(s)[i] = t[i]
    <3>1. s \in Seq(Instructions) /\ s # <<>>
      BY <2>1, <2>2 DEF Program
    <3>2. /\ Tail(s) \in Seq(Instructions) /\ Len(Tail(s)) = Len(s) - 1
          /\ \A i \in 1 .. Len(s) - 1 : Tail(s)[i] = s[i + 1]
      BY <3>1, HeadTailProperties
    <3>3. Len(s) - 1 = Len(t)
      BY <2>1
    <3> QED
      BY <2>1, <3>2, <3>3 DEF Program
  <2>4. t \in Program
    BY <1>5 DEF t
  <2>5. Tail(s) = t
    BY <2>3, <2>4, SeqEqual DEF Program
  <2> QED
    BY <2>2, <2>5 DEF s, t
<1> QED
  BY <1>4, <1>6 DEF Left, next

(* Before the first instruction all of the block is left. *)
LEMMA LeftAll ==
  ASSUME NEW block \in Program, NEW rest
  PROVE  Left(block, 1, rest) = block \o rest
BY SubSeqFull DEF Left, Program

(* After the last one only the rest is. *)
LEMMA LeftNothing ==
  ASSUME NEW block \in Program, NEW rest \in Program
  PROVE  Left(block, Len(block) + 1, rest) = rest
<1>1. Len(block) \in Nat
  BY LenProperties DEF Program
<1>2. SubSeq(block, Len(block) + 1, Len(block)) = <<>>
  BY <1>1, SubSeqEmpty
<1> QED
  BY <1>2, ConcatEmptySeq DEF Left, Program

(* The machine has its registers, stacks and contexts. *)
MachineOK ==
  /\ DOMAIN reg = Register
  /\ DOMAIN memory = Stack /\ \A s \in Stack : DOMAIN memory[s] = 1 .. StackSize
  /\ DOMAIN context = Context /\ \A c \in Context : DOMAIN context[c] = Field

(* The effects of the instructions, where a stack pointer is (s, n). *)
Assigned(r, x) ==
  /\ reg'[r] = x
  /\ \A y \in Register \ {r} : reg'[y] = reg[y]
  /\ UNCHANGED <<pc, memory, context>>

(* Entry n + 1 of stack s is x, and on top. *)
Pushed(s, n, x) ==
  /\ reg'["SP"] = StackPointer(s, n + 1)
  /\ \A y \in Register \ {"SP"} : reg'[y] = reg[y]
  /\ memory'[s][n + 1] = x
  /\ \A i \in 1 .. StackSize : i # n + 1 => memory'[s][i] = memory[s][i]
  /\ \A e \in Stack \ {s} : memory'[e] = memory[e]
  /\ UNCHANGED <<pc, context>>

(* Entry n of stack s was on top, and is lost. *)
Taken(s, n) ==
  /\ reg'["SP"] = StackPointer(s, n - 1)
  /\ \A i \in 1 .. StackSize : i # n => memory'[s][i] = memory[s][i]
  /\ \A e \in Stack \ {s} : memory'[e] = memory[e]
  /\ UNCHANGED context

(* It went to register r. *)
Popped(s, n, r) ==
  /\ Taken(s, n)
  /\ reg'[r] = memory[s][n]
  /\ \A y \in Register \ {r, "SP"} : reg'[y] = reg[y]
  /\ UNCHANGED pc

(* Field f of context c is x. *)
Stored(c, f, x) ==
  /\ context'[c][f] = x
  /\ \A g \in Field \ {f} : context'[c][g] = context[c][g]
  /\ \A e \in Context \ {c} : context'[e] = context[e]
  /\ UNCHANGED <<reg, pc, memory>>

(* push: the value on top, the entries below it and everything else as they were. *)
LEMMA PushEffect ==
  ASSUME MachineOK, NEW r \in Register, code # <<>>, Head(code) = <<"push", r>>, Instruction,
         NEW s \in Stack, NEW n \in Nat, reg["SP"] = StackPointer(s, n), n + 1 <= StackSize,
         StackSize \in Nat
  PROVE  MachineOK' /\ code' = Tail(code) /\ Pushed(s, n, reg[r])
<1>1. \A op : Executes(op) <=> op = "push"
  BY DEF Executes
<1>2. Push /\ code' = Tail(code)
  BY <1>1 DEF Instruction, Push, Pop, Move, Offset, Cli, Store, Load, WriteHigh, WriteLow, Ret
<1>3. Operand(1) = r
  BY DEF Operand
<1>4. MachineOK'
  BY <1>2, <1>3 DEF Push, MachineOK, MemoryWith
<1> QED
  BY <1>2, <1>3, <1>4 DEF Push, Pushed, MemoryWith, Deeper, StackPointer, MachineOK, Register

(* pop: the top entry in the register; the entry itself is lost. *)
LEMMA PopEffect ==
  ASSUME MachineOK, NEW r \in Register \ {"SP"}, code # <<>>, Head(code) = <<"pop", r>>, Instruction,
         NEW s \in Stack, NEW n \in Nat, reg["SP"] = StackPointer(s, n), n <= StackSize,
         StackSize \in Nat
  PROVE  MachineOK' /\ code' = Tail(code) /\ Popped(s, n, r)
<1>1. \A op : Executes(op) <=> op = "pop"
  BY DEF Executes
<1>2. Pop /\ code' = Tail(code)
  BY <1>1 DEF Instruction, Push, Pop, Move, Offset, Cli, Store, Load, WriteHigh, WriteLow, Ret
<1>3. Operand(1) = r
  BY DEF Operand
<1>4. MachineOK'
  BY <1>2, <1>3 DEF Pop, MachineOK, MemoryWithoutTop
<1> QED
  BY <1>2, <1>3, <1>4 DEF Pop, Popped, Taken, Top, MemoryWithoutTop, Shallower, StackPointer, MachineOK, Register

(* ret: the program goes on where the top entry says. *)
LEMMA RetEffect ==
  ASSUME MachineOK, code # <<>>, Head(code) = <<"ret">>, Instruction,
         NEW s \in Stack, NEW n \in Nat, reg["SP"] = StackPointer(s, n), n <= StackSize,
         StackSize \in Nat
  PROVE  MachineOK' /\ code' = Tail(code) /\ Taken(s, n) /\ pc' = memory[s][n]
         /\ \A y \in Register \ {"SP"} : reg'[y] = reg[y]
<1>1. \A op : Executes(op) <=> op = "ret"
  BY DEF Executes
<1>2. Ret /\ code' = Tail(code)
  BY <1>1 DEF Instruction, Push, Pop, Move, Offset, Cli, Store, Load, WriteHigh, WriteLow, Ret
<1>4. MachineOK'
  BY <1>2 DEF Ret, MachineOK, MemoryWithoutTop
<1> QED
  BY <1>2, <1>4 DEF Ret, Taken, Top, MemoryWithoutTop, Shallower, StackPointer, MachineOK, Register

(* mov, movw, in, out: one register, or the status, gets the value of another. *)
LEMMA MoveEffect ==
  ASSUME MachineOK, NEW r \in Register, NEW x \in Register, code # <<>>, Head(code) = <<"mov", r, x>>, Instruction
  PROVE  MachineOK' /\ code' = Tail(code) /\ Assigned(r, reg[x])
<1>1. \A op : Executes(op) <=> op = "mov"
  BY DEF Executes
<1>2. Move /\ code' = Tail(code)
  BY <1>1 DEF Instruction, Push, Pop, Move, Offset, Cli, Store, Load, WriteHigh, WriteLow, Ret
<1>3. Operand(1) = r /\ Operand(2) = x
  BY DEF Operand
<1>4. MachineOK'
  BY <1>2, <1>3 DEF Move, MachineOK
<1> QED
  BY <1>2, <1>3, <1>4 DEF Move, Assigned, MachineOK, Register

(* adiw, sbiw: only the flags change. *)
LEMMA OffsetEffect ==
  ASSUME MachineOK, code # <<>>, Head(code) = <<"adiw">>, Instruction
  PROVE  MachineOK' /\ code' = Tail(code) /\ Assigned("SREG", WithFlags(reg["SREG"], Junk))
<1>1. \A op : Executes(op) <=> op = "adiw"
  BY DEF Executes
<1>2. Offset /\ code' = Tail(code)
  BY <1>1 DEF Instruction, Push, Pop, Move, Offset, Cli, Store, Load, WriteHigh, WriteLow, Ret
<1>4. MachineOK'
  BY <1>2 DEF Offset, MachineOK
<1> QED
  BY <1>2, <1>4 DEF Offset, Assigned, MachineOK, Register

(* cli: only the interrupt enable bit changes. *)
LEMMA CliEffect ==
  ASSUME MachineOK, code # <<>>, Head(code) = <<"cli">>, Instruction
  PROVE  MachineOK' /\ code' = Tail(code) /\ Assigned("SREG", Masked(reg["SREG"]))
<1>1. \A op : Executes(op) <=> op = "cli"
  BY DEF Executes
<1>2. Cli /\ code' = Tail(code)
  BY <1>1 DEF Instruction, Push, Pop, Move, Offset, Cli, Store, Load, WriteHigh, WriteLow, Ret
<1>4. MachineOK'
  BY <1>2 DEF Cli, MachineOK
<1> QED
  BY <1>2, <1>4 DEF Cli, Assigned, MachineOK, Register

(* st: one field of the context that the pointer points at. *)
LEMMA StoreEffect ==
  ASSUME MachineOK, NEW r \in Register, NEW z \in Register, NEW f \in Field, code # <<>>, Head(code) = <<"st", r, z, f>>, Instruction,
         NEW c \in Context, reg[z] = Pointer(c)
  PROVE  MachineOK' /\ code' = Tail(code) /\ Stored(c, f, reg[r])
<1>1. \A op : Executes(op) <=> op = "st"
  BY DEF Executes
<1>2. Store /\ code' = Tail(code)
  BY <1>1 DEF Instruction, Push, Pop, Move, Offset, Cli, Store, Load, WriteHigh, WriteLow, Ret
<1>3. Operand(1) = r /\ Operand(2) = z /\ Operand(3) = f
  BY DEF Operand
<1>4. MachineOK'
  BY <1>2, <1>3 DEF Store, MachineOK
<1> QED
  BY <1>2, <1>3, <1>4 DEF Store, Stored, Pointer, Field, MachineOK, Register

(* ld: one register gets that field. *)
LEMMA LoadEffect ==
  ASSUME MachineOK, NEW r \in Register, NEW z \in Register, NEW f \in Field, code # <<>>, Head(code) = <<"ld", r, z, f>>, Instruction,
         NEW c \in Context, reg[z] = Pointer(c)
  PROVE  MachineOK' /\ code' = Tail(code) /\ Assigned(r, context[c][f])
<1>1. \A op : Executes(op) <=> op = "ld"
  BY DEF Executes
<1>2. Load /\ code' = Tail(code)
  BY <1>1 DEF Instruction, Push, Pop, Move, Offset, Cli, Store, Load, WriteHigh, WriteLow, Ret
<1>3. Operand(1) = r /\ Operand(2) = z /\ Operand(3) = f
  BY DEF Operand
<1>4. MachineOK'
  BY <1>2, <1>3 DEF Load, MachineOK
<1> QED
  BY <1>2, <1>3, <1>4 DEF Load, Assigned, Pointer, MachineOK, Register

(* The high byte of the stack pointer chooses the stack ... *)
LEMMA WriteHighEffect ==
  ASSUME MachineOK, NEW r \in Register, code # <<>>, Head(code) = <<"out_SP_H", r>>, Instruction,
         NEW s, NEW n, reg[r] = StackPointer(s, n)
  PROVE  MachineOK' /\ code' = Tail(code) /\ Assigned("SP", StackPointer(s, reg["SP"][3]))
<1>1. \A op : Executes(op) <=> op = "out_SP_H"
  BY DEF Executes
<1>2. WriteHigh /\ code' = Tail(code)
  BY <1>1 DEF Instruction, Push, Pop, Move, Offset, Cli, Store, Load, WriteHigh, WriteLow, Ret
<1>3. Operand(1) = r
  BY DEF Operand
<1>4. MachineOK'
  BY <1>2, <1>3 DEF WriteHigh, MachineOK
<1> QED
  BY <1>2, <1>3, <1>4 DEF WriteHigh, Assigned, StackPointer, MachineOK, Register

(* ... and the low byte the entry in it. *)
LEMMA WriteLowEffect ==
  ASSUME MachineOK, NEW r \in Register, code # <<>>, Head(code) = <<"out_SP_L", r>>, Instruction,
         NEW s, NEW n, reg[r] = StackPointer(s, n), reg["SP"][2] = s
  PROVE  MachineOK' /\ code' = Tail(code) /\ Assigned("SP", StackPointer(s, n))
<1>1. \A op : Executes(op) <=> op = "out_SP_L"
  BY DEF Executes
<1>2. WriteLow /\ code' = Tail(code)
  BY <1>1 DEF Instruction, Push, Pop, Move, Offset, Cli, Store, Load, WriteHigh, WriteLow, Ret
<1>3. Operand(1) = r
  BY DEF Operand
<1>4. MachineOK'
  BY <1>2, <1>3 DEF WriteLow, MachineOK
<1> QED
  BY <1>2, <1>3, <1>4 DEF WriteLow, Assigned, StackPointer, MachineOK, Register

(* What a macro does to the rest of the machine: a stack up to an entry, the *)
(* other stacks and the other contexts stay as they are.                     *)
Undisturbed(s, d, c) ==
  /\ pc' = pc
  /\ \A i \in 1 .. d : memory'[s][i] = memory[s][i]
  /\ \A e \in Stack \ {s} : memory'[e] = memory[e]
  /\ \A e \in Context \ {c} : context'[e] = context[e]

(* AVR_SAVE_CONTEXT from the pointer in Z on. *)
Saving == StoreFirst \o << <<"st", "Y", "Z", "Y">>, <<"mov", "Y", "Z">> >> \o StoreRest

(***************************************************************************)
(* While the macro saves a program's registers v, which it entered with d  *)
(* entries in use on stack s, to context c, position p comes next; q is    *)
(* what SREG holds meanwhile.  First the entries above d, then where each  *)
(* register is, then which fields of the context are written.              *)
(***************************************************************************)
SaveDepth(p) ==
  IF p = 1 THEN 4 ELSE IF p <= 3 THEN 3 ELSE IF p <= 12 THEN 2 ELSE IF p <= 14 THEN 1
  ELSE IF p <= 18 THEN 0 ELSE IF p \in 26 .. 28 THEN 2 ELSE 1

StackAt(p, v, s, d) ==
  /\ reg["SP"] = StackPointer(s, d + SaveDepth(p))
  /\ p <= 14 \/ p >= 19 => memory[s][d + 1] = v["pc"]
  /\ p <= 12 => memory[s][d + 2] = v["Z"]
  /\ p <= 3 => memory[s][d + 3] = v["r0"]
  /\ p = 1 => memory[s][d + 4] = v["SREG"]
  /\ p \in 26 .. 28 => memory[s][d + 2] = v["Y"]

RegistersAt(p, v, c, q) ==
  /\ \A r \in {"saved", "arg1", "arg2", "arg3"} : reg[r] = v[r]
  /\ p \in 2 .. 3 => reg["r0"] = v["SREG"]
  /\ p >= 4 => reg["r0"] = v["r0"]
  /\ p <= 16 \/ p >= 24 => reg["X"] = v["X"]
  /\ p = 17 => reg["X"] = v["SP"]
  /\ p <= 11 \/ p \in 25 .. 26 \/ p = 29 => reg["Y"] = v["Y"]
  /\ p \in 12 .. 20 \/ p \in 27 .. 28 => reg["Y"] = Pointer(c)
  /\ p \in 21 .. 22 => reg["Y"] = q
  /\ p <= 12 \/ p \in 20 .. 27 => reg["Z"] = Pointer(c)
  /\ p \in 13 .. 14 \/ p >= 28 => reg["Z"] = v["Z"]
  /\ p \in 15 .. 19 => reg["Z"] = v["pc"]
  /\ p # 22 => reg["SREG"] = q

StoredAt(p, v, c) ==
  /\ p > 2 => context[c]["SREG"] = v["SREG"]
  /\ p > 4 => context[c]["r0"] = v["r0"]
  /\ p > 5 => context[c]["saved"] = v["saved"]
  /\ p > 6 => context[c]["arg3"] = v["arg3"]
  /\ p > 7 => context[c]["arg2"] = v["arg2"]
  /\ p > 8 => context[c]["arg1"] = v["arg1"]
  /\ p > 9 => context[c]["X"] = v["X"]
  /\ p > 10 => context[c]["Y"] = v["Y"]
  /\ p > 13 => context[c]["Z"] = v["Z"]
  /\ p > 15 => context[c]["pc"] = v["pc"]
  /\ p > 17 => context[c]["SP"] = v["SP"]

(* At position 1 the pointer is in Z; at position 29 all is saved. *)
SavingAt(p, v, s, d, c, q) == StackAt(p, v, s, d) /\ RegistersAt(p, v, c, q) /\ StoredAt(p, v, c)

(* Two pieces of code in a row. *)
LEMMA Concat ==
  ASSUME NEW a \in Program, NEW b \in Program
  PROVE  /\ a \o b \in Program /\ Len(a \o b) = Len(a) + Len(b)
         /\ \A i \in 1 .. Len(a) + Len(b) : (a \o b)[i] = IF i <= Len(a) THEN a[i] ELSE b[i - Len(a)]
BY ConcatProperties DEF Program

(* The instructions of Saving, by position. *)
LEMMA SavingBlock ==
  /\ Saving \in Program /\ Len(Saving) = 28
  /\ \A p \in 1 .. 9 : Saving[p] = StoreFirst[p]
  /\ Saving[10] = <<"st", "Y", "Z", "Y">> /\ Saving[11] = <<"mov", "Y", "Z">>
  /\ \A p \in 12 .. 28 : Saving[p] = StoreRest[p - 11]
<1> DEFINE between == << <<"st", "Y", "Z", "Y">>, <<"mov", "Y", "Z">> >>
           first == StoreFirst \o between
<1>1. StoreFirst \in Program
  BY DEF StoreFirst, Program, Instructions
<1>2. StoreRest \in Program
  BY DEF StoreRest, Program, Instructions
<1>3. between \in Program
  BY DEF Program, Instructions
<1>4. Len(StoreFirst) = 9 /\ Len(StoreRest) = 17
  BY DEF StoreFirst, StoreRest
<1>5. Len(between) = 2 /\ between[1] = <<"st", "Y", "Z", "Y">> /\ between[2] = <<"mov", "Y", "Z">>
  OBVIOUS
<1> HIDE DEF between
<1>6. /\ first \in Program /\ Len(first) = Len(StoreFirst) + Len(between)
      /\ \A i \in 1 .. Len(StoreFirst) + Len(between) :
           first[i] = IF i <= Len(StoreFirst) THEN StoreFirst[i] ELSE between[i - Len(StoreFirst)]
  BY <1>1, <1>3, Concat
<1>7. Saving = first \o StoreRest
  BY DEF Saving, between
<1> HIDE DEF first
<1>8. /\ Saving \in Program /\ Len(Saving) = Len(first) + Len(StoreRest)
      /\ \A i \in 1 .. Len(first) + Len(StoreRest) :
           Saving[i] = IF i <= Len(first) THEN first[i] ELSE StoreRest[i - Len(first)]
  BY <1>2, <1>6, <1>7, Concat
<1> QED
  BY <1>4, <1>5, <1>6, <1>8

(***************************************************************************)
(* Each instruction of Saving takes the machine to the next position, and  *)
(* disturbs neither the stack up to d, nor another stack or context.       *)
(***************************************************************************)
LEMMA SavingStep ==
  ASSUME MachineOK, StackSize \in Nat, NEW v, NEW s \in Stack, NEW d \in Nat, d + 4 <= StackSize,
         v["SP"] = StackPointer(s, d), NEW c \in Context, NEW q,
         NEW p \in 1 .. 28, NEW rest \in Program,
         code = Left(Saving, p, rest), SavingAt(p, v, s, d, c, q), Instruction
  PROVE  /\ MachineOK' /\ Undisturbed(s, d, c)
         /\ code' = Left(Saving, p + 1, rest) /\ SavingAt(p + 1, v, s, d, c, q)'
<1>n. "pc" \in Field /\ \A r \in {"r0", "saved", "arg1", "arg2", "arg3", "X", "Y", "Z", "SREG", "SP"} :
        r \in Register /\ r \in Field
  BY DEF Register, Field
<1>c. code # <<>> /\ Head(code) = Saving[p] /\ Tail(code) = Left(Saving, p + 1, rest)
  <2>1. p \in 1 .. Len(Saving) /\ Saving \in Program
    BY SavingBlock
  <2> QED
    BY <2>1, LeftStep
<1>1. CASE p = 1
  <2>1. Saving[1] = <<"pop", "r0">>
    BY SavingBlock DEF StoreFirst
  <2>2. reg["SP"] = StackPointer(s, d + 4)
    BY <1>1 DEF SavingAt, StackAt, SaveDepth
  <2>3. MachineOK' /\ code' = Tail(code) /\ Popped(s, d + 4, "r0")
    BY <1>n, <1>c, <1>1, <2>1, <2>2, PopEffect
  <2>4. SavingAt(2, v, s, d, c, q)'
    BY <1>1, <2>3 DEF SavingAt, StackAt, SaveDepth, RegistersAt, StoredAt, Popped, Taken, Register, Field
  <2>5. Undisturbed(s, d, c)
    BY <2>3 DEF Undisturbed, Popped, Taken
  <2> QED
    BY <1>c, <1>1, <2>3, <2>4, <2>5
<1>2. CASE p = 2
  <2>1. Saving[2] = <<"st", "r0", "Z", "SREG">>
    BY SavingBlock DEF StoreFirst
  <2>2. reg["Z"] = Pointer(c)
    BY <1>2 DEF SavingAt, RegistersAt
  <2>3. MachineOK' /\ code' = Tail(code) /\ Stored(c, "SREG", reg["r0"])
    BY <1>n, <1>c, <1>2, <2>1, <2>2, StoreEffect
  <2>4. SavingAt(3, v, s, d, c, q)'
    BY <1>2, <2>3 DEF SavingAt, StackAt, SaveDepth, RegistersAt, StoredAt, Stored, Register, Field
  <2>5. Undisturbed(s, d, c)
    BY <2>3 DEF Undisturbed, Stored
  <2> QED
    BY <1>c, <1>2, <2>3, <2>4, <2>5
<1>3. CASE p = 3
  <2>1. Saving[3] = <<"pop", "r0">>
    BY SavingBlock DEF StoreFirst
  <2>2. reg["SP"] = StackPointer(s, d + 3)
    BY <1>3 DEF SavingAt, StackAt, SaveDepth
  <2>3. MachineOK' /\ code' = Tail(code) /\ Popped(s, d + 3, "r0")
    BY <1>n, <1>c, <1>3, <2>1, <2>2, PopEffect
  <2>4. SavingAt(4, v, s, d, c, q)'
    BY <1>3, <2>3 DEF SavingAt, StackAt, SaveDepth, RegistersAt, StoredAt, Popped, Taken, Register, Field
  <2>5. Undisturbed(s, d, c)
    BY <2>3 DEF Undisturbed, Popped, Taken
  <2> QED
    BY <1>c, <1>3, <2>3, <2>4, <2>5
<1>4. CASE p = 4
  <2>1. Saving[4] = <<"st", "r0", "Z", "r0">>
    BY SavingBlock DEF StoreFirst
  <2>2. reg["Z"] = Pointer(c)
    BY <1>4 DEF SavingAt, RegistersAt
  <2>3. MachineOK' /\ code' = Tail(code) /\ Stored(c, "r0", reg["r0"])
    BY <1>n, <1>c, <1>4, <2>1, <2>2, StoreEffect
  <2>4. SavingAt(5, v, s, d, c, q)'
    BY <1>4, <2>3 DEF SavingAt, StackAt, SaveDepth, RegistersAt, StoredAt, Stored, Register, Field
  <2>5. Undisturbed(s, d, c)
    BY <2>3 DEF Undisturbed, Stored
  <2> QED
    BY <1>c, <1>4, <2>3, <2>4, <2>5
<1>5. CASE p = 5
  <2>1. Saving[5] = <<"st", "saved", "Z", "saved">>
    BY SavingBlock DEF StoreFirst
  <2>2. reg["Z"] = Pointer(c)
    BY <1>5 DEF SavingAt, RegistersAt
  <2>3. MachineOK' /\ code' = Tail(code) /\ Stored(c, "saved", reg["saved"])
    BY <1>n, <1>c, <1>5, <2>1, <2>2, StoreEffect
  <2>4. SavingAt(6, v, s, d, c, q)'
    BY <1>5, <2>3 DEF SavingAt, StackAt, SaveDepth, RegistersAt, StoredAt, Stored, Register, Field
  <2>5. Undisturbed(s, d, c)
    BY <2>3 DEF Undisturbed, Stored
  <2> QED
    BY <1>c, <1>5, <2>3, <2>4, <2>5
<1>6. CASE p = 6
  <2>1. Saving[6] = <<"st", "arg3", "Z", "arg3">>
    BY SavingBlock DEF StoreFirst
  <2>2. reg["Z"] = Pointer(c)
    BY <1>6 DEF SavingAt, RegistersAt
  <2>3. MachineOK' /\ code' = Tail(code) /\ Stored(c, "arg3", reg["arg3"])
    BY <1>n, <1>c, <1>6, <2>1, <2>2, StoreEffect
  <2>4. SavingAt(7, v, s, d, c, q)'
    BY <1>6, <2>3 DEF SavingAt, StackAt, SaveDepth, RegistersAt, StoredAt, Stored, Register, Field
  <2>5. Undisturbed(s, d, c)
    BY <2>3 DEF Undisturbed, Stored
  <2> QED
    BY <1>c, <1>6, <2>3, <2>4, <2>5
<1>7. CASE p = 7
  <2>1. Saving[7] = <<"st", "arg2", "Z", "arg2">>
    BY SavingBlock DEF StoreFirst
  <2>2. reg["Z"] = Pointer(c)
    BY <1>7 DEF SavingAt, RegistersAt
  <2>3. MachineOK' /\ code' = Tail(code) /\ Stored(c, "arg2", reg["arg2"])
    BY <1>n, <1>c, <1>7, <2>1, <2>2, StoreEffect
  <2>4. SavingAt(8, v, s, d, c, q)'
    BY <1>7, <2>3 DEF SavingAt, StackAt, SaveDepth, RegistersAt, StoredAt, Stored, Register, Field
  <2>5. Undisturbed(s, d, c)
    BY <2>3 DEF Undisturbed, Stored
  <2> QED
    BY <1>c, <1>7, <2>3, <2>4, <2>5
<1>8. CASE p = 8
  <2>1. Saving[8] = <<"st", "arg1", "Z", "arg1">>
    BY SavingBlock DEF StoreFirst
  <2>2. reg["Z"] = Pointer(c)
    BY <1>8 DEF SavingAt, RegistersAt
  <2>3. MachineOK' /\ code' = Tail(code) /\ Stored(c, "arg1", reg["arg1"])
    BY <1>n, <1>c, <1>8, <2>1, <2>2, StoreEffect
  <2>4. SavingAt(9, v, s, d, c, q)'
    BY <1>8, <2>3 DEF SavingAt, StackAt, SaveDepth, RegistersAt, StoredAt, Stored, Register, Field
  <2>5. Undisturbed(s, d, c)
    BY <2>3 DEF Undisturbed, Stored
  <2> QED
    BY <1>c, <1>8, <2>3, <2>4, <2>5
<1>9. CASE p = 9
  <2>1. Saving[9] = <<"st", "X", "Z", "X">>
    BY SavingBlock DEF StoreFirst
  <2>2. reg["Z"] = Pointer(c)
    BY <1>9 DEF SavingAt, RegistersAt
  <2>3. MachineOK' /\ code' = Tail(code) /\ Stored(c, "X", reg["X"])
    BY <1>n, <1>c, <1>9, <2>1, <2>2, StoreEffect
  <2>4. SavingAt(10, v, s, d, c, q)'
    BY <1>9, <2>3 DEF SavingAt, StackAt, SaveDepth, RegistersAt, StoredAt, Stored, Register, Field
  <2>5. Undisturbed(s, d, c)
    BY <2>3 DEF Undisturbed, Stored
  <2> QED
    BY <1>c, <1>9, <2>3, <2>4, <2>5
<1>10. CASE p = 10
  <2>1. Saving[10] = <<"st", "Y", "Z", "Y">>
    BY SavingBlock
  <2>2. reg["Z"] = Pointer(c)
    BY <1>10 DEF SavingAt, RegistersAt
  <2>3. MachineOK' /\ code' = Tail(code) /\ Stored(c, "Y", reg["Y"])
    BY <1>n, <1>c, <1>10, <2>1, <2>2, StoreEffect
  <2>4. SavingAt(11, v, s, d, c, q)'
    BY <1>10, <2>3 DEF SavingAt, StackAt, SaveDepth, RegistersAt, StoredAt, Stored, Register, Field
  <2>5. Undisturbed(s, d, c)
    BY <2>3 DEF Undisturbed, Stored
  <2> QED
    BY <1>c, <1>10, <2>3, <2>4, <2>5
<1>11. CASE p = 11
  <2>1. Saving[11] = <<"mov", "Y", "Z">>
    BY SavingBlock
  <2>3. MachineOK' /\ code' = Tail(code) /\ Assigned("Y", reg["Z"])
    BY <1>n, <1>c, <1>11, <2>1, MoveEffect
  <2>4. SavingAt(12, v, s, d, c, q)'
    BY <1>11, <2>3 DEF SavingAt, StackAt, SaveDepth, RegistersAt, StoredAt, Assigned, Register, Field
  <2>5. Undisturbed(s, d, c)
    BY <2>3 DEF Undisturbed, Assigned
  <2> QED
    BY <1>c, <1>11, <2>3, <2>4, <2>5
<1>12. CASE p = 12
  <2>1. Saving[12] = <<"pop", "Z">>
    BY SavingBlock DEF StoreRest
  <2>2. reg["SP"] = StackPointer(s, d + 2)
    BY <1>12 DEF SavingAt, StackAt, SaveDepth
  <2>3. MachineOK' /\ code' = Tail(code) /\ Popped(s, d + 2, "Z")
    BY <1>n, <1>c, <1>12, <2>1, <2>2, PopEffect
  <2>4. SavingAt(13, v, s, d, c, q)'
    BY <1>12, <2>3 DEF SavingAt, StackAt, SaveDepth, RegistersAt, StoredAt, Popped, Taken, Register, Field
  <2>5. Undisturbed(s, d, c)
    BY <2>3 DEF Undisturbed, Popped, Taken
  <2> QED
    BY <1>c, <1>12, <2>3, <2>4, <2>5
<1>13. CASE p = 13
  <2>1. Saving[13] = <<"st", "Z", "Y", "Z">>
    BY SavingBlock DEF StoreRest
  <2>2. reg["Y"] = Pointer(c)
    BY <1>13 DEF SavingAt, RegistersAt
  <2>3. MachineOK' /\ code' = Tail(code) /\ Stored(c, "Z", reg["Z"])
    BY <1>n, <1>c, <1>13, <2>1, <2>2, StoreEffect
  <2>4. SavingAt(14, v, s, d, c, q)'
    BY <1>13, <2>3 DEF SavingAt, StackAt, SaveDepth, RegistersAt, StoredAt, Stored, Register, Field
  <2>5. Undisturbed(s, d, c)
    BY <2>3 DEF Undisturbed, Stored
  <2> QED
    BY <1>c, <1>13, <2>3, <2>4, <2>5
<1>14. CASE p = 14
  <2>1. Saving[14] = <<"pop", "Z">>
    BY SavingBlock DEF StoreRest
  <2>2. reg["SP"] = StackPointer(s, d + 1)
    BY <1>14 DEF SavingAt, StackAt, SaveDepth
  <2>3. MachineOK' /\ code' = Tail(code) /\ Popped(s, d + 1, "Z")
    BY <1>n, <1>c, <1>14, <2>1, <2>2, PopEffect
  <2>4. SavingAt(15, v, s, d, c, q)'
    BY <1>14, <2>3 DEF SavingAt, StackAt, SaveDepth, RegistersAt, StoredAt, Popped, Taken, Register, Field
  <2>5. Undisturbed(s, d, c)
    BY <2>3 DEF Undisturbed, Popped, Taken
  <2> QED
    BY <1>c, <1>14, <2>3, <2>4, <2>5
<1>15. CASE p = 15
  <2>1. Saving[15] = <<"st", "Z", "Y", "pc">>
    BY SavingBlock DEF StoreRest
  <2>2. reg["Y"] = Pointer(c)
    BY <1>15 DEF SavingAt, RegistersAt
  <2>3. MachineOK' /\ code' = Tail(code) /\ Stored(c, "pc", reg["Z"])
    BY <1>n, <1>c, <1>15, <2>1, <2>2, StoreEffect
  <2>4. SavingAt(16, v, s, d, c, q)'
    BY <1>15, <2>3 DEF SavingAt, StackAt, SaveDepth, RegistersAt, StoredAt, Stored, Register, Field
  <2>5. Undisturbed(s, d, c)
    BY <2>3 DEF Undisturbed, Stored
  <2> QED
    BY <1>c, <1>15, <2>3, <2>4, <2>5
<1>16. CASE p = 16
  <2>1. Saving[16] = <<"mov", "X", "SP">>
    BY SavingBlock DEF StoreRest
  <2>2. reg["SP"] = StackPointer(s, d)
    BY <1>16 DEF SavingAt, StackAt, SaveDepth
  <2>3. MachineOK' /\ code' = Tail(code) /\ Assigned("X", reg["SP"])
    BY <1>n, <1>c, <1>16, <2>1, <2>2, MoveEffect
  <2>4. SavingAt(17, v, s, d, c, q)'
    BY <1>16, <2>2, <2>3 DEF SavingAt, StackAt, SaveDepth, RegistersAt, StoredAt, Assigned, Register, Field
  <2>5. Undisturbed(s, d, c)
    BY <2>3 DEF Undisturbed, Assigned
  <2> QED
    BY <1>c, <1>16, <2>3, <2>4, <2>5
<1>17. CASE p = 17
  <2>1. Saving[17] = <<"st", "X", "Y", "SP">>
    BY SavingBlock DEF StoreRest
  <2>2. reg["Y"] = Pointer(c)
    BY <1>17 DEF SavingAt, RegistersAt
  <2>3. MachineOK' /\ code' = Tail(code) /\ Stored(c, "SP", reg["X"])
    BY <1>n, <1>c, <1>17, <2>1, <2>2, StoreEffect
  <2>4. SavingAt(18, v, s, d, c, q)'
    BY <1>17, <2>3 DEF SavingAt, StackAt, SaveDepth, RegistersAt, StoredAt, Stored, Register, Field
  <2>5. Undisturbed(s, d, c)
    BY <2>3 DEF Undisturbed, Stored
  <2> QED
    BY <1>c, <1>17, <2>3, <2>4, <2>5
<1>18. CASE p = 18
  <2>1. Saving[18] = <<"push", "Z">>
    BY SavingBlock DEF StoreRest
  <2>2. reg["SP"] = StackPointer(s, d)
    BY <1>18 DEF SavingAt, StackAt, SaveDepth
  <2>3. MachineOK' /\ code' = Tail(code) /\ Pushed(s, d, reg["Z"])
    BY <1>n, <1>c, <1>18, <2>1, <2>2, PushEffect
  <2>4. SavingAt(19, v, s, d, c, q)'
    BY <1>18, <2>3 DEF SavingAt, StackAt, SaveDepth, RegistersAt, StoredAt, Pushed, Register, Field
  <2>5. Undisturbed(s, d, c)
    BY <2>3 DEF Undisturbed, Pushed
  <2> QED
    BY <1>c, <1>18, <2>3, <2>4, <2>5
<1>19. CASE p = 19
  <2>1. Saving[19] = <<"mov", "Z", "Y">>
    BY SavingBlock DEF StoreRest
  <2>3. MachineOK' /\ code' = Tail(code) /\ Assigned("Z", reg["Y"])
    BY <1>n, <1>c, <1>19, <2>1, MoveEffect
  <2>4. SavingAt(20, v, s, d, c, q)'
    BY <1>19, <2>3 DEF SavingAt, StackAt, SaveDepth, RegistersAt, StoredAt, Assigned, Register, Field
  <2>5. Undisturbed(s, d, c)
    BY <2>3 DEF Undisturbed, Assigned
  <2> QED
    BY <1>c, <1>19, <2>3, <2>4, <2>5
<1>20. CASE p = 20
  <2>1. Saving[20] = <<"mov", "Y", "SREG">>
    BY SavingBlock DEF StoreRest
  <2>3. MachineOK' /\ code' = Tail(code) /\ Assigned("Y", reg["SREG"])
    BY <1>n, <1>c, <1>20, <2>1, MoveEffect
  <2>4. SavingAt(21, v, s, d, c, q)'
    BY <1>20, <2>3 DEF SavingAt, StackAt, SaveDepth, RegistersAt, StoredAt, Assigned, Register, Field
  <2>5. Undisturbed(s, d, c)
    BY <2>3 DEF Undisturbed, Assigned
  <2> QED
    BY <1>c, <1>20, <2>3, <2>4, <2>5
<1>21. CASE p = 21
  <2>1. Saving[21] = <<"adiw">>
    BY SavingBlock DEF StoreRest
  <2>3. MachineOK' /\ code' = Tail(code) /\ Assigned("SREG", WithFlags(reg["SREG"], Junk))
    BY <1>n, <1>c, <1>21, <2>1, OffsetEffect
  <2>4. SavingAt(22, v, s, d, c, q)'
    BY <1>21, <2>3 DEF SavingAt, StackAt, SaveDepth, RegistersAt, StoredAt, Assigned, Register, Field
  <2>5. Undisturbed(s, d, c)
    BY <2>3 DEF Undisturbed, Assigned
  <2> QED
    BY <1>c, <1>21, <2>3, <2>4, <2>5
<1>22. CASE p = 22
  <2>1. Saving[22] = <<"mov", "SREG", "Y">>
    BY SavingBlock DEF StoreRest
  <2>3. MachineOK' /\ code' = Tail(code) /\ Assigned("SREG", reg["Y"])
    BY <1>n, <1>c, <1>22, <2>1, MoveEffect
  <2>4. SavingAt(23, v, s, d, c, q)'
    BY <1>22, <2>3 DEF SavingAt, StackAt, SaveDepth, RegistersAt, StoredAt, Assigned, Register, Field
  <2>5. Undisturbed(s, d, c)
    BY <2>3 DEF Undisturbed, Assigned
  <2> QED
    BY <1>c, <1>22, <2>3, <2>4, <2>5
<1>23. CASE p = 23
  <2>1. Saving[23] = <<"ld", "X", "Z", "X">>
    BY SavingBlock DEF StoreRest
  <2>2. reg["Z"] = Pointer(c)
    BY <1>23 DEF SavingAt, RegistersAt
  <2>3. MachineOK' /\ code' = Tail(code) /\ Assigned("X", context[c]["X"])
    BY <1>n, <1>c, <1>23, <2>1, <2>2, LoadEffect
  <2>4. SavingAt(24, v, s, d, c, q)'
    BY <1>23, <2>3 DEF SavingAt, StackAt, SaveDepth, RegistersAt, StoredAt, Assigned, Register, Field
  <2>5. Undisturbed(s, d, c)
    BY <2>3 DEF Undisturbed, Assigned
  <2> QED
    BY <1>c, <1>23, <2>3, <2>4, <2>5
<1>24. CASE p = 24
  <2>1. Saving[24] = <<"ld", "Y", "Z", "Y">>
    BY SavingBlock DEF StoreRest
  <2>2. reg["Z"] = Pointer(c)
    BY <1>24 DEF SavingAt, RegistersAt
  <2>3. MachineOK' /\ code' = Tail(code) /\ Assigned("Y", context[c]["Y"])
    BY <1>n, <1>c, <1>24, <2>1, <2>2, LoadEffect
  <2>4. SavingAt(25, v, s, d, c, q)'
    BY <1>24, <2>3 DEF SavingAt, StackAt, SaveDepth, RegistersAt, StoredAt, Assigned, Register, Field
  <2>5. Undisturbed(s, d, c)
    BY <2>3 DEF Undisturbed, Assigned
  <2> QED
    BY <1>c, <1>24, <2>3, <2>4, <2>5
<1>25. CASE p = 25
  <2>1. Saving[25] = <<"push", "Y">>
    BY SavingBlock DEF StoreRest
  <2>2. reg["SP"] = StackPointer(s, d + 1)
    BY <1>25 DEF SavingAt, StackAt, SaveDepth
  <2>3. MachineOK' /\ code' = Tail(code) /\ Pushed(s, d + 1, reg["Y"])
    BY <1>n, <1>c, <1>25, <2>1, <2>2, PushEffect
  <2>4. SavingAt(26, v, s, d, c, q)'
    BY <1>25, <2>3 DEF SavingAt, StackAt, SaveDepth, RegistersAt, StoredAt, Pushed, Register, Field
  <2>5. Undisturbed(s, d, c)
    BY <2>3 DEF Undisturbed, Pushed
  <2> QED
    BY <1>c, <1>25, <2>3, <2>4, <2>5
<1>26. CASE p = 26
  <2>1. Saving[26] = <<"mov", "Y", "Z">>
    BY SavingBlock DEF StoreRest
  <2>3. MachineOK' /\ code' = Tail(code) /\ Assigned("Y", reg["Z"])
    BY <1>n, <1>c, <1>26, <2>1, MoveEffect
  <2>4. SavingAt(27, v, s, d, c, q)'
    BY <1>26, <2>3 DEF SavingAt, StackAt, SaveDepth, RegistersAt, StoredAt, Assigned, Register, Field
  <2>5. Undisturbed(s, d, c)
    BY <2>3 DEF Undisturbed, Assigned
  <2> QED
    BY <1>c, <1>26, <2>3, <2>4, <2>5
<1>27. CASE p = 27
  <2>1. Saving[27] = <<"ld", "Z", "Y", "Z">>
    BY SavingBlock DEF StoreRest
  <2>2. reg["Y"] = Pointer(c)
    BY <1>27 DEF SavingAt, RegistersAt
  <2>3. MachineOK' /\ code' = Tail(code) /\ Assigned("Z", context[c]["Z"])
    BY <1>n, <1>c, <1>27, <2>1, <2>2, LoadEffect
  <2>4. SavingAt(28, v, s, d, c, q)'
    BY <1>27, <2>3 DEF SavingAt, StackAt, SaveDepth, RegistersAt, StoredAt, Assigned, Register, Field
  <2>5. Undisturbed(s, d, c)
    BY <2>3 DEF Undisturbed, Assigned
  <2> QED
    BY <1>c, <1>27, <2>3, <2>4, <2>5
<1>28. CASE p = 28
  <2>1. Saving[28] = <<"pop", "Y">>
    BY SavingBlock DEF StoreRest
  <2>2. reg["SP"] = StackPointer(s, d + 2)
    BY <1>28 DEF SavingAt, StackAt, SaveDepth
  <2>3. MachineOK' /\ code' = Tail(code) /\ Popped(s, d + 2, "Y")
    BY <1>n, <1>c, <1>28, <2>1, <2>2, PopEffect
  <2>4. SavingAt(29, v, s, d, c, q)'
    BY <1>28, <2>3 DEF SavingAt, StackAt, SaveDepth, RegistersAt, StoredAt, Popped, Taken, Register, Field
  <2>5. Undisturbed(s, d, c)
    BY <2>3 DEF Undisturbed, Popped, Taken
  <2> QED
    BY <1>c, <1>28, <2>3, <2>4, <2>5
<1> QED
  BY <1>1, <1>2, <1>3, <1>4, <1>5, <1>6, <1>7, <1>8, <1>9, <1>10, <1>11, <1>12, <1>13, <1>14, <1>15, <1>16, <1>17, <1>18, <1>19, <1>20, <1>21, <1>22, <1>23, <1>24, <1>25, <1>26, <1>27, <1>28

(* The entries above those in use that the restoring macro uses, by position. *)
RestoreDepth(p) ==
  IF p <= 6 THEN 0 ELSE IF p <= 9 THEN 1 ELSE IF p <= 18 THEN 2 ELSE IF p <= 21 THEN 3
  ELSE IF p = 22 THEN 2 ELSE 1

(* While the macro restores context c, whose stack pointer is (s, d). *)
RestoringAt(p, s, d, c) ==
  /\ p = 4 => reg["SP"][2] = s
  /\ p > 4 => reg["SP"] = StackPointer(s, d + RestoreDepth(p))
  /\ p > 6 => memory[s][d + 1] = context[c]["pc"]
  /\ p \in 10 .. 22 => memory[s][d + 2] = context[c]["Z"]
  /\ p \in 19 .. 21 => memory[s][d + 3] = context[c]["r0"]
  /\ p \in 3 .. 4 => reg["r0"] = context[c]["SP"]
  /\ p = 6 => reg["r0"] = context[c]["pc"]
  /\ p = 20 => reg["r0"] = context[c]["SREG"]
  /\ p = 18 \/ p >= 22 => reg["r0"] = context[c]["r0"]
  /\ p <= 8 \/ p \in 11 .. 22 => reg["Z"] = Pointer(c)
  /\ p \in {9, 23} => reg["Z"] = context[c]["Z"]
  /\ p \in 8 .. 11 => reg["Y"] = Pointer(c)
  /\ p > 11 => reg["Y"] = context[c]["Y"]
  /\ p > 12 => reg["X"] = context[c]["X"]
  /\ p > 13 => reg["arg1"] = context[c]["arg1"]
  /\ p > 14 => reg["arg2"] = context[c]["arg2"]
  /\ p > 15 => reg["arg3"] = context[c]["arg3"]
  /\ p > 16 => reg["saved"] = context[c]["saved"]
  /\ p > 20 => reg["SREG"] = context[c]["SREG"]

(* The instructions of the restoring macro. *)
LEMMA LoadingBlock == LoadAll \in Program /\ Len(LoadAll) = 22
<1>1. LoadAll \in Program
  BY DEF LoadAll, Program, Instructions
<1>2. Len(LoadAll) = 22
  BY DEF LoadAll
<1> QED
  BY <1>1, <1>2

(***************************************************************************)
(* Each instruction of it takes the machine to the next position; at the   *)
(* last, 23, the machine holds what the context does, the return address   *)
(* on top of the stack.                                                    *)
(***************************************************************************)
LEMMA RestoringStep ==
  ASSUME MachineOK, StackSize \in Nat, NEW s \in Stack, NEW d \in Nat, d + 3 <= StackSize,
         NEW c \in Context, context[c]["SP"] = StackPointer(s, d),
         NEW p \in 1 .. 22, NEW rest \in Program,
         code = Left(LoadAll, p, rest), RestoringAt(p, s, d, c), Instruction
  PROVE  /\ MachineOK' /\ Undisturbed(s, d, c) /\ UNCHANGED context
         /\ code' = Left(LoadAll, p + 1, rest) /\ RestoringAt(p + 1, s, d, c)'
<1>n. "pc" \in Field /\ \A r \in {"r0", "saved", "arg1", "arg2", "arg3", "X", "Y", "Z", "SREG", "SP"} :
        r \in Register /\ r \in Field
  BY DEF Register, Field
<1>c. code # <<>> /\ Head(code) = LoadAll[p] /\ Tail(code) = Left(LoadAll, p + 1, rest)
  <2>1. p \in 1 .. Len(LoadAll) /\ LoadAll \in Program
    BY LoadingBlock
  <2> QED
    BY <2>1, LeftStep
<1>1. CASE p = 1
  <2>1. LoadAll[1] = <<"adiw">>
    BY DEF LoadAll
  <2>3. MachineOK' /\ code' = Tail(code) /\ Assigned("SREG", WithFlags(reg["SREG"], Junk))
    BY <1>n, <1>c, <1>1, <2>1, OffsetEffect
  <2>4. RestoringAt(2, s, d, c)'
    BY <1>1, <2>3 DEF RestoringAt, RestoreDepth, Assigned, Register
  <2>5. Undisturbed(s, d, c) /\ UNCHANGED context
    BY <2>3 DEF Undisturbed, Assigned
  <2> QED
    BY <1>c, <1>1, <2>3, <2>4, <2>5
<1>2. CASE p = 2
  <2>1. LoadAll[2] = <<"ld", "r0", "Z", "SP">>
    BY DEF LoadAll
  <2>2. reg["Z"] = Pointer(c)
    BY <1>2 DEF RestoringAt
  <2>3. MachineOK' /\ code' = Tail(code) /\ Assigned("r0", context[c]["SP"])
    BY <1>n, <1>c, <1>2, <2>1, <2>2, LoadEffect
  <2>4. RestoringAt(3, s, d, c)'
    BY <1>2, <2>3 DEF RestoringAt, RestoreDepth, Assigned, Register
  <2>5. Undisturbed(s, d, c) /\ UNCHANGED context
    BY <2>3 DEF Undisturbed, Assigned
  <2> QED
    BY <1>c, <1>2, <2>3, <2>4, <2>5
<1>3. CASE p = 3
  <2>1. LoadAll[3] = <<"out_SP_H", "r0">>
    BY DEF LoadAll
  <2>2. reg["r0"] = StackPointer(s, d)
    BY <1>3 DEF RestoringAt
  <2>3. MachineOK' /\ code' = Tail(code) /\ Assigned("SP", StackPointer(s, reg["SP"][3]))
    BY <1>n, <1>c, <1>3, <2>1, <2>2, WriteHighEffect
  <2>4. RestoringAt(4, s, d, c)'
    BY <1>3, <2>2, <2>3 DEF RestoringAt, RestoreDepth, Assigned, Register, StackPointer
  <2>5. Undisturbed(s, d, c) /\ UNCHANGED context
    BY <2>3 DEF Undisturbed, Assigned
  <2> QED
    BY <1>c, <1>3, <2>3, <2>4, <2>5
<1>4. CASE p = 4
  <2>1. LoadAll[4] = <<"out_SP_L", "r0">>
    BY DEF LoadAll
  <2>2. reg["r0"] = StackPointer(s, d) /\ reg["SP"][2] = s
    BY <1>4 DEF RestoringAt
  <2>3. MachineOK' /\ code' = Tail(code) /\ Assigned("SP", StackPointer(s, d))
    BY <1>n, <1>c, <1>4, <2>1, <2>2, WriteLowEffect
  <2>4. RestoringAt(5, s, d, c)'
    BY <1>4, <2>2, <2>3 DEF RestoringAt, RestoreDepth, Assigned, Register, StackPointer
  <2>5. Undisturbed(s, d, c) /\ UNCHANGED context
    BY <2>3 DEF Undisturbed, Assigned
  <2> QED
    BY <1>c, <1>4, <2>3, <2>4, <2>5
<1>5. CASE p = 5
  <2>1. LoadAll[5] = <<"ld", "r0", "Z", "pc">>
    BY DEF LoadAll
  <2>2. reg["Z"] = Pointer(c)
    BY <1>5 DEF RestoringAt
  <2>3. MachineOK' /\ code' = Tail(code) /\ Assigned("r0", context[c]["pc"])
    BY <1>n, <1>c, <1>5, <2>1, <2>2, LoadEffect
  <2>4. RestoringAt(6, s, d, c)'
    BY <1>5, <2>3 DEF RestoringAt, RestoreDepth, Assigned, Register
  <2>5. Undisturbed(s, d, c) /\ UNCHANGED context
    BY <2>3 DEF Undisturbed, Assigned
  <2> QED
    BY <1>c, <1>5, <2>3, <2>4, <2>5
<1>6. CASE p = 6
  <2>1. LoadAll[6] = <<"push", "r0">>
    BY DEF LoadAll
  <2>2. reg["SP"] = StackPointer(s, d)
    BY <1>6 DEF RestoringAt, RestoreDepth
  <2>3. MachineOK' /\ code' = Tail(code) /\ Pushed(s, d, reg["r0"])
    BY <1>n, <1>c, <1>6, <2>1, <2>2, PushEffect
  <2>4. RestoringAt(7, s, d, c)'
    BY <1>6, <2>3 DEF RestoringAt, RestoreDepth, Pushed, Register
  <2>5. Undisturbed(s, d, c) /\ UNCHANGED context
    BY <2>3 DEF Undisturbed, Pushed
  <2> QED
    BY <1>c, <1>6, <2>3, <2>4, <2>5
<1>7. CASE p = 7
  <2>1. LoadAll[7] = <<"mov", "Y", "Z">>
    BY DEF LoadAll
  <2>3. MachineOK' /\ code' = Tail(code) /\ Assigned("Y", reg["Z"])
    BY <1>n, <1>c, <1>7, <2>1, MoveEffect
  <2>4. RestoringAt(8, s, d, c)'
    BY <1>7, <2>3 DEF RestoringAt, RestoreDepth, Assigned, Register
  <2>5. Undisturbed(s, d, c) /\ UNCHANGED context
    BY <2>3 DEF Undisturbed, Assigned
  <2> QED
    BY <1>c, <1>7, <2>3, <2>4, <2>5
<1>8. CASE p = 8
  <2>1. LoadAll[8] = <<"ld", "Z", "Y", "Z">>
    BY DEF LoadAll
  <2>2. reg["Y"] = Pointer(c)
    BY <1>8 DEF RestoringAt
  <2>3. MachineOK' /\ code' = Tail(code) /\ Assigned("Z", context[c]["Z"])
    BY <1>n, <1>c, <1>8, <2>1, <2>2, LoadEffect
  <2>4. RestoringAt(9, s, d, c)'
    BY <1>8, <2>3 DEF RestoringAt, RestoreDepth, Assigned, Register
  <2>5. Undisturbed(s, d, c) /\ UNCHANGED context
    BY <2>3 DEF Undisturbed, Assigned
  <2> QED
    BY <1>c, <1>8, <2>3, <2>4, <2>5
<1>9. CASE p = 9
  <2>1. LoadAll[9] = <<"push", "Z">>
    BY DEF LoadAll
  <2>2. reg["SP"] = StackPointer(s, d + 1)
    BY <1>9 DEF RestoringAt, RestoreDepth
  <2>3. MachineOK' /\ code' = Tail(code) /\ Pushed(s, d + 1, reg["Z"])
    BY <1>n, <1>c, <1>9, <2>1, <2>2, PushEffect
  <2>4. RestoringAt(10, s, d, c)'
    BY <1>9, <2>3 DEF RestoringAt, RestoreDepth, Pushed, Register
  <2>5. Undisturbed(s, d, c) /\ UNCHANGED context
    BY <2>3 DEF Undisturbed, Pushed
  <2> QED
    BY <1>c, <1>9, <2>3, <2>4, <2>5
<1>10. CASE p = 10
  <2>1. LoadAll[10] = <<"mov", "Z", "Y">>
    BY DEF LoadAll
  <2>3. MachineOK' /\ code' = Tail(code) /\ Assigned("Z", reg["Y"])
    BY <1>n, <1>c, <1>10, <2>1, MoveEffect
  <2>4. RestoringAt(11, s, d, c)'
    BY <1>10, <2>3 DEF RestoringAt, RestoreDepth, Assigned, Register
  <2>5. Undisturbed(s, d, c) /\ UNCHANGED context
    BY <2>3 DEF Undisturbed, Assigned
  <2> QED
    BY <1>c, <1>10, <2>3, <2>4, <2>5
<1>11. CASE p = 11
  <2>1. LoadAll[11] = <<"ld", "Y", "Z", "Y">>
    BY DEF LoadAll
  <2>2. reg["Z"] = Pointer(c)
    BY <1>11 DEF RestoringAt
  <2>3. MachineOK' /\ code' = Tail(code) /\ Assigned("Y", context[c]["Y"])
    BY <1>n, <1>c, <1>11, <2>1, <2>2, LoadEffect
  <2>4. RestoringAt(12, s, d, c)'
    BY <1>11, <2>3 DEF RestoringAt, RestoreDepth, Assigned, Register
  <2>5. Undisturbed(s, d, c) /\ UNCHANGED context
    BY <2>3 DEF Undisturbed, Assigned
  <2> QED
    BY <1>c, <1>11, <2>3, <2>4, <2>5
<1>12. CASE p = 12
  <2>1. LoadAll[12] = <<"ld", "X", "Z", "X">>
    BY DEF LoadAll
  <2>2. reg["Z"] = Pointer(c)
    BY <1>12 DEF RestoringAt
  <2>3. MachineOK' /\ code' = Tail(code) /\ Assigned("X", context[c]["X"])
    BY <1>n, <1>c, <1>12, <2>1, <2>2, LoadEffect
  <2>4. RestoringAt(13, s, d, c)'
    BY <1>12, <2>3 DEF RestoringAt, RestoreDepth, Assigned, Register
  <2>5. Undisturbed(s, d, c) /\ UNCHANGED context
    BY <2>3 DEF Undisturbed, Assigned
  <2> QED
    BY <1>c, <1>12, <2>3, <2>4, <2>5
<1>13. CASE p = 13
  <2>1. LoadAll[13] = <<"ld", "arg1", "Z", "arg1">>
    BY DEF LoadAll
  <2>2. reg["Z"] = Pointer(c)
    BY <1>13 DEF RestoringAt
  <2>3. MachineOK' /\ code' = Tail(code) /\ Assigned("arg1", context[c]["arg1"])
    BY <1>n, <1>c, <1>13, <2>1, <2>2, LoadEffect
  <2>4. RestoringAt(14, s, d, c)'
    BY <1>13, <2>3 DEF RestoringAt, RestoreDepth, Assigned, Register
  <2>5. Undisturbed(s, d, c) /\ UNCHANGED context
    BY <2>3 DEF Undisturbed, Assigned
  <2> QED
    BY <1>c, <1>13, <2>3, <2>4, <2>5
<1>14. CASE p = 14
  <2>1. LoadAll[14] = <<"ld", "arg2", "Z", "arg2">>
    BY DEF LoadAll
  <2>2. reg["Z"] = Pointer(c)
    BY <1>14 DEF RestoringAt
  <2>3. MachineOK' /\ code' = Tail(code) /\ Assigned("arg2", context[c]["arg2"])
    BY <1>n, <1>c, <1>14, <2>1, <2>2, LoadEffect
  <2>4. RestoringAt(15, s, d, c)'
    BY <1>14, <2>3 DEF RestoringAt, RestoreDepth, Assigned, Register
  <2>5. Undisturbed(s, d, c) /\ UNCHANGED context
    BY <2>3 DEF Undisturbed, Assigned
  <2> QED
    BY <1>c, <1>14, <2>3, <2>4, <2>5
<1>15. CASE p = 15
  <2>1. LoadAll[15] = <<"ld", "arg3", "Z", "arg3">>
    BY DEF LoadAll
  <2>2. reg["Z"] = Pointer(c)
    BY <1>15 DEF RestoringAt
  <2>3. MachineOK' /\ code' = Tail(code) /\ Assigned("arg3", context[c]["arg3"])
    BY <1>n, <1>c, <1>15, <2>1, <2>2, LoadEffect
  <2>4. RestoringAt(16, s, d, c)'
    BY <1>15, <2>3 DEF RestoringAt, RestoreDepth, Assigned, Register
  <2>5. Undisturbed(s, d, c) /\ UNCHANGED context
    BY <2>3 DEF Undisturbed, Assigned
  <2> QED
    BY <1>c, <1>15, <2>3, <2>4, <2>5
<1>16. CASE p = 16
  <2>1. LoadAll[16] = <<"ld", "saved", "Z", "saved">>
    BY DEF LoadAll
  <2>2. reg["Z"] = Pointer(c)
    BY <1>16 DEF RestoringAt
  <2>3. MachineOK' /\ code' = Tail(code) /\ Assigned("saved", context[c]["saved"])
    BY <1>n, <1>c, <1>16, <2>1, <2>2, LoadEffect
  <2>4. RestoringAt(17, s, d, c)'
    BY <1>16, <2>3 DEF RestoringAt, RestoreDepth, Assigned, Register
  <2>5. Undisturbed(s, d, c) /\ UNCHANGED context
    BY <2>3 DEF Undisturbed, Assigned
  <2> QED
    BY <1>c, <1>16, <2>3, <2>4, <2>5
<1>17. CASE p = 17
  <2>1. LoadAll[17] = <<"ld", "r0", "Z", "r0">>
    BY DEF LoadAll
  <2>2. reg["Z"] = Pointer(c)
    BY <1>17 DEF RestoringAt
  <2>3. MachineOK' /\ code' = Tail(code) /\ Assigned("r0", context[c]["r0"])
    BY <1>n, <1>c, <1>17, <2>1, <2>2, LoadEffect
  <2>4. RestoringAt(18, s, d, c)'
    BY <1>17, <2>3 DEF RestoringAt, RestoreDepth, Assigned, Register
  <2>5. Undisturbed(s, d, c) /\ UNCHANGED context
    BY <2>3 DEF Undisturbed, Assigned
  <2> QED
    BY <1>c, <1>17, <2>3, <2>4, <2>5
<1>18. CASE p = 18
  <2>1. LoadAll[18] = <<"push", "r0">>
    BY DEF LoadAll
  <2>2. reg["SP"] = StackPointer(s, d + 2)
    BY <1>18 DEF RestoringAt, RestoreDepth
  <2>3. MachineOK' /\ code' = Tail(code) /\ Pushed(s, d + 2, reg["r0"])
    BY <1>n, <1>c, <1>18, <2>1, <2>2, PushEffect
  <2>k. /\ memory'[s][d + 1] = memory[s][d + 1] /\ memory'[s][d + 2] = memory[s][d + 2]
        /\ reg'["SP"] = StackPointer(s, d + 3)
    BY <2>3 DEF Pushed
  <2>4. RestoringAt(19, s, d, c)'
    BY <1>18, <2>k, <2>3 DEF RestoringAt, RestoreDepth, Pushed, Register
  <2>5. Undisturbed(s, d, c) /\ UNCHANGED context
    BY <2>3 DEF Undisturbed, Pushed
  <2> QED
    BY <1>c, <1>18, <2>3, <2>4, <2>5
<1>19. CASE p = 19
  <2>1. LoadAll[19] = <<"ld", "r0", "Z", "SREG">>
    BY DEF LoadAll
  <2>2. reg["Z"] = Pointer(c)
    BY <1>19 DEF RestoringAt
  <2>3. MachineOK' /\ code' = Tail(code) /\ Assigned("r0", context[c]["SREG"])
    BY <1>n, <1>c, <1>19, <2>1, <2>2, LoadEffect
  <2>4. RestoringAt(20, s, d, c)'
    BY <1>19, <2>3 DEF RestoringAt, RestoreDepth, Assigned, Register
  <2>5. Undisturbed(s, d, c) /\ UNCHANGED context
    BY <2>3 DEF Undisturbed, Assigned
  <2> QED
    BY <1>c, <1>19, <2>3, <2>4, <2>5
<1>20. CASE p = 20
  <2>1. LoadAll[20] = <<"mov", "SREG", "r0">>
    BY DEF LoadAll
  <2>3. MachineOK' /\ code' = Tail(code) /\ Assigned("SREG", reg["r0"])
    BY <1>n, <1>c, <1>20, <2>1, MoveEffect
  <2>4. RestoringAt(21, s, d, c)'
    BY <1>20, <2>3 DEF RestoringAt, RestoreDepth, Assigned, Register
  <2>5. Undisturbed(s, d, c) /\ UNCHANGED context
    BY <2>3 DEF Undisturbed, Assigned
  <2> QED
    BY <1>c, <1>20, <2>3, <2>4, <2>5
<1>21. CASE p = 21
  <2>1. LoadAll[21] = <<"pop", "r0">>
    BY DEF LoadAll
  <2>2. reg["SP"] = StackPointer(s, d + 3)
    BY <1>21 DEF RestoringAt, RestoreDepth
  <2>3. MachineOK' /\ code' = Tail(code) /\ Popped(s, d + 3, "r0")
    BY <1>n, <1>c, <1>21, <2>1, <2>2, PopEffect
  <2>k. /\ memory'[s][d + 1] = memory[s][d + 1] /\ memory'[s][d + 2] = memory[s][d + 2]
        /\ reg'["SP"] = StackPointer(s, d + 2)
    BY <2>3 DEF Popped, Taken
  <2>4. RestoringAt(22, s, d, c)'
    BY <1>21, <2>k, <2>3 DEF RestoringAt, RestoreDepth, Popped, Taken, Register
  <2>5. Undisturbed(s, d, c) /\ UNCHANGED context
    BY <2>3 DEF Undisturbed, Popped, Taken
  <2> QED
    BY <1>c, <1>21, <2>3, <2>4, <2>5
<1>22. CASE p = 22
  <2>1. LoadAll[22] = <<"pop", "Z">>
    BY DEF LoadAll
  <2>2. reg["SP"] = StackPointer(s, d + 2)
    BY <1>22 DEF RestoringAt, RestoreDepth
  <2>3. MachineOK' /\ code' = Tail(code) /\ Popped(s, d + 2, "Z")
    BY <1>n, <1>c, <1>22, <2>1, <2>2, PopEffect
  <2>4. RestoringAt(23, s, d, c)'
    BY <1>22, <2>3, SMTT(30) DEF RestoringAt, RestoreDepth, Popped, Taken, Register
  <2>5. Undisturbed(s, d, c) /\ UNCHANGED context
    BY <2>3 DEF Undisturbed, Popped, Taken
  <2> QED
    BY <1>c, <1>22, <2>3, <2>4, <2>5
<1> QED
  BY <1>1, <1>2, <1>3, <1>4, <1>5, <1>6, <1>7, <1>8, <1>9, <1>10, <1>11, <1>12, <1>13, <1>14, <1>15, <1>16, <1>17, <1>18, <1>19, <1>20, <1>21, <1>22

(* Three pieces of code in a row. *)
LEMMA ConcatTwice ==
  ASSUME NEW a \in Program, NEW b \in Program, NEW c \in Program
  PROVE  (a \o b) \o c = a \o (b \o c)
BY ConcatAssociative DEF Program

(* The first instructions of AVR_SAVE_CONTEXT, up to the pointer in Z. *)
Entering(presave_code, load_address_to_Z_code) ==
  << <<"push", "Z">>, <<"mov", "Z", "SREG">> >> \o presave_code
  \o << <<"push", "r0">>, <<"push", "Z">> >> \o load_address_to_Z_code

(* AVR_SAVE_CONTEXT gets the pointer into Z, and then saves. *)
LEMMA SaveSplit ==
  ASSUME NEW presave \in Program, NEW load \in Program
  PROVE  /\ Entering(presave, load) \in Program
         /\ AVR_SAVE_CONTEXT(presave, load) = Entering(presave, load) \o Saving
<1> DEFINE between == << <<"st", "Y", "Z", "Y">>, <<"mov", "Y", "Z">> >>
           first   == << <<"push", "Z">>, <<"mov", "Z", "SREG">> >>
           second  == << <<"push", "r0">>, <<"push", "Z">> >>
           enter   == ((first \o presave) \o second) \o load
<1>1. /\ StoreFirst \in Program /\ StoreRest \in Program
      /\ between \in Program /\ first \in Program /\ second \in Program
  BY DEF StoreFirst, StoreRest, Program, Instructions
<1>2. AVR_SAVE_CONTEXT(presave, load) = ((enter \o StoreFirst) \o between) \o StoreRest
  BY DEF AVR_SAVE_CONTEXT
<1>3. Saving = (StoreFirst \o between) \o StoreRest
  BY DEF Saving
<1>4. Entering(presave, load) = enter
  BY DEF Entering
<1> HIDE DEF between, first, second
<1>5. enter \in Program
  BY <1>1, Concat
<1> HIDE DEF enter
<1>6. (enter \o StoreFirst) \o between = enter \o (StoreFirst \o between)
  BY <1>1, <1>5, ConcatTwice, SMTT(30)
<1> DEFINE body == StoreFirst \o between
<1>7. body \in Program
  BY <1>1, Concat
<1> HIDE DEF body
<1>8. StoreRest \in Program
  BY <1>1
<1>9. (enter \o body) \o StoreRest = enter \o (body \o StoreRest)
  BY <1>5, <1>7, <1>8, ConcatTwice, SMTT(30)
<1> QED
  BY <1>2, <1>3, <1>4, <1>5, <1>6, <1>9 DEF body

(* While the macro enters: j - 1 of its four instructions have run.        *)
EntryDepth(j) == IF j = 1 THEN 1 ELSE IF j <= 3 THEN 2 ELSE j - 1

(* Meanwhile SREG holds q: presave_code may have masked interrupts. *)
EnteringAt(j, v, s, d, q) ==
  /\ reg["SP"] = StackPointer(s, d + EntryDepth(j))
  /\ memory[s][d + 1] = v["pc"]
  /\ j > 1 => memory[s][d + 2] = v["Z"]
  /\ j > 3 => memory[s][d + 3] = v["r0"]
  /\ j > 4 => memory[s][d + 4] = v["SREG"]
  /\ \A r \in {"r0", "saved", "arg1", "arg2", "arg3", "X", "Y"} : reg[r] = v[r]
  /\ j <= 2 => reg["Z"] = v["Z"]
  /\ j > 2 => reg["Z"] = v["SREG"]
  /\ reg["SREG"] = q

(* The instructions before, around and after presave_code. *)
Entry == << <<"push", "Z">>, <<"mov", "Z", "SREG">>, <<"push", "r0">>, <<"push", "Z">> >>

(* The instructions of Entering, by position. *)
LEMMA EnteringBlock ==
  ASSUME NEW presave \in Program, NEW load \in Program
  PROVE  LET n == Len(presave)
         IN  /\ Entering(presave, load) \in Program
             /\ n \in Nat /\ Len(Entering(presave, load)) = 4 + n + Len(load)
             /\ Entering(presave, load)[1] = Entry[1] /\ Entering(presave, load)[2] = Entry[2]
             /\ \A i \in 1 .. n : Entering(presave, load)[2 + i] = presave[i]
             /\ Entering(presave, load)[3 + n] = Entry[3] /\ Entering(presave, load)[4 + n] = Entry[4]
             /\ \A i \in 1 .. Len(load) : Entering(presave, load)[4 + n + i] = load[i]
<1> DEFINE first  == << <<"push", "Z">>, <<"mov", "Z", "SREG">> >>
           second == << <<"push", "r0">>, <<"push", "Z">> >>
           masked == first \o presave
           pushed == masked \o second
           n      == Len(presave)
<1>1. first \in Program /\ second \in Program
  BY DEF Program, Instructions
<1>2. Len(first) = 2 /\ first[1] = Entry[1] /\ first[2] = Entry[2]
  BY DEF Entry
<1>3. Len(second) = 2 /\ second[1] = Entry[3] /\ second[2] = Entry[4]
  BY DEF Entry
<1>4. n \in Nat /\ Len(load) \in Nat
  BY LenProperties DEF Program
<1> DEFINE all == pushed \o load
<1>5. Entering(presave, load) = all
  BY DEF Entering
<1> HIDE DEF first, second
<1>6. /\ masked \in Program /\ Len(masked) = Len(first) + Len(presave)
      /\ \A i \in 1 .. Len(first) + Len(presave) :
           masked[i] = IF i <= Len(first) THEN first[i] ELSE presave[i - Len(first)]
  BY <1>1, Concat
<1> HIDE DEF masked
<1>7. /\ pushed \in Program /\ Len(pushed) = Len(masked) + Len(second)
      /\ \A i \in 1 .. Len(masked) + Len(second) :
           pushed[i] = IF i <= Len(masked) THEN masked[i] ELSE second[i - Len(masked)]
  BY <1>1, <1>6, Concat
<1> HIDE DEF pushed
<1>8. /\ all \in Program /\ Len(all) = Len(pushed) + Len(load)
      /\ \A i \in 1 .. Len(pushed) + Len(load) :
           all[i] = IF i <= Len(pushed) THEN pushed[i] ELSE load[i - Len(pushed)]
  BY <1>7, Concat
<1> HIDE DEF all
<1> HIDE DEF n
<1>9. Len(masked) = 2 + n /\ Len(pushed) = 4 + n
  BY <1>2, <1>3, <1>4, <1>6, <1>7 DEF n
<1>10. /\ pushed[1] = Entry[1] /\ pushed[2] = Entry[2]
       /\ \A i \in 1 .. n : pushed[2 + i] = presave[i]
       /\ pushed[3 + n] = Entry[3] /\ pushed[4 + n] = Entry[4]
  BY <1>2, <1>3, <1>4, <1>6, <1>7, <1>9, SMTT(30) DEF n
<1>11. /\ all[1] = Entry[1] /\ all[2] = Entry[2]
       /\ \A i \in 1 .. n : all[2 + i] = presave[i]
       /\ all[3 + n] = Entry[3] /\ all[4 + n] = Entry[4]
       /\ \A i \in 1 .. Len(load) : all[4 + n + i] = load[i]
  <2>1. \A i \in 1 .. 4 + n : all[i] = pushed[i]
    BY <1>4, <1>8, <1>9
  <2>2. \A i \in 1 .. Len(load) : all[4 + n + i] = load[i]
    BY <1>4, <1>8, <1>9
  <2> QED
    BY <1>4, <1>10, <2>1, <2>2
<1> QED
  BY <1>4, <1>5, <1>8, <1>9, <1>11 DEF n

(* Each of the four takes the machine to the next position. *)
LEMMA EnteringStep ==
  ASSUME MachineOK, StackSize \in Nat, NEW v, NEW s \in Stack, NEW d \in Nat, d + 4 <= StackSize,
         NEW c, NEW q, NEW j \in 1 .. 4, j = 2 => q = v["SREG"],
         EnteringAt(j, v, s, d, q), code # <<>>, Head(code) = Entry[j], Instruction
  PROVE  /\ MachineOK' /\ code' = Tail(code) /\ Undisturbed(s, d, c) /\ UNCHANGED context
         /\ EnteringAt(j + 1, v, s, d, q)'
<1>n. \A r \in {"r0", "saved", "arg1", "arg2", "arg3", "X", "Y", "Z", "SREG", "SP"} : r \in Register
  BY DEF Register
<1>1. CASE j = 1
  <2>1. reg["SP"] = StackPointer(s, d + 1) /\ Head(code) = <<"push", "Z">>
    BY <1>1 DEF EnteringAt, EntryDepth, Entry
  <2>2. MachineOK' /\ code' = Tail(code) /\ Pushed(s, d + 1, reg["Z"])
    BY <1>n, <1>1, <2>1, PushEffect
  <2>3. EnteringAt(2, v, s, d, q)'
    BY <1>1, <2>2 DEF EnteringAt, EntryDepth, Pushed, Register
  <2>4. Undisturbed(s, d, c) /\ UNCHANGED context
    BY <2>2 DEF Undisturbed, Pushed
  <2> QED
    BY <1>1, <2>2, <2>3, <2>4
<1>2. CASE j = 2
  <2>1. Head(code) = <<"mov", "Z", "SREG">>
    BY <1>2 DEF Entry
  <2>2. MachineOK' /\ code' = Tail(code) /\ Assigned("Z", reg["SREG"])
    BY <1>n, <1>2, <2>1, MoveEffect
  <2>3. EnteringAt(3, v, s, d, q)'
    BY <1>2, <2>2 DEF EnteringAt, EntryDepth, Assigned, Register
  <2>4. Undisturbed(s, d, c) /\ UNCHANGED context
    BY <2>2 DEF Undisturbed, Assigned
  <2> QED
    BY <1>2, <2>2, <2>3, <2>4
<1>3. CASE j = 3
  <2>1. reg["SP"] = StackPointer(s, d + 2) /\ Head(code) = <<"push", "r0">>
    BY <1>3 DEF EnteringAt, EntryDepth, Entry
  <2>2. MachineOK' /\ code' = Tail(code) /\ Pushed(s, d + 2, reg["r0"])
    BY <1>n, <1>3, <2>1, PushEffect
  <2>3. EnteringAt(4, v, s, d, q)'
    BY <1>3, <2>2 DEF EnteringAt, EntryDepth, Pushed, Register
  <2>4. Undisturbed(s, d, c) /\ UNCHANGED context
    BY <2>2 DEF Undisturbed, Pushed
  <2> QED
    BY <1>3, <2>2, <2>3, <2>4
<1>4. CASE j = 4
  <2>1. reg["SP"] = StackPointer(s, d + 3) /\ Head(code) = <<"push", "Z">>
    BY <1>4 DEF EnteringAt, EntryDepth, Entry
  <2>2. MachineOK' /\ code' = Tail(code) /\ Pushed(s, d + 3, reg["Z"])
    BY <1>n, <1>4, <2>1, PushEffect
  <2>3. EnteringAt(5, v, s, d, q)'
    BY <1>4, <2>2 DEF EnteringAt, EntryDepth, Pushed, Register
  <2>4. Undisturbed(s, d, c) /\ UNCHANGED context
    BY <2>2 DEF Undisturbed, Pushed
  <2> QED
    BY <1>4, <2>2, <2>3, <2>4
<1> QED
  BY <1>1, <1>2, <1>3, <1>4

(* With the pointer in Z the saving begins. *)
LEMMA EntryDone ==
  ASSUME NEW v, NEW s, NEW d, NEW q, NEW c, EnteringAt(5, v, s, d, q), "Z" \in Register,
         Assigned("Z", Pointer(c))
  PROVE  SavingAt(1, v, s, d, c, q)'
BY DEF EnteringAt, EntryDepth, Assigned, SavingAt, StackAt, SaveDepth, RegistersAt, StoredAt, Register
-----------------------------------------------------------------------------
(* The functions, in the pieces that the lemmas above are about.            *)

Return     == << <<"ret">> >>
Fetch(arg) == << <<"mov", "Z", arg>> >>
GetContext == Entering(<<>>, Fetch("arg1"))
Resuming   == LoadAll \o Return

LEMMA FunctionPieces ==
  /\ Return \in Program /\ Fetch("arg1") \in Program /\ Fetch("arg2") \in Program
  /\ Saving \in Program /\ LoadAll \in Program /\ Resuming \in Program
  /\ Fetch("arg1") \o Resuming \in Program /\ Fetch("arg2") \o Resuming \in Program
<1>1. Return \in Program /\ Fetch("arg1") \in Program /\ Fetch("arg2") \in Program
  BY DEF Return, Fetch, Program, Instructions
<1>2. Saving \in Program /\ LoadAll \in Program
  BY SavingBlock, LoadingBlock
<1>3. Resuming \in Program
  BY <1>1, <1>2, Concat DEF Resuming
<1>4. Fetch("arg1") \o Resuming \in Program /\ Fetch("arg2") \o Resuming \in Program
  BY <1>1, <1>3, Concat
<1> QED
  BY <1>1, <1>2, <1>3, <1>4

(* The instructions of GetContext. *)
LEMMA GetContextBlock ==
  /\ GetContext \in Program /\ Len(GetContext) = 5
  /\ \A j \in 1 .. 4 : GetContext[j] = Entry[j]
  /\ GetContext[5] = <<"mov", "Z", "arg1">>
<1> DEFINE load == Fetch("arg1")
           none == <<>>
<1>1. load \in Program /\ none \in Program
  BY FunctionPieces DEF Program
<1>2. Len(load) = 1 /\ load[1] = <<"mov", "Z", "arg1">> /\ Len(none) = 0
  BY DEF Fetch
<1>3. GetContext = Entering(none, load)
  BY DEF GetContext
<1> HIDE DEF load, none
<1>4. /\ GetContext \in Program /\ Len(GetContext) = 4 + Len(none) + Len(load)
      /\ GetContext[1] = Entry[1] /\ GetContext[2] = Entry[2]
      /\ GetContext[3 + Len(none)] = Entry[3] /\ GetContext[4 + Len(none)] = Entry[4]
      /\ \A i \in 1 .. Len(load) : GetContext[4 + Len(none) + i] = load[i]
  BY <1>1, <1>3, EnteringBlock
<1> QED
  BY <1>2, <1>4

(* How the functions begin. *)
LEMMA GetContextSave ==
  AVR_SAVE_CONTEXT(<<>>, << <<"mov", "Z", "arg1">> >>) = GetContext \o Saving
<1>1. <<>> \in Program /\ Fetch("arg1") \in Program
  BY FunctionPieces DEF Program
<1> QED
  BY <1>1, SaveSplit DEF GetContext, Fetch

LEMMA GetContextCode == avr_getcontext = GetContext \o (Saving \o Return)
<1>1. (GetContext \o Saving) \o Return = GetContext \o (Saving \o Return)
  <2>1. GetContext \in Program /\ Saving \in Program /\ Return \in Program
    BY GetContextBlock, FunctionPieces
  <2> QED
    BY <2>1, ConcatTwice
<1> QED
  BY <1>1, GetContextSave DEF avr_getcontext, Return

LEMMA SetContextCode == avr_setcontext = Fetch("arg1") \o Resuming
<1>1. (Fetch("arg1") \o LoadAll) \o Return = Fetch("arg1") \o (LoadAll \o Return)
  <2>1. Fetch("arg1") \in Program /\ LoadAll \in Program /\ Return \in Program
    BY FunctionPieces
  <2> QED
    BY <2>1, ConcatTwice
<1> QED
  BY <1>1 DEF avr_setcontext, AVR_RESTORE_CONTEXT, Return, Fetch, Resuming

LEMMA SwapContextCode ==
  avr_swapcontext = GetContext \o (Saving \o (Fetch("arg2") \o Resuming))
<1> DEFINE save == GetContext \o Saving
           load == Fetch("arg2") \o LoadAll
           after == Fetch("arg2") \o Resuming
<1>1. /\ save \in Program /\ load \in Program /\ Return \in Program /\ GetContext \in Program
      /\ Saving \in Program /\ after \in Program
  BY GetContextBlock, FunctionPieces, Concat
<1>2. avr_swapcontext = (save \o load) \o Return
  BY GetContextSave DEF avr_swapcontext, AVR_RESTORE_CONTEXT, Return, Fetch
<1>3. load \o Return = after
  <2>1. Fetch("arg2") \in Program /\ LoadAll \in Program /\ Return \in Program
    BY FunctionPieces
  <2>2. (Fetch("arg2") \o LoadAll) \o Return = Fetch("arg2") \o (LoadAll \o Return)
    BY <2>1, ConcatTwice
  <2> QED
    BY <2>2 DEF Resuming
<1> HIDE DEF load
<1>4. save \o after = GetContext \o (Saving \o after)
  <2>1. after \in Program /\ GetContext \in Program /\ Saving \in Program
    BY <1>1
  <2> HIDE DEF after
  <2> QED
    BY <2>1, ConcatTwice
<1> HIDE DEF save
<1>5. (save \o load) \o Return = save \o (load \o Return)
  <2>1. save \in Program /\ load \in Program /\ Return \in Program
    BY <1>1
  <2> QED
    BY <2>1, ConcatTwice
<1> QED
  BY <1>2, <1>3, <1>4, <1>5 DEF after
=============================================================================
