----------------------------- MODULE AvrContext -----------------------------
(***************************************************************************)
(* Context_switcher/avrcontext.h: the macros that save a processor context *)
(* to an avr_context_t and restore it, as programs for a small machine.    *)
(*                                                                         *)
(* Registers that every macro treats alike are one register here: "r0" is  *)
(* r0 and r1, "saved" is r2..r17, "arg3" is r18..r21, "arg2" and "arg1"    *)
(* are the pairs up to r25, which hold the arguments of a call in that     *)
(* order backwards; X, Y and Z are the pairs r26..r31; SREG and SP are     *)
(* registers, too.  A pointer stays where it is: the field an instruction  *)
(* names stands for the offset.  A value is a tuple that says which        *)
(* register of which task it is from, so that any mix-up shows.            *)
(*                                                                         *)
(* The two bytes of a stack pointer are the stack and the depth in it:     *)
(* each stack has a page of memory to itself.                              *)
(***************************************************************************)
EXTENDS Integers, Sequences

CONSTANTS Context,     \* the avr_context_t variables
          Stack,       \* the stacks
          StackSize    \* entries of a stack; a pushed register is one entry

ASSUME ContextAssumption == StackSize \in Nat

Register == {"r0", "saved", "arg1", "arg2", "arg3", "X", "Y", "Z", "SREG", "SP"}

(* avr_context_t *)
Field == Register \cup {"pc"}

VARIABLES reg,       \* register -> value
          pc,        \* where the program that runs is
          memory,    \* stack -> entry -> value
          context,   \* avr_context_t -> field -> value
          code       \* the instructions of a macro still to execute

machine == <<reg, pc, memory, context, code>>

Junk == <<"junk", -1, "junk">>

(* The status register: interrupt enable bit, and the flags of a task. *)
WithFlags(sreg, flags) == <<sreg[1], flags[2], flags[3]>>
Masked(sreg) == <<"off", sreg[2], sreg[3]>>

Pointer(c) == <<"pointer", c>>
StackPointer(s, depth) == <<"SP", s, depth>>
Top == memory[reg["SP"][2]][reg["SP"][3]]
Deeper == StackPointer(reg["SP"][2], reg["SP"][3] + 1)
Shallower == StackPointer(reg["SP"][2], reg["SP"][3] - 1)
MemoryWith(value) == [memory EXCEPT ![reg["SP"][2]][reg["SP"][3] + 1] = value]
(* What was popped is lost: an interrupt may overwrite it at once. *)
MemoryWithoutTop == [memory EXCEPT ![reg["SP"][2]][reg["SP"][3]] = Junk]
-----------------------------------------------------------------------------
(* The instructions. *)

Executes(op) == code # <<>> /\ Head(code)[1] = op

Operand(n) == Head(code)[n + 1]

Push ==
  /\ Executes("push")
  /\ memory' = MemoryWith(reg[Operand(1)])
  /\ reg' = [reg EXCEPT !["SP"] = Deeper]
  /\ UNCHANGED <<pc, context>>

Pop ==
  /\ Executes("pop")
  /\ reg' = [reg EXCEPT ![Operand(1)] = Top, !["SP"] = Shallower]
  /\ memory' = MemoryWithoutTop
  /\ UNCHANGED <<pc, context>>

(* mov, movw, in, out *)
Move ==
  /\ Executes("mov")
  /\ reg' = [reg EXCEPT ![Operand(1)] = reg[Operand(2)]]
  /\ UNCHANGED <<pc, memory, context>>

(* adiw, sbiw on a pointer: the flags change. *)
Offset ==
  /\ Executes("adiw")
  /\ reg' = [reg EXCEPT !["SREG"] = WithFlags(@, Junk)]
  /\ UNCHANGED <<pc, memory, context>>

Cli ==
  /\ Executes("cli")
  /\ reg' = [reg EXCEPT !["SREG"] = Masked(@)]
  /\ UNCHANGED <<pc, memory, context>>

(* st register -> field of the context that Y or Z points at *)
Store ==
  /\ Executes("st")
  /\ context' = [context EXCEPT ![reg[Operand(2)][2]][Operand(3)] = reg[Operand(1)]]
  /\ UNCHANGED <<reg, pc, memory>>

Load ==
  /\ Executes("ld")
  /\ reg' = [reg EXCEPT ![Operand(1)] = context[reg[Operand(2)][2]][Operand(3)]]
  /\ UNCHANGED <<pc, memory, context>>

(* out __SP_H__, then out __SP_L__: half of the stack pointer each. *)
WriteHigh ==
  /\ Executes("out_SP_H")
  /\ reg' = [reg EXCEPT !["SP"] = StackPointer(reg[Operand(1)][2], @[3])]
  /\ UNCHANGED <<pc, memory, context>>

WriteLow ==
  /\ Executes("out_SP_L")
  /\ reg' = [reg EXCEPT !["SP"] = StackPointer(@[2], reg[Operand(1)][3])]
  /\ UNCHANGED <<pc, memory, context>>

(* ret, reti *)
Ret ==
  /\ Executes("ret")
  /\ pc' = Top
  /\ reg' = [reg EXCEPT !["SP"] = Shallower]
  /\ memory' = MemoryWithoutTop
  /\ UNCHANGED context

Instruction ==
  /\ \/ Push \/ Pop \/ Move \/ Offset \/ Cli \/ Store \/ Load
     \/ WriteHigh \/ WriteLow \/ Ret
  /\ code' = Tail(code)
-----------------------------------------------------------------------------
(* The macros. *)

(* The first registers; "pop r0" is the status, then r0 itself. *)
StoreFirst ==
  << <<"pop", "r0">>, <<"st", "r0", "Z", "SREG">>, <<"pop", "r0">>,
     <<"st", "r0", "Z", "r0">>, <<"st", "saved", "Z", "saved">>,
     <<"st", "arg3", "Z", "arg3">>, <<"st", "arg2", "Z", "arg2">>,
     <<"st", "arg1", "Z", "arg1">>, <<"st", "X", "Z", "X">> >>

(* Z, the return address and the stack pointer, with Y as the pointer; then *)
(* what the macro used gets its value back from the context.                *)
StoreRest ==
  << <<"pop", "Z">>, <<"st", "Z", "Y", "Z">>,
     <<"pop", "Z">>, <<"st", "Z", "Y", "pc">>,
     <<"mov", "X", "SP">>, <<"st", "X", "Y", "SP">>, <<"push", "Z">>,
     <<"mov", "Z", "Y">>, <<"mov", "Y", "SREG">>, <<"adiw">>, <<"mov", "SREG", "Y">>,
     <<"ld", "X", "Z", "X">>, <<"ld", "Y", "Z", "Y">>, <<"push", "Y">>,
     <<"mov", "Y", "Z">>, <<"ld", "Z", "Y", "Z">>, <<"pop", "Y">> >>

(* Faulty variant: Y is stored when it points at the context already. *)
SaveStoresPointer(presave_code, load_address_to_Z_code) ==
  << <<"push", "Z">>, <<"mov", "Z", "SREG">> >> \o presave_code
  \o << <<"push", "r0">>, <<"push", "Z">> >> \o load_address_to_Z_code
  \o StoreFirst \o << <<"mov", "Y", "Z">>, <<"st", "Y", "Z", "Y">> >> \o StoreRest

(* Faulty variant: the presave code comes before SREG is read. *)
SaveMasksFirst(presave_code, load_address_to_Z_code) ==
  presave_code \o << <<"push", "Z">>, <<"mov", "Z", "SREG">> >>
  \o << <<"push", "r0">>, <<"push", "Z">> >> \o load_address_to_Z_code
  \o StoreFirst \o << <<"st", "Y", "Z", "Y">>, <<"mov", "Y", "Z">> >> \o StoreRest

(***************************************************************************)
(* Entered with the return address on the stack; left with every register  *)
(* but what presave_code did as it was, and the return address still there.*)
(***************************************************************************)
AVR_SAVE_CONTEXT(presave_code, load_address_to_Z_code) ==
  << <<"push", "Z">>, <<"mov", "Z", "SREG">> >> \o presave_code
  \o << <<"push", "r0">>, <<"push", "Z">> >> \o load_address_to_Z_code
  \o StoreFirst \o << <<"st", "Y", "Z", "Y">>, <<"mov", "Y", "Z">> >> \o StoreRest

(* With Z as the pointer: the stack pointer, the return address onto the    *)
(* stack, and the registers, those the macro itself uses last.              *)
LoadAll ==
  << <<"adiw">>, <<"ld", "r0", "Z", "SP">>, <<"out_SP_H", "r0">>, <<"out_SP_L", "r0">>,
     <<"ld", "r0", "Z", "pc">>, <<"push", "r0">>,
     <<"mov", "Y", "Z">>, <<"ld", "Z", "Y", "Z">>, <<"push", "Z">>,
     <<"mov", "Z", "Y">>, <<"ld", "Y", "Z", "Y">>, <<"ld", "X", "Z", "X">>,
     <<"ld", "arg1", "Z", "arg1">>, <<"ld", "arg2", "Z", "arg2">>,
     <<"ld", "arg3", "Z", "arg3">>, <<"ld", "saved", "Z", "saved">>,
     <<"ld", "r0", "Z", "r0">>, <<"push", "r0">>,
     <<"ld", "r0", "Z", "SREG">>, <<"mov", "SREG", "r0">>,
     <<"pop", "r0">>, <<"pop", "Z">> >>

(* Left with every register restored and the return address on the stack. *)
AVR_RESTORE_CONTEXT(load_address_to_Z_code) == load_address_to_Z_code \o LoadAll

(* The bodies of the functions; the first argument is in arg1. *)
avr_getcontext == AVR_SAVE_CONTEXT(<<>>, << <<"mov", "Z", "arg1">> >>) \o << <<"ret">> >>

avr_setcontext == AVR_RESTORE_CONTEXT(<< <<"mov", "Z", "arg1">> >>) \o << <<"ret">> >>

avr_swapcontext ==
  AVR_SAVE_CONTEXT(<<>>, << <<"mov", "Z", "arg1">> >>)
  \o AVR_RESTORE_CONTEXT(<< <<"mov", "Z", "arg2">> >>) \o << <<"ret">> >>

(***************************************************************************)
(* avr_makecontext: an empty stack, the entry point, and the arguments of  *)
(* the entry point in the registers they are passed in.                    *)
(***************************************************************************)
avr_makecontext(c, stack, entry, arg1, arg2, arg3) ==
  context' = [context EXCEPT ![c]["SP"] = StackPointer(stack, 0), ![c]["pc"] = entry,
                             ![c]["arg1"] = arg1, ![c]["arg2"] = arg2, ![c]["arg3"] = arg3]
=============================================================================
