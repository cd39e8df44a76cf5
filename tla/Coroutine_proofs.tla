-------------------------- MODULE Coroutine_proofs --------------------------
(***************************************************************************)
(* The stacks and registers of coroutines, for every number of them, every *)
(* depth of nesting and every interrupt that does not see half a stack     *)
(* pointer.                                                                *)
(***************************************************************************)
EXTENDS Coroutine, AvrContext_proofs, FiniteSetTheorems

Statuses == {"uninitialised", "AVR_CORO_SUSPENDED", "AVR_CORO_RUNNING", "AVR_CORO_DEAD"}

(* The contexts are records of their fields. *)
Records(f) ==
  /\ f = [c \in Context |-> f[c]]
  /\ \A c \in Context : f[c] = [field \in Field |-> f[c][field]]

TypeOK ==
  /\ MachineOK /\ Records(context)
  /\ status \in [Coro -> Statuses]
  /\ DOMAIN waits = Party

(* The registers that a call promises to keep. *)
Relied == Register \ {"SP", "SREG", "arg1", "arg2"}

(* On S, f and g differ at most at c. *)
SameBut(S, f, g, c) == \A q \in S : q # c => f[q] = g[q]

(* The entries p has on its stack when it waits. *)
Base(p) == IF p = Main THEN 1 ELSE 3

(***************************************************************************)
(* The definitions that follow speak of contexts x, statuses st and        *)
(* waiting frames w, which during a call are those it leads to.            *)
(***************************************************************************)

(* Context k holds what p, which waits, goes on with. *)
WaitsIn(x, w, p, k) ==
  /\ x[k]["SP"] = StackPointer(p, Base(p))
  /\ x[k]["pc"] = w[p]
  /\ x[k]["SREG"] = <<Flag(p), p, w[p]>>
  /\ \A r \in Relied : x[k][r] = <<r, p, w[p]>>

(* The context of a coroutine that has not begun. *)
Fresh(x, c) ==
  LET k == <<"exec", c>>
  IN  /\ x[k]["SP"] = StackPointer(c, 0)
      /\ x[k]["pc"] = <<"pc", "avr_makecontext_callfunc">>
      /\ x[k]["arg1"] = Pointer(<<"ret", c>>)
      /\ x[k]["arg2"] = <<"pc", "avr_coro_trampoline">>
      /\ x[k]["arg3"] = Pointer(c)

(* p has resumed c, and waits for it. *)
Link(x, st, w, p, c) ==
  /\ c \in Coro /\ st[c] = "AVR_CORO_RUNNING"
  /\ w[p] = <<"pc", "resume", c>>
  /\ WaitsIn(x, w, p, <<"ret", c>>)

(* From first to last, each has resumed the next. *)
Path(x, st, w, s, first, last) ==
  /\ s \in Seq(Party) /\ Len(s) # 0
  /\ s[1] = first /\ s[Len(s)] = last
  /\ \A i \in 2 .. Len(s) : Link(x, st, w, s[i - 1], s[i])
  /\ \A i, j \in 1 .. Len(s) : s[i] = s[j] => i = j

(* To resume c is to go on with p. *)
Resumable(x, w, c, p) ==
  \/ p = c /\ Fresh(x, c) /\ w[c] = Nothing
  \/ w[p] = <<"pc", "yield", c>> /\ WaitsIn(x, w, p, <<"exec", c>>)

Piece(x, st, w, s, c) == Path(x, st, w, s, c, s[Len(s)]) /\ Resumable(x, w, c, s[Len(s)])

(* What was cut off the chain when c was suspended: t, or nothing. *)
CutOff(x, st, w, t, c) ==
  /\ st[c] = "AVR_CORO_SUSPENDED" => t \in Seq(Party) /\ Piece(x, st, w, t, c)
  /\ st[c] # "AVR_CORO_SUSPENDED" => t = <<>>

(***************************************************************************)
(* The chain s leads from the main program to n, and each coroutine that   *)
(* is suspended is the head of a piece like it, susp[c].  Not so one that  *)
(* is running and in neither: nothing leads back to it.                    *)
(***************************************************************************)
World(x, st, w, s, susp, n) ==
  /\ Path(x, st, w, s, Main, n)
  /\ DOMAIN susp = Coro /\ susp = [c \in Coro |-> susp[c]]
  /\ \A c \in Coro : CutOff(x, st, w, susp[c], c)

(* The first n entries that p has on its stack. *)
FramesUpTo(mem, p, n) == \A i \in 1 .. n : mem[p][i] = Frames(p)[i]

FramesKept(mem, w) == \A p \in Party : w[p] # Nothing => FramesUpTo(mem, p, Base(p))
-----------------------------------------------------------------------------
(***************************************************************************)
(* What p calls a context function with: the registers are new, and the    *)
(* frame is where it goes on.                                              *)
(***************************************************************************)
CallContext(p, frame, arg1, arg2) ==
  [f \in Field |->
     IF f = "SP" THEN StackPointer(p, Base(p))
     ELSE IF f = "pc" THEN frame
     ELSE IF f = "arg1" THEN arg1 ELSE IF f = "arg2" THEN arg2
     ELSE IF f = "SREG" THEN <<Flag(p), p, frame>>
     ELSE <<f, p, frame>>]

(* The context of m is being saved to k; rest comes after it. *)
Saves(m, v, k, rest) ==
  \/ \E j \in 1 .. 5 :
       /\ code = Left(GetContext, j, Saving \o rest)
       /\ EnteringAt(j, v, m, Base(m), v["SREG"])
  \/ \E p \in 1 .. 28 :
       /\ code = Left(Saving, p, rest)
       /\ SavingAt(p, v, m, Base(m), k, v["SREG"])

(* The context k is being restored; its stack is n's, with d entries. *)
Restores(n, d, k) ==
  \E p \in 1 .. 23 :
    /\ code = Left(LoadAll, p, Return)
    /\ RestoringAt(p, n, d, k)

(* Nothing is kept behind the stack pointer. *)
Harmless ==
  LET o == reg["SP"][2]
      e == reg["SP"][3]
  IN  /\ o \in Party /\ e \in Nat /\ reg["SP"] = StackPointer(o, e)
      /\ waits[o] # Nothing => e >= Base(o)

(* n goes on with context k: it waits, or has not begun. *)
Target(x, w, n, k) ==
  \/ /\ \E c \in Coro, call \in {"resume", "yield"} : w[n] = <<"pc", call, c>>
     /\ WaitsIn(x, w, n, k)
  \/ n \in Coro /\ k = <<"exec", n>> /\ Fresh(x, n) /\ w[n] = Nothing

Depth(w, n) == IF w[n] = Nothing THEN 0 ELSE Base(n)
-----------------------------------------------------------------------------
(* The stages of a call; x is what the contexts are, or are going to be.   *)

UserAt(x, n) ==
  /\ code = <<>> /\ pc = <<"pc", "user", n>>
  /\ x = context
  /\ waits[n] = Nothing
  /\ reg["SP"] = StackPointer(n, Base(n) - 1)
  /\ FramesUpTo(memory, n, Base(n) - 1)

(* avr_coro_init makes a context for c out of that of n. *)
Initialises(x, n, c) ==
  /\ c # n
  /\ waits[n] = Nothing
  /\ FramesUpTo(memory, n, Base(n))
  /\ \A k \in Context \ {<<"exec", c>>} : x[k] = context[k]
  /\ Fresh(x, c) /\ waits[c] = Nothing /\ status[c] = "AVR_CORO_SUSPENDED"
  /\ LET v == CallContext(n, <<"pc", "init", c>>, Pointer(<<"exec", c>>), Junk)
     IN  \/ Saves(n, v, <<"exec", c>>, Return)
         \/ code = Return /\ SavingAt(29, v, n, Base(n), <<"exec", c>>, v["SREG"])
         \/ /\ code = <<>> /\ pc = <<"pc", "init", c>>
            /\ reg["SP"] = StackPointer(n, Base(n))

(* m saves itself to one context; n goes on with another one. *)
Leaves(x, n, m, v, k, next) ==
  /\ k \in Context /\ next \in Context /\ k # next
  /\ waits[m] # Nothing /\ v = CallContext(m, waits[m], Pointer(k), Pointer(next))
  /\ x = [context EXCEPT ![k] = v]
  /\ Target(x, waits, n, next)
  /\ \/ Saves(m, v, k, Fetch("arg2") \o Resuming)
     \/ /\ code = Fetch("arg2") \o Resuming
        /\ SavingAt(29, v, m, Base(m), k, v["SREG"])

Arrives(x, n, k) ==
  /\ k \in Context
  /\ x = context
  /\ Target(x, waits, n, k)
  /\ \/ code = Fetch("arg1") \o Resuming /\ reg["arg1"] = Pointer(k) /\ Harmless
     \/ /\ Restores(n, Depth(waits, n), k)
        /\ Harmless \/ Executes("out_SP_L")

Arrived(x, n) ==
  /\ x = context
  /\ \E c \in Coro, call \in {"resume", "yield"} : waits[n] = <<"pc", call, c>>
  /\ code = <<>> /\ pc = waits[n]
  /\ reg["SP"] = StackPointer(n, Base(n))
  /\ reg["SREG"] = <<Flag(n), n, waits[n]>>
  /\ \A r \in Relied : reg[r] = <<r, n, waits[n]>>

(* A coroutine that begins. *)
Begins(x, n) ==
  /\ x = context
  /\ n \in Coro /\ waits[n] = Nothing
  /\ code = <<>>
  /\ \/ /\ pc = <<"pc", "avr_makecontext_callfunc">>
        /\ reg["SP"] = StackPointer(n, 0)
        /\ reg["arg1"] = Pointer(<<"ret", n>>)
        /\ reg["arg2"] = <<"pc", "avr_coro_trampoline">>
        /\ reg["arg3"] = Pointer(n)
     \/ /\ pc = <<"pc", "avr_coro_trampoline">>
        /\ reg["SP"] = StackPointer(n, 1)
        /\ FramesUpTo(memory, n, 1)
        /\ reg["arg1"] = Pointer(n)

Creating(x, n) == \E c \in Coro : Initialises(x, n, c)

Switching(x, n) ==
  \/ \E m \in Party, k \in Context, next \in Context :
       Leaves(x, n, m, CallContext(m, waits[m], Pointer(k), Pointer(next)), k, next)
  \/ \E k \in Context : Arrives(x, n, k)
  \/ Arrived(x, n)
  \/ Begins(x, n)

Stage(x, n) == UserAt(x, n) \/ Creating(x, n) \/ Switching(x, n)

(* Between the calls, and at each instruction of them. *)
Standing(x, s, susp, n) ==
  /\ TypeOK /\ FramesKept(memory, waits)
  /\ World(x, status, waits, s, susp, n)
  /\ Stage(x, n)

IInv == \E x, s, susp, n : Standing(x, s, susp, n)
-----------------------------------------------------------------------------
(* Paths, chains and pieces, whatever is in the contexts.                   *)

(* Every set of natural numbers has a least one. *)
LEMMA LeastNumber ==
  ASSUME NEW T \in SUBSET Nat, T # {}
  PROVE  \E n \in T : \A i \in T : n <= i
<1> DEFINE R == {ss \in Nat \X Nat : ss[1] < ss[2]}
<1>1. IsWellFoundedOn(R, Nat)
  BY NatLessThanWellFounded DEF OpToRel
<1>2. R = {ss \in Nat \X Nat : ss[1] < ss[2]}
  OBVIOUS
<1> HIDE DEF R
<1>3. PICK n \in T : \A i \in T : ~(<<i, n>> \in R)
  BY <1>1, WFMin
<1>4. \A i \in T : ~(i < n)
  BY <1>2, <1>3
<1> QED
  BY <1>4

(* The constants, as the proofs use them. *)
LEMMA Sizes ==
  /\ Main \notin Coro /\ Stack = Party /\ Context = {"ret", "exec"} \X Coro
  /\ StackSize \in Nat /\ StackSize >= 7
BY CoroutineAssumption, ContextAssumption

(* All of a path but its first party are coroutines that are running. *)
LEMMA OnPath ==
  ASSUME NEW x, NEW st, NEW w, NEW s, NEW first, NEW last, Path(x, st, w, s, first, last)
  PROVE  /\ s \in Seq(Party) /\ Len(s) \in Nat /\ Len(s) >= 1
         /\ \A i \in 1 .. Len(s) : s[i] \in Party
         /\ \A i \in 2 .. Len(s) : /\ s[i] \in Coro /\ st[s[i]] = "AVR_CORO_RUNNING"
                                   /\ w[s[i - 1]] = <<"pc", "resume", s[i]>>
                                   /\ WaitsIn(x, w, s[i - 1], <<"ret", s[i]>>)
         /\ last \in Party /\ s[Len(s)] = last /\ s[1] = first
<1>1. s \in Seq(Party) /\ Len(s) # 0 /\ s[Len(s)] = last /\ s[1] = first
  BY DEF Path
<1>2. Len(s) \in Nat /\ \A i \in 1 .. Len(s) : s[i] \in Party
  BY <1>1, LenProperties, ElementOfSeq
<1>3. Len(s) >= 1 /\ Len(s) \in 1 .. Len(s)
  BY <1>1, <1>2
<1> QED
  BY <1>1, <1>2, <1>3 DEF Path, Link

(* Neither the chain nor another piece shares a party with a piece. *)
LEMMA Disjoint ==
  ASSUME NEW x, NEW st, NEW w, NEW s, NEW first, NEW last, Path(x, st, w, s, first, last),
         NEW t, NEW c \in Coro, NEW p, Path(x, st, w, t, c, p),
         st[c] = "AVR_CORO_SUSPENDED", first # c,
         first \in Coro => st[first] = "AVR_CORO_SUSPENDED"
  PROVE  \A i \in 1 .. Len(s), j \in 1 .. Len(t) : s[i] # t[j]
<1> DEFINE T == {j \in 1 .. Len(t) : \E i \in 1 .. Len(s) : s[i] = t[j]}
<1>1. SUFFICES ASSUME T # {} PROVE FALSE
  OBVIOUS
<1>2. Len(t) \in Nat /\ Len(s) \in Nat /\ t[1] = c /\ s[1] = first
  BY OnPath
<1>3. T \in SUBSET Nat
  BY <1>2
<1>4. PICK j \in T : \A n \in T : j <= n
  <2> HIDE DEF T
  <2> QED
    BY <1>1, <1>3, LeastNumber
<1>5. PICK i \in 1 .. Len(s) : s[i] = t[j]
  OBVIOUS
<1>6. CASE j = 1
  <2>1. s[i] = c /\ i \in 2 .. Len(s)
    BY <1>2, <1>5, <1>6
  <2>2. st[s[i]] = "AVR_CORO_RUNNING"
    BY <2>1, OnPath
  <2> QED
    BY <2>1, <2>2
<1>7. CASE j # 1
  <2>1. j \in 2 .. Len(t)
    BY <1>2, <1>4, <1>7
  <2>2. t[j] \in Coro /\ st[t[j]] = "AVR_CORO_RUNNING" /\ WaitsIn(x, w, t[j - 1], <<"ret", t[j]>>)
    BY <2>1, OnPath
  <2>3. i \in 2 .. Len(s)
    <3>1. i # 1
      BY <1>2, <1>5, <2>2
    <3> QED
      BY <1>2, <3>1
  <2>4. WaitsIn(x, w, s[i - 1], <<"ret", s[i]>>)
    BY <2>3, OnPath
  <2>5. s[i - 1] = t[j - 1]
    BY <1>5, <2>2, <2>4 DEF WaitsIn, StackPointer
  <2>6. j - 1 \in T /\ j \in Nat
    <3>1. j - 1 \in 1 .. Len(t) /\ i - 1 \in 1 .. Len(s) /\ j \in Nat
      BY <1>2, <2>1, <2>3
    <3> QED
      BY <2>5, <3>1
  <2>7. j <= j - 1
    BY <1>4, <2>6
  <2> HIDE DEF T
  <2> QED
    BY <2>6, <2>7
<1> QED
  BY <1>6, <1>7

(* A path is kept by what leaves its parties alone. *)
LEMMA PathKept ==
  ASSUME NEW x, NEW st, NEW w, NEW s, NEW first, NEW last, Path(x, st, w, s, first, last),
         NEW x2, NEW st2, NEW w2,
         \A i \in 1 .. Len(s) : i < Len(s) => w2[s[i]] = w[s[i]],
         \A i \in 2 .. Len(s) : st2[s[i]] = st[s[i]] /\ x2[<<"ret", s[i]>>] = x[<<"ret", s[i]>>]
  PROVE  Path(x2, st2, w2, s, first, last)
<1>1. Len(s) \in Nat
  BY OnPath
<1>2. ASSUME NEW i \in 2 .. Len(s)
      PROVE  Link(x2, st2, w2, s[i - 1], s[i])
  <2>1. Link(x, st, w, s[i - 1], s[i])
    BY <1>2 DEF Path
  <2>2. w2[s[i - 1]] = w[s[i - 1]] /\ st2[s[i]] = st[s[i]] /\ x2[<<"ret", s[i]>>] = x[<<"ret", s[i]>>]
    <3>1. i - 1 \in 1 .. Len(s) /\ i - 1 < Len(s)
      BY <1>1, <1>2
    <3> QED
      BY <1>2, <3>1
  <2> QED
    BY <2>1, <2>2 DEF Link, WaitsIn
<1> QED
  BY <1>2 DEF Path

(* So is what a suspended coroutine goes on with. *)
LEMMA PieceKept ==
  ASSUME NEW x, NEW st, NEW w, NEW t, NEW c \in Coro, Piece(x, st, w, t, c),
         NEW x2, NEW st2, NEW w2,
         \A i \in 1 .. Len(t) : w2[t[i]] = w[t[i]],
         \A i \in 2 .. Len(t) : st2[t[i]] = st[t[i]] /\ x2[<<"ret", t[i]>>] = x[<<"ret", t[i]>>],
         x2[<<"exec", c>>] = x[<<"exec", c>>]
  PROVE  Piece(x2, st2, w2, t, c)
<1>1. Path(x, st, w, t, c, t[Len(t)]) /\ Resumable(x, w, c, t[Len(t)])
  BY DEF Piece
<1>2. Path(x2, st2, w2, t, c, t[Len(t)])
  BY <1>1, PathKept
<1>3. w2[t[Len(t)]] = w[t[Len(t)]]
  BY <1>1, OnPath
<1>4. Resumable(x2, w2, c, t[Len(t)])
  BY <1>1, <1>3 DEF Resumable, Fresh, WaitsIn
<1> QED
  BY <1>2, <1>4 DEF Piece

(* The coroutine that heads a piece is not in another one. *)
LEMMA OtherPiece ==
  ASSUME NEW x, NEW st, NEW w, NEW t, NEW c \in Coro, Piece(x, st, w, t, c),
         NEW other \in Coro, other # c, st[other] # "AVR_CORO_RUNNING"
  PROVE  \A i \in 1 .. Len(t) : t[i] # other
<1>1. PICK p : Path(x, st, w, t, c, p)
  BY DEF Piece
<1>2. Len(t) \in Nat /\ t[1] = c
  BY <1>1, OnPath
<1>3. \A i \in 2 .. Len(t) : st[t[i]] = "AVR_CORO_RUNNING"
  BY <1>1 DEF Path, Link
<1> QED
  BY <1>2, <1>3

(* A path that ends where another one begins, one link further. *)
LEMMA PathConcat ==
  ASSUME NEW x, NEW st, NEW w, NEW s, NEW first, NEW m, Path(x, st, w, s, first, m),
         NEW t, NEW c, NEW p, Path(x, st, w, t, c, p), Link(x, st, w, m, c),
         \A i \in 1 .. Len(s), j \in 1 .. Len(t) : s[i] # t[j]
  PROVE  Path(x, st, w, s \o t, first, p)
<1>1. /\ s \in Seq(Party) /\ Len(s) \in Nat /\ Len(s) >= 1 /\ s[1] = first /\ s[Len(s)] = m
      /\ \A i, j \in 1 .. Len(s) : s[i] = s[j] => i = j
  BY OnPath DEF Path
<1>2. /\ t \in Seq(Party) /\ Len(t) \in Nat /\ Len(t) >= 1 /\ t[1] = c /\ t[Len(t)] = p
      /\ \A i, j \in 1 .. Len(t) : t[i] = t[j] => i = j
  BY OnPath DEF Path
<1> DEFINE u == s \o t
<1>3. /\ u \in Seq(Party) /\ Len(u) = Len(s) + Len(t)
      /\ \A i \in 1 .. Len(s) : u[i] = s[i]
      /\ \A j \in 1 .. Len(t) : u[Len(s) + j] = t[j]
  <2>1. /\ u \in Seq(Party) /\ Len(u) = Len(s) + Len(t)
        /\ \A i \in 1 .. Len(s) + Len(t) : u[i] = IF i <= Len(s) THEN s[i] ELSE t[i - Len(s)]
    BY <1>1, <1>2, ConcatProperties
  <2> HIDE DEF u
  <2>2. \A i \in 1 .. Len(s) : u[i] = s[i]
    <3>1. \A i \in 1 .. Len(s) : i \in 1 .. Len(s) + Len(t) /\ i <= Len(s)
      BY <1>1, <1>2
    <3> QED
      BY <2>1, <3>1
  <2>3. ASSUME NEW j \in 1 .. Len(t)
        PROVE  u[Len(s) + j] = t[j]
    <3>1. PICK k \in 1 .. Len(s) + Len(t) : k = Len(s) + j
      BY <1>1, <1>2
    <3>2. ~(k <= Len(s)) /\ k - Len(s) = j
      BY <1>1, <1>2, <3>1
    <3> QED
      BY <2>1, <3>1, <3>2
  <2> QED
    BY <2>1, <2>2, <2>3
<1> HIDE DEF u
<1>4. \A i \in 1 .. Len(u) : i \in 1 .. Len(s) \/ (i > Len(s) /\ i - Len(s) \in 1 .. Len(t))
  BY <1>1, <1>2, <1>3
<1>5. ASSUME NEW i \in 2 .. Len(u)
      PROVE  Link(x, st, w, u[i - 1], u[i])
  <2>1. CASE i <= Len(s)
    <3>1. i \in 2 .. Len(s) /\ u[i] = s[i] /\ u[i - 1] = s[i - 1]
      <4>1. i \in 2 .. Len(s) /\ i \in 1 .. Len(s) /\ i - 1 \in 1 .. Len(s)
        BY <1>1, <1>3, <2>1
      <4> QED
        BY <1>3, <4>1
    <3> QED
      BY <3>1 DEF Path
  <2>2. CASE i = Len(s) + 1
    <3>1. u[i] = c /\ u[i - 1] = m
      <4>1. 1 \in 1 .. Len(t) /\ i - 1 = Len(s) /\ Len(s) \in 1 .. Len(s)
        BY <1>1, <1>2, <2>2
      <4> QED
        BY <1>1, <1>2, <1>3, <2>2, <4>1
    <3> QED
      BY <3>1
  <2>3. CASE i > Len(s) + 1
    <3>1. PICK j \in 2 .. Len(t) : i = Len(s) + j
      <4>1. i - Len(s) \in 2 .. Len(t) /\ i = Len(s) + (i - Len(s))
        BY <1>1, <1>2, <1>3, <2>3
      <4> QED
        BY <4>1
    <3>2. u[i] = t[j] /\ u[i - 1] = t[j - 1]
      <4>1. j - 1 \in 1 .. Len(t) /\ i - 1 = Len(s) + (j - 1)
        BY <1>1, <1>2, <3>1
      <4> QED
        BY <1>3, <3>1, <4>1
    <3> QED
      BY <3>2 DEF Path
  <2> QED
    BY <1>1, <1>3, <2>1, <2>2, <2>3
<1>6. ASSUME NEW i \in 1 .. Len(u), NEW j \in 1 .. Len(u), u[i] = u[j]
      PROVE  i = j
  <2>1. CASE i <= Len(s) /\ j <= Len(s)
    BY <1>1, <1>3, <1>6, <2>1
  <2>2. CASE i <= Len(s) /\ j > Len(s)
    <3>1. u[i] = s[i] /\ u[j] = t[j - Len(s)] /\ j - Len(s) \in 1 .. Len(t) /\ i \in 1 .. Len(s)
      <4>1. j - Len(s) \in 1 .. Len(t) /\ j = Len(s) + (j - Len(s)) /\ i \in 1 .. Len(s)
        BY <1>1, <1>4, <2>2
      <4> QED
        BY <1>3, <4>1
    <3>2. s[i] # t[j - Len(s)]
      BY <3>1
    <3> QED
      BY <1>6, <3>1, <3>2
  <2>3. CASE j <= Len(s) /\ i > Len(s)
    <3>1. u[j] = s[j] /\ u[i] = t[i - Len(s)] /\ i - Len(s) \in 1 .. Len(t) /\ j \in 1 .. Len(s)
      <4>1. i - Len(s) \in 1 .. Len(t) /\ i = Len(s) + (i - Len(s)) /\ j \in 1 .. Len(s)
        BY <1>1, <1>4, <2>3
      <4> QED
        BY <1>3, <4>1
    <3>2. s[j] # t[i - Len(s)]
      BY <3>1
    <3> QED
      BY <1>6, <3>1, <3>2
  <2>4. CASE i > Len(s) /\ j > Len(s)
    <3>1. i - Len(s) \in 1 .. Len(t) /\ i = Len(s) + (i - Len(s))
      BY <1>1, <1>4, <2>4
    <3>2. j - Len(s) \in 1 .. Len(t) /\ j = Len(s) + (j - Len(s))
      BY <1>1, <1>4, <2>4
    <3>3. t[i - Len(s)] = t[j - Len(s)]
      BY <1>3, <1>6, <3>1, <3>2
    <3>4. i - Len(s) = j - Len(s)
      BY <1>2, <3>1, <3>2, <3>3
    <3> QED
      BY <1>1, <3>4
  <2> QED
    BY <1>1, <2>1, <2>2, <2>3, <2>4
<1>7. u[1] = first /\ u[Len(u)] = p /\ Len(u) # 0
  <2>1. 1 \in 1 .. Len(s) /\ Len(t) \in 1 .. Len(t) /\ Len(u) = Len(s) + Len(t) /\ Len(u) # 0
    BY <1>1, <1>2, <1>3
  <2> QED
    BY <1>1, <1>2, <1>3, <2>1
<1>8. u \in Seq(Party)
  BY <1>3
<1> QED
  BY <1>5, <1>6, <1>7, <1>8 DEF Path, u

(* A part of a path is a path. *)
LEMMA SubPath ==
  ASSUME NEW x, NEW st, NEW w, NEW s, NEW first, NEW last, Path(x, st, w, s, first, last),
         NEW a \in 1 .. Len(s), NEW b \in a .. Len(s)
  PROVE  /\ Path(x, st, w, SubSeq(s, a, b), s[a], s[b])
         /\ Len(SubSeq(s, a, b)) = b - a + 1
         /\ \A i \in 1 .. b - a + 1 : SubSeq(s, a, b)[i] = s[a + i - 1]
<1>1. /\ s \in Seq(Party) /\ Len(s) \in Nat
      /\ \A i \in 1 .. Len(s) : s[i] \in Party
      /\ \A i, j \in 1 .. Len(s) : s[i] = s[j] => i = j
  BY OnPath DEF Path
<1>2. /\ a \in Int /\ b \in Int /\ a <= b /\ \A i \in a .. b : i \in 1 .. Len(s)
  BY <1>1
<1> DEFINE u == SubSeq(s, a, b)
<1>3. /\ u \in Seq(Party) /\ Len(u) = b - a + 1
      /\ \A i \in 1 .. b - a + 1 : u[i] = s[a + i - 1]
  BY <1>1, <1>2, SubSeqProperties
<1> HIDE DEF u
<1>4. ASSUME NEW i \in 2 .. Len(u)
      PROVE  Link(x, st, w, u[i - 1], u[i])
  <2>1. /\ i \in 1 .. b - a + 1 /\ i - 1 \in 1 .. b - a + 1
        /\ a + i - 1 \in 2 .. Len(s) /\ a + (i - 1) - 1 = (a + i - 1) - 1
    BY <1>1, <1>2, <1>3
  <2>2. u[i] = s[a + i - 1] /\ u[i - 1] = s[(a + i - 1) - 1]
    BY <1>3, <2>1
  <2> QED
    BY <2>1, <2>2 DEF Path
<1>5. ASSUME NEW i \in 1 .. Len(u), NEW j \in 1 .. Len(u), u[i] = u[j]
      PROVE  i = j
  <2>1. a + i - 1 \in 1 .. Len(s) /\ a + j - 1 \in 1 .. Len(s) /\ s[a + i - 1] = s[a + j - 1]
    BY <1>1, <1>2, <1>3, <1>5
  <2>2. a + i - 1 = a + j - 1
    BY <1>1, <2>1
  <2> QED
    BY <1>2, <1>3, <2>2
<1>6. u[1] = s[a] /\ u[Len(u)] = s[b] /\ Len(u) # 0
  <2>1. /\ 1 \in 1 .. b - a + 1 /\ a + 1 - 1 = a
        /\ b - a + 1 \in 1 .. b - a + 1 /\ a + (b - a + 1) - 1 = b /\ b - a + 1 # 0
    BY <1>2
  <2> QED
    BY <1>3, <2>1
<1>7. Path(x, st, w, u, s[a], s[b])
  BY <1>3, <1>4, <1>5, <1>6 DEF Path
<1> QED
  BY <1>3, <1>7 DEF u
-----------------------------------------------------------------------------
(* What the calls do to chain and pieces.                                   *)

(* Where the main program is, a chain begins; a piece is apart from it.     *)
LEMMA Apart ==
  ASSUME NEW x, NEW st, NEW w, NEW s, NEW susp, NEW m, World(x, st, w, s, susp, m),
         NEW t, NEW c \in Coro, st[c] = "AVR_CORO_SUSPENDED", Piece(x, st, w, t, c)
  PROVE  \A i \in 1 .. Len(s), j \in 1 .. Len(t) : s[i] # t[j]
<1>1. Path(x, st, w, s, Main, m) /\ Main # c /\ Main \notin Coro
  BY Sizes DEF World
<1>2. PICK p : Path(x, st, w, t, c, p)
  BY DEF Piece
<1> QED
  BY <1>1, <1>2, Disjoint

(* A chain and a new piece for c, the others being what they were. *)
LEMMA CutAt ==
  ASSUME NEW x, NEW st, NEW w, NEW s, NEW susp, NEW m, World(x, st, w, s, susp, m),
         NEW c \in Coro, NEW t,
         NEW x2, NEW st2, NEW w2, NEW s2, NEW m2, Path(x2, st2, w2, s2, Main, m2),
         CutOff(x2, st2, w2, t, c),
         \A d \in Coro \ {c} : CutOff(x2, st2, w2, susp[d], d)
  PROVE  World(x2, st2, w2, s2, [susp EXCEPT ![c] = t], m2)
<1> DEFINE after == [susp EXCEPT ![c] = t]
<1>1. DOMAIN susp = Coro
  BY DEF World
<1>2. /\ DOMAIN after = Coro /\ after = [d \in Coro |-> after[d]]
      /\ after[c] = t /\ \A d \in Coro \ {c} : after[d] = susp[d]
  BY <1>1
<1> HIDE DEF after
<1>3. \A d \in Coro : CutOff(x2, st2, w2, after[d], d)
  BY <1>2
<1>4. World(x2, st2, w2, s2, after, m2)
  BY <1>2, <1>3 DEF World
<1> QED
  BY <1>4 DEF after

(* avr_coro_resume: the piece of c is put at the end of the chain. *)
LEMMA ResumeWorld ==
  ASSUME NEW x, NEW st, NEW w, NEW s, NEW susp, NEW m, World(x, st, w, s, susp, m),
         w[m] = Nothing,
         NEW c \in Coro, st[c] = "AVR_CORO_SUSPENDED",
         NEW x2, SameBut(Context, x2, x, <<"ret", c>>),
         NEW w2, w2[m] = <<"pc", "resume", c>>, SameBut(Party, w2, w, m),
         WaitsIn(x2, w2, m, <<"ret", c>>),
         NEW st2, st2[c] = "AVR_CORO_RUNNING", SameBut(Coro, st2, st, c)
  PROVE  \E t \in Seq(Party) :
           /\ t = susp[c] /\ Piece(x, st, w, t, c)
           /\ World(x2, st2, w2, s \o t, [susp EXCEPT ![c] = <<>>], t[Len(t)])
           /\ Target(x2, w2, t[Len(t)], <<"exec", c>>)
           /\ t[Len(t)] # m
<1>1. PICK t \in Seq(Party) : t = susp[c] /\ Piece(x, st, w, t, c)
  BY DEF World, CutOff
<1>2. \A i \in 1 .. Len(s), j \in 1 .. Len(t) : s[i] # t[j]
  BY <1>1, Apart
<1>3. PICK p : p = t[Len(t)]
  OBVIOUS
<1>4. Path(x, st, w, s, Main, m) /\ Path(x, st, w, t, c, p) /\ Resumable(x, w, c, p)
  BY <1>1, <1>3 DEF World, Piece
<1>5. /\ Len(s) \in Nat /\ Len(s) >= 1 /\ s[Len(s)] = m /\ m \in Party
      /\ \A i \in 1 .. Len(s) : s[i] \in Party
      /\ \A i, j \in 1 .. Len(s) : s[i] = s[j] => i = j
  BY <1>4, OnPath DEF Path
<1>6. /\ Len(t) \in Nat /\ Len(t) >= 1 /\ t[1] = c /\ p \in Party
      /\ \A i \in 1 .. Len(t) : t[i] \in Party
  BY <1>4, OnPath
<1>7. \A j \in 1 .. Len(t) : t[j] # m
  <2>1. Len(s) \in 1 .. Len(s)
    BY <1>5
  <2> QED
    BY <1>2, <1>5, <2>1
<1>8. \A i \in 1 .. Len(s) : s[i] # c
  <2>1. 1 \in 1 .. Len(t)
    BY <1>6
  <2> QED
    BY <1>2, <1>6, <2>1
<1>9. p # m /\ c # m
  <2>1. Len(t) \in 1 .. Len(t) /\ 1 \in 1 .. Len(t)
    BY <1>6
  <2> QED
    BY <1>3, <1>6, <1>7, <2>1
<1>10. /\ \A q \in Party : q # m => w2[q] = w[q]
       /\ \A q \in Coro : q # c => st2[q] = st[q]
       /\ \A q \in Coro : q # c => x2[<<"ret", q>>] = x[<<"ret", q>>]
       /\ \A q \in Coro : x2[<<"exec", q>>] = x[<<"exec", q>>]
       /\ w2[m] = <<"pc", "resume", c>> /\ st2[c] = "AVR_CORO_RUNNING"
  BY <1>5, Sizes DEF SameBut
<1>11. Path(x2, st2, w2, s, Main, m)
  <2>1. ASSUME NEW i \in 1 .. Len(s), i < Len(s) PROVE w2[s[i]] = w[s[i]]
    <3>1. Len(s) \in 1 .. Len(s) /\ i # Len(s)
      BY <1>5, <2>1
    <3> QED
      BY <1>5, <1>10, <3>1
  <2>2. ASSUME NEW i \in 2 .. Len(s)
        PROVE  st2[s[i]] = st[s[i]] /\ x2[<<"ret", s[i]>>] = x[<<"ret", s[i]>>]
    <3>1. s[i] \in Coro
      BY <1>4 DEF Path, Link
    <3>2. i \in 1 .. Len(s)
      BY <1>5
    <3> QED
      BY <1>8, <1>10, <3>1, <3>2
  <2>3. \A i \in 1 .. Len(s) : i < Len(s) => w2[s[i]] = w[s[i]]
    BY <2>1
  <2>4. \A i \in 2 .. Len(s) : st2[s[i]] = st[s[i]] /\ x2[<<"ret", s[i]>>] = x[<<"ret", s[i]>>]
    BY <2>2
  <2> QED
    BY <1>4, <2>3, <2>4, PathKept
<1>12. Path(x2, st2, w2, t, c, p)
  <2>1. ASSUME NEW i \in 1 .. Len(t) PROVE w2[t[i]] = w[t[i]]
    BY <1>6, <1>7, <1>10
  <2>2. ASSUME NEW i \in 2 .. Len(t)
        PROVE  st2[t[i]] = st[t[i]] /\ x2[<<"ret", t[i]>>] = x[<<"ret", t[i]>>]
    <3>1. t[i] \in Coro /\ st[t[i]] = "AVR_CORO_RUNNING"
      BY <1>4 DEF Path, Link
    <3> QED
      BY <1>10, <3>1
  <2>3. \A i \in 1 .. Len(t) : i < Len(t) => w2[t[i]] = w[t[i]]
    BY <2>1
  <2>4. \A i \in 2 .. Len(t) : st2[t[i]] = st[t[i]] /\ x2[<<"ret", t[i]>>] = x[<<"ret", t[i]>>]
    BY <2>2
  <2> QED
    BY <1>4, <2>3, <2>4, PathKept
<1>13. Path(x2, st2, w2, s \o t, Main, p)
  <2>1. Link(x2, st2, w2, m, c)
    BY <1>10 DEF Link
  <2> QED
    BY <1>2, <1>11, <1>12, <2>1, PathConcat
<1>14. ASSUME NEW d \in Coro, st2[d] = "AVR_CORO_SUSPENDED"
       PROVE  d # c /\ susp[d] \in Seq(Party) /\ Piece(x2, st2, w2, susp[d], d)
  <2>1. d # c /\ st[d] = "AVR_CORO_SUSPENDED"
    BY <1>10, <1>14
  <2>2. PICK u \in Seq(Party) : u = susp[d] /\ Piece(x, st, w, u, d)
    BY <2>1 DEF World, CutOff
  <2>3. \A i \in 1 .. Len(u) : u[i] # m
    <3>1. \A i \in 1 .. Len(s), j \in 1 .. Len(u) : s[i] # u[j]
      BY <2>1, <2>2, Apart
    <3>2. Len(s) \in 1 .. Len(s)
      BY <1>5
    <3> QED
      BY <1>5, <3>1, <3>2
  <2>4. PICK q : Path(x, st, w, u, d, q)
    BY <2>2 DEF Piece
  <2>5. \A i \in 1 .. Len(u) : w2[u[i]] = w[u[i]]
    BY <1>10, <2>3, <2>4, OnPath
  <2>6. ASSUME NEW i \in 2 .. Len(u)
        PROVE  st2[u[i]] = st[u[i]] /\ x2[<<"ret", u[i]>>] = x[<<"ret", u[i]>>]
    <3>1. u[i] \in Coro /\ st[u[i]] = "AVR_CORO_RUNNING"
      BY <2>4 DEF Path, Link
    <3> QED
      BY <1>10, <3>1
  <2>7. \A i \in 2 .. Len(u) : st2[u[i]] = st[u[i]] /\ x2[<<"ret", u[i]>>] = x[<<"ret", u[i]>>]
    BY <2>6
  <2>8. x2[<<"exec", d>>] = x[<<"exec", d>>]
    BY <1>10
  <2>9. Piece(x2, st2, w2, u, d)
    BY <2>2, <2>5, <2>7, <2>8, PieceKept
  <2> QED
    BY <2>1, <2>2, <2>9
<1>15. Target(x2, w2, p, <<"exec", c>>)
  <2>1. w2[p] = w[p] /\ x2[<<"exec", c>>] = x[<<"exec", c>>]
    BY <1>6, <1>9, <1>10
  <2>2. CASE p = c /\ Fresh(x, c) /\ w[c] = Nothing
    BY <2>1, <2>2 DEF Target, Fresh
  <2>3. CASE w[p] = <<"pc", "yield", c>> /\ WaitsIn(x, w, p, <<"exec", c>>)
    BY <2>1, <2>3 DEF Target, WaitsIn
  <2> QED
    BY <1>4, <2>2, <2>3 DEF Resumable
<1>16. World(x2, st2, w2, s \o t, [susp EXCEPT ![c] = <<>>], p)
  <2>1. CutOff(x2, st2, w2, <<>>, c)
    BY <1>10 DEF CutOff
  <2>2. ASSUME NEW d \in Coro \ {c}
        PROVE  CutOff(x2, st2, w2, susp[d], d)
    BY <1>10, <1>14 DEF CutOff, World
  <2> QED
    BY <1>13, <2>1, <2>2, CutAt
<1> QED
  BY <1>1, <1>3, <1>9, <1>15, <1>16

(* avr_coro_yield: the chain from c on becomes the piece of c. *)
LEMMA YieldWorld ==
  ASSUME NEW x, NEW st, NEW w, NEW s, NEW susp, NEW m, World(x, st, w, s, susp, m),
         w[m] = Nothing,
         NEW n \in 2 .. Len(s), NEW c, c = s[n],
         NEW x2, SameBut(Context, x2, x, <<"exec", c>>),
         NEW w2, w2[m] = <<"pc", "yield", c>>, SameBut(Party, w2, w, m),
         WaitsIn(x2, w2, m, <<"exec", c>>),
         NEW st2, st2[c] = "AVR_CORO_SUSPENDED", SameBut(Coro, st2, st, c)
  PROVE  /\ World(x2, st2, w2, SubSeq(s, 1, n - 1),
                 [susp EXCEPT ![c] = SubSeq(s, n, Len(s))], s[n - 1])
         /\ Target(x2, w2, s[n - 1], <<"ret", c>>)
         /\ s[n - 1] # m
<1>1. Path(x, st, w, s, Main, m)
  BY DEF World
<1>2. /\ Len(s) \in Nat /\ Len(s) >= 1 /\ s[Len(s)] = m /\ m \in Party
      /\ \A i \in 1 .. Len(s) : s[i] \in Party
      /\ \A i, j \in 1 .. Len(s) : s[i] = s[j] => i = j
  BY <1>1, OnPath DEF Path
<1>3. /\ c \in Coro /\ st[c] = "AVR_CORO_RUNNING" /\ w[s[n - 1]] = <<"pc", "resume", c>>
      /\ WaitsIn(x, w, s[n - 1], <<"ret", c>>)
  BY <1>1, OnPath
<1>4. /\ n \in Nat /\ n - 1 \in 1 .. Len(s) /\ n - 1 # Len(s) /\ 1 \in 1 .. Len(s)
      /\ n \in 1 .. Len(s) /\ Len(s) \in n .. Len(s) /\ n - 1 \in 1 .. Len(s) /\ Len(s) \in 1 .. Len(s)
  BY <1>2
<1>5. s[n - 1] # m
  BY <1>2, <1>4
<1>6. /\ \A q \in Party : q # m => w2[q] = w[q]
      /\ \A q \in Coro : q # c => st2[q] = st[q]
      /\ \A q \in Coro : x2[<<"ret", q>>] = x[<<"ret", q>>]
      /\ \A q \in Coro : q # c => x2[<<"exec", q>>] = x[<<"exec", q>>]
      /\ w2[m] = <<"pc", "yield", c>> /\ st2[c] = "AVR_CORO_SUSPENDED"
  BY <1>2, <1>3, Sizes DEF SameBut
<1>7. ASSUME NEW a \in 1 .. Len(s), NEW b \in a .. Len(s), b < n \/ a >= n
      PROVE  Path(x2, st2, w2, SubSeq(s, a, b), s[a], s[b])
  <2> DEFINE u == SubSeq(s, a, b)
  <2>1. /\ Path(x, st, w, u, s[a], s[b]) /\ Len(u) = b - a + 1
        /\ \A i \in 1 .. b - a + 1 : u[i] = s[a + i - 1]
    BY <1>1, SubPath
  <2> HIDE DEF u
  <2>2. ASSUME NEW i \in 1 .. Len(u), i < Len(u) PROVE w2[u[i]] = w[u[i]]
    <3>1. a + i - 1 \in 1 .. Len(s) /\ a + i - 1 # Len(s) /\ i \in 1 .. b - a + 1
      <4>1. Len(s) \in Nat /\ Len(u) = b - a + 1
        BY <1>2, <2>1
      <4> QED
        BY <4>1, <2>2
    <3>2. PICK j \in 1 .. Len(s) : j = a + i - 1 /\ j # Len(s)
      BY <3>1
    <3>3. u[i] = s[j]
      BY <2>1, <3>1, <3>2
    <3>4. s[j] # m /\ s[j] \in Party
      BY <1>2, <1>4, <3>2
    <3> QED
      BY <1>6, <3>3, <3>4
  <2>3. ASSUME NEW i \in 2 .. Len(u)
        PROVE  st2[u[i]] = st[u[i]] /\ x2[<<"ret", u[i]>>] = x[<<"ret", u[i]>>]
    <3>1. a + i - 1 \in 1 .. Len(s) /\ a + i - 1 # n /\ i \in 1 .. b - a + 1
      BY <1>2, <1>4, <1>7, <2>1, <2>3
    <3>2. u[i] # c
      BY <1>2, <1>4, <2>1, <3>1
    <3>3. u[i] \in Coro
      BY <2>1 DEF Path, Link
    <3> QED
      BY <1>6, <3>2, <3>3
  <2>5. \A i \in 1 .. Len(u) : i < Len(u) => w2[u[i]] = w[u[i]]
    BY <2>2
  <2>6. \A i \in 2 .. Len(u) : st2[u[i]] = st[u[i]] /\ x2[<<"ret", u[i]>>] = x[<<"ret", u[i]>>]
    BY <2>3
  <2>7. PICK first, last : first = s[a] /\ last = s[b]
    OBVIOUS
  <2>8. Path(x, st, w, u, first, last)
    BY <2>1, <2>7
  <2>4. Path(x2, st2, w2, u, first, last)
    BY <2>5, <2>6, <2>8, PathKept
  <2> QED
    BY <2>4, <2>7 DEF u
<1>8. Path(x2, st2, w2, SubSeq(s, 1, n - 1), Main, s[n - 1])
  <2>1. s[1] = Main
    BY <1>1 DEF Path
  <2>2. n - 1 \in 1 .. Len(s) /\ n - 1 < n
    BY <1>4
  <2> QED
    BY <1>4, <1>7, <2>1, <2>2
<1>9. Piece(x2, st2, w2, SubSeq(s, n, Len(s)), c)
  <2> DEFINE u == SubSeq(s, n, Len(s))
  <2>1. n >= n
    BY <1>4
  <2>2. Path(x2, st2, w2, u, c, m)
    BY <1>2, <1>4, <1>7, <2>1
  <2> HIDE DEF u
  <2>3. u[Len(u)] = m
    BY <2>2 DEF Path
  <2>4. Resumable(x2, w2, c, m)
    BY <1>6 DEF Resumable
  <2>5. Piece(x2, st2, w2, u, c)
    BY <2>2, <2>3, <2>4 DEF Piece
  <2> QED
    BY <2>5 DEF u
<1>10. ASSUME NEW d \in Coro, st2[d] = "AVR_CORO_SUSPENDED", d # c
       PROVE  susp[d] \in Seq(Party) /\ Piece(x2, st2, w2, susp[d], d)
  <2>1. st[d] = "AVR_CORO_SUSPENDED"
    BY <1>6, <1>10
  <2>2. PICK u \in Seq(Party) : u = susp[d] /\ Piece(x, st, w, u, d)
    BY <2>1 DEF World, CutOff
  <2>3. \A i \in 1 .. Len(s), j \in 1 .. Len(u) : s[i] # u[j]
    BY <2>1, <2>2, Apart
  <2>4. \A i \in 1 .. Len(u) : u[i] # m /\ u[i] # c
    BY <1>2, <1>4, <2>3
  <2>5. PICK q : Path(x, st, w, u, d, q)
    BY <2>2 DEF Piece
  <2>6. \A i \in 1 .. Len(u) : w2[u[i]] = w[u[i]]
    BY <1>6, <2>4, <2>5, OnPath
  <2>7. ASSUME NEW i \in 2 .. Len(u)
        PROVE  st2[u[i]] = st[u[i]] /\ x2[<<"ret", u[i]>>] = x[<<"ret", u[i]>>]
    <3>1. u[i] \in Coro
      BY <2>5 DEF Path, Link
    <3>2. i \in 1 .. Len(u)
      BY <2>5, OnPath
    <3> QED
      BY <1>6, <2>4, <3>1, <3>2
  <2>8. \A i \in 2 .. Len(u) : st2[u[i]] = st[u[i]] /\ x2[<<"ret", u[i]>>] = x[<<"ret", u[i]>>]
    BY <2>7
  <2>9. x2[<<"exec", d>>] = x[<<"exec", d>>]
    BY <1>6, <1>10
  <2>10. Piece(x2, st2, w2, u, d)
    BY <2>2, <2>6, <2>8, <2>9, PieceKept
  <2> QED
    BY <2>2, <2>10
<1>11. SubSeq(s, n, Len(s)) \in Seq(Party)
  BY <1>9 DEF Piece, Path
<1>12. World(x2, st2, w2, SubSeq(s, 1, n - 1),
             [susp EXCEPT ![c] = SubSeq(s, n, Len(s))], s[n - 1])
  <2>1. PICK t, u, last : t = SubSeq(s, n, Len(s)) /\ u = SubSeq(s, 1, n - 1) /\ last = s[n - 1]
    OBVIOUS
  <2>2. CutOff(x2, st2, w2, t, c) /\ Path(x2, st2, w2, u, Main, last)
    BY <1>6, <1>8, <1>9, <1>11, <2>1 DEF CutOff
  <2>3. ASSUME NEW d \in Coro \ {c}
        PROVE  CutOff(x2, st2, w2, susp[d], d)
    BY <1>6, <1>10 DEF CutOff, World
  <2>4. World(x2, st2, w2, u, [susp EXCEPT ![c] = t], last)
    BY <1>3, <2>2, <2>3, CutAt
  <2> QED
    BY <2>1, <2>4
<1>13. Target(x2, w2, s[n - 1], <<"ret", c>>)
  <2>1. w2[s[n - 1]] = w[s[n - 1]] /\ x2[<<"ret", c>>] = x[<<"ret", c>>]
    BY <1>2, <1>3, <1>4, <1>5, <1>6
  <2> QED
    BY <1>3, <2>1 DEF Target, WaitsIn
<1> QED
  BY <1>5, <1>12, <1>13

(* The function of m returns: the chain without m. *)
LEMMA FinishWorld ==
  ASSUME NEW x, NEW st, NEW w, NEW s, NEW susp, NEW m, World(x, st, w, s, susp, m),
         m # Main, w[m] = Nothing,
         NEW st2, st2[m] = "AVR_CORO_DEAD", SameBut(Coro, st2, st, m)
  PROVE  /\ m \in Coro /\ Len(s) \in Nat /\ Len(s) >= 2
         /\ World(x, st2, w, SubSeq(s, 1, Len(s) - 1), susp, s[Len(s) - 1])
         /\ Target(x, w, s[Len(s) - 1], <<"ret", m>>)
         /\ s[Len(s) - 1] # m
<1> USE DEF SameBut
<1>1. Path(x, st, w, s, Main, m)
  BY DEF World
<1>2. /\ Len(s) \in Nat /\ Len(s) >= 1 /\ s[Len(s)] = m /\ s[1] = Main
      /\ \A i \in 1 .. Len(s) : s[i] \in Party
      /\ \A i, j \in 1 .. Len(s) : s[i] = s[j] => i = j
  BY <1>1, OnPath DEF Path
<1>3. Len(s) # 1
  BY <1>2
<1> DEFINE n == Len(s) - 1
           u == SubSeq(s, 1, n)
<1>4. /\ n \in 1 .. Len(s) /\ n + 1 = Len(s) /\ n # Len(s) /\ 1 \in 1 .. Len(s) /\ n \in 1 .. Len(s)
      /\ Len(s) \in 1 .. Len(s) /\ Len(s) \in 2 .. Len(s)
  BY <1>2, <1>3
<1>5. /\ s[Len(s)] \in Coro /\ w[s[Len(s) - 1]] = <<"pc", "resume", s[Len(s)]>>
      /\ WaitsIn(x, w, s[Len(s) - 1], <<"ret", s[Len(s)]>>)
  <2>1. Len(s) \in 2 .. Len(s)
    BY <1>4
  <2>2. Link(x, st, w, s[Len(s) - 1], s[Len(s)])
    BY <1>1, <2>1 DEF Path
  <2> QED
    BY <2>2 DEF Link
<1>6. /\ m \in Coro /\ w[s[n]] = <<"pc", "resume", m>> /\ WaitsIn(x, w, s[n], <<"ret", m>>)
  BY <1>2, <1>5
<1>7. s[n] # m
  BY <1>2, <1>4
<1>8. Path(x, st, w, u, Main, s[n]) /\ Len(u) = n /\ \A i \in 1 .. n : u[i] = s[i]
  <2>1. 1 \in 1 .. Len(s) /\ n \in 1 .. Len(s) /\ s[1] = Main
    BY <1>2, <1>4
  <2>2. /\ Path(x, st, w, SubSeq(s, 1, n), s[1], s[n])
        /\ Len(SubSeq(s, 1, n)) = n - 1 + 1
        /\ \A i \in 1 .. n - 1 + 1 : SubSeq(s, 1, n)[i] = s[1 + i - 1]
    <3> HIDE DEF n
    <3> QED
      BY <1>1, <2>1, SubPath
  <2>3. n - 1 + 1 = n /\ \A i \in 1 .. n : 1 + i - 1 = i
    BY <1>2
  <2> HIDE DEF n
  <2> QED
    BY <2>1, <2>2, <2>3
<1>9. PICK last : last = s[n]
  OBVIOUS
<1>10. n \in Nat /\ \A i \in 1 .. n : i \in 1 .. Len(s) /\ i # Len(s)
  <2>1. Len(s) \in Nat /\ n + 1 = Len(s) /\ n \in Nat
    BY <1>2, <1>3
  <2> HIDE DEF n
  <2> QED
    BY <2>1
<1> HIDE DEF n, u
<1>11. Path(x, st2, w, u, Main, last)
  <2>1. ASSUME NEW i \in 2 .. Len(u)
        PROVE  st2[u[i]] = st[u[i]]
    <3>1. u[i] \in Coro
      BY <1>8 DEF Path, Link
    <3>2. i \in 1 .. n
      BY <1>8, <1>10
    <3>3. u[i] # m
      BY <1>2, <1>4, <1>8, <1>10, <3>2
    <3> QED
      BY <3>1, <3>3
  <2>2. \A i \in 1 .. Len(u) : i < Len(u) => w[u[i]] = w[u[i]]
    OBVIOUS
  <2>3. \A i \in 2 .. Len(u) : st2[u[i]] = st[u[i]] /\ x[<<"ret", u[i]>>] = x[<<"ret", u[i]>>]
    BY <2>1
  <2>4. Path(x, st, w, u, Main, last)
    BY <1>8, <1>9
  <2> QED
    BY <2>2, <2>3, <2>4, PathKept
<1>12. ASSUME NEW d \in Coro, st2[d] = "AVR_CORO_SUSPENDED"
       PROVE  susp[d] \in Seq(Party) /\ Piece(x, st2, w, susp[d], d)
  <2>1. d # m /\ st[d] = "AVR_CORO_SUSPENDED"
    BY <1>12
  <2>2. PICK t \in Seq(Party) : t = susp[d] /\ Piece(x, st, w, t, d)
    BY <2>1 DEF World, CutOff
  <2>3. \A i \in 1 .. Len(s), j \in 1 .. Len(t) : s[i] # t[j]
    BY <2>1, <2>2, Apart
  <2>4. \A i \in 1 .. Len(t) : t[i] # m
    BY <1>2, <1>4, <2>3
  <2>5. PICK q : Path(x, st, w, t, d, q)
    BY <2>2 DEF Piece
  <2>6. ASSUME NEW i \in 2 .. Len(t)
        PROVE  st2[t[i]] = st[t[i]] /\ x[<<"ret", t[i]>>] = x[<<"ret", t[i]>>]
    <3>1. t[i] \in Coro
      BY <2>5 DEF Path, Link
    <3>2. i \in 1 .. Len(t)
      BY <2>5, OnPath
    <3> QED
      BY <2>4, <3>1, <3>2
  <2>7. \A i \in 2 .. Len(t) : st2[t[i]] = st[t[i]] /\ x[<<"ret", t[i]>>] = x[<<"ret", t[i]>>]
    BY <2>6
  <2>8. \A i \in 1 .. Len(t) : w[t[i]] = w[t[i]]
    OBVIOUS
  <2>9. Piece(x, st, w, t, d) /\ x[<<"exec", d>>] = x[<<"exec", d>>]
    BY <2>2
  <2>10. Piece(x, st2, w, t, d)
    BY <2>7, <2>8, <2>9, PieceKept
  <2> QED
    BY <2>2, <2>10
<1>13. World(x, st2, w, u, susp, last)
  <2>1. ASSUME NEW d \in Coro
        PROVE  CutOff(x, st2, w, susp[d], d)
    <3>1. CutOff(x, st, w, susp[d], d)
      BY DEF World
    <3>2. d = m => st[m] = "AVR_CORO_RUNNING"
      BY <1>1, <1>2, <1>4, <1>6, OnPath
    <3> QED
      BY <1>12, <3>1, <3>2 DEF CutOff
  <2> QED
    BY <1>11, <2>1 DEF World
<1>14. Target(x, w, last, <<"ret", m>>)
  BY <1>6, <1>9 DEF Target
<1> QED
  BY <1>2, <1>3, <1>6, <1>7, <1>9, <1>13, <1>14 DEF n, u

(* avr_coro_init: the piece of c is c alone. *)
LEMMA InitWorld ==
  ASSUME NEW x, NEW st, NEW w, NEW s, NEW susp, NEW m, World(x, st, w, s, susp, m),
         NEW c \in Coro, st[c] # "AVR_CORO_RUNNING",
         NEW x2, SameBut(Context, x2, x, <<"exec", c>>), Fresh(x2, c),
         NEW w2, w2[c] = Nothing, SameBut(Party, w2, w, c),
         NEW st2, st2[c] = "AVR_CORO_SUSPENDED", SameBut(Coro, st2, st, c)
  PROVE  /\ World(x2, st2, w2, s, [susp EXCEPT ![c] = <<c>>], m) /\ c # m
<1> USE DEF SameBut
<1>1. Path(x, st, w, s, Main, m)
  BY DEF World
<1>2. /\ Len(s) \in Nat /\ Len(s) >= 1 /\ s[Len(s)] = m /\ s[1] = Main
      /\ \A i \in 1 .. Len(s) : s[i] \in Party
  BY <1>1, OnPath
<1>3. /\ \A q \in Coro : x2[<<"ret", q>>] = x[<<"ret", q>>]
      /\ \A q \in Coro : q # c => x2[<<"exec", q>>] = x[<<"exec", q>>]
      /\ c # Main /\ c \in Party
  BY Sizes DEF Party
<1>4. \A i \in 1 .. Len(s) : s[i] # c
  <2>1. \A i \in 2 .. Len(s) : st[s[i]] = "AVR_CORO_RUNNING"
    BY <1>1 DEF Path, Link
  <2> QED
    BY <1>2, <1>3, <2>1
<1>5. Path(x2, st2, w2, s, Main, m)
  <2>1. \A i \in 1 .. Len(s) : i < Len(s) => w2[s[i]] = w[s[i]]
    BY <1>2, <1>4
  <2>2. ASSUME NEW i \in 2 .. Len(s)
        PROVE  st2[s[i]] = st[s[i]] /\ x2[<<"ret", s[i]>>] = x[<<"ret", s[i]>>]
    <3>1. s[i] \in Coro
      BY <1>1 DEF Path, Link
    <3>2. i \in 1 .. Len(s)
      BY <1>2
    <3> QED
      BY <1>3, <1>4, <3>1, <3>2
  <2>3. \A i \in 2 .. Len(s) : st2[s[i]] = st[s[i]] /\ x2[<<"ret", s[i]>>] = x[<<"ret", s[i]>>]
    BY <2>2
  <2> QED
    BY <1>1, <2>1, <2>3, PathKept
<1>6. Piece(x2, st2, w2, <<c>>, c)
  <2> DEFINE u == <<c>>
  <2>1. u \in Seq(Party) /\ Len(u) = 1 /\ u[1] = c
    BY <1>3
  <2> HIDE DEF u
  <2>2. Path(x2, st2, w2, u, c, c)
    BY <2>1 DEF Path
  <2>3. Piece(x2, st2, w2, u, c)
    BY <2>1, <2>2 DEF Piece, Resumable
  <2> QED
    BY <2>3 DEF u
<1>7. ASSUME NEW d \in Coro, st2[d] = "AVR_CORO_SUSPENDED", d # c
      PROVE  susp[d] \in Seq(Party) /\ Piece(x2, st2, w2, susp[d], d)
  <2>1. st[d] = "AVR_CORO_SUSPENDED"
    BY <1>7
  <2>2. PICK t \in Seq(Party) : t = susp[d] /\ Piece(x, st, w, t, d)
    BY <2>1 DEF World, CutOff
  <2>3. \A i \in 1 .. Len(t) : t[i] # c
    BY <1>7, <2>2, OtherPiece
  <2>4. PICK q : Path(x, st, w, t, d, q)
    BY <2>2 DEF Piece
  <2>5. \A i \in 1 .. Len(t) : w2[t[i]] = w[t[i]]
    BY <2>3, <2>4, OnPath
  <2>6. ASSUME NEW i \in 2 .. Len(t)
        PROVE  st2[t[i]] = st[t[i]] /\ x2[<<"ret", t[i]>>] = x[<<"ret", t[i]>>]
    <3>1. t[i] \in Coro
      BY <2>4 DEF Path, Link
    <3>2. i \in 1 .. Len(t)
      BY <2>4, OnPath
    <3> QED
      BY <1>3, <2>3, <3>1, <3>2
  <2>7. \A i \in 2 .. Len(t) : st2[t[i]] = st[t[i]] /\ x2[<<"ret", t[i]>>] = x[<<"ret", t[i]>>]
    BY <2>6
  <2>8. x2[<<"exec", d>>] = x[<<"exec", d>>]
    BY <1>3, <1>7
  <2>9. Piece(x2, st2, w2, t, d)
    BY <2>2, <2>5, <2>7, <2>8, PieceKept
  <2> QED
    BY <2>2, <2>9
<1>8. <<c>> \in Seq(Party)
  BY <1>3
<1>9. World(x2, st2, w2, s, [susp EXCEPT ![c] = <<c>>], m)
  <2>1. CutOff(x2, st2, w2, <<c>>, c)
    BY <1>6, <1>8 DEF CutOff
  <2>2. ASSUME NEW d \in Coro \ {c}
        PROVE  CutOff(x2, st2, w2, susp[d], d)
    BY <1>7 DEF CutOff, World
  <2> QED
    BY <1>5, <2>1, <2>2, CutAt
<1>10. c # m
  <2>1. Len(s) \in 1 .. Len(s)
    BY <1>2
  <2> QED
    BY <1>2, <1>4, <2>1
<1> QED
  BY <1>9, <1>10

(* The piece of a coroutine that has not begun is the coroutine alone. *)
LEMMA FreshPiece ==
  ASSUME NEW x, NEW st, NEW w, NEW s, NEW susp, NEW m, World(x, st, w, s, susp, m),
         NEW c \in Coro, st[c] = "AVR_CORO_SUSPENDED", Fresh(x, c)
  PROVE  susp[c] = <<c>>
<1>1. PICK t : t = susp[c]
  OBVIOUS
<1>2. t \in Seq(Party) /\ Piece(x, st, w, t, c)
  BY <1>1 DEF World, CutOff
<1>3. /\ Len(t) \in Nat /\ Len(t) >= 1 /\ t[1] = c /\ t[Len(t)] \in Party
      /\ \A i, j \in 1 .. Len(t) : t[i] = t[j] => i = j
  BY <1>2, OnPath DEF Piece, Path
<1>4. t[Len(t)] = c
  <2>1. x[<<"exec", c>>]["SP"] = StackPointer(c, 0)
    BY DEF Fresh
  <2>2. Base(t[Len(t)]) # 0
    BY DEF Base
  <2>3. ~WaitsIn(x, w, t[Len(t)], <<"exec", c>>)
    BY <2>1, <2>2 DEF WaitsIn, StackPointer
  <2> QED
    BY <1>2, <2>3 DEF Piece, Resumable
<1>5. Len(t) = 1
  <2>1. 1 \in 1 .. Len(t) /\ Len(t) \in 1 .. Len(t)
    BY <1>3
  <2> QED
    BY <1>3, <1>4, <2>1
<1>6. t = <<c>>
  BY <1>2, <1>3, <1>5
<1> QED
  BY <1>1, <1>6

(* n does not wait any more. *)
LEMMA ArriveWorld ==
  ASSUME NEW x, NEW st, NEW w, NEW s, NEW susp, NEW n, World(x, st, w, s, susp, n),
         NEW w2, SameBut(Party, w2, w, n)
  PROVE  World(x, st, w2, s, susp, n)
<1> USE DEF SameBut
<1>1. Path(x, st, w, s, Main, n)
  BY DEF World
<1>2. /\ Len(s) \in Nat /\ Len(s) >= 1 /\ s[Len(s)] = n
      /\ \A i \in 1 .. Len(s) : s[i] \in Party
      /\ \A i, j \in 1 .. Len(s) : s[i] = s[j] => i = j
  BY <1>1, OnPath DEF Path
<1>3. Path(x, st, w2, s, Main, n)
  <2>1. ASSUME NEW i \in 1 .. Len(s), i < Len(s) PROVE w2[s[i]] = w[s[i]]
    <3>1. Len(s) \in 1 .. Len(s) /\ i # Len(s)
      BY <1>2, <2>1
    <3> QED
      BY <1>2, <3>1
  <2>2. \A i \in 1 .. Len(s) : i < Len(s) => w2[s[i]] = w[s[i]]
    BY <2>1
  <2>3. \A i \in 2 .. Len(s) : st[s[i]] = st[s[i]] /\ x[<<"ret", s[i]>>] = x[<<"ret", s[i]>>]
    OBVIOUS
  <2> QED
    BY <1>1, <2>2, <2>3, PathKept
<1>4. ASSUME NEW d \in Coro, st[d] = "AVR_CORO_SUSPENDED"
      PROVE  susp[d] \in Seq(Party) /\ Piece(x, st, w2, susp[d], d)
  <2>1. PICK t \in Seq(Party) : t = susp[d] /\ Piece(x, st, w, t, d)
    BY <1>4 DEF World, CutOff
  <2>2. \A i \in 1 .. Len(s), j \in 1 .. Len(t) : s[i] # t[j]
    BY <1>4, <2>1, Apart
  <2>3. \A i \in 1 .. Len(t) : t[i] # n
    <3>1. Len(s) \in 1 .. Len(s)
      BY <1>2
    <3> QED
      BY <1>2, <2>2, <3>1
  <2>4. PICK q : Path(x, st, w, t, d, q)
    BY <2>1 DEF Piece
  <2>5. \A i \in 1 .. Len(t) : w2[t[i]] = w[t[i]]
    BY <2>3, <2>4, OnPath
  <2>6. \A i \in 2 .. Len(t) : st[t[i]] = st[t[i]] /\ x[<<"ret", t[i]>>] = x[<<"ret", t[i]>>]
    OBVIOUS
  <2>7. Piece(x, st, w, t, d) /\ x[<<"exec", d>>] = x[<<"exec", d>>]
    BY <2>1
  <2>8. Piece(x, st, w2, t, d)
    BY <2>5, <2>6, <2>7, PieceKept
  <2> QED
    BY <2>1, <2>8
<1> QED
  BY <1>3, <1>4 DEF World, CutOff
-----------------------------------------------------------------------------
(* The instructions of a save and of a restore, and interrupts between them. *)

(* What is on the stack of a party that waits. *)
LEMMA FramesOf ==
  ASSUME NEW p \in Party
  PROVE  /\ DOMAIN Frames(p) = 1 .. Base(p) /\ Len(Frames(p)) = Base(p)
         /\ Base(p) \in 1 .. 3 /\ Base(p) + 4 <= StackSize /\ p \in Stack
         /\ Frames(p)[Base(p)] = <<"pc", "user", p>>
         /\ p # Main => /\ Base(p) = 3
                        /\ Frames(p)[1] = <<"pc", "successor", Pointer(<<"ret", p>>)>>
                        /\ Frames(p)[2] = <<"pc", "trampoline", p>>
<1>1. Base(p) \in 1 .. 3 /\ Base(p) + 4 <= StackSize /\ p \in Stack
  BY Sizes DEF Base
<1>2. CASE p = Main
  <2> DEFINE user == << <<"pc", "user", p>> >>
  <2>1. Frames(p) = <<>> \o user
    BY <1>2 DEF Frames
  <2>2. <<>> \o user = user
    BY ConcatEmptySeq
  <2>3. Len(user) = 1 /\ DOMAIN user = 1 .. 1 /\ user[1] = <<"pc", "user", p>>
    OBVIOUS
  <2> HIDE DEF user
  <2> QED
    BY <1>1, <1>2, <2>1, <2>2, <2>3 DEF Base
<1>3. CASE p # Main
  <2> DEFINE user  == << <<"pc", "user", p>> >>
             below == << <<"pc", "successor", Pointer(<<"ret", p>>)>>, <<"pc", "trampoline", p>> >>
             T     == {user[1], below[1], below[2]}
  <2>1. Frames(p) = below \o user
    BY <1>3 DEF Frames
  <2>2. below \in Seq(T) /\ user \in Seq(T)
    OBVIOUS
  <2>3. Len(user) = 1 /\ Len(below) = 2
    OBVIOUS
  <2>4. /\ user[1] = <<"pc", "user", p>>
        /\ below[1] = <<"pc", "successor", Pointer(<<"ret", p>>)>>
        /\ below[2] = <<"pc", "trampoline", p>>
    OBVIOUS
  <2>5. Base(p) = 3
    BY <1>3 DEF Base
  <2> HIDE DEF user, below, T
  <2>6. /\ below \o user \in Seq(T) /\ Len(below \o user) = 3
        /\ \A i \in 1 .. 3 : (below \o user)[i] = IF i <= 2 THEN below[i] ELSE user[i - 2]
    BY <2>2, <2>3, ConcatProperties
  <2>7. DOMAIN (below \o user) = 1 .. 3
    BY <2>6, LenProperties
  <2>8. (below \o user)[1] = below[1] /\ (below \o user)[2] = below[2] /\ (below \o user)[3] = user[1]
    BY <2>6
  <2> QED
    BY <1>1, <1>3, <2>1, <2>4, <2>5, <2>6, <2>7, <2>8
<1> QED
  BY <1>2, <1>3

(* While a context function saves or restores, there is code left. *)
LEMMA CodeLeft ==
  /\ \A m, v, k, rest : rest \in Program /\ Saves(m, v, k, rest) => code # <<>>
  /\ \A n, d, k : Restores(n, d, k) => code # <<>>
<1>1. /\ GetContext \in Program /\ Len(GetContext) = 5 /\ Saving \in Program /\ Len(Saving) = 28
      /\ LoadAll \in Program /\ Len(LoadAll) = 22 /\ Return \in Program
  BY GetContextBlock, SavingBlock, LoadingBlock, FunctionPieces
<1>2. ASSUME NEW m, NEW v, NEW k, NEW rest, rest \in Program, Saves(m, v, k, rest)
      PROVE  code # <<>>
  <2>1. CASE \E p \in 1 .. 28 : code = Left(Saving, p, rest)
    <3>1. PICK p \in 1 .. Len(Saving) : code = Left(Saving, p, rest)
      BY <1>1, <2>1
    <3>2. Left(Saving, p, rest) # <<>>
      BY <1>1, <1>2, LeftStep
    <3> QED
      BY <3>1, <3>2
  <2>2. CASE \E j \in 1 .. 5 : code = Left(GetContext, j, Saving \o rest)
    <3>1. Saving \o rest \in Program
      BY <1>1, <1>2, Concat
    <3>2. PICK j \in 1 .. Len(GetContext) : code = Left(GetContext, j, Saving \o rest)
      BY <1>1, <2>2
    <3> QED
      BY <1>1, <3>1, <3>2, LeftStep
  <2> QED
    BY <1>2, <2>1, <2>2 DEF Saves
<1>3. ASSUME NEW n, NEW d, NEW k, Restores(n, d, k)
      PROVE  code # <<>>
  <2>1. PICK p \in 1 .. 23 : code = Left(LoadAll, p, Return)
    BY <1>3 DEF Restores
  <2>2. CASE p = 23
    <3>1. code = Left(LoadAll, Len(LoadAll) + 1, Return)
      BY <1>1, <2>1, <2>2
    <3>2. code = Return
      BY <1>1, <3>1, LeftNothing
    <3> QED
      BY <3>2 DEF Return
  <2>3. CASE p # 23
    <3>1. p \in 1 .. 22
      BY <2>3
    <3> QED
      BY <1>1, <2>1, <3>1, LeftStep
  <2> QED
    BY <2>2, <2>3
<1> QED
  BY <1>2, <1>3

(* An instruction of a save: the next position, or the save is done. *)
LEMMA SaveStep ==
  ASSUME MachineOK, NEW m \in Party, NEW v, v["SP"] = StackPointer(m, Base(m)),
         NEW k \in Context, v["arg1"] = Pointer(k), NEW rest \in Program,
         Saves(m, v, k, rest), Instruction
  PROVE  /\ MachineOK' /\ Undisturbed(m, Base(m), k)
         /\ \/ Saves(m, v, k, rest)'
            \/ code' = rest /\ SavingAt(29, v, m, Base(m), k, v["SREG"])'
<1> DEFINE after == Saving \o rest
<1>1. /\ GetContext \in Program /\ Len(GetContext) = 5 /\ Saving \in Program /\ Len(Saving) = 28
      /\ after \in Program
  BY GetContextBlock, SavingBlock, Concat
<1>2. PICK d \in Nat, q \in {v["SREG"]} : d = Base(m) /\ q = v["SREG"]
  <2>1. Base(m) \in Nat
    BY DEF Base
  <2> QED
    BY <2>1
<1>3. m \in Stack /\ d + 4 <= StackSize /\ StackSize \in Nat /\ v["SP"] = StackPointer(m, d)
  BY <1>2, FramesOf, Sizes
<1> HIDE DEF after
<1>4. ASSUME NEW j \in 1 .. 5, code = Left(GetContext, j, after), EnteringAt(j, v, m, d, q)
      PROVE  /\ MachineOK' /\ Undisturbed(m, d, k)
             /\ \/ \E i \in 1 .. 5 : code' = Left(GetContext, i, after) /\ EnteringAt(i, v, m, d, q)'
                \/ \E p \in 1 .. 28 : code' = Left(Saving, p, rest) /\ SavingAt(p, v, m, d, k, q)'
  <2>1. code # <<>> /\ Head(code) = GetContext[j] /\ Tail(code) = Left(GetContext, j + 1, after)
    <3>1. j \in 1 .. Len(GetContext)
      BY <1>1
    <3>2. /\ Left(GetContext, j, after) # <<>> /\ Head(Left(GetContext, j, after)) = GetContext[j]
          /\ Tail(Left(GetContext, j, after)) = Left(GetContext, j + 1, after)
      BY <1>1, <3>1, LeftStep
    <3> QED
      BY <1>4, <3>2
  <2>2. CASE j < 5
    <3>n. j \in 1 .. 4 /\ j + 1 \in 1 .. 5
      BY <2>2
    <3>1. Head(code) = Entry[j]
      BY <2>1, <3>n, GetContextBlock
    <3>2. /\ MachineOK' /\ code' = Tail(code) /\ Undisturbed(m, d, k)
          /\ EnteringAt(j + 1, v, m, d, q)'
      BY <1>2, <1>3, <1>4, <2>1, <3>n, <3>1, EnteringStep
    <3>3. \E i \in 1 .. 5 : code' = Left(GetContext, i, after) /\ EnteringAt(i, v, m, d, q)'
      BY <2>1, <3>n, <3>2
    <3> QED
      BY <3>2, <3>3
  <2>3. CASE j = 5
    <3>1. Head(code) = <<"mov", "Z", "arg1">>
      BY <2>1, <2>3, GetContextBlock
    <3>2. "Z" \in Register /\ "arg1" \in Register
      BY DEF Register
    <3>3. EnteringAt(5, v, m, d, q) /\ reg["arg1"] = Pointer(k)
      BY <1>4, <2>3 DEF EnteringAt
    <3>4. MachineOK' /\ code' = Tail(code) /\ Assigned("Z", Pointer(k))
      BY <2>1, <3>1, <3>2, <3>3, MoveEffect
    <3>5. SavingAt(1, v, m, d, k, q)'
      BY <3>2, <3>3, <3>4, EntryDone
    <3>6. code' = Left(Saving, 1, rest)
      <4>1. code' = Left(GetContext, Len(GetContext) + 1, after)
        BY <1>1, <2>1, <2>3, <3>4
      <4>2. code' = after
        BY <1>1, <4>1, LeftNothing
      <4> QED
        BY <1>1, <4>2, LeftAll DEF after
    <3>7. Undisturbed(m, d, k)
      BY <3>4 DEF Undisturbed, Assigned
    <3>8. 1 \in 1 .. 28
      OBVIOUS
    <3>9. \E p \in 1 .. 28 : code' = Left(Saving, p, rest) /\ SavingAt(p, v, m, d, k, q)'
      BY <3>5, <3>6, <3>8
    <3> QED
      BY <3>4, <3>7, <3>9
  <2> QED
    BY <2>2, <2>3
<1>5. ASSUME NEW p \in 1 .. 28, code = Left(Saving, p, rest), SavingAt(p, v, m, d, k, q)
      PROVE  /\ MachineOK' /\ Undisturbed(m, d, k)
             /\ \/ \E i \in 1 .. 28 : code' = Left(Saving, i, rest) /\ SavingAt(i, v, m, d, k, q)'
                \/ code' = rest /\ SavingAt(29, v, m, d, k, q)'
  <2>1. /\ MachineOK' /\ Undisturbed(m, d, k)
        /\ code' = Left(Saving, p + 1, rest) /\ SavingAt(p + 1, v, m, d, k, q)'
    BY <1>3, <1>5, SavingStep
  <2>2. CASE p < 28
    <3>1. p + 1 \in 1 .. 28
      BY <2>2
    <3> QED
      BY <2>1, <3>1
  <2>3. CASE p = 28
    <3>1. code' = Left(Saving, Len(Saving) + 1, rest)
      BY <1>1, <2>1, <2>3
    <3>2. code' = rest
      BY <1>1, <3>1, LeftNothing
    <3>3. SavingAt(29, v, m, d, k, q)'
      BY <2>1, <2>3
    <3> QED
      BY <2>1, <3>2, <3>3
  <2> QED
    BY <2>2, <2>3
<1>6. \/ \E j \in 1 .. 5 : code = Left(GetContext, j, after) /\ EnteringAt(j, v, m, d, q)
      \/ \E p \in 1 .. 28 : code = Left(Saving, p, rest) /\ SavingAt(p, v, m, d, k, q)
  BY <1>2 DEF Saves, after
<1>7. /\ MachineOK' /\ Undisturbed(m, d, k)
      /\ \/ \E j \in 1 .. 5 : code' = Left(GetContext, j, after) /\ EnteringAt(j, v, m, d, q)'
         \/ \E p \in 1 .. 28 : code' = Left(Saving, p, rest) /\ SavingAt(p, v, m, d, k, q)'
         \/ code' = rest /\ SavingAt(29, v, m, d, k, q)'
  BY <1>4, <1>5, <1>6
<1> QED
  BY <1>2, <1>7 DEF Saves, after

(* Only the second half of the stack pointer's address is left to write. *)
LEMMA HalfWritten ==
  \A some : some = Left(LoadAll, 4, Return) => some # <<>> /\ Head(some)[1] = "out_SP_L"
<1>1. LoadAll \in Program /\ Return \in Program /\ 4 \in 1 .. Len(LoadAll)
  BY LoadingBlock, FunctionPieces
<1>2. Left(LoadAll, 4, Return) # <<>> /\ Head(Left(LoadAll, 4, Return)) = LoadAll[4]
  BY <1>1, LeftStep
<1> QED
  BY <1>2 DEF LoadAll

(***************************************************************************)
(* An instruction of a restore: the next position, or what the context     *)
(* holds goes on.                                                          *)
(***************************************************************************)
LEMMA RestoreStep ==
  ASSUME MachineOK, NEW n \in Party, NEW d \in Nat, d <= 3,
         NEW k \in Context, context[k]["SP"] = StackPointer(n, d),
         waits[n] # Nothing => d >= Base(n),
         Restores(n, d, k), Harmless \/ Executes("out_SP_L"), Instruction, waits' = waits
  PROVE  /\ MachineOK' /\ UNCHANGED context
         /\ \A i \in 1 .. d : memory'[n][i] = memory[n][i]
         /\ \A e \in Party \ {n} : memory'[e] = memory[e]
         /\ \/ Restores(n, d, k)' /\ (Harmless' \/ Executes("out_SP_L")')
            \/ /\ code' = <<>> /\ pc' = context[k]["pc"]
               /\ reg'["SP"] = StackPointer(n, d)
               /\ \A r \in Register \ {"SP"} : reg'[r] = context[k][r]
<1>1. /\ LoadAll \in Program /\ Len(LoadAll) = 22 /\ Return \in Program
      /\ n \in Stack /\ StackSize \in Nat /\ d + 3 <= StackSize
      /\ Stack = Party
  BY LoadingBlock, FunctionPieces, Sizes
<1>2. PICK p \in 1 .. 23 : code = Left(LoadAll, p, Return) /\ RestoringAt(p, n, d, k)
  BY DEF Restores
<1>3. CASE p = 23
  <2>1. code = Return
    <3>1. code = Left(LoadAll, Len(LoadAll) + 1, Return)
      BY <1>1, <1>2, <1>3
    <3> QED
      BY <1>1, <3>1, LeftNothing
  <2>2. code # <<>> /\ Head(code) = <<"ret">> /\ Tail(code) = <<>>
    BY <2>1 DEF Return
  <2>3. /\ reg["SP"] = StackPointer(n, d + 1) /\ memory[n][d + 1] = context[k]["pc"]
        /\ \A r \in Register \ {"SP"} : reg[r] = context[k][r]
    BY <1>2, <1>3 DEF RestoringAt, RestoreDepth, Register
  <2>4. d + 1 \in Nat /\ d + 1 <= StackSize /\ (d + 1) - 1 = d
    BY <1>1
  <2>5. /\ MachineOK' /\ code' = Tail(code) /\ Taken(n, d + 1) /\ pc' = memory[n][d + 1]
        /\ \A y \in Register \ {"SP"} : reg'[y] = reg[y]
    BY <1>1, <2>2, <2>3, <2>4, RetEffect
  <2>6. /\ \A i \in 1 .. d : memory'[n][i] = memory[n][i]
        /\ \A e \in Party \ {n} : memory'[e] = memory[e]
        /\ context' = context /\ reg'["SP"] = StackPointer(n, d)
    <3>1. /\ context' = context /\ reg'["SP"] = StackPointer(n, d)
          /\ \A e \in Stack \ {n} : memory'[e] = memory[e]
      BY <2>4, <2>5 DEF Taken
    <3>2. ASSUME NEW i \in 1 .. d
          PROVE  memory'[n][i] = memory[n][i]
      <4>1. i \in 1 .. StackSize /\ i # d + 1
        BY <1>1, <2>4
      <4> QED
        BY <2>5, <4>1 DEF Taken
    <3> QED
      BY <1>1, <3>1, <3>2
  <2> QED
    BY <2>2, <2>3, <2>5, <2>6
<1>4. CASE p # 23
  <2>n. p \in 1 .. 22
    BY <1>4
  <2>1. /\ MachineOK' /\ Undisturbed(n, d, k) /\ UNCHANGED context
        /\ code' = Left(LoadAll, p + 1, Return) /\ RestoringAt(p + 1, n, d, k)'
    BY <1>1, <1>2, <2>n, RestoringStep
  <2>2. Restores(n, d, k)'
    <3>1. p + 1 \in 1 .. 23
      BY <2>n
    <3> QED
      BY <2>1, <3>1 DEF Restores
  <2>3. Harmless' \/ Executes("out_SP_L")'
    <3>1. CASE p >= 4
      <4>1. PICK e \in Nat : e = d + RestoreDepth(p + 1) /\ e >= d
        BY <2>n DEF RestoreDepth
      <4>2. reg'["SP"] = StackPointer(n, e)
        BY <2>n, <2>1, <3>1, <4>1 DEF RestoringAt
      <4>3. waits'[n] # Nothing => e >= Base(n)
        <5>1. Base(n) \in Nat
          BY DEF Base
        <5>2. waits'[n] # Nothing => d >= Base(n)
          OBVIOUS
        <5> QED
          BY <4>1, <5>1, <5>2
      <4> QED
        BY <4>2, <4>3 DEF Harmless, StackPointer
    <3>2. CASE p = 3
      <4>1. code' = Left(LoadAll, 4, Return)
        BY <2>1, <3>2
      <4>2. Executes("out_SP_L")'
        BY <4>1, HalfWritten DEF Executes
      <4> QED
        BY <4>2
    <3>3. CASE p \in 1 .. 2
      <4>1. code # <<>> /\ Head(code) = LoadAll[p]
        <5>1. p \in 1 .. Len(LoadAll)
          BY <1>1, <2>n
        <5> QED
          BY <1>1, <1>2, <5>1, LeftStep
      <4>2. LoadAll[1] = <<"adiw">> /\ LoadAll[2] = <<"ld", "r0", "Z", "SP">>
        BY DEF LoadAll
      <4>3. ~Executes("out_SP_L")
        BY <3>3, <4>1, <4>2 DEF Executes
      <4>4. reg'["SP"] = reg["SP"]
        <5>1. CASE p = 1
          <6>1. Assigned("SREG", WithFlags(reg["SREG"], Junk))
            BY <4>1, <4>2, <5>1, OffsetEffect
          <6> QED
            BY <6>1 DEF Assigned, Register
        <5>2. CASE p = 2
          <6>1. reg["Z"] = Pointer(k) /\ "r0" \in Register /\ "Z" \in Register /\ "SP" \in Field
            BY <1>2, <5>2 DEF RestoringAt, Register, Field
          <6>2. Assigned("r0", context[k]["SP"])
            BY <4>1, <4>2, <5>2, <6>1, LoadEffect
          <6> QED
            BY <6>2 DEF Assigned, Register
        <5> QED
          BY <3>3, <5>1, <5>2
      <4> QED
        BY <4>3, <4>4 DEF Harmless
    <3> QED
      BY <2>n, <3>1, <3>2, <3>3
  <2> QED
    BY <1>1, <2>1, <2>2, <2>3 DEF Undisturbed
<1> QED
  BY <1>3, <1>4

(* An interrupt uses what is behind the stack pointer (o, e) and no more. *)
Behind(o, e) ==
  /\ UNCHANGED <<reg, pc, context, code, status, waits>>
  /\ \A i \in 1 .. StackSize : i <= e => memory'[o][i] = memory[o][i]
  /\ \A s \in Party \ {o} : memory'[s] = memory[s]

LEMMA InterruptEffect ==
  ASSUME MachineOK, NEW o \in Party, NEW e \in Nat, reg["SP"] = StackPointer(o, e), Interrupt
  PROVE  MachineOK' /\ Behind(o, e)
<1>1. reg["SP"][2] = o /\ reg["SP"][3] = e /\ o \in Stack /\ Stack = Party
  BY Sizes DEF StackPointer
<1>2. /\ UNCHANGED <<reg, pc, context, code, status, waits>>
      /\ memory' = [memory EXCEPT ![o] = [i \in 1 .. StackSize |-> IF i <= e THEN @[i] ELSE Junk]]
  BY <1>1 DEF Interrupt, coroVars, userVars
<1>3. DOMAIN memory = Stack /\ \A s \in Stack : DOMAIN memory[s] = 1 .. StackSize
  BY DEF MachineOK
<1>4. /\ memory'[o] = [i \in 1 .. StackSize |-> IF i <= e THEN memory[o][i] ELSE Junk]
      /\ \A s \in Party \ {o} : memory'[s] = memory[s]
      /\ DOMAIN memory' = Stack
  BY <1>1, <1>2, <1>3
<1>5. \A s \in Stack : DOMAIN memory'[s] = 1 .. StackSize
  BY <1>1, <1>3, <1>4
<1>6. MachineOK'
  BY <1>2, <1>4, <1>5 DEF MachineOK
<1> QED
  BY <1>2, <1>4, <1>6 DEF Behind

(* A save goes on after an interrupt where it was. *)
LEMMA SaveInterrupted ==
  ASSUME MachineOK, NEW m \in Party, NEW v, NEW k, NEW rest, Interrupt,
         \/ Saves(m, v, k, rest)
         \/ code = rest /\ SavingAt(29, v, m, Base(m), k, v["SREG"])
  PROVE  /\ MachineOK' /\ UNCHANGED <<reg, pc, context, code, status, waits>>
         /\ \A i \in 1 .. Base(m) : memory'[m][i] = memory[m][i]
         /\ \A s \in Party \ {m} : memory'[s] = memory[s]
         /\ \/ Saves(m, v, k, rest)'
            \/ code' = rest /\ SavingAt(29, v, m, Base(m), k, v["SREG"])'
<1>1. PICK d \in Nat, q \in {v["SREG"]} : d = Base(m) /\ q = v["SREG"]
  <2>1. Base(m) \in Nat
    BY DEF Base
  <2> QED
    BY <2>1
<1>2. d + 4 <= StackSize /\ StackSize \in Nat
  BY <1>1, FramesOf, Sizes
<1>3. ASSUME NEW j \in 1 .. 5, code = Left(GetContext, j, Saving \o rest), EnteringAt(j, v, m, d, q)
      PROVE  /\ MachineOK' /\ Behind(m, d)
             /\ code' = Left(GetContext, j, Saving \o rest) /\ EnteringAt(j, v, m, d, q)'
  <2>1. PICK e \in Nat : e = d + EntryDepth(j)
    BY DEF EntryDepth
  <2>2. reg["SP"] = StackPointer(m, e) /\ e >= d /\ e <= d + 4 /\ e >= d + 1
        /\ (j > 1 => e >= d + 2) /\ (j > 3 => e >= d + 3) /\ (j > 4 => e >= d + 4)
    BY <1>3, <2>1 DEF EnteringAt, EntryDepth
  <2>3. MachineOK' /\ Behind(m, e)
    BY <2>2, InterruptEffect
  <2>4. EnteringAt(j, v, m, d, q)'
    BY <1>2, <1>3, <2>2, <2>3 DEF Behind, EnteringAt
  <2> QED
    BY <1>3, <2>2, <2>3, <2>4 DEF Behind
<1>4. ASSUME NEW p \in 1 .. 29, SavingAt(p, v, m, d, k, q)
      PROVE  MachineOK' /\ Behind(m, d) /\ SavingAt(p, v, m, d, k, q)'
  <2>1. PICK e \in Nat : e = d + SaveDepth(p)
    BY DEF SaveDepth
  <2>2. /\ reg["SP"] = StackPointer(m, e) /\ e >= d /\ e <= d + 4
        /\ (p <= 14 \/ p >= 19 => e >= d + 1) /\ (p <= 12 => e >= d + 2)
        /\ (p <= 3 => e >= d + 3) /\ (p = 1 => e >= d + 4) /\ (p \in 26 .. 28 => e >= d + 2)
    BY <1>4, <2>1 DEF SavingAt, StackAt, SaveDepth
  <2>3. MachineOK' /\ Behind(m, e)
    BY <2>2, InterruptEffect
  <2>4. StackAt(p, v, m, d)'
    BY <1>2, <1>4, <2>2, <2>3 DEF Behind, SavingAt, StackAt
  <2>5. RegistersAt(p, v, k, q)' /\ StoredAt(p, v, k)'
    BY <1>4, <2>3 DEF Behind, SavingAt, RegistersAt, StoredAt
  <2> QED
    BY <2>2, <2>3, <2>4, <2>5 DEF Behind, SavingAt
<1>5. CASE Saves(m, v, k, rest)
  <2>1. CASE \E j \in 1 .. 5 : /\ code = Left(GetContext, j, Saving \o rest)
                               /\ EnteringAt(j, v, m, d, q)
    <3>1. PICK j \in 1 .. 5 : code = Left(GetContext, j, Saving \o rest) /\ EnteringAt(j, v, m, d, q)
      BY <2>1
    <3>2. /\ MachineOK' /\ Behind(m, d)
          /\ code' = Left(GetContext, j, Saving \o rest) /\ EnteringAt(j, v, m, d, q)'
      BY <1>3, <3>1
    <3>3. Saves(m, v, k, rest)'
      BY <1>1, <3>2 DEF Saves
    <3> QED
      BY <1>1, <1>2, <3>2, <3>3 DEF Behind
  <2>2. CASE \E p \in 1 .. 28 : code = Left(Saving, p, rest) /\ SavingAt(p, v, m, d, k, q)
    <3>1. PICK p \in 1 .. 28 : code = Left(Saving, p, rest) /\ SavingAt(p, v, m, d, k, q)
      BY <2>2
    <3>2. p \in 1 .. 29
      OBVIOUS
    <3>3. MachineOK' /\ Behind(m, d) /\ SavingAt(p, v, m, d, k, q)'
      BY <1>4, <3>1, <3>2
    <3>4. code' = Left(Saving, p, rest)
      BY <3>1, <3>3 DEF Behind
    <3>5. Saves(m, v, k, rest)'
      BY <1>1, <3>3, <3>4 DEF Saves
    <3> QED
      BY <1>1, <1>2, <3>3, <3>5 DEF Behind
  <2> QED
    BY <1>1, <1>5, <2>1, <2>2 DEF Saves
<1>6. CASE code = rest /\ SavingAt(29, v, m, Base(m), k, v["SREG"])
  <2>1. MachineOK' /\ Behind(m, d) /\ SavingAt(29, v, m, d, k, q)'
    BY <1>1, <1>4, <1>6
  <2> QED
    BY <1>1, <1>2, <1>6, <2>1 DEF Behind
<1> QED
  BY <1>5, <1>6

(* So does a restore, unless the interrupt saw half a stack pointer. *)
LEMMA RestoreInterrupted ==
  ASSUME MachineOK, NEW o \in Party, NEW e \in Nat, reg["SP"] = StackPointer(o, e),
         Behind(o, e), ~Executes("out_SP_L"),
         NEW n \in Party, NEW d \in Nat, d <= 3, NEW k, Restores(n, d, k)
  PROVE  Restores(n, d, k)'
<1>1. d + 3 <= StackSize /\ StackSize \in Nat
  BY Sizes
<1>2. PICK p \in 1 .. 23 : code = Left(LoadAll, p, Return) /\ RestoringAt(p, n, d, k)
  BY DEF Restores
<1>3. p # 4
  BY <1>2, HalfWritten DEF Executes
<1>4. UNCHANGED <<reg, context, code>>
  BY DEF Behind
<1>5. CASE p < 4
  <2>1. RestoringAt(p, n, d, k)'
    BY <1>2, <1>4, <1>5 DEF RestoringAt
  <2> QED
    BY <1>2, <1>4, <2>1 DEF Restores
<1>6. CASE p > 4
  <2>1. reg["SP"] = StackPointer(n, d + RestoreDepth(p))
    BY <1>2, <1>6 DEF RestoringAt
  <2>2. o = n /\ e = d + RestoreDepth(p)
    BY <2>1 DEF StackPointer
  <2>3. /\ p > 6 => memory'[n][d + 1] = memory[n][d + 1]
        /\ p \in 10 .. 22 => memory'[n][d + 2] = memory[n][d + 2]
        /\ p \in 19 .. 21 => memory'[n][d + 3] = memory[n][d + 3]
    BY <1>1, <2>2 DEF Behind, RestoreDepth
  <2>4. RestoringAt(p, n, d, k)'
    BY <1>2, <1>4, <1>6, <2>3 DEF RestoringAt
  <2> QED
    BY <1>2, <1>4, <2>4 DEF Restores
<1> QED
  BY <1>3, <1>5, <1>6
-----------------------------------------------------------------------------
(* The chain that the model reads off the contexts.                          *)

(* The party that resumed a, if a is a coroutine. *)
Resumer(x, a) == IF a \in Coro THEN x[<<"ret", a>>]["SP"][2] ELSE a

(* f goes back m times from p. *)
GoesBack(x, p, f, m) ==
  /\ f = [n \in 0 .. m |-> f[n]]
  /\ f[0] = p
  /\ \A n \in 1 .. m : f[n] = Resumer(x, f[n - 1])

(* From each party one can go back as often as one likes. *)
LEMMA Backwards ==
  ASSUME NEW x, NEW p, NEW N \in Nat
  PROVE  \E f : GoesBack(x, p, f, N)
<1> DEFINE T == {m \in Nat : ~ \E f : GoesBack(x, p, f, m)}
<1>1. SUFFICES ASSUME T # {} PROVE FALSE
  OBVIOUS
<1>2. PICK m \in T : \A i \in T : m <= i
  <2> HIDE DEF T
  <2>1. T \in SUBSET Nat
    BY DEF T
  <2> QED
    BY <1>1, <2>1, LeastNumber
<1>3. CASE m = 0
  <2>1. GoesBack(x, p, [n \in 0 .. 0 |-> p], 0)
    BY DEF GoesBack
  <2> QED
    BY <1>3, <2>1
<1>4. CASE m # 0
  <2>1. m \in Nat /\ m - 1 \in Nat /\ ~ (m <= m - 1)
    BY <1>4
  <2>2. m - 1 \notin T
    <3> HIDE DEF T
    <3> QED
      BY <1>2, <2>1
  <2>3. PICK f : GoesBack(x, p, f, m - 1)
    BY <2>1, <2>2
  <2> DEFINE g == [n \in 0 .. m |-> IF n < m THEN f[n] ELSE Resumer(x, f[m - 1])]
  <2>4. /\ g = [n \in 0 .. m |-> g[n]] /\ g[m] = Resumer(x, f[m - 1])
        /\ \A n \in 0 .. m - 1 : g[n] = f[n]
    BY <2>1
  <2> HIDE DEF g
  <2>5. g[0] = p
    <3>1. 0 \in 0 .. m - 1
      BY <2>1
    <3> QED
      BY <2>3, <2>4, <3>1 DEF GoesBack
  <2>6. ASSUME NEW n \in 1 .. m PROVE g[n] = Resumer(x, g[n - 1])
    <3>1. CASE n = m
      <4>1. m - 1 \in 0 .. m - 1
        BY <2>1
      <4> QED
        BY <2>4, <3>1, <4>1
    <3>2. CASE n # m
      <4>1. n \in 0 .. m - 1 /\ n - 1 \in 0 .. m - 1 /\ n \in 1 .. m - 1
        BY <2>1, <3>2
      <4> QED
        BY <2>3, <2>4, <4>1 DEF GoesBack
    <3> QED
      BY <3>1, <3>2
  <2>7. GoesBack(x, p, g, m)
    BY <2>4, <2>5, <2>6 DEF GoesBack
  <2> QED
    BY <2>7
<1> QED
  BY <1>2, <1>3, <1>4

(* So the definition of Ancestor is one. *)
LEMMA AncestorIs ==
  ASSUME NEW p, NEW N \in Nat, N = Cardinality(Coro)
  PROVE  GoesBack(context, p, Ancestor(p), N)
<1> DEFINE Step(f) == [n \in 0 .. N |-> IF n = 0 THEN p
                         ELSE IF f[n - 1] \in Coro THEN context[<<"ret", f[n - 1]>>]["SP"][2]
                         ELSE f[n - 1]]
<1>1. Ancestor(p) = CHOOSE f : f = Step(f)
  BY DEF Ancestor
<1>2. PICK x : x = context
  OBVIOUS
<1>3. PICK f : GoesBack(x, p, f, N)
  BY Backwards
<1>4. f = Step(f)
  <2>1. ASSUME NEW n \in 0 .. N
        PROVE  f[n] = Step(f)[n]
    <3>1. CASE n = 0
      BY <1>3, <3>1 DEF GoesBack
    <3>2. CASE n # 0
      <4>1. n \in 1 .. N
        BY <3>2
      <4> QED
        BY <1>2, <1>3, <4>1 DEF GoesBack, Resumer
    <3> QED
      BY <3>1, <3>2
  <2>2. f = [n \in 0 .. N |-> f[n]]
    BY <1>3 DEF GoesBack
  <2> QED
    BY <2>1, <2>2
<1>5. Ancestor(p) = Step(Ancestor(p))
  <2> HIDE DEF Step
  <2> QED
    BY <1>1, <1>4
<1>6. PICK up : up = Ancestor(p)
  OBVIOUS
<1>7. up = Step(up)
  BY <1>5, <1>6
<1>8. up = [n \in 0 .. N |-> up[n]] /\ up[0] = p
  BY <1>7
<1>9. ASSUME NEW n \in 1 .. N
      PROVE  up[n] = Resumer(context, up[n - 1])
  <2>1. n \in 0 .. N /\ n # 0
    OBVIOUS
  <2>2. Step(up)[n] = Resumer(context, up[n - 1])
    BY <2>1 DEF Resumer
  <2> HIDE DEF Step
  <2> QED
    BY <1>7, <2>2
<1> QED
  BY <1>6, <1>8, <1>9 DEF GoesBack

(* There is room for every path in that many steps. *)
LEMMA PathLength ==
  ASSUME NEW x, NEW st, NEW w, NEW s, NEW first, NEW last, Path(x, st, w, s, first, last)
  PROVE  Cardinality(Coro) \in Nat /\ Len(s) - 1 <= Cardinality(Coro)
<1>1. IsFiniteSet(Coro)
  BY CoroutineAssumption
<1>2. Cardinality(Coro) \in Nat
  BY <1>1, FS_CardinalityType
<1>3. /\ Len(s) \in Nat /\ Len(s) >= 1
      /\ \A i \in 2 .. Len(s) : s[i] \in Coro /\ i \in 1 .. Len(s)
      /\ \A i, j \in 1 .. Len(s) : s[i] = s[j] => i = j
  <2>1. Len(s) \in Nat /\ Len(s) >= 1
    BY OnPath
  <2>2. \A i \in 2 .. Len(s) : s[i] \in Coro
    BY DEF Path, Link
  <2>3. \A i, j \in 1 .. Len(s) : s[i] = s[j] => i = j
    BY DEF Path
  <2> QED
    BY <2>1, <2>2, <2>3
<1>4. IsFiniteSet(2 .. Len(s)) /\ Cardinality(2 .. Len(s)) = Len(s) - 1
  <2>1. /\ IsFiniteSet(2 .. Len(s))
        /\ Cardinality(2 .. Len(s)) = IF 2 > Len(s) THEN 0 ELSE Len(s) - 2 + 1
    BY <1>3, FS_Interval
  <2> QED
    BY <1>3, <2>1
<1>5. ASSUME Cardinality(Coro) < Len(s) - 1
      PROVE  FALSE
  <2> DEFINE f == [i \in 2 .. Len(s) |-> s[i]]
  <2>1. f \in [2 .. Len(s) -> Coro]
    BY <1>3
  <2>2. \E i, j \in 2 .. Len(s) : i # j /\ f[i] = f[j]
    <3> HIDE DEF f
    <3> QED
      BY <1>1, <1>4, <1>5, <2>1, FS_PigeonHole
  <2> QED
    BY <1>3, <2>2
<1> QED
  BY <1>2, <1>3, <1>5

(* What the model reads off the contexts is the path. *)
LEMMA PathFound ==
  ASSUME NEW st, NEW w, NEW s, NEW first, NEW last, Path(context, st, w, s, first, last)
  PROVE  PathTo(first, last) = s
<1>1. PICK N \in Nat : N = Cardinality(Coro) /\ Len(s) - 1 <= N
  BY PathLength
<1>2. PICK up : up = Ancestor(last)
  OBVIOUS
<1>3. GoesBack(context, last, up, N)
  BY <1>1, <1>2, AncestorIs
<1>4. /\ Len(s) \in Nat /\ Len(s) >= 1 /\ s[1] = first /\ s[Len(s)] = last /\ s \in Seq(Party)
      /\ \A i, j \in 1 .. Len(s) : s[i] = s[j] => i = j
      /\ \A i \in 2 .. Len(s) : s[i] \in Coro /\ context[<<"ret", s[i]>>]["SP"][2] = s[i - 1]
  <2>1. PICK x : x = context
    OBVIOUS
  <2>2. Path(x, st, w, s, first, last)
    BY <2>1
  <2>3. Len(s) \in Nat /\ Len(s) >= 1 /\ s[1] = first /\ s[Len(s)] = last /\ s \in Seq(Party)
    BY <2>2, OnPath
  <2>4. \A i, j \in 1 .. Len(s) : s[i] = s[j] => i = j
    BY <2>2 DEF Path
  <2>5. \A i \in 2 .. Len(s) : s[i] \in Coro /\ x[<<"ret", s[i]>>]["SP"] = StackPointer(s[i - 1], Base(s[i - 1]))
    BY <2>2 DEF Path, Link, WaitsIn
  <2>6. \A i \in 2 .. Len(s) : x[<<"ret", s[i]>>]["SP"][2] = s[i - 1]
    BY <2>5 DEF StackPointer
  <2> QED
    BY <2>1, <2>3, <2>4, <2>5, <2>6
<1> DEFINE L == Len(s)
           T == {n \in 0 .. L - 1 : up[n] # s[L - n]}
<1>5. T = {}
  <2>1. SUFFICES ASSUME T # {} PROVE FALSE
    OBVIOUS
  <2>2. PICK n \in T : \A i \in T : n <= i
    <3>1. T \in SUBSET Nat
      BY <1>4
    <3> HIDE DEF T
    <3> QED
      BY <2>1, <3>1, LeastNumber
  <2>3. n \in 0 .. L - 1 /\ up[n] # s[L - n]
    OBVIOUS
  <2>4. n # 0
    BY <1>3, <1>4, <2>3 DEF GoesBack
  <2>5. /\ n \in 1 .. N /\ n - 1 \in 0 .. L - 1 /\ ~ (n <= n - 1)
        /\ L - (n - 1) \in 2 .. L /\ (L - (n - 1)) - 1 = L - n
    BY <1>1, <1>4, <2>3, <2>4
  <2>6. up[n - 1] = s[L - (n - 1)]
    <3>1. n - 1 \notin T
      <4> HIDE DEF T
      <4> QED
        BY <2>2, <2>5
    <3> QED
      BY <2>5, <3>1
  <2>7. up[n] = Resumer(context, s[L - (n - 1)])
    BY <1>3, <2>5, <2>6 DEF GoesBack
  <2>8. up[n] = s[L - n]
    BY <1>4, <2>5, <2>7 DEF Resumer
  <2> QED
    BY <2>3, <2>8
<1>6. \A n \in 0 .. L - 1 : up[n] = s[L - n]
  BY <1>5
<1> HIDE DEF T
<1>7. DOMAIN up = 0 .. N
  BY <1>3 DEF GoesBack
<1> DEFINE hops == {n \in DOMAIN up : up[n] = first}
<1>8. L - 1 \in hops /\ \A n \in hops : n \in Nat /\ L - 1 <= n
  <2>1. L - 1 \in 0 .. N /\ L - 1 \in 0 .. L - 1 /\ L - (L - 1) = 1
    BY <1>1, <1>4
  <2>2. L - 1 \in hops
    BY <1>4, <1>6, <1>7, <2>1
  <2>3. ASSUME NEW n \in 0 .. N, up[n] = first, n < L - 1
        PROVE  FALSE
    <3>1. n \in 0 .. L - 1 /\ L - n \in 1 .. L /\ 1 \in 1 .. L /\ L - n # 1
      BY <1>1, <1>4, <2>3
    <3>2. s[L - n] = s[1]
      BY <1>4, <1>6, <2>3, <3>1
    <3> QED
      BY <1>4, <3>1, <3>2
  <2> QED
    BY <1>4, <1>7, <2>2, <2>3
<1> DEFINE least == CHOOSE n \in hops : \A m \in hops : n <= m
<1>9. least = L - 1
  <2>1. L - 1 \in Nat
    BY <1>4
  <2> HIDE DEF hops, L
  <2>2. least \in hops /\ \A m \in hops : least <= m
    BY <1>8
  <2> HIDE DEF least
  <2> QED
    BY <1>8, <2>1, <2>2
<1>10. PathTo(first, last) = [i \in 1 .. least + 1 |-> up[least + 1 - i]]
  <2>1. hops # {}
    BY <1>8
  <2> QED
    BY <1>2, <2>1 DEF PathTo
<1>11. [i \in 1 .. L |-> up[L - i]] = s
  <2>1. ASSUME NEW i \in 1 .. L PROVE up[L - i] = s[i]
    <3>1. L - i \in 0 .. L - 1 /\ L - (L - i) = i
      BY <1>4
    <3> QED
      BY <1>6, <3>1
  <2>2. s = [i \in 1 .. L |-> s[i]]
    BY <1>4
  <2> QED
    BY <2>1, <2>2
<1>12. PICK k : k = least
  OBVIOUS
<1>13. k = L - 1 /\ k \in Nat
  <2> HIDE DEF least
  <2> QED
    BY <1>4, <1>9, <1>12
<1>14. PathTo(first, last) = [i \in 1 .. k + 1 |-> up[k + 1 - i]]
  BY <1>10, <1>12
<1>15. [i \in 1 .. k + 1 |-> up[k + 1 - i]] = [i \in 1 .. L |-> up[L - i]]
  <2>1. L = k + 1 /\ L \in Nat
    BY <1>4, <1>13
  <2> HIDE DEF L
  <2>2. 1 .. k + 1 = 1 .. L
    BY <2>1
  <2>3. \A i \in 1 .. L : k + 1 - i = L - i
    BY <1>13, <2>1
  <2> QED
    BY <2>2, <2>3
<1> QED
  BY <1>11, <1>14, <1>15
-----------------------------------------------------------------------------
(* The user's calls.                                                         *)

(* setup begins with the main program alone. *)
LEMMA Initially ==
  ASSUME Init, NEW susp, susp = [c \in Coro |-> <<>>]
  PROVE  Standing(context, <<Main>>, susp, Main) /\ UserAt(context, Main)
<1>1. Main \in Party /\ Base(Main) = 1 /\ Main \notin Coro
  BY Sizes DEF Party, Base
<1>2. TypeOK
  <2>1. context = [c \in Context |-> [f \in Field |-> Junk]]
    BY DEF Init
  <2>2. Records(context)
    BY <2>1 DEF Records
  <2> QED
    BY <2>2, Sizes DEF Init, TypeOK, MachineOK, Statuses
<1>3. FramesKept(memory, waits)
  BY DEF Init, FramesKept
<1>4. World(context, status, waits, <<Main>>, susp, Main)
  <2> DEFINE s == <<Main>>
  <2>1. s \in Seq(Party) /\ Len(s) = 1 /\ s[1] = Main
    BY <1>1
  <2> HIDE DEF s
  <2>2. Path(context, status, waits, s, Main, Main)
    BY <2>1 DEF Path
  <2>3. \A c \in Coro : status[c] # "AVR_CORO_SUSPENDED"
    BY DEF Init
  <2>4. World(context, status, waits, s, susp, Main)
    BY <2>2, <2>3 DEF World, CutOff
  <2> QED
    BY <2>4 DEF s
<1>5. UserAt(context, Main)
  BY <1>1 DEF Init, UserAt, FramesUpTo, Register
<1> QED
  BY <1>2, <1>3, <1>4, <1>5 DEF Standing, Stage

LEMMA InitHolds == Init => IInv
<1> SUFFICES ASSUME Init PROVE IInv
  OBVIOUS
<1>1. PICK susp : susp = [c \in Coro |-> <<>>]
  OBVIOUS
<1> QED
  BY <1>1, Initially DEF IInv

(* What no step of the system changes is kept. *)
LEMMA Unchanged ==
  ASSUME NEW x, NEW s, NEW susp, NEW n, Standing(x, s, susp, n),
         UNCHANGED <<machine, status, waits>>
  PROVE  /\ Standing(x, s, susp, n)'
         /\ UserAt(x, n) => UserAt(x, n)'
         /\ Creating(x, n) => Creating(x, n)'
         /\ Switching(x, n) => Switching(x, n)'
<1>1. /\ TypeOK /\ FramesKept(memory, waits)
      /\ World(x, status, waits, s, susp, n) /\ Stage(x, n)
  BY DEF Standing
<1>2. UNCHANGED <<reg, pc, memory, context, code>> /\ status' = status /\ waits' = waits
  BY DEF machine
<1>3. TypeOK' /\ FramesKept(memory', waits') /\ World(x, status', waits', s, susp, n)
  BY <1>1, <1>2 DEF TypeOK, MachineOK
<1>4. \A j, v, m, d, q : EnteringAt(j, v, m, d, q) => EnteringAt(j, v, m, d, q)'
  BY <1>2 DEF EnteringAt
<1>5. \A p, v, m, d, c, q : SavingAt(p, v, m, d, c, q) => SavingAt(p, v, m, d, c, q)'
  BY <1>2 DEF SavingAt, StackAt, RegistersAt, StoredAt
<1>6. \A m, v, k, rest : Saves(m, v, k, rest) => Saves(m, v, k, rest)'
  BY <1>2, <1>5, <1>4 DEF Saves
<1>7. \A d, k : Restores(n, d, k) => Restores(n, d, k)'
  BY <1>2 DEF Restores, RestoringAt
<1>8. Harmless' = Harmless /\ Executes("out_SP_L")' = Executes("out_SP_L")
  BY <1>2 DEF Harmless, Executes
<1>9. UserAt(x, n) => UserAt(x, n)'
  BY <1>2 DEF UserAt
<1>10. Creating(x, n) => Creating(x, n)'
  BY <1>2, <1>6, <1>5 DEF Creating, Initialises
<1>11. ASSUME Switching(x, n) PROVE Switching(x, n)'
  <2>1. ASSUME NEW m \in Party, NEW k \in Context, NEW next \in Context,
               Leaves(x, n, m, CallContext(m, waits[m], Pointer(k), Pointer(next)), k, next)
        PROVE  Switching(x, n)'
    <3>1. PICK v : v = CallContext(m, waits[m], Pointer(k), Pointer(next))
      OBVIOUS
    <3>2. Leaves(x, n, m, v, k, next)'
      BY <1>2, <1>6, <1>5, <2>1, <3>1 DEF Leaves
    <3> QED
      BY <1>2, <3>1, <3>2 DEF Switching
  <2>2. CASE \E k \in Context : Arrives(x, n, k)
    BY <1>2, <1>7, <1>8, <2>2 DEF Switching, Arrives
  <2>3. CASE Arrived(x, n)
    BY <1>2, <2>3 DEF Switching, Arrived
  <2>4. CASE Begins(x, n)
    BY <1>2, <2>4 DEF Switching, Begins
  <2> QED
    BY <1>11, <2>1, <2>2, <2>3, <2>4 DEF Switching
<1>12. Stage(x, n)'
  BY <1>1, <1>9, <1>10, <1>11 DEF Stage
<1> QED
  BY <1>3, <1>9, <1>10, <1>11, <1>12 DEF Standing

(* How a call begins: the frame is on the stack and the registers are new. *)
LEMMA CallEffect ==
  ASSUME MachineOK, NEW n \in Party, pc = <<"pc", "user", n>>,
         reg["SP"] = StackPointer(n, Base(n) - 1), FramesUpTo(memory, n, Base(n) - 1),
         NEW frame, NEW arg1, NEW arg2, NEW function, Call(frame, arg1, arg2, function),
         NEW v, v = CallContext(n, frame, arg1, arg2)
  PROVE  /\ MachineOK' /\ code' = function /\ context' = context
         /\ \A e \in Party \ {n} : memory'[e] = memory[e]
         /\ FramesUpTo(memory', n, Base(n))
         /\ EnteringAt(1, v, n, Base(n), v["SREG"])'
<1>1. PICK d \in Nat : d = Base(n) /\ d >= 1
  <2>1. Base(n) \in Nat /\ Base(n) >= 1
    BY DEF Base
  <2> QED
    BY <2>1
<1>2. n \in Stack /\ d + 4 <= StackSize /\ StackSize \in Nat /\ Stack = Party
  BY <1>1, FramesOf, Sizes
<1>3. me = n /\ reg["SP"][3] = d - 1
  BY <1>1 DEF me, StackPointer
<1>4. /\ memory' = [memory EXCEPT ![n] = [i \in 1 .. StackSize |->
                      IF i <= d - 1 THEN @[i] ELSE IF i = (d - 1) + 1 THEN <<"pc", "user", n>>
                      ELSE IF i = (d - 1) + 2 THEN frame ELSE Junk]]
      /\ reg' = [r \in Register |->
                   IF r = "SP" THEN StackPointer(n, (d - 1) + 2)
                   ELSE IF r = "arg1" THEN arg1 ELSE IF r = "arg2" THEN arg2
                   ELSE IF r = "SREG" THEN <<Flag(n), n, frame>>
                   ELSE <<r, n, frame>>]
      /\ code' = function /\ context' = context
  BY <1>3 DEF Call
<1>5. DOMAIN memory = Stack /\ \A e \in Stack : DOMAIN memory[e] = 1 .. StackSize
  BY DEF MachineOK
<1>6. /\ memory'[n] = [i \in 1 .. StackSize |->
                      IF i <= d - 1 THEN memory[n][i] ELSE IF i = (d - 1) + 1 THEN <<"pc", "user", n>>
                      ELSE IF i = (d - 1) + 2 THEN frame ELSE Junk]
      /\ \A e \in Party \ {n} : memory'[e] = memory[e]
      /\ DOMAIN memory' = Stack
  BY <1>2, <1>4, <1>5
<1>7. /\ \A i \in 1 .. d - 1 : memory'[n][i] = memory[n][i]
      /\ memory'[n][d] = <<"pc", "user", n>> /\ memory'[n][d + 1] = frame
  BY <1>1, <1>2, <1>6
<1>8. MachineOK'
  <2>1. \A e \in Stack : DOMAIN memory'[e] = 1 .. StackSize
    BY <1>2, <1>5, <1>6
  <2> QED
    BY <1>4, <1>6, <2>1 DEF MachineOK
<1>9. FramesUpTo(memory', n, Base(n))
  <2>1. Frames(n)[d] = <<"pc", "user", n>>
    BY <1>1, FramesOf
  <2>2. \A i \in 1 .. d - 1 : memory[n][i] = Frames(n)[i]
    BY <1>1 DEF FramesUpTo
  <2>3. \A i \in 1 .. d : i \in 1 .. d - 1 \/ i = d
    BY <1>1
  <2>4. \A i \in 1 .. d : memory'[n][i] = Frames(n)[i]
    BY <1>7, <2>1, <2>2, <2>3
  <2> QED
    BY <1>1, <2>4 DEF FramesUpTo
<1>10. EnteringAt(1, v, n, d, v["SREG"])'
  <2>1. \A r \in Register \ {"SP"} : reg'[r] = v[r]
    BY <1>4 DEF CallContext, Field, Register
  <2>2. v["pc"] = frame
    BY DEF CallContext, Field, Register
  <2>3. reg'["SP"] = StackPointer(n, d + 1)
    <3>1. (d - 1) + 2 = d + 1
      BY <1>1
    <3> QED
      BY <1>4, <3>1 DEF Register
  <2> QED
    BY <1>7, <2>1, <2>2, <2>3 DEF EnteringAt, EntryDepth, Register
<1> QED
  BY <1>1, <1>4, <1>6, <1>8, <1>9, <1>10

(* A call of a context function that saves begins with its first position. *)
LEMMA CallSaves ==
  ASSUME NEW m, NEW v, NEW k, NEW rest \in Program,
         EnteringAt(1, v, m, Base(m), v["SREG"])', code' = GetContext \o (Saving \o rest)
  PROVE  Saves(m, v, k, rest)'
<1>1. GetContext \in Program
  BY GetContextBlock
<1>2. code' = Left(GetContext, 1, Saving \o rest)
  BY <1>1, LeftAll
<1>3. 1 \in 1 .. 5
  OBVIOUS
<1> QED
  BY <1>2, <1>3 DEF Saves

(* What waits is kept where only the stack of one that does not is touched. *)
LEMMA FramesKeptBut ==
  ASSUME FramesKept(memory, waits), NEW n \in Party,
         NEW w, \A p \in Party \ {n} : w[p] # Nothing => waits[p] # Nothing,
         \A e \in Party \ {n} : memory'[e] = memory[e],
         w[n] # Nothing => FramesUpTo(memory', n, Base(n))
  PROVE  FramesKept(memory', w)
BY DEF FramesKept, FramesUpTo

(* avr_coro_init *)
LEMMA InitBegins ==
  ASSUME NEW x, NEW s, NEW susp, NEW n \in Party, TypeOK, FramesKept(memory, waits),
         World(x, status, waits, s, susp, n), UserAt(x, n),
         NEW c \in Coro, avr_coro_init(c)
  PROVE  \E y : Standing(y, s, [susp EXCEPT ![c] = <<c>>], n)' /\ Creating(y, n)'
<1>1. /\ code = <<>> /\ pc = <<"pc", "user", n>> /\ x = context /\ waits[n] = Nothing
      /\ reg["SP"] = StackPointer(n, Base(n) - 1) /\ FramesUpTo(memory, n, Base(n) - 1)
  BY DEF UserAt
<1>2. /\ status[c] # "AVR_CORO_RUNNING" /\ status' = [status EXCEPT ![c] = "AVR_CORO_SUSPENDED"]
      /\ Call(<<"pc", "init", c>>, Pointer(<<"exec", c>>), Junk, avr_getcontext)
      /\ waits' = [waits EXCEPT ![c] = Nothing]
  BY DEF avr_coro_init
<1>3. /\ MachineOK /\ status \in [Coro -> Statuses] /\ DOMAIN waits = Party /\ DOMAIN context = Context
      /\ c \in Party /\ <<"exec", c>> \in Context
  BY Sizes DEF TypeOK, MachineOK, Party
<1>4. PICK v : v = CallContext(n, <<"pc", "init", c>>, Pointer(<<"exec", c>>), Junk)
  OBVIOUS
<1>5. /\ MachineOK' /\ code' = avr_getcontext /\ context' = context
      /\ \A e \in Party \ {n} : memory'[e] = memory[e]
      /\ FramesUpTo(memory', n, Base(n))
      /\ EnteringAt(1, v, n, Base(n), v["SREG"])'
  BY <1>1, <1>2, <1>3, <1>4, CallEffect
<1>6. PICK f : f = [r \in Field |->
        IF r = "SP" THEN StackPointer(c, 0)
        ELSE IF r = "pc" THEN <<"pc", "avr_makecontext_callfunc">>
        ELSE IF r = "arg1" THEN Pointer(<<"ret", c>>)
        ELSE IF r = "arg2" THEN <<"pc", "avr_coro_trampoline">>
        ELSE IF r = "arg3" THEN Pointer(c) ELSE Junk]
  OBVIOUS
<1>7. PICK y : y = [x EXCEPT ![<<"exec", c>>] = f]
  OBVIOUS
<1>8. y[<<"exec", c>>] = f /\ \A k \in Context \ {<<"exec", c>>} : y[k] = x[k]
  BY <1>1, <1>3, <1>7
<1>9. Fresh(y, c)
  BY <1>6, <1>8 DEF Fresh, Field, Register
<1>10. PICK st : st = status'
  OBVIOUS
<1>11. PICK w : w = waits'
  OBVIOUS
<1>12. /\ st[c] = "AVR_CORO_SUSPENDED" /\ \A q \in Coro \ {c} : st[q] = status[q]
       /\ w[c] = Nothing /\ \A q \in Party \ {c} : w[q] = waits[q]
  BY <1>2, <1>3, <1>10, <1>11
<1>13. World(y, st, w, s, [susp EXCEPT ![c] = <<c>>], n) /\ c # n
  <2>1. PICK st0, w0 : st0 = status /\ w0 = waits
    OBVIOUS
  <2>2. World(x, st0, w0, s, susp, n) /\ st0[c] # "AVR_CORO_RUNNING"
    BY <1>2, <2>1
  <2>3. SameBut(Coro, st, st0, c) /\ SameBut(Party, w, w0, c)
    BY <1>12, <2>1 DEF SameBut
  <2>4. st[c] = "AVR_CORO_SUSPENDED" /\ w[c] = Nothing
    BY <1>12
  <2>5. SameBut(Context, y, x, <<"exec", c>>)
    BY <1>8 DEF SameBut
  <2> QED
    BY <1>9, <2>2, <2>3, <2>4, <2>5, InitWorld
<1>14. TypeOK'
  BY <1>2, <1>3, <1>5 DEF TypeOK, Statuses
<1>15. w[n] = Nothing /\ \A p \in Party : w[p] # Nothing => waits[p] # Nothing
  BY <1>1, <1>12, <1>13
<1>16. FramesKept(memory', w)
  BY <1>5, <1>15, FramesKeptBut
<1>17. Saves(n, v, <<"exec", c>>, Return)'
  BY <1>5, GetContextCode, FunctionPieces, CallSaves
<1>18. Initialises(y, n, c)'
  <2>1. /\ c # n /\ waits'[n] = Nothing /\ FramesUpTo(memory', n, Base(n))
        /\ \A k \in Context \ {<<"exec", c>>} : y[k] = context'[k]
        /\ Fresh(y, c) /\ waits'[c] = Nothing /\ status'[c] = "AVR_CORO_SUSPENDED"
    BY <1>1, <1>5, <1>8, <1>9, <1>10, <1>11, <1>12, <1>13, <1>15
  <2> QED
    BY <1>4, <1>17, <2>1 DEF Initialises
<1>19. World(y, status', waits', s, [susp EXCEPT ![c] = <<c>>], n) /\ FramesKept(memory', waits')
  BY <1>10, <1>11, <1>13, <1>16
<1>20. Creating(y, n)'
  BY <1>18 DEF Creating
<1> QED
  BY <1>14, <1>19, <1>20 DEF Standing, Stage

(* What resume and yield have in common. *)
LEMMA SwapLeaves ==
  ASSUME NEW x, NEW n \in Party, TypeOK, FramesKept(memory, waits), UserAt(x, n),
         NEW call \in {"resume", "yield"}, NEW c \in Coro, NEW d, NEW from, NEW to,
         SwapOut(call, c, d, from, to), <<from, c>> \in Context, <<to, c>> \in Context, from # to,
         NEW v, v = CallContext(n, <<"pc", call, c>>, Pointer(<<from, c>>), Pointer(<<to, c>>)),
         NEW y, y = [x EXCEPT ![<<from, c>>] = v],
         NEW last, Target(y, waits', last, <<to, c>>),
         status' \in [Coro -> Statuses]
  PROVE  /\ TypeOK' /\ FramesKept(memory', waits') /\ Switching(y, last)'
<1>1. /\ code = <<>> /\ pc = <<"pc", "user", n>> /\ x = context /\ waits[n] = Nothing
      /\ reg["SP"] = StackPointer(n, Base(n) - 1) /\ FramesUpTo(memory, n, Base(n) - 1)
  BY DEF UserAt
<1>2. /\ Call(<<"pc", call, c>>, Pointer(<<from, c>>), Pointer(<<to, c>>), avr_swapcontext)
      /\ waits' = [waits EXCEPT ![n] = <<"pc", call, c>>]
  <2>1. me = n
    BY <1>1 DEF me
  <2> QED
    BY <2>1 DEF SwapOut
<1>3. MachineOK /\ DOMAIN waits = Party /\ DOMAIN context = Context
  BY DEF TypeOK, MachineOK
<1>4. /\ MachineOK' /\ code' = avr_swapcontext /\ context' = context
      /\ \A e \in Party \ {n} : memory'[e] = memory[e]
      /\ FramesUpTo(memory', n, Base(n))
      /\ EnteringAt(1, v, n, Base(n), v["SREG"])'
  BY <1>1, <1>2, <1>3, CallEffect
<1>5. DOMAIN waits' = Party /\ waits'[n] = <<"pc", call, c>> /\ waits'[n] # Nothing
      /\ \A p \in Party \ {n} : waits'[p] = waits[p]
  BY <1>2, <1>3 DEF Nothing
<1>6. TypeOK'
  BY <1>4, <1>5 DEF TypeOK
<1>7. PICK w : w = waits'
  OBVIOUS
<1>8. FramesKept(memory', w)
  BY <1>4, <1>5, <1>7, FramesKeptBut
<1>9. Saves(n, v, <<from, c>>, Fetch("arg2") \o Resuming)'
  BY <1>4, SwapContextCode, FunctionPieces, CallSaves
<1>10. PICK k, next : k = <<from, c>> /\ next = <<to, c>>
  OBVIOUS
<1>11. Leaves(y, last, n, v, k, next)'
  <2>1. /\ k \in Context /\ next \in Context /\ k # next
        /\ waits'[n] # Nothing /\ v = CallContext(n, waits'[n], Pointer(k), Pointer(next))
        /\ y = [context' EXCEPT ![k] = v] /\ Target(y, waits', last, next)
        /\ Saves(n, v, k, Fetch("arg2") \o Resuming)'
    BY <1>1, <1>4, <1>5, <1>9, <1>10
  <2> QED
    BY <2>1 DEF Leaves
<1>12. Leaves(y, last, n, CallContext(n, waits[n], Pointer(k), Pointer(next)), k, next)'
  <2>1. v = CallContext(n, waits'[n], Pointer(k), Pointer(next))
    BY <1>5, <1>10
  <2> QED
    BY <1>11, <2>1
<1>13. k \in Context /\ next \in Context
  BY <1>10
<1>14. Switching(y, last)'
  BY <1>12, <1>13 DEF Switching
<1> QED
  BY <1>6, <1>7, <1>8, <1>14

(* What a party saves to a context it can go on with. *)
LEMMA SavedWaits ==
  ASSUME NEW x, NEW w, NEW p, NEW k, NEW call, NEW c, NEW arg1, NEW arg2,
         w[p] = <<"pc", call, c>>, x[k] = CallContext(p, <<"pc", call, c>>, arg1, arg2)
  PROVE  WaitsIn(x, w, p, k)
BY DEF WaitsIn, CallContext, Field, Register, Relied

(* avr_coro_resume *)
LEMMA ResumeBegins ==
  ASSUME NEW x, NEW s, NEW susp, NEW n \in Party, TypeOK, FramesKept(memory, waits),
         World(x, status, waits, s, susp, n), UserAt(x, n),
         NEW c \in Coro, NEW d, avr_coro_resume(c, d), ~Refuse("resume", c)
  PROVE  \E y, t :
           /\ t \in Seq(Party) /\ t = susp[c] /\ Piece(context, status, waits, t, c)
           /\ t[Len(t)] # n
           /\ Standing(y, s \o t, [susp EXCEPT ![c] = <<>>], t[Len(t)])'
           /\ Switching(y, t[Len(t)])'
<1>1. /\ status[c] = "AVR_CORO_SUSPENDED"
      /\ status' = [status EXCEPT ![c] = "AVR_CORO_RUNNING"]
      /\ SwapOut("resume", c, d, "ret", "exec")
  BY DEF avr_coro_resume
<1>2. /\ pc = <<"pc", "user", n>> /\ x = context /\ waits[n] = Nothing
  BY DEF UserAt
<1>3. /\ MachineOK /\ status \in [Coro -> Statuses] /\ DOMAIN waits = Party
      /\ DOMAIN context = Context
      /\ c \in Party /\ <<"exec", c>> \in Context /\ <<"ret", c>> \in Context
  BY Sizes DEF TypeOK, MachineOK, Party
<1>4. waits' = [waits EXCEPT ![n] = <<"pc", "resume", c>>]
  BY <1>1, <1>2 DEF SwapOut, me
<1>5. PICK v : v = CallContext(n, <<"pc", "resume", c>>, Pointer(<<"ret", c>>), Pointer(<<"exec", c>>))
  OBVIOUS
<1>6. PICK y : y = [x EXCEPT ![<<"ret", c>>] = v]
  OBVIOUS
<1>7. PICK st, w, st0, w0 : st = status' /\ w = waits' /\ st0 = status /\ w0 = waits
  OBVIOUS
<1>8. SameBut(Context, y, x, <<"ret", c>>) /\ y[<<"ret", c>>] = v
  BY <1>2, <1>3, <1>6 DEF SameBut
<1>9. SameBut(Party, w, w0, n) /\ w[n] = <<"pc", "resume", c>>
  BY <1>3, <1>4, <1>7 DEF SameBut
<1>10. SameBut(Coro, st, st0, c) /\ st[c] = "AVR_CORO_RUNNING"
  BY <1>1, <1>3, <1>7 DEF SameBut
<1>11. World(x, st0, w0, s, susp, n) /\ w0[n] = Nothing /\ st0[c] = "AVR_CORO_SUSPENDED"
  BY <1>1, <1>2, <1>7
<1>12. WaitsIn(y, w, n, <<"ret", c>>)
  BY <1>5, <1>8, <1>9, SavedWaits
<1>13. PICK t \in Seq(Party) :
         /\ t = susp[c] /\ Piece(x, st0, w0, t, c)
         /\ World(y, st, w, s \o t, [susp EXCEPT ![c] = <<>>], t[Len(t)])
         /\ Target(y, w, t[Len(t)], <<"exec", c>>)
         /\ t[Len(t)] # n
  BY <1>8, <1>9, <1>10, <1>11, <1>12, ResumeWorld
<1>14. PICK u, last, after : u = s \o t /\ last = t[Len(t)] /\ after = [susp EXCEPT ![c] = <<>>]
  OBVIOUS
<1>15. World(y, st, w, u, after, last) /\ Target(y, w, last, <<"exec", c>>)
  BY <1>13, <1>14
<1>16. status' \in [Coro -> Statuses]
  BY <1>1, <1>3 DEF Statuses
<1>17. TypeOK' /\ FramesKept(memory', waits') /\ Switching(y, last)'
  <2>1. "ret" # "exec" /\ "resume" \in {"resume", "yield"}
    OBVIOUS
  <2>2. Target(y, waits', last, <<"exec", c>>)
    BY <1>7, <1>15
  <2> QED
    BY <1>1, <1>3, <1>5, <1>6, <1>16, <2>1, <2>2, SwapLeaves
<1>18. World(y, status', waits', u, after, last)
  BY <1>7, <1>15
<1>19. Standing(y, u, after, last)'
  BY <1>17, <1>18 DEF Standing, Stage
<1>20. Piece(context, status, waits, t, c)
  BY <1>2, <1>7, <1>13
<1> QED
  BY <1>13, <1>14, <1>17, <1>19, <1>20

(* The party that runs is the last of the chain, and the model sees that. *)
LEMMA ChainIs ==
  ASSUME NEW x, NEW s, NEW susp, NEW n, World(x, status, waits, s, susp, n), UserAt(x, n)
  PROVE  Chain = s
<1>1. PICK st, w : st = status /\ w = waits
  OBVIOUS
<1>2. Path(x, st, w, s, Main, n) /\ x = context
  BY <1>1 DEF World, UserAt
<1>3. me = n
  BY DEF UserAt, me
<1>4. Path(context, st, w, s, Main, n)
  BY <1>2
<1>5. PathTo(Main, n) = s
  BY <1>4, PathFound
<1> QED
  BY <1>3, <1>5 DEF Chain

(* c, somewhere in the chain, is cut off with all that comes after it. *)
CutsOff(s, susp, n, c) ==
  \E y : \E i \in 2 .. Len(s) :
    /\ s[i] = c /\ s[i - 1] # n
    /\ Standing(y, SubSeq(s, 1, i - 1), [susp EXCEPT ![c] = SubSeq(s, i, Len(s))], s[i - 1])'
    /\ Switching(y, s[i - 1])'

(* avr_coro_yield *)
LEMMA YieldBegins ==
  ASSUME NEW x, NEW s, NEW susp, NEW n \in Party, TypeOK, FramesKept(memory, waits),
         World(x, status, waits, s, susp, n), UserAt(x, n),
         NEW c \in Coro, NEW d, avr_coro_yield(c, d), ~Refuse("yield", c)
  PROVE  CutsOff(s, susp, n, c)
<1>1. /\ \E i \in DOMAIN Chain : Chain[i] = c
      /\ status' = [status EXCEPT ![c] = "AVR_CORO_SUSPENDED"]
      /\ SwapOut("yield", c, d, "exec", "ret")
  BY DEF avr_coro_yield
<1>2. /\ pc = <<"pc", "user", n>> /\ x = context /\ waits[n] = Nothing
  BY DEF UserAt
<1>3. /\ MachineOK /\ status \in [Coro -> Statuses] /\ DOMAIN waits = Party
      /\ DOMAIN context = Context
      /\ c \in Party /\ <<"exec", c>> \in Context /\ <<"ret", c>> \in Context
  BY Sizes DEF TypeOK, MachineOK, Party
<1>4. waits' = [waits EXCEPT ![n] = <<"pc", "yield", c>>]
  BY <1>1, <1>2 DEF SwapOut, me
<1>5. PICK v : v = CallContext(n, <<"pc", "yield", c>>, Pointer(<<"exec", c>>), Pointer(<<"ret", c>>))
  OBVIOUS
<1>6. PICK y : y = [x EXCEPT ![<<"exec", c>>] = v]
  OBVIOUS
<1>7. PICK st, w, st0, w0 : st = status' /\ w = waits' /\ st0 = status /\ w0 = waits
  OBVIOUS
<1>8. SameBut(Context, y, x, <<"exec", c>>) /\ y[<<"exec", c>>] = v
  BY <1>2, <1>3, <1>6 DEF SameBut
<1>9. SameBut(Party, w, w0, n) /\ w[n] = <<"pc", "yield", c>>
  BY <1>3, <1>4, <1>7 DEF SameBut
<1>10. SameBut(Coro, st, st0, c) /\ st[c] = "AVR_CORO_SUSPENDED"
  BY <1>1, <1>3, <1>7 DEF SameBut
<1>11. World(x, st0, w0, s, susp, n) /\ w0[n] = Nothing
  BY <1>2, <1>7
<1>12. WaitsIn(y, w, n, <<"exec", c>>)
  BY <1>5, <1>8, <1>9, SavedWaits
<1>13. PICK i \in 2 .. Len(s) : c = s[i]
  <2>1. Path(x, st0, w0, s, Main, n)
    BY <1>11 DEF World
  <2>2. Len(s) \in Nat /\ s \in Seq(Party) /\ s[1] = Main
    BY <2>1, OnPath
  <2>3. PICK i \in DOMAIN s : s[i] = c
    BY <1>1, ChainIs
  <2>4. i \in 1 .. Len(s) /\ i # 1
    BY <2>2, <2>3, Sizes, LenProperties
  <2>5. i \in 2 .. Len(s)
    BY <2>2, <2>4
  <2> QED
    BY <2>3, <2>5
<1>14. /\ World(y, st, w, SubSeq(s, 1, i - 1), [susp EXCEPT ![c] = SubSeq(s, i, Len(s))], s[i - 1])
       /\ Target(y, w, s[i - 1], <<"ret", c>>) /\ s[i - 1] # n
  BY <1>8, <1>9, <1>10, <1>11, <1>12, <1>13, YieldWorld
<1>15. PICK u, last, after : /\ u = SubSeq(s, 1, i - 1) /\ last = s[i - 1]
                           /\ after = [susp EXCEPT ![c] = SubSeq(s, i, Len(s))]
  OBVIOUS
<1>16. World(y, st, w, u, after, last) /\ Target(y, w, last, <<"ret", c>>)
  BY <1>14, <1>15
<1>17. status' \in [Coro -> Statuses]
  BY <1>1, <1>3 DEF Statuses
<1>18. TypeOK' /\ FramesKept(memory', waits') /\ Switching(y, last)'
  <2>1. "exec" # "ret" /\ "yield" \in {"resume", "yield"}
    OBVIOUS
  <2>2. Target(y, waits', last, <<"ret", c>>)
    BY <1>7, <1>16
  <2> QED
    BY <1>1, <1>3, <1>5, <1>6, <1>17, <2>1, <2>2, SwapLeaves
<1>19. World(y, status', waits', u, after, last)
  BY <1>7, <1>16
<1>20. Standing(y, u, after, last)'
  BY <1>18, <1>19 DEF Standing, Stage
<1>21. /\ Standing(y, SubSeq(s, 1, i - 1), [susp EXCEPT ![c] = SubSeq(s, i, Len(s))], s[i - 1])'
       /\ Switching(y, s[i - 1])'
  BY <1>15, <1>18, <1>20
<1> QED
  BY <1>13, <1>14, <1>21 DEF CutsOff

(* The function of a coroutine returns. *)
LEMMA FunctionEnds ==
  ASSUME NEW x, NEW s, NEW susp, NEW n \in Party, TypeOK, FramesKept(memory, waits),
         World(x, status, waits, s, susp, n), UserAt(x, n),
         NEW d, FunctionReturns(d)
  PROVE  /\ n \in Coro /\ Len(s) \in Nat /\ Len(s) >= 2 /\ Top[3] = n
         /\ Standing(x, SubSeq(s, 1, Len(s) - 1), susp, s[Len(s) - 1])'
         /\ Switching(x, s[Len(s) - 1])'
<1>1. /\ code = <<>> /\ pc = <<"pc", "user", n>> /\ x = context /\ waits[n] = Nothing
      /\ reg["SP"] = StackPointer(n, Base(n) - 1) /\ FramesUpTo(memory, n, Base(n) - 1)
  BY DEF UserAt
<1>2. me = n /\ n # Main
  BY <1>1 DEF me, FunctionReturns
<1>3. Base(n) = 3 /\ reg["SP"] = StackPointer(n, 2) /\ n \in Stack /\ StackSize >= 7 /\ StackSize \in Nat
  BY <1>1, <1>2, Sizes DEF Base
<1>4. /\ memory[n][1] = <<"pc", "successor", Pointer(<<"ret", n>>)>>
      /\ memory[n][2] = <<"pc", "trampoline", n>>
  <2>1. \A i \in 1 .. 2 : memory[n][i] = Frames(n)[i]
    BY <1>1, <1>3 DEF FramesUpTo
  <2> QED
    BY <1>2, <2>1, FramesOf
<1>5. Top[3] = n /\ memory[me][reg["SP"][3] - 1][3] = Pointer(<<"ret", n>>)
  BY <1>2, <1>3, <1>4 DEF Top, StackPointer
<1>6. /\ status' = [status EXCEPT ![n] = "AVR_CORO_DEAD"]
      /\ memory' = [memory EXCEPT ![n][1] = <<"pc", "callfunc">>, ![n][2] = Junk]
      /\ reg' = [reg EXCEPT !["SP"] = StackPointer(n, 1), !["arg1"] = Pointer(<<"ret", n>>)]
      /\ code' = avr_setcontext /\ context' = context /\ waits' = waits
  BY <1>2, <1>5 DEF FunctionReturns
<1>7. /\ MachineOK /\ status \in [Coro -> Statuses] /\ DOMAIN waits = Party
      /\ Stack = Party
  BY Sizes DEF TypeOK
<1>8. MachineOK' /\ \A e \in Party \ {n} : memory'[e] = memory[e]
  BY <1>3, <1>6, <1>7 DEF MachineOK
<1>9. reg'["SP"] = StackPointer(n, 1) /\ reg'["arg1"] = Pointer(<<"ret", n>>)
  BY <1>6, <1>7 DEF MachineOK, Register
<1>10. TypeOK'
  BY <1>6, <1>7, <1>8 DEF TypeOK, Statuses
<1>11. FramesKept(memory', waits)
  BY <1>1, <1>8, FramesKeptBut
<1>12. PICK st, st0, w : st = status' /\ st0 = status /\ w = waits
  OBVIOUS
<1>13. n \in Coro
  BY <1>2 DEF Party
<1>14. SameBut(Coro, st, st0, n) /\ st[n] = "AVR_CORO_DEAD"
  BY <1>6, <1>7, <1>12, <1>13 DEF SameBut
<1>15. World(x, st0, w, s, susp, n) /\ w[n] = Nothing
  BY <1>1, <1>12
<1>16. /\ Len(s) \in Nat /\ Len(s) >= 2
       /\ World(x, st, w, SubSeq(s, 1, Len(s) - 1), susp, s[Len(s) - 1])
       /\ Target(x, w, s[Len(s) - 1], <<"ret", n>>)
  BY <1>2, <1>14, <1>15, FinishWorld
<1>17. PICK u, last : u = SubSeq(s, 1, Len(s) - 1) /\ last = s[Len(s) - 1]
  OBVIOUS
<1>18. World(x, st, w, u, susp, last) /\ Target(x, w, last, <<"ret", n>>)
  BY <1>16, <1>17
<1>19. PICK k : k = <<"ret", n>> /\ k \in Context
  <2>1. <<"ret", n>> \in Context
    BY <1>13, Sizes
  <2> QED
    BY <2>1
<1>20. Harmless'
  <2>1. reg'["SP"][2] = n /\ reg'["SP"][3] = 1
    BY <1>9 DEF StackPointer
  <2>2. waits'[n] = Nothing /\ 1 \in Nat
    BY <1>1, <1>6
  <2> QED
    BY <1>9, <2>1, <2>2 DEF Harmless
<1>21. Arrives(x, last, k)'
  <2>1. code' = Fetch("arg1") \o Resuming
    BY <1>6, SetContextCode
  <2> QED
    BY <1>1, <1>6, <1>9, <1>12, <1>18, <1>19, <1>20, <2>1 DEF Arrives
<1>22. Switching(x, last)'
  BY <1>19, <1>21 DEF Switching
<1>23. World(x, status', waits', u, susp, last) /\ FramesKept(memory', waits')
  BY <1>6, <1>11, <1>12, <1>18
<1>24. Standing(x, u, susp, last)'
  BY <1>10, <1>22, <1>23 DEF Standing, Stage
<1> QED
  BY <1>5, <1>13, <1>16, <1>17, <1>22, <1>24
-----------------------------------------------------------------------------
(* The steps of a call. *)

(* What may happen in a context function, and what elsewhere. *)
LEMMA NextCases ==
  ASSUME Next
  PROVE  /\ code # <<>> => /\ ContextStep \/ Interrupt
                         /\ UNCHANGED <<coroVars, userVars, waits, visible>>
         /\ code = <<>> => \/ pc[2] = "user" /\ User
                           \/ pc[2] = "init" /\ InitReturns
                           \/ pc[2] \in {"resume", "yield"} /\ SwapIn
                           \/ pc[2] = "avr_makecontext_callfunc" /\ avr_makecontext_callfunc
                           \/ pc[2] = "avr_coro_trampoline" /\ avr_coro_trampoline
<1>1. User => code = <<>> /\ pc[2] = "user"
  BY DEF User, avr_coro_init, avr_coro_resume, avr_coro_yield, FunctionReturns, UserRuns, At
<1>2. InitReturns => code = <<>> /\ pc[2] = "init"
  BY DEF InitReturns, At
<1>3. SwapIn => code = <<>> /\ pc[2] \in {"resume", "yield"}
  BY DEF SwapIn, At
<1>4. avr_makecontext_callfunc => code = <<>> /\ pc[2] = "avr_makecontext_callfunc"
  BY DEF avr_makecontext_callfunc, At
<1>5. avr_coro_trampoline => code = <<>> /\ pc[2] = "avr_coro_trampoline"
  BY DEF avr_coro_trampoline, At
<1>6. ContextStep => code # <<>>
  BY DEF ContextStep, Instruction, Executes, Push, Pop, Move, Offset, Cli, Store, Load,
         WriteHigh, WriteLow, Ret
<1>7. Interrupt => code # <<>>
  BY DEF Interrupt
<1>8. \/ User \/ InitReturns \/ SwapIn \/ avr_makecontext_callfunc \/ avr_coro_trampoline
      \/ ContextStep \/ Interrupt
  BY DEF Next, Library
<1>9. ContextStep \/ Interrupt => UNCHANGED <<coroVars, userVars, waits, visible>>
  BY DEF ContextStep, Interrupt
<1> QED
  BY <1>1, <1>2, <1>3, <1>4, <1>5, <1>6, <1>7, <1>8, <1>9

(* A context is a record of its fields, and stays one. *)
LEMMA RecordsExcept ==
  ASSUME NEW f, Records(f), NEW k, NEW field, NEW value, NEW f2, f2 = [f EXCEPT ![k][field] = value]
  PROVE  Records(f2)
<1>1. /\ DOMAIN f = Context /\ f2 = [e \in Context |-> IF e = k THEN [f[e] EXCEPT ![field] = value] ELSE f[e]]
  BY DEF Records
<1>2. \A e \in Context : f2[e] = [g \in Field |-> f2[e][g]]
  <2>1. SUFFICES ASSUME NEW e \in Context PROVE f2[e] = [g \in Field |-> f2[e][g]]
    OBVIOUS
  <2>2. f[e] = [g \in Field |-> f[e][g]]
    BY DEF Records
  <2>3. CASE e = k
    <3>1. f2[e] = [f[e] EXCEPT ![field] = value]
      BY <1>1, <2>3
    <3>2. f2[e] = [g \in Field |-> IF g = field THEN value ELSE f[e][g]]
      BY <2>2, <3>1
    <3> QED
      BY <3>2
  <2>4. CASE e # k
    BY <1>1, <2>2, <2>4
  <2> QED
    BY <2>3, <2>4
<1> QED
  BY <1>1, <1>2 DEF Records

LEMMA RecordsKept ==
  ASSUME Records(context), Instruction
  PROVE  Records(context')
<1>1. CASE Store
  BY <1>1, RecordsExcept DEF Store
<1>2. CASE UNCHANGED context
  BY <1>2
<1> QED
  BY <1>1, <1>2 DEF Instruction, Push, Pop, Move, Offset, Cli, Load, WriteHigh, WriteLow, Ret

(* An instruction or an interrupt while m saves itself to k. *)
LEMMA SaveGoesOn ==
  ASSUME TypeOK, FramesKept(memory, waits),
         NEW m \in Party, NEW v, v["SP"] = StackPointer(m, Base(m)),
         NEW k \in Context, v["arg1"] = Pointer(k), NEW rest \in Program,
         \/ ContextStep /\ Saves(m, v, k, rest)
         \/ /\ Interrupt
            /\ \/ Saves(m, v, k, rest)
               \/ code = rest /\ SavingAt(29, v, m, Base(m), k, v["SREG"])
  PROVE  /\ TypeOK' /\ FramesKept(memory', waits') /\ status' = status /\ waits' = waits
         /\ FramesUpTo(memory, m, Base(m)) => FramesUpTo(memory', m, Base(m))
         /\ \A e \in Context \ {k} : context'[e] = context[e]
         /\ \/ Saves(m, v, k, rest)'
            \/ code' = rest /\ SavingAt(29, v, m, Base(m), k, v["SREG"])'
<1>1. MachineOK /\ Stack = Party
  BY Sizes DEF TypeOK
<1>2. /\ MachineOK' /\ Records(context') /\ status' = status /\ waits' = waits
      /\ \A i \in 1 .. Base(m) : memory'[m][i] = memory[m][i]
      /\ \A e \in Party \ {m} : memory'[e] = memory[e]
      /\ \A e \in Context \ {k} : context'[e] = context[e]
      /\ \/ Saves(m, v, k, rest)'
         \/ code' = rest /\ SavingAt(29, v, m, Base(m), k, v["SREG"])'
  <2>1. CASE ContextStep /\ Saves(m, v, k, rest)
    <3>1. Instruction /\ status' = status /\ waits' = waits
      BY <2>1 DEF ContextStep, coroVars
    <3>2. /\ MachineOK' /\ Undisturbed(m, Base(m), k)
          /\ \/ Saves(m, v, k, rest)'
             \/ code' = rest /\ SavingAt(29, v, m, Base(m), k, v["SREG"])'
      BY <1>1, <2>1, <3>1, SaveStep
    <3>3. Records(context')
      BY <3>1, RecordsKept DEF TypeOK
    <3> QED
      BY <1>1, <3>1, <3>2, <3>3 DEF Undisturbed
  <2>2. CASE /\ Interrupt
             /\ \/ Saves(m, v, k, rest)
                \/ code = rest /\ SavingAt(29, v, m, Base(m), k, v["SREG"])
    <3>1. /\ MachineOK' /\ UNCHANGED <<reg, pc, context, code, status, waits>>
          /\ \A i \in 1 .. Base(m) : memory'[m][i] = memory[m][i]
          /\ \A s \in Party \ {m} : memory'[s] = memory[s]
          /\ \/ Saves(m, v, k, rest)'
             \/ code' = rest /\ SavingAt(29, v, m, Base(m), k, v["SREG"])'
      BY <1>1, <2>2, SaveInterrupted
    <3> QED
      BY <3>1 DEF TypeOK
  <2> QED
    BY <2>1, <2>2
<1>3. FramesUpTo(memory, m, Base(m)) => FramesUpTo(memory', m, Base(m))
  BY <1>2 DEF FramesUpTo
<1>4. FramesKept(memory', waits)
  BY <1>2, <1>3, FramesKeptBut DEF FramesKept
<1> QED
  BY <1>2, <1>3, <1>4 DEF TypeOK

(* The registers of a call. *)
LEMMA CallContextOf ==
  ASSUME NEW p, NEW frame, NEW arg1, NEW arg2, NEW v, v = CallContext(p, frame, arg1, arg2)
  PROVE  /\ DOMAIN v = Field /\ v = [f \in Field |-> v[f]]
         /\ v["SP"] = StackPointer(p, Base(p)) /\ v["pc"] = frame
         /\ v["arg1"] = arg1 /\ v["arg2"] = arg2
BY DEF CallContext, Field, Register

(* avr_coro_init goes on. *)
LEMMA InitialisesStep ==
  ASSUME NEW x, NEW s, NEW susp, NEW n \in Party, NEW c \in Coro,
         TypeOK, FramesKept(memory, waits), World(x, status, waits, s, susp, n),
         Initialises(x, n, c), Next
  PROVE  \/ code # <<>> /\ Standing(x, s, susp, n)' /\ Creating(x, n)'
         \/ InitReturns /\ \E y : Standing(y, s, susp, n)' /\ UserAt(y, n)'
<1>1. PICK v : v = CallContext(n, <<"pc", "init", c>>, Pointer(<<"exec", c>>), Junk)
  OBVIOUS
<1>2. PICK k : k = <<"exec", c>> /\ k \in Context
  <2>1. <<"exec", c>> \in Context
    BY Sizes
  <2> QED
    BY <2>1
<1>3. /\ c # n /\ waits[n] = Nothing /\ FramesUpTo(memory, n, Base(n))
      /\ \A e \in Context \ {k} : x[e] = context[e]
      /\ Fresh(x, c) /\ waits[c] = Nothing /\ status[c] = "AVR_CORO_SUSPENDED"
  BY <1>2 DEF Initialises
<1>4. /\ v["SP"] = StackPointer(n, Base(n)) /\ v["arg1"] = Pointer(k)
      /\ v["pc"] = <<"pc", "init", c>>
  BY <1>1, <1>2, CallContextOf
<1>5. Return \in Program
  BY FunctionPieces
<1>6. CASE \/ Saves(n, v, k, Return)
           \/ Interrupt /\ code = Return /\ SavingAt(29, v, n, Base(n), k, v["SREG"])
  <2>1. ContextStep \/ Interrupt
    <3>1. code # <<>>
      BY <1>5, <1>6, CodeLeft DEF Return
    <3> QED
      BY <3>1, NextCases
  <2>2. \/ ContextStep /\ Saves(n, v, k, Return)
        \/ /\ Interrupt
           /\ \/ Saves(n, v, k, Return)
              \/ code = Return /\ SavingAt(29, v, n, Base(n), k, v["SREG"])
    BY <1>6, <2>1
  <2>3. /\ TypeOK' /\ FramesKept(memory', waits') /\ status' = status /\ waits' = waits
        /\ FramesUpTo(memory, n, Base(n)) => FramesUpTo(memory', n, Base(n))
        /\ \A e \in Context \ {k} : context'[e] = context[e]
        /\ \/ Saves(n, v, k, Return)'
           \/ code' = Return /\ SavingAt(29, v, n, Base(n), k, v["SREG"])'
    BY <1>2, <1>4, <1>5, <2>2, SaveGoesOn
  <2>4. \A e \in Context \ {k} : x[e] = context'[e]
    BY <1>3, <2>3
  <2>5. Initialises(x, n, c)'
    BY <1>1, <1>2, <1>3, <2>3, <2>4 DEF Initialises
  <2>6. World(x, status', waits', s, susp, n)
    BY <2>3
  <2>7. code # <<>>
    BY <1>5, <1>6, CodeLeft DEF Return
  <2> QED
    BY <2>3, <2>5, <2>6, <2>7 DEF Standing, Stage, Creating
<1>7. CASE code = Return /\ SavingAt(29, v, n, Base(n), k, v["SREG"]) /\ ~Interrupt
  <2>1. ContextStep /\ code # <<>> /\ Head(code) = <<"ret">> /\ Tail(code) = <<>>
    <3>1. code # <<>> /\ Head(code) = <<"ret">> /\ Tail(code) = <<>>
      BY <1>7 DEF Return
    <3> QED
      BY <1>7, <3>1, NextCases
  <2>2. Instruction /\ status' = status /\ waits' = waits
    BY <2>1 DEF ContextStep, coroVars
  <2>3. PICK d \in Nat : d = Base(n) /\ d + 1 <= StackSize /\ d >= 1
    <3>1. Base(n) \in Nat /\ Base(n) >= 1 /\ Base(n) <= 3
      BY DEF Base
    <3> QED
      BY <3>1, Sizes
  <2>4. reg["SP"] = StackPointer(n, d + 1) /\ memory[n][d + 1] = <<"pc", "init", c>>
    BY <1>4, <1>7, <2>3 DEF SavingAt, StackAt, SaveDepth
  <2>5. d + 1 \in Nat /\ (d + 1) - 1 = d /\ n \in Stack /\ Stack = Party /\ StackSize \in Nat /\ MachineOK
    BY <2>3, Sizes DEF TypeOK
  <2>6. /\ MachineOK' /\ code' = Tail(code) /\ Taken(n, d + 1) /\ pc' = memory[n][d + 1]
    BY <2>1, <2>2, <2>3, <2>4, <2>5, RetEffect
  <2>7. /\ reg'["SP"] = StackPointer(n, d) /\ context' = context
        /\ \A e \in Party \ {n} : memory'[e] = memory[e]
        /\ \A i \in 1 .. d : memory'[n][i] = memory[n][i]
    BY <2>3, <2>5, <2>6 DEF Taken
  <2>8. FramesUpTo(memory', n, Base(n))
    BY <1>3, <2>3, <2>7 DEF FramesUpTo
  <2>9. FramesKept(memory', waits)
    BY <2>7, <2>8, FramesKeptBut
  <2>10. TypeOK'
    BY <2>2, <2>6, <2>7 DEF TypeOK
  <2>11. Initialises(x, n, c)'
    BY <1>2, <1>3, <2>1, <2>2, <2>3, <2>4, <2>6, <2>7, <2>8 DEF Initialises
  <2>12. World(x, status', waits', s, susp, n)
    BY <2>2
  <2> QED
    BY <2>1, <2>2, <2>9, <2>10, <2>11, <2>12 DEF Standing, Stage, Creating
<1>8. CASE code = <<>> /\ pc = <<"pc", "init", c>> /\ reg["SP"] = StackPointer(n, Base(n))
  <2>1. InitReturns
    BY <1>8, NextCases
  <2>2. PICK d \in Nat : d = Base(n) /\ d <= StackSize /\ d >= 1
    <3>1. Base(n) \in Nat /\ Base(n) >= 1 /\ Base(n) <= 3
      BY DEF Base
    <3> QED
      BY <3>1, Sizes
  <2>3. Top = <<"pc", "user", n>>
    <3>1. memory[n][d] = Frames(n)[d]
      BY <1>3, <2>2 DEF FramesUpTo
    <3>2. Top = memory[n][d]
      BY <1>8, <2>2 DEF Top, StackPointer
    <3> QED
      BY <2>2, <3>1, <3>2, FramesOf
  <2>4. /\ pc' = <<"pc", "user", n>> /\ reg' = [reg EXCEPT !["SP"] = Shallower]
        /\ memory' = MemoryWithoutTop /\ code' = <<>> /\ status' = status /\ waits' = waits
        /\ context' = [context EXCEPT ![k]["SP"] = StackPointer(c, 0),
                         ![k]["pc"] = <<"pc", "avr_makecontext_callfunc">>,
                         ![k]["arg1"] = Pointer(<<"ret", c>>),
                         ![k]["arg2"] = <<"pc", "avr_coro_trampoline">>, ![k]["arg3"] = Pointer(c)]
    BY <1>2, <1>8, <2>1, <2>3 DEF InitReturns, avr_makecontext, coroVars
  <2>5. MachineOK /\ Stack = Party /\ n \in Stack /\ StackSize \in Nat
    BY Sizes DEF TypeOK
  <2>6. DOMAIN context' = Context /\ \A e \in Context : DOMAIN context'[e] = Field
    BY <1>2, <2>4, <2>5 DEF MachineOK
  <2>7. Fresh(context', c) /\ \A e \in Context \ {k} : context'[e] = context[e]
    <3>1. \A e \in Context \ {k} : context'[e] = context[e]
      BY <1>2, <2>4, <2>5 DEF MachineOK
    <3>2. /\ context'[k]["SP"] = StackPointer(c, 0)
          /\ context'[k]["pc"] = <<"pc", "avr_makecontext_callfunc">>
          /\ context'[k]["arg1"] = Pointer(<<"ret", c>>)
          /\ context'[k]["arg2"] = <<"pc", "avr_coro_trampoline">>
          /\ context'[k]["arg3"] = Pointer(c)
      BY <1>2, <2>4, <2>5 DEF MachineOK, Field, Register
    <3> QED
      BY <1>2, <3>1, <3>2 DEF Fresh
  <2>8. /\ DOMAIN memory' = Stack /\ \A e \in Stack : DOMAIN memory'[e] = 1 .. StackSize
        /\ \A e \in Party \ {n} : memory'[e] = memory[e]
        /\ \A i \in 1 .. d - 1 : memory'[n][i] = memory[n][i]
    <3>1. memory' = [memory EXCEPT ![n][d] = Junk]
      BY <1>8, <2>2, <2>4 DEF MemoryWithoutTop, StackPointer
    <3> QED
      BY <2>2, <2>5, <3>1 DEF MachineOK
  <2>9. DOMAIN reg' = Register /\ reg'["SP"] = StackPointer(n, d - 1)
    <3>1. Shallower = StackPointer(n, d - 1)
      BY <1>8, <2>2 DEF Shallower, StackPointer
    <3> QED
      BY <2>4, <2>5, <3>1 DEF MachineOK, Register
  <2>10. TypeOK'
    <3>1. Records(context')
      BY <2>4, RecordsExcept DEF TypeOK
    <3> QED
      BY <2>4, <2>6, <2>8, <2>9, <3>1 DEF TypeOK, MachineOK
  <2>11. FramesKept(memory', waits)
    BY <1>3, <2>8, FramesKeptBut
  <2>12. FramesUpTo(memory', n, d - 1)
    BY <1>3, <2>2, <2>8 DEF FramesUpTo
  <2>13. PICK y, st, w : y = context' /\ st = status /\ w = waits
    OBVIOUS
  <2>14. World(y, st, w, s, susp, n)
    <3>1. SameBut(Context, y, x, <<"exec", c>>)
      BY <1>2, <1>3, <2>7, <2>13 DEF SameBut
    <3>2. SameBut(Party, w, w, c) /\ SameBut(Coro, st, st, c)
      BY DEF SameBut
    <3>3. World(x, st, w, s, susp, n) /\ st[c] = "AVR_CORO_SUSPENDED" /\ w[c] = Nothing
      BY <1>3, <2>13
    <3>4. Fresh(y, c) /\ st[c] # "AVR_CORO_RUNNING"
      BY <1>3, <2>7, <2>13
    <3>5. World(y, st, w, s, [susp EXCEPT ![c] = <<c>>], n)
      BY <3>1, <3>2, <3>3, <3>4, InitWorld
    <3>6. susp[c] = <<c>>
      BY <1>3, <3>3, FreshPiece
    <3>7. [susp EXCEPT ![c] = <<c>>] = susp
      BY <3>3, <3>6 DEF World
    <3> QED
      BY <3>5, <3>7
  <2>15. UserAt(y, n)'
    BY <1>3, <2>2, <2>4, <2>9, <2>12, <2>13 DEF UserAt
  <2>16. World(y, status', waits', s, susp, n)
    BY <2>4, <2>13, <2>14
  <2> QED
    BY <2>1, <2>4, <2>10, <2>11, <2>15, <2>16 DEF Standing, Stage
<1>9. \/ Saves(n, v, k, Return)
      \/ code = Return /\ SavingAt(29, v, n, Base(n), k, v["SREG"])
      \/ code = <<>> /\ pc = <<"pc", "init", c>> /\ reg["SP"] = StackPointer(n, Base(n))
  <2> DEFINE u == CallContext(n, <<"pc", "init", c>>, Pointer(<<"exec", c>>), Junk)
  <2>1. \/ Saves(n, u, <<"exec", c>>, Return)
        \/ code = Return /\ SavingAt(29, u, n, Base(n), <<"exec", c>>, u["SREG"])
        \/ code = <<>> /\ pc = <<"pc", "init", c>> /\ reg["SP"] = StackPointer(n, Base(n))
    BY DEF Initialises
  <2>2. u = v
    BY <1>1
  <2> HIDE DEF u
  <2> QED
    BY <1>2, <2>1, <2>2
<1> QED
  <2>1. CASE Saves(n, v, k, Return)
    BY <1>6, <2>1
  <2>2. CASE code = Return /\ SavingAt(29, v, n, Base(n), k, v["SREG"])
    <3>1. CASE Interrupt
      BY <1>6, <2>2, <3>1
    <3>2. CASE ~Interrupt
      BY <1>7, <2>2, <3>2
    <3> QED
      BY <3>1, <3>2
  <2> QED
    BY <1>8, <1>9, <2>1, <2>2
(* The first instruction of what restores a context. *)
LEMMA FetchFirst ==
  ASSUME NEW arg \in {"arg1", "arg2"}
  PROVE  /\ Fetch(arg) \o Resuming \in Program /\ Fetch(arg) \o Resuming # <<>>
         /\ Head(Fetch(arg) \o Resuming) = <<"mov", "Z", arg>>
         /\ Tail(Fetch(arg) \o Resuming) = Resuming
<1> DEFINE fetch == Fetch(arg)
<1>1. fetch \in Program /\ Resuming \in Program /\ fetch \o Resuming \in Program
  BY FunctionPieces
<1>2. Len(fetch) = 1 /\ fetch[1] = <<"mov", "Z", arg>>
  BY DEF Fetch
<1>3. fetch = Fetch(arg)
  OBVIOUS
<1> HIDE DEF fetch
<1>4. Left(fetch, 1, Resuming) = fetch \o Resuming
  BY <1>1, LeftAll
<1>5. Left(fetch, Len(fetch) + 1, Resuming) = Resuming
  BY <1>1, LeftNothing
<1>6. 1 \in 1 .. Len(fetch) /\ Len(fetch) + 1 = 1 + 1
  BY <1>2
<1>7. /\ Left(fetch, 1, Resuming) # <<>> /\ Head(Left(fetch, 1, Resuming)) = fetch[1]
      /\ Tail(Left(fetch, 1, Resuming)) = Left(fetch, 1 + 1, Resuming)
  BY <1>1, <1>6, LeftStep
<1>8. /\ fetch \o Resuming # <<>> /\ Head(fetch \o Resuming) = <<"mov", "Z", arg>>
      /\ Tail(fetch \o Resuming) = Resuming
  BY <1>2, <1>4, <1>5, <1>6, <1>7
<1> QED
  BY <1>1, <1>3, <1>8


(* One saves itself, and another is next. *)
LEMMA LeavesStep ==
  ASSUME NEW x, NEW s, NEW susp, NEW n \in Party, NEW m \in Party, NEW k, NEW next, NEW v,
         TypeOK, FramesKept(memory, waits), World(x, status, waits, s, susp, n),
         Leaves(x, n, m, v, k, next), Next
  PROVE  code # <<>> /\ Standing(x, s, susp, n)' /\ Switching(x, n)'
<1> DEFINE rest == Fetch("arg2") \o Resuming
<1>1. /\ k \in Context /\ next \in Context /\ k # next
      /\ waits[m] # Nothing /\ v = CallContext(m, waits[m], Pointer(k), Pointer(next))
      /\ x = [context EXCEPT ![k] = v] /\ Target(x, waits, n, next)
      /\ \/ Saves(m, v, k, rest)
         \/ code = rest /\ SavingAt(29, v, m, Base(m), k, v["SREG"])
  BY DEF Leaves
<1>2. /\ DOMAIN v = Field /\ v = [f \in Field |-> v[f]]
      /\ v["SP"] = StackPointer(m, Base(m)) /\ v["pc"] = waits[m]
      /\ v["arg1"] = Pointer(k) /\ v["arg2"] = Pointer(next)
  BY <1>1, CallContextOf
<1>3. rest \in Program /\ rest # <<>> /\ Head(rest) = <<"mov", "Z", "arg2">> /\ Tail(rest) = Resuming
  BY FetchFirst
<1> HIDE DEF rest
<1>4. code # <<>> /\ (ContextStep \/ Interrupt)
  <2>1. code # <<>>
    BY <1>1, <1>3, CodeLeft
  <2> QED
    BY <2>1, NextCases
<1>5. CASE Saves(m, v, k, rest) \/ Interrupt
  <2>1. \/ ContextStep /\ Saves(m, v, k, rest)
        \/ /\ Interrupt
           /\ \/ Saves(m, v, k, rest)
              \/ code = rest /\ SavingAt(29, v, m, Base(m), k, v["SREG"])
    BY <1>1, <1>4, <1>5
  <2>2. /\ TypeOK' /\ FramesKept(memory', waits') /\ status' = status /\ waits' = waits
        /\ \A e \in Context \ {k} : context'[e] = context[e]
        /\ \/ Saves(m, v, k, rest)'
           \/ code' = rest /\ SavingAt(29, v, m, Base(m), k, v["SREG"])'
    BY <1>1, <1>2, <1>3, <2>1, SaveGoesOn
  <2>3. x = [context' EXCEPT ![k] = v]
    <3>1. DOMAIN context = Context /\ DOMAIN context' = Context
      BY <2>2 DEF TypeOK, MachineOK
    <3>2. [context EXCEPT ![k] = v] = [e \in Context |-> IF e = k THEN v ELSE context[e]]
      BY <3>1
    <3>3. [context' EXCEPT ![k] = v] = [e \in Context |-> IF e = k THEN v ELSE context'[e]]
      BY <3>1
    <3>4. [e \in Context |-> IF e = k THEN v ELSE context[e]]
          = [e \in Context |-> IF e = k THEN v ELSE context'[e]]
      BY <2>2
    <3> QED
      BY <1>1, <3>2, <3>3, <3>4
  <2>4. Leaves(x, n, m, v, k, next)'
    BY <1>1, <2>2, <2>3 DEF Leaves, rest
  <2>5. Leaves(x, n, m, CallContext(m, waits[m], Pointer(k), Pointer(next)), k, next)'
    <3>1. v = CallContext(m, waits'[m], Pointer(k), Pointer(next))
      BY <1>1, <2>2
    <3> QED
      BY <2>4, <3>1
  <2>6. Switching(x, n)'
    BY <1>1, <2>5 DEF Switching
  <2>7. World(x, status', waits', s, susp, n)
    BY <2>2
  <2> QED
    BY <1>4, <2>2, <2>6, <2>7 DEF Standing, Stage
<1>6. CASE /\ code = rest /\ SavingAt(29, v, m, Base(m), k, v["SREG"]) /\ ContextStep
  <2>1. Instruction /\ status' = status /\ waits' = waits
    BY <1>6 DEF ContextStep, coroVars
  <2>2. code # <<>> /\ Head(code) = <<"mov", "Z", "arg2">> /\ Tail(code) = Resuming
    BY <1>3, <1>6
  <2>3. "Z" \in Register /\ "arg2" \in Register /\ MachineOK
    BY DEF Register, TypeOK
  <2>4. /\ reg["arg2"] = Pointer(next)
        /\ reg["SP"] = StackPointer(m, Base(m) + 1)
        /\ \A r \in {"r0", "saved", "arg1", "arg2", "arg3", "X", "Y", "Z", "SREG", "SP", "pc"} :
             context[k][r] = v[r]
    BY <1>2, <1>6 DEF SavingAt, StackAt, SaveDepth, RegistersAt, StoredAt
  <2>5. MachineOK' /\ code' = Resuming /\ Assigned("Z", Pointer(next))
    BY <2>1, <2>2, <2>3, <2>4, MoveEffect
  <2>6. context' = context /\ memory' = memory /\ reg'["Z"] = Pointer(next) /\ reg'["SP"] = reg["SP"]
    BY <2>5 DEF Assigned, Register
  <2>7. x = context
    <3>1. DOMAIN context = Context /\ DOMAIN context[k] = Field
      BY <1>1, <2>3 DEF MachineOK
    <3>2. \A f \in Field : context[k][f] = v[f]
      BY <2>4 DEF Field, Register
    <3>3. context[k] = v
      <4>1. DOMAIN v = Field
        BY <1>2
      <4>2. v = [f \in Field |-> v[f]]
        BY <1>2
      <4>3. [f \in Field |-> context[k][f]] = [f \in Field |-> v[f]]
        BY <3>2
      <4>4. context[k] = [f \in Field |-> context[k][f]]
        BY <1>1 DEF TypeOK, Records
      <4> QED
        BY <4>2, <4>3, <4>4
    <3>4. context = [e \in Context |-> context[e]]
      BY DEF TypeOK, Records
    <3> QED
      BY <1>1, <3>1, <3>3, <3>4
  <2>8. Harmless'
    <3>1. Base(m) \in Nat /\ Base(m) + 1 \in Nat /\ Base(m) + 1 >= Base(m)
      BY DEF Base
    <3>2. reg'["SP"][2] = m /\ reg'["SP"][3] = Base(m) + 1 /\ reg'["SP"] = StackPointer(m, Base(m) + 1)
      BY <2>4, <2>6 DEF StackPointer
    <3> QED
      BY <3>1, <3>2 DEF Harmless
  <2>9. Restores(n, Depth(waits, n), next)'
    <3>1. code' = Left(LoadAll, 1, Return)
      BY <2>5, FunctionPieces, LeftAll DEF Resuming
    <3>2. PICK d : d = Depth(waits', n)
      OBVIOUS
    <3>3. RestoringAt(1, n, d, next)'
      BY <2>6 DEF RestoringAt
    <3>4. 1 \in 1 .. 23
      OBVIOUS
    <3>5. Restores(n, d, next)'
      BY <3>1, <3>3, <3>4 DEF Restores
    <3> QED
      BY <3>2, <3>5
  <2>10. Arrives(x, n, next)'
    BY <1>1, <2>1, <2>6, <2>7, <2>8, <2>9 DEF Arrives
  <2>11. TypeOK' /\ FramesKept(memory', waits') /\ World(x, status', waits', s, susp, n)
    BY <2>1, <2>5, <2>6 DEF TypeOK
  <2> QED
    BY <1>1, <1>4, <2>10, <2>11 DEF Standing, Stage, Switching
<1> QED
  BY <1>1, <1>4, <1>5, <1>6

(* The context that is restored has the stack pointer of the one that goes on. *)
LEMMA TargetDepth ==
  ASSUME NEW x, NEW w, NEW n \in Party, NEW k, Target(x, w, n, k)
  PROVE  /\ x[k]["SP"] = StackPointer(n, Depth(w, n))
         /\ Depth(w, n) \in Nat /\ Depth(w, n) <= 3
         /\ w[n] # Nothing => Depth(w, n) = Base(n)
<1>1. Base(n) \in Nat /\ Base(n) <= 3
  BY DEF Base
<1>2. CASE /\ \E c \in Coro, call \in {"resume", "yield"} : w[n] = <<"pc", call, c>>
           /\ WaitsIn(x, w, n, k)
  <2>1. w[n] # Nothing
    BY <1>2 DEF Nothing
  <2> QED
    BY <1>1, <1>2, <2>1 DEF WaitsIn, Depth
<1>3. CASE n \in Coro /\ k = <<"exec", n>> /\ Fresh(x, n) /\ w[n] = Nothing
  BY <1>3 DEF Fresh, Depth
<1> QED
  BY <1>2, <1>3 DEF Target

(* An interrupt where nothing is kept behind the stack pointer. *)
LEMMA HarmlessInterrupted ==
  ASSUME TypeOK, FramesKept(memory, waits), Harmless, Interrupt
  PROVE  /\ TypeOK' /\ FramesKept(memory', waits') /\ Harmless'
         /\ UNCHANGED <<reg, pc, context, code, status, waits>>
         /\ \E o \in Party, e \in Nat : reg["SP"] = StackPointer(o, e) /\ Behind(o, e)
<1>1. PICK o \in Party, e \in Nat : /\ reg["SP"] = StackPointer(o, e)
                                    /\ waits[o] # Nothing => e >= Base(o)
  BY DEF Harmless
<1>2. MachineOK' /\ Behind(o, e)
  BY <1>1, InterruptEffect DEF TypeOK
<1>3. UNCHANGED <<reg, pc, context, code, status, waits>>
  BY <1>2 DEF Behind
<1>4. TypeOK'
  BY <1>2, <1>3 DEF TypeOK
<1>5. Harmless'
  BY <1>3 DEF Harmless
<1>6. FramesKept(memory', waits)
  <2>1. waits[o] # Nothing => FramesUpTo(memory', o, Base(o))
    <3>1. SUFFICES ASSUME waits[o] # Nothing, NEW i \in 1 .. Base(o)
                   PROVE  memory'[o][i] = Frames(o)[i]
      BY DEF FramesUpTo
    <3>2. i \in 1 .. StackSize /\ i <= e
      <4>1. Base(o) \in Nat /\ Base(o) <= 3
        BY DEF Base
      <4> QED
        BY <1>1, <3>1, <4>1, Sizes
    <3>3. memory[o][i] = Frames(o)[i]
      BY <3>1 DEF FramesKept, FramesUpTo
    <3> QED
      BY <1>2, <3>2, <3>3 DEF Behind
  <2>2. \A s \in Party \ {o} : memory'[s] = memory[s]
    BY <1>2 DEF Behind
  <2> QED
    BY <2>1, <2>2, FramesKeptBut
<1> QED
  BY <1>1, <1>2, <1>3, <1>4, <1>5, <1>6

(* One goes on with its context, unless an interrupt sees half a stack pointer. *)
LEMMA ArrivesStep ==
  ASSUME NEW x, NEW s, NEW susp, NEW n \in Party, NEW k, ~InterruptsSplitSP,
         TypeOK, FramesKept(memory, waits), World(x, status, waits, s, susp, n),
         Arrives(x, n, k), Next
  PROVE  code # <<>> /\ Standing(x, s, susp, n)' /\ Switching(x, n)'
<1>1. k \in Context /\ x = context /\ Target(x, waits, n, k)
  BY DEF Arrives
<1>2. PICK d : d = Depth(waits, n)
  OBVIOUS
<1>3. /\ context[k]["SP"] = StackPointer(n, d) /\ d \in Nat /\ d <= 3
      /\ waits[n] # Nothing => d = Base(n)
  BY <1>1, <1>2, TargetDepth
<1>4. MachineOK
  BY DEF TypeOK
<1>5. CASE code = Fetch("arg1") \o Resuming /\ reg["arg1"] = Pointer(k) /\ Harmless
  <2>1. code # <<>> /\ Head(code) = <<"mov", "Z", "arg1">> /\ Tail(code) = Resuming
    BY <1>5, FetchFirst
  <2>2. CASE ContextStep
    <3>1. Instruction /\ status' = status /\ waits' = waits
      BY <2>2 DEF ContextStep, coroVars
    <3>2. "Z" \in Register /\ "arg1" \in Register
      BY DEF Register
    <3>3. MachineOK' /\ code' = Resuming /\ Assigned("Z", Pointer(k))
      BY <1>4, <1>5, <2>1, <3>1, <3>2, MoveEffect
    <3>4. context' = context /\ memory' = memory /\ reg'["Z"] = Pointer(k) /\ reg'["SP"] = reg["SP"]
      BY <3>3 DEF Assigned, Register
    <3>5. Harmless'
      BY <1>5, <3>1, <3>4 DEF Harmless
    <3>6. Restores(n, Depth(waits, n), k)'
      <4>1. code' = Left(LoadAll, 1, Return)
        BY <3>3, FunctionPieces, LeftAll DEF Resuming
      <4>2. RestoringAt(1, n, d, k)'
        BY <3>4 DEF RestoringAt
      <4>3. 1 \in 1 .. 23
        OBVIOUS
      <4>4. Restores(n, d, k)'
        BY <4>1, <4>2, <4>3 DEF Restores
      <4>5. d = Depth(waits', n)
        BY <1>2, <3>1
      <4> QED
        BY <4>4, <4>5
    <3>7. Arrives(x, n, k)'
      BY <1>1, <3>1, <3>4, <3>5, <3>6 DEF Arrives
    <3>8. TypeOK' /\ FramesKept(memory', waits') /\ World(x, status', waits', s, susp, n)
      BY <3>1, <3>3, <3>4 DEF TypeOK
    <3> QED
      BY <2>1, <1>1, <3>7, <3>8 DEF Standing, Stage, Switching
  <2>3. CASE Interrupt
    <3>1. /\ TypeOK' /\ FramesKept(memory', waits') /\ Harmless'
          /\ UNCHANGED <<reg, pc, context, code, status, waits>>
      BY <1>5, <2>3, HarmlessInterrupted
    <3>2. Arrives(x, n, k)'
      BY <1>1, <1>5, <3>1 DEF Arrives
    <3>3. World(x, status', waits', s, susp, n)
      BY <3>1
    <3> QED
      BY <2>1, <1>1, <3>1, <3>2, <3>3 DEF Standing, Stage, Switching
  <2> QED
    BY <2>1, <2>2, <2>3, NextCases
<1>6. CASE Restores(n, d, k) /\ (Harmless \/ Executes("out_SP_L"))
  <2>1. code # <<>>
    BY <1>6, CodeLeft
  <2>2. CASE ContextStep
    <3>1. Instruction /\ status' = status /\ waits' = waits
      BY <2>2 DEF ContextStep, coroVars
    <3>2. waits[n] # Nothing => d >= Base(n)
      <4>1. Base(n) \in Nat
        BY DEF Base
      <4> QED
        BY <1>3, <4>1
    <3>3. /\ MachineOK' /\ context' = context
          /\ \A i \in 1 .. d : memory'[n][i] = memory[n][i]
          /\ \A e \in Party \ {n} : memory'[e] = memory[e]
          /\ \/ Restores(n, d, k)' /\ (Harmless' \/ Executes("out_SP_L")')
             \/ /\ code' = <<>> /\ pc' = context[k]["pc"]
                /\ reg'["SP"] = StackPointer(n, d)
                /\ \A r \in Register \ {"SP"} : reg'[r] = context[k][r]
      BY <1>1, <1>3, <1>4, <1>6, <3>1, <3>2, RestoreStep
    <3>4. FramesKept(memory', waits)
      <4>1. waits[n] # Nothing => FramesUpTo(memory', n, Base(n))
        BY <1>3, <3>3 DEF FramesKept, FramesUpTo
      <4> QED
        BY <3>3, <4>1, FramesKeptBut
    <3>5. TypeOK' /\ FramesKept(memory', waits') /\ World(x, status', waits', s, susp, n)
      BY <3>1, <3>3, <3>4 DEF TypeOK
    <3>6. CASE Restores(n, d, k)' /\ (Harmless' \/ Executes("out_SP_L")')
      <4>1. Restores(n, Depth(waits, n), k)'
        <5>1. d = Depth(waits', n)
          BY <1>2, <3>1
        <5> QED
          BY <3>6, <5>1
      <4>2. Arrives(x, n, k)'
        BY <1>1, <3>1, <3>3, <3>6, <4>1 DEF Arrives
      <4> QED
        BY <2>1, <1>1, <3>5, <4>2 DEF Standing, Stage, Switching
    <3>7. CASE /\ code' = <<>> /\ pc' = context[k]["pc"]
               /\ reg'["SP"] = StackPointer(n, d)
               /\ \A r \in Register \ {"SP"} : reg'[r] = context[k][r]
      <4>1. CASE /\ \E c \in Coro, call \in {"resume", "yield"} : waits[n] = <<"pc", call, c>>
                 /\ WaitsIn(context, waits, n, k)
        <5>1. waits[n] # Nothing /\ d = Base(n)
          BY <1>3, <4>1 DEF Nothing
        <5>2. /\ context[k]["pc"] = waits[n]
              /\ context[k]["SREG"] = <<Flag(n), n, waits[n]>>
              /\ \A r \in Relied : context[k][r] = <<r, n, waits[n]>>
          BY <4>1 DEF WaitsIn
        <5>3. /\ code' = <<>> /\ pc' = waits[n] /\ reg'["SP"] = StackPointer(n, Base(n))
              /\ reg'["SREG"] = <<Flag(n), n, waits[n]>>
              /\ \A r \in Relied : reg'[r] = <<r, n, waits[n]>>
          BY <3>7, <5>1, <5>2 DEF Relied, Register
        <5>4. Arrived(x, n)'
          BY <1>1, <3>1, <3>3, <4>1, <5>3 DEF Arrived
        <5> QED
          BY <2>1, <3>5, <5>4 DEF Standing, Stage, Switching
      <4>2. CASE n \in Coro /\ k = <<"exec", n>> /\ Fresh(context, n) /\ waits[n] = Nothing
        <5>1. d = 0
          BY <1>2, <4>2 DEF Depth
        <5>2. /\ pc' = <<"pc", "avr_makecontext_callfunc">>
              /\ reg'["arg1"] = Pointer(<<"ret", n>>)
              /\ reg'["arg2"] = <<"pc", "avr_coro_trampoline">>
              /\ reg'["arg3"] = Pointer(n)
          BY <3>7, <4>2 DEF Fresh, Register
        <5>3. Begins(x, n)'
          BY <1>1, <3>1, <3>3, <3>7, <4>2, <5>1, <5>2 DEF Begins
        <5> QED
          BY <2>1, <3>5, <5>3 DEF Standing, Stage, Switching
      <4> QED
        BY <1>1, <4>1, <4>2 DEF Target
    <3> QED
      BY <3>3, <3>6, <3>7
  <2>3. CASE Interrupt
    <3>1. ~Executes("out_SP_L") /\ Harmless
      BY <1>6, <2>3 DEF Interrupt
    <3>2. /\ TypeOK' /\ FramesKept(memory', waits') /\ Harmless'
          /\ UNCHANGED <<reg, pc, context, code, status, waits>>
          /\ \E o \in Party, e \in Nat : reg["SP"] = StackPointer(o, e) /\ Behind(o, e)
      BY <2>3, <3>1, HarmlessInterrupted
    <3>3. Restores(n, d, k)'
      BY <1>3, <1>4, <1>6, <3>1, <3>2, RestoreInterrupted
    <3>4. Restores(n, Depth(waits, n), k)'
      <4>1. d = Depth(waits', n)
        BY <1>2, <3>2
      <4> QED
        BY <3>3, <4>1
    <3>5. Arrives(x, n, k)'
      BY <1>1, <3>2, <3>4 DEF Arrives
    <3>6. World(x, status', waits', s, susp, n)
      BY <3>2
    <3> QED
      BY <2>1, <1>1, <3>2, <3>5, <3>6 DEF Standing, Stage, Switching
  <2> QED
    BY <2>1, <2>2, <2>3, NextCases
<1> QED
  BY <1>2, <1>5, <1>6 DEF Arrives

(* The rest of resume or yield: the party runs again. *)
LEMMA ArrivedStep ==
  ASSUME NEW x, NEW s, NEW susp, NEW n \in Party,
         TypeOK, FramesKept(memory, waits), World(x, status, waits, s, susp, n),
         Arrived(x, n), Next
  PROVE  code = <<>> /\ SwapIn /\ Top[3] = n /\ Standing(x, s, susp, n)' /\ UserAt(x, n)'
<1>1. PICK c \in Coro, call \in {"resume", "yield"} : waits[n] = <<"pc", call, c>>
  BY DEF Arrived
<1>2. x = context /\ code = <<>> /\ pc = waits[n] /\ reg["SP"] = StackPointer(n, Base(n))
  BY DEF Arrived
<1>3. SwapIn
  <2>1. pc[2] = call
    BY <1>1, <1>2
  <2> QED
    BY <1>1, <1>2, <2>1, NextCases
<1>4. PICK d \in Nat : d = Base(n) /\ d <= StackSize /\ d >= 1
  <2>1. Base(n) \in Nat /\ Base(n) >= 1 /\ Base(n) <= 3
    BY DEF Base
  <2> QED
    BY <2>1, Sizes
<1>5. FramesUpTo(memory, n, Base(n))
  BY <1>1 DEF FramesKept, Nothing
<1>6. Top = <<"pc", "user", n>>
  <2>1. memory[n][d] = Frames(n)[d]
    BY <1>4, <1>5 DEF FramesUpTo
  <2>2. Top = memory[n][d]
    BY <1>2, <1>4 DEF Top, StackPointer
  <2> QED
    BY <1>4, <2>1, <2>2, FramesOf
<1>7. /\ waits' = [waits EXCEPT ![n] = Nothing]
      /\ pc' = <<"pc", "user", n>> /\ reg' = [reg EXCEPT !["SP"] = Shallower]
      /\ memory' = MemoryWithoutTop /\ code' = <<>> /\ context' = context /\ status' = status
  BY <1>2, <1>3, <1>6 DEF SwapIn, coroVars
<1>8. MachineOK /\ Stack = Party /\ n \in Stack /\ StackSize \in Nat /\ DOMAIN waits = Party
  BY Sizes DEF TypeOK
<1>9. waits'[n] = Nothing /\ \A p \in Party \ {n} : waits'[p] = waits[p]
  BY <1>7, <1>8
<1>10. /\ DOMAIN memory' = Stack /\ \A e \in Stack : DOMAIN memory'[e] = 1 .. StackSize
       /\ \A e \in Party \ {n} : memory'[e] = memory[e]
       /\ \A i \in 1 .. d - 1 : memory'[n][i] = memory[n][i]
  <2>1. memory' = [memory EXCEPT ![n][d] = Junk]
    BY <1>2, <1>4, <1>7 DEF MemoryWithoutTop, StackPointer
  <2> QED
    BY <1>4, <1>8, <2>1 DEF MachineOK
<1>11. DOMAIN reg' = Register /\ reg'["SP"] = StackPointer(n, d - 1)
  <2>1. Shallower = StackPointer(n, d - 1)
    BY <1>2, <1>4 DEF Shallower, StackPointer
  <2> QED
    BY <1>7, <1>8, <2>1 DEF MachineOK, Register
<1>12. TypeOK'
  BY <1>7, <1>8, <1>10, <1>11 DEF TypeOK, MachineOK
<1>13. PICK w, st : w = waits' /\ st = status
  OBVIOUS
<1>14. FramesKept(memory', w)
  BY <1>9, <1>10, <1>13, FramesKeptBut
<1>15. World(x, st, w, s, susp, n)
  <2>1. PICK w0 : w0 = waits
    OBVIOUS
  <2>2. World(x, st, w0, s, susp, n) /\ SameBut(Party, w, w0, n)
    BY <1>9, <1>13, <2>1 DEF SameBut
  <2> QED
    BY <2>2, ArriveWorld
<1>16. FramesUpTo(memory', n, d - 1)
  BY <1>4, <1>5, <1>10 DEF FramesUpTo
<1>17. UserAt(x, n)'
  BY <1>2, <1>4, <1>7, <1>9, <1>11, <1>16 DEF UserAt
<1>18. FramesKept(memory', waits') /\ World(x, status', waits', s, susp, n)
  BY <1>7, <1>13, <1>14, <1>15
<1> QED
  BY <1>2, <1>3, <1>6, <1>12, <1>17, <1>18 DEF Standing, Stage

(* The first steps of a coroutine. *)
LEMMA BeginsStep ==
  ASSUME NEW x, NEW s, NEW susp, NEW n \in Party,
         TypeOK, FramesKept(memory, waits), World(x, status, waits, s, susp, n),
         Begins(x, n), Next
  PROVE  \/ avr_makecontext_callfunc /\ Standing(x, s, susp, n)' /\ Switching(x, n)'
         \/ /\ avr_coro_trampoline /\ reg["arg1"][2] = n
            /\ Standing(x, s, susp, n)' /\ UserAt(x, n)'
<1>1. x = context /\ n \in Coro /\ waits[n] = Nothing /\ code = <<>>
  BY DEF Begins
<1>2. /\ Stack = Party /\ n \in Stack /\ StackSize \in Nat /\ StackSize >= 7 /\ MachineOK
      /\ n # Main /\ Base(n) = 3
  BY <1>1, Sizes DEF TypeOK, Base
<1>3. CASE /\ pc = <<"pc", "avr_makecontext_callfunc">>
           /\ reg["SP"] = StackPointer(n, 0)
           /\ reg["arg1"] = Pointer(<<"ret", n>>)
           /\ reg["arg2"] = <<"pc", "avr_coro_trampoline">>
           /\ reg["arg3"] = Pointer(n)
  <2>1. avr_makecontext_callfunc
    BY <1>1, <1>3, NextCases
  <2>2. /\ memory' = MemoryWith(<<"pc", "successor", Pointer(<<"ret", n>>)>>)
        /\ reg' = [reg EXCEPT !["SP"] = Deeper, !["arg1"] = Pointer(n)]
        /\ pc' = <<"pc", "avr_coro_trampoline">>
        /\ code' = <<>> /\ context' = context /\ status' = status /\ waits' = waits
    BY <1>1, <1>3, <2>1 DEF avr_makecontext_callfunc, coroVars
  <2>3. /\ DOMAIN memory' = Stack /\ \A e \in Stack : DOMAIN memory'[e] = 1 .. StackSize
        /\ \A e \in Party \ {n} : memory'[e] = memory[e]
        /\ memory'[n][1] = <<"pc", "successor", Pointer(<<"ret", n>>)>>
    <3>1. memory' = [memory EXCEPT ![n][1] = <<"pc", "successor", Pointer(<<"ret", n>>)>>]
      BY <1>3, <2>2 DEF MemoryWith, StackPointer
    <3> QED
      BY <1>2, <3>1 DEF MachineOK
  <2>4. DOMAIN reg' = Register /\ reg'["SP"] = StackPointer(n, 1) /\ reg'["arg1"] = Pointer(n)
    <3>1. Deeper = StackPointer(n, 1)
      BY <1>3 DEF Deeper, StackPointer
    <3> QED
      BY <1>2, <2>2, <3>1 DEF MachineOK, Register
  <2>5. TypeOK'
    BY <1>2, <2>2, <2>3, <2>4 DEF TypeOK, MachineOK
  <2>6. FramesKept(memory', waits)
    BY <1>1, <2>3, FramesKeptBut
  <2>7. FramesUpTo(memory', n, 1)
    BY <1>2, <2>3, FramesOf DEF FramesUpTo
  <2>8. Begins(x, n)'
    BY <1>1, <2>2, <2>4, <2>7 DEF Begins
  <2>9. FramesKept(memory', waits') /\ World(x, status', waits', s, susp, n)
    BY <2>2, <2>6
  <2> QED
    BY <2>1, <2>5, <2>8, <2>9 DEF Standing, Stage, Switching
<1>4. CASE /\ pc = <<"pc", "avr_coro_trampoline">>
           /\ reg["SP"] = StackPointer(n, 1)
           /\ FramesUpTo(memory, n, 1)
           /\ reg["arg1"] = Pointer(n)
  <2>1. avr_coro_trampoline
    BY <1>1, <1>4, NextCases
  <2>2. /\ memory' = MemoryWith(<<"pc", "trampoline", n>>)
        /\ reg' = [reg EXCEPT !["SP"] = Deeper]
        /\ pc' = <<"pc", "user", n>>
        /\ code' = <<>> /\ context' = context /\ status' = status /\ waits' = waits
    <3>1. reg["arg1"][2] = n
      BY <1>4 DEF Pointer
    <3> QED
      BY <1>1, <2>1, <3>1 DEF avr_coro_trampoline, coroVars
  <2>3. /\ DOMAIN memory' = Stack /\ \A e \in Stack : DOMAIN memory'[e] = 1 .. StackSize
        /\ \A e \in Party \ {n} : memory'[e] = memory[e]
        /\ memory'[n][1] = memory[n][1] /\ memory'[n][2] = <<"pc", "trampoline", n>>
    <3>1. memory' = [memory EXCEPT ![n][2] = <<"pc", "trampoline", n>>]
      BY <1>4, <2>2 DEF MemoryWith, StackPointer
    <3> QED
      BY <1>2, <3>1 DEF MachineOK
  <2>4. DOMAIN reg' = Register /\ reg'["SP"] = StackPointer(n, 2)
    <3>1. Deeper = StackPointer(n, 2)
      BY <1>4 DEF Deeper, StackPointer
    <3> QED
      BY <1>2, <2>2, <3>1 DEF MachineOK, Register
  <2>5. TypeOK'
    BY <1>2, <2>2, <2>3, <2>4 DEF TypeOK, MachineOK
  <2>6. FramesKept(memory', waits)
    BY <1>1, <2>3, FramesKeptBut
  <2>7. FramesUpTo(memory', n, 2)
    <3>1. \A i \in 1 .. 2 : memory'[n][i] = Frames(n)[i]
      <4>1. memory[n][1] = Frames(n)[1]
        BY <1>4 DEF FramesUpTo
      <4>2. memory'[n][2] = Frames(n)[2]
        BY <1>2, <2>3, FramesOf
      <4>3. \A i \in 1 .. 2 : i = 1 \/ i = 2
        OBVIOUS
      <4> QED
        BY <2>3, <4>1, <4>2, <4>3
    <3> QED
      BY <3>1 DEF FramesUpTo
  <2>8. UserAt(x, n)'
    BY <1>1, <1>2, <2>2, <2>4, <2>7 DEF UserAt
  <2>9. FramesKept(memory', waits') /\ World(x, status', waits', s, susp, n)
    BY <2>2, <2>6
  <2>10. reg["arg1"][2] = n
    BY <1>4 DEF Pointer
  <2> QED
    BY <2>1, <2>5, <2>8, <2>9, <2>10 DEF Standing, Stage
<1> QED
  BY <1>3, <1>4 DEF Begins

(* A call of the user's code. *)
LEMMA UserStep ==
  ASSUME NEW x, NEW s, NEW susp, NEW n \in Party, Standing(x, s, susp, n), UserAt(x, n), Next
  PROVE  IInv'
<1>1. User /\ TypeOK /\ FramesKept(memory, waits) /\ World(x, status, waits, s, susp, n)
  BY NextCases DEF UserAt, Standing
<1>2. ASSUME NEW c \in Coro, avr_coro_init(c) PROVE IInv'
  <2>1. PICK y, after : Standing(y, s, after, n)'
    BY <1>1, <1>2, InitBegins
  <2> QED
    BY <2>1 DEF IInv
<1>3. ASSUME NEW c \in Coro, NEW call, Refuse(call, c) PROVE IInv'
  <2>1. Standing(x, s, susp, n)'
    BY <1>3, Unchanged DEF Refuse, coroVars
  <2> QED
    BY <2>1 DEF IInv
<1>4. ASSUME NEW c \in Coro, NEW v, avr_coro_resume(c, v), ~Refuse("resume", c) PROVE IInv'
  <2>1. PICK y, t, after, last : Standing(y, t, after, last)'
    BY <1>1, <1>4, ResumeBegins
  <2> QED
    BY <2>1 DEF IInv
<1>5. ASSUME NEW c \in Coro, NEW v, avr_coro_yield(c, v), ~Refuse("yield", c) PROVE IInv'
  <2>1. PICK y, i : Standing(y, SubSeq(s, 1, i - 1), [susp EXCEPT ![c] = SubSeq(s, i, Len(s))],
                             s[i - 1])'
    <3>1. CutsOff(s, susp, n, c)
      BY <1>1, <1>5, YieldBegins
    <3> QED
      BY <3>1 DEF CutsOff
  <2> QED
    BY <2>1 DEF IInv
<1>6. ASSUME NEW v, FunctionReturns(v) PROVE IInv'
  <2>1. PICK t, last : Standing(x, t, susp, last)'
    BY <1>1, <1>6, FunctionEnds
  <2> QED
    BY <2>1 DEF IInv
<1> QED
  BY <1>1, <1>2, <1>3, <1>4, <1>5, <1>6 DEF User
-----------------------------------------------------------------------------
(* Where the program is tells the stage. *)
LEMMA StageIs ==
  ASSUME NEW x, NEW n, Stage(x, n)
  PROVE  /\ UserAt(x, n) => code = <<>> /\ pc = <<"pc", "user", n>>
         /\ code = <<>> /\ pc[2] = "user" => UserAt(x, n)
         /\ Creating(x, n) => code # <<>> \/ pc[2] = "init"
         /\ Switching(x, n) => \/ code # <<>>
                               \/ Arrived(x, n) /\ pc[2] \in {"resume", "yield"}
                               \/ Begins(x, n) /\ pc[2] \in {"avr_makecontext_callfunc", "avr_coro_trampoline"}
         /\ code = <<>> /\ pc[2] \in {"resume", "yield"} => Arrived(x, n)
<1>1. ASSUME NEW c, Initialises(x, n, c) PROVE code # <<>> \/ pc[2] = "init"
  <2>1. Return # <<>> /\ Return \in Program
    BY FunctionPieces DEF Return
  <2>2. PICK v, k : /\ \/ Saves(n, v, k, Return)
                       \/ code = Return
                       \/ pc = <<"pc", "init", c>>
    BY <1>1 DEF Initialises
  <2> QED
    BY <2>1, <2>2, CodeLeft
<1>2. ASSUME NEW m, NEW v, NEW k, NEW next, Leaves(x, n, m, v, k, next) PROVE code # <<>>
  <2>1. Fetch("arg2") \o Resuming \in Program /\ Fetch("arg2") \o Resuming # <<>>
    BY FetchFirst
  <2>2. Saves(m, v, k, Fetch("arg2") \o Resuming) \/ code = Fetch("arg2") \o Resuming
    BY <1>2 DEF Leaves
  <2> QED
    BY <2>1, <2>2, CodeLeft
<1>3. ASSUME NEW k, Arrives(x, n, k) PROVE code # <<>>
  BY <1>3, FetchFirst, CodeLeft DEF Arrives
<1>4. Arrived(x, n) => pc[2] \in {"resume", "yield"}
  BY DEF Arrived
<1>5. Begins(x, n) => pc[2] \in {"avr_makecontext_callfunc", "avr_coro_trampoline"}
  BY DEF Begins
<1>6. Creating(x, n) => code # <<>> \/ pc[2] = "init"
  BY <1>1 DEF Creating
<1>7. Switching(x, n) => \/ code # <<>>
                         \/ Arrived(x, n) /\ pc[2] \in {"resume", "yield"}
                         \/ Begins(x, n) /\ pc[2] \in {"avr_makecontext_callfunc", "avr_coro_trampoline"}
  BY <1>2, <1>3, <1>4, <1>5 DEF Switching
<1>8. UserAt(x, n) => code = <<>> /\ pc = <<"pc", "user", n>>
  BY DEF UserAt
<1> QED
  BY <1>6, <1>7, <1>8 DEF Stage

(* What a step of a call leads to. *)
LEMMA CallStep ==
  ASSUME ~InterruptsSplitSP, NEW x, NEW s, NEW susp, NEW n \in Party, Standing(x, s, susp, n), Next
  PROVE  /\ Creating(x, n) => \/ code # <<>> /\ Standing(x, s, susp, n)' /\ Creating(x, n)'
                              \/ InitReturns /\ \E y : Standing(y, s, susp, n)' /\ UserAt(y, n)'
         /\ Switching(x, n) => \/ /\ code # <<>> \/ avr_makecontext_callfunc
                                  /\ Standing(x, s, susp, n)' /\ Switching(x, n)'
                               \/ /\ Arrived(x, n) /\ SwapIn /\ Top[3] = n
                                  /\ Standing(x, s, susp, n)' /\ UserAt(x, n)'
                               \/ /\ Begins(x, n) /\ avr_coro_trampoline /\ reg["arg1"][2] = n
                                  /\ Standing(x, s, susp, n)' /\ UserAt(x, n)'
<1>1. TypeOK /\ FramesKept(memory, waits) /\ World(x, status, waits, s, susp, n)
  BY DEF Standing
<1>2. ASSUME NEW c \in Coro, Initialises(x, n, c)
      PROVE  \/ code # <<>> /\ Standing(x, s, susp, n)' /\ Creating(x, n)'
             \/ InitReturns /\ \E y : Standing(y, s, susp, n)' /\ UserAt(y, n)'
  BY <1>1, <1>2, InitialisesStep
<1>3. ASSUME NEW m \in Party, NEW k, NEW next,
             Leaves(x, n, m, CallContext(m, waits[m], Pointer(k), Pointer(next)), k, next)
      PROVE  code # <<>> /\ Standing(x, s, susp, n)' /\ Switching(x, n)'
  <2>1. PICK v : v = CallContext(m, waits[m], Pointer(k), Pointer(next))
    OBVIOUS
  <2>2. Leaves(x, n, m, v, k, next)
    BY <1>3, <2>1
  <2> QED
    BY <1>1, <2>2, LeavesStep
<1>4. ASSUME NEW k, Arrives(x, n, k)
      PROVE  code # <<>> /\ Standing(x, s, susp, n)' /\ Switching(x, n)'
  BY <1>1, <1>4, ArrivesStep
<1>5. ASSUME Arrived(x, n)
      PROVE  code = <<>> /\ SwapIn /\ Top[3] = n /\ Standing(x, s, susp, n)' /\ UserAt(x, n)'
  BY <1>1, <1>5, ArrivedStep
<1>6. ASSUME Begins(x, n)
      PROVE  \/ avr_makecontext_callfunc /\ Standing(x, s, susp, n)' /\ Switching(x, n)'
             \/ /\ avr_coro_trampoline /\ reg["arg1"][2] = n
                /\ Standing(x, s, susp, n)' /\ UserAt(x, n)'
  BY <1>1, <1>6, BeginsStep
<1>7. Creating(x, n) => \/ code # <<>> /\ Standing(x, s, susp, n)' /\ Creating(x, n)'
                        \/ InitReturns /\ \E y : Standing(y, s, susp, n)' /\ UserAt(y, n)'
  BY <1>2 DEF Creating
<1> QED
  BY <1>3, <1>4, <1>5, <1>6, <1>7 DEF Switching

(***************************************************************************)
(* Every call and every instruction of it keeps the invariant, if no       *)
(* interrupt sees half a stack pointer: out __SP_H__ and out __SP_L__      *)
(* (avrcontext.h:299) are then one step.                                   *)
(***************************************************************************)
LEMMA Preserved ==
  ASSUME ~InterruptsSplitSP, IInv, [Next]_vars
  PROVE  IInv'
<1>1. PICK x, s, susp, n : Standing(x, s, susp, n)
  BY DEF IInv
<1>2. n \in Party
  <2>1. Path(x, status, waits, s, Main, n)
    BY <1>1 DEF Standing, World
  <2> QED
    BY <2>1, OnPath
<1>3. CASE UNCHANGED vars
  <2>1. Standing(x, s, susp, n)'
    BY <1>1, <1>3, Unchanged DEF vars, coroVars
  <2> QED
    BY <2>1 DEF IInv
<1>4. CASE Next
  <2>1. CASE UserAt(x, n)
    BY <1>1, <1>2, <1>4, <2>1, UserStep
  <2>2. CASE ~UserAt(x, n)
    <3>1. Creating(x, n) \/ Switching(x, n)
      BY <1>1, <2>2 DEF Standing, Stage
    <3>2. \E y : Standing(y, s, susp, n)'
      BY <1>1, <1>2, <1>4, <3>1, CallStep
    <3> QED
      BY <3>2 DEF IInv
  <2> QED
    BY <2>1, <2>2
<1> QED
  BY <1>3, <1>4

(***************************************************************************)
(* Whatever calls the parties make, how deep they nest and where           *)
(* interrupts come: no stack of a party that waits loses an entry.         *)
(***************************************************************************)
THEOREM StacksKeptCorrect ==
  ASSUME ~InterruptsSplitSP
  PROVE  Spec => []StacksKept
<1>1. IInv /\ [Next]_vars => IInv'
  BY Preserved
<1>2. IInv => StacksKept
  <2>1. SUFFICES ASSUME FramesKept(memory, waits), NEW p \in Party, waits[p] # Nothing,
                        NEW i \in DOMAIN Frames(p)
                 PROVE  memory[p][i] = Frames(p)[i]
    BY DEF IInv, Standing, StacksKept
  <2>2. i \in 1 .. Base(p)
    BY <2>1, FramesOf
  <2> QED
    BY <2>1, <2>2 DEF FramesKept, FramesUpTo
<1> QED
  BY <1>1, <1>2, InitHolds, PTL DEF Spec

(***************************************************************************)
(* A party that goes on after a call of resume or yield does so at its own *)
(* place, on its own stack, with its own flags and registers.              *)
(***************************************************************************)
THEOREM PartiesRestoredCorrect ==
  ASSUME ~InterruptsSplitSP
  PROVE  Spec => []PartiesRestored
<1>1. IInv /\ [Next]_vars => IInv'
  BY Preserved
<1>2. IInv => PartiesRestored
  <2>1. SUFFICES ASSUME IInv, At("resume") \/ At("yield")
                 PROVE  PartiesRestored
    BY DEF PartiesRestored
  <2>2. PICK x, s, susp, n : Standing(x, s, susp, n)
    BY <2>1 DEF IInv
  <2>3. n \in Party
    <3>1. Path(x, status, waits, s, Main, n)
      BY <2>2 DEF Standing, World
    <3> QED
      BY <3>1, OnPath
  <2>9. Arrived(x, n)
    <3>1. code = <<>> /\ pc[2] \in {"resume", "yield"}
      BY <2>1 DEF At
    <3> QED
      BY <2>2, <3>1, StageIs DEF Standing
  <2>10. /\ pc = waits[n] /\ reg["SP"] = StackPointer(n, Base(n))
         /\ reg["SREG"] = <<Flag(n), n, waits[n]>>
         /\ \A r \in Relied : reg[r] = <<r, n, waits[n]>>
    BY <2>9 DEF Arrived
  <2>11. reg["SP"][2] = n /\ reg["SP"][3] = Len(Frames(n))
    <3>1. Len(Frames(n)) = Base(n)
      BY <2>3, FramesOf
    <3>2. reg["SP"][2] = n /\ reg["SP"][3] = Base(n)
      BY <2>10 DEF StackPointer
    <3> QED
      BY <3>1, <3>2
  <2> QED
    BY <2>10, <2>11 DEF PartiesRestored, Relied
<1> QED
  BY <1>1, <1>2, InitHolds, PTL DEF Spec
-----------------------------------------------------------------------------
(* What the calls do to chain and pieces is what avrcoro.h promises.        *)

(* A state of the abstract coroutines. *)
State(s, susp, var, ref) == [chain |-> s, suspended |-> susp, variable |-> var, refused |-> ref]

(* The model sees a chain and pieces where they are, and only between calls. *)
MappedKnown ==
  \A x, s, susp, n :
    World(x, status, waits, s, susp, n) /\ Stage(x, n) =>
      /\ UserAt(x, n) => Mapped = Abstract /\ Abstract = State(s, susp, variable, refused)
      /\ Creating(x, n) \/ Switching(x, n) => Mapped = visible

LEMMA MappedIs == MappedKnown
<1>1. SUFFICES ASSUME NEW x, NEW s, NEW susp, NEW n,
                      World(x, status, waits, s, susp, n), Stage(x, n)
               PROVE  /\ UserAt(x, n) => Mapped = Abstract /\ Abstract = State(s, susp, variable, refused)
                      /\ Creating(x, n) \/ Switching(x, n) => Mapped = visible
  BY DEF MappedKnown
<1>2. ASSUME UserAt(x, n)
      PROVE  Mapped = Abstract /\ Abstract = State(s, susp, variable, refused)
  <2>1. UserRuns
    <3>1. code = <<>> /\ pc = <<"pc", "user", n>>
      BY <1>2 DEF UserAt
    <3> QED
      BY <3>1 DEF UserRuns, At
  <2>2. Chain = s
    BY <1>1, <1>2, ChainIs
  <2>3. ASSUME NEW c \in Coro
        PROVE  (IF status[c] = "AVR_CORO_SUSPENDED"
                THEN PathTo(c, context[<<"exec", c>>]["SP"][2]) ELSE <<>>) = susp[c]
    <3>1. PICK st, w, t : st = status /\ w = waits /\ t = susp[c]
      OBVIOUS
    <3>2. CutOff(context, st, w, t, c)
      BY <1>1, <1>2, <3>1 DEF World, UserAt
    <3>3. ASSUME st[c] = "AVR_CORO_SUSPENDED"
          PROVE  PathTo(c, context[<<"exec", c>>]["SP"][2]) = t
      <4>1. /\ Path(context, st, w, t, c, t[Len(t)])
            /\ Resumable(context, w, c, t[Len(t)])
        BY <3>2, <3>3 DEF CutOff, Piece
      <4>2. context[<<"exec", c>>]["SP"][2] = t[Len(t)]
        BY <4>1 DEF Resumable, Fresh, WaitsIn, StackPointer
      <4>3. PathTo(c, t[Len(t)]) = t
        BY <4>1, PathFound
      <4> QED
        BY <4>2, <4>3
    <3> QED
      BY <3>1, <3>2, <3>3 DEF CutOff
  <2>4. susp = [c \in Coro |-> susp[c]]
    BY <1>1 DEF World
  <2>5. Abstract.suspended = susp
    BY <2>3, <2>4 DEF Abstract
  <2>6. Abstract = State(s, susp, variable, refused)
    BY <2>2, <2>5 DEF Abstract, State
  <2> QED
    BY <2>1, <2>6 DEF Mapped
<1>3. ASSUME Creating(x, n) \/ Switching(x, n)
      PROVE  Mapped = visible
  <2>1. ~(code = <<>> /\ pc[2] = "user")
    BY <1>1, <1>3, StageIs
  <2> QED
    BY <2>1 DEF Mapped, UserRuns, At
<1> QED
  BY <1>2, <1>3

LEMMA MappedWillBe == MappedKnown'
BY MappedIs, PTL

(* The actions of AsymmetricCoroutines, from state a to state b. *)
CreatesOf(a, b, c) ==
  /\ \A i \in DOMAIN a.chain : a.chain[i] # c
  /\ \A other \in Coro \ {c} :
       \A i \in DOMAIN a.suspended[other] : a.suspended[other][i] # c
  /\ b.suspended = [a.suspended EXCEPT ![c] = <<c>>]
  /\ b.chain = a.chain /\ b.variable = a.variable /\ b.refused = <<>>

(* From is the party that calls and to the one that goes on. *)
Hands(a, b, from, to, v) ==
  /\ v \in Sends(from)
  /\ b.variable = [q \in Party |-> IF q = from \/ (q = to /\ q \notin Deaf) THEN v
                                   ELSE a.variable[q]]
  /\ b.refused = <<>>

ResumesOf(a, b, c, v) ==
  LET t == a.suspended[c]
  IN  /\ t # <<>>
      /\ b.chain = a.chain \o t
      /\ b.suspended = [a.suspended EXCEPT ![c] = <<>>]
      /\ Hands(a, b, a.chain[Len(a.chain)], t[Len(t)], v)

YieldsOf(a, b, c, v) ==
  \E i \in 2 .. Len(a.chain) :
    /\ a.chain[i] = c
    /\ b.chain = SubSeq(a.chain, 1, i - 1)
    /\ b.suspended = [a.suspended EXCEPT ![c] = SubSeq(a.chain, i, Len(a.chain))]
    /\ Hands(a, b, a.chain[Len(a.chain)], a.chain[i - 1], v)

FinishesOf(a, b, v) ==
  LET last == Len(a.chain)
  IN  /\ last > 1
      /\ b.chain = SubSeq(a.chain, 1, last - 1)
      /\ b.suspended = a.suspended /\ b.refused = <<>>
      /\ b.variable = [q \in Party |->
                         IF q = a.chain[last] THEN NoData
                         ELSE IF q = b.chain[Len(b.chain)] /\ q \notin Deaf THEN v
                         ELSE a.variable[q]]

Creates(a, b) == \E c \in Coro : CreatesOf(a, b, c)

Switches(a, b) ==
  \/ \E c \in Coro, v \in Data : ResumesOf(a, b, c, v) \/ YieldsOf(a, b, c, v)
  \/ \E v \in Data : FinishesOf(a, b, v)

LEMMA ActsAs ==
  ASSUME NEW a, NEW b, Mapped = a, Mapped' = b, Creates(a, b) \/ Switches(a, b)
  PROVE  Specified!Next
<1>1. ASSUME NEW c \in Coro, CreatesOf(a, b, c)
      PROVE  Specified!Create(c)
  BY <1>1 DEF CreatesOf, Specified!Create, Specified!Range
<1>2. ASSUME NEW c \in Coro, NEW v \in Data, ResumesOf(a, b, c, v)
      PROVE  Specified!Resume(c, v)
  <2>1. PICK t : t = a.suspended[c]
    OBVIOUS
  <2>2. Specified!Hand(Specified!Last(Mapped.suspended[c]), v)
    BY <1>2, <2>1 DEF ResumesOf, Hands, Specified!Hand, Specified!Last, Specified!Sends, Sends,
                      Specified!Party, Party
  <2> QED
    BY <1>2, <2>1, <2>2 DEF ResumesOf, Hands, Specified!Resume
<1>3. ASSUME NEW c \in Coro, NEW v \in Data, YieldsOf(a, b, c, v)
      PROVE  Specified!Yield(c, v)
  <2>1. PICK i \in 2 .. Len(a.chain) :
          /\ a.chain[i] = c
          /\ b.chain = SubSeq(a.chain, 1, i - 1)
          /\ b.suspended = [a.suspended EXCEPT ![c] = SubSeq(a.chain, i, Len(a.chain))]
          /\ Hands(a, b, a.chain[Len(a.chain)], a.chain[i - 1], v)
    BY <1>3 DEF YieldsOf
  <2>2. Specified!Hand(Mapped.chain[i - 1], v)
    BY <2>1 DEF Hands, Specified!Hand, Specified!Last, Specified!Sends, Sends,
                Specified!Party, Party
  <2> QED
    BY <2>1, <2>2 DEF Hands, Specified!Yield
<1>4. ASSUME NEW v \in Data, FinishesOf(a, b, v)
      PROVE  Specified!Finish(v)
  BY <1>4 DEF FinishesOf, Specified!Finish, Specified!Front, Specified!Last, Specified!Party, Party
<1>5. Data = Specified!Data
  BY DEF Data, Specified!Data
<1> QED
  BY <1>1, <1>2, <1>3, <1>4, <1>5 DEF Creates, Switches, Specified!Next
-----------------------------------------------------------------------------
(* The refinement.                                                          *)

(* The data that n, about to go on, finds in the coroutine of its call. *)
Sent(n) == data[IF waits[n] = Nothing THEN n ELSE waits[n][3]]

(* The state in which n goes on. *)
Brings(s, susp, n) == State(s, susp, Given(n, Sent(n)), <<>>)

DataOK == DOMAIN data = Coro /\ variable = [q \in Party |-> variable[q]]

(* A call that is under way is going to do what it has to. *)
Underway(x, s, susp, n) ==
  \/ UserAt(x, n)
  \/ Creating(x, n) /\ refused = <<>> /\ Creates(visible, State(s, susp, variable, <<>>))
  \/ Switching(x, n) /\ refused = <<>> /\ Switches(visible, Brings(s, susp, n))

RInv == \E x, s, susp, n : Standing(x, s, susp, n) /\ DataOK /\ Underway(x, s, susp, n)

LEMMA MappedNow ==
  ASSUME NEW x, NEW s, NEW susp, NEW n, Standing(x, s, susp, n)
  PROVE  /\ UserAt(x, n) => Mapped = State(s, susp, variable, refused) /\ Mapped = Abstract
         /\ Creating(x, n) \/ Switching(x, n) => Mapped = visible
BY MappedIs DEF MappedKnown, Standing

LEMMA MappedNext ==
  ASSUME NEW x, NEW s, NEW susp, NEW n, Standing(x, s, susp, n)'
  PROVE  /\ UserAt(x, n)' => Mapped' = State(s, susp, variable', refused')
         /\ Creating(x, n)' \/ Switching(x, n)' => Mapped' = visible'
BY MappedWillBe DEF MappedKnown, Standing

(* A coroutine that is suspended heads its piece; one that is not has none. *)
LEMMA PieceIs ==
  ASSUME NEW x, NEW st, NEW w, NEW s, NEW susp, NEW n, World(x, st, w, s, susp, n),
         NEW c \in Coro
  PROVE  susp[c] = <<>> <=> st[c] # "AVR_CORO_SUSPENDED"
<1>1. PICK t : t = susp[c] /\ CutOff(x, st, w, t, c)
  BY DEF World
<1>2. Piece(x, st, w, t, c) => Len(t) # 0
  BY DEF Piece, Path
<1>3. Piece(x, st, w, t, c) => t # <<>>
  BY <1>2
<1> QED
  BY <1>1, <1>3 DEF CutOff

(* All of the chain but the main program are running. *)
LEMMA NotInChain ==
  ASSUME NEW x, NEW st, NEW w, NEW s, NEW susp, NEW n, World(x, st, w, s, susp, n),
         NEW c \in Coro, st[c] # "AVR_CORO_RUNNING"
  PROVE  \A i \in DOMAIN s : s[i] # c
<1>1. Path(x, st, w, s, Main, n)
  BY DEF World
<1>2. /\ s \in Seq(Party) /\ Len(s) \in Nat /\ s[1] = Main
      /\ \A i \in 2 .. Len(s) : st[s[i]] = "AVR_CORO_RUNNING"
  <2>1. s \in Seq(Party) /\ Len(s) \in Nat /\ s[1] = Main
    BY <1>1, OnPath
  <2>2. \A i \in 2 .. Len(s) : Link(x, st, w, s[i - 1], s[i])
    BY <1>1 DEF Path
  <2> QED
    BY <2>1, <2>2 DEF Link
<1>3. \A i \in DOMAIN s : i = 1 \/ i \in 2 .. Len(s)
  BY <1>2, LenProperties
<1> QED
  BY <1>2, <1>3, Sizes

(* avr_coro_init *)
LEMMA InitAbides ==
  ASSUME NEW x, NEW s, NEW susp, NEW n \in Party, Standing(x, s, susp, n), UserAt(x, n), DataOK,
         NEW c \in Coro, avr_coro_init(c)
  PROVE  RInv' /\ Mapped' = Mapped
<1>1. TypeOK /\ FramesKept(memory, waits) /\ World(x, status, waits, s, susp, n)
  BY DEF Standing
<1>2. PICK after : after = [susp EXCEPT ![c] = <<c>>]
  OBVIOUS
<1>3. PICK y : Standing(y, s, after, n)' /\ Creating(y, n)'
  BY <1>1, <1>2, InitBegins
<1>4. PICK a : a = State(s, susp, variable, refused) /\ Mapped = a /\ Abstract = a
  BY MappedNow
<1>5. visible' = a /\ refused' = <<>> /\ variable' = variable /\ data' = data
  BY <1>4 DEF avr_coro_init, Call
<1>6. Mapped' = visible'
  BY <1>3, MappedNext
<1>7. status[c] # "AVR_CORO_RUNNING"
  BY DEF avr_coro_init
<1>8. PICK st, w : st = status /\ w = waits
  OBVIOUS
<1>9. World(x, st, w, s, susp, n) /\ st[c] # "AVR_CORO_RUNNING"
  BY <1>1, <1>7, <1>8
<1>10. \A i \in DOMAIN s : s[i] # c
  BY <1>9, NotInChain
<1>11. ASSUME NEW other \in Coro \ {c}
       PROVE  \A i \in DOMAIN susp[other] : susp[other][i] # c
  <2>1. PICK t : t = susp[other] /\ CutOff(x, st, w, t, other)
    BY <1>9 DEF World
  <2>2. CASE Piece(x, st, w, t, other) /\ t \in Seq(Party)
    <3>1. \A i \in 1 .. Len(t) : t[i] # c
      BY <1>9, <2>2, OtherPiece
    <3> QED
      BY <2>1, <2>2, <3>1, LenProperties
  <2>3. CASE t = <<>>
    BY <2>1, <2>3
  <2> QED
    BY <2>1, <2>2, <2>3 DEF CutOff
<1>12. Creates(a, State(s, after, variable, <<>>))
  <2>1. PICK b : b = State(s, after, variable, <<>>)
    OBVIOUS
  <2>2. a.chain = s /\ a.suspended = susp /\ a.variable = variable
    BY <1>4 DEF State
  <2>3. b.chain = s /\ b.suspended = after /\ b.variable = variable /\ b.refused = <<>>
    BY <2>1 DEF State
  <2>4. CreatesOf(a, b, c)
    BY <1>2, <1>10, <1>11, <2>2, <2>3 DEF CreatesOf
  <2> QED
    BY <2>1, <2>4 DEF Creates
<1>13. Creates(visible', State(s, after, variable', <<>>))
  BY <1>5, <1>12
<1>14. Underway(y, s, after, n)' /\ DataOK'
  BY <1>3, <1>5, <1>13 DEF Underway, DataOK
<1> QED
  BY <1>3, <1>4, <1>5, <1>6, <1>14 DEF RInv

(* A call that returns 1. *)
LEMMA RefuseAbides ==
  ASSUME NEW x, NEW s, NEW susp, NEW n \in Party, Standing(x, s, susp, n), UserAt(x, n), DataOK,
         NEW c \in Coro, NEW call, Refuse(call, c),
         \/ call = "resume" /\ status[c] # "AVR_CORO_SUSPENDED"
         \/ call = "yield" /\ status[c] # "AVR_CORO_RUNNING"
  PROVE  RInv' /\ Specified!Next
<1>1. /\ Standing(x, s, susp, n)' /\ UserAt(x, n)'
      /\ refused' = <<call, c>> /\ variable' = variable /\ data' = data
  BY Unchanged DEF Refuse, coroVars
<1>2. Mapped = State(s, susp, variable, refused) /\ Mapped' = State(s, susp, variable, <<call, c>>)
  BY <1>1, MappedNow, MappedNext
<1>3. PICK st, w : st = status /\ w = waits
  OBVIOUS
<1>4. World(x, st, w, s, susp, n)
  BY <1>3 DEF Standing
<1>5. st[c] # "AVR_CORO_SUSPENDED" => susp[c] = <<>>
  BY <1>4, PieceIs
<1>6. st[c] # "AVR_CORO_RUNNING" => \A i \in DOMAIN s : s[i] # c
  BY <1>4, NotInChain
<1>7. Specified!Refuse(c)
  BY <1>2, <1>3, <1>5, <1>6 DEF State, Specified!Refuse, Specified!Range
<1>8. Underway(x, s, susp, n)' /\ DataOK'
  BY <1>1 DEF Underway, DataOK
<1> QED
  BY <1>1, <1>7, <1>8 DEF RInv, Specified!Next

(* What p is given when it goes on, once another party has sent something. *)
LEMMA GivenIs ==
  ASSUME NEW var, var = [q \in Party |-> var[q]], NEW n \in Party, NEW sent, NEW v,
         NEW var2, var2 = [var EXCEPT ![n] = sent], NEW p \in Party,
         NEW given, p \in Deaf => given = var2, p \notin Deaf => given = [var2 EXCEPT ![p] = v]
  PROVE  /\ var2 = [q \in Party |-> var2[q]]
         /\ given = [q \in Party |-> given[q]]
         /\ \A q \in Party : given[q] = IF q = p /\ q \notin Deaf THEN v
                                         ELSE IF q = n THEN sent ELSE var[q]
<1>1. DOMAIN var = Party
  BY DOMAIN [q \in Party |-> var[q]] = Party
<1>2. DOMAIN var2 = Party /\ \A q \in Party : var2[q] = IF q = n THEN sent ELSE var[q]
  BY <1>1
<1>3. var2 = [q \in Party |-> var2[q]]
  BY <1>1
<1>4. CASE p \in Deaf
  <2>1. given = var2
    BY <1>4
  <2> QED
    BY <1>2, <1>4, <1>3, <2>1
<1>5. CASE p \notin Deaf
  <2>1. given = [var2 EXCEPT ![p] = v]
    BY <1>5
  <2>2. given = [q \in Party |-> given[q]]
    <3>1. DOMAIN var2 = Party
      BY <1>2
    <3> QED
      BY <2>1, <3>1
  <2>3. \A q \in Party : given[q] = IF q = p THEN v ELSE var2[q]
    BY <1>2, <2>1
  <2> QED
    BY <1>2, <1>5, <1>3, <2>2, <2>3
<1> QED
  BY <1>4, <1>5, <1>3

(* The call that last waits for is one of c, and c holds what it is sent. *)
WaitsFor(w, last, c) ==
  \/ last = c /\ w[last] = Nothing
  \/ \E call : w[last] = <<"pc", call, c>>

LEMMA DataSent ==
  ASSUME NEW n \in Party, me = n, DataOK, DOMAIN waits = Party,
         NEW call, NEW c \in Coro, NEW v, NEW from, NEW to, SwapOut(call, c, v, from, to),
         NEW last \in Party, last # n, WaitsFor(waits, last, c)
  PROVE  /\ DataOK' /\ v \in Sends(n) /\ refused' = <<>> /\ visible' = Abstract
         /\ Given(last, Sent(last))'
              = [q \in Party |-> IF q = n \/ (q = last /\ q \notin Deaf) THEN v ELSE variable[q]]
<1>1. /\ data' = [data EXCEPT ![c] = v] /\ v \in Sends(n)
      /\ variable' = [variable EXCEPT ![n] = v]
      /\ waits' = [waits EXCEPT ![n] = <<"pc", call, c>>]
      /\ refused' = <<>> /\ visible' = Abstract
  BY DEF SwapOut, Call
<1>2. waits'[last] = waits[last] /\ data'[c] = v /\ DOMAIN data' = Coro
  BY <1>1 DEF DataOK
<1>3. Sent(last)' = v
  <2>1. CASE last = c /\ waits[last] = Nothing
    BY <1>2, <2>1 DEF Sent
  <2>2. CASE \E other : waits[last] = <<"pc", other, c>>
    <3>1. PICK other : waits[last] = <<"pc", other, c>>
      BY <2>2
    <3>2. waits'[last] # Nothing /\ waits'[last][3] = c
      BY <1>2, <3>1 DEF Nothing
    <3> QED
      BY <1>2, <3>2 DEF Sent
  <2> QED
    BY <2>1, <2>2 DEF WaitsFor
<1>4. Given(last, Sent(last))' = (IF last \in Deaf THEN variable' ELSE [variable' EXCEPT ![last] = v])
  BY <1>3 DEF Given
<1>5. PICK var, var2 : var = variable /\ var2 = variable'
  OBVIOUS
<1>6. var = [q \in Party |-> var[q]] /\ var2 = [var EXCEPT ![n] = v]
  BY <1>1, <1>5 DEF DataOK
<1>7. PICK given : given = IF last \in Deaf THEN var2 ELSE [var2 EXCEPT ![last] = v]
  OBVIOUS
<1>8. /\ var2 = [q \in Party |-> var2[q]]
      /\ given = [q \in Party |-> given[q]]
      /\ \A q \in Party : given[q] = IF q = last /\ q \notin Deaf THEN v
                                      ELSE IF q = n THEN v ELSE var[q]
  <2>1. /\ last \in Deaf => given = var2
        /\ last \notin Deaf => given = [var2 EXCEPT ![last] = v]
    BY <1>7
  <2> QED
    BY <1>6, <2>1, GivenIs
<1>9. DataOK'
  BY <1>2, <1>5, <1>8 DEF DataOK
<1>10. given = [q \in Party |-> IF q = n \/ (q = last /\ q \notin Deaf) THEN v ELSE var[q]]
  <2>1. \A q \in Party : given[q] = IF q = n \/ (q = last /\ q \notin Deaf) THEN v ELSE var[q]
    BY <1>8
  <2> QED
    BY <1>8, <2>1
<1>11. Given(last, Sent(last))'
        = [q \in Party |-> IF q = n \/ (q = last /\ q \notin Deaf) THEN v ELSE var[q]]
  BY <1>4, <1>5, <1>7, <1>10
<1> QED
  BY <1>1, <1>5, <1>9, <1>11

(* avr_coro_resume *)
LEMMA ResumeAbides ==
  ASSUME NEW x, NEW s, NEW susp, NEW n \in Party, Standing(x, s, susp, n), UserAt(x, n), DataOK,
         NEW c \in Coro, NEW v \in Data, avr_coro_resume(c, v), ~Refuse("resume", c)
  PROVE  RInv' /\ Mapped' = Mapped
<1>1. TypeOK /\ FramesKept(memory, waits) /\ World(x, status, waits, s, susp, n)
  BY DEF Standing
<1>2. PICK y, t : /\ t \in Seq(Party) /\ t = susp[c] /\ Piece(context, status, waits, t, c)
                  /\ t[Len(t)] # n
                  /\ Standing(y, s \o t, [susp EXCEPT ![c] = <<>>], t[Len(t)])'
                  /\ Switching(y, t[Len(t)])'
  BY <1>1, ResumeBegins
<1>3. PICK u, after, last : /\ u = s \o t /\ after = [susp EXCEPT ![c] = <<>>] /\ last = t[Len(t)]
  OBVIOUS
<1>4. Standing(y, u, after, last)' /\ Switching(y, last)' /\ last # n
  BY <1>2, <1>3
<1>5. PICK a : a = State(s, susp, variable, refused) /\ Mapped = a /\ Abstract = a
  BY MappedNow
<1>6. Mapped' = visible'
  BY <1>4, MappedNext
<1>7. PICK st, w : st = status /\ w = waits
  OBVIOUS
<1>8. Path(x, st, w, s, Main, n) /\ Path(context, st, w, t, c, last) /\ Resumable(context, w, c, last)
  BY <1>1, <1>2, <1>3, <1>7 DEF World, Piece
<1>9. s[Len(s)] = n /\ last \in Party
  BY <1>8, OnPath
<1>10. WaitsFor(waits, last, c)
  BY <1>7, <1>8 DEF Resumable, WaitsFor
<1>11. SwapOut("resume", c, v, "ret", "exec")
  BY DEF avr_coro_resume
<1>12. me = n
  BY DEF UserAt, me
<1>13. /\ DataOK' /\ v \in Sends(n) /\ refused' = <<>> /\ visible' = a
       /\ Given(last, Sent(last))'
            = [q \in Party |-> IF q = n \/ (q = last /\ q \notin Deaf) THEN v ELSE variable[q]]
  <2>1. DOMAIN waits = Party
    BY <1>1 DEF TypeOK
  <2> QED
    BY <1>4, <1>5, <1>9, <1>10, <1>11, <1>12, <2>1, DataSent
<1>14. PICK b : b = State(u, after, Given(last, Sent(last))', <<>>)
  OBVIOUS
<1>15. ResumesOf(a, b, c, v)
  <2>1. a.chain = s /\ a.suspended = susp /\ a.variable = variable
    BY <1>5 DEF State
  <2>2. /\ b.chain = u /\ b.suspended = after /\ b.refused = <<>>
        /\ b.variable = [q \in Party |-> IF q = n \/ (q = last /\ q \notin Deaf) THEN v ELSE variable[q]]
    BY <1>13, <1>14 DEF State
  <2>3. t # <<>>
    <3>1. Len(t) # 0
      BY <1>8 DEF Path
    <3> QED
      BY <3>1
  <2>4. Hands(a, b, n, last, v)
    BY <1>13, <2>1, <2>2 DEF Hands
  <2> QED
    BY <1>2, <1>3, <1>9, <2>1, <2>2, <2>3, <2>4 DEF ResumesOf
<1>16. Switches(visible', State(u, after, Given(last, Sent(last))', <<>>))
  BY <1>13, <1>14, <1>15 DEF Switches
<1>17. Underway(y, u, after, last)'
  BY <1>4, <1>13, <1>16 DEF Underway, Brings
<1> QED
  BY <1>4, <1>5, <1>6, <1>13, <1>17 DEF RInv

(* avr_coro_yield *)
LEMMA YieldAbides ==
  ASSUME NEW x, NEW s, NEW susp, NEW n \in Party, Standing(x, s, susp, n), UserAt(x, n), DataOK,
         NEW c \in Coro, NEW v \in Data, avr_coro_yield(c, v), ~Refuse("yield", c)
  PROVE  RInv' /\ Mapped' = Mapped
<1>1. TypeOK /\ FramesKept(memory, waits) /\ World(x, status, waits, s, susp, n)
  BY DEF Standing
<1>2. PICK y, i :
        /\ i \in 2 .. Len(s) /\ s[i] = c /\ s[i - 1] # n
        /\ Standing(y, SubSeq(s, 1, i - 1), [susp EXCEPT ![c] = SubSeq(s, i, Len(s))], s[i - 1])'
        /\ Switching(y, s[i - 1])'
  <2>1. CutsOff(s, susp, n, c)
    BY <1>1, YieldBegins
  <2> QED
    BY <2>1 DEF CutsOff
<1>3. PICK u, after, last : /\ u = SubSeq(s, 1, i - 1) /\ last = s[i - 1]
                            /\ after = [susp EXCEPT ![c] = SubSeq(s, i, Len(s))]
  OBVIOUS
<1>4. Standing(y, u, after, last)' /\ Switching(y, last)' /\ last # n
  BY <1>2, <1>3
<1>5. PICK a : a = State(s, susp, variable, refused) /\ Mapped = a /\ Abstract = a
  BY MappedNow
<1>6. Mapped' = visible'
  BY <1>4, MappedNext
<1>7. PICK st, w : st = status /\ w = waits
  OBVIOUS
<1>8. Path(x, st, w, s, Main, n)
  BY <1>1, <1>7 DEF World
<1>9. s[Len(s)] = n /\ last \in Party
  <2>1. Len(s) \in Nat /\ \A j \in 1 .. Len(s) : s[j] \in Party
    BY <1>8, OnPath
  <2>2. i - 1 \in 1 .. Len(s)
    BY <1>2, <2>1
  <2> QED
    BY <1>3, <1>8, <2>1, <2>2 DEF Path
<1>10. WaitsFor(waits, last, c)
  <2>1. Link(x, st, w, last, c)
    BY <1>2, <1>3, <1>8 DEF Path
  <2> QED
    BY <1>7, <2>1 DEF Link, WaitsFor
<1>11. SwapOut("yield", c, v, "exec", "ret")
  BY DEF avr_coro_yield
<1>12. me = n
  BY DEF UserAt, me
<1>13. /\ DataOK' /\ v \in Sends(n) /\ refused' = <<>> /\ visible' = a
       /\ Given(last, Sent(last))'
            = [q \in Party |-> IF q = n \/ (q = last /\ q \notin Deaf) THEN v ELSE variable[q]]
  <2>1. DOMAIN waits = Party
    BY <1>1 DEF TypeOK
  <2> QED
    BY <1>4, <1>5, <1>9, <1>10, <1>11, <1>12, <2>1, DataSent
<1>14. PICK b : b = State(u, after, Given(last, Sent(last))', <<>>)
  OBVIOUS
<1>15. YieldsOf(a, b, c, v)
  <2>1. a.chain = s /\ a.suspended = susp /\ a.variable = variable
    BY <1>5 DEF State
  <2>2. /\ b.chain = u /\ b.suspended = after /\ b.refused = <<>>
        /\ b.variable = [q \in Party |-> IF q = n \/ (q = last /\ q \notin Deaf) THEN v ELSE variable[q]]
    BY <1>13, <1>14 DEF State
  <2>3. Hands(a, b, n, last, v)
    BY <1>13, <2>1, <2>2 DEF Hands
  <2> QED
    BY <1>2, <1>3, <1>9, <2>1, <2>2, <2>3 DEF YieldsOf
<1>16. Switches(visible', State(u, after, Given(last, Sent(last))', <<>>))
  BY <1>13, <1>14, <1>15 DEF Switches
<1>17. Underway(y, u, after, last)'
  BY <1>4, <1>13, <1>16 DEF Underway, Brings
<1> QED
  BY <1>4, <1>5, <1>6, <1>13, <1>17 DEF RInv

(* The function of a coroutine returns. *)
LEMMA FinishAbides ==
  ASSUME NEW x, NEW s, NEW susp, NEW n \in Party, Standing(x, s, susp, n), UserAt(x, n), DataOK,
         NEW v \in Data, FunctionReturns(v)
  PROVE  RInv' /\ Mapped' = Mapped
<1>1. TypeOK /\ FramesKept(memory, waits) /\ World(x, status, waits, s, susp, n)
  BY DEF Standing
<1>2. /\ n \in Coro /\ Len(s) \in Nat /\ Len(s) >= 2 /\ Top[3] = n
      /\ Standing(x, SubSeq(s, 1, Len(s) - 1), susp, s[Len(s) - 1])'
      /\ Switching(x, s[Len(s) - 1])'
  BY <1>1, FunctionEnds
<1>3. PICK u, last : u = SubSeq(s, 1, Len(s) - 1) /\ last = s[Len(s) - 1]
  OBVIOUS
<1>4. Standing(x, u, susp, last)' /\ Switching(x, last)'
  BY <1>2, <1>3
<1>5. PICK a : a = State(s, susp, variable, refused) /\ Mapped = a /\ Abstract = a
  BY MappedNow
<1>6. Mapped' = visible'
  BY <1>4, MappedNext
<1>7. PICK st, w : st = status /\ w = waits
  OBVIOUS
<1>8. Path(x, st, w, s, Main, n)
  BY <1>1, <1>7 DEF World
<1>9. s[Len(s)] = n /\ last \in Party /\ last # n
  <2>1. \A j \in 1 .. Len(s) : s[j] \in Party
    BY <1>8, OnPath
  <2>2. Len(s) - 1 \in 1 .. Len(s) /\ Len(s) \in 1 .. Len(s) /\ Len(s) - 1 # Len(s)
    BY <1>2
  <2> QED
    BY <1>3, <1>8, <2>1, <2>2 DEF Path
<1>10. waits[last] = <<"pc", "resume", n>>
  <2>1. Len(s) \in 2 .. Len(s)
    BY <1>2
  <2>2. Link(x, st, w, last, n)
    BY <1>3, <1>8, <1>9, <2>1 DEF Path
  <2> QED
    BY <1>7, <2>2 DEF Link
<1>11. me = n
  BY DEF UserAt, me
<1>12. /\ data' = [data EXCEPT ![n] = v] /\ variable' = [variable EXCEPT ![n] = NoData]
       /\ waits' = waits /\ refused' = <<>> /\ visible' = a
  BY <1>2, <1>5, <1>11 DEF FunctionReturns
<1>13. Sent(last)' = v
  <2>1. waits'[last] = <<"pc", "resume", n>>
    BY <1>10, <1>12
  <2>2. waits'[last] # Nothing /\ waits'[last][3] = n
    BY <2>1 DEF Nothing
  <2> QED
    BY <1>2, <1>12, <2>2 DEF Sent, DataOK
<1>14. PICK var, var2 : var = variable /\ var2 = variable'
  OBVIOUS
<1>15. PICK given : given = Given(last, Sent(last))'
  OBVIOUS
<1>16. /\ last \in Deaf => given = var2
       /\ last \notin Deaf => given = [var2 EXCEPT ![last] = v]
  BY <1>13, <1>14, <1>15 DEF Given
<1>17. var = [q \in Party |-> var[q]] /\ var2 = [var EXCEPT ![n] = NoData]
  BY <1>12, <1>14 DEF DataOK
<1>18. /\ var2 = [q \in Party |-> var2[q]]
       /\ given = [q \in Party |-> given[q]]
       /\ \A q \in Party : given[q] = IF q = last /\ q \notin Deaf THEN v
                                        ELSE IF q = n THEN NoData ELSE var[q]
  BY <1>9, <1>16, <1>17, GivenIs
<1>19. given = [q \in Party |-> IF q = n THEN NoData
                                ELSE IF q = last /\ q \notin Deaf THEN v ELSE var[q]]
  <2>1. \A q \in Party : given[q] = IF q = n THEN NoData
                                    ELSE IF q = last /\ q \notin Deaf THEN v ELSE var[q]
    BY <1>9, <1>18
  <2> QED
    BY <1>18, <2>1
<1>20. DataOK'
  BY <1>12, <1>14, <1>18 DEF DataOK
<1>21. PICK b : b = State(u, susp, given, <<>>)
  OBVIOUS
<1>22. FinishesOf(a, b, v)
  <2>1. a.chain = s /\ a.suspended = susp /\ a.variable = var
    BY <1>5, <1>14 DEF State
  <2>2. b.chain = u /\ b.suspended = susp /\ b.refused = <<>> /\ b.variable = given
    BY <1>21 DEF State
  <2>3. Len(u) = Len(s) - 1 /\ u[Len(u)] = last
    <3>1. 1 \in 1 .. Len(s) /\ Len(s) - 1 \in 1 .. Len(s)
      BY <1>2
    <3>2. Path(x, st, w, SubSeq(s, 1, Len(s) - 1), s[1], s[Len(s) - 1])
      BY <1>8, <3>1, SubPath
    <3>3. Len(SubSeq(s, 1, Len(s) - 1)) = Len(s) - 1
      BY <1>2, <1>8, OnPath, SubSeqProperties
    <3>4. Path(x, st, w, u, s[1], last)
      BY <1>3, <3>2
    <3> QED
      BY <1>3, <3>3, <3>4 DEF Path
  <2> QED
    BY <1>2, <1>3, <1>9, <1>19, <2>1, <2>2, <2>3 DEF FinishesOf
<1>23. Switches(visible', State(u, susp, Given(last, Sent(last))', <<>>))
  BY <1>12, <1>15, <1>21, <1>22 DEF Switches
<1>24. Underway(x, u, susp, last)'
  BY <1>4, <1>12, <1>23 DEF Underway, Brings
<1> QED
  BY <1>4, <1>5, <1>6, <1>12, <1>20, <1>24 DEF RInv

(* A call of the user's code is not seen, or it is refused. *)
LEMMA UserRefines ==
  ASSUME NEW x, NEW s, NEW susp, NEW n \in Party, Standing(x, s, susp, n), UserAt(x, n), DataOK,
         Next
  PROVE  RInv' /\ (Specified!Next \/ Mapped' = Mapped)
<1>1. User
  BY NextCases DEF UserAt
<1>2. ASSUME NEW c \in Coro, avr_coro_init(c) PROVE RInv' /\ Mapped' = Mapped
  BY <1>2, InitAbides
<1>3. ASSUME NEW c \in Coro, NEW v \in Data, avr_coro_resume(c, v)
      PROVE  RInv' /\ (Specified!Next \/ Mapped' = Mapped)
  <2>1. CASE Refuse("resume", c)
    <3>1. status[c] # "AVR_CORO_SUSPENDED"
      <4>1. SUFFICES ASSUME SwapOut("resume", c, v, "ret", "exec") PROVE FALSE
        BY <1>3 DEF avr_coro_resume
      <4>2. refused' = <<>> /\ refused' = <<"resume", c>>
        BY <2>1, <4>1 DEF SwapOut, Call, Refuse
      <4> QED
        BY <4>2
    <3> QED
      BY <2>1, <3>1, RefuseAbides
  <2> QED
    BY <1>3, <2>1, ResumeAbides
<1>4. ASSUME NEW c \in Coro, NEW v \in Data, avr_coro_yield(c, v)
      PROVE  RInv' /\ (Specified!Next \/ Mapped' = Mapped)
  <2>1. CASE Refuse("yield", c)
    <3>1. status[c] # "AVR_CORO_RUNNING"
      <4>1. SUFFICES ASSUME SwapOut("yield", c, v, "exec", "ret") PROVE FALSE
        BY <1>4 DEF avr_coro_yield
      <4>2. refused' = <<>> /\ refused' = <<"yield", c>>
        BY <2>1, <4>1 DEF SwapOut, Call, Refuse
      <4> QED
        BY <4>2
    <3> QED
      BY <2>1, <3>1, RefuseAbides
  <2> QED
    BY <1>4, <2>1, YieldAbides
<1>5. ASSUME NEW v \in Data, FunctionReturns(v) PROVE RInv' /\ Mapped' = Mapped
  BY <1>5, FinishAbides
<1> QED
  BY <1>1, <1>2, <1>3, <1>4, <1>5 DEF User

(* What avr_coro_init does is seen when it returns. *)
LEMMA CreatingRefines ==
  ASSUME ~InterruptsSplitSP,
         NEW x, NEW s, NEW susp, NEW n \in Party, Standing(x, s, susp, n), Creating(x, n), DataOK,
         refused = <<>>, Creates(visible, State(s, susp, variable, <<>>)), Next
  PROVE  RInv' /\ (Specified!Next \/ Mapped' = Mapped)
<1>1. Mapped = visible
  BY MappedNow
<1>2. CASE code # <<>> /\ Standing(x, s, susp, n)' /\ Creating(x, n)'
  <2>1. variable' = variable /\ refused' = refused /\ data' = data /\ visible' = visible
    BY <1>2, NextCases DEF coroVars, userVars
  <2>2. Mapped' = visible'
    BY <1>2, MappedNext
  <2>3. Underway(x, s, susp, n)' /\ DataOK'
    BY <1>2, <2>1 DEF Underway, DataOK
  <2> QED
    BY <1>1, <1>2, <2>1, <2>2, <2>3 DEF RInv
<1>3. CASE InitReturns /\ \E y : Standing(y, s, susp, n)' /\ UserAt(y, n)'
  <2>1. PICK y : Standing(y, s, susp, n)' /\ UserAt(y, n)'
    BY <1>3
  <2>2. variable' = variable /\ refused' = <<>> /\ data' = data
    BY <1>3 DEF InitReturns, coroVars
  <2>3. Mapped' = State(s, susp, variable, <<>>)
    BY <2>1, <2>2, MappedNext
  <2>4. PICK a, b : a = Mapped /\ b = Mapped'
    OBVIOUS
  <2>5. Creates(a, b)
    BY <1>1, <2>3, <2>4
  <2>6. Specified!Next
    BY <2>4, <2>5, ActsAs
  <2>7. Underway(y, s, susp, n)' /\ DataOK'
    BY <2>1, <2>2 DEF Underway, DataOK
  <2> QED
    BY <2>1, <2>6, <2>7 DEF RInv
<1> QED
  BY <1>2, <1>3, CallStep

(* A switch is seen when the party that goes on has its data. *)
LEMMA SwitchingRefines ==
  ASSUME ~InterruptsSplitSP,
         NEW x, NEW s, NEW susp, NEW n \in Party, Standing(x, s, susp, n), Switching(x, n), DataOK,
         refused = <<>>, Switches(visible, Brings(s, susp, n)), Next
  PROVE  RInv' /\ (Specified!Next \/ Mapped' = Mapped)
<1>1. Mapped = visible
  BY MappedNow
<1>2. CASE (code # <<>> \/ avr_makecontext_callfunc) /\ Standing(x, s, susp, n)' /\ Switching(x, n)'
  <2>1. /\ variable' = variable /\ refused' = refused /\ data' = data /\ visible' = visible
        /\ waits' = waits
    BY <1>2, NextCases DEF coroVars, userVars, avr_makecontext_callfunc
  <2>2. Mapped' = visible'
    BY <1>2, MappedNext
  <2>3. Brings(s, susp, n)' = Brings(s, susp, n)
    BY <2>1 DEF Brings, Given, Sent
  <2>4. Switches(visible', Brings(s, susp, n)')
    BY <2>1, <2>3
  <2>5. Underway(x, s, susp, n)' /\ DataOK'
    BY <1>2, <2>1, <2>4 DEF Underway, DataOK
  <2> QED
    BY <1>1, <1>2, <2>1, <2>2, <2>5 DEF RInv
<1>3. ASSUME Standing(x, s, susp, n)', UserAt(x, n)',
             variable' = Given(n, Sent(n)), refused' = refused, data' = data
      PROVE  RInv' /\ Specified!Next
  <2>1. Mapped' = State(s, susp, Given(n, Sent(n)), <<>>)
    BY <1>3, MappedNext
  <2>2. PICK a, b : a = Mapped /\ b = Mapped'
    OBVIOUS
  <2>3. Switches(a, b)
    BY <1>1, <2>1, <2>2 DEF Brings
  <2>4. Specified!Next
    BY <2>2, <2>3, ActsAs
  <2>5. variable' = [q \in Party |-> variable'[q]]
    <3>1. PICK var, v : var = variable /\ v = Sent(n)
      OBVIOUS
    <3>2. variable' = var \/ variable' = [var EXCEPT ![n] = v]
      BY <1>3, <3>1 DEF Given
    <3>3. var = [q \in Party |-> var[q]]
      BY <3>1 DEF DataOK
    <3> QED
      BY <3>2, <3>3
  <2>6. Underway(x, s, susp, n)' /\ DataOK'
    BY <1>3, <2>5 DEF Underway, DataOK
  <2> QED
    BY <1>3, <2>4, <2>6 DEF RInv
<1>4. CASE Arrived(x, n) /\ SwapIn /\ Top[3] = n /\ Standing(x, s, susp, n)' /\ UserAt(x, n)'
  <2>1. PICK c, call : waits[n] = <<"pc", call, c>> /\ pc = waits[n]
    BY <1>4 DEF Arrived
  <2>2. Sent(n) = data[pc[3]]
    <3>1. waits[n] # Nothing
      BY <2>1 DEF Nothing
    <3> QED
      BY <2>1, <3>1 DEF Sent
  <2>3. variable' = Given(n, Sent(n)) /\ refused' = refused /\ data' = data
    BY <1>4, <2>2 DEF SwapIn, coroVars
  <2> QED
    BY <1>3, <1>4, <2>3
<1>5. CASE /\ Begins(x, n) /\ avr_coro_trampoline /\ reg["arg1"][2] = n
           /\ Standing(x, s, susp, n)' /\ UserAt(x, n)'
  <2>1. Sent(n) = data[n]
    BY <1>5 DEF Begins, Sent
  <2>2. variable' = Given(n, Sent(n)) /\ refused' = refused /\ data' = data
    BY <1>5, <2>1 DEF avr_coro_trampoline, coroVars
  <2> QED
    BY <1>3, <1>5, <2>2
<1> QED
  BY <1>2, <1>4, <1>5, CallStep

LEMMA RefinesInit ==
  ASSUME Init
  PROVE  RInv /\ Specified!Init
<1>1. PICK susp : susp = [c \in Coro |-> <<>>]
  OBVIOUS
<1>2. Standing(context, <<Main>>, susp, Main) /\ UserAt(context, Main)
  BY <1>1, Initially
<1>3. DataOK /\ variable = [p \in Party |-> NoData] /\ refused = <<>>
  BY DEF Init, DataOK
<1>4. Mapped = State(<<Main>>, susp, variable, refused)
  BY <1>2, MappedNow
<1>5. Specified!Init
  BY <1>1, <1>3, <1>4 DEF State, Specified!Init, Specified!Party, Party
<1> QED
  BY <1>2, <1>3, <1>5 DEF RInv, Underway

LEMMA Refines ==
  ASSUME ~InterruptsSplitSP, RInv, [Next]_vars
  PROVE  RInv' /\ (Specified!Next \/ Mapped' = Mapped)
<1>1. PICK x, s, susp, n : Standing(x, s, susp, n) /\ DataOK /\ Underway(x, s, susp, n)
  BY DEF RInv
<1>2. n \in Party
  <2>1. Path(x, status, waits, s, Main, n)
    BY <1>1 DEF Standing, World
  <2> QED
    BY <2>1, OnPath
<1>3. CASE UNCHANGED vars
  <2>1. /\ variable' = variable /\ refused' = refused /\ data' = data /\ visible' = visible
        /\ waits' = waits /\ UNCHANGED <<machine, status, waits>>
    BY <1>3 DEF vars, coroVars, userVars
  <2>2. /\ Standing(x, s, susp, n)'
        /\ UserAt(x, n) => UserAt(x, n)'
        /\ Creating(x, n) => Creating(x, n)'
        /\ Switching(x, n) => Switching(x, n)'
    BY <1>1, <2>1, Unchanged
  <2>3. Brings(s, susp, n)' = Brings(s, susp, n)
    BY <2>1 DEF Brings, Given, Sent
  <2>4. Switches(visible, Brings(s, susp, n)) => Switches(visible', Brings(s, susp, n)')
    BY <2>1, <2>3
  <2>5. Underway(x, s, susp, n)' /\ DataOK'
    BY <1>1, <2>1, <2>2, <2>4 DEF Underway, DataOK
  <2>6. Mapped' = Mapped
    BY <1>1, <2>1, <2>2, MappedNow, MappedNext DEF Underway
  <2> QED
    BY <2>2, <2>5, <2>6 DEF RInv
<1>4. CASE Next
  BY <1>1, <1>2, <1>4, UserRefines, CreatingRefines, SwitchingRefines DEF Underway
<1> QED
  BY <1>3, <1>4

(***************************************************************************)
(* For any number of coroutines, data and depth of nesting: contexts,      *)
(* stacks, swaps and the trampoline do what avrcoro.h promises, with       *)
(* interrupts at every instruction of them that they can come at, if none  *)
(* sees half a stack pointer.                                              *)
(***************************************************************************)
THEOREM CoroutinesImplement ==
  ASSUME ~InterruptsSplitSP
  PROVE  Spec => ImplementsCoroutines
<1>1. Init => RInv /\ Specified!Init
  BY RefinesInit
<1>2. RInv /\ [Next]_vars => RInv'
  BY Refines
<1>3. RInv /\ [Next]_vars => [Specified!Next]_(Specified!vars)
  BY Refines DEF Specified!vars
<1> QED
  BY <1>1, <1>2, <1>3, PTL DEF Spec, ImplementsCoroutines, Specified!Spec
=============================================================================
