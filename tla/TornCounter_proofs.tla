------------------------- MODULE TornCounter_proofs -------------------------
(***************************************************************************)
(* What an access to os_timer_counter reads when interrupts come between   *)
(* its bytes: for bytes of any even size, counters of any length and any   *)
(* number of ticks during the access.                                      *)
(***************************************************************************)
EXTENDS TornCounter, WellFoundedInduction, TLAPS
-----------------------------------------------------------------------------
(* Quotients and remainders.                                                *)

LEMMA DivMod ==
  ASSUME NEW d \in Nat \ {0}, NEW n \in Nat
  PROVE  n \div d \in Nat /\ n % d \in 0 .. d - 1 /\ n = d * (n \div d) + (n % d)
<1>1. n \div d \in Nat /\ n = d * (n \div d) + (n % d)
  OBVIOUS
<1>2. n % d \in 0 .. d - 1
  OBVIOUS
<1> QED
  BY <1>1, <1>2

(* They are recognised by what they make up. *)
LEMMA DivUnique ==
  ASSUME NEW d \in Nat \ {0}, NEW q \in Nat, NEW r \in 0 .. d - 1
  PROVE  (d * q + r) \div d = q /\ (d * q + r) % d = r
  OBVIOUS

LEMMA Times ==
  ASSUME NEW a \in Nat, NEW b \in Nat, NEW c \in Nat, b <= c
  PROVE  a * b \in Nat /\ a * b <= a * c
<1>1. PICK k \in Nat : c = b + k
  <2>1. c - b \in Nat /\ c = b + (c - b)
    OBVIOUS
  <2> QED
    BY <2>1
<1>2. a * k \in Nat /\ a * b \in Nat /\ a * (b + k) = a * b + a * k
  OBVIOUS
<1> QED
  BY <1>1, <1>2

(* A quotient grows with what is divided. *)
LEMMA DivMonotone ==
  ASSUME NEW d \in Nat \ {0}, NEW m \in Nat, NEW n \in Nat, m <= n
  PROVE  m \div d <= n \div d
<1>1. PICK a \in Nat, r \in 0 .. d - 1 : a = m \div d /\ m = d * a + r
  BY DivMod
<1>2. PICK b \in Nat, s \in 0 .. d - 1 : b = n \div d /\ n = d * b + s
  BY DivMod
<1>3. SUFFICES ASSUME b + 1 <= a PROVE FALSE
  BY <1>1, <1>2
<1>4. d * (b + 1) <= d * a
  BY <1>3, Times
<1>5. d * (b + 1) = d * b + d /\ d * a \in Nat /\ d * b \in Nat
  OBVIOUS
<1> QED
  BY <1>1, <1>2, <1>4, <1>5

(* To divide by a product is to divide twice. *)
LEMMA DivTwice ==
  ASSUME NEW b \in Nat \ {0}, NEW w \in Nat \ {0}, NEW n \in Nat
  PROVE  /\ b * w \in Nat \ {0}
         /\ n \div (b * w) = (n \div w) \div b
         /\ n % (b * w) = (n % w) + ((n \div w) % b) * w
<1>1. PICK q \in Nat, r \in 0 .. w - 1 : q = n \div w /\ r = n % w /\ n = w * q + r
  BY DivMod
<1>2. PICK p \in Nat, s \in 0 .. b - 1 : p = q \div b /\ s = q % b /\ q = b * p + s
  BY DivMod
<1>3. b * w \in Nat \ {0}
  OBVIOUS
<1>4. n = (b * w) * p + (r + s * w)
  <2>1. w * (b * p + s) = (b * w) * p + s * w
    OBVIOUS
  <2>2. (b * w) * p \in Nat /\ s * w \in Nat
    OBVIOUS
  <2>3. n = w * (b * p + s) + r
    BY <1>1, <1>2
  <2> QED
    BY <2>1, <2>2, <2>3
<1>5. r + s * w \in 0 .. b * w - 1
  <2>1. w * s <= w * (b - 1) /\ w * s \in Nat
    BY Times
  <2>2. w * (b - 1) = b * w - w /\ w * s = s * w /\ b * w \in Nat
    OBVIOUS
  <2> QED
    BY <2>1, <2>2
<1>6. PICK d \in Nat \ {0}, t \in Nat : d = b * w /\ t = r + s * w /\ t \in 0 .. d - 1
  BY <1>3, <1>5
<1>7. n \div d = p /\ n % d = t
  BY <1>4, <1>6, DivUnique
<1> QED
  BY <1>1, <1>2, <1>3, <1>6, <1>7
-----------------------------------------------------------------------------
(* Steps from 0 up to a number.                                             *)

(* Every set of natural numbers has a least one. *)
LEMMA LeastNumber ==
  ASSUME NEW T \in SUBSET Nat, T # {}
  PROVE  \E n \in T : \A i \in T : n <= i
<1> DEFINE R == {ss \in Nat \X Nat : ss[1] < ss[2]}
<1>1. IsWellFoundedOn(R, Nat)
  BY NatLessThanWellFounded DEF OpToRel
<1>2. R = {ss \in Nat \X Nat : ss[1] < ss[2]}
  OBVIOUS
<1> HIDE DEF R
<1>3. PICK n \in T : \A i \in T : ~(<<i, n>> \in R)
  BY <1>1, WFMin
<1>4. \A i \in T : ~(i < n)
  BY <1>2, <1>3
<1> QED
  BY <1>4

(* What holds at k, and after each number before N if at it, holds up to N. *)
LEMMA UpTo ==
  ASSUME NEW k \in Nat, NEW N \in Nat, NEW S, k \in S,
         \A n \in k .. N - 1 : n \in S => n + 1 \in S
  PROVE  \A n \in k .. N : n \in S
<1> DEFINE T == {n \in k .. N : n \notin S}
<1>1. SUFFICES ASSUME T # {} PROVE FALSE
  OBVIOUS
<1>2. T \in SUBSET Nat /\ \A n \in T : n \in k .. N /\ n \notin S
  OBVIOUS
<1>3. \A n \in k .. N : n \notin S => n \in T
  OBVIOUS
<1> HIDE DEF T
<1>4. PICK n \in T : \A i \in T : n <= i
  BY <1>1, <1>2, LeastNumber
<1>5. n \in k .. N /\ n # k /\ n \notin S
  BY <1>2
<1>6. n - 1 \in k .. N - 1 /\ n - 1 \in k .. N /\ n - 1 + 1 = n /\ ~(n <= n - 1)
  BY <1>5
<1>7. n - 1 \in S
  BY <1>3, <1>4, <1>6
<1> QED
  BY <1>5, <1>6, <1>7

(* f computes a value in m steps, each from the one before. *)
Computes(f, step, base, m) ==
  /\ f = [i \in 0 .. m |-> f[i]]
  /\ f[0] = base
  /\ \A i \in 1 .. m : f[i] = step[<<i, f[i - 1]>>]

(* Whatever the steps are, there is such a function. *)
LEMMA Steps ==
  ASSUME NEW step, NEW base, NEW N \in Nat
  PROVE  \E f : Computes(f, step, base, N)
<1> DEFINE S == {m \in 0 .. N : \E f : Computes(f, step, base, m)}
<1>1. 0 \in S
  <2>1. Computes([i \in 0 .. 0 |-> base], step, base, 0)
    BY DEF Computes
  <2> QED
    BY <2>1
<1>2. ASSUME NEW m \in 0 .. N - 1, m \in S
      PROVE  m + 1 \in S
  <2>1. PICK f : Computes(f, step, base, m)
    BY <1>2
  <2> DEFINE g == [i \in 0 .. m + 1 |-> IF i <= m THEN f[i] ELSE step[<<m + 1, f[m]>>]]
  <2>2. /\ g = [i \in 0 .. m + 1 |-> g[i]] /\ g[m + 1] = step[<<m + 1, f[m]>>]
        /\ \A i \in 0 .. m : g[i] = f[i]
    OBVIOUS
  <2> HIDE DEF g
  <2>3. g[0] = base
    <3>1. 0 \in 0 .. m
      OBVIOUS
    <3> QED
      BY <2>1, <2>2, <3>1 DEF Computes
  <2>4. ASSUME NEW i \in 1 .. m + 1
        PROVE  g[i] = step[<<i, g[i - 1]>>]
    <3>1. CASE i = m + 1
      <4>1. i - 1 = m /\ m \in 0 .. m
        BY <3>1
      <4> QED
        BY <2>2, <3>1, <4>1
    <3>2. CASE i # m + 1
      <4>1. i \in 0 .. m /\ i - 1 \in 0 .. m /\ i \in 1 .. m
        BY <3>2
      <4> QED
        BY <2>1, <2>2, <4>1 DEF Computes
    <3> QED
      BY <3>1, <3>2
  <2>5. Computes(g, step, base, m + 1)
    BY <2>2, <2>3, <2>4 DEF Computes
  <2> QED
    BY <2>5
<1>3. N \in S
  <2> HIDE DEF S
  <2>1. \A n \in 0 .. N : n \in S
    BY <1>1, <1>2, UpTo
  <2> QED
    BY <2>1
<1> QED
  BY <1>3
-----------------------------------------------------------------------------
(* The weights of the bytes, and the number they make up.                   *)

(* The constants, as the proofs use them. *)
LEMMA Sizes ==
  /\ Byte \in Nat \ {0} /\ Bytes \in Nat \ {0}
  /\ Positions = 0 .. Bytes - 1 /\ 0 \in Positions
BY TornCounterAssumption DEF Positions

(* Each weight is that of the byte before times a byte. *)
LEMMA WeightStep ==
  /\ Weight[0] = 1
  /\ \A i \in 1 .. Bytes : Weight[i] = Byte * Weight[i - 1]
<1> DEFINE Def(f) == [i \in 0 .. Bytes |-> IF i = 0 THEN 1 ELSE Byte * f[i - 1]]
<1>1. Weight = CHOOSE f : f = Def(f)
  BY DEF Weight
<1> DEFINE step == [ss \in Nat \X Nat |-> Byte * ss[2]]
<1>2. \A i \in Nat, n \in Nat : step[<<i, n>>] = Byte * n
  OBVIOUS
<1>3. \E f : f = Def(f)
  <2> HIDE DEF step
  <2>1. PICK f : Computes(f, step, 1, Bytes)
    BY Sizes, Steps
  <2>2. f[0] = 1 /\ \A i \in 1 .. Bytes : f[i] = step[<<i, f[i - 1]>>]
    BY <2>1 DEF Computes
  <2>3. \A i \in 0 .. Bytes : f[i] \in Nat
    <3> DEFINE S == {i \in 0 .. Bytes : f[i] \in Nat}
    <3>1. 0 \in S
      BY <2>2, Sizes
    <3>2. ASSUME NEW i \in 0 .. Bytes - 1, i \in S
          PROVE  i + 1 \in S
      <4>1. i + 1 \in 1 .. Bytes /\ i + 1 - 1 = i /\ i \in Nat /\ i + 1 \in Nat
        BY Sizes
      <4>2. f[i + 1] = step[<<i + 1, f[i]>>]
        BY <2>2, <4>1
      <4>3. f[i + 1] = Byte * f[i] /\ f[i] \in Nat
        BY <1>2, <3>2, <4>1, <4>2
      <4> QED
        BY <4>1, <4>3, Sizes
    <3> HIDE DEF S
    <3>3. \A i \in 0 .. Bytes : i \in S
      BY <3>1, <3>2, Sizes, UpTo
    <3> QED
      BY <3>3 DEF S
  <2>4. ASSUME NEW i \in 0 .. Bytes
        PROVE  f[i] = IF i = 0 THEN 1 ELSE Byte * f[i - 1]
    <3>1. CASE i = 0
      BY <2>2, <3>1
    <3>2. CASE i # 0
      <4>1. i \in 1 .. Bytes /\ i - 1 \in 0 .. Bytes /\ i \in Nat
        BY <3>2, Sizes
      <4> QED
        BY <1>2, <2>2, <2>3, <3>2, <4>1
    <3> QED
      BY <3>1, <3>2
  <2>5. f = [i \in 0 .. Bytes |-> f[i]]
    BY <2>1 DEF Computes
  <2> QED
    BY <2>4, <2>5
<1>4. Weight = Def(Weight)
  <2> HIDE DEF Def
  <2> QED
    BY <1>1, <1>3
<1>5. PICK w : w = Weight
  OBVIOUS
<1>6. w = [i \in 0 .. Bytes |-> IF i = 0 THEN 1 ELSE Byte * w[i - 1]]
  BY <1>4, <1>5
<1>7. w[0] = 1 /\ \A i \in 1 .. Bytes : w[i] = Byte * w[i - 1]
  BY <1>6, Sizes
<1> QED
  BY <1>5, <1>7

(* So the weights are numbers, 1, that of a byte, and so on. *)
LEMMA WeightIs ==
  /\ Weight[0] = 1 /\ Weight[1] = Byte
  /\ \A i \in 0 .. Bytes : Weight[i] \in Nat \ {0}
  /\ \A i \in 0 .. Bytes - 1 : Weight[i + 1] = Byte * Weight[i]
<1>1. PICK w : w = Weight
  OBVIOUS
<1>2. w[0] = 1 /\ \A i \in 1 .. Bytes : w[i] = Byte * w[i - 1]
  BY <1>1, WeightStep
<1>3. \A i \in 0 .. Bytes - 1 : i + 1 \in 1 .. Bytes /\ w[i + 1] = Byte * w[i]
  BY <1>2, Sizes
<1> DEFINE S == {i \in 0 .. Bytes : w[i] \in Nat \ {0}}
<1>4. 0 \in S
  BY <1>2, Sizes
<1>5. ASSUME NEW i \in 0 .. Bytes - 1, i \in S
      PROVE  i + 1 \in S
  <2>1. PICK n \in Nat \ {0} : w[i] = n
    BY <1>5
  <2>2. Byte * n \in Nat \ {0}
    BY Sizes
  <2>3. w[i + 1] = Byte * n /\ i + 1 \in 0 .. Bytes
    BY <1>3, <2>1, Sizes
  <2> QED
    BY <2>2, <2>3
<1>6. \A i \in 0 .. Bytes : i \in S
  <2> HIDE DEF S
  <2> QED
    BY <1>4, <1>5, Sizes, UpTo
<1>7. w[1] = Byte
  <2>1. 0 \in 0 .. Bytes - 1 /\ 0 + 1 = 1 /\ Byte * 1 = Byte
    BY Sizes
  <2> QED
    BY <1>2, <1>3, <2>1
<1> QED
  BY <1>1, <1>2, <1>3, <1>6, <1>7

(* Every byte is one. *)
LEMMA ByteAtIs ==
  ASSUME NEW n \in Nat, NEW i \in Positions
  PROVE  /\ ByteAt(n, i) \in 0 .. Byte - 1
         /\ n \div Weight[i + 1] = (n \div Weight[i]) \div Byte
         /\ n % Weight[i + 1] = (n % Weight[i]) + ByteAt(n, i) * Weight[i]
<1>1. PICK w \in Nat \ {0} : w = Weight[i]
  BY Sizes, WeightIs
<1>2. Weight[i + 1] = Byte * w
  BY <1>1, Sizes, WeightIs
<1>3. n \div w \in Nat
  BY DivMod
<1>4. (n \div w) % Byte \in 0 .. Byte - 1
  BY <1>3, Sizes, DivMod
<1>5. /\ n \div (Byte * w) = (n \div w) \div Byte
      /\ n % (Byte * w) = (n % w) + ((n \div w) % Byte) * w
  BY Sizes, DivTwice
<1>6. ByteAt(n, i) = (n \div w) % Byte
  BY <1>1 DEF ByteAt
<1> QED
  BY <1>1, <1>2, <1>4, <1>5, <1>6

(* The bytes loaded are bytes. *)
Copied == copy \in [Positions -> 0 .. Byte - 1]

(* The number is made up byte by byte. *)
LEMMA AssembleStep ==
  ASSUME Copied
  PROVE  /\ Assemble[0] = 0
         /\ \A i \in 1 .. Bytes : Assemble[i] = Assemble[i - 1] + copy[i - 1] * Weight[i - 1]
<1> DEFINE Def(f) == [i \in 0 .. Bytes |->
                        IF i = 0 THEN 0 ELSE f[i - 1] + copy[i - 1] * Weight[i - 1]]
<1>1. Assemble = CHOOSE f : f = Def(f)
  BY DEF Assemble
<1>2. PICK part : part = [i \in 1 .. Bytes |-> copy[i - 1] * Weight[i - 1]]
  OBVIOUS
<1>3. \A i \in 1 .. Bytes : part[i] = copy[i - 1] * Weight[i - 1] /\ part[i] \in Nat
  <2>1. SUFFICES ASSUME NEW i \in 1 .. Bytes
                 PROVE  part[i] = copy[i - 1] * Weight[i - 1] /\ part[i] \in Nat
    OBVIOUS
  <2>2. i - 1 \in Positions /\ i - 1 \in 0 .. Bytes
    BY Sizes
  <2>3. PICK n \in Nat, w \in Nat : n = copy[i - 1] /\ w = Weight[i - 1]
    BY <2>2, Sizes, WeightIs DEF Copied
  <2>4. part[i] = n * w /\ n * w \in Nat
    BY <1>2, <2>3
  <2> QED
    BY <2>3, <2>4
<1> DEFINE step == [ss \in (1 .. Bytes) \X Nat |-> ss[2] + part[ss[1]]]
<1>4. \A i \in 1 .. Bytes, n \in Nat : step[<<i, n>>] = n + part[i]
  OBVIOUS
<1>5. \E f : f = Def(f)
  <2> HIDE DEF step
  <2>1. PICK f : Computes(f, step, 0, Bytes)
    BY Sizes, Steps
  <2>2. f[0] = 0 /\ \A i \in 1 .. Bytes : f[i] = step[<<i, f[i - 1]>>]
    BY <2>1 DEF Computes
  <2>3. \A i \in 0 .. Bytes : f[i] \in Nat
    <3> DEFINE S == {i \in 0 .. Bytes : f[i] \in Nat}
    <3>1. 0 \in S
      BY <2>2, Sizes
    <3>2. ASSUME NEW i \in 0 .. Bytes - 1, i \in S
          PROVE  i + 1 \in S
      <4>1. i + 1 \in 1 .. Bytes /\ i + 1 - 1 = i /\ i + 1 \in 0 .. Bytes
        BY Sizes
      <4>2. f[i + 1] = step[<<i + 1, f[i]>>] /\ f[i] \in Nat
        BY <2>2, <3>2, <4>1
      <4>3. f[i + 1] = f[i] + part[i + 1] /\ part[i + 1] \in Nat
        BY <1>3, <1>4, <4>1, <4>2
      <4> QED
        BY <4>1, <4>2, <4>3
    <3> HIDE DEF S
    <3>3. \A i \in 0 .. Bytes : i \in S
      BY <3>1, <3>2, Sizes, UpTo
    <3> QED
      BY <3>3 DEF S
  <2>4. ASSUME NEW i \in 0 .. Bytes
        PROVE  f[i] = IF i = 0 THEN 0 ELSE f[i - 1] + copy[i - 1] * Weight[i - 1]
    <3>1. CASE i = 0
      BY <2>2, <3>1
    <3>2. CASE i # 0
      <4>1. i \in 1 .. Bytes /\ i - 1 \in 0 .. Bytes
        BY <3>2, Sizes
      <4>2. f[i] = f[i - 1] + part[i]
        BY <1>4, <2>2, <2>3, <4>1
      <4> QED
        BY <1>3, <3>2, <4>1, <4>2
    <3> QED
      BY <3>1, <3>2
  <2>5. f = [i \in 0 .. Bytes |-> f[i]]
    BY <2>1 DEF Computes
  <2> QED
    BY <2>4, <2>5
<1>6. Assemble = Def(Assemble)
  <2> HIDE DEF Def
  <2> QED
    BY <1>1, <1>5
<1>7. PICK a : a = Assemble
  OBVIOUS
<1>8. a = [i \in 0 .. Bytes |-> IF i = 0 THEN 0 ELSE a[i - 1] + copy[i - 1] * Weight[i - 1]]
  BY <1>6, <1>7
<1>9. /\ a[0] = 0
      /\ \A i \in 1 .. Bytes : a[i] = a[i - 1] + copy[i - 1] * Weight[i - 1]
  BY <1>8, Sizes
<1> QED
  BY <1>7, <1>9

(* So what the first bytes make up is less than the weight of the next. *)
LEMMA AssembleIs ==
  ASSUME Copied
  PROVE  /\ Assemble[0] = 0
         /\ \A i \in 0 .. Bytes : Assemble[i] \in 0 .. Weight[i] - 1
         /\ \A i \in Positions : Assemble[i + 1] = Assemble[i] + copy[i] * Weight[i]
<1>1. PICK a : a = Assemble
  OBVIOUS
<1>2. a[0] = 0 /\ \A i \in Positions : a[i + 1] = a[i] + copy[i] * Weight[i]
  <2>1. /\ a[0] = 0
        /\ \A i \in 1 .. Bytes : a[i] = a[i - 1] + copy[i - 1] * Weight[i - 1]
    BY <1>1, AssembleStep
  <2>2. ASSUME NEW i \in Positions
        PROVE  a[i + 1] = a[i] + copy[i] * Weight[i]
    <3>1. PICK j \in 1 .. Bytes : j = i + 1 /\ j - 1 = i
      BY Sizes
    <3>2. a[j] = a[j - 1] + copy[j - 1] * Weight[j - 1]
      BY <2>1
    <3> QED
      BY <3>1, <3>2
  <2> QED
    BY <2>1, <2>2
<1> DEFINE S == {i \in 0 .. Bytes : a[i] \in 0 .. Weight[i] - 1}
<1>3. 0 \in S
  BY <1>2, Sizes, WeightIs
<1>4. ASSUME NEW i \in 0 .. Bytes - 1, i \in S
      PROVE  i + 1 \in S
  <2>1. i \in Positions /\ i + 1 \in 0 .. Bytes /\ i \in 0 .. Bytes
    BY Sizes
  <2>2. PICK w \in Nat \ {0} : w = Weight[i]
    BY <2>1, WeightIs
  <2>3. PICK n \in 0 .. Byte - 1 : n = copy[i]
    BY <2>1 DEF Copied
  <2>4. PICK s \in 0 .. w - 1 : s = a[i]
    BY <1>4, <2>2
  <2>5. w * n <= w * (Byte - 1) /\ w * n \in Nat
    BY Sizes, Times
  <2>6. w * (Byte - 1) = Byte * w - w /\ w * n = n * w /\ Byte * w \in Nat
    BY Sizes
  <2>7. s + n * w \in 0 .. Byte * w - 1
    BY <2>5, <2>6
  <2>8. a[i + 1] = s + n * w /\ Weight[i + 1] = Byte * w
    BY <1>2, <2>1, <2>2, <2>3, <2>4, Sizes, WeightIs
  <2> QED
    BY <2>1, <2>7, <2>8
<1>5. \A i \in 0 .. Bytes : i \in S
  <2> HIDE DEF S
  <2> QED
    BY <1>3, <1>4, Sizes, UpTo
<1> QED
  BY <1>1, <1>2, <1>5

(* From the byte from which the copy is that of n, the number is n. *)
LEMMA AgreeFrom ==
  ASSUME Copied, NEW n \in 0 .. MaxCounter, NEW i \in 0 .. Bytes,
         \A j \in Positions : i <= j => copy[j] = ByteAt(n, j)
  PROVE  /\ Assembled = Weight[i] * (n \div Weight[i]) + Assemble[i]
         /\ Assembled \div Weight[i] = n \div Weight[i]
<1> DEFINE S == {k \in 0 .. Bytes :
                   Assemble[k] + (n % Weight[i]) = Assemble[i] + (n % Weight[k])}
<1>1. n \in Nat /\ MaxCounter \in Nat /\ n < Weight[Bytes] /\ Bytes \in 0 .. Bytes
  BY TornCounterAssumption, WeightIs, Sizes
<1>2. ASSUME NEW k \in 0 .. Bytes
      PROVE  n % Weight[k] \in Nat /\ Assemble[k] \in Nat
  <2>1. PICK w \in Nat \ {0} : w = Weight[k]
    BY WeightIs
  <2>2. n % w \in 0 .. w - 1 /\ Assemble[k] \in 0 .. w - 1
    BY <1>1, <2>1, AssembleIs, DivMod
  <2> QED
    BY <2>1, <2>2
<1>3. i \in S
  BY <1>2
<1>4. ASSUME NEW k \in i .. Bytes - 1, k \in S
      PROVE  k + 1 \in S
  <2>1. k \in Positions /\ i <= k /\ k \in 0 .. Bytes /\ k + 1 \in 0 .. Bytes
    BY Sizes
  <2>2. PICK w \in Nat, b \in Nat : w = Weight[k] /\ b = copy[k]
    BY <2>1, WeightIs, Sizes DEF Copied
  <2>3. Assemble[k + 1] = Assemble[k] + b * w
    BY <2>1, <2>2, AssembleIs
  <2>4. n % Weight[k + 1] = (n % Weight[k]) + b * w
    BY <1>1, <2>1, <2>2, ByteAtIs
  <2>5. b * w \in Nat
    OBVIOUS
  <2>6. Assemble[k] + (n % Weight[i]) = Assemble[i] + (n % Weight[k])
    BY <1>4
  <2>7. Assemble[k + 1] + (n % Weight[i]) = Assemble[i] + (n % Weight[k + 1])
    BY <1>2, <2>1, <2>3, <2>4, <2>5, <2>6
  <2> QED
    BY <2>1, <2>7
<1>5. Assembled + (n % Weight[i]) = Assemble[i] + (n % Weight[Bytes])
  <2>1. \A k \in i .. Bytes : k \in S
    <3> HIDE DEF S
    <3>1. i \in Nat /\ Bytes \in Nat
      BY Sizes
    <3> QED
      BY <1>3, <1>4, <3>1, UpTo
  <2>2. Bytes \in i .. Bytes
    BY Sizes
  <2> QED
    BY <2>1, <2>2 DEF Assembled
<1>6. n % Weight[Bytes] = n
  <2>1. PICK w \in Nat \ {0} : w = Weight[Bytes]
    BY <1>1, WeightIs
  <2>2. n % w = n
    BY <1>1, <2>1
  <2> QED
    BY <2>1, <2>2
<1>7. PICK w \in Nat \ {0} : w = Weight[i]
  BY WeightIs
<1>8. PICK q \in Nat, r \in 0 .. w - 1 : q = n \div w /\ r = n % w /\ n = w * q + r
  BY <1>1, DivMod
<1>9. PICK a \in 0 .. w - 1 : a = Assemble[i]
  BY <1>7, AssembleIs
<1>10. Assembled = w * q + a
  <2>1. w * q \in Nat
    OBVIOUS
  <2>2. Assembled \in Nat
    BY <1>1, <1>2 DEF Assembled
  <2>3. Assembled + r = a + n
    BY <1>5, <1>6, <1>7, <1>8, <1>9
  <2> QED
    BY <1>8, <1>9, <2>1, <2>2, <2>3
<1>11. (w * q + a) \div w = q
  BY DivUnique
<1> QED
  BY <1>7, <1>8, <1>9, <1>10, <1>11
-----------------------------------------------------------------------------
(* The invariant: the counter is odd, and each byte loaded is one the       *)
(* counter had since the access began.                                      *)

CounterOdd == os_timer_counter \in 1 .. MaxCounter /\ os_timer_counter % 2 = 1

LoadedMeanwhile ==
  /\ begun \in Nat
  /\ os_timer_counter \in Meanwhile
  /\ \A j \in loaded : \E m \in Meanwhile : m % 2 = 1 /\ copy[j] = ByteAt(m, j)

IInv ==
  /\ CounterOdd
  /\ start_value \in Nat
  /\ loaded \subseteq Positions
  /\ Copied
  /\ LoadedMeanwhile
  /\ StartNonZero

(* These are numbers between the two ends of the access so far. *)
LEMMA MeanwhileIs ==
  ASSUME CounterOdd, begun \in Nat
  PROVE  \A m \in Meanwhile : m \in Nat /\ begun <= m /\ m <= os_timer_counter
BY DEF Meanwhile, CounterOdd

(* The interrupt adds one of them. *)
LEMMA MeanwhileGrows ==
  ASSUME CounterOdd, begun \in Nat, begun' = begun, os_timer_counter \in Meanwhile,
         os_timer_counter' = os_timer_counter + OS_COUNTER_TIME
  PROVE  os_timer_counter' \in Meanwhile' /\ Meanwhile \subseteq Meanwhile'
<1>1. PICK c \in Nat, b \in Nat, t \in Nat \ {0} :
        c = os_timer_counter /\ b = begun /\ t = OS_COUNTER_TIME
  BY TornCounterAssumption DEF CounterOdd
<1>2. b <= c /\ c - b \in Nat /\ (c - b) % t = 0
  BY <1>1 DEF Meanwhile
<1>3. PICK q \in Nat : c - b = t * q + 0
  <2>1. (c - b) \div t \in Nat /\ c - b = t * ((c - b) \div t) + ((c - b) % t)
    BY <1>2, DivMod
  <2> QED
    BY <1>2, <2>1
<1>4. (c + t) - b = t * (q + 1) + 0
  <2>1. t * (q + 1) = t * q + t /\ t * q \in Nat
    OBVIOUS
  <2> QED
    BY <1>3, <2>1
<1>5. ((c + t) - b) % t = 0
  <2>1. q + 1 \in Nat /\ 0 \in 0 .. t - 1
    OBVIOUS
  <2>2. (t * (q + 1) + 0) % t = 0
    BY <2>1, DivUnique
  <2> QED
    BY <1>4, <2>2
<1>6. c + t \in b .. c + t /\ \A n \in b .. c : n \in b .. c + t
  BY <1>2
<1> QED
  BY <1>1, <1>5, <1>6 DEF Meanwhile

(* The lowest byte of an odd number is odd. *)
LEMMA OddByte ==
  ASSUME NEW n \in Nat, n % 2 = 1
  PROVE  n % Byte # 0
<1>1. PICK h \in Nat : Byte = 2 * h
  <2>1. Byte \in Nat /\ Byte % 2 = 0
    BY TornCounterAssumption
  <2>2. Byte \div 2 \in Nat /\ Byte = 2 * (Byte \div 2)
    BY <2>1
  <2> QED
    BY <2>2
<1>2. SUFFICES ASSUME n % Byte = 0 PROVE FALSE
  OBVIOUS
<1>3. PICK q \in Nat : n = Byte * q
  <2>1. n \div Byte \in Nat /\ n = Byte * (n \div Byte) + (n % Byte)
    BY Sizes, DivMod
  <2>2. Byte * (n \div Byte) \in Nat
    BY <2>1, Sizes
  <2> QED
    BY <1>2, <2>1, <2>2
<1>4. (2 * h) * q = 2 * (h * q) /\ h * q \in Nat
  OBVIOUS
<1>5. (2 * (h * q) + 0) % 2 = 0
  BY <1>4, DivUnique
<1> QED
  BY <1>1, <1>3, <1>4, <1>5

(* Whatever is read is not 0. *)
LEMMA AssembledNonZero ==
  ASSUME IInv, loaded = Positions
  PROVE  Assembled \in Nat \ {0}
<1>1. PICK m \in Nat : m % 2 = 1 /\ copy[0] = ByteAt(m, 0)
  <2>1. 0 \in loaded
    BY Sizes
  <2>2. \A m \in Meanwhile : m \in Nat
    BY MeanwhileIs DEF IInv, LoadedMeanwhile
  <2> QED
    BY <2>1, <2>2 DEF IInv, LoadedMeanwhile
<1>2. copy[0] \in Nat \ {0}
  <2>1. m \div 1 = m
    OBVIOUS
  <2>2. copy[0] = m % Byte
    BY <1>1, <2>1, WeightIs DEF ByteAt
  <2> QED
    BY <1>1, <2>2, Sizes, OddByte DEF IInv, Copied
<1> DEFINE S == {k \in 1 .. Bytes : Assemble[k] \in Nat \ {0}}
<1>3. 1 \in S
  <2>1. Assemble[1] = Assemble[0] + copy[0] * Weight[0] /\ Assemble[0] = 0 /\ Weight[0] = 1
    <3>1. 0 \in Positions /\ 0 + 1 = 1
      BY Sizes
    <3> QED
      BY <3>1, AssembleIs, WeightIs DEF IInv
  <2>2. 0 + copy[0] * 1 = copy[0]
    BY <1>2
  <2> QED
    BY <1>2, <2>1, <2>2, Sizes
<1>4. ASSUME NEW k \in 1 .. Bytes - 1, k \in S
      PROVE  k + 1 \in S
  <2>1. k \in Positions /\ k \in 0 .. Bytes /\ k + 1 \in 1 .. Bytes
    BY Sizes
  <2>2. PICK w \in Nat, b \in Nat : w = Weight[k] /\ b = copy[k]
    <3>1. Weight[k] \in Nat /\ copy[k] \in 0 .. Byte - 1
      BY <2>1, WeightIs DEF IInv, Copied
    <3> QED
      BY <3>1, Sizes
  <2>3. b * w \in Nat
    OBVIOUS
  <2>4. Assemble[k + 1] = Assemble[k] + b * w
    BY <2>1, <2>2, AssembleIs DEF IInv
  <2> QED
    BY <1>4, <2>1, <2>3, <2>4
<1>5. \A k \in 1 .. Bytes : k \in S
  <2> HIDE DEF S
  <2> QED
    BY <1>3, <1>4, Sizes, UpTo
<1> QED
  BY <1>5, Sizes DEF Assembled

(* It holds at first. *)
LEMMA InvInit == Init => IInv
<1> SUFFICES ASSUME Init PROVE IInv
  OBVIOUS
<1>1. CounterOdd
  BY TornCounterAssumption, WeightIs, Sizes DEF Init, CounterOdd
<1>2. Copied
  BY Sizes DEF Init, Copied
<1>3. LoadedMeanwhile
  <2>1. 1 \in 1 .. 1 /\ (1 - 1) % OS_COUNTER_TIME = 0
    BY TornCounterAssumption
  <2> QED
    BY <2>1 DEF Init, LoadedMeanwhile, Meanwhile
<1> QED
  BY <1>1, <1>2, <1>3 DEF Init, IInv, StartNonZero

(* The interrupt adds an even number; what was loaded is as it was. *)
LEMMA InvCount == IInv /\ os_timer_count => IInv'
<1> SUFFICES ASSUME IInv, os_timer_count PROVE IInv'
  OBVIOUS
<1>1. PICK c \in Nat, t \in Nat :
        /\ c = os_timer_counter /\ t = OS_COUNTER_TIME
        /\ os_timer_counter' = c + t /\ c + t <= MaxCounter /\ t % 2 = 0
  BY TornCounterAssumption DEF IInv, CounterOdd, os_timer_count
<1>2. CounterOdd'
  <2>1. (c + t) % 2 = 1 /\ c + t \in 1 .. MaxCounter
    BY <1>1, TornCounterAssumption DEF IInv, CounterOdd
  <2> QED
    BY <1>1, <2>1 DEF CounterOdd
<1>3. LoadedMeanwhile'
  <2>1. begun' = begun /\ loaded' = loaded /\ copy' = copy
    BY DEF os_timer_count, access
  <2>2. os_timer_counter' \in Meanwhile' /\ Meanwhile \subseteq Meanwhile'
    BY <2>1, MeanwhileGrows DEF IInv, LoadedMeanwhile, os_timer_count
  <2>3. \A j \in loaded : \E m \in Meanwhile' : m % 2 = 1 /\ copy[j] = ByteAt(m, j)
    BY <2>2 DEF IInv, LoadedMeanwhile
  <2> QED
    BY <2>1, <2>2, <2>3 DEF IInv, LoadedMeanwhile, ByteAt
<1> QED
  BY <1>2, <1>3 DEF IInv, os_timer_count, access, Copied, StartNonZero

(* An access begins with no byte loaded. *)
LEMMA InvBegins ==
  ASSUME IInv, NEW purpose, BeginAccess(purpose),
         os_timer_counter' = os_timer_counter, start_value' = start_value,
         purpose \notin {"running", "check"} \/ start_value # 0
  PROVE  IInv'
<1>1. Copied'
  BY Sizes DEF BeginAccess, Copied
<1>2. LoadedMeanwhile'
  <2>1. PICK c \in Nat : c = os_timer_counter
    BY DEF IInv, CounterOdd
  <2>2. c \in c .. c /\ (c - c) % OS_COUNTER_TIME = 0
    BY TornCounterAssumption
  <2> QED
    BY <2>1, <2>2 DEF BeginAccess, LoadedMeanwhile, Meanwhile
<1> QED
  BY <1>1, <1>2 DEF IInv, CounterOdd, BeginAccess, StartNonZero

(* A byte loaded is one the counter has now. *)
LEMMA InvLoad ==
  ASSUME IInv, NEW i \in Positions, LoadByte(i)
  PROVE  IInv'
<1>1. PICK c \in Nat : c = os_timer_counter /\ c % 2 = 1 /\ c \in Meanwhile
  BY DEF IInv, CounterOdd, LoadedMeanwhile
<1>2. ByteAt(c, i) \in 0 .. Byte - 1
  BY ByteAtIs
<1>3. /\ loaded' = loaded \cup {i} /\ copy' = [copy EXCEPT ![i] = ByteAt(c, i)]
      /\ i \notin loaded
      /\ os_timer_counter' = c /\ begun' = begun /\ start_value' = start_value /\ pc' = pc
  BY <1>1 DEF LoadByte
<1>4. Copied'
  BY <1>2, <1>3 DEF IInv, Copied
<1>5. copy'[i] = ByteAt(c, i) /\ \A j \in loaded : copy'[j] = copy[j]
  BY <1>3 DEF IInv, Copied
<1>6. \A j \in loaded : \E m \in Meanwhile : m % 2 = 1 /\ copy'[j] = ByteAt(m, j)
  BY <1>5 DEF IInv, LoadedMeanwhile
<1>7. \A j \in loaded \cup {i} : \E m \in Meanwhile : m % 2 = 1 /\ copy'[j] = ByteAt(m, j)
  BY <1>1, <1>5, <1>6
<1>8. Meanwhile' = Meanwhile
  BY <1>1, <1>3 DEF Meanwhile
<1>9. LoadedMeanwhile'
  BY <1>1, <1>3, <1>7, <1>8 DEF IInv, LoadedMeanwhile, ByteAt
<1> QED
  BY <1>1, <1>3, <1>4, <1>9 DEF IInv, CounterOdd, StartNonZero

(* Every step keeps the invariant. *)
LEMMA InvStep == IInv /\ [Next]_vars => IInv'
<1> SUFFICES ASSUME IInv, [Next]_vars PROVE IInv'
  OBVIOUS
<1>1. CASE os_timer_count
  BY <1>1, InvCount
<1>2. CASE BeginStart
  <2>1. BeginAccess("start") /\ os_timer_counter' = os_timer_counter /\ start_value' = start_value
    BY <1>2 DEF BeginStart
  <2> QED
    BY <2>1, InvBegins
<1>3. CASE BeginCheck
  <2>1. BeginAccess("check") /\ os_timer_counter' = os_timer_counter /\ start_value' = start_value
    BY <1>3 DEF BeginCheck
  <2>2. start_value # 0
    BY <1>3 DEF BeginCheck, IInv, StartNonZero
  <2> QED
    BY <2>1, <2>2, InvBegins
<1>4. CASE \E i \in Positions : LoadByte(i)
  BY <1>4, InvLoad
<1>5. CASE EndStart
  <2>1. Assembled \in Nat \ {0}
    BY <1>5, AssembledNonZero DEF EndStart
  <2> QED
    BY <1>5, <2>1 DEF EndStart, access, IInv, CounterOdd, Copied, LoadedMeanwhile,
                      Meanwhile, ByteAt, StartNonZero
<1>6. CASE EndCheck
  BY <1>6 DEF EndCheck, access, IInv, CounterOdd, Copied, LoadedMeanwhile,
                      Meanwhile, ByteAt, StartNonZero
<1>7. CASE UNCHANGED vars
  BY <1>7 DEF vars, access, IInv, CounterOdd, Copied, LoadedMeanwhile, Meanwhile,
                      ByteAt, StartNonZero
<1> QED
  BY <1>1, <1>2, <1>3, <1>4, <1>5, <1>6, <1>7 DEF Next, Loop

LEMMA InvCorrect == Spec => []IInv
BY InvInit, InvStep, PTL DEF Spec
-----------------------------------------------------------------------------
(***************************************************************************)
(* A started timer never looks stopped: os_timer_start never stores 0 in   *)
(* start_value, whatever ticks come between the bytes it loads.            *)
(***************************************************************************)
THEOREM StartNonZeroCorrect == Spec => []StartNonZero
<1>1. IInv => StartNonZero
  BY DEF IInv
<1> QED
  BY <1>1, InvCorrect, PTL

(* Where the byte above i did not change, no byte above it did, nor was     *)
(* another loaded.                                                          *)
LEMMA SameAbove ==
  ASSUME NEW m \in Nat, NEW n \in Nat, NEW i \in 0 .. Bytes,
         m \div Weight[i] = n \div Weight[i]
  PROVE  \A j \in Positions : i <= j => ByteAt(m, j) = ByteAt(n, j)
<1> DEFINE S == {k \in 0 .. Bytes : m \div Weight[k] = n \div Weight[k]}
<1>1. i \in S
  OBVIOUS
<1>2. ASSUME NEW k \in i .. Bytes - 1, k \in S
      PROVE  k + 1 \in S
  <2>1. k \in Positions /\ k + 1 \in 0 .. Bytes
    BY Sizes
  <2> QED
    BY <1>2, <2>1, ByteAtIs
<1>3. \A k \in i .. Bytes : k \in S
  <2> HIDE DEF S
  <2>1. i \in Nat /\ Bytes \in Nat
    BY Sizes
  <2> QED
    BY <1>1, <1>2, <2>1, UpTo
<1> SUFFICES ASSUME NEW j \in Positions, i <= j
             PROVE  ByteAt(m, j) = ByteAt(n, j)
  OBVIOUS
<1>4. j \in i .. Bytes
  BY Sizes
<1> QED
  BY <1>3, <1>4 DEF ByteAt

(* So the access reads the number the counter has, but for the bytes below. *)
LEMMA ReadAbove ==
  ASSUME IInv, loaded = Positions, NEW i \in 0 .. Bytes,
         begun \div Weight[i] = os_timer_counter \div Weight[i]
  PROVE  /\ Assembled = Weight[i] * (os_timer_counter \div Weight[i]) + Assemble[i]
         /\ Assembled \div Weight[i] = os_timer_counter \div Weight[i]
<1>1. PICK c \in 0 .. MaxCounter, b \in Nat : c = os_timer_counter /\ b = begun
  BY DEF IInv, CounterOdd, LoadedMeanwhile
<1>2. PICK w \in Nat \ {0} : w = Weight[i]
  BY WeightIs
<1>3. ASSUME NEW j \in Positions, i <= j
      PROVE  copy[j] = ByteAt(c, j)
  <2>1. PICK m \in Meanwhile : copy[j] = ByteAt(m, j)
    BY DEF IInv, LoadedMeanwhile
  <2>2. m \in Nat /\ c \in Nat /\ b <= m /\ m <= c
    BY <1>1, MeanwhileIs DEF IInv, LoadedMeanwhile
  <2>3. b \div w <= m \div w /\ m \div w <= c \div w /\ b \div w = c \div w
    BY <1>1, <1>2, <2>2, DivMonotone
  <2>4. m \div w = c \div w
    <3>1. b \div w \in Nat /\ m \div w \in Nat
      BY <2>2, DivMod
    <3> QED
      BY <2>3, <3>1
  <2> QED
    BY <1>2, <1>3, <2>1, <2>2, <2>4, SameAbove
<1> QED
  BY <1>1, <1>3, AgreeFrom DEF IInv

(***************************************************************************)
(* The value read in an access is off by less than the weight of the       *)
(* highest byte that a carry changed during it: not that far behind the    *)
(* beginning of the access, nor that far ahead of its end.                 *)
(***************************************************************************)
THEOREM OffByLessThanCarryCorrect == Spec => []OffByLessThanCarry
<1>1. IInv => OffByLessThanCarry
  <2> SUFFICES ASSUME IInv, loaded = Positions, NEW i \in Positions,
                      begun \div Weight[i + 1] = os_timer_counter \div Weight[i + 1]
               PROVE  /\ begun < Assembled + Weight[i]
                      /\ Assembled < os_timer_counter + Weight[i]
    BY DEF OffByLessThanCarry
  <2>1. PICK c \in Nat, b \in Nat : c = os_timer_counter /\ b = begun
    BY DEF IInv, CounterOdd, LoadedMeanwhile
  <2>2. i \in 0 .. Bytes /\ i + 1 \in 0 .. Bytes
    BY Sizes
  <2>3. PICK w \in Nat \ {0}, v \in Nat \ {0} : w = Weight[i] /\ v = Weight[i + 1]
    BY <2>2, WeightIs
  <2>4. PICK m \in Meanwhile : copy[i] = ByteAt(m, i)
    BY DEF IInv, LoadedMeanwhile
  <2>5. m \in Nat /\ b <= m /\ m <= c
    BY <2>1, MeanwhileIs DEF IInv, LoadedMeanwhile
  <2>6. m \div v = c \div v
    <3>1. b \div v <= m \div v /\ m \div v <= c \div v /\ b \div v = c \div v
      BY <2>1, <2>3, <2>5, DivMonotone
    <3>2. b \div v \in Nat /\ m \div v \in Nat
      BY <2>5, DivMod
    <3> QED
      BY <3>1, <3>2
  <2>7. PICK q \in Nat : q = m \div v /\ m = v * q + (m % v)
    BY <2>5, DivMod
  <2>8. PICK r \in 0 .. w - 1 : r = m % w
    BY <2>5, DivMod
  <2>9. PICK a \in 0 .. w - 1 : a = Assemble[i]
    BY <2>2, <2>3, AssembleIs DEF IInv
  <2>10. PICK x \in Nat : x = copy[i]
    BY Sizes DEF IInv, Copied
  <2>11. x * w \in Nat /\ v * q \in Nat
    OBVIOUS
  <2>12. m % v = r + x * w
    BY <2>3, <2>4, <2>5, <2>8, <2>10, ByteAtIs
  <2>13. Assembled = v * q + (a + x * w)
    <3>1. Assembled = v * (c \div v) + Assemble[i + 1]
      BY <2>1, <2>2, <2>3, ReadAbove
    <3>2. Assemble[i + 1] = a + x * w
      BY <2>3, <2>9, <2>10, AssembleIs DEF IInv
    <3> QED
      BY <2>6, <2>7, <3>1, <3>2
  <2>14. m = v * q + (r + x * w)
    BY <2>7, <2>12
  <2>15. b < Assembled + w /\ Assembled < c + w
    BY <2>5, <2>11, <2>13, <2>14
  <2> QED
    BY <2>1, <2>3, <2>15
<1> QED
  BY <1>1, InvCorrect, PTL

(***************************************************************************)
(* An access is exact to the tick if no carry left the lowest byte while   *)
(* it lasted: all bytes but that are those of any moment of it, and that   *)
(* was read at one.                                                        *)
(***************************************************************************)
THEOREM ExactWithoutCarryCorrect == Spec => []ExactWithoutCarry
<1>1. IInv => ExactWithoutCarry
  <2> SUFFICES ASSUME IInv, loaded = Positions,
                      begun \div Byte = os_timer_counter \div Byte
               PROVE  Assembled \in Meanwhile
    BY DEF ExactWithoutCarry
  <2>1. PICK c \in Nat, b \in Nat : c = os_timer_counter /\ b = begun
    BY DEF IInv, CounterOdd, LoadedMeanwhile
  <2>2. PICK m \in Meanwhile : copy[0] = ByteAt(m, 0)
    BY Sizes DEF IInv, LoadedMeanwhile
  <2>3. m \in Nat /\ b <= m /\ m <= c
    BY <2>1, MeanwhileIs DEF IInv, LoadedMeanwhile
  <2>4. m \div Byte = c \div Byte
    <3>1. b \div Byte <= m \div Byte /\ m \div Byte <= c \div Byte /\ b \div Byte = c \div Byte
      BY <2>1, <2>3, Sizes, DivMonotone
    <3>2. b \div Byte \in Nat /\ m \div Byte \in Nat
      BY <2>3, Sizes, DivMod
    <3> QED
      BY <3>1, <3>2
  <2>5. Assemble[1] = m % Byte
    <3>1. 0 \in Positions /\ 0 + 1 = 1 /\ Weight[0] = 1
      BY Sizes, WeightIs
    <3>2. Assemble[1] = Assemble[0] + copy[0] * 1 /\ Assemble[0] = 0
      BY <3>1, AssembleIs DEF IInv
    <3>3. m \div 1 = m
      BY <2>3
    <3>4. copy[0] = m % Byte /\ m % Byte \in 0 .. Byte - 1
      BY <2>2, <2>3, <3>1, <3>3, Sizes, DivMod DEF ByteAt
    <3> QED
      BY <3>2, <3>4, Sizes
  <2>6. Assembled = Byte * (c \div Byte) + Assemble[1]
    <3>1. 1 \in 0 .. Bytes /\ Weight[1] = Byte
      BY Sizes, WeightIs
    <3> QED
      BY <2>1, <3>1, ReadAbove
  <2>7. m = Byte * (m \div Byte) + (m % Byte)
    BY <2>3, Sizes, DivMod
  <2> QED
    BY <2>2, <2>4, <2>5, <2>6, <2>7
<1> QED
  BY <1>1, InvCorrect, PTL
=============================================================================
