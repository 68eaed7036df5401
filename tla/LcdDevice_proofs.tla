--------------------------- MODULE LcdDevice_proofs ---------------------------
(***************************************************************************)
(* Theorems about LcdDevice for any writers, texts and calls at a time, any *)
(* number of data pins, and any sizes of the buffer and the screen.        *)
(***************************************************************************)
EXTENDS LcdDevice, FiniteSetTheorems, SequenceTheorems, TLAPS

USE LcdAssumption

-----------------------------------------------------------------------------
(* Induction over the numbers, as a fact about sets: no theorem that takes an  *)
(* operator is needed.                                                         *)

\* The intervals 0 .. m with m in T have a smallest one.
LEMMA SmallestNumber == ASSUME NEW T \in SUBSET Nat, T # {}
                        PROVE  \E m \in T : \A k \in T : m <= k
<1> PICK n \in T : TRUE OBVIOUS
<1> DEFINE I == {0 .. m : m \in {k \in T : k <= n}}
<1>1. IsFiniteSet(0 .. n) BY FS_Interval
<1>2. I \subseteq SUBSET (0 .. n) OBVIOUS
<1>3. I # {} OBVIOUS
<1>4. IsWellFoundedOn(StrictSubsetOrdering(0..n), SUBSET (0 .. n))
  BY <1>1, FS_StrictSubsetOrderingWellFounded, FS_FiniteSubsetsOfFinite
<1>5. PICK x \in I : \A y \in I : ~(<<y, x>> \in StrictSubsetOrdering(0 .. n))
  <2> HIDE DEF I
  <2> QED BY <1>2, <1>3, <1>4, WFMin
<1>6. PICK m \in T : m <= n /\ x = 0 .. m OBVIOUS
<1>7. ASSUME NEW k \in T, k < m PROVE FALSE
  <2>1. (0 .. k) \in I BY <1>6, <1>7
  <2>2. (0 .. k) \subseteq x /\ (0 .. k) # x BY <1>6, <1>7
  <2>3. <<0 .. k, x>> \in StrictSubsetOrdering(0 .. n)
    BY <1>2, <2>1, <2>2 DEF StrictSubsetOrdering
  <2> QED BY <1>5, <2>1, <2>3
<1> QED BY <1>6, <1>7

\* So a set with 0 that is closed under the successor has all the numbers.
LEMMA Induction == ASSUME NEW T, 0 \in T, \A n \in Nat : n \in T => n + 1 \in T
                   PROVE  Nat \subseteq T
<1> SUFFICES ASSUME Nat \ T # {} PROVE FALSE OBVIOUS
<1>1. PICK m \in Nat \ T : \A k \in Nat \ T : m <= k BY SmallestNumber
<1>2. m # 0 /\ m - 1 \in Nat /\ m - 1 \in T BY <1>1
<1> QED BY <1>2

-----------------------------------------------------------------------------
(* Bytes and their bits *)

\* The powers of two are defined: what their recursion says has a solution.
LEMMA PowerIs == /\ Power \in [0 .. Width -> Nat \ {0}]
                 /\ Power[0] = 1
                 /\ \A k \in 0 .. Width - 1 : Power[k + 1] = 2 * Power[k]
<1> DEFINE Solves(p, n) == p[0] = 1 /\ \A k \in 1 .. n : p[k] = 2 * p[k - 1]
           T == {n \in Nat : \E p \in [0 .. n -> Nat \ {0}] : Solves(p, n)}
<1>1. 0 \in T
  <2> DEFINE p == [k \in 0 .. 0 |-> 1]
  <2>1. p \in [0 .. 0 -> Nat \ {0}] /\ Solves(p, 0) OBVIOUS
  <2> HIDE DEF p, Solves
  <2> QED BY <2>1
<1>2. ASSUME NEW n \in Nat, n \in T PROVE n + 1 \in T
  <2>1. PICK p \in [0 .. n -> Nat \ {0}] : Solves(p, n) BY <1>2
  <2> DEFINE q == [k \in 0 .. n + 1 |-> IF k <= n THEN p[k] ELSE 2 * p[n]]
  <2>2. q \in [0 .. n + 1 -> Nat \ {0}] BY <2>1
  <2>3. Solves(q, n + 1) BY <2>1
  <2> HIDE DEF q, Solves
  <2> QED BY <2>2, <2>3
<1>3. Width \in T
  <2> HIDE DEF T
  <2> QED BY <1>1, <1>2, Induction
<1>4. PICK p \in [0 .. Width -> Nat \ {0}] : Solves(p, Width) BY <1>3
<1> DEFINE R(f) == [k \in 0 .. Width |-> IF k = 0 THEN 1 ELSE 2 * f[k - 1]]
<1>5. p = R(p)
  <2>1. \A k \in 0 .. Width : p[k] = R(p)[k] BY <1>4
  <2> QED BY <2>1
<1>6. Power = CHOOSE f : f = R(f) BY DEF Power
<1>7. Power = R(Power) 
  <2> HIDE DEF R
  <2> QED BY <1>5, <1>6
<1>8. \A k \in 0 .. Width : Power[k] = IF k = 0 THEN 1 ELSE 2 * Power[k - 1] 
  <2>1. \A k \in 0 .. Width : R(Power)[k] = IF k = 0 THEN 1 ELSE 2 * Power[k - 1] OBVIOUS
  <2> HIDE DEF R
  <2> QED BY <1>7, <2>1
<1>9. Power[0] = 1 /\ \A k \in 0 .. Width - 1 : Power[k + 1] = 2 * Power[k] BY <1>8
<1> DEFINE P == {n \in Nat : n <= Width => Power[n] \in Nat \ {0}}
<1>10. Width \in Nat /\ Nat \subseteq P
  <2>1. 0 \in P BY <1>9
  <2>2. ASSUME NEW n \in Nat, n \in P PROVE n + 1 \in P BY <1>9, <2>2
  <2> HIDE DEF P
  <2> QED BY <2>1, <2>2, Induction
<1>11. \A k \in 0 .. Width : Power[k] \in Nat \ {0} BY <1>10
<1>12. Power = [k \in 0 .. Width |-> Power[k]] 
  <2>1. R(Power) = [k \in 0 .. Width |-> R(Power)[k]] OBVIOUS
  <2> HIDE DEF R
  <2> QED BY <1>7, <2>1
<1> QED BY <1>9, <1>11, <1>12

\* A number is twice its half, and its last bit.
LEMMA Halves == ASSUME NEW b \in Nat
                PROVE  /\ b \div 2 \in Nat /\ b % 2 \in {0, 1}
                       /\ b = 2 * (b \div 2) + (b % 2)
BY SMTT(30)

\* To divide by twice a number is to halve and then to divide by it.
LEMMA HalfDiv == ASSUME NEW b \in Nat, NEW d \in Nat \ {0}
                 PROVE  b \div (2 * d) = (b \div 2) \div d
BY SMTT(60)

\* The bits of a number are its last one, and those of its half.
LEMMA BitsOfHalf == ASSUME NEW b \in Nat
                    PROVE  /\ Bit(b, 0) = b % 2
                           /\ \A k \in 0 .. Width - 1 :
                                  k + 1 < Width => Bit(b, k + 1) = Bit(b \div 2, k)
<1>1. b \div 1 = b BY SMTT(30)
<1>2. Bit(b, 0) = b % 2 BY <1>1, PowerIs DEF Bit
<1>3. ASSUME NEW k \in 0 .. Width - 1, k + 1 < Width PROVE Bit(b, k + 1) = Bit(b \div 2, k)
  <2>1. Power[k + 1] = 2 * Power[k] /\ Power[k] \in Nat \ {0} BY PowerIs
  <2>2. b \div Power[k + 1] = (b \div 2) \div Power[k] BY <2>1, HalfDiv
  <2> QED BY <2>2 DEF Bit
<1> QED BY <1>2, <1>3

\* n bits are those of exactly one number below 1 << n.
LEMMA BitsAreByte ==
  ASSUME NEW n \in 0 .. Width, NEW f \in [0 .. n - 1 -> {0, 1}]
  PROVE  /\ \E b \in 0 .. Power[n] - 1 : \A k \in 0 .. n - 1 : Bit(b, k) = f[k]
         /\ \A b, c \in 0 .. Power[n] - 1 :
               (\A k \in 0 .. n - 1 : Bit(b, k) = f[k] /\ Bit(c, k) = f[k]) => b = c
<1> DEFINE One(m, g) == /\ \E b \in 0 .. Power[m] - 1 : \A k \in 0 .. m - 1 : Bit(b, k) = g[k]
                        /\ \A b, c \in 0 .. Power[m] - 1 :
                              (\A k \in 0 .. m - 1 : Bit(b, k) = g[k] /\ Bit(c, k) = g[k]) => b = c
           T == {m \in Nat : m <= Width => \A g \in [0 .. m - 1 -> {0, 1}] : One(m, g)}
<1>1. 0 \in T
  <2>1. 0 .. Power[0] - 1 = {0} BY PowerIs
  <2>2. \A g \in [0 .. -1 -> {0, 1}] : One(0, g) BY <2>1
  <2> HIDE DEF One
  <2> QED BY <2>2
<1>2. ASSUME NEW m \in Nat, m \in T PROVE m + 1 \in T
  <2> SUFFICES ASSUME m + 1 <= Width, NEW g \in [0 .. m -> {0, 1}] PROVE One(m + 1, g)
    BY SMTT(30)
  <2> DEFINE h == [k \in 0 .. m - 1 |-> g[k + 1]]
  <2>1. h \in [0 .. m - 1 -> {0, 1}] OBVIOUS
  <2>2. One(m, h)
    <3> HIDE DEF h, One
    <3> QED BY <1>2, <2>1
  <2>3. Power[m + 1] = 2 * Power[m] /\ Power[m] \in Nat \ {0} BY PowerIs
  <2>4. ASSUME NEW b \in 0 .. Power[m + 1] - 1
        PROVE  /\ b \div 2 \in 0 .. Power[m] - 1
               /\ b = 2 * (b \div 2) + Bit(b, 0)
               /\ \A k \in 0 .. m - 1 : Bit(b, k + 1) = Bit(b \div 2, k)
    <3>1. b \in Nat BY <2>3
    <3>2. /\ b \div 2 \in Nat /\ b % 2 \in {0, 1}
          /\ b = 2 * (b \div 2) + (b % 2)
      BY <3>1, Halves
    <3> DEFINE q == b \div 2
               e == b % 2
    <3>3. q \in 0 .. Power[m] - 1
      <4>1. q \in Nat /\ e \in {0, 1} /\ b = 2 * q + e BY <3>2
      <4>2. b <= 2 * Power[m] - 1 /\ Power[m] \in Nat BY <2>3
      <4> HIDE DEF q, e
      <4> QED BY <4>1, <4>2
    <3>4. Bit(b, 0) = b % 2 BY <3>1, BitsOfHalf
    <3>5. ASSUME NEW k \in 0 .. m - 1 PROVE Bit(b, k + 1) = Bit(b \div 2, k)
      <4>1. k \in 0 .. Width - 1 /\ k + 1 < Width OBVIOUS
      <4> QED BY <3>1, <4>1, BitsOfHalf
    <3> QED BY <3>2, <3>3, <3>4, <3>5
  <2>5. \E b \in 0 .. Power[m + 1] - 1 : \A k \in 0 .. m : Bit(b, k) = g[k]
    <3>1. PICK a \in 0 .. Power[m] - 1 : \A k \in 0 .. m - 1 : Bit(a, k) = h[k] BY <2>2
    <3> DEFINE b == 2 * a + g[0]
    <3>2. b \in 0 .. Power[m + 1] - 1 BY <2>3
    <3>3. b \div 2 = a /\ b % 2 = g[0]
      <4>1. a \in Nat /\ g[0] \in {0, 1} BY <2>3
      <4> QED BY <4>1, Halves
    <3>4. Bit(b, 0) = g[0] BY <2>3, <3>2, <3>3, BitsOfHalf
    <3>5. \A k \in 0 .. m - 1 : Bit(b, k + 1) = g[k + 1] BY <2>4, <3>1, <3>2, <3>3
    <3> HIDE DEF b
    <3>6. ASSUME NEW k \in 0 .. m PROVE Bit(b, k) = g[k]
      <4>1. CASE k = 0 BY <3>4, <4>1
      <4>2. CASE k # 0
        <5>1. k - 1 \in 0 .. m - 1 /\ (k - 1) + 1 = k BY <4>2
        <5> QED BY <3>5, <5>1
      <4> QED BY <4>1, <4>2
    <3> QED BY <3>2, <3>6
  <2>6. ASSUME NEW b \in 0 .. Power[m + 1] - 1, NEW c \in 0 .. Power[m + 1] - 1,
               \A k \in 0 .. m : Bit(b, k) = g[k] /\ Bit(c, k) = g[k]
        PROVE  b = c
    <3>1. \A k \in 0 .. m - 1 : Bit(b \div 2, k) = h[k] /\ Bit(c \div 2, k) = h[k] BY <2>4, <2>6
    <3>2. b \div 2 = c \div 2 BY <2>2, <2>4, <3>1
    <3>3. Bit(b, 0) = Bit(c, 0) BY <2>6
    <3> QED BY <2>4, <3>2, <3>3
  <2>7. (m + 1) - 1 = m OBVIOUS
  <2> QED BY <2>5, <2>6, <2>7
<1>3. n \in T
  <2> HIDE DEF T
  <2> QED BY <1>1, <1>2, Induction
<1> QED BY <1>3

\* The byte on the pins.
OnPins == CHOOSE b \in Bytes : \A k \in 0 .. Width - 1 : Bit(b, k) = D[k]

\* The pins always show a byte, and it is the one whose bits were put on them.
LEMMA PinsShowByte ==
  ASSUME D \in [0 .. Width - 1 -> {0, 1}]
  PROVE  /\ OnPins \in Bytes
         /\ \A b \in Bytes : (\A k \in 0 .. Width - 1 : Bit(b, k) = D[k]) => OnPins = b
<1>1. /\ \E b \in Bytes : \A k \in 0 .. Width - 1 : Bit(b, k) = D[k]
      /\ \A b, c \in Bytes :
            (\A k \in 0 .. Width - 1 : Bit(b, k) = D[k] /\ Bit(c, k) = D[k]) => b = c
  BY BitsAreByte DEF Bytes
<1>2. OnPins \in Bytes /\ \A k \in 0 .. Width - 1 : Bit(OnPins, k) = D[k]
  BY <1>1, Zenon DEF OnPins
<1> QED BY <1>1, <1>2, Zenon

-----------------------------------------------------------------------------
(* The invariant *)

SendPoints == {"select", "bits", "high", "low"}
Points == SendPoints \cup {"idle", "next", "return"}

Types ==
    /\ rs \in {0, 1} /\ enable \in {0, 1}
    /\ D \in [0 .. Width - 1 -> {0, 1}]
    /\ lcd_buffer \in [0 .. BufferSize - 1 -> Bytes]
    /\ phase \in {"init", "loaded", "exit", "gone"}
    /\ pc \in [Actors -> Points]
    /\ to_copy \in [Actors -> 0 .. BufferSize]
    /\ i \in [Actors -> Nat]
    /\ cmd \in [Actors -> [rs : {0, 1}, byte : Bytes]]
    /\ bit \in [Actors -> 0 .. Width]
    /\ text \in [Actors -> Seq(Bytes)]
    /\ shown \in Seq(Bytes)
    /\ garbled \in BOOLEAN /\ disturbed \in BOOLEAN

\* A call that sends has an instruction of the driver or a byte of data, and a pin
\* to go on with; the enable pin is high only between the two steps of a pulse.
SendInv ==
    /\ \A t \in Actors :
           /\ pc[t] \in SendPoints /\ cmd[t].rs = 0 =>
                  cmd[t].byte \in {FunctionSet, DisplayOn, Clear}
           /\ pc[t] = "bits" => bit[t] < Width
           /\ pc[t] \in {"idle", "next", "return", "select"} => bit[t] = 0
    /\ enable = 1 => \E t \in Actors : pc[t] = "low"

\* A call that nobody has come between has its byte on the pins, as far as it is.
PinsInv ==
    ~disturbed =>
        /\ \A t \in Busy, u \in Busy : t = u
        /\ \A t \in Actors :
               /\ pc[t] \in {"bits", "high", "low"} => rs = cmd[t].rs
               /\ pc[t] = "bits" => \A k \in 0 .. bit[t] - 1 : D[k] = Bit(cmd[t].byte, k)
               /\ pc[t] \in {"high", "low"} =>
                      \A k \in 0 .. Width - 1 : D[k] = Bit(cmd[t].byte, k)
               /\ pc[t] = "low" => enable = 1

\* The first n characters of the buffer are what is on the screen, up to its end.
Shows(n) == /\ Len(shown) = min(n, Cells)
            /\ \A k \in 1 .. min(n, Cells) : shown[k] = lcd_buffer[k - 1]

\* Such a write has its text in the buffer, and on the screen what it has sent since
\* it cleared it.
TextOf(t) ==
    /\ \A k \in 1 .. Len(text[t]) : lcd_buffer[k - 1] = text[t][k]
    /\ pc[t] \in SendPoints /\ i[t] = 0 => cmd[t] = Instruction(Clear)
    /\ pc[t] \in SendPoints /\ i[t] > 0 => cmd[t] = Data(lcd_buffer[i[t] - 1]) /\ Shows(i[t] - 1)
    /\ pc[t] = "next" => Shows(i[t])
    /\ pc[t] = "return" => i[t] = to_copy[t] /\ Shows(i[t])

TextInv ==
    \A t \in Writers : /\ i[t] <= to_copy[t] /\ Len(text[t]) <= to_copy[t]
                       /\ pc[t] # "idle" /\ ~disturbed => TextOf(t)

\* The loader's part.
LoaderInv ==
    /\ pc[Loader] \in SendPoints \cup {"idle", "next"}
    /\ i[Loader] <= Len(Startup)
    /\ phase \in {"exit", "gone"} => \A t \in Writers : pc[t] = "idle"
    /\ phase = "loaded" => pc[Loader] = "idle"

IInv == Types /\ SendInv /\ PinsInv /\ TextInv /\ LoaderInv

USE DEF Actors, Instruction, Data

\* Before insmod nobody sends and the screen is empty.
LEMMA InitInv == Init => IInv
<1> SUFFICES ASSUME Init PROVE IInv OBVIOUS
<1>1. 0 \in Bytes /\ Bytes \subseteq Nat
  <2>1. Power[Width] \in Nat \ {0} BY PowerIs
  <2> QED BY <2>1 DEF Bytes
<1>2. Types
  <2>1. cmd \in [Actors -> [rs : {0, 1}, byte : Bytes]] BY <1>1 DEF Init
  <2>2. text \in [Actors -> Seq(Bytes)] /\ shown \in Seq(Bytes) BY DEF Init
  <2>3. lcd_buffer \in [0 .. BufferSize - 1 -> Bytes] BY <1>1 DEF Init
  <2>4. /\ to_copy \in [Actors -> 0 .. BufferSize] /\ i \in [Actors -> Nat]
        /\ bit \in [Actors -> 0 .. Width] /\ pc \in [Actors -> Points]
    BY SMTT(30) DEF Init, Points, SendPoints
  <2>5. D \in [0 .. Width - 1 -> {0, 1}] BY DEF Init
  <2> QED BY <2>1, <2>2, <2>3, <2>4, <2>5 DEF Init, Types
<1>3. SendInv BY SMTT(30) DEF Init, SendInv, SendPoints
<1>4. PinsInv BY SMTT(30) DEF Init, PinsInv, Busy
<1>5. TextInv BY SMTT(30) DEF Init, TextInv, SendPoints, Shows
<1>6. LoaderInv BY SMTT(30) DEF Init, LoaderInv, SendPoints, Startup
<1> QED BY <1>2, <1>3, <1>4, <1>5, <1>6 DEF IInv

\* A step that moves a call on among its pins, or another call, changes nothing here.
LEMMA SameText == ASSUME TextInv, UNCHANGED <<i, to_copy, text, lcd_buffer, shown, disturbed>>,
                         \A u \in Writers : \/ pc'[u] = pc[u] /\ cmd'[u] = cmd[u]
                                            \/ pc'[u] \in SendPoints /\ pc[u] \in SendPoints
                                               /\ cmd'[u] = cmd[u]
                  PROVE  TextInv'
<1> SUFFICES ASSUME NEW u \in Writers
             PROVE  /\ i'[u] <= to_copy'[u] /\ Len(text'[u]) <= to_copy'[u]
                    /\ pc'[u] # "idle" /\ ~disturbed' => TextOf(u)'
  BY DEF TextInv
<1>1. Shows(i[u])' = Shows(i[u]) /\ Shows(i[u] - 1)' = Shows(i[u] - 1) BY DEF Shows
<1> QED BY <1>1 DEF TextInv, TextOf, SendPoints

\* A step of somebody else is none here.
LEMMA StutterInv == IInv /\ UNCHANGED vars => IInv'
<1> SUFFICES ASSUME IInv, UNCHANGED vars PROVE IInv' OBVIOUS
<1> USE DEF vars, pins, call, screen, IInv
<1>1. Types' /\ SendInv' BY DEF Types, SendInv
<1>2. PinsInv' BY DEF PinsInv, Busy
<1>3. TextInv' BY SameText
<1>4. LoaderInv' BY DEF LoaderInv
<1> QED BY <1>1, <1>2, <1>3, <1>4

\* lcd_instruction and lcd_data: the select pin tells which of the two is sent.
LEMMA SelectInv == ASSUME NEW t \in Actors, IInv, Select(t) PROVE IInv'
<1> USE DEF Select, Goto, call, screen, IInv, Points, SendPoints
<1>0. cmd[t].rs \in {0, 1} BY DEF Types
<1>1. Types' BY <1>0, SMTT(30) DEF Types
<1>2. SendInv' BY SMTT(30) DEF Types, SendInv
<1>3. PinsInv'
  <2>1. /\ pc'[t] = "bits" /\ pc[t] = "select" /\ bit[t] = 0 /\ rs' = cmd[t].rs
        /\ \A u \in Actors : u # t => pc'[u] = pc[u]
    BY DEF Types, SendInv
  <2>2. Busy' = Busy /\ t \in Busy BY <2>1 DEF Busy
  <2>3. SUFFICES ASSUME ~disturbed PROVE PinsInv' BY DEF PinsInv
  <2>4. \A u \in Actors : u # t => pc'[u] = "idle"
    <3>1. \A u \in Busy : u = t BY <2>2, <2>3 DEF PinsInv
    <3> QED BY <2>2, <3>1 DEF Busy
  <2> QED BY <2>1, <2>2, <2>4 DEF PinsInv
<1>4. TextInv' BY SameText, SMTT(30) DEF Types
<1>5. LoaderInv' BY SMTT(30) DEF Types, LoaderInv
<1> QED BY <1>1, <1>2, <1>3, <1>4, <1>5 DEF IInv

\* The value of a pin is 0 or 1.
LEMMA BitType == ASSUME NEW b \in Bytes, NEW k \in 0 .. Width - 1 PROVE Bit(b, k) \in {0, 1}
<1>1. b \in Nat /\ Power[k] \in Nat \ {0} BY PowerIs DEF Bytes
<1>2. b \div Power[k] \in Nat BY <1>1, SMTT(30)
<1> DEFINE q == b \div Power[k]
<1>3. q % 2 \in {0, 1}
  <2>1. q \in Nat BY <1>2
  <2> HIDE DEF q
  <2> QED BY <2>1
<1> QED BY <1>3 DEF Bit

\* lcd_send_byte: the pins below the next one show the bits of the byte.
LEMMA SendBitInv == ASSUME NEW t \in Actors, IInv, SendBit(t) PROVE IInv'
<1> USE DEF SendBit, Goto, call, screen, IInv, Points, SendPoints
<1>0. Bit(cmd[t].byte, bit[t]) \in {0, 1} BY BitType DEF Types, SendInv
<1>1. Types' BY <1>0, SMTT(30) DEF Types, SendInv
<1>2. SendInv' BY SMTT(30) DEF Types, SendInv
<1>3. PinsInv'
  <2> SUFFICES ASSUME ~disturbed PROVE PinsInv' BY DEF PinsInv
  <2>1. Busy' = Busy /\ t \in Busy BY DEF Busy, Types
  <2>2. \A u \in Busy : u = t BY <2>1 DEF PinsInv
  <2>3. \A u \in Actors : u # t => pc'[u] = "idle" BY <2>1, <2>2 DEF Busy
  <2>4. rs' = cmd'[t].rs /\ bit'[t] = bit[t] + 1 /\ bit[t] \in 0 .. Width - 1
    BY DEF PinsInv, Types, SendInv
  <2>5. ASSUME NEW k \in 0 .. bit[t] PROVE D'[k] = Bit(cmd'[t].byte, k)
    <3>1. k \in 0 .. Width - 1 /\ D \in [0 .. Width - 1 -> {0, 1}] BY <2>4 DEF Types
    <3>2. CASE k = bit[t] BY <3>1, <3>2
    <3>3. CASE k # bit[t]
      <4>1. k \in 0 .. bit[t] - 1 BY <2>4, <3>3
      <4>2. D[k] = Bit(cmd[t].byte, k) BY <4>1 DEF PinsInv
      <4> QED BY <3>1, <3>3, <4>2
    <3> QED BY <3>2, <3>3
  <2>6. pc'[t] = IF bit[t] + 1 < Width THEN "bits" ELSE "high" BY <2>4 DEF Types
  <2>7. \A u, v \in Busy' : u = v BY <2>1, <2>2
  <2>8. \A k \in 0 .. bit'[t] - 1 : D'[k] = Bit(cmd'[t].byte, k) BY <2>4, <2>5
  <2>9. bit[t] + 1 < Width \/ bit[t] + 1 = Width BY <2>4
  <2>10. pc'[t] # "bits" => \A k \in 0 .. Width - 1 : D'[k] = Bit(cmd'[t].byte, k)
    BY <2>4, <2>6, <2>8, <2>9
  <2> QED BY <2>3, <2>4, <2>6, <2>7, <2>8, <2>10 DEF PinsInv
<1>4. TextInv' BY SameText, SMTT(30) DEF Types
<1>5. LoaderInv' BY SMTT(30) DEF Types, LoaderInv
<1> QED BY <1>1, <1>2, <1>3, <1>4, <1>5 DEF IInv

\* lcd_enable, the rising edge: the screen takes nothing yet.
LEMMA HighInv == ASSUME NEW t \in Actors, IInv, EnableHigh(t) PROVE IInv'
<1> USE DEF EnableHigh, Goto, call, screen, IInv, Points, SendPoints
<1>1. Types' BY SMTT(30) DEF Types
<1>2. SendInv' BY SMTT(30) DEF Types, SendInv
<1>3. PinsInv' BY SMTT(30) DEF Types, PinsInv, SendInv, Busy
<1>4. TextInv' BY SameText, SMTT(30) DEF Types
<1>5. LoaderInv' BY SMTT(30) DEF Types, LoaderInv
<1> QED BY <1>1, <1>2, <1>3, <1>4, <1>5 DEF IInv

\* A byte that is sent undisturbed is the one that is latched.
LEMMA LatchedAlone == ASSUME NEW t \in Actors, IInv, pc[t] = "low", ~disturbed
                      PROVE  OnPins = cmd[t].byte /\ rs = cmd[t].rs
BY PinsShowByte DEF IInv, Types, PinsInv

\* The screen takes the byte on its pins.
LEMMA LatchIs == Latch <=> 
   /\ shown' = IF rs = 1 THEN SubSeq(Append(shown, OnPins), 1, min(Len(shown) + 1, Cells))
               ELSE IF OnPins = Clear THEN <<>> ELSE shown
   /\ garbled' = (garbled \/ (rs = 0 /\ OnPins \notin {FunctionSet, DisplayOn, Clear}))
BY DEF Latch, OnPins

\* Whatever is latched, the screen shows bytes, and as many as it has room for.
LEMMA LatchShows == ASSUME Types, Latch PROVE shown' \in Seq(Bytes) /\ garbled' \in BOOLEAN
<1>1. OnPins \in Bytes BY PinsShowByte DEF Types
<1>2. shown \in Seq(Bytes) /\ Len(shown) \in Nat BY DEF Types
<1>3. Append(shown, OnPins) \in Seq(Bytes) /\ Len(Append(shown, OnPins)) = Len(shown) + 1
  BY <1>1, <1>2
<1>4. min(Len(shown) + 1, Cells) \in 0 .. Len(shown) + 1 BY <1>2 DEF min
<1>5. SubSeq(Append(shown, OnPins), 1, min(Len(shown) + 1, Cells)) \in Seq(Bytes)
  BY <1>3, <1>4, SubSeqProperties
<1>6. <<>> \in Seq(Bytes) OBVIOUS
<1>7. shown' \in Seq(Bytes) BY <1>2, <1>5, <1>6, LatchIs, Zenon
<1>8. garbled' \in BOOLEAN BY LatchIs, Zenon
<1> QED BY <1>7, <1>8

\* A character is added to those on the screen if there is room for it.
LEMMA LatchAdds == ASSUME Types, Latch, rs = 1, Len(shown) <= Cells
                   PROVE  /\ Len(shown') = min(Len(shown) + 1, Cells)
                          /\ Len(shown) < Cells => shown'[Len(shown) + 1] = OnPins
                          /\ \A k \in 1 .. Len(shown) : shown'[k] = shown[k]
<1>1. OnPins \in Bytes BY PinsShowByte DEF Types
<1>2. shown \in Seq(Bytes) /\ Len(shown) \in Nat BY DEF Types
<1>3. /\ Append(shown, OnPins) \in Seq(Bytes)
      /\ Len(Append(shown, OnPins)) = Len(shown) + 1
      /\ Append(shown, OnPins)[Len(shown) + 1] = OnPins
      /\ \A k \in 1 .. Len(shown) : Append(shown, OnPins)[k] = shown[k]
  BY <1>1, <1>2
<1> DEFINE n == min(Len(shown) + 1, Cells)
<1>4. n \in 0 .. Len(shown) + 1 /\ n >= Len(shown) /\ (Len(shown) < Cells => n = Len(shown) + 1)
  BY <1>2 DEF min
<1>5. shown' = SubSeq(Append(shown, OnPins), 1, n) BY LatchIs
<1> HIDE DEF n
<1>6. Len(shown') = n /\ \A k \in 1 .. n : shown'[k] = Append(shown, OnPins)[k]
  BY <1>3, <1>4, <1>5, SubSeqProperties
<1>7. \A k \in 1 .. Len(shown) : shown'[k] = shown[k] BY <1>2, <1>3, <1>4, <1>6
<1>8. Len(shown) < Cells => shown'[Len(shown) + 1] = OnPins BY <1>2, <1>3, <1>4, <1>6
<1> QED BY <1>6, <1>7, <1>8 DEF n

\* lcd_enable, the falling edge: the screen takes what is on the pins.
LEMMA LowInv == ASSUME NEW t \in Actors, IInv, EnableLow(t) PROVE IInv'
<1> USE DEF EnableLow, Goto, call, IInv, Points, SendPoints
<1>0. 0 \in Bytes BY PowerIs DEF Bytes
<1>1. shown' \in Seq(Bytes) /\ garbled' \in BOOLEAN BY LatchShows DEF Types, screen
<1>2. Types' BY <1>0, <1>1, SMTT(30) DEF Types
<1>3. SendInv' BY SMTT(30) DEF Types, SendInv
<1>4. PinsInv' BY SMTT(30) DEF Types, PinsInv, SendInv, Busy
<1>5. TextInv'
  <2> SUFFICES ASSUME NEW u \in Writers
               PROVE  /\ i'[u] <= to_copy'[u] /\ Len(text'[u]) <= to_copy'[u]
                      /\ pc'[u] # "idle" /\ ~disturbed' => TextOf(u)'
    BY DEF TextInv
  <2>1. i'[u] <= to_copy'[u] /\ Len(text'[u]) <= to_copy'[u] BY DEF TextInv
  <2>2. SUFFICES ASSUME pc'[u] # "idle", ~disturbed PROVE TextOf(u)' BY <2>1
  <2>3. u = t BY <2>2 DEF PinsInv, Busy, Types
  <2>4. enable = 1 /\ OnPins = cmd[u].byte /\ rs = cmd[u].rs
    BY <2>2, <2>3, LatchedAlone DEF PinsInv
  <2>5. pc'[u] = "next" /\ TextOf(u) BY <2>2, <2>3 DEF TextInv, Types
  <2>6. Shows(i[u])'
    <3>1. CASE i[u] = 0
      <4>1. cmd[u] = Instruction(Clear) BY <2>3, <2>5, <3>1 DEF TextOf
      <4>2. shown' = <<>> BY <2>3, <2>4, <4>1, LatchIs
      <4> QED BY <3>1, <4>2 DEF Shows, min
    <3>2. CASE i[u] # 0
      <4>1. i[u] \in Nat /\ i[u] > 0 /\ i[u] <= BufferSize BY <3>2 DEF Types, TextInv
      <4>2. cmd[u] = Data(lcd_buffer[i[u] - 1]) /\ Shows(i[u] - 1) BY <2>3, <2>5, <4>1 DEF TextOf
      <4>3. rs = 1 /\ OnPins = lcd_buffer[i[u] - 1] BY <2>4, <4>2
      <4>4. Len(shown) = min(i[u] - 1, Cells) /\ Len(shown) <= Cells
        BY <4>1, <4>2 DEF Shows, min
      <4>5. /\ Len(shown') = min(Len(shown) + 1, Cells)
            /\ Len(shown) < Cells => shown'[Len(shown) + 1] = OnPins
            /\ \A k \in 1 .. Len(shown) : shown'[k] = shown[k]
        BY <2>3, <2>4, <4>3, <4>4, LatchAdds
      <4>6. Len(shown') = min(i[u], Cells) BY <4>1, <4>4, <4>5 DEF min
      <4>7. ASSUME NEW k \in 1 .. min(i[u], Cells) PROVE shown'[k] = lcd_buffer[k - 1]
        <5>1. k \in 1 .. i[u] /\ k <= Cells BY <4>1 DEF min
        <5>2. CASE k = i[u]
          <6>1. Len(shown) = k - 1 /\ Len(shown) < Cells BY <4>1, <4>4, <5>1, <5>2 DEF min
          <6>2. shown'[Len(shown) + 1] = lcd_buffer[k - 1] BY <4>3, <4>5, <5>2, <6>1
          <6>3. Len(shown) + 1 = k BY <5>1, <6>1
          <6> QED BY <6>2, <6>3
        <5>3. CASE k # i[u]
          <6>1. k \in 1 .. min(i[u] - 1, Cells) BY <4>1, <5>1, <5>3 DEF min
          <6> QED BY <4>2, <4>4, <4>5, <6>1 DEF Shows
        <5> QED BY <5>2, <5>3
      <4> QED BY <4>6, <4>7 DEF Shows
    <3> QED BY <3>1, <3>2
  <2> QED BY <2>5, <2>6 DEF TextOf
<1>6. LoaderInv' BY SMTT(30) DEF Types, LoaderInv
<1> QED BY <1>2, <1>3, <1>4, <1>5, <1>6 DEF IInv

\* So every step of lcd_send keeps the invariant.
LEMMA SendStep == ASSUME NEW t \in Actors, IInv, lcd_send(t) PROVE IInv'
BY SelectInv, SendBitInv, HighInv, LowInv DEF lcd_send

\* A writer's step leaves the loader's part alone.
LEMMA LoaderApart ==
    ASSUME LoaderInv, NEW t \in Writers, UNCHANGED <<phase, i[Loader]>>,
           pc[t] # "idle" \/ phase \in {"init", "loaded"},
           \A u \in Actors : u # t => pc'[u] = pc[u]
    PROVE  LoaderInv'
<1>1. Loader # t /\ pc'[Loader] = pc[Loader] OBVIOUS
<1>2. phase \notin {"exit", "gone"} BY DEF LoaderInv
<1> QED BY <1>1, <1>2 DEF LoaderInv

\* driver_write copies the text and sends the instruction to clear the screen,
LEMMA BeginInv == ASSUME NEW t \in Writers, NEW m \in Texts, NEW n \in 0 .. Len(m), IInv,
                         WriteBegin(t, m, n)
                  PROVE  IInv'
<1> USE DEF WriteBegin, Send, Goto, pins, screen, IInv, Points, SendPoints
<1> DEFINE len == min(Len(m), BufferSize)
<1>1. /\ m \in Seq(Bytes) /\ Len(m) \in Nat
      /\ len \in 0 .. BufferSize /\ len <= Len(m) /\ n <= len
      /\ 0 \in Bytes
  BY PowerIs DEF min, Bytes
<1>2. SubSeq(m, 1, n) \in Seq(Bytes) /\ Len(SubSeq(m, 1, n)) = n
      /\ \A k \in 1 .. n : SubSeq(m, 1, n)[k] = m[k]
  BY <1>1, SubSeqProperties
<1>3. lcd_buffer' \in [0 .. BufferSize - 1 -> Bytes]
      /\ \A k \in 0 .. n - 1 : lcd_buffer'[k] = m[k + 1]
  <2>0. DOMAIN lcd_buffer = 0 .. BufferSize - 1 /\ n \in Nat /\ n <= BufferSize
    BY <1>1, SMTT(30) DEF Types
  <2> HIDE DEF len
  <2>1. \A k \in 0 .. n - 1 : k \in DOMAIN lcd_buffer BY <2>0
  <2>2. \A k \in 1 .. n : m[k] \in Bytes BY <1>1
  <2>3. \A k \in 0 .. n - 1 : lcd_buffer'[k] = m[k + 1] BY <2>1
  <2>4. \A k \in DOMAIN lcd_buffer : k < n => k + 1 \in 1 .. n BY <2>0
  <2> QED BY <1>1, <2>2, <2>3, <2>4 DEF Types
<1> HIDE DEF len
<1>4. Types'
  <2>1. to_copy' \in [Actors -> 0 .. BufferSize] /\ text' \in [Actors -> Seq(Bytes)]
    BY <1>1, <1>2 DEF Types, len
  <2>2. cmd' \in [Actors -> [rs : {0, 1}, byte : Bytes]] BY DEF Types
  <2>3. disturbed' \in BOOLEAN BY Zenon
  <2>4. i' \in [Actors -> Nat] /\ pc' \in [Actors -> Points] BY DEF Types
  <2> QED BY <1>3, <2>1, <2>2, <2>3, <2>4 DEF Types
<1>5. SendInv' BY SMTT(30) DEF Types, SendInv
<1>6. PinsInv'
  <2> SUFFICES ASSUME Busy = {} PROVE PinsInv' BY Zenon DEF PinsInv
  <2>1. \A u \in Actors : u # t => pc'[u] = "idle" BY DEF Busy, Types
  <2>2. pc'[t] = "select" BY DEF Types
  <2> QED BY <2>1, <2>2 DEF PinsInv, Busy
<1>7. TextInv'
  <2> SUFFICES ASSUME NEW u \in Writers
               PROVE  /\ i'[u] <= to_copy'[u] /\ Len(text'[u]) <= to_copy'[u]
                      /\ pc'[u] # "idle" /\ ~disturbed' => TextOf(u)'
    BY DEF TextInv
  <2>1. CASE u # t
    <3>1. UNCHANGED <<i[u], to_copy[u], text[u], pc[u]>> BY <2>1 DEF Types
    <3>2. pc[u] # "idle" => disturbed' BY DEF Busy
    <3> QED BY <3>1, <3>2 DEF TextInv
  <2>2. CASE u = t
    <3>1. /\ i'[u] = 0 /\ to_copy'[u] = len /\ text'[u] = SubSeq(m, 1, n)
          /\ pc'[u] = "select" /\ cmd'[u] = Instruction(Clear)
      BY <2>2 DEF Types, len
    <3>2. \A k \in 1 .. n : k - 1 \in 0 .. n - 1 /\ (k - 1) + 1 = k OBVIOUS
    <3> QED BY <1>1, <1>2, <1>3, <3>1, <3>2 DEF TextOf
  <2> QED BY <2>1, <2>2
<1>8. LoaderInv'
  <2>1. i'[Loader] = i[Loader] /\ \A u \in Actors : u # t => pc'[u] = pc[u] BY DEF Types
  <2>2. phase' = phase /\ (pc[t] # "idle" \/ phase \in {"init", "loaded"}) OBVIOUS
  <2> QED BY <2>1, <2>2, LoaderApart
<1> QED BY <1>4, <1>5, <1>6, <1>7, <1>8

\* goes on with the next byte of the buffer as long as there is one,
LEMMA NextInv == ASSUME NEW t \in Writers, IInv, WriteNext(t) PROVE IInv'
<1> USE DEF WriteNext, Send, Goto, pins, screen, IInv, Points, SendPoints
<1>1. i[t] \in Nat /\ i[t] <= to_copy[t] /\ to_copy[t] \in 0 .. BufferSize
  BY DEF Types, TextInv
<1>2. i[t] < to_copy[t] => lcd_buffer[i[t]] \in Bytes BY <1>1 DEF Types
<1>3. Types'
  <2>1. CASE i[t] < to_copy[t]
    <3>1. Data(lcd_buffer[i[t]]) \in [rs : {0, 1}, byte : Bytes] BY <1>2, <2>1
    <3>2. cmd' = [cmd EXCEPT ![t] = Data(lcd_buffer[i[t]])] BY <1>1, <2>1
    <3>3. cmd' \in [Actors -> [rs : {0, 1}, byte : Bytes]]
      <4> HIDE DEF Data
      <4> QED BY <3>1, <3>2 DEF Types
    <3>4. i' = [i EXCEPT ![t] = i[t] + 1] /\ pc' = [pc EXCEPT ![t] = "select"] BY <1>1, <2>1
    <3>5. i' \in [Actors -> Nat] /\ pc' \in [Actors -> Points] BY <1>1, <3>4 DEF Types
    <3> QED BY <3>3, <3>5 DEF Types
  <2>2. CASE ~(i[t] < to_copy[t]) BY <1>1, <2>2 DEF Types
  <2> QED BY <2>1, <2>2
<1>4. SendInv'
  <2>1. /\ enable' = enable /\ bit' = bit /\ pc[t] = "next"
        /\ pc' = [pc EXCEPT ![t] = pc'[t]] /\ pc'[t] \in {"select", "return"}
    BY DEF Types
  <2>2. pc'[t] = "select" => cmd'[t].rs = 1
    <3>1. CASE i[t] < to_copy[t] BY <1>1, <3>1 DEF Types
    <3>2. CASE ~(i[t] < to_copy[t]) BY <1>1, <3>2 DEF Types
    <3> QED BY <3>1, <3>2
  <2>3. \A u \in Actors : u # t => cmd'[u] = cmd[u] /\ pc'[u] = pc[u] BY DEF Types
  <2> HIDE DEF WriteNext
  <2> QED BY <2>1, <2>2, <2>3 DEF SendInv
<1>5. PinsInv'
  <2> SUFFICES ASSUME ~disturbed PROVE PinsInv' BY DEF PinsInv
  <2>1. Busy' = Busy /\ t \in Busy BY DEF Busy, Types
  <2>2. pc'[t] \in {"select", "return"} /\ \A u \in Actors : u # t => pc'[u] = "idle"
    BY DEF PinsInv, Busy, Types
  <2> QED BY <2>1, <2>2 DEF PinsInv
<1>6. TextInv'
  <2> SUFFICES ASSUME NEW u \in Writers
               PROVE  /\ i'[u] <= to_copy'[u] /\ Len(text'[u]) <= to_copy'[u]
                      /\ pc'[u] # "idle" /\ ~disturbed' => TextOf(u)'
    BY DEF TextInv
  <2>1. i'[u] <= to_copy'[u] /\ Len(text'[u]) <= to_copy'[u]
    <3>1. CASE u = t BY <1>1, <3>1 DEF TextInv, Types
    <3>2. CASE u # t
      <4>1. i'[u] = i[u] BY <3>2 DEF Types
      <4> QED BY <4>1 DEF TextInv
    <3> QED BY <3>1, <3>2
  <2>2. SUFFICES ASSUME pc'[u] # "idle", ~disturbed PROVE TextOf(u)' BY <2>1
  <2>3. u = t BY <2>2 DEF PinsInv, Busy, Types
  <2>4. TextOf(u) /\ pc[u] = "next" BY <2>2, <2>3 DEF TextInv
  <2>5. \A j : Shows(j)' = Shows(j) BY DEF Shows
  <2>6. CASE i[t] < to_copy[t]
    <3>1. /\ pc'[u] = "select" /\ cmd'[u] = Data(lcd_buffer[i[u]]) /\ i'[u] = i[u] + 1
          /\ UNCHANGED <<text, lcd_buffer>>
      BY <2>3, <2>6 DEF Types
    <3>2. i'[u] - 1 = i[u] /\ i'[u] # 0 BY <1>1, <2>3, <3>1
    <3>3. Shows(i[u]) /\ \A k \in 1 .. Len(text[u]) : lcd_buffer[k - 1] = text[u][k]
      BY <2>4 DEF TextOf
    <3>4. Shows(i[u] - 1)' BY <2>5, <3>2, <3>3
    <3> QED BY <3>1, <3>2, <3>3, <3>4 DEF TextOf
  <2>7. CASE ~(i[t] < to_copy[t])
    <3>1. pc'[u] = "return" /\ UNCHANGED <<i, to_copy, text, lcd_buffer>> BY <2>3, <2>7 DEF Types
    <3>2. i[u] = to_copy[u] BY <1>1, <2>3, <2>7
    <3>3. Shows(i[u])' BY <2>4, <2>5, <3>1 DEF TextOf
    <3> QED BY <2>4, <3>1, <3>2, <3>3 DEF TextOf
  <2> QED BY <2>6, <2>7
<1>7. LoaderInv'
  <2>1. i'[Loader] = i[Loader] /\ \A u \in Actors : u # t => pc'[u] = pc[u] BY DEF Types
  <2>2. phase' = phase /\ (pc[t] # "idle" \/ phase \in {"init", "loaded"}) OBVIOUS
  <2> QED BY <2>1, <2>2, LoaderApart
<1> QED BY <1>3, <1>4, <1>5, <1>6, <1>7

\* and returns.
LEMMA ReturnInv == ASSUME NEW t \in Writers, IInv, WriteReturn(t) PROVE IInv'
<1> USE DEF WriteReturn, Goto, pins, screen, IInv, Points, SendPoints
<1>1. Types'
  <2>1. text' \in [Actors -> Seq(Bytes)] BY DEF Types
  <2> QED BY <2>1, SMTT(30) DEF Types
<1>2. SendInv' BY SMTT(30) DEF Types, SendInv
<1>3. PinsInv' BY SMTT(30) DEF Types, PinsInv, SendInv, Busy
<1>4. TextInv'
  <2> SUFFICES ASSUME NEW u \in Writers
               PROVE  /\ i'[u] <= to_copy'[u] /\ Len(text'[u]) <= to_copy'[u]
                      /\ pc'[u] # "idle" /\ ~disturbed' => TextOf(u)'
    BY DEF TextInv
  <2>1. CASE u # t
    <3>1. UNCHANGED <<i[u], to_copy[u], text[u], pc[u], cmd[u], lcd_buffer, disturbed>>
      BY <2>1 DEF Types
    <3>2. Shows(i[u])' = Shows(i[u]) /\ Shows(i[u] - 1)' = Shows(i[u] - 1) BY <3>1 DEF Shows
    <3> QED BY <3>1, <3>2 DEF TextInv, TextOf
  <2>2. CASE u = t
    <3>1. i'[u] = 0 /\ to_copy'[u] = 0 /\ Len(text'[u]) = 0 /\ pc'[u] = "idle"
      BY <2>2 DEF Types
    <3> QED BY <3>1
  <2> QED BY <2>1, <2>2
<1>5. LoaderInv'
  <2>1. i'[Loader] = i[Loader] /\ \A u \in Actors : u # t => pc'[u] = pc[u] BY DEF Types
  <2>2. phase' = phase /\ (pc[t] # "idle" \/ phase \in {"init", "loaded"}) OBVIOUS
  <2> QED BY <2>1, <2>2, LoaderApart
<1> QED BY <1>1, <1>2, <1>3, <1>4, <1>5

\* The loader's steps between its bytes leave every write where it is.
LEMMA LoaderText ==
    ASSUME Types, TextInv,
           UNCHANGED <<to_copy, text, lcd_buffer, shown>>,
           \A u \in Writers : pc'[u] = pc[u] /\ i'[u] = i[u] /\ cmd'[u] = cmd[u],
           UNCHANGED disturbed \/ \A u \in Writers : pc[u] = "idle"
    PROVE  TextInv'
<1> SUFFICES ASSUME NEW u \in Writers
             PROVE  /\ i'[u] <= to_copy'[u] /\ Len(text'[u]) <= to_copy'[u]
                    /\ pc'[u] # "idle" /\ ~disturbed' => TextOf(u)'
  BY DEF TextInv
<1>1. Shows(i[u])' = Shows(i[u]) /\ Shows(i[u] - 1)' = Shows(i[u] - 1) BY DEF Shows
<1> QED BY <1>1 DEF TextInv, TextOf

\* ModuleInit sends the start-up bytes, although writes may come already.
LEMMA ModuleInitInv == ASSUME IInv, ModuleInit PROVE IInv'
<1> USE DEF ModuleInit, Send, Goto, pins, screen, IInv, Points, SendPoints
<1>1. /\ Len(Startup) = 4
      /\ \A k \in 1 .. 4 :
            /\ Startup[k] \in [rs : {0, 1}, byte : Bytes]
            /\ Startup[k].rs = 0 => Startup[k].byte \in {FunctionSet, DisplayOn, Clear}
  BY DEF Startup
<1>2. i[Loader] \in 0 .. 4 BY <1>1 DEF Types, LoaderInv
<1>3. Types'
  <2>1. CASE i[Loader] < 4
    <3>0. i[Loader] + 1 \in 1 .. 4 BY <1>2, <2>1
    <3>1. Startup[i[Loader] + 1] \in [rs : {0, 1}, byte : Bytes] BY <1>1, <3>0
    <3>2. cmd' = [cmd EXCEPT ![Loader] = Startup[i[Loader] + 1]] BY <1>1, <2>1
    <3>3. cmd' \in [Actors -> [rs : {0, 1}, byte : Bytes]] BY <3>1, <3>2 DEF Types
    <3>4. i' \in [Actors -> Nat] /\ pc' \in [Actors -> Points] BY <1>1, <1>2, <2>1 DEF Types
    <3> QED BY <3>3, <3>4 DEF Types
  <2>2. CASE i[Loader] = 4 BY <1>1, <2>2 DEF Types
  <2> QED BY <1>2, <2>1, <2>2
<1>4. SendInv'
  <2>1. CASE i[Loader] < 4
    <3>1. cmd'[Loader] = Startup[i[Loader] + 1] /\ i[Loader] + 1 \in 1 .. 4
      BY <1>1, <1>2, <2>1 DEF Types
    <3>2. pc'[Loader] = "select" /\ bit'[Loader] = 0 BY <1>1, <2>1 DEF Types, SendInv
    <3>3. cmd'[Loader].rs = 0 => cmd'[Loader].byte \in {FunctionSet, DisplayOn, Clear}
      <4>1. Startup[i[Loader] + 1].rs = 0 =>
                Startup[i[Loader] + 1].byte \in {FunctionSet, DisplayOn, Clear}
        BY <1>1, <3>1
      <4> QED BY <3>1, <4>1
    <3> QED BY <3>2, <3>3 DEF Types, SendInv
  <2>2. CASE i[Loader] = 4 BY <1>1, <2>2 DEF Types, SendInv
  <2> QED BY <1>2, <2>1, <2>2
<1>5. PinsInv' BY SMTT(30) DEF Types, PinsInv, SendInv, Busy
<1>6. TextInv' BY LoaderText DEF Types
<1>7. LoaderInv' BY <1>1, <1>2, SMTT(30) DEF Types, LoaderInv
<1> QED BY <1>3, <1>4, <1>5, <1>6, <1>7

\* rmmod clears the screen once no call is under way,
LEMMA ExitBeginInv == ASSUME IInv, ExitBegin PROVE IInv'
<1> USE DEF ExitBegin, Send, Goto, pins, call, screen, IInv, Points, SendPoints
<1>1. \A u \in Actors : pc[u] = "idle" BY DEF Busy
<1>2. Types'
  <2>1. cmd' \in [Actors -> [rs : {0, 1}, byte : Bytes]] BY DEF Types
  <2> QED BY <2>1 DEF Types
<1>3. SendInv' BY <1>1, SMTT(30) DEF Types, SendInv
<1>4. PinsInv' BY <1>1, SMTT(30) DEF Types, PinsInv, SendInv, Busy
<1>5. TextInv' BY <1>1, LoaderText DEF Types
<1>6. LoaderInv' BY <1>1, SMTT(30) DEF Types, LoaderInv
<1> QED BY <1>2, <1>3, <1>4, <1>5, <1>6

\* and lowers the pins.
LEMMA ExitPinsInv == ASSUME IInv, ExitPins PROVE IInv'
<1> USE DEF ExitPins, Goto, call, screen, IInv, Points, SendPoints
<1>1. Types' BY SMTT(30) DEF Types
<1>2. SendInv' BY SMTT(30) DEF Types, SendInv
<1>3. PinsInv' BY SMTT(30) DEF Types, PinsInv, SendInv, Busy, LoaderInv
<1>4. TextInv' BY LoaderText DEF Types
<1>5. LoaderInv' BY SMTT(30) DEF Types, LoaderInv
<1> QED BY <1>1, <1>2, <1>3, <1>4, <1>5

\* Every step keeps the invariant,
LEMMA StepInv == IInv /\ [Next]_vars => IInv'
<1> SUFFICES ASSUME IInv, [Next]_vars PROVE IInv' OBVIOUS
<1>1. ASSUME NEW t \in Writers, driver_write(t) PROVE IInv'
  BY <1>1, SendStep, NextInv, ReturnInv DEF driver_write
<1>2. ASSUME NEW t \in Writers, NEW m \in Texts, NEW n \in 0 .. Len(m), WriteBegin(t, m, n)
      PROVE  IInv'
  BY <1>2, BeginInv
<1>3. CASE lcd_send(Loader) BY <1>3, SendStep
<1>4. CASE UNCHANGED vars BY <1>4, StutterInv
<1> QED BY <1>1, <1>2, <1>3, <1>4, ModuleInitInv, ExitBeginInv, ExitPinsInv DEF Next

\* and so it holds in every reachable state.
LEMMA Inductive == Spec => []IInv
BY InitInv, StepInv, PTL DEF Spec

-----------------------------------------------------------------------------
(* Theorems *)

\* driver_write: a write that no other call came between has its text on the screen
\* when it returns, as far as the line goes, for any number of data pins, whatever the
\* calls before it left on the pins and in the buffer; only an instruction that nobody
\* meant, latched by calls that overlapped, is not repaired.
THEOREM WriteShowsText == Spec => []AloneShowsText
<1>1. IInv => AloneShowsText
  <2> SUFFICES ASSUME IInv, NEW t \in Writers, pc[t] = "return", ~disturbed
               PROVE  /\ Len(shown) = min(to_copy[t], Cells)
                      /\ \A k \in 1 .. min(Len(text[t]), Cells) : shown[k] = text[t][k]
    BY DEF AloneShowsText
  <2>1. TextOf(t) /\ Len(text[t]) <= to_copy[t] /\ Len(text[t]) \in Nat BY DEF IInv, TextInv, Types
  <2>2. /\ Shows(to_copy[t]) /\ to_copy[t] \in Nat
        /\ \A k \in 1 .. Len(text[t]) : lcd_buffer[k - 1] = text[t][k]
    BY <2>1 DEF TextOf, IInv, Types
  <2>3. ASSUME NEW k \in 1 .. min(Len(text[t]), Cells)
        PROVE  k \in 1 .. Len(text[t]) /\ k \in 1 .. min(to_copy[t], Cells)
    BY <2>1, <2>2 DEF min
  <2> QED BY <2>2, <2>3 DEF Shows
<1> QED BY Inductive, <1>1, PTL

\* lcd_send_byte: an instruction that nobody meant reaches the screen only when
\* calls have overlapped.
THEOREM OnlyOverlapGarbles == Spec => GarbledByOverlap
<1>1. IInv /\ [Next]_vars => [garbled' /\ ~garbled => disturbed]_vars
  <2> SUFFICES ASSUME IInv, Next, garbled', ~garbled, ~disturbed PROVE FALSE BY DEF vars, screen
  <2>1. PICK t \in Actors : EnableLow(t)
    <3> SUFFICES ASSUME ~ \E t \in Actors : EnableLow(t) PROVE FALSE OBVIOUS
    <3> USE DEF screen
    <3>1. ASSUME NEW t \in Actors, lcd_send(t) PROVE FALSE
      BY <3>1 DEF lcd_send, Select, SendBit, EnableHigh
    <3>2. ASSUME NEW t \in Writers, WriteNext(t) \/ WriteReturn(t) PROVE FALSE
      BY <3>2 DEF WriteNext, WriteReturn
    <3>3. ASSUME NEW t \in Writers, NEW m \in Texts, NEW n \in 0 .. Len(m), WriteBegin(t, m, n)
          PROVE  FALSE
      BY <3>3 DEF WriteBegin
    <3>4. CASE ModuleInit \/ ExitBegin \/ ExitPins BY <3>4 DEF ModuleInit, ExitBegin, ExitPins
    <3> QED BY <3>1, <3>2, <3>3, <3>4 DEF Next, driver_write
  <2>2. enable = 1 /\ Latch /\ pc[t] = "low" BY <2>1 DEF EnableLow, screen
  <2>3. OnPins = cmd[t].byte /\ rs = cmd[t].rs BY <2>2, LatchedAlone
  <2>4. rs = 0 /\ OnPins \notin {FunctionSet, DisplayOn, Clear} BY <2>2, LatchIs, Zenon
  <2> QED BY <2>2, <2>3, <2>4 DEF IInv, SendInv, SendPoints
<1> QED BY Inductive, <1>1, PTL DEF Spec, GarbledByOverlap

\* ModuleExit lowers the pins when no pulse is under way: the screen takes nothing.
LEMMA ExitIsNoPulse == ASSUME IInv, ExitPins PROVE enable = 0
BY DEF ExitPins, IInv, Types, SendInv, LoaderInv
=============================================================================
