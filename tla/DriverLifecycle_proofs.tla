--------------------- MODULE DriverLifecycle_proofs ---------------------
(***************************************************************************)
(* Theorems about DriverLifecycle: whatever the kernel refuses and         *)
(* whatever processes do meanwhile, a driver leaves nothing behind but     *)
(* what it is known to leave.                                              *)
(*                                                                         *)
(* The argument has two halves.  The first is about the tables: Proper     *)
(* says of one driver's init and exit functions what a step may assume of  *)
(* the steps before it, and is shown for each of them.  The second is      *)
(* about the state machine and knows the tables by Proper and a few facts  *)
(* about single ones: what is held, ready or released follows from the     *)
(* steps that init has taken.                                              *)
(***************************************************************************)
EXTENDS DriverLifecycle, SequenceTheorems, TLAPS

-----------------------------------------------------------------------------
(* What makes a table proper *)

\* The kinds of a step: it obtains its resource, it may end init, init only comes
\* past it when it holds the resource, it is one of these or one whose refusal
\* nobody notices, it gives back a resource whenever that is held.
Obtains(x) == x.kind \in {"try", "ignored", "take"}
Fallible(x) == x.kind \in {"try", "check"}
Sure(x) == x.kind \in {"try", "take", "use"} /\ x.when = {}
Accounted(x) == Sure(x) \/ x.kind = "ignored"
GivesBack(x, r) == x.kind = "give" /\ x.res = r /\ x.when = {r}

\* The steps before the n-th.
Before(s, n) == {s[j] : j \in 1 .. n - 1}

\* A list of resources to release names none of them twice.
Names(seq) == {seq[k] : k \in 1 .. Len(seq)}
Once(seq) == \A k, m \in 1 .. Len(seq) : seq[k] = seq[m] => k = m
Lists(seq) == seq \in Seq(Names(seq)) /\ Once(seq)

\* What can always be released without being missed, and what a driver is
\* known to release without having it, apart from what it was refused unnoticed.
NeverStray == {"led_on", "led_off", "buffer", "class", "block1", "block2"}
Spare(d) == (IF d = "lcd" THEN {Pins[i] : i \in 1 .. Len(Pins)} ELSE {})
            \cup (IF d = "demo" THEN {"low1", "low2", "high2"} ELSE {})

\* After the steps of H, a list releases all that they may have obtained and
\* that is not known to be left, and nothing that they have not.
Covers(H, names, left) ==
    \A x \in H : Obtains(x) => x.res \in names \cup left \/ \E y \in H : GivesBack(y, x.res)
Spares(H, names, spare) ==
    \A r \in names : r \in spare \cup NeverStray \/ \E x \in H : x.res = r /\ Accounted(x)
Undoes(H, seq, left, spare) == /\ Lists(seq)
                               /\ Covers(H, Names(seq), left)
                               /\ Spares(H, Names(seq), spare)
                               /\ "led_on" \notin Names(seq)

\* What makes the callbacks of these drivers reachable, after which init may
\* neither fail nor crash.
Doors(d) == IF d \in {"gold", "fixed", "leaky", "connection", "keylogger_connection", "irq"}
            THEN {"device", "open", "irq"} ELSE {}

\* The resources that only one driver has.
Own(d, x) == /\ x.res # "lost"
             /\ x.res = "buffer" => d = "leaky" /\ x.kind = "ignored"
             /\ x.res = "irq" => d = "irq"
             /\ x.res = "led_on" => d = "gpio"
             /\ x.kind = "use" => d \in Trusting

\* The n-th step of init obtains what no step before it mentions, gives back
\* nothing that is certainly there, and undoes what was done if it fails.
ProperStep(d, s, n) == LET x == s[n]
                           H == Before(s, n)
                       IN  /\ Own(d, x)
                           /\ x.kind \in {"ready", "use"} => x.when = {}
                           /\ Obtains(x) => \A y \in H : y.res # x.res
                           /\ x.kind = "give" => \A y \in H : y.res = x.res => ~Sure(y)
                           /\ Fallible(x) => Undoes(H, x.undo, Leaves(d, "failed"), Spare(d))
                           /\ Fallible(x) \/ x.kind = "use" => \A y \in H : y.res \notin Doors(d)

\* The upper half of the first block is released only when the block is there.
SpareAtExit(d) == Spare(d) \cup (IF d = "demo" THEN {"high1"} ELSE {})

ProperExit(d, s, exit) ==
    Undoes(Before(s, Len(s) + 1), exit, Leaves(d, "unloaded"), SpareAtExit(d))

Proper(d, s, exit) == /\ Len(s) \in Nat
                      /\ \A n \in 1 .. Len(s) : ProperStep(d, s, n)
                      /\ ProperExit(d, s, exit)

-----------------------------------------------------------------------------
(* Lists of resources *)

\* A list of one resource.
LEMMA ListOne == ASSUME NEW a PROVE Lists(<<a>>) /\ Names(<<a>>) = {a}
<1>1. <<a>> \in Seq({a}) OBVIOUS
<1>2. Names(<<a>>) = {a} BY DEF Names
<1>3. Once(<<a>>) BY DEF Once
<1> QED BY <1>1, <1>2, <1>3 DEF Lists

\* Two sequences, one after the other.
LEMMA Joined ==
    ASSUME NEW S, NEW a \in Seq(S), NEW b \in Seq(S)
    PROVE  /\ a \o b \in Seq(S)
           /\ Len(a \o b) = Len(a) + Len(b)
           /\ \A i \in 1 .. Len(a) : (a \o b)[i] = a[i]
           /\ \A i \in 1 .. Len(b) : (a \o b)[Len(a) + i] = b[i]
<1> DEFINE m == Len(a)
           n == Len(b)
<1>1. m \in Nat /\ n \in Nat OBVIOUS
<1>2. /\ a \o b \in Seq(S) /\ Len(a \o b) = m + n
      /\ \A i \in 1 .. m : (a \o b)[i] = a[i]
      /\ \A i \in 1 .. n : (a \o b)[m + i] = b[i]
  BY <1>1, ConcatProperties
<1> QED BY <1>2

\* Two lists that share no resource, one after the other.
LEMMA ListJoined ==
    ASSUME NEW a, NEW b, Lists(a), Lists(b), Names(a) \cap Names(b) = {}
    PROVE  Lists(a \o b) /\ Names(a \o b) = Names(a) \cup Names(b)
<1> DEFINE N == Names(a) \cup Names(b)
           m == Len(a)
           n == Len(b)
<1>1. a \in Seq(N) /\ b \in Seq(N) BY DEF Lists
<1> HIDE DEF N
<1>2. /\ m \in Nat /\ n \in Nat /\ Len(a \o b) = m + n
      /\ \A i \in 1 .. m : (a \o b)[i] = a[i]
      /\ \A i \in 1 .. n : (a \o b)[m + i] = b[i]
  BY <1>1, Joined
<1>3. Names(a \o b) = N
  <2>1. \A i \in 1 .. m + n : (a \o b)[i] \in N
    <3> TAKE i \in 1 .. m + n
    <3>1. CASE i <= m
      <4>1. i \in 1 .. m BY <3>1, <1>2
      <4> QED BY <4>1, <1>2 DEF Names, N
    <3>2. CASE i > m
      <4>1. i - m \in 1 .. n /\ m + (i - m) = i BY <3>2, <1>2
      <4>2. (a \o b)[i] = b[i - m] BY <4>1, <1>2
      <4> QED BY <4>1, <4>2 DEF Names, N
    <3> QED BY <3>1, <3>2, <1>2
  <2>2. \A i \in 1 .. m : i \in 1 .. m + n BY <1>2
  <2>3. \A i \in 1 .. n : m + i \in 1 .. m + n BY <1>2
  <2> QED BY <1>2, <2>1, <2>2, <2>3, SMTT(30) DEF Names, N
<1>4. Once(a \o b)
  <2> SUFFICES ASSUME NEW i \in 1 .. m + n, NEW k \in 1 .. m + n, i <= k, (a \o b)[i] = (a \o b)[k]
               PROVE  i = k
    BY <1>2 DEF Once
  <2>1. CASE k <= m
    <3>1. i \in 1 .. m /\ k \in 1 .. m BY <2>1, <1>2
    <3> QED BY <3>1, <1>2 DEF Lists, Once
  <2>2. CASE i > m
    <3>1. /\ i - m \in 1 .. n /\ m + (i - m) = i
          /\ k - m \in 1 .. n /\ m + (k - m) = k
      BY <2>2, <1>2
    <3>2. b[i - m] = b[k - m] BY <3>1, <1>2
    <3>3. i - m = k - m BY <3>1, <3>2 DEF Lists, Once
    <3> QED BY <3>1, <3>3
  <2>3. CASE i <= m /\ k > m
    <3>1. i \in 1 .. m /\ k - m \in 1 .. n /\ m + (k - m) = k BY <2>3, <1>2
    <3>2. a[i] = b[k - m] BY <3>1, <1>2
    <3> QED BY <3>1, <3>2 DEF Names
  <2> QED BY <2>1, <2>2, <2>3, <1>2
<1>5. a \o b \in Seq(N) BY <1>1, ConcatProperties
<1> QED BY <1>3, <1>4, <1>5 DEF Lists, N

\* The lists that the drivers write out: the empty one,
LEMMA ListNone == Lists(<<>>) /\ Names(<<>>) = {}
<1>1. <<>> \in Seq({}) OBVIOUS
<1>2. Names(<<>>) = {} BY DEF Names
<1>3. Once(<<>>) BY DEF Once
<1> QED BY <1>1, <1>2, <1>3 DEF Lists

\* of two resources,
LEMMA ListTwo ==
    ASSUME NEW a, NEW b,
           a # b
    PROVE  Lists(<<a, b>>) /\ Names(<<a, b>>) = {a, b}
<1>1. <<a, b>> \in Seq({a, b}) OBVIOUS
<1>2. Names(<<a, b>>) = {a, b} BY DEF Names
<1>3. Once(<<a, b>>) BY DEF Once
<1> QED BY <1>1, <1>2, <1>3 DEF Lists

\* of three resources,
LEMMA ListThree ==
    ASSUME NEW a, NEW b, NEW c,
           a # b, c \notin {a, b}
    PROVE  Lists(<<a, b, c>>) /\ Names(<<a, b, c>>) = {a, b, c}
<1>1. <<a, b, c>> \in Seq({a, b, c}) OBVIOUS
<1>2. Names(<<a, b, c>>) = {a, b, c} BY DEF Names
<1>3. Once(<<a, b, c>>) BY DEF Once
<1> QED BY <1>1, <1>2, <1>3 DEF Lists

\* of four resources,
LEMMA ListFour ==
    ASSUME NEW a, NEW b, NEW c, NEW d,
           a # b, c \notin {a, b}, d \notin {a, b, c}
    PROVE  Lists(<<a, b, c, d>>) /\ Names(<<a, b, c, d>>) = {a, b, c, d}
<1>1. <<a, b, c, d>> \in Seq({a, b, c, d}) OBVIOUS
<1>2. Names(<<a, b, c, d>>) = {a, b, c, d} BY DEF Names
<1>3. Once(<<a, b, c, d>>) BY DEF Once
<1> QED BY <1>1, <1>2, <1>3 DEF Lists

\* of five resources,
LEMMA ListFive ==
    ASSUME NEW a, NEW b, NEW c, NEW d, NEW e,
           a # b, c \notin {a, b}, d \notin {a, b, c}, e \notin {a, b, c, d}
    PROVE  Lists(<<a, b, c, d, e>>) /\ Names(<<a, b, c, d, e>>) = {a, b, c, d, e}
<1>1. <<a, b, c, d, e>> \in Seq({a, b, c, d, e}) OBVIOUS
<1>2. Names(<<a, b, c, d, e>>) = {a, b, c, d, e} BY DEF Names
<1>3. Once(<<a, b, c, d, e>>) BY DEF Once
<1> QED BY <1>1, <1>2, <1>3 DEF Lists

\* of six resources,
LEMMA ListSix ==
    ASSUME NEW a, NEW b, NEW c, NEW d, NEW e, NEW f,
           a # b, c \notin {a, b}, d \notin {a, b, c}, e \notin {a, b, c, d},
           f \notin {a, b, c, d, e}
    PROVE  Lists(<<a, b, c, d, e, f>>) /\ Names(<<a, b, c, d, e, f>>) = {a, b, c, d, e, f}
<1>1. <<a, b, c, d, e, f>> \in Seq({a, b, c, d, e, f}) OBVIOUS
<1>2. Names(<<a, b, c, d, e, f>>) = {a, b, c, d, e, f} BY DEF Names
<1>3. Once(<<a, b, c, d, e, f>>) BY DEF Once
<1> QED BY <1>1, <1>2, <1>3 DEF Lists

\* and of seven.
LEMMA ListSeven ==
    ASSUME NEW a, NEW b, NEW c, NEW d, NEW e, NEW f, NEW g,
           a # b, c \notin {a, b}, d \notin {a, b, c}, e \notin {a, b, c, d},
           f \notin {a, b, c, d, e}, g \notin {a, b, c, d, e, f}
    PROVE  Lists(<<a, b, c, d, e, f, g>>) /\ Names(<<a, b, c, d, e, f, g>>) = {a, b, c, d, e, f, g}
<1>1. <<a, b, c, d, e, f, g>> \in Seq({a, b, c, d, e, f, g}) OBVIOUS
<1>2. Names(<<a, b, c, d, e, f, g>>) = {a, b, c, d, e, f, g} BY DEF Names
<1>3. Once(<<a, b, c, d, e, f, g>>) BY DEF Once
<1> QED BY <1>1, <1>2, <1>3 DEF Lists

\* A list read backwards.
LEMMA ListReversed ==
    ASSUME NEW a, Lists(a)
    PROVE  Lists(Reversed(a)) /\ Names(Reversed(a)) = Names(a)
<1> DEFINE n == Len(a)
<1>1. a \in Seq(Names(a)) /\ n \in Nat BY DEF Lists
<1>2. \A k \in 1 .. n : n + 1 - k \in 1 .. n /\ n + 1 - (n + 1 - k) = k BY <1>1
<1>3. \A k \in 1 .. n : Reversed(a)[k] = a[n + 1 - k] BY DEF Reversed
<1>4. Reversed(a) \in Seq(Names(a)) /\ Len(Reversed(a)) = n
  <2>1. \A k \in 1 .. n : a[n + 1 - k] \in Names(a) BY <1>2 DEF Names
  <2> QED BY <1>1, <2>1 DEF Reversed
<1>5. Names(Reversed(a)) = Names(a)
  <2>1. \A k \in 1 .. n : Reversed(a)[k] \in Names(a) BY <1>2, <1>3 DEF Names
  <2>2. \A k \in 1 .. n : a[k] = Reversed(a)[n + 1 - k] BY <1>2, <1>3
  <2>3. \A k \in 1 .. n : a[k] \in Names(Reversed(a)) BY <1>2, <1>4, <2>2 DEF Names
  <2> QED BY <1>4, <2>1, <2>3 DEF Names
<1>6. Once(Reversed(a))
  <2> SUFFICES ASSUME NEW k \in 1 .. n, NEW m \in 1 .. n, Reversed(a)[k] = Reversed(a)[m]
               PROVE  k = m
    BY <1>4 DEF Once
  <2>1. n + 1 - k = n + 1 - m BY <1>2, <1>3 DEF Lists, Once
  <2> QED BY <2>1, <1>1
<1> QED BY <1>4, <1>5, <1>6 DEF Lists

\* The first resources of a list.
LEMMA ListPrefix ==
    ASSUME NEW a, Lists(a), NEW n \in 0 .. Len(a)
    PROVE  /\ Lists(SubSeq(a, 1, n))
           /\ Names(SubSeq(a, 1, n)) = {a[k] : k \in 1 .. n}
<1> DEFINE b == SubSeq(a, 1, n)
<1>1. a \in Seq(Names(a)) BY DEF Lists
<1>2. Len(b) = n /\ \A k \in 1 .. n : b[k] = a[k] BY <1>1
<1>3. Names(b) = {a[k] : k \in 1 .. n} BY <1>2 DEF Names
<1>4. \A k \in 1 .. n : k \in 1 .. Len(a) BY <1>1
<1>5. Once(b) BY <1>2, <1>4 DEF Lists, Once
<1>6. b \in Seq(Names(b))
  <2>1. b = [k \in 1 .. n |-> a[k]] BY <1>1, <1>4
  <2>2. \A k \in 1 .. n : a[k] \in Names(b) BY <1>3
  <2> QED BY <2>1, <2>2
<1> QED BY <1>3, <1>5, <1>6 DEF Lists

-----------------------------------------------------------------------------
(* The tables, driver by driver *)

\* The fields of each kind of step.
LEMMA StepFields ==
    /\ \A r, u : LET x == Try(r, u)
                 IN  x.kind = "try" /\ x.res = r /\ x.undo = u /\ x.when = {}
    /\ \A r : LET x == Ignored(r) IN x.kind = "ignored" /\ x.res = r /\ x.when = {}
    /\ \A r : LET x == Take(r) IN x.kind = "take" /\ x.res = r /\ x.when = {}
    /\ \A r : LET x == Use(r) IN x.kind = "use" /\ x.res = r /\ x.when = {}
    /\ \A r : LET x == Ready(r) IN x.kind = "ready" /\ x.res = r /\ x.when = {}
    /\ \A u : LET x == Check(u)
              IN  x.kind = "check" /\ x.res = "nothing" /\ x.undo = u /\ x.when = {}
    /\ \A r, u : LET x == Output(r, u)
                 IN  x.kind = "check" /\ x.res = r /\ x.undo = u /\ x.when = {}
    /\ \A w, r : LET x == If(w, Ignored(r))
                 IN  x.kind = "ignored" /\ x.res = r /\ x.when = {w}
    /\ \A w, r : LET x == If(w, Take(r)) IN x.kind = "take" /\ x.res = r /\ x.when = {w}
    /\ \A w, r : LET x == If(w, Give(r)) IN x.kind = "give" /\ x.res = r /\ x.when = {w}
BY DEF Try, Ignored, Take, Use, Ready, Check, Output, If, Give, Step

\* The steps before each of the first.
LEMMA Befores ==
    ASSUME NEW s
    PROVE  /\ Before(s, 1) = {}
           /\ Before(s, 2) = {s[1]}
           /\ Before(s, 3) = {s[1], s[2]}
           /\ Before(s, 4) = {s[1], s[2], s[3]}
           /\ Before(s, 5) = {s[1], s[2], s[3], s[4]}
           /\ Before(s, 6) = {s[1], s[2], s[3], s[4], s[5]}
           /\ Before(s, 7) = {s[1], s[2], s[3], s[4], s[5], s[6]}
           /\ Before(s, 8) = {s[1], s[2], s[3], s[4], s[5], s[6], s[7]}
           /\ Before(s, 9) = {s[1], s[2], s[3], s[4], s[5], s[6], s[7], s[8]}
           /\ Before(s, 10) = {s[1], s[2], s[3], s[4], s[5], s[6], s[7], s[8], s[9]}
           /\ Before(s, 11) = {s[1], s[2], s[3], s[4], s[5], s[6], s[7], s[8], s[9], s[10]}
           /\ Before(s, 12) = {s[1], s[2], s[3], s[4], s[5], s[6], s[7], s[8], s[9], s[10], s[11]}
           /\ Before(s, 13) = {s[1], s[2], s[3], s[4], s[5], s[6], s[7], s[8], s[9], s[10], s[11],
                               s[12]}
           /\ Before(s, 14) = {s[1], s[2], s[3], s[4], s[5], s[6], s[7], s[8], s[9], s[10], s[11],
                               s[12], s[13]}
BY DEF Before

\* mutex_sleep_ioctl_exercise: the gold driver,
LEMMA GoldProper == Proper("gold", gold_init, gold_exit)
<1> DEFINE s == gold_init
<1>s. /\ Len(s) = 7
      /\ s[1] = Try("region", <<>>)
      /\ s[2] = Try("cdev", <<"region">>)
      /\ s[3] = Try("class", <<"cdev", "region">>)
      /\ s[4] = Try("device", <<"class", "cdev", "region">>)
      /\ s[5] = Ready("lock")
      /\ s[6] = Ready("queues")
      /\ s[7] = Ready("ring")
  BY DEF gold_init
<1> HIDE DEF s
<1> USE <1>s, StepFields, Befores DEF ProperStep, ProperExit, Undoes, Covers, Spares,
        Obtains, Fallible, Sure, Accounted, GivesBack, Own, Trusting, Doors, NeverStray
<1>1. ProperStep("gold", s, 1) BY ListNone
<1>2. ProperStep("gold", s, 2) BY ListOne
<1>3. ProperStep("gold", s, 3) BY ListTwo
<1>4. ProperStep("gold", s, 4) BY ListThree
<1>5. ProperStep("gold", s, 5) OBVIOUS
<1>6. ProperStep("gold", s, 6) OBVIOUS
<1>7. ProperStep("gold", s, 7) OBVIOUS
<1>e. ProperExit("gold", s, gold_exit)
  <2>1. Len(s) + 1 = 8 BY <1>s
  <2> QED BY <2>1, ListFour DEF gold_exit
<1> HIDE DEF ProperStep, ProperExit
<1> QED BY <1>s, <1>1, <1>2, <1>3, <1>4, <1>5, <1>6, <1>7, <1>e DEF Proper, s

\* the fixed one,
LEMMA FixedProper == Proper("fixed", fixed_init, fixed_exit)
<1> DEFINE s == fixed_init
<1>s. /\ Len(s) = 5
      /\ s[1] = Try("region", <<>>)
      /\ s[2] = Try("cdev", <<"region">>)
      /\ s[3] = Try("class", <<"cdev", "region">>)
      /\ s[4] = Try("device", <<"class", "cdev", "region">>)
      /\ s[5] = Ready("queues")
  BY DEF fixed_init
<1> HIDE DEF s
<1> USE <1>s, StepFields, Befores DEF ProperStep, ProperExit, Undoes, Covers, Spares,
        Obtains, Fallible, Sure, Accounted, GivesBack, Own, Trusting, Doors, NeverStray
<1>1. ProperStep("fixed", s, 1) BY ListNone
<1>2. ProperStep("fixed", s, 2) BY ListOne
<1>3. ProperStep("fixed", s, 3) BY ListTwo
<1>4. ProperStep("fixed", s, 4) BY ListThree
<1>5. ProperStep("fixed", s, 5) OBVIOUS
<1>e. ProperExit("fixed", s, fixed_exit)
  <2>1. Len(s) + 1 = 6 BY <1>s
  <2> QED BY <2>1, ListFour DEF fixed_exit
<1> QED BY <1>s, <1>1, <1>2, <1>3, <1>4, <1>5, <1>e DEF Proper, s

\* and the buggy one, which may release what it was refused.
LEMMA BuggyProper == Proper("buggy", buggy_init, buggy_exit)
<1> DEFINE s == buggy_init
<1>s. /\ Len(s) = 6
      /\ s[1] = Ignored("region")
      /\ s[2] = Ignored("cdev")
      /\ s[3] = Ignored("class")
      /\ s[4] = Ignored("device")
      /\ s[5] = Ready("lock")
      /\ s[6] = Ready("queues")
  BY DEF buggy_init
<1> HIDE DEF s
<1> USE <1>s, StepFields, Befores DEF ProperStep, ProperExit, Undoes, Covers, Spares,
        Obtains, Fallible, Sure, Accounted, GivesBack, Own, Trusting, Doors, NeverStray
<1>1. ProperStep("buggy", s, 1) OBVIOUS
<1>2. ProperStep("buggy", s, 2) OBVIOUS
<1>3. ProperStep("buggy", s, 3) OBVIOUS
<1>4. ProperStep("buggy", s, 4) OBVIOUS
<1>5. ProperStep("buggy", s, 5) OBVIOUS
<1>6. ProperStep("buggy", s, 6) OBVIOUS
<1>e. ProperExit("buggy", s, buggy_exit)
  <2>1. Len(s) + 1 = 7 BY <1>s
  <2> QED BY <2>1, ListFour DEF buggy_exit
<1> QED BY <1>s, <1>1, <1>2, <1>3, <1>4, <1>5, <1>6, <1>e DEF Proper, s

\* The labs: chrdev_alone,
LEMMA MouetteProper == Proper("mouette", mouette_init, mouette_exit)
<1> DEFINE s == mouette_init
<1>s. /\ Len(s) = 4
      /\ s[1] = Try("region", <<>>)
      /\ s[2] = Ignored("class")
      /\ s[3] = Ignored("device")
      /\ s[4] = Ignored("cdev")
  BY DEF mouette_init, LabSkeleton
<1> HIDE DEF s
<1> USE <1>s, StepFields, Befores DEF ProperStep, ProperExit, Undoes, Covers, Spares,
        Obtains, Fallible, Sure, Accounted, GivesBack, Own, Trusting, Doors, NeverStray, Leaves, Labs
<1>1. ProperStep("mouette", s, 1) BY ListNone
<1>2. ProperStep("mouette", s, 2) OBVIOUS
<1>3. ProperStep("mouette", s, 3) OBVIOUS
<1>4. ProperStep("mouette", s, 4) OBVIOUS
<1>e. ProperExit("mouette", s, mouette_exit)
  <2>1. Len(s) + 1 = 5 BY <1>s
  <2> QED BY <2>1, ListThree DEF mouette_exit
<1> QED BY <1>s, <1>1, <1>2, <1>3, <1>4, <1>e DEF Proper, s

\* chrdev_read_write,
LEMMA ReadWriteProper == Proper("read_write", read_write_init, read_write_exit)
<1> DEFINE s == read_write_init
<1>s. /\ Len(s) = 5
      /\ s[1] = Try("region", <<>>)
      /\ s[2] = Ignored("class")
      /\ s[3] = Ignored("device")
      /\ s[4] = Ignored("cdev")
      /\ s[5] = Ready("length")
  BY DEF read_write_init, LabSkeleton
<1> HIDE DEF s
<1> USE <1>s, StepFields, Befores DEF ProperStep, ProperExit, Undoes, Covers, Spares,
        Obtains, Fallible, Sure, Accounted, GivesBack, Own, Trusting, Doors, NeverStray, Leaves, Labs
<1>1. ProperStep("read_write", s, 1) BY ListNone
<1>2. ProperStep("read_write", s, 2) OBVIOUS
<1>3. ProperStep("read_write", s, 3) OBVIOUS
<1>4. ProperStep("read_write", s, 4) OBVIOUS
<1>5. ProperStep("read_write", s, 5) OBVIOUS
<1>e. ProperExit("read_write", s, read_write_exit)
  <2>1. Len(s) + 1 = 6 BY <1>s
  <2> QED BY <2>1, ListThree DEF read_write_exit
<1> QED BY <1>s, <1>1, <1>2, <1>3, <1>4, <1>5, <1>e DEF Proper, s

\* chrdev_sleepy,
LEMMA SleepyProper == Proper("sleepy", sleepy_init, sleepy_exit)
<1> DEFINE s == sleepy_init
<1>s. /\ Len(s) = 5
      /\ s[1] = Try("region", <<>>)
      /\ s[2] = Ignored("class")
      /\ s[3] = Ignored("device")
      /\ s[4] = Ignored("cdev")
      /\ s[5] = Ready("queues")
  BY DEF sleepy_init, LabSkeleton
<1> HIDE DEF s
<1> USE <1>s, StepFields, Befores DEF ProperStep, ProperExit, Undoes, Covers, Spares,
        Obtains, Fallible, Sure, Accounted, GivesBack, Own, Trusting, Doors, NeverStray, Leaves, Labs
<1>1. ProperStep("sleepy", s, 1) BY ListNone
<1>2. ProperStep("sleepy", s, 2) OBVIOUS
<1>3. ProperStep("sleepy", s, 3) OBVIOUS
<1>4. ProperStep("sleepy", s, 4) OBVIOUS
<1>5. ProperStep("sleepy", s, 5) OBVIOUS
<1>e. ProperExit("sleepy", s, sleepy_exit)
  <2>1. Len(s) + 1 = 6 BY <1>s
  <2> QED BY <2>1, ListThree DEF sleepy_exit
<1> QED BY <1>s, <1>1, <1>2, <1>3, <1>4, <1>5, <1>e DEF Proper, s

\* chrdev_mutex,
LEMMA MutexProper == Proper("mutex", mutex_init, mutex_exit)
<1> DEFINE s == mutex_init
<1>s. /\ Len(s) = 5
      /\ s[1] = Try("region", <<>>)
      /\ s[2] = Ignored("class")
      /\ s[3] = Ignored("device")
      /\ s[4] = Ignored("cdev")
      /\ s[5] = Ready("lock")
  BY DEF mutex_init, LabSkeleton
<1> HIDE DEF s
<1> USE <1>s, StepFields, Befores DEF ProperStep, ProperExit, Undoes, Covers, Spares,
        Obtains, Fallible, Sure, Accounted, GivesBack, Own, Trusting, Doors, NeverStray, Leaves, Labs
<1>1. ProperStep("mutex", s, 1) BY ListNone
<1>2. ProperStep("mutex", s, 2) OBVIOUS
<1>3. ProperStep("mutex", s, 3) OBVIOUS
<1>4. ProperStep("mutex", s, 4) OBVIOUS
<1>5. ProperStep("mutex", s, 5) OBVIOUS
<1>e. ProperExit("mutex", s, mutex_exit)
  <2>1. Len(s) + 1 = 6 BY <1>s
  <2> QED BY <2>1, ListThree DEF mutex_exit
<1> QED BY <1>s, <1>1, <1>2, <1>3, <1>4, <1>5, <1>e DEF Proper, s

\* memory_leak,
LEMMA LeakyProper == Proper("leaky", leaky_init, leaky_exit)
<1> DEFINE s == leaky_init
<1>s. /\ Len(s) = 5
      /\ s[1] = Try("region", <<>>)
      /\ s[2] = Ignored("class")
      /\ s[3] = Ignored("device")
      /\ s[4] = Ignored("cdev")
      /\ s[5] = Ignored("buffer")
  BY DEF leaky_init, LabSkeleton
<1> HIDE DEF s
<1> USE <1>s, StepFields, Befores DEF ProperStep, ProperExit, Undoes, Covers, Spares,
        Obtains, Fallible, Sure, Accounted, GivesBack, Own, Trusting, Doors, NeverStray, Leaves, Labs
<1>1. ProperStep("leaky", s, 1) BY ListNone
<1>2. ProperStep("leaky", s, 2) OBVIOUS
<1>3. ProperStep("leaky", s, 3) OBVIOUS
<1>4. ProperStep("leaky", s, 4) OBVIOUS
<1>5. ProperStep("leaky", s, 5) OBVIOUS
<1>e. ProperExit("leaky", s, leaky_exit)
  <2>1. Len(s) + 1 = 6 BY <1>s
  <2> QED BY <2>1, ListFour DEF leaky_exit
<1> QED BY <1>s, <1>1, <1>2, <1>3, <1>4, <1>5, <1>e DEF Proper, s

\* GPIO: the labels undo in the order of the code.
LEMMA GpioProper == Proper("gpio", gpio_init, gpio_exit)
<1> DEFINE s == gpio_init
<1>s. /\ Len(s) = 6
      /\ s[1] = Try("region", <<>>)
      /\ s[2] = Ignored("class")
      /\ s[3] = Ignored("device")
      /\ s[4] = Ignored("cdev")
      /\ s[5] = Try("led", <<"cdev">> \o AddError)
      /\ s[6] = Output("led_on", <<"led", "cdev">> \o AddError)
  BY DEF gpio_init, LabSkeleton
<1>a. LET undo5 == <<"cdev">> \o AddError
      IN  Lists(undo5) /\ Names(undo5) = {"cdev", "device", "class"}
  BY ListOne, ListTwo, ListJoined DEF AddError
<1>b. LET undo6 == <<"led", "cdev">> \o AddError
      IN  Lists(undo6) /\ Names(undo6) = {"led", "cdev", "device", "class"}
  BY ListTwo, ListJoined DEF AddError
<1> HIDE DEF s
<1> USE <1>s, StepFields, Befores DEF ProperStep, ProperExit, Undoes, Covers, Spares,
        Obtains, Fallible, Sure, Accounted, GivesBack, Own, Trusting, Doors, NeverStray, Leaves, Labs
<1>1. ProperStep("gpio", s, 1) BY ListNone
<1>2. ProperStep("gpio", s, 2) OBVIOUS
<1>3. ProperStep("gpio", s, 3) OBVIOUS
<1>4. ProperStep("gpio", s, 4) OBVIOUS
<1>5. ProperStep("gpio", s, 5) BY <1>a
<1>6. ProperStep("gpio", s, 6) BY <1>b
<1>e. ProperExit("gpio", s, gpio_exit)
  <2>1. Len(s) + 1 = 7 BY <1>s
  <2> QED BY <2>1, ListFive DEF gpio_exit
<1> QED BY <1>s, <1>1, <1>2, <1>3, <1>4, <1>5, <1>6, <1>e DEF Proper, s

\* A step whose refusal nobody notices is proper if its resource is new,
LEMMA IgnoredIsProper ==
    ASSUME NEW d, NEW s, NEW n, s[n].kind = "ignored",
           s[n].res \notin {"lost", "buffer", "irq", "led_on"},
           \A y \in Before(s, n) : y.res # s[n].res
    PROVE  ProperStep(d, s, n)
BY DEF ProperStep, Own, Obtains, Fallible

\* and one that gives back a resource if that may have been refused.
LEMMA GiveIsProper ==
    ASSUME NEW d, NEW s, NEW n, s[n].kind = "give",
           s[n].res \notin {"lost", "buffer", "irq", "led_on"},
           \A y \in Before(s, n) : y.res = s[n].res => y.kind = "ignored"
    PROVE  ProperStep(d, s, n)
BY DEF ProperStep, Own, Obtains, Fallible, Sure

\* i2c_24LC256,
LEMMA EepromProper == Proper("eeprom", eeprom_init, eeprom_exit)
<1> DEFINE s == eeprom_init
<1>s. /\ Len(s) = 9
      /\ s[1] = Try("region", <<>>)
      /\ s[2] = Ignored("class")
      /\ s[3] = Ignored("device")
      /\ s[4] = Ignored("cdev")
      /\ s[5] = Ignored("adapter")
      /\ s[6] = If("adapter", Ignored("client"))
      /\ s[7] = If("client", Ignored("i2c_driver"))
      /\ s[8] = If("adapter", Give("adapter"))
      /\ s[9] = Use("client")
  BY DEF eeprom_init, LabSkeleton
<1> HIDE DEF s
<1>6. ProperStep("eeprom", s, 6)
  <2>1. s[6].kind = "ignored" /\ s[6].res = "client" BY <1>s, StepFields
  <2>2. \A y \in Before(s, 6) : y.res # "client" BY <1>s, StepFields, Befores
  <2> QED BY <2>1, <2>2, IgnoredIsProper
<1>7. ProperStep("eeprom", s, 7)
  <2>1. s[7].kind = "ignored" /\ s[7].res = "i2c_driver" BY <1>s, StepFields
  <2>2. \A y \in Before(s, 7) : y.res # "i2c_driver" BY <1>s, StepFields, Befores
  <2> QED BY <2>1, <2>2, IgnoredIsProper
<1>8. ProperStep("eeprom", s, 8)
  <2>1. s[8].kind = "give" /\ s[8].res = "adapter" BY <1>s, StepFields
  <2>2. \A y \in Before(s, 8) : y.res = "adapter" => y.kind = "ignored"
    BY <1>s, StepFields, Befores
  <2> QED BY <2>1, <2>2, GiveIsProper
<1> USE <1>s, StepFields, Befores DEF ProperStep, ProperExit, Undoes, Covers, Spares,
        Obtains, Fallible, Sure, Accounted, GivesBack, Own, Trusting, Doors, NeverStray, Leaves, Labs
<1>1. ProperStep("eeprom", s, 1) BY ListNone
<1>2. ProperStep("eeprom", s, 2) OBVIOUS
<1>3. ProperStep("eeprom", s, 3) OBVIOUS
<1>4. ProperStep("eeprom", s, 4) OBVIOUS
<1>5. ProperStep("eeprom", s, 5) BY SMTT(30)
<1>9. ProperStep("eeprom", s, 9) OBVIOUS
<1>e. ProperExit("eeprom", s, eeprom_exit)
  <2>1. Len(s) + 1 = 10 BY <1>s
  <2>2. /\ Lists(eeprom_exit)
        /\ Names(eeprom_exit) = {"client", "i2c_driver", "cdev", "device", "class"}
    BY ListFive DEF eeprom_exit
  <2>3. Covers(Before(s, 10), Names(eeprom_exit), Leaves("eeprom", "unloaded")) BY <2>2
  <2>4. Spares(Before(s, 10), Names(eeprom_exit), SpareAtExit("eeprom")) BY <2>2
  <2> QED BY <2>1, <2>2, <2>3, <2>4
<1> HIDE DEF ProperStep, ProperExit
<1> QED BY <1>s, <1>1, <1>2, <1>3, <1>4, <1>5, <1>6, <1>7, <1>8, <1>9, <1>e DEF Proper, s

\* and i2c_MCP9801.
LEMMA McpProper == Proper("mcp", mcp_init, mcp_exit)
<1> DEFINE s == mcp_init
<1>s. /\ Len(s) = 9
      /\ s[1] = Try("region", <<>>)
      /\ s[2] = Ignored("class")
      /\ s[3] = Ignored("device")
      /\ s[4] = Ignored("cdev")
      /\ s[5] = Ignored("adapter")
      /\ s[6] = If("adapter", Ignored("client"))
      /\ s[7] = If("client", Ignored("i2c_driver"))
      /\ s[8] = If("adapter", Give("adapter"))
      /\ s[9] = Use("client")
  BY DEF mcp_init, LabSkeleton
<1> HIDE DEF s
<1>6. ProperStep("mcp", s, 6)
  <2>1. s[6].kind = "ignored" /\ s[6].res = "client" BY <1>s, StepFields
  <2>2. \A y \in Before(s, 6) : y.res # "client" BY <1>s, StepFields, Befores
  <2> QED BY <2>1, <2>2, IgnoredIsProper
<1>7. ProperStep("mcp", s, 7)
  <2>1. s[7].kind = "ignored" /\ s[7].res = "i2c_driver" BY <1>s, StepFields
  <2>2. \A y \in Before(s, 7) : y.res # "i2c_driver" BY <1>s, StepFields, Befores
  <2> QED BY <2>1, <2>2, IgnoredIsProper
<1>8. ProperStep("mcp", s, 8)
  <2>1. s[8].kind = "give" /\ s[8].res = "adapter" BY <1>s, StepFields
  <2>2. \A y \in Before(s, 8) : y.res = "adapter" => y.kind = "ignored"
    BY <1>s, StepFields, Befores
  <2> QED BY <2>1, <2>2, GiveIsProper
<1> USE <1>s, StepFields, Befores DEF ProperStep, ProperExit, Undoes, Covers, Spares,
        Obtains, Fallible, Sure, Accounted, GivesBack, Own, Trusting, Doors, NeverStray, Leaves, Labs
<1>1. ProperStep("mcp", s, 1) BY ListNone
<1>2. ProperStep("mcp", s, 2) OBVIOUS
<1>3. ProperStep("mcp", s, 3) OBVIOUS
<1>4. ProperStep("mcp", s, 4) OBVIOUS
<1>5. ProperStep("mcp", s, 5) BY SMTT(30)
<1>9. ProperStep("mcp", s, 9) OBVIOUS
<1>e. ProperExit("mcp", s, mcp_exit)
  <2>1. Len(s) + 1 = 10 BY <1>s
  <2>2. /\ Lists(mcp_exit)
        /\ Names(mcp_exit) = {"client", "i2c_driver", "cdev", "device", "class"}
    BY ListFive DEF mcp_exit
  <2>3. Covers(Before(s, 10), Names(mcp_exit), Leaves("mcp", "unloaded")) BY <2>2
  <2>4. Spares(Before(s, 10), Names(mcp_exit), SpareAtExit("mcp")) BY <2>2
  <2> QED BY <2>1, <2>2, <2>3, <2>4
<1> HIDE DEF ProperStep, ProperExit
<1> QED BY <1>s, <1>1, <1>2, <1>3, <1>4, <1>5, <1>6, <1>7, <1>8, <1>9, <1>e DEF Proper, s

\* The pins of the display are eleven.
LEMMA ListPins == Lists(Pins) /\ Len(Pins) = 11
<1>1. Len(Pins) = 11 BY DEF Pins
<1>2. Pins \in Seq(Names(Pins))
  <2>1. Pins = [k \in 1 .. 11 |-> Pins[k]] BY DEF Pins
  <2>2. \A k \in 1 .. 11 : Pins[k] \in Names(Pins) BY <1>1 DEF Names
  <2> QED BY <2>1, <2>2
<1>3. Once(Pins) BY DEF Once, Pins
<1> QED BY <1>1, <1>2, <1>3 DEF Lists

\* No pin is one of the resources of the skeleton.
LEMMA PinsAlone ==
    \A k \in 1 .. 11 : Pins[k] \notin {"region", "class", "device", "cdev", "led_on", "buffer",
                                      "irq", "lost", "nothing"}
BY DEF Pins

\* What init of the LCD driver releases when the i-th pin is refused.
LcdUndo(i) == <<"cdev">> \o Reversed(SubSeq(Pins, 1, i)) \o AddError

\* It is a list, of the skeleton's resources and of the pins up to that one.
LEMMA LcdUndoIs ==
    ASSUME NEW i \in 1 .. 11
    PROVE  /\ Lists(LcdUndo(i))
           /\ Names(LcdUndo(i)) = {"cdev", "device", "class"} \cup {Pins[k] : k \in 1 .. i}
<1> DEFINE p == Reversed(SubSeq(Pins, 1, i))
           P == {Pins[k] : k \in 1 .. i}
<1>1. Lists(p) /\ Names(p) = P
  <2>1. i \in 0 .. Len(Pins) BY ListPins
  <2>2. Lists(SubSeq(Pins, 1, i)) /\ Names(SubSeq(Pins, 1, i)) = P
    BY <2>1, ListPins, ListPrefix
  <2> QED BY <2>2, ListReversed
<1>2. "cdev" \notin P /\ "device" \notin P /\ "class" \notin P BY PinsAlone
<1> HIDE DEF p, P
<1>3. Lists(<<"cdev">> \o p) /\ Names(<<"cdev">> \o p) = {"cdev"} \cup P
  BY <1>1, <1>2, ListOne, ListJoined
<1>4. Lists(AddError) /\ Names(AddError) = {"device", "class"} BY ListTwo DEF AddError
<1>5. /\ Lists((<<"cdev">> \o p) \o AddError)
      /\ Names((<<"cdev">> \o p) \o AddError) = {"cdev"} \cup P \cup {"device", "class"}
  BY <1>2, <1>3, <1>4, ListJoined
<1> QED BY <1>5 DEF LcdUndo, p, P

\* The steps of its init, one by one.
LEMMA LcdSteps ==
    LET s == lcd_init
    IN  /\ Len(s) = 26
        /\ s[1] = Try("region", <<>>)
        /\ s[2] = Ignored("class")
        /\ s[3] = Ignored("device")
        /\ s[4] = Ignored("cdev")
        /\ \A i \in 1 .. 11 : s[4 + i] = Try(Pins[i], LcdUndo(i))
        /\ \A i \in 1 .. 11 : s[15 + i] = Check(LcdUndo(11))
<1> DEFINE a == LabSkeleton
           b == [i \in 1 .. 11 |-> Try(Pins[i], LcdUndo(i))]
           c == [i \in 1 .. 11 |-> Check(LcdUndo(11))]
           S == {a[i] : i \in 1 .. 4} \cup {b[i] : i \in 1 .. 11} \cup {c[i] : i \in 1 .. 11}
<1>1. lcd_init = a \o b \o c BY ListPins DEF lcd_init, LcdUndo
<1>2. /\ Len(a) = 4
      /\ a[1] = Try("region", <<>>)
      /\ a[2] = Ignored("class")
      /\ a[3] = Ignored("device")
      /\ a[4] = Ignored("cdev")
  BY DEF LabSkeleton
<1>3. a \in Seq(S) /\ b \in Seq(S) /\ c \in Seq(S)
  <2>1. a = [i \in 1 .. 4 |-> a[i]] BY DEF LabSkeleton
  <2>2. \A i \in 1 .. 4 : a[i] \in S OBVIOUS
  <2>3. \A i \in 1 .. 11 : b[i] \in S /\ c[i] \in S OBVIOUS
  <2> QED BY <2>1, <2>2, <2>3
<1>4. Len(b) = 11 /\ Len(c) = 11 OBVIOUS
<1>5. /\ \A i \in 1 .. 11 : b[i] = Try(Pins[i], LcdUndo(i))
      /\ \A i \in 1 .. 11 : c[i] = Check(LcdUndo(11))
  OBVIOUS
<1> HIDE DEF a, b, c, S
<1>6. /\ a \o b \in Seq(S) /\ Len(a \o b) = 15
      /\ \A i \in 1 .. 4 : (a \o b)[i] = a[i]
      /\ \A i \in 1 .. 11 : (a \o b)[4 + i] = b[i]
  <2>1. /\ a \o b \in Seq(S) /\ Len(a \o b) = Len(a) + Len(b)
        /\ \A i \in 1 .. Len(a) : (a \o b)[i] = a[i]
        /\ \A i \in 1 .. Len(b) : (a \o b)[Len(a) + i] = b[i]
    BY <1>3, Joined
  <2>2. \A i \in 1 .. 11 : (a \o b)[4 + i] = b[i]
    <3> TAKE i \in 1 .. 11
    <3>1. i \in 1 .. Len(b) /\ Len(a) + i = 4 + i BY <1>2, <1>4
    <3>2. (a \o b)[Len(a) + i] = b[i] BY <3>1, <2>1
    <3> QED BY <3>1, <3>2
  <2>3. Len(a) + Len(b) = 15 BY <1>2, <1>4
  <2> QED BY <2>1, <2>2, <2>3, <1>2
<1>7. /\ Len(a \o b \o c) = 26
      /\ \A i \in 1 .. 15 : (a \o b \o c)[i] = (a \o b)[i]
      /\ \A i \in 1 .. 11 : (a \o b \o c)[15 + i] = c[i]
  <2>1. PICK d : d = a \o b OBVIOUS
  <2>2. d \in Seq(S) /\ Len(d) = 15 BY <1>6, <2>1
  <2>3. /\ d \o c \in Seq(S) /\ Len(d \o c) = Len(d) + Len(c)
        /\ \A i \in 1 .. Len(d) : (d \o c)[i] = d[i]
        /\ \A i \in 1 .. Len(c) : (d \o c)[Len(d) + i] = c[i]
    <3>1. d \in Seq(S) /\ c \in Seq(S) BY <1>3, <2>2
    <3> QED BY <3>1, Joined
  <2>4. ASSUME NEW i \in 1 .. 11 PROVE (d \o c)[15 + i] = c[i]
    <3>1. i \in 1 .. Len(c) /\ Len(d) + i = 15 + i BY <1>4, <2>2
    <3>2. (d \o c)[Len(d) + i] = c[i] BY <2>3, <3>1
    <3> QED BY <3>1, <3>2
  <2>5. Len(d) + Len(c) = 26 BY <1>4, <2>2
  <2> QED BY <2>1, <2>2, <2>3, <2>4, <2>5
<1>8. \A i \in 1 .. 11 : (a \o b \o c)[4 + i] = b[i]
  <2> TAKE i \in 1 .. 11
  <2>1. 4 + i \in 1 .. 15 OBVIOUS
  <2> QED BY <2>1, <1>6, <1>7
<1>9. \A i \in 1 .. 4 : (a \o b \o c)[i] = a[i]
  <2> TAKE i \in 1 .. 4
  <2>1. i \in 1 .. 15 OBVIOUS
  <2> QED BY <2>1, <1>6, <1>7
<1>10. 1 \in 1 .. 4 /\ 2 \in 1 .. 4 /\ 3 \in 1 .. 4 /\ 4 \in 1 .. 4 OBVIOUS
<1> DEFINE s == a \o b \o c
<1>11. lcd_init = s /\ Len(s) = 26 BY <1>1, <1>7
<1>12. s[1] = a[1] /\ s[2] = a[2] /\ s[3] = a[3] /\ s[4] = a[4] BY <1>9, <1>10
<1>13. \A i \in 1 .. 11 : s[4 + i] = b[i] /\ s[15 + i] = c[i] BY <1>7, <1>8
<1> HIDE DEF s
<1>14. \A i \in 1 .. 11 : s[4 + i] = Try(Pins[i], LcdUndo(i)) /\ s[15 + i] = Check(LcdUndo(11))
  BY <1>5, <1>13
<1> QED BY <1>2, <1>11, <1>12, <1>14

\* The pins that are requested before the n-th step after the skeleton.
Requested(n) == IF n > 11 THEN 11 ELSE n - 1

\* GPIO_LCD: what is mentioned before a step is the skeleton and the pins so far.
LEMMA LcdProper == Proper("lcd", lcd_init, lcd_exit)
<1> DEFINE s == lcd_init
           pins == {Pins[k] : k \in 1 .. 11}
<1>1. /\ Len(s) = 26
      /\ s[1] = Try("region", <<>>)
      /\ s[2] = Ignored("class")
      /\ s[3] = Ignored("device")
      /\ s[4] = Ignored("cdev")
      /\ \A i \in 1 .. 11 : s[4 + i] = Try(Pins[i], LcdUndo(i))
      /\ \A i \in 1 .. 11 : s[15 + i] = Check(LcdUndo(11))
  BY LcdSteps
<1> HIDE DEF s
<1>2. \A i \in 1 .. 4 : ProperStep("lcd", s, i)
  <2> USE <1>1, StepFields, Befores DEF ProperStep, Undoes, Covers, Spares,
          Obtains, Fallible, Sure, Accounted, Own, Trusting, Doors, NeverStray
  <2>1. ProperStep("lcd", s, 1) BY ListNone, SMTT(30)
  <2>2. ProperStep("lcd", s, 2) BY SMTT(30)
  <2>3. ProperStep("lcd", s, 3) BY SMTT(30)
  <2>4. ProperStep("lcd", s, 4) BY SMTT(30)
  <2> HIDE <1>1, StepFields, Befores DEF ProperStep
  <2> QED BY <2>1, <2>2, <2>3, <2>4
<1>3. ASSUME NEW n \in 1 .. 22
      PROVE  LET H == Before(s, 4 + n)
                 P == {Pins[k] : k \in 1 .. Requested(n)}
             IN  /\ \A x \in H : x.res \in {"region", "class", "device", "cdev", "nothing"} \cup P
                 /\ \A x \in H : Obtains(x) => x.res \in {"region", "class", "device", "cdev"} \cup P
                 /\ \E x \in H : x.res = "cdev" /\ Accounted(x)
                 /\ \E x \in H : x.res = "device" /\ Accounted(x)
  <2> DEFINE H == Before(s, 4 + n)
  <2>1. s[3] \in H /\ s[4] \in H BY DEF Before
  <2>2. ASSUME NEW x \in H
        PROVE  \/ x \in {s[1], s[2], s[3], s[4]}
               \/ \E k \in 1 .. Requested(n) : x = s[4 + k]
               \/ \E k \in 1 .. 11 : x = s[15 + k]
    <3>1. PICK j \in 1 .. 3 + n : x = s[j] BY DEF Before
    <3>2. CASE j <= 4
      <4>1. j \in {1, 2, 3, 4} BY <3>2
      <4> QED BY <3>1, <4>1
    <3>3. CASE j > 4 /\ j <= 15
      <4>1. j - 4 \in 1 .. Requested(n) /\ 4 + (j - 4) = j BY <3>3 DEF Requested
      <4> QED BY <3>1, <4>1
    <3>4. CASE j > 15
      <4>1. j - 15 \in 1 .. 11 /\ 15 + (j - 15) = j BY <3>4
      <4> QED BY <3>1, <4>1
    <3> QED BY <3>2, <3>3, <3>4
  <2> HIDE DEF H
  <2>3. \A k \in 1 .. Requested(n) : k \in 1 .. 11
    <3>1. Requested(n) \in Int /\ Requested(n) <= 11 BY DEF Requested
    <3> QED BY <3>1
  <2>4. /\ s[1].kind = "try" /\ s[1].res = "region"
        /\ s[2].kind = "ignored" /\ s[2].res = "class"
        /\ s[3].kind = "ignored" /\ s[3].res = "device"
        /\ s[4].kind = "ignored" /\ s[4].res = "cdev"
        /\ \A k \in 1 .. 11 : s[4 + k].kind = "try" /\ s[4 + k].res = Pins[k]
        /\ \A k \in 1 .. 11 : s[15 + k].kind = "check" /\ s[15 + k].res = "nothing"
    BY <1>1, StepFields, SMTT(30)
  <2>5. ASSUME NEW x \in H
        PROVE  /\ x.res \in {"region", "class", "device", "cdev", "nothing"}
                            \cup {Pins[k] : k \in 1 .. Requested(n)}
               /\ Obtains(x) => x.res # "nothing"
    BY <2>2, <2>3, <2>4, PinsAlone DEF Obtains
  <2>6. Accounted(s[3]) /\ Accounted(s[4]) BY <2>4 DEF Accounted
  <2> QED BY <2>1, <2>4, <2>5, <2>6 DEF H
<1>4. pins = Spare("lcd") BY ListPins DEF Spare
<1>5. {"region"} = Leaves("lcd", "failed") /\ {"region"} = Leaves("lcd", "unloaded")
  BY DEF Leaves, Labs
<1>6. ASSUME NEW n \in 1 .. 22, NEW i \in 1 .. 11, i >= n \/ i = 11
      PROVE  Undoes(Before(s, 4 + n), LcdUndo(i), {"region"}, pins)
  <2>1. \A k \in 1 .. Requested(n) : k \in 1 .. i
    <3>1. Requested(n) \in Int /\ Requested(n) <= i BY <1>6 DEF Requested
    <3> HIDE DEF Requested
    <3> QED BY <3>1
  <2>2. Covers(Before(s, 4 + n), Names(LcdUndo(i)), {"region"})
    <3>1. {Pins[k] : k \in 1 .. Requested(n)} \subseteq Names(LcdUndo(i))
      BY <2>1, LcdUndoIs
    <3>2. \A x \in Before(s, 4 + n) :
             Obtains(x) => x.res \in {"region", "class", "device", "cdev"}
                                     \cup {Pins[k] : k \in 1 .. Requested(n)}
      BY <1>3
    <3>3. {"cdev", "device", "class"} \subseteq Names(LcdUndo(i)) BY LcdUndoIs
    <3> QED BY <3>1, <3>2, <3>3 DEF Covers
  <2>3. Spares(Before(s, 4 + n), Names(LcdUndo(i)), pins)
    BY <1>3, LcdUndoIs DEF Spares, NeverStray
  <2>4. "led_on" \notin Names(LcdUndo(i)) BY LcdUndoIs, PinsAlone
  <2> QED BY <2>2, <2>3, <2>4, LcdUndoIs DEF Undoes
<1>7. \A i \in 1 .. 11 : ProperStep("lcd", s, 4 + i)
  <2> TAKE i \in 1 .. 11
  <2>1. LET x == s[4 + i]
        IN  x.kind = "try" /\ x.res = Pins[i] /\ x.undo = LcdUndo(i) /\ x.when = {}
    <3>1. s[4 + i] = Try(Pins[i], LcdUndo(i)) BY <1>1
    <3> QED BY <3>1, StepFields
  <2>2. \A y \in Before(s, 4 + i) : y.res # Pins[i]
    <3>1. \A k \in 1 .. i - 1 : Pins[k] # Pins[i] BY ListPins DEF Lists, Once
    <3>2. Requested(i) = i - 1 BY DEF Requested
    <3> QED BY <1>3, <3>1, <3>2, PinsAlone
  <2>3. Own("lcd", s[4 + i]) BY <2>1, PinsAlone DEF Own
  <2>4. Undoes(Before(s, 4 + i), LcdUndo(i), {"region"}, pins) BY <1>6
  <2> QED BY <1>4, <1>5, <2>1, <2>2, <2>3, <2>4 DEF ProperStep, Obtains, Fallible, Doors
<1>8. \A i \in 1 .. 11 : ProperStep("lcd", s, 15 + i)
  <2> TAKE i \in 1 .. 11
  <2>1. LET x == s[15 + i]
        IN  x.kind = "check" /\ x.res = "nothing" /\ x.undo = LcdUndo(11) /\ x.when = {}
    <3>1. s[15 + i] = Check(LcdUndo(11)) BY <1>1
    <3> QED BY <3>1, StepFields
  <2>2. Own("lcd", s[15 + i]) BY <2>1 DEF Own
  <2>3. Undoes(Before(s, 15 + i), LcdUndo(11), {"region"}, pins)
    <3>1. i + 11 \in 1 .. 22 /\ 4 + (i + 11) = 15 + i OBVIOUS
    <3> QED BY <3>1, <1>6
  <2> QED BY <1>4, <1>5, <2>1, <2>2, <2>3 DEF ProperStep, Obtains, Fallible, Doors
<1>9. ProperExit("lcd", s, lcd_exit)
  <2> DEFINE tail == <<"cdev", "device", "class">>
  <2>1. Lists(tail) /\ Names(tail) = {"cdev", "device", "class"} BY ListThree
  <2>2. Names(Pins) = pins BY ListPins DEF Names
  <2>3. "cdev" \notin pins /\ "device" \notin pins /\ "class" \notin pins /\ "led_on" \notin pins
    BY PinsAlone
  <2> HIDE DEF tail, pins
  <2>4. Lists(lcd_exit) /\ Names(lcd_exit) = pins \cup {"cdev", "device", "class"}
    BY <2>1, <2>2, <2>3, ListPins, ListJoined DEF lcd_exit, tail
  <2> DEFINE H == Before(s, 26)
  <2>5. Before(s, 27) = H \cup {s[26]} BY DEF Before
  <2>6. /\ \A x \in H : Obtains(x) => x.res \in {"region", "class", "device", "cdev"} \cup pins
        /\ \E x \in H : x.res = "cdev" /\ Accounted(x)
        /\ \E x \in H : x.res = "device" /\ Accounted(x)
    BY <1>3 DEF pins, Requested
  <2>7. ~Obtains(s[26]) BY <1>1, StepFields DEF Obtains
  <2> HIDE DEF H
  <2>8. Covers(Before(s, 27), Names(lcd_exit), {"region"}) BY <2>4, <2>5, <2>6, <2>7 DEF Covers
  <2>9. Spares(Before(s, 27), Names(lcd_exit), pins)
    BY <2>4, <2>5, <2>6 DEF Spares, NeverStray
  <2>10. SpareAtExit("lcd") = pins BY <1>4 DEF SpareAtExit
  <2>11. Len(s) + 1 = 27 BY <1>1
  <2> QED BY <1>5, <2>3, <2>4, <2>8, <2>9, <2>10, <2>11 DEF ProperExit, Undoes
<1>10. \A n \in 1 .. 26 : ProperStep("lcd", s, n)
  <2> TAKE n \in 1 .. 26
  <2>1. CASE n <= 4 BY <2>1, <1>2
  <2>2. CASE n > 4 /\ n <= 15
    <3>1. n - 4 \in 1 .. 11 /\ 4 + (n - 4) = n BY <2>2
    <3> QED BY <3>1, <1>7
  <2>3. CASE n > 15
    <3>1. n - 15 \in 1 .. 11 /\ 15 + (n - 15) = n BY <2>3
    <3> QED BY <3>1, <1>8
  <2> QED BY <2>1, <2>2, <2>3
<1> QED BY <1>1, <1>9, <1>10 DEF Proper, s

\* kmalloc_vs_vmalloc: exit frees both halves of a block, freed in part or not.
LEMMA DemoProper == Proper("demo", demo_init, demo_exit)
<1> DEFINE s == demo_init
<1>1. /\ Len(s) = 13
      /\ s[1] = Try("array", <<>>)
      /\ s[2] = Ignored("block1")
      /\ s[3] = If("block1", Take("low1"))
      /\ s[4] = If("block1", Take("high1"))
      /\ s[5] = If("block1", Ignored("block2"))
      /\ s[6] = If("block2", Take("low2"))
      /\ s[7] = If("block2", Take("high2"))
      /\ s[8] = If("block1", Give("low1"))
      /\ s[9] = If("block2", Give("low2"))
      /\ s[10] = Ignored("kptr")
      /\ s[11] = If("kptr", Give("kptr"))
      /\ s[12] = Ignored("vptr")
      /\ s[13] = If("vptr", Give("vptr"))
  BY DEF demo_init, fragment_memory, run_test
<1> HIDE DEF s
<1>2. /\ s[1].undo = <<>>
      /\ s[1].kind = "try" /\ s[1].res = "array" /\ s[1].when = {}
      /\ s[2].kind = "ignored" /\ s[2].res = "block1" /\ s[2].when = {}
      /\ s[3].kind = "take" /\ s[3].res = "low1" /\ s[3].when = {"block1"}
      /\ s[4].kind = "take" /\ s[4].res = "high1" /\ s[4].when = {"block1"}
      /\ s[5].kind = "ignored" /\ s[5].res = "block2" /\ s[5].when = {"block1"}
      /\ s[6].kind = "take" /\ s[6].res = "low2" /\ s[6].when = {"block2"}
      /\ s[7].kind = "take" /\ s[7].res = "high2" /\ s[7].when = {"block2"}
      /\ s[8].kind = "give" /\ s[8].res = "low1" /\ s[8].when = {"block1"}
      /\ s[9].kind = "give" /\ s[9].res = "low2" /\ s[9].when = {"block2"}
      /\ s[10].kind = "ignored" /\ s[10].res = "kptr" /\ s[10].when = {}
      /\ s[11].kind = "give" /\ s[11].res = "kptr" /\ s[11].when = {"kptr"}
      /\ s[12].kind = "ignored" /\ s[12].res = "vptr" /\ s[12].when = {}
      /\ s[13].kind = "give" /\ s[13].res = "vptr" /\ s[13].when = {"vptr"}
  BY <1>1, StepFields
<1>3. \A n \in 1 .. 13 : ProperStep("demo", s, n)
  <2> USE <1>2, Befores DEF ProperStep, Obtains, Fallible, Sure, Own
  <2>1. ProperStep("demo", s, 1) BY ListNone DEF Undoes, Covers, Spares, Doors
  <2>2. ProperStep("demo", s, 2) OBVIOUS
  <2>3. ProperStep("demo", s, 3) OBVIOUS
  <2>4. ProperStep("demo", s, 4) OBVIOUS
  <2>5. ProperStep("demo", s, 5) OBVIOUS
  <2>6. ProperStep("demo", s, 6)
    <3>1. \A y \in Before(s, 6) : y.res # "low2" BY SMTT(30)
    <3> QED BY <3>1
  <2>7. ProperStep("demo", s, 7) OBVIOUS
  <2>8. ProperStep("demo", s, 8)
    <3>1. \A y \in Before(s, 8) : y.res = "low1" => y = s[3] OBVIOUS
    <3>2. ~Sure(s[3]) OBVIOUS
    <3>3. s[8].kind = "give" /\ s[8].res = "low1" OBVIOUS
    <3> HIDE <1>2, Befores DEF Sure
    <3> QED BY <3>1, <3>2, <3>3
  <2>9. ProperStep("demo", s, 9)
    <3>1. \A y \in Before(s, 9) : y.res = "low2" => y = s[6] OBVIOUS
    <3>2. ~Sure(s[6]) OBVIOUS
    <3>3. s[9].kind = "give" /\ s[9].res = "low2" OBVIOUS
    <3> HIDE <1>2, Befores DEF Sure
    <3> QED BY <3>1, <3>2, <3>3
  <2>10. ProperStep("demo", s, 10) BY SMTT(30)
  <2>11. ProperStep("demo", s, 11) BY SMTT(30)
  <2>12. ProperStep("demo", s, 12) BY SMTT(30)
  <2>13. ProperStep("demo", s, 13)
    <3>1. \A y \in Before(s, 13) : y.res = "vptr" => y = s[12] OBVIOUS
    <3> QED BY <3>1
  <2> HIDE <1>2 DEF ProperStep
  <2> QED BY <2>1, <2>2, <2>3, <2>4, <2>5, <2>6, <2>7, <2>8, <2>9, <2>10, <2>11, <2>12, <2>13
<1>4. ProperExit("demo", s, demo_exit)
  <2> DEFINE H == Before(s, 14)
             freed == {"low1", "high1", "low2", "high2", "block1", "block2", "array"}
  <2>1. Lists(demo_exit) /\ Names(demo_exit) = freed BY ListSeven DEF demo_exit
  <2>2. \A x \in H : Obtains(x) => x.res \in freed \cup {"kptr", "vptr"}
    BY <1>2, Befores DEF Obtains
  <2>3. /\ s[11] \in H /\ GivesBack(s[11], "kptr")
        /\ s[13] \in H /\ GivesBack(s[13], "vptr")
    BY <1>2, Befores DEF GivesBack
  <2>4. s[1] \in H /\ s[1].res = "array" /\ Accounted(s[1])
    BY <1>2, Befores DEF Accounted, Sure
  <2>5. freed \ {"array"} \subseteq SpareAtExit("demo") \cup NeverStray
    BY DEF SpareAtExit, Spare, NeverStray
  <2> HIDE DEF H
  <2>6. Covers(H, freed, Leaves("demo", "unloaded")) BY <2>2, <2>3 DEF Covers
  <2>7. Spares(H, freed, SpareAtExit("demo")) BY <2>4, <2>5 DEF Spares
  <2>8. Len(s) + 1 = 14 BY <1>1
  <2> QED BY <2>1, <2>6, <2>7, <2>8 DEF ProperExit, Undoes, H
<1> QED BY <1>1, <1>3, <1>4 DEF Proper, s

\* GPIO_irq.
LEMMA IrqProper == Proper("irq", irq_init, irq_exit)
<1> DEFINE s == irq_init
<1>s. /\ Len(s) = 5
      /\ s[1] = Ignored("led")
      /\ s[2] = Output("led_off", <<"led">>)
      /\ s[3] = Try("button", <<"led">>)
      /\ s[4] = Check(<<"button", "led">>)
      /\ s[5] = Try("irq", <<"button", "led">>)
  BY DEF irq_init
<1> HIDE DEF s
<1> USE <1>s, StepFields, Befores DEF ProperStep, ProperExit, Undoes, Covers, Spares,
        Obtains, Fallible, Sure, Accounted, GivesBack, Own, Trusting, Doors, NeverStray
<1>1. ProperStep("irq", s, 1) OBVIOUS
<1>2. ProperStep("irq", s, 2) BY ListOne
<1>3. ProperStep("irq", s, 3) BY ListOne
<1>4. ProperStep("irq", s, 4) BY ListTwo
<1>5. ProperStep("irq", s, 5) BY ListTwo
<1>e. ProperExit("irq", s, irq_exit)
  <2>1. Len(s) + 1 = 6 BY <1>s
  <2> QED BY <2>1, ListFour DEF irq_exit
<1> QED BY <1>s, <1>1, <1>2, <1>3, <1>4, <1>5, <1>e DEF Proper, s

\* Pocket_monster.
LEMMA MonsterProper == Proper("monster", kernel_monster_init, kernel_monster_exit)
<1> DEFINE s == kernel_monster_init
<1>s. /\ Len(s) = 3
      /\ s[1] = Ready("monster")
      /\ s[2] = Try("proc", <<>>)
      /\ s[3] = Take("work")
  BY DEF kernel_monster_init
<1> HIDE DEF s
<1> USE <1>s, StepFields, Befores DEF ProperStep, ProperExit, Undoes, Covers, Spares,
        Obtains, Fallible, Sure, Accounted, GivesBack, Own, Trusting, Doors, NeverStray
<1>1. ProperStep("monster", s, 1) OBVIOUS
<1>2. ProperStep("monster", s, 2) BY ListNone
<1>3. ProperStep("monster", s, 3) OBVIOUS
<1>e. ProperExit("monster", s, kernel_monster_exit)
  <2>1. Len(s) + 1 = 4 BY <1>s
  <2> QED BY <2>1, ListTwo DEF kernel_monster_exit
<1> QED BY <1>s, <1>1, <1>2, <1>3, <1>e DEF Proper, s

\* Keyboard_monitor: kbdmon.c,
LEMMA KbdmonProper == Proper("kbdmon", kbdmon_init, kbdmon_exit)
<1> DEFINE s == kbdmon_init
<1>s. /\ Len(s) = 1
      /\ s[1] = Try("handler", <<>>)
  BY DEF kbdmon_init
<1> HIDE DEF s
<1> USE <1>s, StepFields, Befores DEF ProperStep, ProperExit, Undoes, Covers, Spares,
        Obtains, Fallible, Sure, Accounted, GivesBack, Own, Trusting, Doors, NeverStray
<1>1. ProperStep("kbdmon", s, 1) BY ListNone
<1>e. ProperExit("kbdmon", s, kbdmon_exit)
  <2>1. Len(s) + 1 = 2 BY <1>s
  <2> QED BY <2>1, ListOne DEF kbdmon_exit
<1> QED BY <1>s, <1>1, <1>e DEF Proper, s

\* kbdmon_timing.c,
LEMMA TimingProper == Proper("timing", timing_init, timing_exit)
<1> DEFINE s == timing_init
<1>s. /\ Len(s) = 1
      /\ s[1] = Try("handler", <<>>)
  BY DEF timing_init
<1> HIDE DEF s
<1> USE <1>s, StepFields, Befores DEF ProperStep, ProperExit, Undoes, Covers, Spares,
        Obtains, Fallible, Sure, Accounted, GivesBack, Own, Trusting, Doors, NeverStray
<1>1. ProperStep("timing", s, 1) BY ListNone
<1>e. ProperExit("timing", s, timing_exit)
  <2>1. Len(s) + 1 = 2 BY <1>s
  <2> QED BY <2>1, ListOne DEF timing_exit
<1> QED BY <1>s, <1>1, <1>e DEF Proper, s

\* kbdmon_sequence_detector.c,
LEMMA SequenceProper == Proper("sequence", sequence_init, sequence_exit)
<1> DEFINE s == sequence_init
<1>s. /\ Len(s) = 1
      /\ s[1] = Try("handler", <<>>)
  BY DEF sequence_init
<1> HIDE DEF s
<1> USE <1>s, StepFields, Befores DEF ProperStep, ProperExit, Undoes, Covers, Spares,
        Obtains, Fallible, Sure, Accounted, GivesBack, Own, Trusting, Doors, NeverStray
<1>1. ProperStep("sequence", s, 1) BY ListNone
<1>e. ProperExit("sequence", s, sequence_exit)
  <2>1. Len(s) + 1 = 2 BY <1>s
  <2> QED BY <2>1, ListOne DEF sequence_exit
<1> QED BY <1>s, <1>1, <1>e DEF Proper, s

\* kbdmon_chrdev.c,
LEMMA KbdmonChrdevProper == Proper("kbdmon_chrdev", kbdmon_chrdev_init, kbdmon_chrdev_exit)
<1> DEFINE s == kbdmon_chrdev_init
<1>s. /\ Len(s) = 2
      /\ s[1] = Ignored("misc")
      /\ s[2] = Try("handler", <<>>)
  BY DEF kbdmon_chrdev_init
<1> HIDE DEF s
<1> USE <1>s, StepFields, Befores DEF ProperStep, ProperExit, Undoes, Covers, Spares,
        Obtains, Fallible, Sure, Accounted, GivesBack, Own, Trusting, Doors, NeverStray, Leaves, Labs
<1>1. ProperStep("kbdmon_chrdev", s, 1) OBVIOUS
<1>2. ProperStep("kbdmon_chrdev", s, 2) BY ListNone
<1>e. ProperExit("kbdmon_chrdev", s, kbdmon_chrdev_exit)
  <2>1. Len(s) + 1 = 3 BY <1>s
  <2> QED BY <2>1, ListTwo DEF kbdmon_chrdev_exit
<1> QED BY <1>s, <1>1, <1>2, <1>e DEF Proper, s

\* the key logger,
LEMMA KeyloggerProper == Proper("keylogger", keylogger_init, keylogger_exit)
<1> DEFINE s == keylogger_init
<1>s. /\ Len(s) = 3
      /\ s[1] = Ready("timer_fn")
      /\ s[2] = Take("timer")
      /\ s[3] = Try("handler", <<>>)
  BY DEF keylogger_init
<1> HIDE DEF s
<1> USE <1>s, StepFields, Befores DEF ProperStep, ProperExit, Undoes, Covers, Spares,
        Obtains, Fallible, Sure, Accounted, GivesBack, Own, Trusting, Doors, NeverStray, Leaves, Labs
<1>1. ProperStep("keylogger", s, 1) OBVIOUS
<1>2. ProperStep("keylogger", s, 2) OBVIOUS
<1>3. ProperStep("keylogger", s, 3) BY ListNone
<1>e. ProperExit("keylogger", s, keylogger_exit)
  <2>1. Len(s) + 1 = 4 BY <1>s
  <2> QED BY <2>1, ListTwo DEF keylogger_exit
<1> QED BY <1>s, <1>1, <1>2, <1>3, <1>e DEF Proper, s

\* and what they do when a keyboard appears.
LEMMA ConnectionProper == Proper("connection", connection_connect, connection_disconnect)
<1> DEFINE s == connection_connect
<1>s. /\ Len(s) = 3
      /\ s[1] = Try("kbd", <<>>)
      /\ s[2] = Try("handle", <<"kbd">>)
      /\ s[3] = Try("open", <<"handle", "kbd">>)
  BY DEF connection_connect
<1> HIDE DEF s
<1> USE <1>s, StepFields, Befores DEF ProperStep, ProperExit, Undoes, Covers, Spares,
        Obtains, Fallible, Sure, Accounted, GivesBack, Own, Trusting, Doors, NeverStray
<1>1. ProperStep("connection", s, 1) BY ListNone
<1>2. ProperStep("connection", s, 2) BY ListOne
<1>3. ProperStep("connection", s, 3) BY ListTwo
<1>e. ProperExit("connection", s, connection_disconnect)
  <2>1. Len(s) + 1 = 4 BY <1>s
  <2> QED BY <2>1, ListThree DEF connection_disconnect
<1> QED BY <1>s, <1>1, <1>2, <1>3, <1>e DEF Proper, s

\* The same of the key logger.
LEMMA KeyloggerConnectionProper ==
    Proper("keylogger_connection", keylogger_connect, keylogger_disconnect)
<1> DEFINE s == keylogger_connect
<1>s. /\ Len(s) = 4
      /\ s[1] = Ignored("kbd")
      /\ s[2] = Use("kbd")
      /\ s[3] = Ignored("handle")
      /\ s[4] = Ignored("open")
  BY DEF keylogger_connect
<1> HIDE DEF s
<1> USE <1>s, StepFields, Befores DEF ProperStep, ProperExit, Undoes, Covers, Spares,
        Obtains, Fallible, Sure, Accounted, GivesBack, Own, Trusting, Doors, NeverStray
<1>1. ProperStep("keylogger_connection", s, 1) OBVIOUS
<1>2. ProperStep("keylogger_connection", s, 2) OBVIOUS
<1>3. ProperStep("keylogger_connection", s, 3) OBVIOUS
<1>4. ProperStep("keylogger_connection", s, 4) OBVIOUS
<1>e. ProperExit("keylogger_connection", s, keylogger_disconnect)
  <2>1. Len(s) + 1 = 5 BY <1>s
  <2> QED BY <2>1, ListThree DEF keylogger_disconnect
<1> QED BY <1>s, <1>1, <1>2, <1>3, <1>4, <1>e DEF Proper, s

-----------------------------------------------------------------------------
(* All drivers *)

\* The tables of every driver are proper.
LEMMA AllProper ==
    ASSUME NEW d \in DOMAIN Table
    PROVE  Proper(d, Table[d].init, Table[d].exit)
<1>1. d \in {"gold", "fixed", "buggy", "mouette", "read_write", "sleepy", "mutex", "leaky",
             "gpio", "lcd", "eeprom", "mcp", "demo", "irq", "monster", "kbdmon", "timing",
             "sequence", "kbdmon_chrdev", "keylogger", "connection", "keylogger_connection"}
  BY DEF Table
<1> USE DEF Table, Driver
<1>2. CASE d = "gold" BY <1>2, GoldProper
<1>3. CASE d = "fixed" BY <1>3, FixedProper
<1>4. CASE d = "buggy" BY <1>4, BuggyProper
<1>5. CASE d = "mouette" BY <1>5, MouetteProper
<1>6. CASE d = "read_write" BY <1>6, ReadWriteProper
<1>7. CASE d = "sleepy" BY <1>7, SleepyProper
<1>8. CASE d = "mutex" BY <1>8, MutexProper
<1>9. CASE d = "leaky" BY <1>9, LeakyProper
<1>10. CASE d = "gpio" BY <1>10, GpioProper
<1>11. CASE d = "lcd" BY <1>11, LcdProper
<1>12. CASE d = "eeprom" BY <1>12, EepromProper
<1>13. CASE d = "mcp" BY <1>13, McpProper
<1>14. CASE d = "demo" BY <1>14, DemoProper
<1>15. CASE d = "irq" BY <1>15, IrqProper
<1>16. CASE d = "monster" BY <1>16, MonsterProper
<1>17. CASE d = "kbdmon" BY <1>17, KbdmonProper
<1>18. CASE d = "timing" BY <1>18, TimingProper
<1>19. CASE d = "sequence" BY <1>19, SequenceProper
<1>20. CASE d = "kbdmon_chrdev" BY <1>20, KbdmonChrdevProper
<1>21. CASE d = "keylogger" BY <1>21, KeyloggerProper
<1>22. CASE d = "connection" BY <1>22, ConnectionProper
<1>23. CASE d = "keylogger_connection" BY <1>23, KeyloggerConnectionProper
<1> HIDE DEF Table, Driver
<1> QED BY <1>1, <1>2, <1>3, <1>4, <1>5, <1>6, <1>7, <1>8, <1>9, <1>10, <1>11, <1>12,
          <1>13, <1>14, <1>15, <1>16, <1>17, <1>18, <1>19, <1>20, <1>21, <1>22, <1>23

-----------------------------------------------------------------------------
(* What init prepares *)

\* A step that prepares a resource for the callbacks: one that init does not come
\* past without it, or one whose refusal nobody notices.
Prepares(x, r) == /\ x.res = r
                  /\ x.kind \in {"ready", "ignored"} \/ Sure(x)

\* Init has such a step for everything that the callbacks need.
LEMMA NeedsPrepared ==
    ASSUME NEW d \in DOMAIN Table
    PROVE  \A r \in Table[d].needs : \E n \in 1 .. Len(Table[d].init) : Prepares(Table[d].init[n], r)
<1> USE DEF Table, Driver
<1>1. CASE d = "gold"
  <2>1. Len(gold_init) = 7 /\ gold_init[5] = Ready("lock") /\ gold_init[6] = Ready("queues") /\ gold_init[7] = Ready("ring")
    BY DEF gold_init
  <2>2. Table[d].init = gold_init /\ Table[d].needs = {"lock", "queues", "ring"} BY <1>1
  <2>3. Prepares(gold_init[5], "lock") /\ Prepares(gold_init[6], "queues") /\ Prepares(gold_init[7], "ring")
    BY <2>1, StepFields DEF Prepares, Sure
  <2> HIDE DEF Table, Driver
  <2>4. 5 \in 1 .. 7 /\ 6 \in 1 .. 7 /\ 7 \in 1 .. 7 OBVIOUS
  <2> QED BY <2>1, <2>2, <2>3, <2>4
<1>2. CASE d = "fixed"
  <2>1. Len(fixed_init) = 5 /\ fixed_init[5] = Ready("queues")
    BY DEF fixed_init
  <2>2. Table[d].init = fixed_init /\ Table[d].needs = {"queues"} BY <1>2
  <2>3. Prepares(fixed_init[5], "queues")
    BY <2>1, StepFields DEF Prepares, Sure
  <2> HIDE DEF Table, Driver
  <2>4. 5 \in 1 .. 5 OBVIOUS
  <2> QED BY <2>1, <2>2, <2>3, <2>4
<1>3. CASE d = "buggy"
  <2>1. Len(buggy_init) = 6 /\ buggy_init[5] = Ready("lock") /\ buggy_init[6] = Ready("queues")
    BY DEF buggy_init
  <2>2. Table[d].init = buggy_init /\ Table[d].needs = {"lock", "queues"} BY <1>3
  <2>3. Prepares(buggy_init[5], "lock") /\ Prepares(buggy_init[6], "queues")
    BY <2>1, StepFields DEF Prepares, Sure
  <2> HIDE DEF Table, Driver
  <2>4. 5 \in 1 .. 6 /\ 6 \in 1 .. 6 OBVIOUS
  <2> QED BY <2>1, <2>2, <2>3, <2>4
<1>4. CASE d = "read_write"
  <2>1. Len(read_write_init) = 5 /\ read_write_init[5] = Ready("length")
    BY DEF read_write_init, LabSkeleton
  <2>2. Table[d].init = read_write_init /\ Table[d].needs = {"length"} BY <1>4
  <2>3. Prepares(read_write_init[5], "length")
    BY <2>1, StepFields DEF Prepares, Sure
  <2> HIDE DEF Table, Driver
  <2>4. 5 \in 1 .. 5 OBVIOUS
  <2> QED BY <2>1, <2>2, <2>3, <2>4
<1>5. CASE d = "sleepy"
  <2>1. Len(sleepy_init) = 5 /\ sleepy_init[5] = Ready("queues")
    BY DEF sleepy_init, LabSkeleton
  <2>2. Table[d].init = sleepy_init /\ Table[d].needs = {"queues"} BY <1>5
  <2>3. Prepares(sleepy_init[5], "queues")
    BY <2>1, StepFields DEF Prepares, Sure
  <2> HIDE DEF Table, Driver
  <2>4. 5 \in 1 .. 5 OBVIOUS
  <2> QED BY <2>1, <2>2, <2>3, <2>4
<1>6. CASE d = "mutex"
  <2>1. Len(mutex_init) = 5 /\ mutex_init[5] = Ready("lock")
    BY DEF mutex_init, LabSkeleton
  <2>2. Table[d].init = mutex_init /\ Table[d].needs = {"lock"} BY <1>6
  <2>3. Prepares(mutex_init[5], "lock")
    BY <2>1, StepFields DEF Prepares, Sure
  <2> HIDE DEF Table, Driver
  <2>4. 5 \in 1 .. 5 OBVIOUS
  <2> QED BY <2>1, <2>2, <2>3, <2>4
<1>7. CASE d = "leaky"
  <2>1. Len(leaky_init) = 5 /\ leaky_init[5] = Ignored("buffer")
    BY DEF leaky_init, LabSkeleton
  <2>2. Table[d].init = leaky_init /\ Table[d].needs = {"buffer"} BY <1>7
  <2>3. Prepares(leaky_init[5], "buffer")
    BY <2>1, StepFields DEF Prepares, Sure
  <2> HIDE DEF Table, Driver
  <2>4. 5 \in 1 .. 5 OBVIOUS
  <2> QED BY <2>1, <2>2, <2>3, <2>4
<1>8. CASE d = "gpio"
  <2>1. Len(gpio_init) = 6 /\ gpio_init[5] = Try("led", <<"cdev">> \o AddError)
    BY DEF gpio_init, LabSkeleton
  <2>2. Table[d].init = gpio_init /\ Table[d].needs = {"led"} BY <1>8
  <2>3. Prepares(gpio_init[5], "led")
    BY <2>1, StepFields DEF Prepares, Sure
  <2> HIDE DEF Table, Driver
  <2>4. 5 \in 1 .. 6 OBVIOUS
  <2> QED BY <2>1, <2>2, <2>3, <2>4
<1>9. CASE d = "eeprom"
  <2>1. Len(eeprom_init) = 9 /\ eeprom_init[6] = If("adapter", Ignored("client"))
    BY DEF eeprom_init, LabSkeleton
  <2>2. Table[d].init = eeprom_init /\ Table[d].needs = {"client"} BY <1>9
  <2>3. Prepares(eeprom_init[6], "client")
    BY <2>1, StepFields DEF Prepares, Sure
  <2> HIDE DEF Table, Driver
  <2>4. 6 \in 1 .. 9 OBVIOUS
  <2> QED BY <2>1, <2>2, <2>3, <2>4
<1>10. CASE d = "mcp"
  <2>1. Len(mcp_init) = 9 /\ mcp_init[6] = If("adapter", Ignored("client"))
    BY DEF mcp_init, LabSkeleton
  <2>2. Table[d].init = mcp_init /\ Table[d].needs = {"client"} BY <1>10
  <2>3. Prepares(mcp_init[6], "client")
    BY <2>1, StepFields DEF Prepares, Sure
  <2> HIDE DEF Table, Driver
  <2>4. 6 \in 1 .. 9 OBVIOUS
  <2> QED BY <2>1, <2>2, <2>3, <2>4
<1>11. CASE d = "irq"
  <2>1. Len(irq_init) = 5 /\ irq_init[1] = Ignored("led")
    BY DEF irq_init
  <2>2. Table[d].init = irq_init /\ Table[d].needs = {"led"} BY <1>11
  <2>3. Prepares(irq_init[1], "led")
    BY <2>1, StepFields DEF Prepares, Sure
  <2> HIDE DEF Table, Driver
  <2>4. 1 \in 1 .. 5 OBVIOUS
  <2> QED BY <2>1, <2>2, <2>3, <2>4
<1>12. CASE d = "monster"
  <2>1. Len(kernel_monster_init) = 3 /\ kernel_monster_init[1] = Ready("monster")
    BY DEF kernel_monster_init
  <2>2. Table[d].init = kernel_monster_init /\ Table[d].needs = {"monster"} BY <1>12
  <2>3. Prepares(kernel_monster_init[1], "monster")
    BY <2>1, StepFields DEF Prepares, Sure
  <2> HIDE DEF Table, Driver
  <2>4. 1 \in 1 .. 3 OBVIOUS
  <2> QED BY <2>1, <2>2, <2>3, <2>4
<1>13. CASE d = "keylogger"
  <2>1. Len(keylogger_init) = 3 /\ keylogger_init[1] = Ready("timer_fn")
    BY DEF keylogger_init
  <2>2. Table[d].init = keylogger_init /\ Table[d].needs = {"timer_fn"} BY <1>13
  <2>3. Prepares(keylogger_init[1], "timer_fn")
    BY <2>1, StepFields DEF Prepares, Sure
  <2> HIDE DEF Table, Driver
  <2>4. 1 \in 1 .. 3 OBVIOUS
  <2> QED BY <2>1, <2>2, <2>3, <2>4
<1>14. CASE d = "connection"
  <2>1. Len(connection_connect) = 3 /\ connection_connect[1] = Try("kbd", <<>>)
    BY DEF connection_connect
  <2>2. Table[d].init = connection_connect /\ Table[d].needs = {"kbd"} BY <1>14
  <2>3. Prepares(connection_connect[1], "kbd")
    BY <2>1, StepFields DEF Prepares, Sure
  <2> HIDE DEF Table, Driver
  <2>4. 1 \in 1 .. 3 OBVIOUS
  <2> QED BY <2>1, <2>2, <2>3, <2>4
<1>15. CASE d = "keylogger_connection"
  <2>1. Len(keylogger_connect) = 4 /\ keylogger_connect[1] = Ignored("kbd")
    BY DEF keylogger_connect
  <2>2. Table[d].init = keylogger_connect /\ Table[d].needs = {"kbd"} BY <1>15
  <2>3. Prepares(keylogger_connect[1], "kbd")
    BY <2>1, StepFields DEF Prepares, Sure
  <2> HIDE DEF Table, Driver
  <2>4. 1 \in 1 .. 4 OBVIOUS
  <2> QED BY <2>1, <2>2, <2>3, <2>4
<1>16. CASE d = "lcd"
  <2>1. ASSUME NEW i \in 1 .. 11 PROVE Prepares(lcd_init[4 + i], Pins[i])
    <3>1. lcd_init[4 + i] = Try(Pins[i], LcdUndo(i)) BY LcdSteps
    <3> QED BY <3>1, StepFields DEF Prepares, Sure
  <2>2. Len(lcd_init) = 26 /\ \A i \in 1 .. 11 : 4 + i \in 1 .. 26 BY LcdSteps
  <2>3. /\ Table[d].init = lcd_init
        /\ Table[d].needs = {Pins[i] : i \in 1 .. 11}
    BY <1>16, ListPins
  <2> HIDE DEF Table, Driver
  <2> QED BY <2>1, <2>2, <2>3
<1>17. CASE d \in {"mouette", "demo", "kbdmon", "timing", "sequence", "kbdmon_chrdev"}
  BY <1>17
<1> HIDE DEF Driver
<1> QED BY <1>1, <1>2, <1>3, <1>4, <1>5, <1>6, <1>7, <1>8, <1>9, <1>10, <1>11, <1>12, <1>13, <1>14, <1>15, <1>16, <1>17 DEF Table

-----------------------------------------------------------------------------
(* The inductive invariant *)

\* The steps that init has come past, and what they are about.
Taken == Before(steps, step)
Mentioned(r) == \E x \in Taken : x.res = r

\* Where init is: at its end when the driver is loaded or on its way out, at a
\* step that may fail when it has given up, at one that needs what it was refused
\* when it has crashed.
TypeInv == /\ driver \in Drivers
           /\ step \in 1 .. Len(steps) + 1
           /\ phase \in {"loading", "undoing", "failed", "crashed",
                         "loaded", "unloading", "unloaded"}
           /\ phase = "crashed" => step <= Len(steps) /\ now.kind = "use"
           /\ phase \in {"loaded", "unloading", "unloaded"} => step = Len(steps) + 1
           /\ phase \in {"undoing", "failed"} => step <= Len(steps) /\ Fallible(now)
           /\ opened \in BOOLEAN
           /\ writing \in Nat

\* What is held comes from a step of init, or from the writes of the leak
\* demonstration; until something is released it is all that was obtained for
\* certain, and nothing that was given back.
HeldInv == /\ \A r \in held : \/ \E x \in Taken : x.res = r /\ Obtains(x)
                              \/ r \in {"buffer", "lost"} /\ driver = "leaky" /\ Mentioned("device")
           /\ phase \in {"loading", "loaded"} =>
                 \A x \in Taken : /\ Sure(x) => x.res \in held
                                  /\ \A r \in held : ~GivesBack(x, r)

\* The upper half of the first block is there as long as the block.
DemoInv == driver = "demo" /\ phase \in {"loading", "loaded"} /\ step > 4
           => ("block1" \in held => "high1" \in held)

\* What is initialised stays so.
ReadyInv == \A x \in Taken : x.kind = "ready" => x.res \in ready

\* What is still to be released: all that is held but what is known to be left,
\* and nothing that is not held but what is known to be released so.
UndoInv == phase \in {"undoing", "unloading"} =>
              /\ Lists(undo)
              /\ held \subseteq Names(undo) \cup
                    Leaves(driver, IF phase = "undoing" THEN "failed" ELSE "unloaded")
              /\ \A r \in Names(undo) : \/ r \in held \cup Strays(driver) \cup NeverStray
                                        \/ r = "high1" /\ "block1" \notin held
              /\ "led_on" \notin Names(undo)

\* The end.
LeftInv == /\ phase \in {"failed", "unloaded"} => held \subseteq Leaves(driver, phase)
           /\ stray \subseteq Strays(driver)

\* A file is open only if init has come past the device, and never while or
\* after the driver is unloaded; only its users write.
FilesInv == /\ opened => HasFile /\ \A r \in Table[driver].interface : Mentioned(r)
            /\ phase \in {"unloading", "unloaded"} => ~opened
            /\ writing > 0 => opened /\ driver = "leaky"

\* The LED can be on for two drivers, for GPIO_irq only once init has requested the
\* interrupt; their exit functions switch it off, that of GPIO_irq after the
\* interrupt that could switch it on again.
LedInv == /\ led # 0 => driver = "gpio" \/ (driver = "irq" /\ Mentioned("irq"))
          /\ phase = "unloading" /\ led # 0 => "led_off" \in Names(undo)
          /\ phase = "unloading" /\ "irq" \in held => undo = irq_exit
          /\ phase = "unloaded" => led = 0 /\ "irq" \notin held

IInv == /\ TypeInv /\ HeldInv /\ DemoInv /\ ReadyInv /\ UndoInv
        /\ LeftInv /\ FilesInv /\ LedInv

-----------------------------------------------------------------------------
(* What the state machine needs of the tables *)

\* The names of a list without its first are the others.
LEMMA ListTail ==
    ASSUME NEW a, Lists(a), a # <<>>
    PROVE  Lists(Tail(a)) /\ Names(Tail(a)) = Names(a) \ {Head(a)}
<1> DEFINE n == Len(a)
           b == Tail(a)
<1>1. a \in Seq(Names(a)) /\ Once(a) BY DEF Lists
<1>2. n \in Nat /\ n > 0 BY <1>1
<1>3. Len(b) = n - 1 /\ \A k \in 1 .. n - 1 : b[k] = a[k + 1] BY <1>1, <1>2
<1>4. Head(a) = a[1] BY <1>1, <1>2
<1>5. \A k \in 1 .. n - 1 : k + 1 \in 1 .. n /\ k + 1 # 1 BY <1>2
<1>6. \A k \in 1 .. n : k # 1 => k - 1 \in 1 .. n - 1 /\ k - 1 + 1 = k BY <1>2
<1>7. 1 \in 1 .. n BY <1>2
<1>8. Names(b) = Names(a) \ {Head(a)}
  <2>1. \A k \in 1 .. n - 1 : b[k] \in Names(a) /\ b[k] # a[1]
    BY <1>1, <1>3, <1>5, <1>7 DEF Names, Once
  <2>2. \A k \in 1 .. n : a[k] # a[1] => a[k] \in Names(b)
    <3> TAKE k \in 1 .. n
    <3> HAVE a[k] # a[1]
    <3>1. k - 1 \in 1 .. n - 1 /\ a[k] = b[k - 1] BY <1>3, <1>6
    <3> QED BY <3>1, <1>3 DEF Names
  <2> QED BY <2>1, <2>2, <1>3, <1>4, SMTT(30) DEF Names
<1>9. Once(b)
  <2> SUFFICES ASSUME NEW k \in 1 .. n - 1, NEW m \in 1 .. n - 1, b[k] = b[m]
               PROVE  k = m
    BY <1>3 DEF Once
  <2>1. k + 1 = m + 1 BY <1>1, <1>3, <1>5 DEF Once
  <2> QED BY <2>1
<1>10. b \in Seq(Names(b))
  <2>1. \A k \in 2 .. n : a[k] \in Names(b)
    <3> TAKE k \in 2 .. n
    <3>1. k - 1 \in 1 .. n - 1 /\ b[k - 1] = a[k] BY <1>2, <1>3
    <3> QED BY <3>1, <1>3 DEF Names
  <2>2. b = SubSeq(a, 2, n) BY <1>1, TailIsSubSeq
  <2> HIDE DEF b
  <2> QED BY <2>1, <2>2, <1>2, SubSeqProperties
<1> QED BY <1>8, <1>9, <1>10 DEF Lists

\* The driver's tables are proper.
LEMMA IsProper == ASSUME TypeInv PROVE Proper(driver, steps, Table[driver].exit)
BY AllProper, DriversAssumption DEF TypeInv, steps

\* A step of init adds itself to those that init has come past.
LEMMA Advances ==
    ASSUME TypeInv, Loading, driver' = driver, step' = step + 1
    PROVE  /\ steps' = steps
           /\ Taken' = Taken \cup {now}
           /\ ProperStep(driver, steps, step)
           /\ step' \in 1 .. Len(steps) + 1
<1>1. Len(steps) \in Nat /\ step \in 1 .. Len(steps) BY IsProper DEF Proper, TypeInv, Loading
<1>2. steps' = steps BY DEF steps
<1>3. Before(steps, step + 1) = Taken \cup {now} BY <1>1 DEF Before, Taken, now
<1>4. ProperStep(driver, steps, step) BY <1>1, IsProper DEF Proper
<1> QED BY <1>1, <1>2, <1>3, <1>4 DEF Taken

\* All other actions leave init where it is.
LEMMA Stays ==
    ASSUME UNCHANGED <<driver, step>>
    PROVE  steps' = steps /\ now' = now /\ Taken' = Taken
BY DEF steps, now, Taken

\* The resources that only one driver has, among the steps of init.
LEMMA TakenOwn == ASSUME TypeInv PROVE \A x \in Taken : Own(driver, x)
<1>1. \A n \in 1 .. Len(steps) : Own(driver, steps[n]) BY IsProper DEF Proper, ProperStep
<1>2. \A n \in 1 .. step - 1 : n \in 1 .. Len(steps) BY IsProper DEF Proper, TypeInv
<1> QED BY <1>1, <1>2 DEF Taken, Before

\* The tables themselves, where Proper does not tell enough: init of the kmalloc
\* demonstration takes the upper half of its first block once, with the block.
LEMMA DemoSteps ==
    LET s == Table["demo"].init
    IN  /\ Len(s) = 13
        /\ s[4].kind = "take" /\ s[4].res = "high1" /\ s[4].when = {"block1"}
        /\ \A n \in 5 .. 13 : s[n].res \notin {"block1", "high1"}
<1> DEFINE s == demo_init
<1>1. /\ Len(s) = 13
      /\ s[4] = If("block1", Take("high1"))
      /\ s[5] = If("block1", Ignored("block2"))
      /\ s[6] = If("block2", Take("low2"))
      /\ s[7] = If("block2", Take("high2"))
      /\ s[8] = If("block1", Give("low1"))
      /\ s[9] = If("block2", Give("low2"))
      /\ s[10] = Ignored("kptr")
      /\ s[11] = If("kptr", Give("kptr"))
      /\ s[12] = Ignored("vptr")
      /\ s[13] = If("vptr", Give("vptr"))
  BY DEF demo_init, fragment_memory, run_test
<1> HIDE DEF s
<1>2. /\ s[4].kind = "take" /\ s[4].res = "high1" /\ s[4].when = {"block1"}
      /\ s[5].res = "block2" /\ s[6].res = "low2" /\ s[7].res = "high2"
      /\ s[8].res = "low1" /\ s[9].res = "low2" /\ s[10].res = "kptr"
      /\ s[11].res = "kptr" /\ s[12].res = "vptr" /\ s[13].res = "vptr"
  BY <1>1, StepFields
<1>3. \A n \in 5 .. 13 : n \in {5, 6, 7, 8, 9, 10, 11, 12, 13} OBVIOUS
<1>4. \A n \in 5 .. 13 : s[n].res \notin {"block1", "high1"} BY <1>2, <1>3
<1>5. Table["demo"].init = demo_init BY DEF Table, Driver
<1> QED BY <1>1, <1>2, <1>4, <1>5 DEF s

\* The exit functions.
LEMMA Exits == /\ Table["irq"].exit = irq_exit
               /\ Head(irq_exit) = "irq" /\ irq_exit # <<>>
               /\ "led_off" \in Names(irq_exit)
               /\ "led_off" \in Names(Table["gpio"].exit)
               /\ "buffer" \in Names(Table["leaky"].exit)
<1>1. /\ Table["irq"].exit = irq_exit /\ Table["gpio"].exit = gpio_exit
      /\ Table["leaky"].exit = leaky_exit
  BY DEF Table, Driver
<1>2. Head(irq_exit) = "irq" /\ irq_exit # <<>> BY DEF irq_exit
<1>3. "led_off" \in Names(irq_exit) BY ListFour DEF irq_exit
<1>4. "led_off" \in Names(gpio_exit) BY ListFive DEF gpio_exit
<1>5. "buffer" \in Names(leaky_exit) BY ListFour DEF leaky_exit
<1> QED BY <1>1, <1>2, <1>3, <1>4, <1>5

\* What makes the callbacks reachable, and what they need.
LEMMA Interfaces ==
    /\ \A d \in {"gold", "fixed", "leaky"} : Table[d].interface = {"cdev", "device"}
    /\ Table["demo"].interface = {}
    /\ Table["irq"].interface = {"irq"} /\ Table["irq"].needs = {"led"}
    /\ Table["monster"].interface = {"proc"} /\ Table["monster"].needs = {"monster"}
    /\ Table["keylogger"].interface = {"timer"} /\ Table["keylogger"].needs = {"timer_fn"}
    /\ \A d \in {"connection", "keylogger_connection"} :
          Table[d].interface = {"open"} /\ Table[d].needs = {"kbd"}
    /\ \A d \in {"kbdmon", "timing", "sequence"} :
          Table[d].interface = {"handler"} /\ Table[d].needs = {}
    /\ Table["kbdmon_chrdev"].needs = {}
    /\ \A d \in DOMAIN Table :
          \/ Table[d].interface = chrdev
          \/ d \in {"demo", "irq", "monster", "kbdmon", "timing", "sequence", "kbdmon_chrdev",
                    "keylogger", "connection", "keylogger_connection"}
BY DEF Table, Driver, chrdev

\* The files that matter to FileKeepsModule and to the leak demonstration.
LEMMA OpenedDevice ==
    ASSUME FilesInv, opened
    PROVE  /\ driver \in Careful => driver \in {"gold", "fixed"}
           /\ driver \in {"gold", "fixed", "leaky"} => Mentioned("device")
BY Interfaces DEF FilesInv, HasFile, Careful

\* Init of these drivers gives up or crashes only before the device.
LEMMA NoDoor ==
    ASSUME TypeInv, phase \in {"undoing", "failed", "crashed"} \/ (Loading /\ Fallible(now))
    PROVE  \A r \in Doors(driver) : ~Mentioned(r)
<1>1. step \in 1 .. Len(steps) /\ (Fallible(now) \/ now.kind = "use") BY IsProper DEF Proper, TypeInv, Loading
<1>2. ProperStep(driver, steps, step) BY <1>1, IsProper DEF Proper
<1> QED BY <1>1, <1>2 DEF ProperStep, Mentioned, Taken, now

-----------------------------------------------------------------------------
(* The actions *)

\* What is held after a step that the kernel grants or refuses unnoticed: what was
\* held, and what the step obtains, perhaps over a buffer that a write has stored.
LEMMA StoreIs ==
    ASSUME TypeInv, HeldInv, Loading, Obtains(now), NEW granted \in BOOLEAN
    PROVE  LET h == Store(now.res, granted)
           IN  /\ h \subseteq held \cup {now.res, "lost"}
               /\ held \ {now.res} \subseteq h
               /\ now.res \in h => granted
               /\ granted => now.res \in h
               /\ "lost" \in h => driver = "leaky" /\ Mentioned("device")
<1>1. ProperStep(driver, steps, step) BY IsProper DEF Proper, TypeInv, Loading
<1>2. now.res # "lost" /\ \A x \in Taken : x.res # now.res
  BY <1>1 DEF ProperStep, Own, now, Taken
<1>3. now.res \in held => driver = "leaky" /\ Mentioned("device") BY <1>2 DEF HeldInv
<1>4. "lost" \in held => driver = "leaky" /\ Mentioned("device")
  BY TakenOwn DEF HeldInv, Own
<1> QED BY <1>2, <1>3, <1>4 DEF Store

\* What init does next keeps what is held in step with the steps taken.
LEMMA AdvanceKeepsHeld ==
    ASSUME IInv, Granted \/ Unnoticed \/ Skipped
    PROVE  HeldInv'
<1> USE DEF IInv
<1>1. /\ Loading /\ phase = "loading" /\ UNCHANGED <<driver, phase>> /\ step' = step + 1
      /\ Taken' = Taken \cup {now}
      /\ ProperStep(driver, steps, step)
  BY Advances DEF Granted, Unnoticed, Skipped, Loading
<1>2. \/ held' \subseteq held
      \/ Obtains(now) /\ \E g \in BOOLEAN : held' = Store(now.res, g)
  <2>1. CASE Granted BY <2>1 DEF Granted, Obtains
  <2>2. CASE Unnoticed BY <2>2 DEF Unnoticed, Obtains
  <2>3. CASE Skipped BY <2>3 DEF Skipped
  <2> QED BY <2>1, <2>2, <2>3
<1>3. \A r \in held' : \/ \E x \in Taken' : x.res = r /\ Obtains(x)
                       \/ r \in {"buffer", "lost"} /\ driver = "leaky" /\ Mentioned("device")
  <2>1. \A r \in held : \/ \E x \in Taken' : x.res = r /\ Obtains(x)
                        \/ r \in {"buffer", "lost"} /\ driver = "leaky" /\ Mentioned("device")
    BY <1>1 DEF HeldInv
  <2>2. ASSUME Obtains(now), NEW g \in BOOLEAN, held' = Store(now.res, g), NEW r \in held'
        PROVE  \/ \E x \in Taken' : x.res = r /\ Obtains(x)
               \/ r \in {"buffer", "lost"} /\ driver = "leaky" /\ Mentioned("device")
    <3>1. /\ held' \subseteq held \cup {now.res, "lost"}
          /\ "lost" \in held' => driver = "leaky" /\ Mentioned("device")
      BY <1>1, <2>2, StoreIs
    <3>2. r \in held \cup {now.res, "lost"} BY <2>2, <3>1
    <3> QED BY <1>1, <2>1, <2>2, <3>1, <3>2
  <2> QED BY <1>2, <2>1, <2>2
<1>4. ASSUME NEW x \in Taken', Sure(x) PROVE x.res \in held'
  <2>1. CASE x \in Taken
    <3>1. x.res \in held BY <1>1, <1>4, <2>1 DEF HeldInv
    <3>2. CASE Obtains(now)
      <4>1. x.res # now.res BY <1>1, <2>1, <3>2 DEF ProperStep, now, Taken
      <4>2. held' = held \/ \E g \in BOOLEAN : held' = Store(now.res, g)
        BY <3>2 DEF Granted, Unnoticed, Skipped, Obtains
      <4> QED BY <1>1, <3>1, <3>2, <4>1, <4>2, StoreIs
    <3>3. CASE now.kind = "give"
      <4>1. x.res # now.res BY <1>1, <1>4, <2>1, <3>3 DEF ProperStep, now, Taken
      <4> QED BY <3>1, <3>3, <4>1 DEF Granted, Unnoticed, Skipped
    <3>4. CASE ~Obtains(now) /\ now.kind # "give"
      BY <3>1, <3>4 DEF Granted, Unnoticed, Skipped, Obtains
    <3> QED BY <3>2, <3>3, <3>4
  <2>2. CASE x = now
    <3>1. Applies BY <1>4, <2>2 DEF Sure, Applies
    <3>2. CASE now.kind = "use"
      <4>1. now.res \in held /\ held' = held BY <3>1, <3>2 DEF Granted, Unnoticed, Skipped
      <4> QED BY <2>2, <4>1
    <3>3. CASE now.kind \in {"try", "take"}
      <4>1. Obtains(now) BY <3>3 DEF Obtains
      <4>2. held' = Store(now.res, TRUE)
        BY <3>1, <3>3 DEF Granted, Unnoticed, Skipped
      <4> QED BY <1>1, <2>2, <4>1, <4>2, StoreIs
    <3> QED BY <1>4, <2>2, <3>2, <3>3 DEF Sure
  <2> QED BY <1>1, <2>1, <2>2
<1>5. ASSUME NEW x \in Taken', NEW r \in held', GivesBack(x, r) PROVE FALSE
  <2>1. \/ held' \subseteq held
        \/ Obtains(now) /\ held' \subseteq held \cup {now.res, "lost"}
    BY <1>1, <1>2, StoreIs
  <2>3. CASE x \in Taken
    <3>1. r \notin held BY <1>1, <1>5, <2>3 DEF HeldInv
    <3>2. Obtains(now) => r # now.res
      BY <1>1, <1>5, <2>3 DEF GivesBack, ProperStep, now, Taken
    <3>3. r # "lost" BY <1>5, <2>3, TakenOwn DEF GivesBack, Own
    <3> QED BY <2>1, <3>1, <3>2, <3>3
  <2>4. CASE x = now
    <3>1. now.kind = "give" /\ now.res = r /\ now.when = {r} BY <1>5, <2>4 DEF GivesBack
    <3>2. held' = held \ {r} \/ (held' = held /\ r \notin held)
      BY <3>1 DEF Granted, Unnoticed, Skipped, Applies
    <3> QED BY <3>2
  <2> QED BY <1>1, <2>3, <2>4
<1>6. \A r : Mentioned(r) => Mentioned(r)' BY <1>1 DEF Mentioned
<1> QED BY <1>1, <1>3, <1>4, <1>5, <1>6 DEF HeldInv

\* Init goes on: the kernel grants a step, refuses it unnoticed, or it is skipped.
LEMMA AdvanceKeeps ==
    ASSUME IInv, Granted \/ Unnoticed \/ Skipped
    PROVE  IInv'
<1> USE DEF IInv
<1>1. /\ Loading /\ phase = "loading" /\ step' = step + 1
      /\ UNCHANGED <<driver, phase, undo, stray, opened, writing>>
      /\ steps' = steps
      /\ Taken' = Taken \cup {now}
      /\ ProperStep(driver, steps, step)
      /\ step' \in 1 .. Len(steps) + 1
  BY Advances DEF Granted, Unnoticed, Skipped, Loading, files
<1>2. TypeInv' BY <1>1 DEF TypeInv
<1>3. HeldInv' BY AdvanceKeepsHeld
<1>4. DemoInv'
  <2> SUFFICES ASSUME driver = "demo", step' > 4, "block1" \in held'
               PROVE  "high1" \in held'
    BY <1>1 DEF DemoInv
  <2>1. /\ Len(steps) = 13
        /\ steps[4].kind = "take" /\ steps[4].res = "high1" /\ steps[4].when = {"block1"}
        /\ \A n \in 5 .. 13 : steps[n].res \notin {"block1", "high1"}
    BY DemoSteps DEF steps
  <2>2. CASE step = 4
    <3>1. now.kind = "take" /\ now.res = "high1" /\ now.when = {"block1"}
      BY <2>1, <2>2 DEF now
    <3> QED BY <3>1 DEF Granted, Unnoticed, Skipped, Applies, Store
  <2>3. CASE step > 4
    <3>1. step \in 5 .. 13 BY <1>1, <2>1, <2>3 DEF TypeInv
    <3>2. now.res \notin {"block1", "high1"} BY <2>1, <3>1 DEF now
    <3>3. /\ "block1" \in held' <=> "block1" \in held
          /\ "high1" \in held' <=> "high1" \in held
      BY <3>2 DEF Granted, Unnoticed, Skipped, Store
    <3> QED BY <1>1, <2>3, <3>3 DEF DemoInv
  <2> QED BY <1>1, <2>2, <2>3 DEF TypeInv
<1>5. ReadyInv'
  <2>1. ready \subseteq ready' BY DEF Granted, Unnoticed, Skipped
  <2>2. now.kind = "ready" => now.res \in ready'
    BY <1>1 DEF Granted, Unnoticed, Skipped, Applies, ProperStep, now
  <2> QED BY <1>1, <2>1, <2>2 DEF ReadyInv
<1>6. UndoInv' /\ LeftInv' BY <1>1 DEF UndoInv, LeftInv, Strays
<1>7. FilesInv'
  <2>1. \A r : Mentioned(r) => Mentioned(r)' BY <1>1 DEF Mentioned
  <2> QED BY <1>1, <2>1 DEF FilesInv, HasFile
<1>8. LedInv'
  <2>1. now.res = "led_on" => driver = "gpio" BY <1>1 DEF ProperStep, Own, now
  <2>2. led' # 0 => led # 0 \/ driver = "gpio"
    BY <2>1 DEF Granted, Unnoticed, Skipped, LedAfter
  <2>3. Mentioned("irq") => Mentioned("irq")' BY <1>1 DEF Mentioned
  <2> QED BY <1>1, <2>2, <2>3 DEF LedInv
<1> QED BY <1>2, <1>3, <1>4, <1>5, <1>6, <1>7, <1>8

\* A list that undoes the steps that init has come past can be released: it names
\* what is held and may be released, unless it is known to be left.
LEMMA UndoStarts ==
    ASSUME TypeInv, HeldInv, phase \in {"loading", "loaded"},
           NEW seq, NEW left, NEW spare, Undoes(Taken, seq, left, spare),
           driver = "leaky" /\ Mentioned("device") =>
               {"buffer", "lost"} \subseteq Names(seq) \cup left
    PROVE  /\ Lists(seq) /\ "led_on" \notin Names(seq)
           /\ held \subseteq Names(seq) \cup left
           /\ Names(seq) \subseteq held \cup Strays(driver) \cup NeverStray \cup spare
<1>1. held \subseteq Names(seq) \cup left
  <2> SUFFICES ASSUME NEW r \in held PROVE r \in Names(seq) \cup left OBVIOUS
  <2>1. CASE \E x \in Taken : x.res = r /\ Obtains(x)
    <3>1. \A y \in Taken : ~GivesBack(y, r) BY DEF HeldInv
    <3> QED BY <2>1, <3>1 DEF Undoes, Covers
  <2>2. CASE r \in {"buffer", "lost"} /\ driver = "leaky" /\ Mentioned("device") BY <2>2
  <2> QED BY <2>1, <2>2 DEF HeldInv
<1>2. \A x \in Taken : x.kind = "ignored" => x.res \in Strays(driver)
  <2>1. \A n \in 1 .. step - 1 : n \in 1 .. Len(steps) BY IsProper DEF Proper, TypeInv
  <2>2. \A n \in 1 .. Len(steps) : steps[n].kind = "ignored" => steps[n].res \in Strays(driver)
    BY DEF Strays, steps
  <2> QED BY <2>1, <2>2 DEF Taken, Before
<1>3. \A x \in Taken : Accounted(x) => x.res \in held \cup Strays(driver)
  BY <1>2 DEF Accounted, HeldInv
<1>4. Names(seq) \subseteq held \cup Strays(driver) \cup NeverStray \cup spare
  BY <1>3 DEF Undoes, Spares
<1> QED BY <1>1, <1>4 DEF Undoes

\* Init gives up.
LEMMA RefusedKeeps == ASSUME IInv, Refused PROVE IInv'
<1> USE DEF IInv
<1>1. /\ Loading /\ phase = "loading" /\ phase' = "undoing" /\ undo' = now.undo
      /\ UNCHANGED <<driver, step, held, ready, stray, opened, writing, led>>
      /\ Fallible(now)
  BY DEF Refused, Loading, files, Fallible
<1>2. step <= Len(steps) /\ ProperStep(driver, steps, step)
  BY <1>1, IsProper DEF Proper, TypeInv, Loading
<1>3. Undoes(Taken, now.undo, Leaves(driver, "failed"), Spare(driver))
  BY <1>1, <1>2 DEF ProperStep, Taken, now
<1>4. ~(driver = "leaky" /\ Mentioned("device")) BY <1>1, NoDoor DEF Doors
<1>5. steps' = steps /\ now' = now /\ Taken' = Taken BY <1>1, Stays
<1>6. TypeInv' BY <1>1, <1>2, <1>5 DEF TypeInv
<1>7. HeldInv' BY <1>1, <1>5 DEF HeldInv, Mentioned
<1>8. UndoInv'
  <2>1. /\ Lists(undo') /\ "led_on" \notin Names(undo')
        /\ held \subseteq Names(undo') \cup Leaves(driver, "failed")
        /\ Names(undo') \subseteq held \cup Strays(driver) \cup NeverStray \cup Spare(driver)
    BY <1>1, <1>3, <1>4, UndoStarts
  <2>2. Spare(driver) \subseteq Strays(driver) BY DEF Spare, Strays
  <2> QED BY <1>1, <2>1, <2>2 DEF UndoInv, Strays
<1>9. DemoInv' /\ ReadyInv' /\ LeftInv' /\ FilesInv' /\ LedInv'
  BY <1>1, <1>5 DEF DemoInv, ReadyInv, LeftInv, Strays, FilesInv, HasFile, Mentioned, LedInv
<1> QED BY <1>6, <1>7, <1>8, <1>9

\* Init crashes.
LEMMA CrashKeeps == ASSUME IInv, Crash PROVE IInv'
<1> USE DEF IInv
<1>1. /\ phase = "loading" /\ phase' = "crashed" /\ step <= Len(steps) /\ now.kind = "use"
      /\ UNCHANGED <<driver, step, held, ready, undo, stray, opened, writing, led>>
  BY DEF Crash, Loading, files
<1>2. steps' = steps /\ now' = now /\ Taken' = Taken BY <1>1, Stays
<1>3. TypeInv' BY <1>1, <1>2 DEF TypeInv
<1> QED BY <1>1, <1>2, <1>3 DEF HeldInv, DemoInv, ReadyInv, UndoInv, LeftInv, Strays, FilesInv,
           HasFile, Mentioned, LedInv

\* Init is done.
LEMMA LoadedKeeps == ASSUME IInv, Loaded PROVE IInv'
<1> USE DEF IInv
<1>1. /\ phase = "loading" /\ phase' = "loaded" /\ step > Len(steps)
      /\ UNCHANGED <<driver, step, held, ready, undo, stray, opened, writing, led>>
  BY DEF Loaded, files
<1>2. steps' = steps /\ now' = now /\ Taken' = Taken BY <1>1, Stays
<1>3. step = Len(steps) + 1 BY <1>1, IsProper DEF Proper, TypeInv
<1>4. TypeInv' BY <1>1, <1>2, <1>3 DEF TypeInv
<1> QED BY <1>1, <1>2, <1>4 DEF HeldInv, DemoInv, ReadyInv, UndoInv, LeftInv, Strays, FilesInv,
           HasFile, Mentioned, LedInv

\* rmmod: the exit function starts to release.
LEMMA UnloadKeeps == ASSUME IInv, Unload PROVE IInv'
<1> USE DEF IInv
<1>1. /\ phase = "loaded" /\ phase' = "unloading" /\ undo' = Table[driver].exit /\ ~opened
      /\ UNCHANGED <<driver, step, held, ready, stray, opened, writing, led>>
  BY DEF Unload, files
<1>2. steps' = steps /\ now' = now /\ Taken' = Taken BY <1>1, Stays
<1>3. Undoes(Taken, undo', Leaves(driver, "unloaded"), SpareAtExit(driver))
  BY <1>1, IsProper DEF TypeInv, Proper, ProperExit, Taken
<1>4. driver = "leaky" => {"buffer", "lost"} \subseteq Names(undo') \cup Leaves(driver, "unloaded")
  BY <1>1, Exits DEF Leaves
<1>5. TypeInv' BY <1>1, <1>2 DEF TypeInv
<1>6. HeldInv' BY <1>1, <1>2 DEF HeldInv, Mentioned
<1>7. UndoInv'
  <2>1. /\ Lists(undo') /\ "led_on" \notin Names(undo')
        /\ held \subseteq Names(undo') \cup Leaves(driver, "unloaded")
        /\ Names(undo') \subseteq held \cup Strays(driver) \cup NeverStray \cup SpareAtExit(driver)
    BY <1>1, <1>3, <1>4, UndoStarts
  <2>2. SpareAtExit(driver) \subseteq Strays(driver) \cup
                                      (IF driver = "demo" THEN {"high1"} ELSE {})
    BY DEF SpareAtExit, Spare, Strays
  <2>3. driver = "demo" => ("block1" \in held => "high1" \in held)
    <3>1. driver = "demo" => Len(steps) = 13 BY DemoSteps DEF steps
    <3>2. step = Len(steps) + 1 /\ Len(steps) \in Nat BY <1>1, IsProper DEF Proper, TypeInv
    <3>3. driver = "demo" => step > 4 BY <3>1, <3>2
    <3> QED BY <1>1, <3>3 DEF DemoInv
  <2> QED BY <1>1, <2>1, <2>2, <2>3 DEF UndoInv, Strays
<1>8. LedInv'
  <2>1. led # 0 => "led_off" \in Names(undo') BY <1>1, Exits DEF LedInv
  <2>2. "irq" \in held => driver = "irq"
    BY TakenOwn DEF HeldInv, Own
  <2> QED BY <1>1, <1>2, <2>1, <2>2, Exits DEF LedInv, Mentioned
<1>9. DemoInv' /\ ReadyInv' /\ LeftInv' /\ FilesInv'
  BY <1>1, <1>2 DEF DemoInv, ReadyInv, LeftInv, Strays, FilesInv, HasFile, Mentioned
<1> QED BY <1>5, <1>6, <1>7, <1>8, <1>9

\* One resource is released.
LEMMA ReleaseKeeps == ASSUME IInv, Release PROVE IInv'
<1> USE DEF IInv
<1> DEFINE res == Head(undo)
<1>1. /\ phase \in {"undoing", "unloading"} /\ undo # <<>>
      /\ undo' = Tail(undo) /\ held' = held \ {res} /\ led' = LedAfter(res)
      /\ \/ stray' = stray
         \/ /\ stray' = stray \cup {res}
            /\ res \notin held
            /\ ~Harmless(res) \/ Unwritten(res)
      /\ UNCHANGED <<driver, phase, step, ready, opened, writing>>
  BY DEF Release, files
<1>2. steps' = steps /\ now' = now /\ Taken' = Taken BY <1>1, Stays
<1>3. /\ Lists(undo') /\ Names(undo') = Names(undo) \ {res}
      /\ res \in Names(undo)
  <2>1. Lists(undo) BY <1>1 DEF UndoInv
  <2>2. res = undo[1] /\ 1 \in 1 .. Len(undo) BY <1>1, <2>1 DEF Lists
  <2> QED BY <1>1, <2>1, <2>2, ListTail DEF Names
<1> HIDE DEF res
<1>4. TypeInv' BY <1>1, <1>2 DEF TypeInv
<1>5. HeldInv' BY <1>1, <1>2 DEF HeldInv, Mentioned
<1>6. UndoInv' BY <1>1, <1>3 DEF UndoInv, Strays
<1>7. LeftInv'
  <2>1. CASE stray' = stray BY <1>1, <2>1 DEF LeftInv, Strays
  <2>2. CASE res \notin held /\ (~Harmless(res) \/ Unwritten(res))
    <3>1. res \notin NeverStray BY <2>2 DEF Harmless, Unwritten, NeverStray
    <3>2. ~(res = "high1" /\ "block1" \notin held) BY <2>2 DEF Harmless, Unwritten, BlockOf
    <3>3. res \in Strays(driver) BY <1>1, <1>3, <2>2, <3>1, <3>2 DEF UndoInv
    <3> QED BY <1>1, <3>3 DEF LeftInv, Strays
  <2> QED BY <1>1, <2>1, <2>2
<1>8. LedInv'
  <2>1. res # "led_on" BY <1>1, <1>3 DEF UndoInv
  <2>2. led' # 0 => led # 0 /\ res # "led_off" BY <1>1, <2>1 DEF LedAfter
  <2>3. phase = "unloading" => "irq" \notin held'
    BY <1>1, Exits DEF LedInv, res
  <2> QED BY <1>1, <1>2, <1>3, <2>2, <2>3 DEF LedInv, Mentioned
<1>9. DemoInv' /\ ReadyInv' /\ FilesInv'
  BY <1>1, <1>2 DEF DemoInv, ReadyInv, FilesInv, HasFile, Mentioned
<1> QED BY <1>4, <1>5, <1>6, <1>7, <1>8, <1>9

\* All is released.
LEMMA GoneKeeps == ASSUME IInv, Gone PROVE IInv'
<1> USE DEF IInv
<1>1. /\ phase \in {"undoing", "unloading"} /\ undo = <<>>
      /\ phase' = IF phase = "undoing" THEN "failed" ELSE "unloaded"
      /\ UNCHANGED <<driver, step, held, ready, undo, stray, opened, writing, led>>
  BY DEF Gone, files
<1>2. steps' = steps /\ now' = now /\ Taken' = Taken BY <1>1, Stays
<1>3. Names(undo) = {} BY <1>1, ListNone
<1>4. TypeInv' BY <1>1, <1>2 DEF TypeInv
<1>5. LeftInv' BY <1>1, <1>3 DEF UndoInv, LeftInv, Strays
<1>6. LedInv' BY <1>1, <1>2, <1>3, Exits DEF LedInv, Mentioned
<1>7. HeldInv' /\ DemoInv' /\ ReadyInv' /\ UndoInv' /\ FilesInv'
  BY <1>1, <1>2 DEF HeldInv, DemoInv, ReadyInv, UndoInv, FilesInv, HasFile, Mentioned
<1> QED BY <1>4, <1>5, <1>6, <1>7

\* A process opens the device, or closes it.
LEMMA OpenCloseKeeps == ASSUME IInv, Open \/ Close PROVE IInv'
<1> USE DEF IInv
<1>1. UNCHANGED <<driver, phase, step, held, ready, undo, stray, writing, led>>
  BY DEF Open, Close
<1>2. steps' = steps /\ now' = now /\ Taken' = Taken BY <1>1, Stays
<1>3. TypeInv' BY <1>1, <1>2 DEF TypeInv, Open, Close
<1>4. FilesInv'
  <2>1. CASE Open
    <3>1. /\ phase \in {"loading", "undoing", "crashed", "loaded"}
          /\ HasFile /\ Table[driver].interface \subseteq held
      BY <2>1 DEF Open, Live
    <3>2. \A r \in Table[driver].interface : Mentioned(r)
      BY <3>1 DEF HeldInv, HasFile, Mentioned
    <3> QED BY <1>1, <1>2, <2>1, <3>1, <3>2 DEF Open, FilesInv, HasFile, Mentioned
  <2>2. CASE Close BY <1>1, <1>2, <2>2 DEF Close, FilesInv, HasFile, Mentioned
  <2> QED BY <2>1, <2>2
<1>5. HeldInv' /\ DemoInv' /\ ReadyInv' /\ UndoInv' /\ LeftInv' /\ LedInv'
  BY <1>1, <1>2 DEF HeldInv, DemoInv, ReadyInv, UndoInv, LeftInv, Strays, LedInv, Mentioned
<1> QED BY <1>3, <1>4, <1>5

\* A write to the leak demonstration.
LEMMA WriteKeeps == ASSUME IInv, WriteTest \/ WriteAlloc PROVE IInv'
<1> USE DEF IInv
<1>1. /\ UNCHANGED <<driver, phase, step, ready, undo, stray, opened, led>>
      /\ driver = "leaky" /\ opened
  BY DEF WriteTest, WriteAlloc, FilesInv
<1>2. steps' = steps /\ now' = now /\ Taken' = Taken BY <1>1, Stays
<1>3. TypeInv' BY <1>1, <1>2 DEF TypeInv, WriteTest, WriteAlloc
<1>4. Mentioned("device") /\ phase \in {"loading", "loaded"}
  <2>1. Mentioned("device") BY <1>1, OpenedDevice
  <2> QED BY <1>1, <2>1, NoDoor DEF TypeInv, FilesInv, Doors
<1>5. /\ held' \subseteq held \cup {"buffer", "lost"}
      /\ held \ {"buffer"} \subseteq held'
  BY DEF WriteTest, WriteAlloc, Store
<1>6. HeldInv'
  <2>1. \A x \in Taken : x.res # "lost" /\ (x.res = "buffer" => x.kind = "ignored")
    BY TakenOwn DEF Own
  <2>2. \A r \in held' : \/ \E x \in Taken : x.res = r /\ Obtains(x)
                         \/ r \in {"buffer", "lost"}
    BY <1>5 DEF HeldInv
  <2>3. \A x \in Taken : Sure(x) => x.res \in held' BY <1>4, <1>5, <2>1 DEF HeldInv, Sure
  <2>4. \A x \in Taken, r \in held' : ~GivesBack(x, r)
    BY <1>4, <1>5, <2>1 DEF HeldInv, GivesBack
  <2> QED BY <1>1, <1>2, <1>4, <2>2, <2>3, <2>4 DEF HeldInv, Mentioned
<1>7. FilesInv' BY <1>1, <1>2, <1>4 DEF FilesInv, HasFile, Mentioned
<1>8. LedInv' BY <1>1, <1>4 DEF LedInv
<1>9. DemoInv' /\ ReadyInv' /\ UndoInv' /\ LeftInv'
  BY <1>1, <1>2, <1>4 DEF DemoInv, ReadyInv, UndoInv, LeftInv, Strays
<1> QED BY <1>3, <1>6, <1>7, <1>8, <1>9

\* A write to the GPIO driver and the interrupt handler set the LED.
LEMMA LedKeeps == ASSUME IInv, GpioWrite \/ gpio_irq_handler PROVE IInv'
<1> USE DEF IInv
<1>1. UNCHANGED <<driver, phase, step, held, ready, undo, stray, opened, writing>>
  BY DEF GpioWrite, gpio_irq_handler, files
<1>2. steps' = steps /\ now' = now /\ Taken' = Taken BY <1>1, Stays
<1>3. TypeInv' BY <1>1, <1>2 DEF TypeInv
<1>4. LedInv'
  <2>1. CASE GpioWrite BY <1>1, <2>1 DEF GpioWrite, FilesInv, LedInv
  <2>2. CASE gpio_irq_handler
    <3>1. "irq" \in held BY <2>2 DEF gpio_irq_handler
    <3>2. driver = "irq" BY <3>1, TakenOwn DEF HeldInv, Own
    <3>3. Mentioned("irq") BY <3>1 DEF HeldInv, Mentioned
    <3> QED BY <1>1, <1>2, <3>1, <3>2, <3>3, Exits DEF LedInv, Mentioned
  <2> QED BY <2>1, <2>2
<1>5. HeldInv' /\ DemoInv' /\ ReadyInv' /\ UndoInv' /\ LeftInv' /\ FilesInv'
  BY <1>1, <1>2 DEF HeldInv, DemoInv, ReadyInv, UndoInv, LeftInv, Strays, FilesInv, HasFile,
                    Mentioned
<1> QED BY <1>3, <1>4, <1>5

\* The invariant holds before the first step of init.
LEMMA InitIInv == Init => IInv
<1> SUFFICES ASSUME Init PROVE IInv OBVIOUS
<1>1. /\ driver \in Drivers /\ phase = "loading" /\ step = 1 /\ held = {} /\ stray = {}
      /\ opened = FALSE /\ writing = 0 /\ led = 0
  BY DEF Init
<1>2. Taken = {} BY <1>1 DEF Taken, Before
<1>3. TypeInv
  <2>1. Proper(driver, steps, Table[driver].exit) BY <1>1, AllProper, DriversAssumption DEF steps
  <2>2. Len(steps) \in Nat BY <2>1 DEF Proper
  <2>3. step \in 1 .. Len(steps) + 1 BY <1>1, <2>2
  <2> QED BY <1>1, <2>3 DEF TypeInv
<1> QED BY <1>1, <1>2, <1>3 DEF IInv, HeldInv, DemoInv, ReadyInv, UndoInv, LeftInv, FilesInv, LedInv

\* Every step keeps it.
LEMMA NextIInv == ASSUME IInv, [Next]_vars PROVE IInv'
<1>1. CASE Granted \/ Unnoticed \/ Skipped BY <1>1, AdvanceKeeps
<1>2. CASE Refused BY <1>2, RefusedKeeps
<1>11. CASE Crash BY <1>11, CrashKeeps
<1>3. CASE Loaded BY <1>3, LoadedKeeps
<1>4. CASE Release BY <1>4, ReleaseKeeps
<1>5. CASE Gone BY <1>5, GoneKeeps
<1>6. CASE Open \/ Close BY <1>6, OpenCloseKeeps
<1>7. CASE Unload BY <1>7, UnloadKeeps
<1>8. CASE WriteTest \/ WriteAlloc BY <1>8, WriteKeeps
<1>9. CASE GpioWrite \/ gpio_irq_handler BY <1>9, LedKeeps
<1>10. CASE UNCHANGED vars
  <2>1. UNCHANGED <<driver, phase, step, held, ready, undo, stray, opened, writing, led>>
    BY <1>10 DEF vars, files
  <2>2. steps' = steps /\ now' = now /\ Taken' = Taken BY <2>1, Stays
  <2> QED BY <2>1, <2>2 DEF IInv, TypeInv, HeldInv, DemoInv, ReadyInv, UndoInv, LeftInv, Strays,
             FilesInv, HasFile, LedInv, Mentioned
<1> QED BY <1>1, <1>2, <1>3, <1>4, <1>5, <1>6, <1>7, <1>8, <1>9, <1>10, <1>11 DEF Next

-----------------------------------------------------------------------------
(* Theorems *)

\* Whatever is refused and whatever the callbacks do, a driver that gives up or is
\* removed leaves nothing behind but what it is known to leave, and releases nothing
\* that it does not hold but what it is known to; init crashes only where it uses what
\* it may have been refused; the LED is off after rmmod, and after a failed load
\* unless LKM_gpio was written to before its pin was refused.
THEOREM NothingLeft == Spec => []RequestsUndone
<1>1. ASSUME IInv, phase = "crashed" PROVE driver \in Trusting
  <2>1. now.kind = "use" /\ step \in 1 .. Len(steps)
    BY <1>1, IsProper DEF IInv, TypeInv, Proper
  <2>2. Own(driver, now) BY <1>1, <2>1, IsProper DEF IInv, Proper, ProperStep, now
  <2> QED BY <2>1, <2>2 DEF Own
<1>2. ASSUME IInv, phase = "failed" PROVE led = 0 \/ driver = "gpio"
  <2>1. driver = "irq" => ~Mentioned("irq") BY <1>2, NoDoor DEF IInv, Doors
  <2> QED BY <1>2, <2>1 DEF IInv, LedInv
<1>3. IInv => RequestsUndone BY <1>1, <1>2 DEF IInv, LeftInv, LedInv, RequestsUndone
<1> QED BY <1>3, InitIInv, NextIInv, PTL DEF Spec

\* No process has a file of a driver open that checks every request, once its init
\* has failed or its exit function runs.
THEOREM NoFileWithoutModule == Spec => []FileKeepsModule
<1>1. IInv => FileKeepsModule
  <2> SUFFICES ASSUME IInv, driver \in Careful, opened,
                      phase \in {"failed", "unloading", "unloaded"}
               PROVE  FALSE
    BY DEF FileKeepsModule
  <2>1. phase = "failed" BY DEF IInv, FilesInv
  <2>2. driver \in {"gold", "fixed"} /\ Mentioned("device") BY OpenedDevice DEF IInv
  <2> QED BY <2>1, <2>2, NoDoor DEF IInv, Doors
<1> QED BY <1>1, InitIInv, NextIInv, PTL DEF Spec

\* The steps of init that prepare what callbacks use come before those that make
\* the callbacks reachable.
LEMMA PreparesFirst ==
    ASSUME TypeInv
    PROVE  /\ driver = "monster" /\ Mentioned("proc") =>
                 \E x \in Taken : x.kind = "ready" /\ x.res = "monster"
           /\ driver = "keylogger" /\ Mentioned("timer") =>
                 \E x \in Taken : x.kind = "ready" /\ x.res = "timer_fn"
           /\ driver \in {"connection", "keylogger_connection"} /\ Mentioned("open") =>
                 \E x \in Taken : Sure(x) /\ x.res = "kbd"
<1>1. ASSUME NEW r, Mentioned(r), NEW n \in 1 .. 2, \A j \in 1 .. n : steps[j].res # r
      PROVE  steps[n] \in Taken
  <2>1. PICK j \in 1 .. step - 1 : steps[j].res = r BY <1>1 DEF Mentioned, Taken, Before
  <2>2. step \in Int /\ n \in 1 .. step - 1 BY <1>1, <2>1, IsProper DEF Proper, TypeInv
  <2> QED BY <2>2 DEF Taken, Before
<1>2. driver = "monster" => steps[1] = Ready("monster")
  BY DEF steps, Table, Driver, kernel_monster_init
<1>3. driver = "keylogger" => steps[1] = Ready("timer_fn")
  BY DEF steps, Table, Driver, keylogger_init
<1>4. driver = "connection" => steps[1] = Try("kbd", <<>>)
  BY DEF steps, Table, Driver, connection_connect
<1>5. driver = "keylogger_connection" => steps[1] = Ignored("kbd") /\ steps[2] = Use("kbd")
  BY DEF steps, Table, Driver, keylogger_connect
<1>6. 1 .. 1 = {1} /\ 1 .. 2 = {1, 2} OBVIOUS
<1>7. CASE driver = "monster" /\ Mentioned("proc")
  BY <1>1, <1>2, <1>6, <1>7, StepFields
<1>8. CASE driver = "keylogger" /\ Mentioned("timer")
  BY <1>1, <1>3, <1>6, <1>8, StepFields
<1>9. CASE driver = "connection" /\ Mentioned("open")
  BY <1>1, <1>4, <1>6, <1>9, StepFields DEF Sure
<1>10. CASE driver = "keylogger_connection" /\ Mentioned("open")
  BY <1>1, <1>5, <1>6, <1>10, StepFields DEF Sure
<1> QED BY <1>7, <1>8, <1>9, <1>10

\* A loaded driver has all that its callbacks need, but for what was refused unnoticed.
LEMMA LoadedHasAll ==
    ASSUME IInv, phase = "loaded", NEW r \in Table[driver].needs
    PROVE  r \in ready \cup held \cup Refusable(driver)
<1>1. driver \in DOMAIN Table BY DriversAssumption DEF IInv, TypeInv
<1>2. Len(steps) \in Nat /\ step - 1 = Len(steps) BY IsProper DEF IInv, TypeInv, Proper
<1>3. \A n \in 1 .. Len(steps) : steps[n] \in Taken BY <1>2 DEF Taken, Before
<1>4. PICK n \in 1 .. Len(steps) : Prepares(steps[n], r) BY <1>1, NeedsPrepared DEF steps
<1>5. CASE steps[n].kind = "ready" BY <1>3, <1>4, <1>5 DEF Prepares, IInv, ReadyInv
<1>6. CASE Sure(steps[n]) BY <1>3, <1>4, <1>6 DEF Prepares, IInv, HeldInv
<1>7. CASE steps[n].kind = "ignored"
  <2>1. CASE \E m \in 1 .. Len(steps) : steps[m].kind = "use" /\ steps[m].res = r
    <3>1. PICK m \in 1 .. Len(steps) : steps[m].kind = "use" /\ steps[m].res = r BY <2>1
    <3>2. ProperStep(driver, steps, m) BY IsProper DEF IInv, Proper
    <3>3. Sure(steps[m]) BY <3>1, <3>2 DEF ProperStep, Sure
    <3> QED BY <1>3, <3>1, <3>3 DEF IInv, HeldInv
  <2>2. CASE ~\E m \in 1 .. Len(steps) : steps[m].kind = "use" /\ steps[m].res = r
    BY <1>4, <1>7, <2>2 DEF Prepares, Refusable, steps
  <2> QED BY <2>1, <2>2
<1> QED BY <1>4, <1>5, <1>6, <1>7 DEF Prepares

\* The callbacks of a loaded driver find prepared what they use, but for what was
\* refused unnoticed; those of the drivers without a character device of their own
\* find it prepared whenever they can be called.
THEOREM PreparedWhenLive == Spec => []ReadyBeforeLive
<1>1. IInv => ReadyBeforeLive
  <2> SUFFICES ASSUME IInv, Live, NEW r \in Table[driver].needs, phase # "loaded",
                      Table[driver].interface # chrdev
               PROVE  r \in ready \cup held \cup Refusable(driver)
    BY LoadedHasAll DEF ReadyBeforeLive, Late
  <2>1. \A x \in held : Mentioned(x) \/ x \in {"buffer", "lost"}
    BY DEF IInv, HeldInv, Mentioned
  <2>2. Table[driver].interface \subseteq held /\ Table[driver].interface # {} BY DEF Live
  <2>3. CASE driver = "monster"
    <3>1. Mentioned("proc") BY <2>1, <2>2, <2>3, Interfaces
    <3> QED BY <2>3, <3>1, PreparesFirst, Interfaces DEF IInv, ReadyInv
  <2>4. CASE driver = "keylogger"
    <3>1. Mentioned("timer") BY <2>1, <2>2, <2>4, Interfaces
    <3> QED BY <2>4, <3>1, PreparesFirst, Interfaces DEF IInv, ReadyInv
  <2>5. CASE driver \in {"connection", "keylogger_connection"}
    <3>1. Mentioned("open") BY <2>1, <2>2, <2>5, Interfaces
    <3>2. phase = "loading" BY <2>5, <3>1, NoDoor DEF IInv, Doors, Live
    <3> QED BY <2>5, <3>1, <3>2, PreparesFirst, Interfaces DEF IInv, HeldInv
  <2>6. CASE driver = "irq"
    <3>1. "led" \in Refusable("irq")
      <4>1. Len(irq_init) = 5 /\ irq_init[1] = Ignored("led") BY DEF irq_init
      <4>2. \A n \in 1 .. 5 : irq_init[n].kind # "use"
        <5>1. /\ irq_init[2] = Output("led_off", <<"led">>)
              /\ irq_init[3] = Try("button", <<"led">>)
              /\ irq_init[4] = Check(<<"button", "led">>)
              /\ irq_init[5] = Try("irq", <<"button", "led">>)
          BY DEF irq_init
        <5>2. 1 .. 5 = {1, 2, 3, 4, 5} OBVIOUS
        <5> QED BY <4>1, <5>1, <5>2, StepFields
      <4>3. Table["irq"].init = irq_init BY DEF Table, Driver
      <4>4. irq_init[1].kind = "ignored" /\ irq_init[1].res = "led" BY <4>1, StepFields
      <4>5. 1 \in 1 .. Len(irq_init) BY <4>1
      <4> HIDE DEF irq_init
      <4> QED BY <4>1, <4>2, <4>3, <4>4, <4>5 DEF Refusable
    <3> QED BY <2>6, <3>1, Interfaces
  <2>7. CASE driver \in {"demo", "kbdmon", "timing", "sequence", "kbdmon_chrdev"}
    BY <2>2, <2>7, Interfaces
  <2>8. driver \in DOMAIN Table BY DriversAssumption DEF IInv, TypeInv
  <2> QED BY <2>3, <2>4, <2>5, <2>6, <2>7, <2>8, Interfaces
<1> QED BY <1>1, InitIInv, NextIInv, PTL DEF Spec
=============================================================================
