--------------------------- MODULE WorkAndWait_proofs ---------------------------
(***************************************************************************)
(* Theorems about three small modules of the course in which one thread    *)
(* waits for another: SleepyDevice (a wait queue), CryptoChallenge (kernel *)
(* threads and a timer) and PocketMonster (a delayed work).  They hold for *)
(* any readers and writers; for any number of cores, any temperatures and  *)
(* any speed of the threads, with refused requests and an unload at every  *)
(* moment; and for all parameters of insmod.                               *)
(*                                                                         *)
(* The induction over the sets that SumFunction adds up is an argument     *)
(* about the smallest counterexample: it needs the well-foundedness of the *)
(* subset relation, which the library states for sets, and no theorem with *)
(* an operator for a parameter.                                            *)
(***************************************************************************)
EXTENDS SleepyDevice, CryptoChallenge, PocketMonster,
        FiniteSetTheorems, SequenceTheorems, TLAPS

-----------------------------------------------------------------------------
(* SleepyDevice *)

\* Every step of a read keeps the invariant: a reader goes to sleep only while the
\* flag is clear, and no reader makes a writer forget its wake-up.
LEMMA ReadKeepsInv ==
    ASSUME NEW r \in Readers, Inv,
           ReadBegin(r) \/ driver_read(r) \/ ReadInterrupted(r)
    PROVE  Inv'
<1> USE DEF Inv, SleepyTypeOK, WakeupPending, Goto, Threads
<1>1. CASE ReadBegin(r) BY <1>1, SMT DEF ReadBegin
<1>2. CASE ReadWait(r) BY <1>2, SMT DEF ReadWait
<1>3. CASE ReadClear(r) BY <1>3, SMT DEF ReadClear
<1>4. CASE ReadInterrupted(r) BY <1>4, SMT DEF ReadInterrupted
<1> QED BY <1>1, <1>2, <1>3, <1>4 DEF driver_read

\* So does every step of a write: the flag is set by one that has yet to wake the
\* queue, and after its wake-up nobody sleeps.
LEMMA WriteKeepsInv ==
    ASSUME NEW w \in Writers, Inv, WriteSet(w) \/ WriteWake(w)
    PROVE  Inv'
<1> USE DEF Inv, SleepyTypeOK, WakeupPending, Goto, Threads
<1>1. CASE WriteSet(w) BY <1>1, SMT DEF WriteSet
<1>2. CASE WriteWake(w)
  <2>1. SleepyTypeOK' BY <1>2, SMT DEF WriteWake
  <2>2. \A r \in Readers : pc'[r] # "rd_sleep" BY <1>2, SMT DEF WriteWake
  <2> QED BY <2>1, <2>2
<1> QED BY <1>1, <1>2

\* No wake-up is missed although flag and queue have no lock: a reader that sleeps
\* beside a set flag has a writer that is about to wake it.
THEOREM NoMissedWakeup == SleepySpec => []Inv
<1>1. SleepyInit => Inv BY SMT DEF SleepyInit, Inv, SleepyTypeOK, WakeupPending, Threads
<1>2. Inv /\ [SleepyNext]_sleepyVars => Inv'
  <2> SUFFICES ASSUME Inv, [SleepyNext]_sleepyVars PROVE Inv' OBVIOUS
  <2>1. CASE SleepyNext BY <2>1, ReadKeepsInv, WriteKeepsInv DEF SleepyNext
  <2>2. CASE UNCHANGED sleepyVars
    BY <2>2 DEF sleepyVars, Inv, SleepyTypeOK, WakeupPending, Threads
  <2> QED BY <2>1, <2>2
<1> QED BY <1>1, <1>2, PTL DEF SleepySpec

-----------------------------------------------------------------------------
(* CryptoChallenge: sums *)

\* The element with which the fold begins.
First(s) == CHOOSE x \in s : TRUE
SumStep(f, g, s) == IF s = {} THEN 0 ELSE f[First(s)] + g[s \ {First(s)}]

\* The sum of the library is the value of a recursion over the subsets.
LEMMA Unfold ==
  ASSUME NEW f, NEW S
  PROVE  SumFunctionOnSet(f, S) = (CHOOSE g : g = [s \in SUBSET S |-> SumStep(f, g, s)])[S]
BY DEF SumFunctionOnSet, FoldFunctionOnSet, MapThenFoldSet, SumStep, First

\* Each set but the empty one has an element to begin with.
LEMMA FirstIn == ASSUME NEW s, s # {} PROVE First(s) \in s
BY DEF First

\* The intervals 0 .. m with m in T have a smallest one.
LEMMA SmallestNumber == ASSUME NEW T \in SUBSET Nat, T # {}
                        PROVE  \E m \in T : \A k \in T : m <= k
<1> PICK n \in T : TRUE OBVIOUS
<1> DEFINE I == {0 .. m : m \in {k \in T : k <= n}}
<1>1. IsFiniteSet(0 .. n) BY FS_Interval
<1>2. I \subseteq SUBSET (0 .. n) OBVIOUS
<1>3. I # {} OBVIOUS
<1>4. IsWellFoundedOn(StrictSubsetOrdering(0..n), SUBSET (0 .. n))
  BY <1>1, FS_StrictSubsetOrderingWellFounded, FS_FiniteSubsetsOfFinite
<1>5. PICK x \in I : \A y \in I : ~(<<y, x>> \in StrictSubsetOrdering(0 .. n))
  <2> HIDE DEF I
  <2> QED BY <1>2, <1>3, <1>4, WFMin
<1>6. PICK m \in T : m <= n /\ x = 0 .. m OBVIOUS
<1>7. ASSUME NEW k \in T, k < m PROVE FALSE
  <2>1. (0 .. k) \in I BY <1>6, <1>7
  <2>2. (0 .. k) \subseteq x /\ (0 .. k) # x BY <1>6, <1>7
  <2>3. <<0 .. k, x>> \in StrictSubsetOrdering(0 .. n)
    BY <1>2, <2>1, <2>2 DEF StrictSubsetOrdering
  <2> QED BY <1>5, <2>1, <2>3
<1> QED BY <1>6, <1>7

\* The recursion has a solution: it has one for the subsets of at most n elements,
\* by induction on n.
LEMMA SumRecursion ==
  ASSUME NEW S, IsFiniteSet(S), NEW f \in [S -> Nat]
  PROVE  \E g \in [SUBSET S -> Nat] : g = [s \in SUBSET S |-> SumStep(f, g, s)]
<1> DEFINE Upto(n) == {s \in SUBSET S : Cardinality(s) <= n}
           P(n) == \E g \in [Upto(n) -> Nat] : \A s \in Upto(n) : g[s] = SumStep(f, g, s)
<1>1. \A s \in SUBSET S : Cardinality(s) \in Nat /\ IsFiniteSet(s)
  BY FS_Subset, FS_CardinalityType
<1>2. ASSUME NEW s \in SUBSET S, s # {}
      PROVE  /\ First(s) \in S /\ s \ {First(s)} \in SUBSET S
             /\ Cardinality(s \ {First(s)}) = Cardinality(s) - 1
  BY <1>1, <1>2, FirstIn, FS_RemoveElement
<1>3. P(0)
  <2>1. Upto(0) = {{}} BY <1>1, FS_EmptySet
  <2> DEFINE g == [s \in Upto(0) |-> 0]
  <2>2. g \in [Upto(0) -> Nat] OBVIOUS
  <2>3. \A s \in Upto(0) : g[s] = SumStep(f, g, s) BY <2>1 DEF SumStep
  <2> HIDE DEF g, Upto
  <2> QED BY <2>2, <2>3
<1>4. ASSUME NEW n \in Nat, P(n) PROVE P(n + 1)
  <2>1. PICK g \in [Upto(n) -> Nat] : \A s \in Upto(n) : g[s] = SumStep(f, g, s) BY <1>4
  <2> DEFINE h == [s \in Upto(n + 1) |-> SumStep(f, g, s)]
  <2>2. ASSUME NEW s \in Upto(n + 1), s # {}
        PROVE  f[First(s)] \in Nat /\ s \ {First(s)} \in Upto(n) /\ g[s \ {First(s)}] \in Nat
    BY <1>1, <1>2, <2>2
  <2>3. \A s \in Upto(n + 1) : h[s] \in Nat BY <2>2 DEF SumStep
  <2>4. \A s \in Upto(n) : s \in Upto(n + 1) /\ h[s] = g[s] BY <1>1, <2>1
  <2>5. \A s \in Upto(n + 1) : h[s] = SumStep(f, h, s)
    <3> TAKE s \in Upto(n + 1)
    <3>1. CASE s = {} BY <3>1 DEF SumStep
    <3>2. CASE s # {} BY <2>2, <2>4, <3>2 DEF SumStep
    <3> QED BY <3>1, <3>2
  <2>6. h \in [Upto(n + 1) -> Nat] BY <2>3
  <2> HIDE DEF h, Upto
  <2> QED BY <2>5, <2>6
<1>5. \A n \in Nat : P(n)
  <2> DEFINE Bad == {n \in Nat : ~P(n)}
  <2> HIDE DEF P
  <2> SUFFICES ASSUME Bad # {} PROVE FALSE OBVIOUS
  <2>1. PICK m \in Bad : \A k \in Bad : m <= k BY SmallestNumber
  <2>2. m # 0 BY <1>3
  <2>3. m - 1 \in Nat /\ P(m - 1) BY <2>1, <2>2
  <2> QED BY <1>4, <2>3
<1>6. \A s \in SUBSET S : Cardinality(s) <= Cardinality(S) BY FS_Subset
<1>7. SUBSET S = Upto(Cardinality(S)) BY <1>6
<1>8. PICK g \in [Upto(Cardinality(S)) -> Nat] :
          \A s \in Upto(Cardinality(S)) : g[s] = SumStep(f, g, s)
  BY <1>1, <1>5
<1>9. \A s \in SUBSET S : g[s] = SumStep(f, g, s) BY <1>7, <1>8
<1>10. g \in [SUBSET S -> Nat] BY <1>7, <1>8
<1> HIDE DEF Upto
<1>11. g = [s \in SUBSET S |-> SumStep(f, g, s)] BY <1>9, <1>10
<1> QED BY <1>10, <1>11

\* The sum of finitely many naturals is a natural.
LEMMA SumIsNat == ASSUME NEW S, IsFiniteSet(S), NEW f \in [S -> Nat]
                  PROVE  SumFunction(f) \in Nat
<1> DEFINE G == CHOOSE g : g = [s \in SUBSET S |-> SumStep(f, g, s)]
           Bad == {n \in Nat : \E s \in SUBSET S : Cardinality(s) = n /\ G[s] \notin Nat}
<1>1. G = [s \in SUBSET S |-> SumStep(f, G, s)] BY SumRecursion
<1> HIDE DEF G
<1>2. \A s \in SUBSET S : G[s] = SumStep(f, G, s) BY <1>1
<1>3. Bad = {}
  <2> SUFFICES ASSUME Bad # {} PROVE FALSE OBVIOUS
  <2>1. PICK m \in Bad : \A k \in Bad : m <= k BY SmallestNumber
  <2>2. PICK s \in SUBSET S : Cardinality(s) = m /\ G[s] \notin Nat OBVIOUS
  <2>3. s # {} BY <1>2, <2>2 DEF SumStep
  <2> DEFINE r == s \ {First(s)}
  <2>4. First(s) \in s /\ IsFiniteSet(s) BY <2>3, FirstIn, FS_Subset
  <2>5. Cardinality(r) \in Nat /\ Cardinality(r) = m - 1
    BY <2>2, <2>4, FS_RemoveElement, FS_CardinalityType
  <2>6. G[r] \in Nat BY <2>1, <2>5
  <2> QED BY <1>2, <2>2, <2>3, <2>4, <2>6 DEF SumStep
<1>4. G[S] \in Nat BY <1>3, FS_CardinalityType
<1>5. SumFunction(f) = G[S] BY Unfold DEF SumFunction, G
<1> QED BY <1>4, <1>5
-----------------------------------------------------------------------------
(* The inductive invariant *)

Sample == [ops : Nat, temp : [Cores -> Nat]]

WorkerPoints == {"none", "created", "loop", "check_run", "crypto", "sleep", "exited"}
ControlPoints == {"none", "created", "error", "start_sampling", "loop", "check_time", "on",
                  "off", "sleep", "stop_sampling", "score", "exited"}
LoaderPoints == {"mkdir", "mkproc", "start_worker", "start_control", "loaded", "failed",
                 "gone", "oops"} \cup ExitPoints

Types ==
    /\ jiffies \in 0 .. MaxJiffies
    /\ loader \in LoaderPoints
    /\ core \in Cores
    /\ task \in [Cores -> {"none", "thread", "error"}]
    /\ memory \in [Cores -> SUBSET All]
    /\ worker \in [Cores -> WorkerPoints]
    /\ control \in ControlPoints
    /\ stopping \subseteq Cores \cup {Controller}
    /\ ops \in Nat
    /\ samples \in Seq(Sample) /\ Len(samples) <= MAX_SAMPLES
    /\ invalid \in {0, 1}
    /\ final_score \in Nat
    /\ start_jiffies \in Nat /\ sampling_from \in Nat
    /\ expires \in Nat \cup {NotArmed}
    /\ handler \in {"idle", "temp", "rearm"}
    /\ run \in BOOLEAN /\ stop \in BOOLEAN /\ scored \in BOOLEAN

Quiet == expires = NotArmed /\ handler = "idle"

Ended(c) == worker[c] = "exited" /\ memory[c] = {}

\* A core without a thread has no worker that could run.
Idle(c) == task[c] # "thread" => worker[c] = "none"

\* What is true of each core, by the point that init or exit has reached.
CoreInv ==
    /\ \A c \in Cores : worker[c] \in {"none", "exited"} \/ memory[c] = All
    /\ loader \in {"mkdir", "mkproc"} => core = 0
    /\ loader \in {"mkdir", "mkproc", "start_worker"} =>
           \A c \in Cores : IF c >= core THEN worker[c] = "none" ELSE Idle(c)
    /\ loader \in {"start_control", "loaded", "stop_control", "wait_control", "stop_timer"} =>
           core = 0 /\ \A c \in Cores : Idle(c)
    /\ loader = "stop_worker" =>
           \A c \in Cores : IF c < core THEN worker[c] = "none" \/ Ended(c) ELSE Idle(c)
    /\ loader = "wait_worker" =>
           \A c \in Cores : c # core =>
               IF c < core THEN worker[c] = "none" \/ Ended(c) ELSE Idle(c)
    /\ loader \in {"remove_proc", "gone"} => \A c \in Cores : worker[c] = "none" \/ Ended(c)

\* Once exit has stopped the timer, no thread is left that could start it again.
ExitInv ==
    /\ loader \in {"stop_timer", "stop_worker", "wait_worker", "remove_proc", "gone"} =>
           control = "exited"
    /\ loader \in {"stop_worker", "wait_worker", "remove_proc", "gone"} => Quiet
    /\ loader = "gone" => proc = {}
    /\ loader \in {"mkdir", "mkproc", "start_worker", "start_control"} => control = "none"

\* The samples from the start of the benchmark to its score.  Until the first one
\* is there, the timer is due one period after start_sampling, and not yet overdue;
\* if the benchmark ends without one, it was not due before the end.
SampleInv ==
    /\ control \in {"none", "created", "error", "start_sampling"} => Quiet /\ ~scored
    /\ handler # "idle" => samples # <<>>
    /\ control \in {"loop", "check_time", "on", "off", "sleep"} /\ samples = <<>> /\ ~scored =>
           expires = sampling_from + SAMPLE_PERIOD /\ jiffies <= expires
    /\ control \in {"stop_sampling", "score"} =>
           stop /\ ~scored /\ (samples = <<>> => NoSampleWasDue)
    /\ control = "score" => Quiet
    /\ scored => /\ stop /\ control \in {"loop", "sleep", "exited"} /\ Quiet
                 /\ \/ samples # <<>> /\ final_score = Score
                    \/ samples = <<>> /\ NoSampleWasDue

CryptoInv == Types /\ CoreInv /\ ExitInv /\ SampleInv
-----------------------------------------------------------------------------
(* The score *)

\* The quotients of the score are natural numbers.
LEMMA DivNat == \A a \in Nat : \A b \in Nat \ {0} : a \div b \in Nat
OBVIOUS

\* So are the squares of the temperature differences.
LEMMA SquareNat == \A d \in Nat : d * d \in Nat
OBVIOUS

\* The array has room for at least one sample.
LEMMA OneSample == MAX_SAMPLES \in Nat /\ MAX_SAMPLES >= 1
<1>1. \A s \in Nat \ {0} : \A b \in Nat : s <= b => b \div s >= 1 OBVIOUS
<1> QED BY <1>1, DivNat, CryptoAssumption

\* A sample holds the operations, and a temperature for every core.
LEMMA SamplesPart == ASSUME Types, NEW i \in 1 .. Len(samples)
                     PROVE  samples[i].ops \in Nat /\ samples[i].temp \in [Cores -> Nat]
<1>1. samples[i] \in Sample BY DEF Types
<1> QED BY <1>1 DEF Sample

\* What one core adds to the cost of a sample,
LEMMA CostIsNat == ASSUME Types, NEW i \in 1 .. Len(samples), NEW c \in Cores
                   PROVE  CostOf(samples[i], c) \in Nat
<1>1. 1 \in 1 .. Len(samples) BY DEF Types
<1>2. samples[i].temp[c] \in Nat /\ samples[1].temp[c] \in Nat BY <1>1, SamplesPart
<1> QED BY <1>2, SquareNat DEF CostOf

\* what all samples cost,
LEMMA ThermalCostIsNat == ASSUME Types PROVE ThermalCost \in Nat
<1>1. IsFiniteSet(Cores) BY FS_Interval, CryptoAssumption DEF Cores
<1>2. Len(samples) \in Nat BY DEF Types
<1>3. ASSUME NEW i \in 1 .. Len(samples) PROVE SampleCost(samples[i]) \in Nat
  <2>1. [c \in Cores |-> CostOf(samples[i], c)] \in [Cores -> Nat] BY CostIsNat
  <2> QED BY <1>1, <2>1, SumIsNat DEF SampleCost
<1>4. [i \in 2 .. Len(samples) |-> SampleCost(samples[i])] \in [2 .. Len(samples) -> Nat]
  BY <1>2, <1>3
<1>5. IsFiniteSet(2 .. Len(samples)) BY <1>2, FS_Interval
<1> QED BY <1>4, <1>5, SumIsNat DEF ThermalCost

\* and the score itself are natural numbers: nothing divides by zero, not even
\* without a sample.
LEMMA ScoreOfIsNat ==
    ASSUME NEW total \in Nat, NEW cost \in Nat
    PROVE  ScoreOf(total, cost) \in Nat
<1>1. total \div BENCH_DURATION \in Nat BY DivNat, CryptoAssumption
<1>2. (total \div BENCH_DURATION) * SCORE_UNIT \in Nat BY <1>1, CryptoAssumption
<1>3. cost \div COST_UNIT + 1 \in Nat \ {0} BY DivNat, CryptoAssumption
<1>4. ((total \div BENCH_DURATION) * SCORE_UNIT) \div (cost \div COST_UNIT + 1) \in Nat
  BY <1>2, <1>3, DivNat
<1> QED BY <1>4 DEF ScoreOf

LEMMA ScoreIsNat ==
    ASSUME Types
    PROVE  /\ samples # <<>> => Score \in Nat
           /\ AnyScore \subseteq Nat
<1>1. ASSUME samples # <<>> PROVE Score \in Nat
  <2> DEFINE total == (samples[Len(samples)].ops - samples[1].ops) % OPS_RANGE
  <2>1. Len(samples) \in 1 .. Len(samples) /\ 1 \in 1 .. Len(samples)
    BY <1>1, EmptySeq DEF Types
  <2>2. total \in Nat BY <2>1, SamplesPart, CryptoAssumption
  <2> QED BY <2>2, ThermalCostIsNat, ScoreOfIsNat DEF Score
<1>2. \A garbage \in 0 .. OPS_RANGE - 1 : garbage \in Nat BY CryptoAssumption
<1>3. AnyScore \subseteq Nat BY <1>2, ScoreOfIsNat DEF AnyScore
<1> QED BY <1>1, <1>3

\* The score is a function of the samples and of the disqualification.
LEMMA ScoreStays == ASSUME UNCHANGED <<samples, invalid>> PROVE Score' = Score
BY DEF Score, ScoreOf, ThermalCost, SampleCost, CostOf
-----------------------------------------------------------------------------
(* Types *)

\* What insmod starts from has its types.
LEMMA TypesInit == Init => Types
<1> SUFFICES ASSUME Init PROVE Types OBVIOUS
<1>1. samples \in Seq(Sample) /\ Len(samples) <= MAX_SAMPLES BY OneSample DEF Init
<1>2. jiffies \in 0 .. MaxJiffies /\ core \in Cores BY CryptoAssumption DEF Init, Cores
<1> QED BY <1>1, <1>2 DEF Init, Types, LoaderPoints, WorkerPoints, ControlPoints, NotArmed

\* The types of the variables survive a step of a worker,
LEMMA TypesWorker == ASSUME Types, NEW c \in Cores, worker_fn(c) PROVE Types'
<1>1. UNCHANGED <<jiffies, loading, control, stopping, run, stop, samples, result,
                  starts, timer>>
  BY DEF worker_fn, WorkerStart, WorkerLoop, WorkerCheckRun, WorkerCrypto, WorkerSleep,
         WorkerGoto
<1>2. \E point \in WorkerPoints : worker' = [worker EXCEPT ![c] = point]
  BY DEF worker_fn, WorkerStart, WorkerLoop, WorkerCheckRun, WorkerCrypto, WorkerSleep,
         WorkerGoto,
         WorkerPoints
<1>3. ops' \in Nat
  BY CryptoAssumption DEF worker_fn, WorkerStart, WorkerLoop, WorkerCheckRun, WorkerCrypto,
         WorkerSleep, Types
<1> QED BY <1>1, <1>2, <1>3 DEF Types, loading, result, timer, starts

\* of the control thread, whose score is the interesting one,
LEMMA TypesControl == ASSUME Types, SampleInv, control_fn PROVE Types'
<1>1. UNCHANGED <<jiffies, loading, worker, stopping, ops, handler>>
  BY DEF control_fn, ControlStart, ControlStartSampling, ControlLoop, ControlSleep, ControlRun, ControlPause,
         ControlResume, ControlEnd, ControlStopSampling, ControlScore, ControlGoto,
                stop_sampling,
         timer
<1>2. control' \in ControlPoints /\ run' \in BOOLEAN /\ stop' \in BOOLEAN /\ scored' \in BOOLEAN
      /\ invalid' \in {0, 1}
  BY DEF control_fn, ControlStart, ControlStartSampling, ControlLoop, ControlSleep, ControlRun, ControlPause,
         ControlResume, ControlEnd, ControlStopSampling, ControlScore, ControlGoto,
                ControlPoints,
         result, Types
<1>3. samples' \in Seq(Sample) /\ Len(samples') <= MAX_SAMPLES
  <2>1. samples' \in {samples, <<>>}
    BY DEF control_fn, ControlStart, ControlStartSampling, ControlLoop, ControlSleep, ControlRun, ControlPause,
           ControlResume, ControlEnd, ControlStopSampling, ControlScore
  <2>2. <<>> \in Seq(Sample) /\ Len(<<>>) <= MAX_SAMPLES BY OneSample
  <2>3. samples \in Seq(Sample) /\ Len(samples) <= MAX_SAMPLES BY DEF Types
  <2> QED BY <2>1, <2>2, <2>3
<1>4. starts' \in Nat \X Nat /\ expires' \in Nat \cup {NotArmed}
  <2>1. start_jiffies' \in {start_jiffies, jiffies}
        /\ sampling_from' \in {sampling_from, jiffies}
        /\ expires' \in {expires, NotArmed, jiffies + SAMPLE_PERIOD}
    BY DEF control_fn, ControlStart, ControlStartSampling, ControlLoop, ControlSleep, ControlRun, ControlPause,
           ControlResume, ControlEnd, ControlStopSampling, ControlScore, stop_sampling, timer,
           starts
  <2> QED BY <2>1, CryptoAssumption DEF Types, starts
<1>5. final_score' \in Nat
  <2>1. CASE ControlScore BY <2>1, ScoreIsNat DEF ControlScore
  <2>2. CASE ~ControlScore
    BY <2>2 DEF control_fn, ControlStart, ControlStartSampling, ControlLoop, ControlSleep, ControlRun, ControlPause,
           ControlResume, ControlEnd, ControlStopSampling, result, Types
  <2> QED BY <2>1, <2>2
<1> QED BY <1>1, <1>2, <1>3, <1>4, <1>5 DEF Types, loading, starts

\* of the timer, which looks for room before it appends a sample,
LEMMA TypesSample == ASSUME Types, SampleInv, sample_fn PROVE Types'
<1>1. UNCHANGED <<jiffies, loading, threads, run, stop, ops, starts, final_score, scored>>
  BY DEF sample_fn, SampleBegin, SampleTemperatures, SampleRearm, result
<1>2. expires' \in Nat \cup {NotArmed} /\ handler' \in {"idle", "temp", "rearm"}
      /\ invalid' \in {0, 1}
  BY CryptoAssumption DEF sample_fn, SampleBegin, SampleTemperatures, SampleRearm, result, Types
<1>3. samples' \in Seq(Sample) /\ Len(samples') <= MAX_SAMPLES
  <2>1. CASE SampleBegin
    <3> DEFINE s == [ops |-> ops, temp |-> [c \in Cores |-> 0]]
    <3>1. s \in Sample BY DEF Sample, Types
    <3>2. Len(samples) \in Nat BY DEF Types
    <3>3. \/ samples' = samples
          \/ Len(samples) < MAX_SAMPLES /\ samples' = Append(samples, s)
      BY <2>1, <3>2, OneSample DEF SampleBegin
    <3> HIDE DEF s
    <3> QED BY <3>1, <3>3, OneSample DEF Types
  <2>2. CASE SampleTemperatures
    <3>1. PICK temp \in [Cores -> Temperatures] :
              samples' = [samples EXCEPT ![Len(samples)].temp = temp]
      BY <2>2 DEF SampleTemperatures
    <3>2. Len(samples) \in 1 .. Len(samples)
      BY <2>2, EmptySeq DEF SampleTemperatures, SampleInv, Types
    <3> DEFINE s == [samples[Len(samples)] EXCEPT !.temp = temp]
    <3>3. temp \in [Cores -> Nat] BY CryptoAssumption
    <3>4. samples[Len(samples)] \in Sample BY <3>2 DEF Types
    <3>5. s \in Sample BY <3>3, <3>4 DEF Sample
    <3>6. samples' = [samples EXCEPT ![Len(samples)] = s] BY <3>1
    <3> HIDE DEF s
    <3> QED BY <3>2, <3>5, <3>6 DEF Types
  <2>3. CASE SampleRearm BY <2>3 DEF SampleRearm, Types
  <2> QED BY <2>1, <2>2, <2>3 DEF sample_fn
<1> QED BY <1>1, <1>2, <1>3 DEF Types, loading, threads, starts

\* of init and exit,
LEMMA TypesLoader == ASSUME Types, mod_init \/ Unload \/ mod_exit PROVE Types'
<1>1. UNCHANGED <<jiffies, run, stop, ops, samples, result, starts, handler>>
  BY DEF mod_init, InitFails, InitMkdir, InitMkproc, InitStartWorker, InitStartControl, Unload,
         mod_exit, ExitStopControl, ExitWaitControl, ExitStopTimer, ExitStopWorker,
         ExitFreeWorker, ExitRemoveProc, NextCore, LoaderGoto, stop_sampling
<1>2. loader' \in LoaderPoints /\ core' \in Cores
  BY CryptoAssumption
     DEF mod_init, InitFails, InitMkdir, InitMkproc, InitStartWorker, InitStartControl, Unload,
         mod_exit, ExitStopControl, ExitWaitControl, ExitStopTimer, ExitStopWorker,
         ExitFreeWorker, ExitRemoveProc, NextCore, LoaderGoto, stop_sampling, LoaderPoints,
         ExitPoints, Types, Cores
<1>3. /\ \E t \in {"none", "thread", "error"} : task' \in {task, [task EXCEPT ![core] = t]}
      /\ \E m \in SUBSET All : memory' \in {memory, [memory EXCEPT ![core] = m]}
  BY DEF mod_init, InitFails, InitMkdir, InitMkproc, InitStartWorker, InitStartControl, Unload,
         mod_exit, ExitStopControl, ExitWaitControl, ExitStopTimer, ExitStopWorker,
         ExitFreeWorker, ExitRemoveProc, All, threads
<1>4. /\ \E p \in WorkerPoints : worker' \in {worker, [worker EXCEPT ![core] = p]}
      /\ control' \in ControlPoints /\ stopping' \subseteq Cores \cup {Controller}
  BY DEF mod_init, InitFails, InitMkdir, InitMkproc, InitStartWorker, InitStartControl, Unload,
         mod_exit, ExitStopControl, ExitWaitControl, ExitStopTimer, ExitStopWorker,
         ExitFreeWorker, ExitRemoveProc, threads, Types, WorkerPoints, ControlPoints
<1>5. expires' \in {expires, NotArmed}
  BY DEF mod_init, InitFails, InitMkdir, InitMkproc, InitStartWorker, InitStartControl, Unload,
         mod_exit, ExitStopControl, ExitWaitControl, ExitStopTimer, ExitStopWorker,
         ExitFreeWorker, ExitRemoveProc, stop_sampling
<1> QED BY <1>1, <1>2, <1>3, <1>4, <1>5 DEF Types, result, starts

\* and so every step.
LEMMA TypesStep == ASSUME Types, SampleInv, Next PROVE Types'
<1>1. CASE Tick
  BY <1>1, CryptoAssumption DEF Tick, Types, loading, threads, result, timer, starts
<1> QED BY <1>1, TypesWorker, TypesControl, TypesSample, TypesLoader DEF Next
-----------------------------------------------------------------------------
(* The cores *)

\* A thread moves on, and what belongs to the loader stays: what is true of the
\* cores stays true as long as the thread ran at all.
LEMMA CoreByWorker == ASSUME Types, CoreInv, NEW c \in Cores, worker_fn(c) PROVE CoreInv'
<1>1. UNCHANGED loading
  BY DEF worker_fn, WorkerStart, WorkerLoop, WorkerCheckRun, WorkerCrypto, WorkerSleep,
         WorkerGoto
<1>2. /\ worker[c] \notin {"none", "exited"}
      /\ \E point \in WorkerPoints : worker' = [worker EXCEPT ![c] = point]
  BY DEF worker_fn, WorkerStart, WorkerLoop, WorkerCheckRun, WorkerCrypto, WorkerSleep,
         WorkerGoto,
         WorkerPoints
<1>3. \A d \in Cores : /\ worker[d] \in {"none", "exited"} => worker'[d] = worker[d]
                       /\ (d = c => worker[d] \notin {"none", "exited"})
                       /\ d # c => worker'[d] = worker[d]
  BY <1>2 DEF Types
<1> QED BY <1>1, <1>2, <1>3 DEF CoreInv, Idle, Ended, loading, Types

\* The other threads and the timer touch neither the workers nor the loader.
LEMMA CoreByOthers == ASSUME CoreInv, UNCHANGED <<loading, worker>> PROVE CoreInv'
BY DEF CoreInv, Idle, Ended, loading

\* init and exit take the cores in order, and stop each before they free it.
LEMMA CoreByLoader == ASSUME Types, CoreInv, mod_init \/ Unload \/ mod_exit PROVE CoreInv'
<1> USE DEF Types
<1>1. CASE InitFails
  BY <1>1 DEF InitFails, LoaderGoto, threads, CoreInv, Idle, Ended
<1>2. CASE InitMkdir \/ InitMkproc
  BY <1>2, CryptoAssumption DEF InitMkdir, InitMkproc, LoaderGoto, threads, CoreInv, Idle,
         Ended, Cores
<1>3. CASE InitStartWorker
  BY <1>3, CryptoAssumption, SMTT(30) DEF InitStartWorker, NextCore, LoaderGoto, CoreInv, Idle, Ended,
         Cores
<1>4. CASE InitStartControl
  BY <1>4 DEF InitStartControl, LoaderGoto, threads, CoreInv, Idle, Ended
<1>5. CASE Unload \/ ExitWaitControl \/ ExitStopTimer \/ ExitRemoveProc
  BY <1>5, CryptoAssumption DEF Unload, ExitWaitControl, ExitStopTimer, ExitRemoveProc,
         LoaderGoto, threads,
         CoreInv, Idle, Ended, Cores
<1>6. CASE ExitStopControl
  BY <1>6 DEF ExitStopControl, LoaderGoto, threads, CoreInv, Idle, Ended
<1>7. CASE ExitStopWorker
  <2> USE <1>7 DEF ExitStopWorker
  <2>0. loader = "stop_worker" /\ task' = [task EXCEPT ![core] = "none"] /\ memory' = memory
    OBVIOUS
  <2>1. CASE task[core] = "none"
    <3>1. UNCHANGED worker /\ NextCore("stop_worker", "remove_proc") BY <2>1 DEF threads
    <3> QED BY <2>0, <2>1, <3>1, CryptoAssumption
               DEF NextCore, LoaderGoto, CoreInv, Idle, Ended, Cores
  <2>2. CASE task[core] = "error"
    <3>1. loader' = "oops" /\ UNCHANGED <<worker, core>> BY <2>2 DEF threads, LoaderGoto
    <3> QED BY <2>0, <3>1 DEF CoreInv
  <2>3. CASE task[core] = "thread"
    <3>1. /\ worker' = [worker EXCEPT ![core] = IF @ = "sleep" THEN "loop" ELSE @]
          /\ loader' = "wait_worker" /\ core' = core
      BY <2>3 DEF LoaderGoto
    <3> QED BY <2>0, <3>1 DEF CoreInv, Idle, Ended
  <2> QED BY <2>1, <2>2, <2>3
<1>8. CASE ExitFreeWorker
  BY <1>8, CryptoAssumption DEF ExitFreeWorker, NextCore, LoaderGoto, threads, CoreInv, Idle,
         Ended, Cores
<1> QED BY <1>1, <1>2, <1>3, <1>4, <1>5, <1>6, <1>7, <1>8 DEF mod_init, mod_exit
-----------------------------------------------------------------------------
(* The end of the module *)

\* Without a control thread nothing arms the timer, and an idle timer does not run.
LEMMA ExitByThreads ==
    ASSUME ExitInv, SampleInv, control_fn \/ sample_fn PROVE ExitInv'
<1>1. UNCHANGED loading
  BY DEF control_fn, ControlStart, ControlStartSampling, ControlLoop, ControlSleep, ControlRun, ControlPause,
         ControlResume, ControlEnd, ControlStopSampling, ControlScore, ControlGoto,
         sample_fn, SampleBegin, SampleTemperatures, SampleRearm
<1>2. CASE control_fn
  <2>1. control \notin {"none", "exited"}
    BY <1>2 DEF control_fn, ControlStart, ControlStartSampling, ControlLoop, ControlSleep, ControlRun, ControlPause,
           ControlResume, ControlEnd, ControlStopSampling, ControlScore
  <2> QED BY <1>1, <2>1 DEF ExitInv, loading
<1>3. CASE sample_fn
  <2>1. ~Quiet /\ UNCHANGED control
    BY <1>3 DEF sample_fn, SampleBegin, SampleTemperatures, SampleRearm, Due, Quiet, threads
  <2> QED BY <1>1, <2>1 DEF ExitInv, loading
<1> QED BY <1>2, <1>3

\* The workers and the clock do not touch what exit has to end.
LEMMA ExitByOthers == ASSUME ExitInv, UNCHANGED <<loader, proc, control, expires, handler>>
                      PROVE  ExitInv'
BY DEF ExitInv, Quiet

\* exit waits for the control thread before it stops the timer.
LEMMA ExitByLoader == ASSUME ExitInv, mod_init \/ Unload \/ mod_exit PROVE ExitInv'
<1>1. CASE mod_init
  BY <1>1 DEF mod_init, InitFails, InitMkdir, InitMkproc, InitStartWorker, InitStartControl,
         NextCore, LoaderGoto, threads, ExitInv, Quiet
<1>2. CASE Unload \/ mod_exit
  BY <1>2 DEF Unload, mod_exit, ExitStopControl, ExitWaitControl, ExitStopTimer, ExitStopWorker,
         ExitFreeWorker, ExitRemoveProc, NextCore, LoaderGoto, stop_sampling, threads,
                ExitInv, Quiet
<1> QED BY <1>1, <1>2

-----------------------------------------------------------------------------
(* The samples *)

\* The clock does not pass the moment at which the timer is due.
LEMMA SampleByTick == ASSUME Types, SampleInv, Tick PROVE SampleInv'
<1>1. UNCHANGED <<samples, invalid, control, expires, handler, starts, stop,
                  final_score, scored>>
      /\ jiffies' = jiffies + 1 /\ ~Due
  BY DEF Tick, loading, threads, result, timer
<1>2. Score' = Score BY <1>1, ScoreStays
<1>3. expires # NotArmed => jiffies' <= expires BY <1>1 DEF Due, Types
<1> QED BY <1>1, <1>2, <1>3, CryptoAssumption DEF SampleInv, NoSampleWasDue, starts, Quiet, Types, NotArmed

\* A step that leaves samples, result and timer alone keeps what is true of them,
LEMMA SampleByOthers ==
    ASSUME SampleInv, UNCHANGED <<jiffies, samples, result, expires, handler, starts,
                                  stop>>,
           \/ UNCHANGED control
           \/ control = "none" /\ control' \in {"created", "error"}
           \/ control = "sleep" /\ control' = "loop"
    PROVE  SampleInv'
<1>1. Score' = Score BY ScoreStays DEF result
<1> QED BY <1>1 DEF SampleInv, NoSampleWasDue, starts, Quiet, result

\* the control thread takes its score only when no sample can come any more,
LEMMA SampleByControl == ASSUME Types, SampleInv, control_fn PROVE SampleInv'
<1> USE DEF ControlGoto, SampleInv, Quiet, result, timer, starts
<1>1. CASE ControlStart
  BY <1>1 DEF ControlStart, Types
<1>2. CASE ControlStartSampling
  BY <1>2, CryptoAssumption DEF ControlStartSampling, Types
<1>3. CASE ControlLoop \/ ControlSleep \/ ControlRun \/ ControlPause \/ ControlResume
  <2>1. Score' = Score /\ NoSampleWasDue' = NoSampleWasDue
    BY <1>3, ScoreStays DEF ControlLoop, ControlSleep, ControlRun, ControlPause,
           ControlResume, NoSampleWasDue
  <2> QED BY <1>3, <2>1 DEF ControlLoop, ControlSleep, ControlRun, ControlPause, ControlResume
<1>4. CASE ControlEnd
  <2>1. samples = <<>> => NoSampleWasDue'
    BY <1>4, CryptoAssumption DEF ControlEnd, NoSampleWasDue, Types
  <2> QED BY <1>4, <2>1 DEF ControlEnd
<1>5. CASE ControlStopSampling
  BY <1>5 DEF ControlStopSampling, stop_sampling, NoSampleWasDue
<1>6. CASE ControlScore
  <2>1. Score' = Score /\ NoSampleWasDue' = NoSampleWasDue
    BY <1>6, ScoreStays DEF ControlScore, NoSampleWasDue
  <2> QED BY <1>6, <2>1 DEF ControlScore
<1> QED BY <1>1, <1>2, <1>3, <1>4, <1>5, <1>6 DEF control_fn

\* a handler that runs has stored a sample, and after the score none runs,
LEMMA SampleByTimer == ASSUME Types, SampleInv, sample_fn PROVE SampleInv'
<1>1. UNCHANGED <<jiffies, control, starts, stop, final_score, scored>> /\ ~Quiet
  BY DEF sample_fn, SampleBegin, SampleTemperatures, SampleRearm, Due, Quiet, loading,
         threads, result
<1>2. CASE SampleBegin
  <2>1. samples' # <<>>
    BY <1>2, OneSample DEF SampleBegin, Types
  <2> QED BY <1>1, <1>2, <2>1 DEF SampleBegin, SampleInv, NoSampleWasDue, starts, Quiet
<1>3. CASE SampleTemperatures
  <2>1. samples' # <<>>
    BY <1>3 DEF SampleTemperatures, SampleInv, Types
  <2> QED BY <1>1, <1>3, <2>1 DEF SampleTemperatures, SampleInv, NoSampleWasDue, starts, Quiet
<1>4. CASE SampleRearm
  BY <1>1, <1>4 DEF SampleRearm, SampleInv, NoSampleWasDue, starts, Quiet
<1> QED BY <1>2, <1>3, <1>4 DEF sample_fn

\* and exit stops the timer when the control thread has gone.
LEMMA SampleByLoader == ASSUME ExitInv, SampleInv,
       mod_init \/ Unload \/ mod_exit PROVE SampleInv'
<1>1. CASE mod_init \/ Unload
  BY <1>1, SampleByOthers
     DEF mod_init, InitFails, InitMkdir, InitMkproc, InitStartWorker, InitStartControl,
         Unload, NextCore, LoaderGoto, threads, ExitInv
<1>2. CASE ExitStopTimer
  BY <1>2, ScoreStays DEF ExitStopTimer, stop_sampling, threads, result, ExitInv, SampleInv,
         NoSampleWasDue, starts, Quiet
<1>3. CASE mod_exit /\ ~ExitStopTimer
  BY <1>3, SampleByOthers
     DEF mod_exit, ExitStopControl, ExitWaitControl, ExitStopWorker, ExitFreeWorker,
         ExitRemoveProc, NextCore, LoaderGoto, threads
<1> QED BY <1>1, <1>2, <1>3

-----------------------------------------------------------------------------
(* Theorems *)

\* The invariant holds before insmod,
LEMMA CryptoInvInit == Init => CryptoInv
<1>1. Init => CoreInv /\ ExitInv /\ SampleInv
  BY CryptoAssumption DEF Init, CoreInv, ExitInv, SampleInv, Idle, Quiet, Cores
<1> QED BY <1>1, TypesInit DEF CryptoInv

\* every step keeps it,
LEMMA CryptoInvStep == CryptoInv /\ [Next]_vars => CryptoInv'
<1> SUFFICES ASSUME CryptoInv, [Next]_vars PROVE CryptoInv' OBVIOUS
<1> USE DEF CryptoInv
<1>1. CASE UNCHANGED vars
  <2>1. Types'
    BY <1>1 DEF vars, Types, loading, threads, result, timer, starts
  <2> QED BY <1>1, <2>1, CoreByOthers, ExitByOthers, SampleByOthers
             DEF vars, loading, threads, result, timer
<1>2. CASE Next
  <2>1. Types' BY <1>2, TypesStep
  <2>2. CASE Tick
    BY <2>1, <2>2, SampleByTick, CoreByOthers, ExitByOthers
       DEF Tick, loading, threads, timer
  <2>3. CASE \E c \in Cores : worker_fn(c)
    <3>1. PICK c \in Cores : worker_fn(c) BY <2>3
    <3>2. UNCHANGED <<jiffies, loading, control, stopping, run, stop, samples, result,
                      starts, timer>>
      BY <3>1 DEF worker_fn, WorkerStart, WorkerLoop, WorkerCheckRun, WorkerCrypto, WorkerSleep,
             WorkerGoto
    <3> QED BY <2>1, <3>1, <3>2, CoreByWorker, ExitByOthers, SampleByOthers DEF loading, timer
  <2>4. CASE control_fn
    <3>1. UNCHANGED <<loading, worker>>
      BY <2>4 DEF control_fn, ControlStart, ControlStartSampling, ControlLoop, ControlSleep, ControlRun, ControlPause,
             ControlResume, ControlEnd, ControlStopSampling, ControlScore, ControlGoto
    <3> QED BY <2>1, <2>4, <3>1, CoreByOthers, ExitByThreads, SampleByControl
  <2>5. CASE sample_fn
    <3>1. UNCHANGED <<loading, worker>>
      BY <2>5 DEF sample_fn, SampleBegin, SampleTemperatures, SampleRearm, threads
    <3> QED BY <2>1, <2>5, <3>1, CoreByOthers, ExitByThreads, SampleByTimer
  <2>6. CASE mod_init \/ Unload \/ mod_exit
    BY <2>1, <2>6, CoreByLoader, ExitByLoader, SampleByLoader
  <2> QED BY <1>2, <2>2, <2>3, <2>4, <2>5, <2>6 DEF Next
<1> QED BY <1>1, <1>2

\* and so it holds in every reachable state.
LEMMA CryptoInductive == Spec => []CryptoInv
BY CryptoInvInit, CryptoInvStep, PTL DEF Spec

\* sample_fn and compute_score: however late the control thread ends the sampling,
\* the samples fit into their array; and the score is a natural number, computed
\* without a division by zero, for all temperatures and counters.
THEOREM TypeCorrect == Spec => []TypeOK
<1>1. CryptoInv => TypeOK BY DEF CryptoInv, Types, TypeOK, LoaderPoints, WorkerPoints
<1> QED BY <1>1, CryptoInductive, PTL

\* stop_worker: a thread that encrypts has its buffer, transform and request, for
\* any number of cores, whichever of them could not be started.
THEOREM MemoryOutlivesWorker == Spec => []EncryptsWithMemory
<1>1. CryptoInv => EncryptsWithMemory BY DEF CryptoInv, CoreInv, EncryptsWithMemory
<1> QED BY <1>1, CryptoInductive, PTL

\* stop_sampling and compute_score: the score has been computed from the samples and
\* the disqualification that anyone sees later, and from at least one sample unless
\* the control thread was held up between its two looks at the clock for so long that
\* the first sample was due only after the end of the benchmark.
THEOREM ScoreFinal == Spec => []ScoreIsOfSamples
<1>1. CryptoInv => ScoreIsOfSamples BY DEF CryptoInv, SampleInv, ScoreIsOfSamples
<1> QED BY <1>1, CryptoInductive, PTL

\* mod_exit: when rmmod is done, no thread runs, the timer is neither armed nor
\* running, and what the workers had is freed.
THEOREM UnloadLeavesNothing == Spec => []NothingLeftBehind
<1>1. CryptoInv => NothingLeftBehind
  BY DEF CryptoInv, CoreInv, ExitInv, Quiet, Ended, NothingLeftBehind
<1> QED BY <1>1, CryptoInductive, PTL

-----------------------------------------------------------------------------
(* PocketMonster *)

Range100 == 0 .. 100

\* What a tick in progress has done: each field is that of the last tick, or the next
\* one's before it is clamped, or the next one's, as its stores have been done.
TickInv ==
    work = "tick" =>
        /\ age = IF "age" \in todo THEN ticks ELSE ticks + 1
        /\ "hunger" \in todo => hunger = HungerAfter(ticks) /\ "clamp_hunger" \in todo
        /\ "hunger" \notin todo =>
              hunger = IF "clamp_hunger" \in todo THEN HungerAfter(ticks) + 10
                                                  ELSE HungerAfter(ticks + 1)
        /\ "energy" \in todo => energy = EnergyAfter(ticks) /\ "clamp_energy" \in todo
        /\ "energy" \notin todo =>
              energy = IF "clamp_energy" \in todo THEN EnergyAfter(ticks) - 5
                                                  ELSE EnergyAfter(ticks + 1)

\* After the last store only the mood is behind.
MoodInv == work = "mood" => /\ age = ticks + 1
                            /\ hunger = HungerAfter(ticks + 1)
                            /\ energy = EnergyAfter(ticks + 1)

MonsterInv == /\ first \in Range100 \X Range100
        /\ ticks \in Nat
        /\ TickInv
        /\ MoodInv
        /\ RestState

USE MonsterAssumption

\* Clamping brings any value into the range of the fields.
LEMMA ClampRange == \A v \in Int : clamp_value(v, 0, 100) \in Range100
BY SMT DEF clamp_value, Range100

\* Before the first tick the fields are the clamped parameters.
LEMMA AtStart ==
    ASSUME first \in Range100 \X Range100
    PROVE  HungerAfter(0) = first[1] /\ EnergyAfter(0) = first[2]
BY SMT DEF HungerAfter, EnergyAfter, clamp_value, Range100

\* One clamped tick after n of them is n + 1 of them.
LEMMA OneMore ==
    ASSUME first \in Range100 \X Range100, NEW n \in Nat
    PROVE  /\ clamp_value(HungerAfter(n) + 10, 0, 100) = HungerAfter(n + 1)
           /\ clamp_value(EnergyAfter(n) - 5, 0, 100) = EnergyAfter(n + 1)
BY SMT DEF HungerAfter, EnergyAfter, clamp_value, Range100

\* What insmod makes of its parameters is the monster after no tick.
LEMMA MonsterInvInit == MonsterInit => MonsterInv
<1> SUFFICES ASSUME MonsterInit PROVE MonsterInv OBVIOUS
<1>1. PICK p \in Parameters : /\ hunger = clamp_value(p[1], 0, 100)
                              /\ energy = clamp_value(p[2], 0, 100)
  BY DEF MonsterInit
<1>2. p[1] \in Int /\ p[2] \in Int BY <1>1
<1>3. first = <<hunger, energy>> /\ ticks = 0 /\ age = 0 /\ work = "none"
      /\ mood = Mood(hunger, energy)
  BY DEF MonsterInit
<1>4. first \in Range100 \X Range100 BY <1>1, <1>2, <1>3, ClampRange
<1>5. RestState BY <1>3, <1>4, AtStart, SMT DEF RestState, MoodAfter
<1> QED BY <1>3, <1>4, <1>5 DEF MonsterInv, TickInv, MoodInv

\* A store of monster_tick, in whatever order they come.
LEMMA StoreInv == ASSUME MonsterInv, NEW f \in todo, TickStore(f) PROVE MonsterInv'
<1> USE DEF TickStore, Ticking
<1>1. UNCHANGED <<first, ticks, work>> /\ work = "tick" /\ todo' = todo \ {f} OBVIOUS
<1>2. first \in Range100 \X Range100 /\ ticks \in Nat BY DEF MonsterInv
<1>3. /\ HungerAfter(ticks)' = HungerAfter(ticks)
      /\ HungerAfter(ticks + 1)' = HungerAfter(ticks + 1)
      /\ EnergyAfter(ticks)' = EnergyAfter(ticks)
      /\ EnergyAfter(ticks + 1)' = EnergyAfter(ticks + 1)
  BY <1>1 DEF HungerAfter, EnergyAfter
<1>4. TickInv'
  <2>1. CASE f = "age" BY <1>1, <1>2, <1>3, <2>1, SMT DEF MonsterInv, TickInv
  <2>2. CASE f = "hunger" BY <1>1, <1>2, <1>3, <2>2, SMT DEF MonsterInv, TickInv
  <2>3. CASE f = "energy" BY <1>1, <1>2, <1>3, <2>3, SMT DEF MonsterInv, TickInv
  <2>4. CASE f = "clamp_hunger" BY <1>1, <1>2, <1>3, <2>4, OneMore, SMT DEF MonsterInv, TickInv
  <2>5. CASE f = "clamp_energy" BY <1>1, <1>2, <1>3, <2>5, OneMore, SMT DEF MonsterInv, TickInv
  <2> QED BY <2>1, <2>2, <2>3, <2>4, <2>5
<1> QED BY <1>1, <1>2, <1>4 DEF MonsterInv, MoodInv, RestState

\* The other steps of the handler.
LEMMA HandlerInv ==
    ASSUME MonsterInv, WorkBegin \/ TickMoodBegin \/ TickMoodEnd \/ WorkRearm
    PROVE  MonsterInv'
<1>1. UNCHANGED <<first, hunger, energy, age>>
  BY DEF WorkBegin, TickMoodBegin, TickMoodEnd, WorkRearm, monster
<1>2. \A n : /\ HungerAfter(n)' = HungerAfter(n)
             /\ EnergyAfter(n)' = EnergyAfter(n)
             /\ MoodAfter(n)' = MoodAfter(n)
  BY <1>1 DEF HungerAfter, EnergyAfter, MoodAfter
<1> USE DEF MonsterInv, TickInv, MoodInv, RestState, Ticking
<1>3. CASE WorkBegin BY <1>1, <1>2, <1>3 DEF WorkBegin, monster
<1>4. CASE TickMoodBegin BY <1>1, <1>2, <1>4 DEF TickMoodBegin
<1>5. CASE TickMoodEnd
  <2>1. mood' = MoodAfter(ticks + 1) BY <1>5 DEF TickMoodEnd, MoodAfter
  <2> QED BY <1>1, <1>2, <1>5, <2>1, SMT DEF TickMoodEnd
<1>6. CASE WorkRearm BY <1>1, <1>2, <1>6 DEF WorkRearm, monster
<1> QED BY <1>3, <1>4, <1>5, <1>6

\* Reads, insmod and rmmod leave the fields alone.
LEMMA OthersInv ==
    ASSUME MonsterInv, UNCHANGED <<monster, todo, first, ticks>>,
           work' = work \/ (work' \in {"pending", "none"} /\ work \in {"pending", "none"})
    PROVE  MonsterInv'
<1>1. \A n : /\ HungerAfter(n)' = HungerAfter(n)
             /\ EnergyAfter(n)' = EnergyAfter(n)
             /\ MoodAfter(n)' = MoodAfter(n)
  BY DEF HungerAfter, EnergyAfter, MoodAfter
<1> QED BY <1>1 DEF MonsterInv, TickInv, MoodInv, RestState, Ticking, monster

\* Before insmod has scheduled the work and after rmmod has cancelled it, there is
\* none.
PhaseInv == NothingRunsOnceGone /\ (phase = "init" => work = "none")

\* Every step keeps it so: nothing but the handler and insmod arms the work.
LEMMA StepPhase == PhaseInv /\ [MonsterNext]_monsterVars => PhaseInv'
<1> SUFFICES ASSUME PhaseInv, [MonsterNext]_monsterVars PROVE PhaseInv' OBVIOUS
<1> USE DEF PhaseInv, NothingRunsOnceGone
<1>1. CASE monster_work_handler
  BY <1>1 DEF monster_work_handler, WorkBegin, TickStore, TickMoodBegin, TickMoodEnd, WorkRearm
<1>2. CASE ShowBegin \/ monster_proc_show \/ ShowEnd
  BY <1>2 DEF ShowBegin, monster_proc_show, ShowEnd, Show, ShowHunger
<1>3. CASE kernel_monster_init BY <1>3 DEF kernel_monster_init
<1>4. CASE kernel_monster_exit
  BY <1>4 DEF kernel_monster_exit, ExitCancel, ExitCancelled, ExitRemove
<1>5. CASE UNCHANGED monsterVars BY <1>5 DEF monsterVars
<1> QED BY <1>1, <1>2, <1>3, <1>4, <1>5 DEF MonsterNext

\* Once rmmod has cancelled the work the handler neither runs nor will run, although
\* it schedules itself again.
THEOREM NothingRuns == MonsterSpec => []NothingRunsOnceGone
<1>1. MonsterInit => PhaseInv BY DEF MonsterInit, PhaseInv, NothingRunsOnceGone
<1>2. PhaseInv => NothingRunsOnceGone BY DEF PhaseInv
<1> QED BY <1>1, <1>2, StepPhase, PTL DEF MonsterSpec

\* Both invariants hold in every reachable state.
LEMMA MonsterInductive == MonsterSpec => [](MonsterInv /\ PhaseInv)
<1>1. MonsterInv /\ PhaseInv /\ [MonsterNext]_monsterVars => MonsterInv'
  <2> SUFFICES ASSUME MonsterInv, PhaseInv, [MonsterNext]_monsterVars PROVE MonsterInv' OBVIOUS
  <2>1. CASE monster_work_handler
    BY <2>1, StoreInv, HandlerInv DEF monster_work_handler
  <2>2. CASE ShowBegin \/ monster_proc_show \/ ShowEnd
    BY <2>2, OthersInv DEF ShowBegin, monster_proc_show, ShowEnd, Show, ShowHunger
  <2>3. CASE kernel_monster_init
    BY <2>3, OthersInv DEF kernel_monster_init, PhaseInv
  <2>4. CASE kernel_monster_exit
    BY <2>4, OthersInv DEF kernel_monster_exit, ExitCancel, ExitCancelled, ExitRemove
  <2>5. CASE UNCHANGED monsterVars BY <2>5, OthersInv DEF monsterVars
  <2> QED BY <2>1, <2>2, <2>3, <2>4, <2>5 DEF MonsterNext
<1>2. MonsterInit => PhaseInv BY DEF MonsterInit, PhaseInv, NothingRunsOnceGone
<1> QED BY <1>1, <1>2, MonsterInvInit, StepPhase, PTL DEF MonsterSpec

\* Outside a tick the monster is what its age makes of its parameters, whatever
\* order the stores of a tick are done in and whenever rmmod comes.
THEOREM StateBelongsToAge == MonsterSpec => []RestState
BY MonsterInductive, PTL DEF MonsterInv

-----------------------------------------------------------------------------
(* What a read of /proc may mix *)

\* The mood is that of the last tick until strscpy begins, and half the old and half the
\* new one until it ends.
MoodOfTick ==
    /\ work = "tick" => mood = MoodAfter(ticks)
    /\ work = "mood" => mood = IF MoodAfter(ticks) = MoodAfter(ticks + 1) THEN MoodAfter(ticks)
                               ELSE "mixed"

\* The tick in progress counts as well.
Now == IF Ticking THEN ticks + 1 ELSE ticks

\* The values that a field had between ticks lo and hi, the intermediate ones included.
HungerIn(v, lo, hi) == \E n \in lo .. hi : \/ v = HungerAfter(n)
                                           \/ n < hi /\ v = HungerAfter(n) + 10
EnergyIn(v, lo, hi) == \E n \in lo .. hi : \/ v = EnergyAfter(n)
                                           \/ n < hi /\ v = EnergyAfter(n) - 5
MoodIn(v, lo, hi) ==
    \E n \in lo .. hi : \/ v = MoodAfter(n)
                        \/ n < hi /\ MoodAfter(n) # MoodAfter(n + 1) /\ v = "mixed"

\* What has been printed already is of the time of the read so far.
ShownInv ==
    /\ shown = [f \in Fields |-> shown[f]]
    /\ show # "idle" => since \in Nat /\ since <= ticks
    /\ show \in {"hunger", "energy", "mood", "end"} => shown["age"] \in since .. Now
    /\ show \in {"energy", "mood", "end"} => HungerIn(shown["hunger"], since, Now)
    /\ show \in {"mood", "end"} => EnergyIn(shown["energy"], since, Now)
    /\ show = "end" => MoodIn(shown["mood"], since, Now)

ReadInv == MonsterInv /\ MoodOfTick /\ ShownInv

\* The time of a read only gets longer.
LEMMA LongerRead ==
    ASSUME NEW lo \in Nat, NEW hi \in Nat, NEW later \in Nat, hi <= later, NEW v
    PROVE  /\ v \in lo .. hi => v \in lo .. later
           /\ HungerIn(v, lo, hi) => HungerIn(v, lo, later)
           /\ EnergyIn(v, lo, hi) => EnergyIn(v, lo, later)
           /\ MoodIn(v, lo, hi) => MoodIn(v, lo, later)
<1>1. \A n \in lo .. hi : n \in lo .. later /\ (n < hi => n < later) BY SMT
<1> QED BY <1>1, Zenon DEF HungerIn, EnergyIn, MoodIn

\* At any moment, each field is of the last tick or of the one in progress.
LEMMA FieldsOfNow ==
    ASSUME ReadInv, NEW lo \in Nat, lo <= ticks
    PROVE  /\ age \in lo .. Now
           /\ HungerIn(hunger, lo, Now)
           /\ EnergyIn(energy, lo, Now)
           /\ MoodIn(mood, lo, Now)
<1> USE DEF ReadInv
<1>t. ticks \in Nat /\ ticks \in lo .. Now /\ (Ticking => ticks < Now /\ ticks + 1 \in lo .. Now)
  BY SMT DEF MonsterInv, Now
<1>1. age \in lo .. Now
  BY <1>t, SMT DEF MonsterInv, TickInv, MoodInv, RestState, Ticking, Now
<1>2. HungerIn(hunger, lo, Now)
  <2>1. \/ hunger = HungerAfter(ticks)
        \/ Ticking /\ hunger = HungerAfter(ticks) + 10
        \/ Ticking /\ hunger = HungerAfter(ticks + 1)
    BY DEF MonsterInv, TickInv, MoodInv, RestState, Ticking
  <2> QED BY <1>t, <2>1, SMT DEF HungerIn
<1>3. EnergyIn(energy, lo, Now)
  <2>1. \/ energy = EnergyAfter(ticks)
        \/ Ticking /\ energy = EnergyAfter(ticks) - 5
        \/ Ticking /\ energy = EnergyAfter(ticks + 1)
    BY DEF MonsterInv, TickInv, MoodInv, RestState, Ticking
  <2> QED BY <1>t, <2>1, SMT DEF EnergyIn
<1>4. MoodIn(mood, lo, Now)
  <2>1. \/ mood = MoodAfter(ticks)
        \/ Ticking /\ MoodAfter(ticks) # MoodAfter(ticks + 1) /\ mood = "mixed"
    BY DEF MonsterInv, RestState, MoodOfTick, Ticking
  <2> QED BY <1>t, <2>1, Zenon DEF MoodIn
<1> QED BY <1>1, <1>2, <1>3, <1>4

\* strscpy starts from the mood of the last tick and ends at that of the next.
LEMMA MoodStep ==
    ASSUME MonsterInv, MonsterInv', MoodOfTick, [MonsterNext]_monsterVars
    PROVE  MoodOfTick'
<1> USE DEF MoodOfTick
<1>f. UNCHANGED first
  BY DEF MonsterNext, monsterVars, monster_work_handler, WorkBegin, TickStore, TickMoodBegin,
         TickMoodEnd,
         WorkRearm, ShowBegin, monster_proc_show, ShowEnd, Show, ShowHunger, kernel_monster_init,
         kernel_monster_exit, ExitCancel, ExitCancelled, ExitRemove
<1>1. \A n : MoodAfter(n)' = MoodAfter(n) BY <1>f DEF MoodAfter, HungerAfter, EnergyAfter
<1>2. CASE WorkBegin
  BY <1>1, <1>2 DEF WorkBegin, monster, MonsterInv, RestState, Ticking
<1>3. ASSUME NEW f \in todo, TickStore(f) PROVE MoodOfTick' BY <1>1, <1>3 DEF TickStore
<1>4. CASE TickMoodBegin
  <2>1. Mood(hunger, energy) = MoodAfter(ticks + 1)
    BY <1>4 DEF TickMoodBegin, MonsterInv, TickInv, MoodAfter
  <2> QED BY <1>1, <1>4, <2>1 DEF TickMoodBegin
<1>5. CASE TickMoodEnd \/ WorkRearm BY <1>1, <1>5 DEF TickMoodEnd, WorkRearm
<1>6. CASE ShowBegin \/ monster_proc_show \/ ShowEnd
  BY <1>1, <1>6 DEF ShowBegin, monster_proc_show, ShowEnd, Show, ShowHunger, monster
<1>7. CASE kernel_monster_init \/ kernel_monster_exit
  BY <1>1, <1>7
     DEF kernel_monster_init, kernel_monster_exit, ExitCancel, ExitCancelled, ExitRemove, monster
<1>8. CASE UNCHANGED monsterVars BY <1>1, <1>8 DEF monsterVars, monster
<1> QED BY <1>2, <1>3, <1>4, <1>5, <1>6, <1>7, <1>8 DEF MonsterNext, monster_work_handler

\* A step that prints nothing at most makes the time of the read longer.
LEMMA QuietStep ==
    ASSUME ReadInv, UNCHANGED <<reader, first>>, ticks' \in Nat, ticks' >= ticks, Now' >= Now
    PROVE  ShownInv'
<1> USE DEF ReadInv, ShownInv, reader
<1>1. CASE show = "idle" BY <1>1
<1>2. CASE show # "idle"
  <2>1. since \in Nat /\ since <= ticks /\ ticks \in Nat BY <1>2 DEF MonsterInv
  <2>2. Now \in Nat /\ Now' \in Nat BY <2>1, SMT DEF Now
  <2>3. /\ \A n : HungerAfter(n)' = HungerAfter(n)
        /\ \A n : EnergyAfter(n)' = EnergyAfter(n)
        /\ \A n : MoodAfter(n)' = MoodAfter(n)
    BY DEF HungerAfter, EnergyAfter, MoodAfter
  <2>4. \A v : /\ HungerIn(v, since, Now)' <=> HungerIn(v, since, Now')
               /\ EnergyIn(v, since, Now)' <=> EnergyIn(v, since, Now')
               /\ MoodIn(v, since, Now)' <=> MoodIn(v, since, Now')
    BY <2>3, Zenon DEF HungerIn, EnergyIn, MoodIn
  <2>5. \A v : /\ v \in since .. Now => v \in since .. Now'
               /\ HungerIn(v, since, Now) => HungerIn(v, since, Now')
               /\ EnergyIn(v, since, Now) => EnergyIn(v, since, Now')
               /\ MoodIn(v, since, Now) => MoodIn(v, since, Now')
    BY <2>1, <2>2, LongerRead, Zenon
  <2>6. since <= ticks' BY <2>1, SMT
  <2> QED BY <1>2, <2>1, <2>4, <2>5, <2>6, Zenon
<1> QED BY <1>1, <1>2

\* A step of the read prints what the field is now.
LEMMA PrintStep ==
    ASSUME ReadInv, ShowBegin \/ monster_proc_show \/ ShowEnd
    PROVE  ShownInv'
<1> USE DEF ReadInv, Fields
<1>0. UNCHANGED <<monster, work, first, ticks>>
  BY DEF ShowBegin, monster_proc_show, ShowEnd, Show, ShowHunger
<1>1. ticks \in Nat BY DEF MonsterInv
<1>2. /\ Now' = Now
      /\ \A v, lo, hi : /\ HungerIn(v, lo, hi)' <=> HungerIn(v, lo, hi)
                        /\ EnergyIn(v, lo, hi)' <=> EnergyIn(v, lo, hi)
                        /\ MoodIn(v, lo, hi)' <=> MoodIn(v, lo, hi)
  BY <1>0 DEF Now, Ticking, HungerIn, EnergyIn, MoodIn, HungerAfter, EnergyAfter, MoodAfter
<1>3. CASE ShowBegin BY <1>0, <1>1, <1>3, SMT DEF ShowBegin, ShownInv
<1>4. CASE ShowEnd BY <1>4, Zenon DEF ShowEnd, ShownInv
<1>5. CASE monster_proc_show
  <2>1. show # "idle" /\ since' = since /\ since \in Nat /\ since <= ticks
    BY <1>5 DEF monster_proc_show, Show, ShowHunger, ShownInv
  <2>2. /\ age \in since .. Now
        /\ HungerIn(hunger, since, Now)
        /\ EnergyIn(energy, since, Now)
        /\ MoodIn(mood, since, Now)
    BY <2>1, FieldsOfNow
  <2> USE DEF ShownInv, Show
  <2>3. CASE Show("age", age, "hunger") BY <1>0, <1>2, <2>1, <2>2, <2>3
  <2>4. CASE ShowHunger BY <1>0, <1>2, <2>1, <2>2, <2>4 DEF ShowHunger
  <2>5. CASE Show("energy", energy, "mood") BY <1>0, <1>2, <2>1, <2>2, <2>5
  <2>6. CASE Show("mood", mood, "end") BY <1>0, <1>2, <2>1, <2>2, <2>6
  <2> QED BY <1>5, <2>3, <2>4, <2>5, <2>6 DEF monster_proc_show
<1> QED BY <1>3, <1>4, <1>5

\* So every step keeps what has been printed within the time of the read.
LEMMA ShownStep == ASSUME ReadInv, PhaseInv, [MonsterNext]_monsterVars PROVE ShownInv'
<1> USE DEF Now, Ticking
<1>t. ticks \in Nat BY DEF ReadInv, MonsterInv
<1>1. CASE monster_work_handler
  <2>1. UNCHANGED <<reader, first>> /\ ticks' \in Nat /\ ticks' >= ticks /\ Now' >= Now
    BY <1>t, <1>1, SMT
       DEF monster_work_handler, WorkBegin, TickStore, TickMoodBegin, TickMoodEnd, WorkRearm, reader
  <2> QED BY <2>1, QuietStep
<1>2. CASE ShowBegin \/ monster_proc_show \/ ShowEnd BY <1>2, PrintStep
<1>3. CASE kernel_monster_init \/ kernel_monster_exit \/ UNCHANGED monsterVars
  <2>1. UNCHANGED <<reader, first, ticks>> /\ Ticking' = Ticking
    BY <1>3
       DEF kernel_monster_init, kernel_monster_exit, ExitCancel, ExitCancelled, ExitRemove,
           monsterVars,
           PhaseInv
  <2>2. Now' = Now BY <2>1
  <2> QED BY <1>t, <2>1, <2>2, QuietStep, SMT
<1> QED BY <1>1, <1>2, <1>3 DEF MonsterNext

\* A read that started during one tick and ended during another shows nothing older than
\* the first and nothing that never was, whatever it mixes.
THEOREM ReadsOfItsTime == MonsterSpec => []ReadIsOfItsTime
<1>1. MonsterInit => MoodOfTick /\ ShownInv BY DEF MonsterInit, MoodOfTick, ShownInv
<1>2. MoodOfTick /\ ShownInv /\ MonsterInv /\ MonsterInv' /\ PhaseInv /\ [MonsterNext]_monsterVars
      => (MoodOfTick /\ ShownInv)'
  BY MoodStep, ShownStep DEF ReadInv
<1>3. ShownInv => ReadIsOfItsTime
  BY DEF ShownInv, ReadIsOfItsTime, HungerIn, EnergyIn, MoodIn, Now
<1> QED BY <1>1, <1>2, <1>3, MonsterInductive, PTL DEF MonsterSpec
=============================================================================
