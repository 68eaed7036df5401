---------------------------- MODULE CryptoChallenge ----------------------------
(***************************************************************************)
(* crypto_challenge/crypto_challenge.c: one encrypting thread per core, a  *)
(* control thread that lets them run part of the time, a timer that        *)
(* samples the operations and the temperatures, and the module's init and  *)
(* exit, which run concurrently with all of them.                          *)
(*                                                                         *)
(* Time is jiffies.  The handler of a timer that is due starts before the  *)
(* next tick; how long it runs, and how long msleep, a thread's wake-up or *)
(* an encryption takes is open.                                            *)
(***************************************************************************)
EXTENDS Integers, Sequences, Functions

CONSTANTS MAX_CORES,
          SAMPLE_PERIOD, BENCH_DURATION,        \* in jiffies
          MAX_SAMPLES,
          THERMAL_LIMIT,
          Temperatures,
          COST_UNIT, SCORE_UNIT,        \* the two 100000 of compute_score
          OPS_RANGE,    \* the operation counter wraps at this value
          MaxJiffies,   \* bound: the clock stops there
          Failures      \* BOOLEAN: init's requests may be refused

ASSUME CryptoAssumption ==
    /\ MAX_CORES \in Nat \ {0}
    /\ SAMPLE_PERIOD \in Nat \ {0}
    /\ BENCH_DURATION \in Nat /\ SAMPLE_PERIOD <= BENCH_DURATION
    /\ MAX_SAMPLES = BENCH_DURATION \div SAMPLE_PERIOD
    /\ Temperatures \subseteq Nat
    /\ COST_UNIT \in Nat \ {0} /\ SCORE_UNIT \in Nat
    /\ OPS_RANGE \in Nat \ {0}
    /\ MaxJiffies \in Nat
    /\ Failures \in BOOLEAN

VARIABLES jiffies,
          loader, core,         \* where mod_init or mod_exit is, and for which core
          proc,                 \* the /proc entries that exist
          task,                 \* of each worker: "none", "thread" or "error"
          memory,               \* what each worker holds of buf, tfm and req
          worker,               \* the point each worker thread has reached
          control,              \* the same for the control thread
          stopping,             \* the threads that kthread_stop has been called for
          run, stop,
          ops, samples,
          invalid, final_score,
          start_jiffies,
          sampling_from,        \* the jiffies from which start_sampling counts (history)
          expires,              \* of the timer; NotArmed
          handler,              \* sample_fn: "idle" or its point
          scored                \* compute_score has run

threads == <<worker, control, stopping>>
timer == <<expires, handler>>
loading == <<loader, core, proc, task, memory>>
starts == <<start_jiffies, sampling_from>>
result == <<invalid, final_score, scored>>
vars == <<jiffies, loading, threads, run, stop, ops, samples, result, starts, timer>>

Cores == 0 .. MAX_CORES - 1
Controller == MAX_CORES         \* the control thread, among the threads
NotArmed == -1
All == {"buf", "tfm", "req"}

Init == /\ jiffies = 0
        /\ loader = "mkdir"
        /\ core = 0
        /\ proc = {}
        /\ task = [c \in Cores |-> "none"]
        /\ memory = [c \in Cores |-> {}]
        /\ worker = [c \in Cores |-> "none"]
        /\ control = "none"
        /\ stopping = {}
        /\ run = FALSE
        /\ stop = FALSE
        /\ ops = 0
        /\ samples = <<>>
        /\ invalid = 0
        /\ final_score = 0
        /\ start_jiffies = 0
        /\ sampling_from = 0
        /\ expires = NotArmed
        /\ handler = "idle"
        /\ scored = FALSE

\* An operator named X_m... is wrong on purpose: it is what a plausible slip
\* would make of X, and shows that a property notices.  No action uses it.

Due == expires # NotArmed /\ jiffies >= expires

Tick == /\ jiffies < MaxJiffies
        /\ ~Due
        /\ jiffies' = jiffies + 1
        /\ UNCHANGED <<loading, threads, run, stop, ops, samples, result, starts, timer>>

-----------------------------------------------------------------------------
(* The workers *)

WorkerGoto(c, point) ==
    /\ worker' = [worker EXCEPT ![c] = point]
    /\ UNCHANGED <<jiffies, loading, control, stopping, run, stop, samples, result,
                   starts, timer>>

\* A thread that is stopped before it has run never calls its function.
WorkerStart(c) == /\ worker[c] = "created"
                  /\ WorkerGoto(c, IF c \in stopping THEN "exited" ELSE "loop")
                  /\ UNCHANGED ops

WorkerLoop(c) == /\ worker[c] = "loop"
                 /\ WorkerGoto(c, IF c \in stopping THEN "exited" ELSE "check_run")
                 /\ UNCHANGED ops

WorkerCheckRun(c) == /\ worker[c] = "check_run"
                     /\ WorkerGoto(c, IF run THEN "crypto" ELSE "sleep")
                     /\ UNCHANGED ops

\* do_crypto, then the counter.
WorkerCrypto(c) == /\ worker[c] = "crypto"
                   /\ ops' = (ops + 1) % OPS_RANGE
                   /\ WorkerGoto(c, "loop")

\* schedule() instead of a timeout: only a wake-up ends the sleep, and the one
\* that kthread_stop gave before the thread slept is gone.
WorkerSleep_mNoTimeout(c) == /\ worker[c] = "sleep"
                             /\ FALSE
                             /\ WorkerGoto(c, "loop")
                             /\ UNCHANGED ops

\* The 10 ms are over.
WorkerSleep(c) == /\ worker[c] = "sleep"
                  /\ WorkerGoto(c, "loop")
                  /\ UNCHANGED ops

worker_fn(c) == \/ WorkerStart(c) \/ WorkerLoop(c) \/ WorkerCheckRun(c)
                \/ WorkerCrypto(c) \/ WorkerSleep(c)

-----------------------------------------------------------------------------
(* The timer.  A sample's operations are recorded before its temperatures. *)

\* A handler with room for one sample too many.
SampleBegin_mOffByOne ==
    /\ Due
    /\ handler = "idle"
    /\ expires' = NotArmed
    /\ IF Len(samples) > MAX_SAMPLES
       THEN UNCHANGED <<samples, handler>>
       ELSE /\ samples' = Append(samples, [ops |-> ops, temp |-> [c \in Cores |-> 0]])
            /\ handler' = "temp"
    /\ UNCHANGED <<jiffies, loading, threads, run, stop, ops, result, starts>>

\* The handler looks for room before it records the operations.
SampleBegin ==
    /\ Due
    /\ handler = "idle"
    /\ expires' = NotArmed
    /\ IF Len(samples) >= MAX_SAMPLES
       THEN UNCHANGED <<samples, handler>>
       ELSE /\ samples' = Append(samples, [ops |-> ops, temp |-> [c \in Cores |-> 0]])
            /\ handler' = "temp"
    /\ UNCHANGED <<jiffies, loading, threads, run, stop, ops, result, starts>>

SampleTemperatures ==
    /\ handler = "temp"
    /\ \E temp \in [Cores -> Temperatures] :
          /\ samples' = [samples EXCEPT ![Len(samples)].temp = temp]
          /\ invalid' = IF \E c \in Cores : temp[c] > THERMAL_LIMIT THEN 1 ELSE invalid
    /\ handler' = "rearm"
    /\ UNCHANGED <<jiffies, loading, threads, run, stop, ops, final_score, scored,
                   starts, expires>>

SampleRearm ==
    /\ handler = "rearm"
    /\ expires' = jiffies + SAMPLE_PERIOD
    /\ handler' = "idle"
    /\ UNCHANGED <<jiffies, loading, threads, run, stop, ops, samples, result, starts>>

sample_fn == SampleBegin \/ SampleTemperatures \/ SampleRearm

\* del_timer instead of del_timer_sync: the handler may still be running.
stop_sampling_mNoSync == expires' = NotArmed /\ UNCHANGED handler

\* del_timer_sync: waits until the handler is not running.
stop_sampling == handler = "idle" /\ expires' = NotArmed /\ UNCHANGED handler

-----------------------------------------------------------------------------
(* The score *)

CostOf(s, c) == LET delta == s.temp[c] - samples[1].temp[c]
                IN  IF delta < 0 THEN 0 ELSE delta * delta

SampleCost(s) == SumFunction([c \in Cores |-> CostOf(s, c)])

ThermalCost == SumFunction([i \in 2 .. Len(samples) |-> SampleCost(samples[i])])

ScoreOf(total, cost) == IF invalid = 1 THEN 0
                        ELSE ((total \div BENCH_DURATION) * SCORE_UNIT) \div (cost \div COST_UNIT + 1)

Score == ScoreOf((samples[Len(samples)].ops - samples[1].ops) % OPS_RANGE, ThermalCost)

\* Without a sample the operations are what lies before the array: samples[-1].
AnyScore == {ScoreOf(garbage, 0) : garbage \in 0 .. OPS_RANGE - 1}

-----------------------------------------------------------------------------
(* The control thread *)

ControlGoto(point) == /\ control' = point
                      /\ UNCHANGED <<jiffies, loading, worker, stopping, ops>>

ControlStart ==
    /\ control = "created"
    /\ \/ /\ Controller \in stopping
          /\ ControlGoto("exited")
          /\ UNCHANGED start_jiffies
       \/ /\ Controller \notin stopping
          /\ ControlGoto("start_sampling")
          /\ start_jiffies' = jiffies
    /\ UNCHANGED <<run, stop, samples, result, sampling_from, timer>>

\* start_sampling looks at the clock anew: the thread may have been held up.
ControlStartSampling ==
    /\ control = "start_sampling"
    /\ ControlGoto("loop")
    /\ samples' = <<>>
    /\ sampling_from' = jiffies
    /\ expires' = jiffies + SAMPLE_PERIOD
    /\ stop' = FALSE
    /\ UNCHANGED <<run, result, start_jiffies, handler>>

ControlLoop ==
    /\ control = "loop"
    /\ ControlGoto(IF Controller \in stopping THEN "exited"
                   ELSE IF stop THEN "sleep" ELSE "check_time")
    /\ UNCHANGED <<run, stop, samples, result, starts, timer>>

\* The 10 ms are over.
ControlSleep == /\ control = "sleep"
                /\ ControlGoto("loop")
                /\ UNCHANGED <<run, stop, samples, result, starts, timer>>

\* The minute starts anew with every turn of the duty cycle.
ControlRun_mRestarts ==
    /\ control = "check_time"
    /\ jiffies <= start_jiffies + BENCH_DURATION
    /\ run' = TRUE
    /\ start_jiffies' = jiffies
    /\ ControlGoto("on")
    /\ UNCHANGED <<stop, samples, result, sampling_from, timer>>

ControlRun == /\ control = "check_time"
              /\ jiffies <= start_jiffies + BENCH_DURATION
              /\ run' = TRUE
              /\ ControlGoto("on")
              /\ UNCHANGED <<stop, samples, result, starts, timer>>

\* msleep(duty_on_ms) and msleep(duty_off_ms) are over.
ControlPause == /\ control = "on"
                /\ run' = FALSE
                /\ ControlGoto("off")
                /\ UNCHANGED <<stop, samples, result, starts, timer>>
ControlResume == /\ control = "off"
                 /\ ControlGoto("loop")
                 /\ UNCHANGED <<run, stop, samples, result, starts, timer>>

ControlEnd == /\ control = "check_time"
              /\ jiffies > start_jiffies + BENCH_DURATION
              /\ run' = FALSE
              /\ stop' = TRUE
              /\ ControlGoto("stop_sampling")
              /\ UNCHANGED <<samples, result, starts, timer>>

ControlStopSampling == /\ control = "stop_sampling"
                       /\ stop_sampling
                       /\ ControlGoto("score")
                       /\ UNCHANGED <<run, stop, samples, result, starts>>

ControlScore == /\ control = "score"
                /\ final_score' \in IF samples = <<>> THEN AnyScore ELSE {Score}
                /\ scored' = TRUE
                /\ ControlGoto("loop")
                /\ UNCHANGED <<run, stop, samples, invalid, starts, timer>>

control_fn == \/ ControlStart \/ ControlStartSampling \/ ControlLoop \/ ControlSleep \/ ControlRun \/ ControlPause
              \/ ControlResume \/ ControlEnd \/ ControlStopSampling \/ ControlScore

-----------------------------------------------------------------------------
(* mod_init *)

LoaderGoto(point) == /\ loader' = point
                     /\ UNCHANGED <<jiffies, run, stop, ops, samples, result, starts,
                                    handler>>

InitFails == /\ Failures
             /\ loader \in {"mkdir", "mkproc"}
             /\ LoaderGoto("failed")
             /\ UNCHANGED <<core, proc, task, memory, threads, expires>>

InitMkdir == /\ loader = "mkdir"
             /\ proc' = {"crypto_challenge"}
             /\ LoaderGoto("mkproc")
             /\ UNCHANGED <<core, task, memory, threads, expires>>

InitMkproc == /\ loader = "mkproc"
              /\ proc' = proc \cup {"stats"}
              /\ LoaderGoto("start_worker")
              /\ UNCHANGED <<core, task, memory, threads, expires>>

NextCore(point, after) == IF core = MAX_CORES - 1
                          THEN core' = 0 /\ LoaderGoto(after)
                          ELSE core' = core + 1 /\ LoaderGoto(point)

\* start_worker, whose result is ignored: buf, tfm, req and the thread are
\* obtained in this order, and what was obtained before a refusal is kept.
\* kthread_create leaves its error pointer in task.
InitStartWorker ==
    /\ loader = "start_worker"
    /\ \/ /\ memory' = [memory EXCEPT ![core] = All]
          /\ task' = [task EXCEPT ![core] = "thread"]
          /\ worker' = [worker EXCEPT ![core] = "created"]
       \/ /\ Failures
          /\ \E kept \in {{}, {"buf"}, {"buf", "tfm"}} : memory' = [memory EXCEPT ![core] = kept]
          /\ UNCHANGED <<task, worker>>
       \/ /\ Failures
          /\ memory' = [memory EXCEPT ![core] = All]
          /\ task' = [task EXCEPT ![core] = "error"]
          /\ UNCHANGED worker
    /\ NextCore("start_worker", "start_control")
    /\ UNCHANGED <<proc, control, stopping, expires>>

\* kthread_run; its error pointer goes unnoticed.
InitStartControl ==
    /\ loader = "start_control"
    /\ \/ control' = "created"
       \/ Failures /\ control' = "error"
    /\ LoaderGoto("loaded")
    /\ UNCHANGED <<core, proc, task, memory, worker, stopping, expires>>

mod_init == InitFails \/ InitMkdir \/ InitMkproc \/ InitStartWorker \/ InitStartControl

-----------------------------------------------------------------------------
(* mod_exit.  kthread_stop marks the thread, wakes it if it sleeps and waits   *)
(* until it has exited; given an error pointer it crashes ("oops").            *)

Unload == /\ loader = "loaded"
          /\ LoaderGoto("stop_control")
          /\ UNCHANGED <<core, proc, task, memory, threads, expires>>

ExitStopControl ==
    /\ loader = "stop_control"
    /\ IF control = "error"
       THEN LoaderGoto("oops") /\ UNCHANGED threads
       ELSE /\ stopping' = stopping \cup {Controller}
            /\ control' = IF control = "sleep" THEN "loop" ELSE control
            /\ LoaderGoto("wait_control")
            /\ UNCHANGED worker
    /\ UNCHANGED <<core, proc, task, memory, expires>>

ExitWaitControl == /\ loader = "wait_control"
                   /\ control = "exited"
                   /\ LoaderGoto("stop_timer")
                   /\ UNCHANGED <<core, proc, task, memory, threads, expires>>

\* Relying on the control thread to have stopped the sampling.
ExitStopTimer_mMissing == /\ loader = "stop_timer"
                          /\ LoaderGoto("stop_worker")
                          /\ UNCHANGED <<core, proc, task, memory, threads, expires>>

ExitStopTimer == /\ loader = "stop_timer"
                 /\ stop_sampling
                 /\ loader' = "stop_worker"
                 /\ UNCHANGED <<jiffies, core, proc, task, memory, threads, run, stop, ops,
                                samples, result, starts>>

\* stop_worker up to kthread_stop's wait; a worker without a task is skipped.
ExitStopWorker ==
    /\ loader = "stop_worker"
    /\ task' = [task EXCEPT ![core] = "none"]
    /\ \/ /\ task[core] = "none"
          /\ NextCore("stop_worker", "remove_proc")
          /\ UNCHANGED threads
       \/ /\ task[core] = "error"
          /\ LoaderGoto("oops")
          /\ UNCHANGED <<core, threads>>
       \/ /\ task[core] = "thread"
          /\ stopping' = stopping \cup {core}
          /\ worker' = [worker EXCEPT ![core] = IF @ = "sleep" THEN "loop" ELSE @]
          /\ LoaderGoto("wait_worker")
          /\ UNCHANGED <<core, control>>
    /\ UNCHANGED <<proc, memory, expires>>

\* The memory is freed when the thread has been told to stop.
ExitFreeWorker_mEarly == /\ loader = "wait_worker"
                         /\ memory' = [memory EXCEPT ![core] = {}]
                         /\ NextCore("stop_worker", "remove_proc")
                         /\ UNCHANGED <<proc, task, threads, expires>>

\* kthread_stop returns, and req, tfm and buf are freed.
ExitFreeWorker == /\ loader = "wait_worker"
                  /\ worker[core] = "exited"
                  /\ memory' = [memory EXCEPT ![core] = {}]
                  /\ NextCore("stop_worker", "remove_proc")
                  /\ UNCHANGED <<proc, task, threads, expires>>

ExitRemoveProc == /\ loader = "remove_proc"
                  /\ proc' = {}
                  /\ LoaderGoto("gone")
                  /\ UNCHANGED <<core, task, memory, threads, expires>>

mod_exit == \/ ExitStopControl \/ ExitWaitControl \/ ExitStopTimer
            \/ ExitStopWorker \/ ExitFreeWorker \/ ExitRemoveProc

-----------------------------------------------------------------------------
Next == \/ Tick
        \/ \E c \in Cores : worker_fn(c)
        \/ control_fn
        \/ sample_fn
        \/ mod_init
        \/ Unload
        \/ mod_exit

Spec == Init /\ [][Next]_vars

\* The clock runs, a due timer is handled, and the threads are scheduled; nobody
\* has to unload the module.
FairSpec == /\ Spec
            /\ WF_vars(Tick)
            /\ \A c \in Cores : WF_vars(worker_fn(c))
            /\ WF_vars(control_fn)
            /\ WF_vars(sample_fn)
            /\ WF_vars(mod_init)
            /\ WF_vars(mod_exit)

-----------------------------------------------------------------------------
(* Properties *)

ExitPoints == {"stop_control", "wait_control", "stop_timer", "stop_worker", "wait_worker",
               "remove_proc"}

\* Type invariant: the samples fit into their array even when the control thread
\* is late to stop the timer.
TypeOK ==
    /\ jiffies \in 0 .. MaxJiffies
    /\ loader \in {"mkdir", "mkproc", "start_worker", "start_control", "loaded", "failed",
                   "gone", "oops"} \cup ExitPoints
    /\ core \in Cores
    /\ worker \in [Cores -> {"none", "created", "loop", "check_run", "crypto", "sleep", "exited"}]
    /\ stopping \subseteq Cores \cup {Controller}
    /\ Len(samples) <= MAX_SAMPLES
    /\ invalid \in {0, 1}
    /\ final_score \in Nat

\* "Stop thread first (ensures no more crypto use)": a worker that encrypts has
\* its buffer, transform and request, whenever the module is unloaded.
EncryptsWithMemory == \A c \in Cores : worker[c] = "crypto" => memory[c] = All

\* The score is that of the samples that anyone sees afterwards: no sample, and
\* no disqualifying temperature, arrives once compute_score has looked; and there
\* was one at sample_count - 1, unless the control thread was held up so long
\* between its two looks at the clock, for the benchmark and for the timer, that
\* the first sample was due only after the end.
NoSampleWasDue == sampling_from + SAMPLE_PERIOD > start_jiffies + BENCH_DURATION
ScoreIsOfSamples == scored => \/ samples # <<>> /\ final_score = Score
                              \/ samples = <<>> /\ NoSampleWasDue

\* What mod_exit leaves, whenever it comes: no thread, no timer armed or running,
\* no memory of a worker that ran and no /proc entry.  (What a worker that could
\* not be started had obtained is left.)
NothingLeftBehind ==
    loader = "gone" =>
        /\ \A c \in Cores : \/ worker[c] = "none"
                            \/ worker[c] = "exited" /\ memory[c] = {}
        /\ control = "exited"
        /\ expires = NotArmed /\ handler = "idle"
        /\ proc = {}

\* rmmod comes back: no thread sleeps through the kthread_stop that waits for it.
\* (The comment in worker_fn tells of one that did, with a plain schedule().  When
\* a thread could not be created, kthread_stop crashes on its error pointer.)
ThreadRefused == control = "error" \/ \E c \in Cores : task[c] = "error"
UnloadCompletes == loader \in ExitPoints /\ ~ThreadRefused ~> loader = "gone"

\* The benchmark comes to its score, unless it is unloaded before.  (The bounded
\* clock must reach its end.)
BenchmarkEnds == control = "loop" /\ start_jiffies + BENCH_DURATION < MaxJiffies
                 ~> scored \/ Controller \in stopping
=============================================================================
