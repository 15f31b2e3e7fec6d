------------------------------- MODULE FsBench -------------------------------
(***************************************************************************)
(* The measurements of the file-system experiment: the clock of critical   *)
(* sections (system/fscs.c), the metrics (fsmetrics.c), workers and driver *)
(* (fsworker.c), and what of the local file system uses lf_mutex.  Ticks   *)
(* are those of the time stamp counter; they go on whatever runs.          *)
(*                                                                         *)
(* Calls that go through the device switch run with interrupts disabled:   *)
(* another process runs only while they wait, or when signal hands the     *)
(* mutex to one that waits.  remove runs with interrupts enabled and may   *)
(* be preempted between any two steps; rename is like it.                  *)
(*                                                                         *)
(* A file's own lock and the work between sections only delay a call, as   *)
(* its caller's preemption does, and have no steps of their own.           *)
(***************************************************************************)
EXTENDS Integers, Sequences, SequencesExt, FiniteSets, FiniteSetsExt

CONSTANTS Worker,         \* processes that may be workers
          Remover,        \* one that removes files and asks for their size
          Nlfl,           \* number of local file pseudo-devices
          Iterations,     \* operations per worker
          FSMAX_SAMPLES,  \* size of the sample buffer
          Delay,          \* how long the driver sleeps, in ticks
          MaxLaunches,    \* bound: workers that are created in all
          MaxNow,         \* bound: ticks
          Width           \* ticks in samples are kept modulo 2^Width

ASSUME BenchAssumption ==
    /\ Remover \notin Worker
    /\ {Nlfl, Iterations, FSMAX_SAMPLES, Delay, MaxLaunches, MaxNow, Width} \subseteq Nat
    /\ 2 * MaxNow < 2^Width

VARIABLES now,       \* the time stamp counter
          cs,        \* fs_cs_active, fs_cs_current_start, fs_cs_total_ticks
          metrics,   \* samples and the aggregate statistics
          mutex,     \* the line of lf_mutex: its head holds it
          cpu,       \* who runs with interrupts disabled, or Nobody
          used,      \* pseudo-devices whose state is LF_USED
          pc,        \* how far each process is in its call, and a time it keeps
          worker,    \* where each worker is, and its local variables
          driver     \* where fs_run_experiment is; how often it was called

\* History variables: ticks in which the holder of lf_mutex was inside; the
\* operations that the metrics have to count since they were reset, and how many
\* of them are of workers of earlier experiments.
VARIABLES inside, due, strays

history   == <<inside, due, strays>>
benchvars == <<now, cs, metrics, mutex, cpu, used, pc, worker, driver, history>>

Nobody == "nobody"
Out    == [at |-> "out", op |-> "none", t |-> 0]
NotRun == [at |-> "idle", run |-> 0, i |-> 0, dev |-> 0, before |-> 0, from |-> 0,
           own |-> 0, lost |-> 0, ticks |-> 0, span |-> 0]
Mod(n) == n % 2^Width

NoMetrics == [samples |-> <<>>, ops |-> 0, ticks |-> 0]

BenchInit ==
    /\ now     = 0
    /\ cs      = [active |-> FALSE, start |-> 0, total |-> 0]
    /\ metrics = NoMetrics
    /\ mutex   = <<>>
    /\ cpu     = Nobody
    /\ used    = {}
    /\ pc      = [p \in Worker \cup {Remover} |-> Out]
    /\ worker  = [w \in Worker |-> NotRun]
    /\ driver  = [at |-> "idle", left |-> 0, until |-> 0, runs |-> 0, launched |-> 0]
    /\ inside = 0 /\ due = 0 /\ strays = 0

-----------------------------------------------------------------------------
\* fscs.c
Entered ==
    IF cs.active THEN cs ELSE [cs EXCEPT !.active = TRUE, !.start = now]

\* t is the time that was read before interrupts were disabled.
Exited(t) ==
    IF cs.active THEN [cs EXCEPT !.active = FALSE, !.total = @ + (t - cs.start)] ELSE cs

Snapshot == Mod(IF cs.active THEN cs.total + (now - cs.start) ELSE cs.total)

\* A sample keeps the process; here, the experiment it belongs to.
Sample(w) == [run |-> worker[w].run, ticks |-> worker[w].ticks]

\* fsmetrics_record
Recorded(m, s) ==
    [samples |-> IF Len(m.samples) < FSMAX_SAMPLES THEN Append(m.samples, s) ELSE m.samples,
     ops     |-> m.ops + 1,
     ticks   |-> Mod(m.ticks + s.ticks)]

-----------------------------------------------------------------------------
\* lf_mutex.  A call of read or write is at "call" outside its sections.  Every
\* call is at "mutex" in the line, "inside" between fs_cs_enter and fs_cs_exit, at
\* "exit" in the middle of the latter, and at "left" between it and its signal.

\* A worker keeps its file and how many operations are left, and forgets the rest.
Reset(w, at, i) ==
    [NotRun EXCEPT !.at = at, !.run = worker[w].run, !.dev = worker[w].dev, !.i = i]

May(p)       == cpu \in {Nobody, p}
Disables(p)  == pc[p].op # "remove"
Owner(p)     == IF Disables(p) THEN p ELSE Nobody
At(p, at, t) == pc' = [pc EXCEPT ![p].at = at, ![p].t = t]

\* Nobody else runs between the beginning of open or control and its wait.
Waits(p, op) ==
    /\ mutex' = Append(mutex, p)
    /\ cpu'   = IF mutex = <<>> /\ op # "remove" THEN p ELSE Nobody
    /\ pc'    = [pc EXCEPT ![p] = [at |-> "mutex", op |-> op, t |-> 0]]

\* LF_CTL_SIZE and LF_CTL_TRUNC never enter.
LfEnter(p) ==
    /\ May(p) /\ pc[p].at = "mutex" /\ pc[p].op # "size"
    /\ Head(mutex) = p
    /\ cs'  = Entered
    /\ cpu' = Owner(p)
    /\ At(p, "inside", now)
    /\ UNCHANGED <<now, metrics, mutex, used, worker, driver, history>>

\* fs_cs_exit with interrupts disabled.  own adds up the caller's sections;
\* open has marked the pseudo-device that it chose before it waited.
LfExit(w) ==
    /\ May(w) /\ pc[w].at = "inside"
    /\ cs'     = Exited(now)
    /\ used'   = IF pc[w].op = "open" THEN used \cup {worker[w].dev} ELSE used
    /\ worker' = [worker EXCEPT ![w].own = @ + (now - pc[w].t)]
    /\ At(w, "left", 0)
    /\ UNCHANGED <<now, metrics, mutex, cpu, driver, history>>

\* In remove the time is read, ...
RemoveReadsTime ==
    /\ May(Remover) /\ pc[Remover].at = "inside"
    /\ At(Remover, "exit", now)
    /\ UNCHANGED <<now, cs, metrics, mutex, cpu, used, worker, driver, history>>

\* ... and added to the total with interrupts disabled: the ticks in between
\* are lost to whoever measures.
RemoveExit ==
    /\ May(Remover) /\ pc[Remover].at = "exit"
    /\ cs'   = Exited(pc[Remover].t)
    /\ worker' = [w \in Worker |-> IF worker[w].at \in {"io", "after"}
                                    THEN [worker[w] EXCEPT !.lost = @ + (now - pc[Remover].t)]
                                    ELSE worker[w]]
    /\ At(Remover, "left", 0)
    /\ UNCHANGED <<now, metrics, mutex, cpu, used, driver, history>>

\* signal: who waits next has the mutex, and may run before the caller goes on.
\* Calls other than read and write end with it.
LfSignal(p) ==
    /\ May(p)
    /\ \/ pc[p].at = "left"
       \/ pc[p].at = "mutex" /\ pc[p].op = "size" /\ Head(mutex) = p
    /\ mutex' = Tail(mutex)
    /\ IF pc[p].op = "io"
       THEN /\ cpu' = IF Tail(mutex) = <<>> THEN p ELSE Nobody
            /\ At(p, "call", 0)
       ELSE /\ cpu' = Nobody
            /\ pc'  = [pc EXCEPT ![p] = Out]
    /\ worker' = IF pc[p].op = "open" THEN [worker EXCEPT ![p] = Reset(p, "opened", Iterations)]
                 ELSE worker
    /\ UNCHANGED <<now, cs, metrics, used, driver, history>>

RemoverCalls(op) ==
    /\ cpu = Nobody /\ pc[Remover] = Out
    /\ Waits(Remover, op)
    /\ UNCHANGED <<now, cs, metrics, used, worker, driver, history>>

-----------------------------------------------------------------------------
\* fs_worker.  Between its calls it may be preempted anywhere.

Moves(w, from) == cpu = Nobody /\ pc[w] = Out /\ worker[w].at = from

\* open: it takes the first free pseudo-device, or fails; lf_mutex comes later.
WorkerOpen(w) ==
    /\ Moves(w, "open")
    /\ LET free == (0 .. Nlfl - 1) \ used
       IN \/ /\ free # {}
             /\ worker' = [worker EXCEPT ![w].at = "opening", ![w].dev = Min(free)]
             /\ Waits(w, "open")
             /\ UNCHANGED due
          \/ /\ free = {}
             /\ worker' = [worker EXCEPT ![w].at = "failed"]
             /\ due'    = due - (Iterations + 1)
             /\ UNCHANGED <<mutex, cpu, pc>>
    /\ UNCHANGED <<now, cs, metrics, used, driver, inside, strays>>

\* The samples of open; the worker ends if it failed.
WorkerRecordOpen(w) ==
    /\ Moves(w, "opened") \/ Moves(w, "failed")
    /\ metrics' = Recorded(metrics, Sample(w))
    /\ worker'  = [worker EXCEPT ![w] = IF @.at = "failed" THEN NotRun
                                        ELSE [@ EXCEPT !.at = "before"]]
    /\ UNCHANGED <<now, cs, mutex, cpu, used, pc, driver, history>>

\* fs_measure_read, fs_measure_write: one step for each snapshot of the
\* clock.  The latency, which two readings of the counter give, is left out.
WorkerBefore(w) ==
    /\ Moves(w, "before")
    /\ worker' = [worker EXCEPT ![w].at = "io", ![w].before = Snapshot, ![w].from = now]
    /\ UNCHANGED <<now, cs, metrics, mutex, cpu, used, pc, driver, history>>

\* read or write, with as many sections as it needs.
WorkerCalls(w) ==
    /\ Moves(w, "io")
    /\ cpu' = w
    /\ pc'  = [pc EXCEPT ![w] = [at |-> "call", op |-> "io", t |-> 0]]
    /\ UNCHANGED <<now, cs, metrics, mutex, used, worker, driver, history>>

WorkerWaits(w) ==
    /\ May(w) /\ pc[w].at = "call"
    /\ Waits(w, "io")
    /\ UNCHANGED <<now, cs, metrics, used, worker, driver, history>>

WorkerReturns(w) ==
    /\ May(w) /\ pc[w].at = "call"
    /\ cpu'    = Nobody
    /\ pc'     = [pc EXCEPT ![w] = Out]
    /\ worker' = [worker EXCEPT ![w].at = "after"]
    /\ UNCHANGED <<now, cs, metrics, mutex, used, driver, history>>

\* What is known of the operation when it is to be recorded.
Measured(w, snapshot) ==
    [worker[w] EXCEPT !.at = "record", !.ticks = Mod(snapshot - worker[w].before),
                      !.span = now - worker[w].from, !.before = 0, !.from = 0]

\* Mutant of WorkerAfter: the total, without the section that is on.
WorkerAfterTotal(w) ==
    /\ Moves(w, "after")
    /\ worker' = [worker EXCEPT ![w] = Measured(w, Mod(cs.total))]
    /\ UNCHANGED <<now, cs, metrics, mutex, cpu, used, pc, driver, history>>

WorkerAfter(w) ==
    /\ Moves(w, "after")
    /\ worker' = [worker EXCEPT ![w] = Measured(w, Snapshot)]
    /\ UNCHANGED <<now, cs, metrics, mutex, cpu, used, pc, driver, history>>

WorkerRecord(w) ==
    /\ Moves(w, "record")
    /\ metrics' = Recorded(metrics, Sample(w))
    /\ worker'  = [worker EXCEPT ![w] =
                     Reset(w, IF @.i > 1 THEN "before" ELSE "close", @.i - 1)]
    /\ UNCHANGED <<now, cs, mutex, cpu, used, pc, driver, history>>

\* close has no section.
WorkerClose(w) ==
    /\ Moves(w, "close")
    /\ used'   = used \ {worker[w].dev}
    /\ worker' = [worker EXCEPT ![w].at = "closed"]
    /\ UNCHANGED <<now, cs, metrics, mutex, cpu, pc, driver, history>>

WorkerRecordClose(w) ==
    /\ Moves(w, "closed")
    /\ metrics' = Recorded(metrics, Sample(w))
    /\ worker'  = [worker EXCEPT ![w] = NotRun]
    /\ UNCHANGED <<now, cs, mutex, cpu, used, pc, driver, history>>

-----------------------------------------------------------------------------
\* fs_run_experiment, by one process at a time.

\* The operations a worker has not recorded yet.
Remaining(w) ==
    CASE worker[w].at = "idle"                             -> 0
      [] worker[w].at \in {"failed", "close", "closed"}    -> 1
      [] worker[w].at \in {"open", "opening", "opened"}    -> Iterations + 2
      [] OTHER                                             -> worker[w].i + 1

Outstanding == MapThenSumSet(Remaining, Worker)

Workless == {w \in Worker : worker[w].at = "idle"}

\* It resets the metrics under whoever still works for an earlier experiment, ...
DriverResets(n) ==
    /\ cpu = Nobody /\ driver.at = "idle"
    /\ n <= Cardinality(Workless) /\ driver.launched + n <= MaxLaunches
    /\ metrics' = NoMetrics
    /\ driver'  = [driver EXCEPT !.at = "launch", !.left = n, !.runs = @ + 1]
    /\ due'     = Outstanding
    /\ strays'  = Outstanding
    /\ UNCHANGED <<now, cs, mutex, cpu, used, pc, worker, inside>>

\* ... creates and resumes one worker after the other, ...
DriverLaunches(w) ==
    /\ cpu = Nobody /\ driver.at = "launch" /\ driver.left > 0
    /\ w \in Workless
    /\ worker' = [worker EXCEPT ![w] = [NotRun EXCEPT !.at = "open", !.run = driver.runs]]
    /\ due'    = due + (Iterations + 2)
    /\ driver' = [driver EXCEPT !.left = @ - 1, !.launched = @ + 1]
    /\ UNCHANGED <<now, cs, metrics, mutex, cpu, used, pc, inside, strays>>

DriverSleeps ==
    /\ cpu = Nobody /\ driver.at = "launch" /\ driver.left = 0
    /\ driver' = [driver EXCEPT !.at = "sleep", !.until = now + Delay]
    /\ UNCHANGED <<now, cs, metrics, mutex, cpu, used, pc, worker, history>>

\* ... and returns when its sleep is over, whatever its workers do.
DriverReturns ==
    /\ cpu = Nobody /\ driver.at = "sleep" /\ now >= driver.until
    /\ driver' = [driver EXCEPT !.at = "idle", !.until = 0]
    /\ UNCHANGED <<now, cs, metrics, mutex, cpu, used, pc, worker, history>>

Tick ==
    /\ now < MaxNow
    /\ now'    = now + 1
    /\ inside' = IF mutex # <<>> /\ pc[Head(mutex)].at = "inside" THEN inside + 1 ELSE inside
    /\ UNCHANGED <<cs, metrics, mutex, cpu, used, pc, worker, driver, due, strays>>

BenchNext ==
    \/ \E p \in Worker \cup {Remover} : LfEnter(p) \/ LfSignal(p)
    \/ \E w \in Worker :
          \/ LfExit(w)
          \/ WorkerOpen(w) \/ WorkerRecordOpen(w)
          \/ WorkerBefore(w) \/ WorkerCalls(w) \/ WorkerWaits(w) \/ WorkerReturns(w)
          \/ WorkerAfter(w) \/ WorkerRecord(w)
          \/ WorkerClose(w) \/ WorkerRecordClose(w)
          \/ DriverLaunches(w)
    \/ \E op \in {"remove", "size"} : RemoverCalls(op)
    \/ RemoveReadsTime \/ RemoveExit
    \/ \E n \in 1 .. Cardinality(Worker) : DriverResets(n)
    \/ DriverSleeps \/ DriverReturns \/ Tick

-----------------------------------------------------------------------------
\* The clock of critical sections counts the ticks in which a process that holds
\* lf_mutex is inside (fscs.c:3-12), whoever it is and whatever runs; not those in
\* which the holder has not yet entered, has left, or never enters.  While a
\* preempted exit is in the middle (fscs.c:38) the clock shows its ticks too, and
\* goes back by them when that exit is over.
Pending == IF pc[Remover].at = "exit" THEN now - pc[Remover].t ELSE 0

ClockIsSections == Snapshot = Mod(inside + Pending)

\* What a sample says of critical sections is at least the worker's own sections
\* and at most the time between its two snapshots (fsworker.c:115-121), but for
\* what exits of others left out in between: with those it may be negative, and
\* then it wraps.
SampleBounds ==
    \A w \in Worker : worker[w].at = "record" =>
        \E x \in worker[w].own - worker[w].lost .. worker[w].span :
            worker[w].ticks = Mod(x)

\* The aggregate statistics are those of the samples as long as these fit
\* (fsmetrics.c:37-68).
SamplesAddUp ==
    /\ Len(metrics.samples) = Min({metrics.ops, FSMAX_SAMPLES})
    /\ metrics.ops <= FSMAX_SAMPLES =>
          metrics.ticks = Mod(FoldSeq(LAMBDA s, x : s.ticks + x, 0, metrics.samples))

\* What the metrics lack of an experiment is exactly what its workers have not
\* done yet, also when its driver is back (fsworker.c:202); what they have of
\* others is at most what was left to do when they were reset (fsworker.c:187).
ExperimentsApart ==
    /\ metrics.ops + Outstanding = due
    /\ Cardinality({j \in DOMAIN metrics.samples : metrics.samples[j].run # driver.runs})
          <= strays

\* The numbers of the study: the clock, each sample, their sums, and to which
\* experiment they belong, while workers, a remover and a second experiment are
\* preempted by one another and hand lf_mutex on.
MeasurementsSound == ClockIsSections /\ SampleBounds /\ SamplesAddUp /\ ExperimentsApart
=============================================================================
