# Verification of the NVDLA software stack

This directory holds TLA+ specifications of the programs in this repository that
run concurrently, handle signals, wait for other processes or recover from
failures; the TLC configurations that check them on small instances; and proofs,
checked by TLAPS, that the most important results hold for every instance.

The repository brings the NVIDIA Deep Learning Accelerator up on modern Linux: a
queue of patches for the vendor's kernel driver and user-mode runtime, tools that
run on a ZCU102 board and measure it, a host side that collects and analyses what
the board produced, a virtual platform to compare with, and the scripts that
build all this.

    README.md         this text
    PROJECT.json      components, runs, hazards, findings, theorems, and for each
                      definition the source lines it stands for
    *.tla, *.cfg      modules and TLC configurations

To repeat a check, `tlc -config Stream.cfg StreamPipeline` (the table of runs names
module and configuration of each); to repeat a proof, `tlapm StreamProofs.tla`.
Line numbers in this text are those of the file at the commit the project was made
for; the path is left out where only one file has the name.

Contents: 1 The system. 2 What is hard about it. 3 Modules and code. 4 What the
runs check. 5 What is proved. 6 What disagrees. 7 What is not modelled. 8 Plan.


## 1. The system

### Runtime (patches/nvdla-sw)

The vendor's runtime is not in the repository, the patches to it are. Three of them
add behaviour of their own.

*Frame stream* (0019). `nvdla_runtime` executes raw frames that it reads from a
file or a FIFO. A producer thread (`produceStreamFrames`) opens the input, reads
a frame (`readFrame`), converts it (`prepareRawFrame`) and pushes it to a
`StreamQueue` of at most two; the main thread (`runStreamIterations`) pops a
frame, submits it to the accelerator, extracts the output and compares it with
the first output of the same input.
State: the queue with its flags `stopped`, `finished` and `status`, one mutex, two
condition variables, the reference outputs, and the window from which the
throughput is computed. Correct means: every frame is executed once, whole and in
order; the look-ahead is bounded; no thread sleeps for ever; the function never
returns while the producer still uses its stack; the reported consistency and
window are what they claim.

*Emulator worker* (0017). `Emulator::submit` queues a task and may block until the
queue is drained; `Emulator::run` is the worker; `start`, `stop` and `ping` control
it. State: the queue, three flags, one mutex and one condition variable for
everybody. Correct means: tasks are performed once and in order, whoever is
notified; `stop` and blocking submits return; `ping` tells the truth.

*Profiling and repeated inputs* (0013, 0014, 0016, 0018). `run`, `runTest` and the
profile around them: setup, warm-ups, measured iterations, reference outputs and
cleanup, sequential, with an early return at every step.

The other runtime patches change headers, flags, a device path or trace output.

### Kernel driver (patches/nvdla-sw, patches/debug)

Patches adapt GEM, DMA-BUF, IRQ and reserved-memory calls to Linux 6; 0012 adds
optional interface clocks to probe and remove, with the order of enabling and
disabling and its error paths. The driver they patch is not in the repository.

### Tools that run beside a measurement

*Power sampler* (`tools/power/nvdla-power-sampler.c`). Samples all rails at an
interval until a stop file appears, a duration is over, a rail cannot be read or a
signal arrives; announces itself with a ready file after its first sample.

*Launcher* (`tools/runtime/nvdla-benchmark-launch.c`). Forks a command, arms an
alarm whose handler kills it, reaps it, writes its interval and its resource use,
and exits with its status or 124.

*Flatbuffer client* (`tools/runtime/nvdla-flatbuf-client.c`, and the same protocol in
Python). Connects to a runtime server with retries, uploads a loadable, binds
tensors, asks for a run and fetches the output.

### Scripts on the board (tools/board)

*Benchmark* (`nvdla-board-benchmark`). Checks its prerequisites, quiets the
console, sets the governors, verifies the clock, performs the planned runs through
the launcher, brackets the steady one with the sampler, restores the environment,
judges the kernel log and archives one verdict. HUP, INT and TERM restore the
environment, and so does the exit.

*CPU benchmark* (`nvdla-board-cpu-benchmark`). The same for ONNX Runtime on the
cores; it verifies the governors before and after instead of setting them, and
checks outputs in two correctness runs around the measured ones.

*Workload runner* (`nvdla-board-workload`). Repeats a LeNet or ResNet-50 run until
one fails, or drives a runtime server with a client. `run_with_watchdog` starts a
second shell that kills a command after its time; `stop_server_bounded` ends the
server in steps. Each repeat is classified from its evidence.

*Board check* inspects a booted board once; the other files are configuration.

### Host side

*Collection* (`scripts/run_board_benchmark.sh`, `run_benchmark_campaign.py`). Waits
for ssh, refuses a boot from which an archive has already been saved, runs a
benchmark session remotely, copies the archive behind the link to the latest one,
remembers the boot, and returns the status of the session. The campaign runs
several sessions with an operator who power-cycles the board in between, and stops
at the first failure.

*Reclassification* (`board_artifact.py`). Imports the artifact of a workload run and
classifies every repeat anew, by rules of its own over the same evidence.
State: the manifest of the import. Correct means that it agrees with the board's
script about the pass, and about the first failure.

*Analysis* (`performance.py`, `cpu_performance.py`, `input_variation.py`,
`campaign.py`). Each takes a list of archives, refuses it for one of some forty
reasons, or summarises it and writes a report file by file: statistics of the
samples, bootstrap intervals, the clipping and integration of power traces, the
weights of the inputs, the cohorts of a campaign. State: the archives read so far,
and the files in the output directory. Correct means: the sessions of a report are
comparable and of different boots; no sample is lost or counted twice; energies add
up; a report is there as a whole or the import has failed.

*Input sets* (`input_sets.py`). Fetches and verifies the sources, selects a balanced
set of images into a staging directory and replaces the old set by it. Correct
means that a set is there whole, balanced, or not at all.

*Trace comparison* (`trace.py`). Parses the register traces of two runs on the
virtual platform, removes what may differ (polls, buffer addresses), and compares
programming and interrupt service. Correct means that runs of one program match
whatever the interrupts did, and runs of different programs do not.

*Virtual platform* (`vp.py`, `stock.py`, `diagnostics.py`, the guest's script from
`vp_build.sh`). Runs a simulated machine, reads its serial line from a thread,
drives a dialogue under a timeout, collects what the guest left in the shared
directory, and judges. State: the console, the queue between the reader thread and
the host, the process, the files of guest and host. Correct means: every wait
ends; the console that is judged is the whole console, unless the reader thread did
not keep up and was given up; a pass is earned by every repeat of the mode that counts
them. A background job keeps a pointer to the current run.

*Build* (the other scripts, recipes, containers, configs). Calls external build
systems; `nvdla_patch_queue.sh` rebuilds a work tree under a directory lock.

### How the parts interact

    run_benchmark_campaign -> run_board_benchmark.sh -(ssh, scp, LATEST link)-> board scripts
    board benchmark, CPU benchmark -> power sampler   stop file, ready file, signals, exit status
    board benchmark, CPU benchmark -> launcher -> nvdla_runtime | ONNX Runtime   exit status, files
    board workload -> runtime client <-> runtime server      run_with_watchdog: kill, marker file
    nvdla_runtime: main thread <-> producer thread <- FIFO   StreamQueue
    nvdla_runtime: submitters <-> emulator worker            task queue
    board workload -(artifact)-> board_artifact.py
    archives -> performance.py, cpu_performance.py, input_variation.py -(summaries)-> campaign.py
    vp.py, stock.py: host <-(queue)- reader thread <-(console)- platform; guest -> shared directory
    traces of two platform runs -> trace.py


## 2. What is hard about it

PROJECT.json lists the hazards, each with its line. They are of these kinds.

- **Wakeups.** 0019 notifies after it has released the mutex. 0017 shares one
  condition variable between both sides and wakes only one of its waiters.
- **Late actors.** The launcher's alarm between `wait4` and `alarm(0)`; the
  watchdog that marks or kills a command that has just ended; the sampler that
  ends just when it is asked to.
- **Signals in shell scripts.** A trap handler runs between two commands, restores
  the environment, and the script goes on where it was.
- **`set -e`.** It ends a script anywhere, and does nothing inside a condition.
- **Cut input.** A FIFO delivers a frame in pieces and may end inside one.
- **Late verdicts.** The kernel log overrides a verdict; the power trace and the
  interrupt count have to be those of the run they are filed with.
- **Lost connections and boots.** The host loses ssh while the session goes on; the
  board boots while the host still acts on the boot it identified.
- **Two views of one run.** Guest and host, board and importer, sampler and launcher
  each see a part of what happened, at different times; the verdict needs both.
- **Half-made files.** A status file that exists and is empty, a report directory
  with the files of two imports, a set that was removed and not yet replaced.
- **Files read later.** Summaries, archives and hashes are combined long after they
  were written; what says that they belong together is a boot id, a name, a count.
- **Bounds.** Two frames of look-ahead, 200 polls, a number of repeats, an alarm of
  32 bits.


## 3. Modules and code

| Module | Stands for |
|---|---|
| `FrameStream` | the promise of a streamed run, without threads |
| `StreamPipeline` | patch 0019: producer, consumer, queue, source |
| `TaskService` | the promise of the emulator, without threads |
| `Emulator` | patch 0017: worker, submitters, start, stop, ping |
| `PowerSampler` | the sampler's loop, files and signals |
| `SamplerUse` | the sampler with any user of it |
| `BoundedCommand` | the promise of both ways to run a command with a timeout |
| `BenchmarkLaunch` | the launcher, its alarm and its command |
| `BoardWorkload` | the workload runner with its watchdog and server |
| `BoardArtifact` | `board_artifact.py`, composed with `BoardWorkload`, whose artifact it imports |
| `BoardBenchmark` | the benchmark script beside an instance of `PowerSampler` |
| `CpuBenchmark` | the CPU benchmark beside an instance of `PowerSampler` |
| `HostCollector` | host script, campaign, board sessions, link and archives |
| `Statistics` | quantiles, means, bootstrap intervals of `performance.py` |
| `PowerTrace` | clipping, interpolation, integration and grouping of power samples |
| `PerformanceImport` | `import_performance_archives`: checks, summaries, files in their order |
| `CpuImport` | `import_cpu_performance_archives` |
| `InputVariation` | `import_input_variation_archives` |
| `CampaignReport` | `build_campaign_report`: cohorts, balance, ratios |
| `HostReports` | those three as programs that read, refuse or write; what a written report must be |
| `InputSets` | `input_sets.py`: download, selection, staging, replacement |
| `TraceCompare` | `trace.py`: parsing, normalisation, comparison |
| `TraceRun` | the driver and the accelerator that write a trace; outside the repository |
| `VpConsole` | console, reader thread, queue, waits and termination, shared by the next three |
| `VpSession` | the guest's side of a session: its script in both modes, the shell, the files |
| `VpHost` | the host's side: preparation, dialogue, timeouts, judgement, known failures |
| `StockControl` | `stock.py`: the dialogue with the stock image and its judgement |
| `StreamProofs`, `EmulatorProofs`, `BoardToolsProofs`, `BoardBenchmarkProofs`, `CpuBenchmarkProofs`, `HostCollectorProofs`, `VpProofs`, `HostAnalysisProofs` | proofs, see 5 |
| `MCBoardTools` | workload runner with its import, launcher and sampler side by side, for one run |
| `MCBoardBenchmark`, `MCCpuBenchmark` | a plan of runs for TLC |
| `MCHostImport`, `MCHostAnalysis` | the evidence for the importers; all programs of the host side by side |
| `MCVpSession` | `VpHost` and `StockControl` side by side |

Names are those of the source wherever TLA+ allows. Where a program has no name for
its position, `pc`, `prodPc`, `hostPc` and the like stand for it.

**Grain.** In the runtime a critical section of a mutex is one action and a
notification outside of it another; the sleeping threads are the set `waiting`, and
`SpuriousWakeup` may remove any of them. In C programs and scripts a system call or
a command that others can observe is an action; statements between two of them that
touch nothing shared are joined to one of the two. Every failing call is a disjunct.
In the Python programs of the host nothing else runs while archives In the Python programs of the host nothing else runs while archives are read: a
session is one action, a file that is written is one, and a kill or an error may come
before it.

**StreamPipeline.** `frames`, `stopped`, `finished` and `status` are the queue.
A frame is known by the offset of its first byte, which is what a torn, lost or
doubled frame would show. `ReadSome` returns any part of what is missing, as
`fread` on a FIFO may. An instant is the pair of bytes read and outputs extracted,
because that is what the measured window must be compared with. `ConsumerFails`
and `ProducerFails` are the `ORIGINATE_ERROR_FAIL` and `PROPAGATE_ERROR_FAIL` sites.

**Emulator.** `quiescent` never changes; it distinguishes callers that stop only
between their submits, as `RuntimeTest` does, from callers that do not synchronise.
`LeaveLoop` and `Cleanup` are two actions because the code releases the lock in
between: a submit may come there.

**PowerSampler** is used three times: with an arbitrary user (`SamplerUse`), and as
an instance inside both board scripts, which then are that user. `epoch` is a
logical clock, advanced by what a sample may have to be before or after. `readings`
are what the sampler has handed to its output. It never looks at what becomes of that:
a full disk (the `fprintf` of a row, the `fclose` at the end) changes neither its
loop nor its status, and is not modelled.

**BoardBenchmark, CpuBenchmark.** `restoring` is the part of `restore_environment`
that runs now, on behalf of `finish`, of the exit or of a signal. `Trap` may
happen between any two commands (while a foreground command runs the shell defers
it). `Abort` is `set -e`. `SAMPLER_PID` is whether the script knows a sampler.
Verification of outputs is one nondeterministic verdict. `kernelBad` is whether the
kernel log since the noted line has a bad pattern. The settings of the console and
of the governors are each "original" or what the script wants. Reading or writing them
back is tolerated to fail (`|| true`, `|| :`): any setting may be "refused", that is
saved without being restorable, and then stays as the script left it. A core that does not offer the governor
`performance` keeps its own, is not saved and not restored; the model has the state of
the cores that are changed.

**BoardWorkload, BoardArtifact.** Script, watchdog and command are three processes;
`marker` is the watchdog's file. The evidence of a repeat is a record of what its
log and its outputs show. Both modules have the verdicts as ordered lists of
conditions, each translated from its own source, so that their agreement is a
question and not a definition.

**BenchmarkLaunch.** `HandleTimeout` is the signal handler, enabled wherever an
alarm is set. `Wrap` stands for 2^32, the width of the argument of `alarm`. `Reap` is
a `wait4` that returns the command, after any number of interruptions; `WaitFails`, of
which no fairness is assumed, is one that fails otherwise and ends the launcher with 2.

**HostCollector.** `remote` holds the sessions that run on the board, `archives`
what they left in its memory file system, `latest` the session behind the link; a
boot empties all three. Each ssh or scp is an action that may fail. A session goes
on when its connection is lost. A campaign only prompts for a boot, so that it may
begin on one that has seen sessions already.

**PerformanceImport, CpuImport, InputVariation, CampaignReport.** An archive is a
record with a field for each piece of evidence that a check looks at. The checks
keep the order of the code only where it matters, that is, where a later check
relies on an earlier one. `PowerTrace` computes exactly, on a grid of which the gaps
between samples divide, where the code has floating point; `Statistics` has
quantiles in thousandths. `files` is the output directory with, for each file, the
import that wrote it; `Abort` is a kill, or an error, between two of them. In
`CpuImport` the four averaged figures of a power domain (idle, active and incremental
power, incremental energy of an inference) are fractions per session, as the code
averages them.

**InputSets.** A directory maps its parts to what they hold, so that a removal that is
cut short leaves any of its subsets (`Leaves`). The lock file may pin the sources of
LeNet and the places among the candidates of ResNet-50, right or wrong. What fails
before the selection is not cleaned up after, in the code and in the model: a staging
directory of an earlier call may be left over.

**TraceRun, TraceCompare.** A transaction is interface, operation, register, data,
response. `TraceRun` lets operations end and interrupts arrive in any order that the
dependencies of a program allow, and writes the trace; `TraceCompare` is the code
and sees only the trace.

**VpConsole, VpSession, VpHost, StockControl.** A token of the console stands for
the bytes that a predicate of the host tells apart. `Deliver` is the reader thread,
`taken` what the host has got from the queue, so that what is in the pipe, in the
queue and in the log are three things. A wait of the host ends with what it waits
for, with the end of the process or with its timeout, at any moment. The wait for
the reader thread is one of these: a reader that has not ended in its five seconds
is "late", goes on delivering, and the host judges what it has got. The guest may
stop or fail between any two of its commands. Wherever `TroubleAt` lists its position,
kernel or platform may print one of `KERNEL_BAD_PATTERNS` (a crash is one of them), in
the boot, in the midst of a run or after the last status; whether the guest goes on
after that is open, and of several such lines the first one counts.


## 4. What the runs check

| Run | Module, configuration | Properties | Distinct states |
|---|---|---|---|
| `stream` | StreamPipeline, Stream | NoLostWakeup, BoundedLookahead, MeasuredWindow, ReturnIsSound, PipelineIsSequential, AlwaysReturns | 359,916 |
| `emulator` | Emulator, Emulator | WorkerNotStranded, SubmitterNotForgotten, ServesTasks, BlockingSubmitReturns, StopReturns | 19,278 |
| `board_tools` | MCBoardTools, BoardTools | ReadingsAreWhole, TraceEndsAfterStop, StopsAtFirstFailure, TimeoutIsNamed, HostAgreesWithBoard, BoundsItsCommand, EveryToolEnds | 71,116 |
| `board_benchmark` | MCBoardBenchmark, BoardBenchmark | RestoredAtExit, PowerBracketsLaunch, VerdictIsEarned, AlwaysEnds | 185,797 |
| `cpu_benchmark` | MCCpuBenchmark, CpuBenchmark | RestoredAtExit, VerdictIsEarned, FrequencyWasHeld | 379,981 |
| `host_collector` | HostCollector, HostCollector | FreshBoots, SuccessIsOwn, CampaignIsWhole | 3,097,321 |
| `vp_session` | MCVpSession, VpSession | PassIsEarned, LogIsWhole, HostReturns | 2,336,847 |
| `host_analysis` | MCHostAnalysis, HostAnalysis | SessionsAreComparable, NoSampleLost, SummaryIsConsistent, ReportIsWhole, CpuReportIsSound, InputsWeighTheSame, CampaignIsBalanced, InputSetIsWhole, TracesMatchIfEquivalent | 66,303 |
| `board_control` | MCBoardBenchmark, BoardControl | PassedUnderControl, violated | |
| `cpu_power` | MCCpuBenchmark, CpuPower | PowerBracketsLaunch, violated | |
| `host_stale` | HostCollector, HostStale | SavedIsOwn, violated | |
| `vp_smoke` | MCVpSession, VpSmoke | SmokeRunsPass, violated | |

What they show, and which mistake each property would catch:

- `stream`. No interleaving of producer, consumer and source loses a wakeup, reads
  further ahead than three frames, or lets the call return before its producer has
  ended; an ended stream is reported only after the frames that were queued. The
  whole implements `FrameStream`: no frame is torn, dropped or doubled. Every call
  returns, whichever side fails. A notification sent only when the queue becomes
  non-empty, or a join replaced by a look at `finished`, is found.
- `emulator`. `notify_one` on the shared condition variable is sound only because
  the worker falls asleep with an empty queue, and then no submitter may still
  sleep; with `notify_one` in the worker as well it would not be. A stop that races
  with submits may drop tasks and leave a blocked caller behind; with quiescent
  callers it does neither. In every case the emulator implements `TaskService`.
- `board_tools`. A trace that the stop file ended has a last sample stamped after
  the request; an incomplete sample is the last one and the status says so. Launcher
  and `run_with_watchdog` both implement `BoundedCommand` although the alarm and the
  watchdog may be late: a status other than 124 is the command's own. A killed
  command is never classified as anything else than a timeout, the first failing
  repeat is the last one, and every tool comes to its end. Over every evidence the
  host's importer passes exactly what the board's script has passed, with the same
  number of passes and the same first failure.
- `board_benchmark`, `cpu_benchmark`. However signals, `set -e` and failures
  interleave, the environment is restored, but for a setting whose restoration the
  kernel refuses, and no sampler is left; the archive says
  0 exactly for an earned pass; the power trace of a passing NVDLA benchmark
  encloses the launch; two looks at the cores suffice for one change of their state.
- `host_collector`. No boot is counted twice without the name of an archive showing
  it; a return of 0 is the script's own session unless a connection was lost on that
  boot; a complete campaign has for each of its sessions an archive of its own, which
  passes unless a connection was lost on that boot before.
- `vp_session`. A log that has been judged is all that the platform has written, unless
  the reader thread was given up after its five seconds; a pass of the runtime mode, of
  the reference lane or of the stock control was earned by the guest, and nothing in
  what the host had got spoke of a crash or a complaint, not even after the last
  status. A host that judges without having waited for the reader is found. Whatever
  the guest, the platform and the reader do, also when all of them fall silent for
  good, the host returns.
- `host_analysis`. For each condition of each importer there is an archive that only
  this condition refuses. The sessions of a report have one provenance and different
  boots, all their measured samples are in it, the phases and energies add up, a
  report is complete when its import has returned (also over the leftovers of an
  earlier import, or of one that was ended by a kill or an error), inputs weigh the
  same, cohorts are disjoint and whole, the sessions behind an energy weigh the same. A
  set of inputs is whole or gone after any failure of its replacement but one inside
  `rmtree`, and a call that has ended well has replaced it by the images that its own
  lock file chooses. Two traces match exactly if they are of one program.

### Bounds and why they are enough

- `stream`: five frames of two bytes, a period of two, one warm-up, one byte more
  than the frames need. The queue fills, the producer waits, a frame is cut, an
  input is repeated twice and thus compared with a reference that is not its
  neighbour, and the source may end inside a frame. The proofs remove the bounds.
- `emulator`: two submitters, three tasks, two starts: a submitter asleep while
  another submits and the worker takes; a second worker after a stop. Removed by
  the proofs.
- `board_tools`: two rails, so that a sample can be partial; four samples before
  somebody asks for the end (`MaxSamples`); timeouts 0, 1, `Wrap` and `Wrap + 1`;
  two repeats, two looks within the grace of the server, all three modes. Removed by
  the proofs, but for `EveryToolEnds`.
- board scripts: a cold and a sampled steady run, two polls of the ready file
  instead of 200 (the first, and the last), two signals (one that restores and
  forgets the sampler, one that finds this already done; a third finds the same) or
  one for the CPU benchmark, which has another source of interference (`MaxChanges`);
  each saved setting may be refused.
  `RestoredAtExit`, `VerdictIsEarned`, `PowerBracketsLaunch` and `FrequencyWasHeld`
  are proved without them.
- `host_collector`: three boots, three sessions, two campaigns (`MaxCampaigns`) of two
  sessions. Removed by the proofs.
- `vp_session`: two repeats, so that a run can fail and a later one pass; both root
  file systems, both modes, both lanes and the stock control. The length of a console
  is bounded by the guest's script. `TroubleAt` has three positions of the guest: in the
  boot, in the midst of a run and after the last status, that is, before, during and
  after what the host waits for. Removed by the proofs, which hold for any set of positions, but for `HostReturns`.
- `host_analysis`: collections of one or two archives (every check compares a session
  with itself or with the first one), imports into a directory twice, two inputs,
  cohorts of two of three candidates, two classes of images and two calls, three
  operations with two interrupts, one of them dependent on another. The proofs remove
  the bounds of all its invariants but `TracesMatchIfEquivalent`.

### Fairness

Weak fairness of a thread, a process or a script as a whole: the operating system
schedules each of them. Nothing else is fair. Nobody has to submit, stop, signal,
ask a sampler to end, or wake up spuriously; a guest may fall silent. Commands and
servers may hang; that `EveryToolEnds` holds rests on the watchdog and on the alarm
(and on `Killable`: SIGKILL ends the command). In the board scripts `FinishRun` is
part of the fair script because the launcher bounds the run. `AlwaysReturns` also
assumes a source that opens, delivers everything and closes (`LiveSource`): a
consumer that fails joins a producer that may be inside `fopen` or `fread` of a FIFO,
and nothing in the code would interrupt it. In `Emulator` a stop that has begun goes
on. In `MCVpSession` only the steps of the host are fair, its timeouts included, for
which time has to pass. Nothing is assumed of the guest, the platform and the reader.

`CHECK_DEADLOCK FALSE` is set where the system really may stop: `emulator` and
`host_collector`, `host_stale` (all callers, boots and sessions within the bounds may
be done for good), `vp_session`, `vp_smoke` and `host_analysis` (the programs return
and nothing calls them again). The other modules have an explicit step for a program
that has ended.


## 5. What is proved

Eight modules hold proofs, listed under "theorems" in PROJECT.json; they quantify over
all values of the constants that satisfy the named assumptions. TLC evaluates these
on every run of the module that states them. Two more are hypotheses of theorems in
`BoardToolsProofs`: `EndingsAreDistinct` and `StatusesAreDistinct`, which say that the
values standing for "still running", "killed" and "no status" are not exit codes. Every
safety property of a passing run is proved, except the one about traces that the end
of this section names.

| Proof module | Theorem | Property | Checked by |
|---|---|---|---|
| `StreamProofs` | `TypesAreKept` | TypeOK | |
| | `NoThreadOversleeps` | NoLostWakeup | `stream` |
| | `FramesArriveWhole` | FramesInOrder | |
| | `LookaheadIsBounded` | BoundedLookahead | `stream` |
| | `ConsistencyIsReported` | ConsistencyIsExact | |
| | `WindowCoversMeasured` | MeasuredWindow | `stream` |
| | `ReturnIsAccounted` | ReturnIsSound | `stream` |
| | `PipelineImplementsFrameStream` | PipelineIsSequential | `stream` |
| `EmulatorProofs` | `WorkerIsNotStranded` | WorkerNotStranded | `emulator` |
| | `SubmitterIsNotForgotten` | SubmitterNotForgotten | `emulator` |
| | `TypesAreKept` | TypeOK | |
| | `PingAnswersTruthfully` | PingIsTruthful | |
| | `EmulatorImplementsTaskService` | ServesTasks | `emulator` |
| | `QuiescentStopLosesNothing` | NothingDiscarded | |
| `BoardToolsProofs` | `SamplerTypesAreKept` | TypeOK of `PowerSampler` | |
| | `OnlyTheLastIsPartial` | ReadingsAreWhole | `board_tools` |
| | `TraceCoversRequest` | TraceEndsAfterStop | `board_tools` |
| | `LauncherBoundsItsCommand` | BoundsItsCommand of `BenchmarkLaunch` | |
| | `WatchdogBoundsItsCommands` | BoundsItsCommands of `BoardWorkload` | |
| | `ToolsBoundTheirCommands` | BoundsItsCommand | `board_tools` |
| | `RunnerTypesAreKept` | TypeOK of `BoardWorkload` | |
| | `FirstFailureEnds` | StopsAtFirstFailure | `board_tools` |
| | `TimeoutsAreNamed` | TimeoutIsNamed | `board_tools` |
| | `HostAgreesWithScript` | HostAgreesWithBoard | `board_tools` |
| `BoardBenchmarkProofs` | `EnvironmentIsRestored` | RestoredAtExit | `board_benchmark` |
| | `PassIsEarned` | VerdictIsEarned | `board_benchmark` |
| | `PowerTraceBracketsLaunch` | PowerBracketsLaunch | `board_benchmark` |
| `CpuBenchmarkProofs` | `EnvironmentIsRestored` | RestoredAtExit | `cpu_benchmark` |
| | `PassIsEarned` | VerdictIsEarned | `cpu_benchmark` |
| | `OneChangeIsSeen` | FrequencyWasHeld | `cpu_benchmark` |
| `HostCollectorProofs` | `BootsAreFresh` | FreshBoots | `host_collector` |
| | `SuccessIsTheSessions` | SuccessIsOwn | `host_collector` |
| | `CompleteCampaignIsWhole` | CampaignIsWhole | `host_collector` |
| `VpProofs` | `VpInvariant` | its invariant | |
| | `JudgedLogIsWhole` | LogIsWhole | `vp_session` |
| | `EveryPassIsEarned` | PassIsEarned | `vp_session` |
| `HostAnalysisProofs` | `ImportInvariant` | its invariant | |
| | `OneBuildOneBootEach` | SessionsAreComparable | `host_analysis` |
| | `ReportsAreWhole` | ReportIsWhole | `host_analysis` |
| | `SetsAreWhole` | InputSetIsWhole | `host_analysis` |
| | `CampaignsAreBalanced` | CampaignIsBalanced | `host_analysis` |
| | `SamplesAreKept` | NoSampleLost | `host_analysis` |
| | `SummariesAreConsistent` | SummaryIsConsistent | `host_analysis` |
| | `InputsHaveEqualWeight` | InputsWeighTheSame | `host_analysis` |
| | `CpuReportsAreSound` | CpuReportIsSound | `host_analysis` |

A property without a run was model-checked while the proof was made and is left to the
proof. Invariants were first checked by TLC on the instance of their run.

None of the properties is inductive by itself. What each invariant adds:

**StreamProofs**, from `StreamAssumption` (a frame has a byte or more, the other
parameters are natural numbers, an empty reference is not an output).

- `Control`: what the position of each thread says of flags and counters. Without
  it, `finished` could be set by nobody and `ReturnIsSound` would not follow.
- `Sleepers`: a thread sleeps only in the wait of its own critical section, so that a
  notification cannot be consumed by a later wait.
- `Counts`: what was pushed is what was executed, what is in hand and what is queued.
  It carries the order of the frames and the bound of the look-ahead.
- `Places`: where each of these frames begins in the source, and how far the
  producer has read; multiplication by the frame size is isolated in two lemmas.
- `References`: a reference output is the output of some sample of its input and every
  sample has one. It turns "equal to the first" into "all equal".
- `Window` and `Verdict`: what has been decided when the loop is left.

The refinement needs one more fact, that an executed frame has been delivered whole
(`ExecutedWasDelivered`), and maps `Execute` to `ExecuteNext`, `Join` to `Succeed` or
`GiveUp`, a byte of the source to `Deliver` and every other step to a stutter.

**EmulatorProofs**, from `EmulatorAssumption` (the worker is not a submitter, the bounds
are natural). `WakeupInv` is the argument for the shared condition variable: a
sleeping worker sleeps alone, with an empty queue, so a single notification can only
be for it; and a sleeping submitter is owed a notification by a worker that is past its
wait, or there is a task to take. `StateInv` ties flags to the position of the worker,
over any number of starts. `Tickets`, that blocked callers wait for different tasks,
lets the release of one caller be the removal of one ticket. `ShutdownInv` says that a
request to stop belongs to a stop in progress, so that with quiescent callers no submit
can fall between the worker's decision to leave and its cleanup.

**BoardToolsProofs** (`WorkloadAssumption`, and the two hypotheses above).

- The sampler. `Failures`: a failed rail has asked for the end, and the loop looks at
  that request before another sample is stamped, so that the status is still 0
  whenever a sample begins. `Endings`: the loop sees the stop file before it stamps the
  last sample, so that this stamp is the time of the file or later.
- Launcher and watchdog. `LaunchInv` and `Watched` say what each knows of its command:
  who has reaped it sees how it ended, the marker is there before a signal, and a
  command that was killed has a marker. `ToolsRunEach` takes a behaviour of the three
  tools side by side to one of each, so that what is proved of a tool holds there.
- The verdicts are lists of conditions of which the first that holds names the outcome
  (`FirstIs`); for each mode a lemma says what the list can yield, and that a timeout has
  its own name. `Judging` and `Verdict` carry them through the repeats.
- The import. The lists of the host are others than the script's, with fewer or
  stricter rows. For each mode one lemma says what a passing verdict of the script has
  behind it and another that the host's list passes then and not otherwise
  (`HostAgrees`). `Filed` is the strengthening: every repeat of an artifact is filed under
  the verdict that its evidence earned, a failing one is the last and was named as the
  first failure. The host then counts the same passes and finds the same failure.

**BoardBenchmarkProofs** (`BenchmarkAssumption`: the steady run is the last of the plan).
`Restorable`: what was changed was saved before, a sampler that runs is known, and the
settings are restored only when it is not; what is not restored was refused. `Judged`: a run that was not good is the
last one, and what the script holds as its verdict says so until the kernel log has the
last word. `PowerInv` adds the sampler: `Untouched` (nothing of it exists before the run
that starts it), `Sampling` (what its loop keeps, in the script's time), `Bracketing`
(as long as no handler has told it to end, the stop file is there exactly while the
script waits for it, and its good exit is one whose last sample was stamped then) and
`Placed` (where the script is says how far the trace has got: a first sample before the
launch, for it waits for the ready file; a last one after it, for it waits for a zero
status). A signal leaves `Bracketing` without its premise, and the pass out of reach.

**CpuBenchmarkProofs** (`CpuAssumption`). `Restorable` and `Judged` as before, with the two
correctness runs. `Held` is the argument for the two looks: while the cores are in the
state that was verified, a single change cannot have been before a run, as it would
have to be undone; after the second look no run can follow.

**HostCollectorProofs** (`CollectorAssumption`). `Named`: saved names, state file and the
accepted boot are in the order of the boots. `Unsevered`: on a boot without a lost
connection only the script's own session can be running, so that what the link shows
after a status of 0 is its own archive. `Campaigning`: a campaign that is still going to
run a session has lost no connection on this boot, and the last archives saved are its
own and passed.

**VpProofs** (`NoStatusAssumption`: an absent status is not an integer;
`RepeatAssumption`: the guest makes at least one run). `Reading` is the argument for
the log: what the host has taken is a part of what the reader thread delivered, which is
a part of the console; the reader is done only at the end of a file that nobody writes
any more, and the host judges only after it has waited for the reader, which is then
done or late, and emptied the queue. Behind a reader that is done nothing is left to
take; behind a late one the log is a beginning of the console, and `PassIsEarned`
holds of it all the same, because a status that is read was written.
`Session` carries what the guest has done to what the console says of it. `Progress`: a
script that prints the exit status 0 has made all its runs (`AllRunsMade`), and in the
runtime mode none of them failed. `PollsLastRun`: the file with the status of the smoke
utility is absent, empty or the last run's; this is why only the last run of that mode
is vouched for, see 6. `Traces`: what a failure is diagnosed from was written by a run.
`Control` is the part of the stock image, where a status 0 of the client needs a shell
and a server. `JudgementIsEarned` puts them together with the log.

**HostAnalysisProofs** (`CollectionsAssumption`, `SessionsAssumption`,
`VariationAssumption`, `CampaignAssumption`, `LabelsAssumption`, `PinnedAssumption`: what is
listed in the evidence is a sequence, what is read with `int()` is an integer, a campaign
has finitely many archives; `EstimatesAssumption`, `GridAssumption`: the bootstrap draws,
and the unit of energy divides).

- `ImportInv` of the import: of the files still to be written the report is the last, and
  the files that it refers to are written or come before it (`ReportIsLast`), so that
  a kill or an error leaves no new report beside files of an earlier import; and each session was
  compared with the first one and with the boots before it (`Comparable`).
- `SetsInv` of the sets: the staging directory has what the steps so far have put
  there, the images that the lock file or the order of the sources chooses, two of each
  class (`Staged`), and the result is touched only by the last two steps (`Replaced`);
  a removal that is cut short is remembered until the next whole replacement. Two of a class are found because their positions
  have a least member, and the rest another one (`LeastNatural`, `FirstTwoAreFound`).
- The campaign compares no archives with each other. It asks for as many different
  paths as there are places in its cohorts, and `ArchivesAreDistinct` shows that this is
  enough: a set that takes as many values as it has members takes none of them twice.
- Data of any length. The theorems about them rest on lemmas of this module, by
  induction over sets of indices (`IntervalInduction`): that totals, selections and
  concatenations exist (`SumsExist`, `SelectionExists`, `JoinsExist`), that a total is any
  function that adds up (`SumIs`), and that what is selected or joined weighs what its
  parts weigh (`SubsequenceWeighs`, `JoinWeighs`).
- `SamplesInv`: the rows are those of the sessions loaded so far, each once. When the
  import is done these are all archives; each sample is measured or not, and its regime
  is one of three, so that the counts of the regimes add up (`NothingIsLost`).
- `SummaryInv`: the summary is made of these rows, with some draw of the bootstrap.
  Order: the k-th value has fewer than k below it (`OrderedIs`), a quantile is a blend
  of two neighbours and grows with its place (`AtIsMonotone`), at most a quarter of the
  values lie beyond each fence (`OutliersAreFew`), and the median of any draw lies between
  the least and the greatest median (`IntervalIsWithin`). Parts: the phases of a row
  make up its latency, and a table has the same total by rows and by columns
  (`TotalOfTable`, `PartsAddUp`).
- Energy. A gap between two sweeps divides `Grid`, so that the slopes between them are
  whole numbers (`TraceIsSampling`); a clipped trace is a polygon on the same curve
  (`ClipIs`); a trapezoid is the sum of its units of time (`TrapezoidIs`,
  `PolygonIsUnits`) and lies between its corners (`PolygonIsBounded`); the powers of the
  two domains add up in every sweep, thus at every time, and so do their energies
  (`EnergiesAreExact`).
- `VariationInv`, `CpuInv`: a report is that of evidence that was accepted. Inputs: an
  accepted session has each input equally often, so that the sums over all rows are a
  multiple of those over the inputs (`WeightsAreEqual`). CPU: the samples of the
  sessions are joined whole, and a session is among those of its own name
  (`MediansOfSessions`); the traces need not be in order, hence the sums of the domains
  are followed through interpolation, selection and integration (`AreSums`), which
  read them at the same indices whatever the times are (`ClipsAreSums`), and from there
  into the four averaged figures (`DomainsMakeUpTotal`, `MeansMakeUpTotal`). This needs a rail
  of both domains in every sweep: TLC finds the report of a trace without (see 6).

### What is only model-checked

- Liveness (`AlwaysReturns`, `BlockingSubmitReturns`, `StopReturns`, `EveryToolEnds`,
  `AlwaysEnds`, `HostReturns`): the prover has no rules for ENABLED and fairness.
- `TracesMatchIfEquivalent`: it composes the two parsers, which carry their state from
  line to line, with programs and compilations that only the MC module builds.
- That the four documented sentences of the next section fail: TLC's counterexamples.


## 6. What disagrees

Four runs check a sentence of the repository that the code does not keep; TLC's
counterexample is the shortest history that shows it.

1. `board_control` (nvdla-board-benchmark:433). The handler of HUP, INT and TERM
   restores the environment and does not exit. After a signal between two runs the
   script measures on with the original governors and console level and can report
   a pass; docs/nvdla-performance-methodology.md:148-151 promises both settings.
2. `cpu_power` (nvdla-board-cpu-benchmark:448). `stop_power` runs under `!` and ends
   in an assignment, so it always succeeds: a sampler that failed is not noticed, the
   script's own classification for it cannot be reached, and a session with a
   truncated trace passes. cpu_performance.py:112 refuses it later on the host.
3. `host_stale` (run_board_benchmark.sh:112). The archive is found through the link to
   the latest one. If the session left none and an earlier session of the same boot
   left one that was not collected, that one is saved and announced as the session's.
4. `vp_smoke` (vp.py:637). The guest's script reads the status file of the smoke
   utility as soon as it exists. A shell creates a file before it writes to it; an
   empty status is an error to `[` and not a reason to leave the loop, so that a run
   that failed is forgotten when a later one passes.
   docs/driver-correctness-test-strategy.md:28 speaks of 100 identical runs.

Observations that did not become runs:

- nvdla-board-benchmark:757 records the interrupt delta and does not judge it;
  docs/nvdla-performance-methodology.md:155 says the benchmark requires a positive one.
  The importer on the host does.
- The sampler writes its ready file also after a first sample that failed to read a
  rail (nvdla-power-sampler.c:353), while docs/nvdla-performance-methodology.md:182
  speaks of "an initial reading"; the caller notices at its wait.
- `run_with_watchdog` waits without bound for a command that survives KILL
  (nvdla-board-workload:100); with `Killable = FALSE`, `EveryToolEnds` fails.
- performance.py:1511 takes the name of the archive's directory as the name of the
  session: two archives with the same one are merged in the medians per session,
  although they were told apart by their boot, which is what performance.py:1683
  calls the identity. No sample is lost (`NoSampleLost`).
- The sdp mode of the workload runner passes with an output file that is empty when
  there is no golden output: it only asks whether the file is there.
- The stock control takes its section from the first match of the marker in the
  console, which may be the command's echo; and a client that is killed at its timeout
  leaves the process in the container running.
- Waiting for a prompt, vp.py may see the one in the kernel's own banner ("#1 SMP"),
  and takes the echo of a command for its answer on the way to the login, which cuts
  such a run to 20 seconds, where docs/reproducible-runbook.md:601-605 says that
  VP_TIMEOUT governs it. A write to a platform that has ended raises and leaves no
  manifest.
- A replacement of an input set that fails or is killed inside `rmtree` leaves a part of
  the old set, which the next replacement removes. The handler that cleans up begins
  only at input_sets.py:267: a call that fails in `_verify`, `rmtree` or `mkdir` before
  leaves the staging directory of an earlier kill where it is. Nothing of either gets
  into a later set (`InputSetIsWhole`).
- vp.py:835 and stock.py:396 wait five seconds for the reader thread and do not look
  whether it has ended. If it has not, the log is cut short wherever the reader was and
  is judged like a whole one; a complaint in the rest of it goes unseen. A pass is
  still earned by what was printed (`PassIsEarned`).
- The importer of CPU sessions accepts a power trace with a rail twice in a sweep, or
  with times that go back, which the importer of NVDLA sessions refuses. A sweep without
  a rail of a domain is left out of the series of this domain and counted in the total
  (cpu_performance.py:96-100), so that its domains need not add up to the total.
- cpu_performance.py tells sessions apart by the names of their archives, too: two of
  one name are one sample of medians, counted twice.
- The comparison of traces takes two missing hashes for equal ones.


## 7. What is not modelled

Of the modelled components:

- Option parsing, file formats, logging, CSV and JSON, the text and graphics of reports.
- `stream20`, in which the benchmark script starts a producer of frames of its own.
- How outputs are compared line by line: the comparison is one verdict.
- A blocking submit can starve under endless submits of others: its predicate is an
  empty queue. `MaxTasks` excludes it; `nvdla_runtime` has one submitting thread.
- The launcher kills a number: if the process was reaped and the number used again
  before `alarm(0)`, another process is hit. Numbers are not reused in the model.
- An ssh connection that hangs without an error; two nested trap handlers; two kinds
  of benchmark in one campaign. A boot while the host is about to remember the archive it has copied
  commutes with that step and is taken after it.
- The kernel log as a ring buffer: its difference is exact in the models, while the
  scripts count lines, and a wrapped buffer would yield an empty difference.
- In nvdla-board-workload an interrupt ends the script without a trap: nothing that
  it changes has to be restored, and its command may be left running.
- The sampler's output failing (`fprintf`, `fclose`), which it never notices; a file of
  the host that is torn in the middle of a write: a file is there or is not.
- Floating point: means and energies are exact in the models.

Components without a module, and why: the board check keeps no state between its
checks. The kernel patches and the build-only patches change calls inside a driver
that is not in the repository, and what surrounds the changed lines could only be
guessed. The profiling and repeated-input patches are sequential, and most of what
they change is not in the repository either. The C client of the flatbuffer server has
a set of retries that differs from the Python client's; only the latter is used in a
session. The patch queue, the preparation of workloads, payloads, images and models, the
audits and the rendering of documents are sequential and delegate to external tools.
The background job (`vp_resnet50_background.sh`) has one user and one run of several
days; two starts at one moment would both see no running job.


## 8. Plan

Order: what decides about a measurement first, what only reports it later. Left:

| Module | Code | Aim |
|---|---|---|
| `BoardBenchmark`, extended | `stream20` | the frame producer beside launcher and sampler |
| `BackgroundJob` | vp_resnet50_background.sh | two starts that both see no running job |
| `PatchQueue` | nvdla_patch_queue.sh | the lock directory and the rebuilt work tree, two processes, a crash |
| `FlatbufClient` | nvdla-flatbuf-client.c | framing and retries against a server that may fail; both clients alike |

Modules that will be proved about use recursive functions or folds, no RECURSIVE
operators. Where a new check says more than an old one, the old one gives way.
