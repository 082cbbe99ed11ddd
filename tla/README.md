# A verification project for the LabOne Q controller

LabOne Q compiles quantum experiments for Zurich Instruments' devices and runs
them. This directory holds TLA+ modules about the parts of it in which order,
failure and stale state decide whether a result is right: the timing of an
experiment's sections, the compilation of a near-time sweep, the upload of its
programs, what is set in each of its steps and where their results go, the
execution of a step, the setup of the devices and the connection underneath, and
the node cache underneath that. TLC checks the modules on small instances; TLAPS
proves most of the invariants for every value of the constants. `PROJECT.json`
lists the runs, the source lines each definition stands for, and the theorems.

Contents: [The system](#the-system) ·
[The modules](#the-modules) ·
[Runs and bounds](#runs-and-bounds) ·
[What the code does not keep](#what-the-code-does-not-keep) ·
[Fairness](#fairness) ·
[Proofs](#proofs) ·
[Not modelled](#not-modelled) ·
[Plan](#plan)

## The system

Paths are relative to `src/laboneq/`. The system is one Python process. Its
controller is a single coroutine (`async` functions that call one another and are
never run concurrently; the one thread pool compiles AWG programs and is joined
at once), so within the process there is no interleaving to get wrong. What does
run concurrently are the instruments: they execute their programs, change nodes
by themselves, and send events, in any order relative to the controller and to
each other.

| Component | Where | State it keeps | Operations | What makes it correct |
|---|---|---|---|---|
| Session | `dsl/session.py`, `implementation/legacy_adapters/…`, `laboneq_facade.py` | `_connection_state`, `_controller`, `_last_results` | connect, disconnect, compile, run | connected means the controller can execute; results are those of the last run |
| Controller | `controller/controller.py` | `_last_connect_check_ts`, `_results`, `_recipe_data`, `_current_waves`, the tracker | connect, execute, disconnect, replace pulse | executes only on a checked connection; everything from an earlier run is gone or harmless |
| Device collection | `controller/devices/device_collection.py` | `_daqs`, `_devices`, `_monitor_started` | connect, configure_device_setup, start and reset monitor, disconnect | devices are usable when connect returns; leaders before followers |
| Node sessions | `controller/communication.py`, `cache.py` | one node cache per data server | batch_set, batch_get, clear_cache | a node believed to be set is set |
| Device setup | `configure_device_setup` of the collection, control nodes of the drivers | configuration, level, what is awaited | check, command, await, check again | what a setup that succeeded asked for is so |
| Node monitor | `controller/devices/zi_node_monitor.py` | one event queue per node | start, flush, poll, reset; `wait_all` over several monitors | an event stands for something that happened after the wait's cause |
| Near-time compiler | `compiler/workflow/neartime_execution.py`, `rt_linker.py` | outputs by parameter values, last output | one visit per step and chunk; merge | the recipe tells the controller every program it needs |
| Reload tracker | `controller/pipeliner_reload_tracker.py` | last step per AWG and chunk | calc_next_step | fills in what the recipe leaves out as the compiler meant it |
| Pipeliner | `controller/devices/awg_pipeliner.py` | slot counts | reset, prepare, commit, ready conditions | the free slots waited for are those the device will report |
| Near-time runner | `controller/near_time_runner.py`, `executor/executor.py` | loop indices, parameters, pending sweep values | loops, callbacks, real-time step with three attempts | every step has results, or its loss is reported |
| Step execution | `controller/controller.py` 440-562, 795-940 | conditions waited for, results, errors | flush, start followers, wait, trigger leader, wait, read | results belong to the step and attempt they are stored for |
| Device drivers | `controller/devices/device_*.py` | connection, oscillator allocation | lists of nodes and conditions for each phase | arming, starting and checking fit together |
| Instruments | outside; `controller/devices/zi_emulator.py` describes them | sequencers, acquisitions, pipeliner slots | run, record, stop, clear their enable nodes | (assumed as little of as possible) |
| Attributes and results | `controller/attribute_value_tracker.py`, `results.py`, `recipe_processor.py` | attribute values and what has been updated; result arrays | resolve a node's attributes; place a vector | nodes follow the sweeps though only changes are sent; a value is where its axes say |
| Scheduler | `compiler/scheduler/` | starts, lengths and absolute starts in a tree of intervals | `calculate_timing` of each kind of interval | no overlaps, everything on its grid, feedback after its data |
| Code generator, feedback router | `compiler/` | none between calls | translation, tables | a function of the schedule |
| Everything else | `dsl`, `data`, `openqasm3`, `simulator`, … | none that matters here | | |

How they interact. `Session.run` calls the controller's `execute_compiled`, which
connects (or finds that it did so a moment ago), walks the near-time loops with
the runner, and hands the results back at the very end. At each real-time step
the runner uploads programs (recipe, tracker, pipeliner), sets nodes (node
sessions), starts and awaits devices (monitors), and reads results. The compiler
and the controller share no state: they walk the same loops at different times
and communicate through the recipe, in which most steps are *missing*, because
nothing has changed. What a missing step means is a rule each has for itself.

What is hard here (`PROJECT.json`, "hazards", has each with its line):

- *Partial failure.* Every call to a data server may raise half way. What was
  done stays done, and what was noted as done stays noted: the node cache, the
  time of the last connection check, the monitors, the stored results.
- *Retries.* An API call is repeated when its vector write was inconsistent; a
  step is tried three times, the second time perhaps while a sequencer still
  runs the first.
- *Timeouts that go on.* The waits for devices only warn. Whatever follows has
  to be right when the wait was in vain, and late events arrive in later waits.
- *Stale state.* A cache over nodes that change by themselves; events still
  queued; a tracker that lives longer than the experiments it tracks; a counter
  that shows the same before and after.
- *Two rules for one thing.* Compiler and controller, see above; the length of a
  result vector and the map that says what is in it.
- *Positions that still move.* The scheduler places children before it knows
  their parent's start or end, and feedback latency needs absolute times.

## The modules

Seven component modules, each with the TLC constants in an `MC` module where it
needs definitions, and with its proofs, where there are some, in a module of their
own; and one abstract specification. The modules do not share variables: each
takes what the layer below does as an action that succeeds or raises, and the
layer below shows when it does which.

```
sections -> timing               Scheduler          <- MCScheduler, Scheduler_proofs
compiler -> recipe -> upload     NearTimeReload     <- MCNearTimeReload, NearTimeReload_proofs
Session, Controller, devices     ControllerSession  <- MCControllerSession, ControllerSession_proofs
clocks, outputs, links           DeviceSetup        <- MCDeviceSetup, DeviceSetup_proofs
near-time loops, nodes, results  NearTimeSweep      <- MCNearTimeSweep, NearTimeSweep_proofs
one real-time step after another StepExecution      <- StepExecution_proofs
   implements                    StepContract
node sessions and caches         DaqSession         <- MCDaqSession, DaqSession_proofs
sets and sequences               DataLemmas            (used by the proofs)
```

Where they meet: `ConfigureSetup` of `ControllerSession` is all of `DeviceSetup`;
`PrepareStep`, `StepExecuted` and `AttemptFails` of `NearTimeSweep` stand for the
uploads of `NearTimeReload` and for an attempt of `StepExecution`, whose results are
the vectors `ReadAwg` places; each batch of nodes is a `BatchSet` of `DaqSession`.

### DaqSession: the node sessions

`batch_set` of the module splits a list of set actions by data server
(`BatchSet`, `NextSession`), each session filters its part through the cache
(`Suppress` when `Cache.set` returns nothing, `Keep` otherwise) and makes the API
call (`CallApi`). The data server applies the elements one by one
(`ServerApplies`), and the call returns, is repeated by `_api_wrapper`, or raises
after any of them (`ApiReturns`, `ApiRetries`, `ApiRaises`); a raise leaves the
sessions not yet served alone. `BatchGet` fills the cache from the instrument,
`ClearCache` empties it, and `InstrumentClears` resets a node behind its back.

| Variable | Code |
|---|---|
| `cache` | `Cache._cache` of all sessions (a node belongs to one) |
| `todo`, `wire`, `sent`, `attempt` | `split_actions`, `api_input`, progress of the call, loop counter of `_api_wrapper` |
| `phase`, `session`, `outcome` | where `batch_set` is, for whom, and how it ended |
| `node` | the instruments |
| `asked`, `want`, `got`, `own`, `lost` | history, for the properties only |

A path is a node or a pattern; `Covers` says what a pattern stands for. A pattern
is never cached (`CachingStrategy`), and `force_set` with one updates the entries
that exist (`ForceSet`). Values are abstract; 0 is the value nodes reset to.

### ControllerSession: the life of a connection

`SessionConnect`, `SessionDisconnect`, `SessionCompile` and `SessionRun` are the
calls of the user; everything else is what happens below, one action per call to
a data server that may raise, each with its raising twin. `pc` names the call:
`connect` and `devices` and `configure` (`connect_async`,
`DeviceCollection.connect`), `execute` and `end` (`_execute_compiled_impl` with
its `finally`), `reset` and `leave` (`DeviceCollection.disconnect`). The fields of
a controller are the record `Controllers`; `work` is the controller a call works
on, `ctl` the one the session keeps: `Session.connect` works on a new one and keeps
it only when it has connected. `Raise` is the exception reaching the caller.
`now` is the monotonic clock, which moves between calls and during executions.

### DeviceSetup: clocks, outputs and links

`configure_device_setup` goes through four configurations (reference clock, sample
clock, output offsets, ZSync links), and in each from the leaders down to their
followers. `Configs` has what the drivers' methods return for each: nodes with a
value and a kind (`Condition`, `WaitCondition`, `Command`, `Response`, `Prepare`),
which decides whether a node is checked, sent or awaited (`filter_conditions`,
`filter_commands`, `filter_responses`). `NothingToDo` and `Configure` are the check
of a level and what follows from it, `BatchSet` and `BatchSetRaises` send the
commands, `PollAndCheck` and `WaitTimesOut` are passes of `wait_all`, `CheckPasses`
and `CheckRaises` the check at the end; `GoOn` is the loop around all this. A setup
begins again after any exception. `SetNode` is one node a data server sets: in the
order of the list within a server, in any order between servers; an API call that
raises leaves any number of them set.

| Variable | Code |
|---|---|
| `pc`, `config`, `targets` | where `configure_device_setup` and `_configure_parallel` are |
| `commands`, `awaited` | `set_nodes`, the conditions of the `ResponseWaiter` |
| `queue`, `last` | `NodeMonitor._nodes`: queued values and the last one |
| `transit` | per node, what its data server has and nobody has polled, in order |
| `node`, `switching`, `sampling` | the instruments: values, clocks about to lock |
| `quiet` | history: nothing was still under way when the setup began |

The instruments answer in their own time (`ClockLocks`, `SampleClockLocks`,
`LinkComes`): a source that changes unlocks the device, breaks its link, and takes
the reference from the followers that use it. A device that switches reports the
loss of its lock with the new source. One device hangs on each PQSC port.
`Settled` says that nothing more will come: no clock can lock, no sample clock is
changing, no link can come up. `Init` leaves any devices with other sources,
any without lock, and any external reference wrong; all outputs are on. A poll
takes all there is on a server, so that only the order of the values of one node
can be told, and `transit` keeps no other.

### Scheduler: calculate_timing

The tree of intervals is given as `Scheduler._schedule_section` has built it; the
recursion of `calculate_timing` over it is a stack of calls (`stack`), innermost
first, and every action is one step of the call on top: a child is a leaf
(`VisitLeaf`) or called (`VisitBranch`), or an exception is raised before
(`RefuseChild`); a section, an unrolled or a compressed loop, or the root has no
children left and returns its length (`LeaveSection`, `LeaveUnrolled`,
`LeaveCompressed`, `LeaveRoot`). `Placed` puts a child where its parent wants it:
`LeftStart`, `RightStart` (counted back from the end, hence negative until the
section is shifted onto its grid) or after the iteration before. `Adjusted` and
`Moved` are `adjust_length`.

| Variable | Code |
|---|---|
| `tree` | the `IntervalSchedule` objects and their fields |
| `signals`, `grid`, `loopGrid` | fields of the same name (`sequencer_grid` combined in), lcm of what is below |
| `start`, `length`, `absolute` | `children_start` (kept with the child), `length`, `absolute_start` |
| `acquired` | `ScheduleData.acquire_pulses` |
| `stack`, `outcome` | the calls under way; an exception is `refused` |

The latency of feedback is a number per signal and stands for the model of the
feedback system. How a tree comes about (unrolling, phase resets, oscillator
steps, cached sections) is outside: `TreeAssumption`, `NamesAssumption` and
`KindAssumption` say what that code makes sure of (a tree, parents numbered first;
one first use of a section among siblings; the children each kind of node may have,
lengths of pulses, repetition times), `NumberingAssumption` that the numbers of the
nodes are in the order of the program, and `RateAssumption` what its grids are made
from: a sequencer cycle is a number of samples, loop iterations and phase resets are on
the system's grid, and pulses have no triggers of their own. Five more conditions, `AutoHasNoTime`,
`OneAtTheTop`, `OrderIsHeeded`, `NothingMovesLate` and `AcquiresInOrder`, are not assumptions but
hypotheses of theorems: the code does not enforce them, or means something else
where they do not hold.

### NearTimeSweep: the loops, what is set in a step, and its results

The experiment is the list of its statements, as `RecipeData.execution` has them,
with the end of each loop kept at its beginning. `EnterLoop`, `LoopEnds`,
`SetParam`, `SetNode`, `Callback` are the handlers of the runner for each; at the
real-time loop it skips (`SkipChunk`: all but the first chunk) or prepares a step.
`PrepareStep` is `_prepare_nt_step` and the batch: the parameters set since the
last step update their attributes (`Updated`), the nodes one of whose attributes
has changed are computed (`Swept`, `ValueOf`), and these follow what the program has
set (`LastSet`). `StepExecuted` and `ReadAwg` end an attempt, the latter once per
AWG (`Stored`, `Placed`: `build_partial_result`); `AttemptFails`, `StepRaises` and
`ReadRaises` are the ways it may fail.

A callback may replace pulses: `Edited` is the controller's copy of each wave that
holds the pulse, `WaveNodes` the nodes for all places the wave has in the programs
of any step, and `PrepareStep` writes them after the step's own uploads; another
attempt writes them again. The wave tables are given with the real-time loop. A
wave's content is, per pulse, the last replacement; indices two waves share are
written in the order of the tables, where the code has the order of the pulse map.
`PulsesAreReplaced` leaves such indices out.

| Variable | Code |
|---|---|
| `code`, `acquires` | `RecipeData.execution`, `Recipe.simultaneous_acquires` |
| `at`, `loops` | the position of the executor in `ForLoop.run`, and the indices there |
| `indices`, `chunk` | `nt_loop_indices`, `pipeline_chunk` of the runner |
| `params`, `updates` | `SweepParamsTracker` |
| `attrs` | `AttributeValueTracker`: value and `updated` |
| `userSet`, `node` | `user_set_nodes`, the instruments |
| `phase`, `try`, `toRead` | where `rt_entry_handler` is, in which attempt and AWG |
| `loaded`, `memory` | the AWGs: the program and its waves |
| `waves`, `replaced`, `sent` | `_current_waves`, `_nodes_from_neartime_callbacks`, their part of `step_prepare_nodes` |
| `data`, `last`, `errors` | `acquired_results` and `last_nt_step`, `execution_errors` |
| `executed`, `wanted`, `asked` | history: steps begun, what the program last asked of a node, and the last replacement of each pulse |

A measured value is its origin: near-time step, shot, and the event (statement and
indices of the loops in real time) it comes from. `SimultaneousAcquires` is the
list the code generator makes of a shot, `ResultMap` what the recipe processor
makes of it for a signal, `Raw` what the instrument sends. A node computed from
several attributes is their sum, as the HDAWG's delay is.

What is assumed of an experiment is what the code makes sure of: an `ExecRT` is
always the averaging loop (`executor.py:349`) and averaging in near time is
refused; a loop of pipeline chunks contains the real-time loop and nothing else;
acquires are in real time, as `acquire_handler` uses `_current_rt_info`
(`recipe_processor.py:258`), and a handle is on one signal (`loader_base.py:194`);
a parameter is swept once, before the real-time loop. Counts, nestings, and the
numbers of signals, AWGs and acquires are arbitrary.

### NearTimeReload: from the compiler to the sequencers

An experiment is its swept values, its number of chunks (0: no pipeliner) and what
each pair of value and chunk compiles to, per AWG. The compiler visits every step
and chunk (`NextIteration`): a pair of values compiled before is skipped
(`SkipCompilation`), the first output gives every AWG a step (`FromSingleRun`), and
a later one gives a step to the AWGs whose program differs from that of the
iteration before (`MergeCompilerRuns`, which raises for an AWG without a command
table, as the code does). The controller then executes it, as often as `MaxRuns`
allows, and other experiments in between: `PrepareStep` and `PrepareChunk` look the
steps up and fill them with the tracker's rule (`NextSteps` is `calc_next_step`,
case by case), `Upload` and `UploadToPipeliner` write the programs, and
`WaitForUpload` waits for the slots, which the device takes in its own time
(`PipelinerCommitted`). `Stop` ends an execution after any step, by an exception
or by `AbortExecution`.

| Variable | Code |
|---|---|
| `compiled`, `last`, `index` | `_compiler_output_by_param_values`, `_last_compiler_output`, `__pipeline_index` |
| `recipe` | `recipe.realtime_execution_init`; a reference `<<step, chunk>>` stands for the SeqC, wave and command table files of one program |
| `tracker`, `items`, `slots`, `chunk` | `last_rt_exec_steps_per_awg`, the items per AWG, `_pipeliner_slot_tracker`, `pipeline_chunk` |
| `memory`, `available`, `pending` | the device: programs, `availableslots`, commits not yet taken |

Nested near-time loops are one sequence of values: neither rule looks at the loop
structure, only at the values the real-time part queries and at the iteration
before.

### StepExecution: the steps, and the instruments under them

One action per phase of `rt_entry_handler` and `_execute_one_step`: `Prepare` (or
`PrepareRaises`, outside the `try`), `FlushMonitor`, `StartFollowers`, the wait for
the ready conditions, `Trigger`, the wait for the done conditions, `Read` per
device, `StepDone`. `PollAndCheck` is one pass of `wait_all` over the conditions
left, consuming events up to the expected value as `poll_and_check_conditions`
does; `WaitTimesOut` is its end without success, after which the code goes on.
`ReportStepError` is the `except` branch with the retry, `ReadAsserts` the
assertion about the vector's length, which is no controller exception and ends
the execution.

The instruments are those of the emulator with more freedom: a sequencer arms some
time after it is enabled (`SequencerArmed`), the leader triggers once and who is
not armed misses it (`LeaderTriggers`), a shot may go unrecorded (`EmitsShot`), a
generator may stop early, a sequencer that is still running may ignore another
start or begin anew (`StartFollowers`), and any of them may do nothing at all. A result is not a
number but its origin: the set of its shots, each with the run of the sequencer
that emitted it and the arming of the acquisition that recorded it. That is what
makes staleness visible.

The constants choose the setup: `Counted` devices (SHFQA) report how many shots
they have and signal the end of an acquisition, `Wrapping` ones (UHFQA) have a
counter that returns to 0, the rest (RAW mode) are not checked; `SelfTriggering`
and `NoReadyWait` are standalone devices.

### StepContract: what a user may rely on

Without instruments, waits and events: steps are worked off in order, a step is
kept with the results of all devices, all of one attempt, or lost after each
attempt was reported, and is never touched again; the whole may be given up in
between. `StepExecution` instantiates it (`Contract`, with `StoredTries`,
`CurrentStep` and `GivenUp` as the refinement mapping) and implements it
(`KeepsContract`).

## Runs and bounds

| Run | Instance | Shows |
|---|---|---|
| `node_cache` | 2 servers, 3 nodes (one clears itself), 1 pattern, 4 batches, 3 attempts | `Coherent`, `RearmDelivered`, `CallEnds` |
| `session` | 2 devices on 2 servers, 3 runs, holdoff 1, clock to 5, devices reset | `UsableWhenExecuting`, `ConnectedIsUsable`, `ResultsOfLastRun` |
| `device_setup` | PQSC, HDAWG with a UHFQA below it, SHF, on 2 servers, any of them disturbed; setups repeated at any time | `SetupComplete`, `LeadersFirst`, `AnswerIsOnItsWay`, `OutputsOffForSampleClock` |
| `reload` | 2 AWGs (one changing), 2 values, 2 programs, sweeps of 1 or 3 steps, no pipeliner or 2 chunks, 1 slot, 2 executions | `AgreeingRunsWhatWasCompiled`, `AlwaysDetermined`, `UploadIsAcknowledged` |
| `schedule` | 3 signals with 2 sample rates; section trees of six shapes | `NoOverlap`, `Contained`, `OnHardwareGrid`, `MatchWaitsForData`, `PlayAfterKept`, `AbsoluteIsActual` |
| `sweep` | 2 AWGs that acquire, 2 that play, 3 signals, 4 nodes, 5 experiments, 2 attempts | `SweptNodesAreCurrent`, `UserSetsAreInForce`, `ResultsArePlaced`, `LastStepIsFilled`, `EveryStepIsExecuted`, `PulsesAreReplaced` |
| `step_pqsc` | leader, an SHFQA and a generator, 2 steps, 2 attempts, 2 shots | `NeverStale`, `OfThisRun`, `StoppedWhenRead`, `NoTriggerLost`, `KeepsContract` |
| `step_standalone` | a UHFQA, and a generator without ready conditions, both triggering themselves, 1 step, 3 attempts, 2 shots | `NoSilentLoss`, `OneAttempt`, `Ends` |
| `session_auto_disconnect`, `device_setup_conditions`, `reload_revisit`, `schedule_reused` | small | one counterexample each, see the next section |

Seven of the passing runs also check their module's `TypeOK`. What the properties
say, and why these bounds are enough to see them fail (every property fails when a
plausible bug is put into the code it is about; those variants are the operators
marked "Seeded fault"):

- `Coherent`: between two calls, what the cache says of a node is what the
  instrument has, except for nodes the instrument changed itself and nodes a
  failed call left unwritten. `RearmDelivered`: a batch that sets a node to two
  values (0, then 1: the way every acquisition is armed) reaches the instrument
  with the last one whatever the cache believes. The hazard needs a self-clearing
  node, a call that fails between two elements and a second batch: the batches
  arm, do without arming, reset by pattern, and set a user's node. Values are two,
  as a cache entry is right or wrong; nodes are three, so that a pattern covers two
  and another server is left alone.
- `UsableWhenExecuting`, `ConnectedIsUsable`: after any calls, each raising
  anywhere, an experiment is only executed on connected devices whose nodes are
  subscribed, and a session that says it is connected is. `ResultsOfLastRun`: what
  is shown comes from the last run. Two servers make a disconnect that raises half
  way different from one that never began; three runs are one more than it takes
  to show old results; the clock lets the holdoff of 1 run out more than once. At
  its bound the clock stands still and the calls go on.
- `SetupComplete`: when a setup succeeds, everything it commanded or awaited, on
  any device, is so in the instruments, provided nothing was under way when it
  began. Without that condition a late answer to the commands of a failed setup is
  taken for the answer to the new ones, and a sample clock has not locked when the
  setup succeeds. `LeadersFirst`: a follower is told to switch only when its leader
  has the clock it is to have. `AnswerIsOnItsWay`: no wait is in vain; when the
  instruments have settled, every value awaited has been reported and not been read
  yet. `OutputsOffForSampleClock`: the sample clock never changes under an output
  that is on. The instance has three levels, a PQSC with two followers of
  different drivers, on two data servers, and starts with any subset of the devices
  on another source, unlocked, or with a wrong reference. A setup may be repeated after any exception;
  instruments still busy at its beginning have settled at the one after it
  (a bound in `BeginSetup`).
- `AgreeingRunsWhatWasCompiled`: at every step, every AWG plays the programs
  compiled for that step, for every experiment in which the sweep does not come
  back to a value (`NeverReturns`) and an AWG that enters a step with the program
  it left the last one with has the same programs in both (`SimilarJobs`).
  `AlwaysDetermined`: with no such restriction, and whatever ran before, the
  tracker always names a program, and it is one of this experiment.
  `UploadIsAcknowledged`: the free slots the controller waits for are those the
  device arrives at. The instance has *all* experiments of its size, executed in
  all orders and stopped after any step; one step and three steps are what a
  tracker inherits from and what a sweep u, v, u needs; a second AWG that keeps
  its program has the uploads differ between AWGs. There is one slot for two
  chunks on purpose: nothing in the code compares them, and the count the
  controller waits for is right even then.
- `NoOverlap`, `Contained`: in the finished schedule no two pulses of one signal
  overlap, wherever in the tree they are (the cases of a match exclude each other),
  and what a section or a repetition contains stays inside it. `OnHardwareGrid`: in
  every repetition of the loops around it, a pulse starts on its signal's samples,
  and a section that triggers, acquires or mixes sample rates on the sequencers'
  cycles. `MatchWaitsForData`: a match section starts when the data of its
  acquisition can have arrived, in each repetition. `PlayAfterKept`: a section
  starts after all sections it plays after have ended. `AbsoluteIsActual`: the absolute
  start a node was told, which latencies are computed from, is where it is in the
  end. The trees (`MCScheduler`) are: two sections in one with every alignment,
  order and length; precompensation clears; a match in an averaging loop in every
  repetition mode; a sweep whose iterations differ in length, alone or with a match
  beside it; and both nested. Sample grids 2 and 3 with cycles of 4 and 6 make
  every combination of grids a new one. Left out (`Stale`) are right-aligned loops
  with a constant repetition time: for these `AbsoluteIsActual` does not hold, as
  iterations are fixed before the loop extends them.
- `SweptNodesAreCurrent`: while a step is executed, each node computed from swept
  and fixed attributes has the value of the point the sweeps are at, although only
  what has changed is set, attempts fail, and the parameters of outer loops change
  rarely. `UserSetsAreInForce`: each node the program sets itself has the value
  asked for last. `ResultsArePlaced`: every value stands where the axes of its
  result say: shot, points of the sweeps in real time, which acquire of the handle.
  `LastStepIsFilled`: of the last near-time point of a result all elements have
  been stored. `EveryStepIsExecuted`: an experiment that ends by itself has
  executed every near-time point once, in order, and where no result is every
  attempt was reported. `PulsesAreReplaced`: in the waves an AWG plays in a step, each
  pulse replaced since its program was uploaded has the replacement asked for last,
  and no pulse has an older one. The five experiments are two nested sweeps with sets before,
  between and after the steps, and two signals of different AWGs in one acquire;
  single shots with a callback and fewer parameter values than steps; a sweep in
  chunks; no sweep at all; and pulses replaced before each of three steps, in waves
  of their own and in a shared one, where one AWG gets a new program in the second
  step and the other in the third. Two attempts are enough for one to fail and one to
  succeed; other loops have two iterations, each index being first or last.
- `NoSilentLoss`, `OneAttempt`: a step left behind has a result for every device,
  all of its last attempt, or each of its attempts was reported. Three attempts
  are the code's own number; reading two devices is what can fail half way. `Ends`:
  the experiment ends however the instruments behave.
- `NeverStale`, `OfThisRun`: a device that counts never has an older measurement
  stored, even when the waits timed out; and its shots come from the run that
  storing attempt started, as long as no attempt began with a sequencer still busy.
  `StoppedWhenRead`: when the done conditions were fulfilled, everything has in fact
  stopped, so no event from before passes for one of this attempt. `NoTriggerLost`:
  the leader's trigger finds all awaited followers armed, unless their wait timed
  out or a sequencer was busy. Two steps with one retry each give an attempt a
  failed one before it and a finished step before that; with two shots an
  acquisition can be half complete. Two followers of different kinds are enough
  for "not all of them", as the conditions are per node.
- `KeepsContract`: all of it implements `StepContract`.

Deadlock checking is off where a model ends: when `MaxRuns` executions are used up
(`reload*`), when an experiment is over (`sweep`, `step_*`), and when a schedule
is computed (`schedule*`). It is on in the others.

## What the code does not keep

Four statements of docstrings and comments that a run refutes. Each is listed in
`PROJECT.json` ("findings") with both places quoted.

- `session_auto_disconnect`: with `run_parameters.disconnect`, a disconnect that
  raises half way leaves the time of the last check in place; within the holdoff,
  the next run executes on reset monitors and disconnected devices although the
  comment there wants to "ensure all connect configurations are still valid".
- `device_setup_conditions`: `_configure_parallel` checks at the end with the
  checker of the level's last device only. A condition of another device (the
  frequency of an external reference, say) that was wrong before the commands and
  is still wrong is not looked at again, and the setup succeeds.
- `reload_revisit`: in a sweep u, v, u the third step has no entry in the recipe,
  because u was compiled before; the controller takes this for "no change" and
  plays the program of v.
- `schedule_reused`: a section that plays after one that is used twice waits for
  the first use only, because later uses have names of their own.

Limits that no run is spent on, where the models say what the code does and the
properties are stated within them:

- `batch_set` "returns when all nodes are set", but the cache takes the new value
  before the API call and keeps it when the call raises: the next set of that value
  is dropped (`Coherent` leaves nodes of a failed call out, as `lost`).
- `connect_async` notes the time also when it has left the check out, so runs in
  short succession put it off for good (the comment at `CONNECT_CHECK_HOLDOFF`,
  `controller.py:65`).
- A first chunk equal to the last chunk of the step before is left out of the
  recipe; the tracker fills it with the *first* chunk of the step before
  (`SimilarJobs`).
- 0 is what a UHFQA's counter shows after a complete acquisition and also when
  nothing was recorded; the check passes and the previous vector is stored
  (`NeverStale` is about the counting devices).
- A compressed loop in mode AUTO with a repetition time takes that time as its
  length even if the content is longer (`loop_schedule.py:59`). `AUTO` has no time
  in the trees of `schedule`.
- Nodes the program sets after its last real-time loop are never sent
  (`near_time_runner.py:45` and `:125`): they wait for the next step.
- An upload undoes the replacements in the waves of its AWG, while `_current_waves`
  keeps them: they come back with the next replacement in the same wave
  (`controller.py:741`). Waves that only programs of later steps have are never
  replaced, as the linker keeps the first pulse map (`rt_linker.py:106`), and an
  index of a program that is not loaded is written all the same.
- Two acquires of one handle in sibling sweeps of the same length pass for two in
  one sweep (`recipe_processor.py:286`); their values come in the order of time
  and stand at wrong points. The instance of `sweep` has both in one sweep
  (`InSameLoops`).
- Devices without a leader are not set up when another device leads
  (`device_collection.py:204`).
- The length of a section that is too short for its content is refused, and not,
  as `dsl/experiment/section.py` has it, a minimum; `play_after` of a section in
  a right-aligned one ignores names it does not find.

Some of these are the conditions of a theorem: `Execution` and `Connection` are
proved for sessions without automatic disconnect, `Agreement` for experiments that
are `NeverReturns` and `SimilarJobs`, `ResultPlaces` for those that are
`InSameLoops`; and of the theorems about schedules all ask for
`AutoHasNoTime`, `Exclusion` for `OneAtTheTop` (sections at the top of an experiment
are played in parallel whatever their signals, `scheduler.py:211`), `OrderOfPlay`
for `OrderIsHeeded` (only sections look at `play_after`, and they find first uses),
`ToldTheTruth` and `FeedbackArrives` for `NothingMovesLate` (a loop that extends a
right-aligned iteration moves what it contains without telling it, `loop_schedule.py:51`),
and `FeedbackArrives` for `AcquiresInOrder`: a match waits for the acquisition of its
handle that was visited last (`match_schedule.py:68`). Two acquisitions in one
right-aligned section are visited from the last to the first, so the match does not
wait for the later one; and of two acquired in parallel the longer may come first.

## Fairness

`DaqSession!FairSpec` has weak fairness on `Step`, the running call: the coroutine
is scheduled, and the API answers or raises. A call may raise at any time, and
`MaxAttempts` bounds the repetitions; nothing else is needed for `CallEnds`. Nothing
is assumed of the user's calls or of the instruments.

`StepExecution!FairSpec` has weak fairness on `ControllerStep`, the controller's own
actions. That includes `WaitTimesOut`: `wait_all` compares the clock with its
timeout on every pass, and API calls block for a bounded time. Nothing is assumed
of the instruments: `Ends` is the statement that no instrument can keep the
experiment from ending. The other modules state safety only and have no fairness;
`AnswerIsOnItsWay` says by an invariant what a liveness property of `DeviceSetup`
would say under fairness of the instruments: every wait of a setup is for
something that has been reported once the instruments are settled.

## Proofs

Each theorem is for every value of the constants that meets the module's
assumptions (named `…Assumption`; they are about types and about the kinds of
devices, not about sizes). Each runs along the same line: an invariant strong
enough to be inductive, one step for every action, and a temporal step at the end.

| Module | Theorem | Property | Inductive invariant |
|---|---|---|---|
| `DaqSession_proofs` | `Typing` | `TypeOK` | itself |
| | `Coherence` | `Coherent` | `CoherenceInv` |
| | `Rearm` | `RearmDelivered` | `RearmInv`, with `CoherenceInv`'s first part |
| `ControllerSession_proofs` | `Typing`, `Results` | `TypeOK`, `ResultsOfLastRun` | `TypeInv` |
| | `Execution`, `Connection` (runs do not disconnect) | `UsableWhenExecuting`, `ConnectedIsUsable` | `TypeInv`, `Held` |
| `NearTimeReload_proofs` | `Typing` | `TypeOK` | `TypeInv` |
| | `Acknowledged` | `UploadIsAcknowledged` | with the types |
| | `Lookups` | `AlwaysDetermined` | `Emission`, `Tracking` |
| | `Agreement` | `AgreeingRunsWhatWasCompiled` | `Emission`, `Tracking`, `Playing` |
| `NearTimeSweep_proofs` | `UserSets` | `UserSetsAreInForce` | `Walking`, `Waiting` |
| | `SweptNodes` | `SweptNodesAreCurrent` | with `Tracking`, `Following` |
| | `TypeCorrect` | `TypeOK` | itself |
| | `Replacements` | `PulsesAreReplaced` | with the types, `Content`, `Noted`, `InMemory` |
| | `StepOrder` | (the first half of `EveryStepIsExecuted`) | `Walking`, `Matched`, `Ordered` |
| | `LastStep` | `LastStepIsFilled` | with `Listed` |
| | `StepExecution` | `EveryStepIsExecuted` | with `Listed`, `Accounted` |
| | `ResultPlaces` (acquires of a handle `InSameLoops`) | `ResultsArePlaced` | with `Listed`, `Placing` |
| `DeviceSetup_proofs` | `TypeCorrect`, `SampleClockBehindOutputs` | `TypeOK`, `OutputsOffForSampleClock` | `Structure` |
| | `FollowersAfterLeaders`, `SetupAchieves` | `LeadersFirst`, `SetupComplete` | `Following` |
| | `WaitsAreAnswered` (no HDAWG below a PQSC is asked for its own clock) | `AnswerIsOnItsWay` | `Following` |
| `Scheduler_proofs` | `TypeCorrect`, `Containment` (compressed loops in mode AUTO have no time) | `TypeOK`, `Contained` | `Inv`: `Built`, `Typed`, `Calls`, `Timed` |
| | `HardwareGrid` (also) | `OnHardwareGrid` | `Inv`, `OnGrid`: `StartsOnGrid`, `Regular`, `AskedOnGrid` |
| | `Exclusion` (also: one section at the top) | `NoOverlap` | `Inv` |
| | `OrderOfPlay` (also: `play_after` names first uses of siblings in a section) | `PlayAfterKept` | `Inv` |
| | `ToldTheTruth` (also: `NothingMovesLate`) | `AbsoluteIsActual` | `Inv`, `OnGrid`, `Told`: `ToldCall`, `ToldBelow` |
| | `FeedbackArrives` (also: `AcquiresInOrder`) | `MatchWaitsForData` | with `Waiting`: `WaitingCall`, `WaitingTimed`, `Noted` |
| `StepExecution_proofs` | `Typing` | `TypeOK` | `TypeInv` |
| | `Loss`, `LastAttempt` | `NoSilentLoss`, `OneAttempt` | `LossInv` |
| | `Freshness`, `ThisRun` | `NeverStale`, `OfThisRun` | `StaleInv`, `RunInv` |
| | `Stop`, `NoTriggerIsLost` | `StoppedWhenRead`, `NoTriggerLost` | `StopInv`, `TriggerInv` |
| | `Implementation` | `KeepsContract` | `LossInv` |

Why the invariants are what they are:

- *Coherence.* While a call is under way the cache is ahead of the instruments:
  it holds the value of the last element of `wire` for a node (`WireAsCached`), and
  only nodes that wait for nothing agree with it (`CachedAsSet`). When the call
  returns nothing waits; when it raises what still waits is what is `lost`.
- *Rearm.* A node asked to be set to two values is on the wire, because one of the
  two must miss the cache, and from then on it misses it for the other
  (`TwiceOnTheWire`), and the last one applied is the last one asked for
  (`AskedAsCached`, `GotAsApplied`).
- *Execution.* `Held` ties the two controllers to where the call is: the session's
  is usable as long as it is called connected, a new one becomes so loop by loop
  (`Arriving`: the devices visited are connected and their nodes in the monitor, the
  monitor starts for all of them at once). No action takes a device away while
  `connected` is set, since disconnecting clears the flag first. That is the
  very thing an automatic disconnect does not do, hence the condition.
- *Lookups and Agreement.* `Emission` says exactly which steps are in the recipe:
  the first of all, and those whose value is new and whose program differs from the
  one the AWG enters with. `Tracking` says that while the controller goes through a
  step the tracker's list is either the beginning of a fresh pipeline (the value is
  new) or the whole pipeline of the step before, being amended: in both cases the
  chunk looked up is there, and is of this experiment, whatever the tracker held
  before its first chunk. `Playing` adds that these are the programs of the step,
  which is where `NeverReturns` and `SimilarJobs` come in: a missing first chunk
  means "as before" to the compiler, and the conditions are what makes this the
  same as "like the first chunk of the step before".
- *Sweeps.* `Stack` (in `Walking`) says that the loops entered are exactly those in
  near time around the next statement, each at an index within its count; that
  every loop has an end of its own and that loops are nested is all it takes.
  `Tracking` says that a parameter whose statement has been passed has the value
  at the index of the loop it stands in, as long as that loop is on the stack: a
  new iteration of an outer loop moves the position before the statement again.
  `Following` says how far what is set may lag behind: an attribute has its
  parameter's value unless that is noted as updated, a node agrees with its
  attributes unless one of them is marked. At a step nothing is noted or marked.
  `Waiting` says the same of the program's sets: the last one of a node is in the
  list, or the node has it. The assumption that matters is that a parameter is
  swept once, by loops around the real-time loop.
- *Order of the steps.* `Matched` says that the runner's indices are those of the
  loops entered, without the loop of chunks, although they are kept by handlers of
  their own. `Ordered` says that the steps begun are exactly the near-time points the
  walk has `Passed`: those that are smaller at a loop it is in, or anything at a loop
  it has left behind (`Left`), and the present one once the real-time loop is behind it
  (`Taken`). A step is new because it is where the walk is and has not been passed, and
  it is greater than all that have (`HereIs`); at the end everything has been passed.
- *Filled results.* The argument is about one shot and one result. `EventsOrdered`
  says that the order of time is a total order of the events, by comparing positions
  (loop, index, loop, index, ..., statement); hence `SimultaneousAcquires` has each
  event once, and the map of a signal all events of its AWG. A place of a result's
  array is a shot, the indices of the real-time sweeps and one of the handle's
  acquires; `CellEvent` takes each to an entry of the vector, different places to
  different ones (`CellEventOnce`). So there are at least as many entries of the
  handle as places (`EnoughHits`), and `build_partial_result`, which numbers them,
  reaches the last place. `ShapesAgree`, which the recipe processor checks, is what
  makes the acquires of a handle have one shape.
- *Nothing missing.* `Accounted` says of a step that is over that its results are
  complete or its reports are `MaxTries`, of the present one that it has one report
  for each earlier attempt, and that the AWGs read in this attempt have filled their
  results. Results stay when a later attempt begins; a vector never takes anything
  away. At the end every point has been begun and none is present.
- *Right places.* Nothing in the controller compares a value with the place it is
  put at: the k-th entry of the handle gets the k-th place. Of two entries the
  earlier is in an earlier shot or before the other in the map (`RowsInOrder`), which
  is in the order of time (`MapInOrder`), so its point comes first as well
  (`PointsInOrder`): between them are the same loops, which is `InSameLoops`, and of
  two acquires in one iteration the later has the greater number (`LaterAcquire`).
  With `EnoughHits` entries and places are equally many, so an entry's number is the
  rank of its point (`SameRanks`), which is how `PlaceOf` defines the place
  (`HitsPlaced`). `Placing` is then an invariant, as a stored value is one of these or
  was there before.
- *Replaced pulses.* `Content` says that the controller's copies hold the last
  replacement of each pulse, `Noted` that the copy is in the list of what is to be
  written from the replacement to the step, and in what the step has sent for the
  rest of its attempts, `InMemory` that an AWG's memory has it unless it is still
  listed or the program was uploaded since. An index of the list may be one of a
  program that is not loaded: `Place` names all the indices a wave has anywhere.
- *Setups.* Eight parts. `Structure`: types, one level is set up at a time, and
  the answers to a command are awaited as long as it is not set. `Clocks`: what
  holds of the instruments whatever the controller does, as that a link is up only
  over a lock. `MonitorFollows`: the monitor's last value followed by what is in
  transit ends with the node's value; a value is late, but none is lost. `Polls`:
  an unread reply to a command is on a server the wait polls, so that the check
  of the next level, which does not poll, sees it. `Executed`: the commands of
  what has been set up are in force. `Answered`: what is awaited has been reported,
  or is what a command still to be set, a clock about to lock or a link about to
  come up will report. The last two hold for setups that began `quiet`:
  `RepliesFollow` says that "locked" is heard only of a device which has answered
  the command of this setup, and stays so, and `Links` the same of the links. Both
  turn on what a change of the source does to the levels below: they are touched
  later in the same configuration, which is why leaders come first
  (`FollowersAfterLeaders` is an instance of `Executed` and `RepliesFollow`).
  `WaitsAreAnswered` has a hypothesis: an HDAWG below a PQSC that is asked for its
  internal clock gets it (`device_hdawg.py:135`), its link then never comes up, and
  the wait for the link times out.
- *Schedules.* A call on the stack has timed some of its children (`Visited`) and
  waits for the next. `Calls` says for each call what holds of these (`Placing`): in a
  left-aligned section they start at or after 0 and end before the edge of each of
  their signals; in a right-aligned one the same counted back from the end, so that
  all starts are at most 0; iterations follow each other; two children that share a
  signal are disjoint, and those that play after another start after it (`Spaced`).
  And it says what the call has asked of the next one (`Offered`), which the callee
  may only delay: a match section returns a later start than it was given. `Timed`
  says that a node which is not to be timed any more (`Open`: under way or still to
  be visited) fits its children: they are inside, spaced and ordered. What makes this
  inductive is that a return changes what was there already: the length asked for
  moves the children of a right-aligned section, all by the same amount and never
  down, and the loop lengthens its iterations after they have returned, once each
  and, in mode AUTO, all once more at its end. The length never becomes smaller
  because the grid of an iteration divides that of its loop. `Contained` and
  `PlayAfterKept` are `Timed` at the end, when nothing is open; `NoOverlap` follows by
  going up from two pulses to the node where their branches part (`Branches`): both
  are inside its children, which share the signal. `OnHardwareGrid` takes a second
  invariant, `OnGrid`: every child starts on its grid, and an iteration of an unrolled
  loop on the grid of the loop (`Unit`); a timed iteration has a length on its grid,
  and that of a compressed loop one on the grids of all it repeats (`Regular`); a call
  has been asked for a start on its grid (`AskedOnGrid`). The grid of a node is a
  multiple of those of its children, so that whatever moves a section by a multiple of
  its own grid keeps what is in it where it may be, and positions and repetitions are
  multiples of a node's grid; `SignalGrids` says that this grid contains the samples
  of a pulse and the cycles of an event. That `AUTO` loops need
  `AutoHasNoTime` is the limit above: without it an iteration does not fit. The third
  invariant, `Told`, is about the starts that are told before they are final. A call
  knows whether its node may move, and the children it has visited have been told the
  start that follows from its own, or nothing if they may move (`ToldCall`). A node
  that has been timed and told has told its children; where it has not been told, nor
  have they (`ToldBelow`), and what is still open has been told nothing.
  What may move is above all that is told nothing (`MayMoveChild`), so a return that
  shifts children finds none that know; what is left is a node that grows after its
  return, at whose end right-aligned content goes along. `NothingMovesLate` says that
  there is no such node where starts are told, and each schedule of the run that is
  finished meets it: the trees of the run that do not are refused. `Waiting` adds why
  the data of feedback is there. A match that has been visited has the data of some
  acquisition noted (`Waits`), those noted after it are in the program after the match,
  and so is all that is still to be visited (`Precedes`, `ComesLater`). That is where
  alignment comes in: a match whose place may change is refused, so nothing around it
  is right-aligned, and everything around it is visited in the order of the program.
  Acquisitions noted before that one end no later if they are in order
  (`AcquiresInOrder`, which every finished schedule of the run meets). That the starts are what the
  match was told when it waited is `Told`; and that the repetitions of a compressed
  loop are on the feedback's grid is `Regular` with `LoopGridsBelow`.
- *Steps.* `Counting` relates attempts to reports; `Succeeding` says that what has
  been read in this attempt is stored as such. `Recording`: if an acquisition's
  counter is not 0, its vector was recorded under the arming of this attempt,
  because arming clears the counter before it turns the acquisition on; a counter
  that equals the number of shots is therefore fresh, and one that may be 0 says
  nothing, which is the finding about the UHFQA. `Running`, `Stopping` and `Arming`
  follow a run from the start of the followers to its end: which events can still
  be queued, and what each means, given that the flush came before the start.
- *Implementation.* Each controller action maps to one step of the contract and
  each instrument action to none; `LossInv` gives what the contract's guards ask.

`DataLemmas` has what these proofs use about sets and sequences of any system: least
and greatest elements of sets of numbers (which is how an induction is made here),
concatenations of sequences, ranks in a finite ordered set, rows of equal length,
sequences that are worked off from the front or the back, and that a definition by
recursion along a rank defines a function (`Recursion`), which is what makes `Below`, `SignalsOf`, `GridOf` and `PositionsFrom` usable in a proof.

Only model-checked: the liveness properties `CallEnds` and `Ends` (liveness under
fairness is out of the prover's reach), and of course the counterexamples. That the
place of an element by order is the one numpy computes from the strides is
checked on arrays of up to three dimensions (`RowMajorAssumption`): for all of them it
would be an induction over data.

## Not modelled

Listed in `PROJECT.json` with the reason. In short:

- *The samples of a replaced pulse*: amplitudes, offsets, clipping and the refusal
  of compressed pulses; pulses of a wave do not overlap in the model.
- *The pipeliner's part in a step* (setup and teardown of its nodes around a step):
  `StepExecution` has the plain variant; uploads are in `NearTimeReload`.
- *How section trees come about*: unrolling, phase resets, oscillator steps and the
  cache of scheduled sections. `Scheduler` times any tree it is given.
- *Results in RAW mode* (one vector per step that overwrites the last), *vectors
  of chunked sweeps*, *handles acquired on two signals*, and near-time acquires,
  which `_LoopsPreprocessor` does not survive.
- *Nodes that are both swept and set by the program*: which wins depends on whether
  an attribute has changed in this step; the properties are about one or the other.
- *Oscillator allocation*, *feedback router*: pure functions, suited to bounded
  checks against a reference definition.
- *The code generator*: a long translation without state between calls. The contents
  of programs are abstract.
- *Drivers' settings*: lists of paths and values. What starts, stops and arms is in
  `StepExecution`.
- *The instruments*: outside the repository. They are modelled by what the emulator
  shows and with more freedom, so that properties do not depend on their timing.
- *DSL, data classes, serialisation, OpenQASM, simulator, viewers, file storage,
  contributions and examples*: no protocol, no state shared with the controller.

Abstractions within the modules: in `NearTimeReload` and `StepExecution` nested
near-time loops are one sequence of steps; the poll of several data servers is
atomic in `DeviceSetup`; SeqC, waves and command table of a program change together; the controller's
handling of one API call is atomic between the points at which it may raise;
time is a counter in `ControllerSession` and absent elsewhere, where a timeout is a
choice.

## Plan

Done: node sessions, connections, reload, steps, device setup, scheduler, sweeps
and results, and the proofs about all of these named above. Left, the most
consequential first:

1. The pipeliner variant of a step in `StepExecution`: setup, done conditions and
   teardown, with the exception between them.
2. The wave tables of `NearTimeSweep`'s pulse replacement taken from what
   `NearTimeReload` compiles, instead of given.
3. The building of section trees, to take the place of the trees `MCScheduler`
   gives: `_schedule_section`, the repetition mode's resolution, reuse.
4. Pure algorithms over bounded inputs: oscillator allocation, the interval
   calculator and compressor of the code generator, the feedback router's table
   and register allocator.
5. Refinements: `DaqSession` against a specification of "set these nodes" without
   sessions and caches; `NearTimeReload` against "play the programs of the step".
