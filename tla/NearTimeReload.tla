--------------------------- MODULE NearTimeReload ---------------------------
(***************************************************************************)
(* The programs of a near-time sweep, from the compiler to the sequencers. *)
(*                                                                         *)
(* The compiler walks the near-time loops and, in an experiment with a     *)
(* pipeliner, the chunks of every step.  It compiles a pair of swept value *)
(* and chunk once (NtCompilerExecutor) and adds a step to the recipe for   *)
(* the AWGs whose program differs from that of the iteration before        *)
(* (rt_linker).  The controller walks the same loops, looks the steps up,  *)
(* fills the ones the recipe does not have from what it uploaded before    *)
(* (PipelinerReloadTracker), and uploads the programs                      *)
(* (Controller._upload_awg_programs, AwgPipeliner).  Neither sees the      *)
(* other's rule for what a missing step stands for.                        *)
(*                                                                         *)
(* A program is its SeqC code, its waves and its command table together;   *)
(* the compiler always emits their references together, and the reference  *)
(* <<s, c>> is the file name it gives the program of step s and chunk c.   *)
(***************************************************************************)
EXTENDS Integers, Sequences, FiniteSets

CONSTANTS
  Awgs,         \* the AWGs of one device
  WithCommandTable, \* those whose programs use a command table (HDAWG, SHFSG)
  Values,       \* values of the swept parameters the real-time part queries
  Programs,     \* contents of a program
  Experiments,  \* the experiments a user may run
  MaxSlots,     \* program slots of a pipeliner (1024)
  MaxRuns,      \* bound: executions of a session
  None

\* An experiment: the values its near-time steps take, the number of chunks
\* (0: no pipeliner) and what each pair of value and chunk compiles to.
ChunkCount(e) == IF e.chunks = 0 THEN 1 ELSE e.chunks
Pipelined(e) == e.chunks # 0
ProgramOf(e, a, s, c) == e.program[a][<<e.sweep[s], c>>]

ASSUME ExperimentsAssumption ==
  \A e \in Experiments :
    /\ e.chunks \in Nat
    /\ e.sweep \in Seq(Values) /\ e.sweep # << >>
    /\ e.program \in [Awgs -> [Values \X (0 .. ChunkCount(e) - 1) -> Programs]]
ASSUME CommandTableAssumption == WithCommandTable \subseteq Awgs
ASSUME BoundsAssumption == MaxSlots \in Nat /\ MaxRuns \in Nat
ASSUME NoneAssumption == None \notin [Awgs -> Programs] \cup (Nat \X Nat) \cup Experiments

VARIABLES
  pc,          \* what the session does now
  runs,        \* executions so far
  experiment,  \* the experiment compiled last
  compiled,    \* NtCompilerExecutor._compiler_output_by_param_values, its keys
  last,        \* NtCompilerExecutor._last_compiler_output
  recipe,      \* recipe.realtime_execution_init, and the artifacts it names
  step,        \* the near-time step, of the compiler's loop or the runner's
  index,       \* the compiler's __pipeline_index
  chunk,       \* pipeline_chunk of the controller's loop over an AWG
  tracker,     \* PipelinerReloadTracker.last_rt_exec_steps_per_awg
  items,       \* the programs to upload, per AWG
  slots,       \* AwgPipeliner._pipeliner_slot_tracker
  memory,      \* the programs the sequencer of an AWG plays, one after another
  available,   \* the node pipeliner/availableslots
  pending      \* commits whose slot the device has not taken yet

compilerVars == <<compiled, last, recipe, index>>
controllerVars == <<tracker, items, slots, chunk>>
deviceVars == <<memory, available, pending>>
vars == <<pc, runs, experiment, compilerVars, step, controllerVars, deviceVars>>

Chunks == ChunkCount(experiment)
FirstChunk == [a \in Awgs |-> 0]

ControlType ==
  /\ pc \in {"idle", "compile", "ready", "upload", "wait", "execute", "failed"}
  /\ runs \in 0 .. MaxRuns
  /\ experiment \in Experiments \cup {None}
  /\ step \in Nat \ {0}
  /\ pc # "idle" => experiment # None /\ step <= Len(experiment.sweep)
CompilerType ==
  /\ compiled \subseteq Values \X Nat
  /\ last \in [Awgs -> Programs] \cup {None}
  /\ recipe \subseteq [awg : Awgs, ref : Nat \X Nat]
  /\ index \in Nat
  /\ pc # "idle" => index < Chunks
ControllerType ==
  /\ tracker \in [Awgs -> Seq(Nat \X Nat)]
  /\ items \in [Awgs -> Seq(Nat \X Nat)]
  /\ slots \in [Awgs -> Nat]
  /\ chunk \in [Awgs -> Nat]
  /\ pc \in {"upload", "wait", "execute"} => \A a \in Awgs : chunk[a] <= Chunks
DeviceType ==
  /\ memory \in [Awgs -> Seq(Programs)]
  /\ available \in [Awgs -> Int]
  /\ pending \in [Awgs -> Nat]

TypeOK == ControlType /\ CompilerType /\ ControllerType /\ DeviceType

Init ==
  /\ pc = "idle" /\ runs = 0 /\ experiment = None
  /\ compiled = {} /\ last = None /\ recipe = {}
  /\ step = 1 /\ index = 0 /\ chunk = FirstChunk
  /\ tracker = [a \in Awgs |-> << >>] /\ items = [a \in Awgs |-> << >>]
  /\ slots = [a \in Awgs |-> 0]
  /\ memory = [a \in Awgs |-> << >>]
  /\ available = [a \in Awgs |-> MaxSlots] /\ pending = [a \in Awgs |-> 0]

-----------------------------------------------------------------------------
(***************************************************************************)
(* The compiler.                                                           *)
(***************************************************************************)

\* Seeded fault: the compiler keeps its outputs from one experiment to the next.
CompileKeepingOutputs(e) ==
  /\ pc \in {"idle", "ready"} /\ runs < MaxRuns
  /\ pc' = "compile" /\ experiment' = e
  /\ compiled' = compiled /\ last' = last /\ recipe' = {}
  /\ step' = 1 /\ index' = 0
  /\ UNCHANGED <<runs, controllerVars, deviceVars>>

\* Session.compile: a compiler with nothing compiled yet.
Compile(e) ==
  /\ pc \in {"idle", "ready"} /\ runs < MaxRuns
  /\ pc' = "compile" /\ experiment' = e
  /\ compiled' = {} /\ last' = None /\ recipe' = {}
  /\ step' = 1 /\ index' = 0
  /\ UNCHANGED <<runs, controllerVars, deviceVars>>

\* The parameters the real-time compiler queries, the pipeline index included.
RequestedValues == <<experiment.sweep[step], index>>
CompilerOutput == [a \in Awgs |-> experiment.program[a][RequestedValues]]
StepsFor(awgs) == [awg : awgs, ref : {<<step, index>>}]

\* Seeded fault: the chunk index runs one too far.
NextIterationTooFar ==
  IF index < Chunks
    THEN index' = index + 1 /\ UNCHANGED <<pc, step>>
    ELSE /\ index' = 0
         /\ IF step < Len(experiment.sweep)
              THEN step' = step + 1 /\ UNCHANGED pc
              ELSE pc' = "ready" /\ UNCHANGED step

NextIteration ==
  IF index + 1 < Chunks
    THEN index' = index + 1 /\ UNCHANGED <<pc, step>>
    ELSE /\ index' = 0
         /\ IF step < Len(experiment.sweep)
              THEN step' = step + 1 /\ UNCHANGED pc
              ELSE pc' = "ready" /\ UNCHANGED step

\* These parameter values have a compiler output already: it is not linked.
SkipCompilation ==
  /\ pc = "compile" /\ RequestedValues \in compiled
  /\ last' = CompilerOutput
  /\ NextIteration
  /\ UNCHANGED <<runs, experiment, compiled, recipe, controllerVars, deviceVars>>

\* rt_linker.from_single_run
FromSingleRun ==
  /\ pc = "compile" /\ RequestedValues \notin compiled /\ last = None
  /\ compiled' = compiled \cup {RequestedValues}
  /\ recipe' = StepsFor(Awgs)
  /\ last' = CompilerOutput
  /\ NextIteration
  /\ UNCHANGED <<runs, experiment, controllerVars, deviceVars>>

\* rt_linker.merge_compiler_runs: only the AWGs with a change get a step.  It
\* unpacks the command table of each, and raises for an AWG without one: there
\* is no compiled experiment then.
Changed == {a \in Awgs : CompilerOutput[a] # last[a]}

MergeCompilerRuns ==
  /\ pc = "compile" /\ RequestedValues \notin compiled /\ last # None
  /\ IF Changed \subseteq WithCommandTable
       THEN /\ compiled' = compiled \cup {RequestedValues}
            /\ recipe' = recipe \cup StepsFor(Changed)
            /\ last' = CompilerOutput
            /\ NextIteration
            /\ UNCHANGED experiment
       ELSE /\ pc' = "idle" /\ experiment' = None
            /\ UNCHANGED <<compilerVars, step>>
  /\ UNCHANGED <<runs, controllerVars, deviceVars>>

-----------------------------------------------------------------------------
(***************************************************************************)
(* The controller.                                                         *)
(***************************************************************************)

BeginStep(s) ==
  /\ pc' = "upload" /\ step' = s
  /\ chunk' = FirstChunk /\ items' = [a \in Awgs |-> << >>]

Run ==
  /\ pc = "ready" /\ runs < MaxRuns
  /\ runs' = runs + 1
  /\ BeginStep(1)
  /\ UNCHANGED <<experiment, compilerVars, tracker, slots, deviceVars>>

\* The step the recipe has for a chunk of an AWG, or None.
RecipeStep(a) ==
  LET ref == <<step, chunk[a]>>
  IN  IF [awg |-> a, ref |-> ref] \in recipe THEN ref ELSE None

\* PipelinerReloadTracker.calc_next_step, for the chunk c of a pipeline whose
\* last known chunks are known.  The compiler's steps carry both references,
\* so that merging one into an older step leaves nothing of the older.
Determined(known, c, update) ==
  update # None \/ c < Len(known) \/ (c = Len(known) /\ known # << >>)

\* Seeded fault: an update of the first chunk amends the pipeline and keeps its tail.
NextStepsKeepingTail(known, c, update) ==
  CASE update = None /\ c < Len(known)            -> known
    [] update = None /\ c >= Len(known)           -> Append(known, known[Len(known)])
    [] update # None /\ c < Len(known)            -> [known EXCEPT ![c + 1] = update]
    [] update # None /\ c >= Len(known)           -> Append(known, update)

NextSteps(known, c, update) ==
  CASE update = None /\ c < Len(known)            -> known
    [] update = None /\ c >= Len(known)           -> Append(known, known[Len(known)])
    [] update # None /\ c = 0                     -> <<update>>
    [] update # None /\ c > 0 /\ c < Len(known)   -> [known EXCEPT ![c + 1] = update]
    [] update # None /\ c > 0 /\ c = Len(known)   -> Append(known, update)
    [] update # None /\ c > 0 /\ c > Len(known)   -> known

NextStep(known, c, update) ==
  IF update # None THEN update ELSE NextSteps(known, c, update)[c + 1]

\* The loop over the AWGs and, for each, over its chunks.
AtItem(a) ==
  /\ pc = "upload" /\ chunk[a] < Chunks
  /\ \A b \in Awgs \ {a} : chunk[b] \in {0, Chunks}

Artifact(a, ref) == ProgramOf(experiment, a, ref[1], ref[2])
HasArtifact(a, ref) == [awg |-> a, ref |-> ref] \in recipe

AddItem(a, ref) ==
  /\ items' = [items EXCEPT ![a] = Append(@, ref)]
  /\ chunk' = [chunk EXCEPT ![a] = @ + 1]

\* Without a pipeliner an AWG keeps its program when the recipe has no step.
PrepareStep(a) ==
  /\ AtItem(a) /\ ~Pipelined(experiment)
  /\ IF RecipeStep(a) = None
       THEN chunk' = [chunk EXCEPT ![a] = @ + 1] /\ UNCHANGED items
       ELSE AddItem(a, RecipeStep(a))
  /\ UNCHANGED <<pc, runs, experiment, compilerVars, step, tracker, slots, deviceVars>>

\* The controller raises when the tracker cannot tell the parameters of the
\* chunk, or when the artifacts do not have the program it names.
PrepareChunk(a) ==
  /\ AtItem(a) /\ Pipelined(experiment)
  /\ LET known == tracker[a]
         ref == NextStep(known, chunk[a], RecipeStep(a))
     IN  IF ~Determined(known, chunk[a], RecipeStep(a))
           THEN pc' = "failed" /\ UNCHANGED <<tracker, items, chunk>>
           ELSE /\ tracker' = [tracker EXCEPT ![a] = NextSteps(known, chunk[a], RecipeStep(a))]
                /\ IF HasArtifact(a, ref)
                     THEN AddItem(a, ref) /\ UNCHANGED pc
                     ELSE pc' = "failed" /\ UNCHANGED <<items, chunk>>
  /\ UNCHANGED <<runs, experiment, compilerVars, step, slots, deviceVars>>

Contents(a) == [i \in 1 .. Len(items[a]) |-> Artifact(a, items[a][i])]
Prepared == pc = "upload" /\ \A a \in Awgs : chunk[a] = Chunks

\* Seeded fault: prepare_for_upload comes right before the items of its AWG.
SlotsOfLastAwg ==
  LET end == CHOOSE a \in Awgs : TRUE
  IN  [a \in Awgs |-> IF a = end THEN Len(items[a]) ELSE 0]

\* prepare_for_upload clears the slot counts of all the device's AWGs, for each
\* AWG and before the first item; every item commits to one slot.
SlotsUsed == [a \in Awgs |-> Len(items[a])]

Upload ==
  /\ Prepared /\ ~Pipelined(experiment)
  /\ memory' = [a \in Awgs |-> IF items[a] = << >> THEN memory[a] ELSE Contents(a)]
  /\ pc' = "execute"
  /\ UNCHANGED <<runs, experiment, compilerVars, step, controllerVars,
                 available, pending>>

\* One batch: reset of each pipeliner, then its programs, each committed.
UploadToPipeliner ==
  /\ Prepared /\ Pipelined(experiment)
  /\ slots' = SlotsUsed
  /\ memory' = [a \in Awgs |-> Contents(a)]
  /\ available' = [a \in Awgs |-> MaxSlots]
  /\ pending' = [a \in Awgs |-> Len(items[a])]
  /\ pc' = "wait"
  /\ UNCHANGED <<runs, experiment, compilerVars, step, chunk, tracker, items>>

\* The device takes the slot of a commit some time later.
PipelinerCommitted(a) ==
  /\ pending[a] > 0
  /\ pending' = [pending EXCEPT ![a] = @ - 1]
  /\ available' = [available EXCEPT ![a] = @ - 1]
  /\ UNCHANGED <<pc, runs, experiment, compilerVars, step, controllerVars, memory>>

\* pipeliner_ready_conditions
PipelinersReady == \A a \in Awgs : available[a] = MaxSlots - slots[a]

\* The controller waits 10 s, a commit takes 1 ms: the wait fails when the
\* devices are done and the condition does not hold.
WaitForUpload ==
  /\ pc = "wait" /\ (PipelinersReady \/ \A a \in Awgs : pending[a] = 0)
  /\ pc' = IF PipelinersReady THEN "execute" ELSE "failed"
  /\ UNCHANGED <<runs, experiment, compilerVars, step, controllerVars, deviceVars>>

\* The step has been executed; on to the next, or the experiment is over.
StepDone ==
  /\ pc = "execute"
  /\ IF step < Len(experiment.sweep)
       THEN BeginStep(step + 1)
       ELSE pc' = "ready" /\ UNCHANGED <<step, chunk, items>>
  /\ UNCHANGED <<runs, experiment, compilerVars, tracker, slots, deviceVars>>

\* An exception or AbortExecution ends the experiment after any step.
Stop ==
  /\ pc \in {"execute", "failed"}
  /\ pc' = "ready"
  /\ UNCHANGED <<runs, experiment, compilerVars, step, controllerVars, deviceVars>>

Next ==
  \/ \E e \in Experiments : Compile(e)
  \/ SkipCompilation \/ FromSingleRun \/ MergeCompilerRuns
  \/ Run
  \/ \E a \in Awgs : PrepareStep(a) \/ PrepareChunk(a) \/ PipelinerCommitted(a)
  \/ Upload \/ UploadToPipeliner \/ WaitForUpload
  \/ StepDone \/ Stop

Spec == Init /\ [][Next]_vars

-----------------------------------------------------------------------------
(***************************************************************************)
(* What the two rules need of an experiment to agree.                      *)
(***************************************************************************)

\* A sweep that has left a value does not come back to it.
NeverReturns(e) ==
  \A i, j, k \in 1 .. Len(e.sweep) :
    (i <= j /\ j <= k /\ e.sweep[i] = e.sweep[k]) => e.sweep[j] = e.sweep[i]

\* Where an AWG enters a step with the program it left the step before with,
\* the two steps are the same for it.
SimilarJobs(e) ==
  Pipelined(e) =>
    \A a \in Awgs, s \in 1 .. Len(e.sweep) - 1 :
      ProgramOf(e, a, s + 1, 0) = ProgramOf(e, a, s, ChunkCount(e) - 1)
        => \A c \in 0 .. ChunkCount(e) - 1 :
             ProgramOf(e, a, s + 1, c) = ProgramOf(e, a, s, c)

(***************************************************************************)
(* Properties.                                                             *)
(***************************************************************************)

\* Every near-time step is executed with the programs that were compiled for
\* its parameter values, on every AWG and in the order of the chunks: what a
\* step missing in the recipe means to the compiler (neartime_execution.py,
\* rt_linker.py) is what it means to the controller (_upload_awg_programs,
\* pipeliner_reload_tracker.py).  Not so for every experiment.
RunsWhatWasCompiled ==
  pc = "execute" =>
    \A a \in Awgs :
      memory[a] = [i \in 1 .. Chunks |-> ProgramOf(experiment, a, step, i - 1)]

\* It does hold for the experiments that keep to what the two rules share.
AgreeingRunsWhatWasCompiled ==
  (pc = "execute" /\ NeverReturns(experiment) /\ SimilarJobs(experiment))
    => RunsWhatWasCompiled

\* Whatever ran before in the session, and however it ended, the controller
\* always finds out which program a chunk needs, and finds that program: the
\* tracker, which lives as long as the controller, never raises its "Internal
\* error" and never names a program of an experiment that is gone.
AlwaysDetermined ==
  \A a \in Awgs :
    AtItem(a) /\ Pipelined(experiment) =>
      /\ Determined(tracker[a], chunk[a], RecipeStep(a))
      /\ HasArtifact(a, NextStep(tracker[a], chunk[a], RecipeStep(a)))

\* The number of free slots the controller waits for is the one the device
\* will report once it has taken the slots of all commits, on every AWG.
UploadIsAcknowledged ==
  pc = "wait" => \A a \in Awgs : available[a] - pending[a] = MaxSlots - slots[a]

=============================================================================
