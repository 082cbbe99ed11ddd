------------------------ MODULE NearTimeReload_proofs ------------------------
(***************************************************************************)
(* Proofs about the programs of a near-time sweep, for any AWGs, any       *)
(* experiments, any number of steps, chunks, slots and executions.         *)
(*                                                                         *)
(* Emission says which steps the recipe has; Tracking says what the       *)
(* tracker holds while the controller goes through the chunks of a step;   *)
(* Playing says that these are the programs of the step, for experiments   *)
(* on which the two rules agree.                                           *)
(***************************************************************************)
EXTENDS NearTimeReload, SequenceTheorems, TLAPS

(* What the compiler has visited, and which iterations get a step.         *)
Fresh(s) == \A t \in 1 .. s - 1 : experiment.sweep[t] # experiment.sweep[s]
Seen(s, c) == s < step \/ (s = step /\ c < index)
Entering(a, s, c) ==
  IF c > 0 THEN ProgramOf(experiment, a, s, c - 1)
           ELSE ProgramOf(experiment, a, s - 1, Chunks - 1)
Emitted(a, s, c) ==
  \/ s = 1 /\ c = 0
  \/ Fresh(s) /\ ProgramOf(experiment, a, s, c) # Entering(a, s, c)
InRecipe(a, s, c) == [awg |-> a, ref |-> <<s, c>>] \in recipe
StepsOf == 1 .. Len(experiment.sweep)
ChunksOf == 0 .. Chunks - 1

Outputs ==
  pc = "compile" =>
    \A v \in Values, c \in ChunksOf :
      <<v, c>> \in compiled <=> \E t \in StepsOf : experiment.sweep[t] = v /\ Seen(t, c)
LastOutput ==
  pc = "compile" =>
    /\ (last = None) <=> (step = 1 /\ index = 0)
    /\ last # None => \A a \in Awgs : last[a] = Entering(a, step, index)
Linked ==
  pc = "compile" =>
    \A a \in Awgs, s \in StepsOf, c \in ChunksOf :
      InRecipe(a, s, c) <=> (Seen(s, c) /\ Emitted(a, s, c))
Complete ==
  pc \notin {"idle", "compile"} =>
    \A a \in Awgs, s \in StepsOf, c \in ChunksOf : InRecipe(a, s, c) <=> Emitted(a, s, c)

Emission == Outputs /\ LastOutput /\ Linked /\ Complete

(* The tracker, in an experiment with a pipeliner: a fresh pipeline up to  *)
(* the chunk, or the whole pipeline of the step before, amended.           *)
Running == pc \in {"upload", "wait", "execute"}
Filled == pc \in {"wait", "execute"} => \A a \in Awgs : chunk[a] = Chunks
Untouched(a) == step = 1 /\ chunk[a] = 0
Pipeline(a, list, n) ==
  /\ \A i \in 1 .. Len(list) : HasArtifact(a, list[i])
  /\ \/ n > 0 /\ Len(list) = n /\ Fresh(step)
     \/ /\ step > 1 /\ Len(list) = Chunks
        /\ n > 0 => ~Emitted(a, step, 0)
Tracking ==
  Running /\ Pipelined(experiment) =>
    \A a \in Awgs :
      Len(items[a]) = chunk[a] /\ (Untouched(a) \/ Pipeline(a, tracker[a], chunk[a]))

(* What the programs are, when compiler and controller agree.              *)
Agreeing == NeverReturns(experiment) /\ SimilarJobs(experiment)
Place(i, n) == IF i <= n THEN step ELSE step - 1
Of(a, ref, s, c) == Artifact(a, ref) = ProgramOf(experiment, a, s, c)
TrackedPrograms ==
  Running /\ Agreeing /\ Pipelined(experiment) =>
    \A a \in Awgs :
      /\ \A i \in 1 .. chunk[a] : Of(a, items[a][i], step, i - 1)
      /\ Untouched(a) \/ \A i \in 1 .. Len(tracker[a]) :
                           Of(a, tracker[a][i], Place(i, chunk[a]), i - 1)
UploadedPrograms ==
  pc \in {"wait", "execute"} /\ Agreeing =>
    \A a \in Awgs : memory[a] = [i \in 1 .. Chunks |-> ProgramOf(experiment, a, step, i - 1)]
KeptPrograms ==
  pc = "upload" /\ Agreeing /\ ~Pipelined(experiment) =>
    \A a \in Awgs :
      /\ items[a] = IF chunk[a] = 1 /\ Emitted(a, step, 0) THEN <<<<step, 0>>>> ELSE << >>
      /\ step > 1 => memory[a] = [i \in 1 .. 1 |-> ProgramOf(experiment, a, step - 1, 0)]

Playing == TrackedPrograms /\ UploadedPrograms /\ KeptPrograms

-----------------------------------------------------------------------------
LEMMA ExperimentFacts ==
  ASSUME NEW e \in Experiments
  PROVE  /\ e.chunks \in Nat /\ ChunkCount(e) \in Nat \ {0}
         /\ Len(e.sweep) \in Nat \ {0}
         /\ \A s \in 1 .. Len(e.sweep) : e.sweep[s] \in Values
         /\ \A a \in Awgs, s \in 1 .. Len(e.sweep), c \in 0 .. ChunkCount(e) - 1 :
              ProgramOf(e, a, s, c) \in Programs
         /\ ~Pipelined(e) => ChunkCount(e) = 1
<1>1. /\ e.chunks \in Nat /\ e.sweep \in Seq(Values) /\ e.sweep # << >>
      /\ e.program \in [Awgs -> [Values \X (0 .. ChunkCount(e) - 1) -> Programs]]
  BY ExperimentsAssumption
<1>2. e.chunks \in Nat /\ ChunkCount(e) \in Nat \ {0} /\ (~Pipelined(e) => ChunkCount(e) = 1)
  BY <1>1 DEF ChunkCount, Pipelined
<1>3. Len(e.sweep) \in Nat \ {0} /\ \A s \in 1 .. Len(e.sweep) : e.sweep[s] \in Values
  BY <1>1
<1>4. ASSUME NEW a \in Awgs, NEW s \in 1 .. Len(e.sweep), NEW c \in 0 .. ChunkCount(e) - 1
      PROVE  ProgramOf(e, a, s, c) \in Programs
  <2>1. <<e.sweep[s], c>> \in Values \X (0 .. ChunkCount(e) - 1)
    BY <1>3
  <2>2. e.program[a] \in [Values \X (0 .. ChunkCount(e) - 1) -> Programs]
    BY <1>1
  <2> QED
    BY <2>1, <2>2 DEF ProgramOf
<1> QED
  BY <1>2, <1>3, <1>4

(* The experiment that is compiled or run is one of Experiments.           *)
LEMMA CurrentExperiment ==
  ASSUME TypeOK, pc # "idle"
  PROVE  /\ experiment \in Experiments
         /\ Chunks \in Nat \ {0} /\ Len(experiment.sweep) \in Nat \ {0}
         /\ step \in StepsOf /\ index \in ChunksOf
         /\ \A s \in StepsOf : experiment.sweep[s] \in Values
         /\ \A a \in Awgs, s \in StepsOf, c \in ChunksOf :
              ProgramOf(experiment, a, s, c) \in Programs
         /\ ~Pipelined(experiment) => Chunks = 1
<1>1. experiment \in Experiments
  BY DEF TypeOK, ControlType, CompilerType, ControllerType, DeviceType
<1>2. /\ Chunks \in Nat \ {0} /\ Len(experiment.sweep) \in Nat \ {0}
      /\ \A s \in StepsOf : experiment.sweep[s] \in Values
      /\ \A a \in Awgs, s \in StepsOf, c \in ChunksOf :
           ProgramOf(experiment, a, s, c) \in Programs
      /\ ~Pipelined(experiment) => Chunks = 1
  BY <1>1, ExperimentFacts DEF Chunks, StepsOf, ChunksOf
<1>3. step \in StepsOf /\ index \in ChunksOf
  BY <1>2 DEF TypeOK, ControlType, CompilerType, ControllerType, DeviceType, StepsOf, ChunksOf
<1> QED
  BY <1>1, <1>2, <1>3

(* The tracker's answer: what its list becomes.                            *)
Amended(known, c, update, after) ==
  /\ c < Len(after) /\ NextStep(known, c, update) = after[c + 1]
  /\ update # None => after[c + 1] = update
  /\ update = None /\ c < Len(known) => after = known
  /\ update = None /\ c = Len(known) =>
       Len(after) = c + 1 /\ c > 0 /\ after[c + 1] = known[c]
  /\ update # None /\ c = 0 => Len(after) = 1
  /\ update # None /\ c > 0 /\ c = Len(known) => Len(after) = c + 1
  /\ update # None /\ c > 0 /\ c < Len(known) => Len(after) = Len(known)
  /\ c > 0 => \A i \in 1 .. Len(known) : i # c + 1 => after[i] = known[i]

LEMMA NextStepsFacts ==
  ASSUME NEW S, None \notin S, NEW known \in Seq(S), NEW c \in Nat, NEW update \in S \cup {None},
         Determined(known, c, update), c <= Len(known) \/ c = 0
  PROVE  LET after == NextSteps(known, c, update)
         IN  after \in Seq(S) /\ Amended(known, c, update, after)
<1> DEFINE after == NextSteps(known, c, update)
<1>0. Len(known) \in Nat /\ \A i \in 1 .. Len(known) : known[i] \in S
  OBVIOUS
<1>1. CASE update = None /\ c < Len(known)
  <2>1. after = known
    BY <1>1, <1>0 DEF NextSteps
  <2>2. NextStep(known, c, update) = after[c + 1]
    BY <1>1 DEF NextStep
  <2> QED
    BY <1>0, <1>1, <2>1, <2>2 DEF Amended
<1>2. CASE update = None /\ ~(c < Len(known))
  <2>1. c = Len(known) /\ c > 0
    BY <1>0, <1>2 DEF Determined
  <2>2. after = Append(known, known[c])
    BY <1>0, <1>2, <2>1 DEF NextSteps
  <2>3. known[c] \in S
    BY <1>0, <2>1
  <2>4. after \in Seq(S) /\ Len(after) = c + 1 /\ after[c + 1] = known[c]
        /\ \A i \in 1 .. Len(known) : after[i] = known[i]
    BY <2>1, <2>2, <2>3
  <2>5. NextStep(known, c, update) = after[c + 1]
    BY <1>2 DEF NextStep
  <2> QED
    BY <1>2, <2>1, <2>3, <2>4, <2>5 DEF Amended
<1>3. CASE update # None /\ c = 0
  <2>1. after = <<update>>
    BY <1>3 DEF NextSteps
  <2>2. update \in S
    BY <1>3
  <2>3. after \in Seq(S) /\ Len(after) = 1 /\ after[1] = update
    BY <2>1, <2>2
  <2>4. NextStep(known, c, update) = update
    BY <1>3 DEF NextStep
  <2> QED
    BY <1>3, <2>2, <2>3, <2>4 DEF Amended
<1>4. CASE update # None /\ c > 0 /\ c < Len(known)
  <2>1. after = [known EXCEPT ![c + 1] = update]
    BY <1>0, <1>4 DEF NextSteps
  <2>2. after \in Seq(S) /\ Len(after) = Len(known) /\ after[c + 1] = update
        /\ \A i \in 1 .. Len(known) : i # c + 1 => after[i] = known[i]
    BY <1>0, <1>4, <2>1
  <2> QED
    BY <1>4, <2>2 DEF NextStep, Amended
<1>5. CASE update # None /\ c > 0 /\ c = Len(known)
  <2>1. after = Append(known, update)
    BY <1>0, <1>5 DEF NextSteps
  <2>2. after \in Seq(S) /\ Len(after) = c + 1 /\ after[c + 1] = update
        /\ \A i \in 1 .. Len(known) : after[i] = known[i]
    BY <1>5, <2>1
  <2> QED
    BY <1>5, <2>2 DEF NextStep, Amended
<1> QED
  BY <1>0, <1>1, <1>2, <1>3, <1>4, <1>5

LEMMA NextStepsType ==
  ASSUME NEW S, None \notin S, NEW known \in Seq(S), NEW c \in Nat, NEW update \in S \cup {None},
         Determined(known, c, update)
  PROVE  NextSteps(known, c, update) \in Seq(S)
<1>1. CASE update = None
  <2>1. Len(known) \in Nat /\ known # << >>
    BY <1>1 DEF Determined
  <2>2. known[Len(known)] \in S
    BY <2>1
  <2> QED
    BY <1>1, <2>1, <2>2 DEF NextSteps
<1>2. CASE update # None
  <2>1. update \in S /\ Len(known) \in Nat
    BY <1>2
  <2>2. <<update>> \in Seq(S) /\ Append(known, update) \in Seq(S)
    BY <2>1
  <2>3. c < Len(known) => [known EXCEPT ![c + 1] = update] \in Seq(S)
    BY <2>1
  <2> QED
    BY <1>2, <2>1, <2>2, <2>3 DEF NextSteps
<1> QED
  BY <1>1, <1>2

(* One more iteration has been seen, or all of them.                       *)
LEMMA NextIterationFacts ==
  ASSUME TypeOK, pc = "compile", NextIteration, UNCHANGED experiment
  PROVE  /\ pc' \in {"compile", "ready"}
         /\ step' \in StepsOf /\ index' \in ChunksOf
         /\ pc' = "compile" =>
              /\ ~(step' = 1 /\ index' = 0)
              /\ \A s \in StepsOf, c \in ChunksOf :
                   Seen(s, c)' <=> (Seen(s, c) \/ (s = step /\ c = index))
              /\ \A a \in Awgs : Entering(a, step', index') = ProgramOf(experiment, a, step, index)
         /\ pc' = "ready" =>
              \A s \in StepsOf, c \in ChunksOf : Seen(s, c) \/ (s = step /\ c = index)
<1>1. /\ Chunks \in Nat \ {0} /\ Len(experiment.sweep) \in Nat \ {0}
      /\ step \in StepsOf /\ index \in ChunksOf
  BY CurrentExperiment
<1>2. CASE index + 1 < Chunks
  <2>1. index' = index + 1 /\ pc' = pc /\ step' = step
    BY <1>2 DEF NextIteration
  <2> QED
    BY <1>1, <1>2, <2>1 DEF Seen, Entering, StepsOf, ChunksOf
<1>3. CASE ~(index + 1 < Chunks) /\ step < Len(experiment.sweep)
  <2>1. index' = 0 /\ pc' = pc /\ step' = step + 1 /\ index = Chunks - 1
    BY <1>1, <1>3 DEF NextIteration, ChunksOf
  <2> QED
    BY <1>1, <1>3, <2>1 DEF Seen, Entering, StepsOf, ChunksOf
<1>4. CASE ~(index + 1 < Chunks) /\ ~(step < Len(experiment.sweep))
  <2>1. index' = 0 /\ pc' = "ready" /\ step' = step /\ index = Chunks - 1
        /\ step = Len(experiment.sweep)
    BY <1>1, <1>4 DEF NextIteration, ChunksOf, StepsOf
  <2> QED
    BY <1>1, <1>4, <2>1 DEF Seen, StepsOf, ChunksOf
<1> QED
  BY <1>2, <1>3, <1>4

-----------------------------------------------------------------------------
LEMMA OutputType ==
  ASSUME TypeOK, pc = "compile"
  PROVE  /\ CompilerOutput \in [Awgs -> Programs]
         /\ \A a \in Awgs : CompilerOutput[a] = ProgramOf(experiment, a, step, index)
         /\ RequestedValues \in Values \X ChunksOf
         /\ RequestedValues \in Values \X Nat
<1>1. \A a \in Awgs : ProgramOf(experiment, a, step, index) \in Programs
  BY CurrentExperiment
<1>2. RequestedValues \in Values \X ChunksOf /\ index \in Nat
  BY CurrentExperiment DEF RequestedValues, TypeOK, ControlType, CompilerType, ControllerType, DeviceType
<1> QED
  BY <1>1, <1>2 DEF CompilerOutput, ProgramOf, RequestedValues

LEMMA StepsForType ==
  ASSUME TypeOK, NEW awgs \in SUBSET Awgs
  PROVE  StepsFor(awgs) \subseteq [awg : Awgs, ref : Nat \X Nat]
  BY DEF StepsFor, TypeOK, ControlType, CompilerType, ControllerType, DeviceType

(* The reference of a chunk in the recipe, and what the tracker answers.   *)
LEMMA RecipeStepFacts ==
  ASSUME TypeOK, NEW a \in Awgs
  PROVE  /\ None \notin Nat \X Nat
         /\ <<step, chunk[a]>> \in Nat \X Nat
         /\ RecipeStep(a) \in (Nat \X Nat) \cup {None}
         /\ RecipeStep(a) # None <=> InRecipe(a, step, chunk[a])
         /\ RecipeStep(a) # None => RecipeStep(a) = <<step, chunk[a]>>
<1>1. None \notin Nat \X Nat
  BY NoneAssumption
<1>2. <<step, chunk[a]>> \in Nat \X Nat
  BY DEF TypeOK, ControlType, CompilerType, ControllerType, DeviceType
<1> QED
  BY <1>1, <1>2 DEF RecipeStep, InRecipe

(* The references of the recipe and of the programs to upload are those of *)
(* the current experiment.                                                 *)
Referring ==
  /\ pc # "idle" => \A r \in recipe : r.ref[1] \in StepsOf /\ r.ref[2] \in ChunksOf
  /\ pc = "upload" => \A a \in Awgs : \A i \in 1 .. Len(items[a]) : HasArtifact(a, items[a][i])
TypeInv == TypeOK /\ Referring

LEMMA ArtifactType ==
  ASSUME TypeInv, pc # "idle", NEW a \in Awgs, NEW ref, HasArtifact(a, ref)
  PROVE  Artifact(a, ref) \in Programs
<1>1. ref[1] \in StepsOf /\ ref[2] \in ChunksOf
  BY DEF HasArtifact, TypeInv, Referring
<1> QED
  BY <1>1, CurrentExperiment DEF Artifact, TypeInv

LEMMA CompilerStepType ==
  ASSUME TypeInv, pc = "compile", NextIteration, UNCHANGED <<runs, experiment>>,
         UNCHANGED <<controllerVars, deviceVars>>, last' = CompilerOutput,
         compiled' \subseteq compiled \cup {RequestedValues},
         NEW awgs \in SUBSET Awgs, recipe' \subseteq recipe \cup StepsFor(awgs)
  PROVE  TypeInv'
<1>1. pc' \in {"compile", "ready"} /\ step' \in StepsOf /\ index' \in ChunksOf
  BY NextIterationFacts DEF TypeInv
<1>2. /\ Chunks \in Nat /\ Len(experiment.sweep) \in Nat
      /\ step \in StepsOf /\ index \in ChunksOf /\ Chunks' = Chunks
  BY CurrentExperiment DEF TypeInv, Chunks
<1>3. ControlType'
  BY <1>1, <1>2 DEF TypeInv, TypeOK, ControlType, StepsOf
<1>4. CompilerType'
  <2>1. CompilerOutput \in [Awgs -> Programs] /\ RequestedValues \in Values \X Nat
    BY OutputType DEF TypeInv
  <2>2. StepsFor(awgs) \subseteq [awg : Awgs, ref : Nat \X Nat]
    BY StepsForType DEF TypeInv
  <2> QED
    BY <1>1, <1>2, <2>1, <2>2 DEF TypeInv, TypeOK, CompilerType, ChunksOf
<1>5. ControllerType' /\ DeviceType'
  BY <1>1 DEF TypeInv, TypeOK, ControllerType, DeviceType, controllerVars, deviceVars
<1>6. Referring'
  <2>1. \A r \in recipe' : r.ref[1] \in StepsOf /\ r.ref[2] \in ChunksOf
    BY <1>2 DEF StepsFor, TypeInv, Referring
  <2> QED
    BY <1>1, <1>2, <2>1 DEF Referring, StepsOf, ChunksOf
<1> QED
  BY <1>3, <1>4, <1>5, <1>6 DEF TypeInv, TypeOK

(* Every variable of the model has its type, whatever the experiments.     *)
THEOREM Typing == Spec => []TypeOK
<1>1. Init => TypeInv
  BY BoundsAssumption
  DEF Init, TypeInv, TypeOK, ControlType, CompilerType, ControllerType, DeviceType,
      Referring, FirstChunk
<1>2. TypeInv /\ [Next]_vars => TypeInv'
  <2> SUFFICES ASSUME TypeInv, [Next]_vars PROVE TypeInv'
    OBVIOUS
  <2>0. TypeOK /\ Referring /\ ControlType /\ CompilerType /\ ControllerType /\ DeviceType
    BY DEF TypeInv, TypeOK
  <2>1. ASSUME NEW e \in Experiments, Compile(e) PROVE TypeInv'
    <3>1. Len(e.sweep) \in Nat \ {0} /\ ChunkCount(e) \in Nat \ {0}
      BY ExperimentFacts
    <3>2. e # None
      BY NoneAssumption
    <3>3. ControlType' /\ CompilerType'
      BY <2>0, <2>1, <3>1, <3>2 DEF Compile, ControlType, CompilerType, Chunks
    <3>4. ControllerType' /\ DeviceType' /\ Referring'
      BY <2>0, <2>1 DEF Compile, ControllerType, DeviceType, Referring, controllerVars, deviceVars
    <3> QED
      BY <3>3, <3>4 DEF TypeInv, TypeOK
  <2>2. ASSUME SkipCompilation PROVE TypeInv'
    <3>1. /\ UNCHANGED <<runs, experiment>> /\ UNCHANGED <<controllerVars, deviceVars>>
          /\ compiled' \subseteq compiled \cup {RequestedValues}
          /\ recipe' \subseteq recipe \cup StepsFor({})
      BY <2>2 DEF SkipCompilation
    <3> QED
      BY <2>2, <3>1, CompilerStepType DEF SkipCompilation
  <2>3. ASSUME FromSingleRun PROVE TypeInv'
    <3>1. /\ UNCHANGED <<runs, experiment>> /\ UNCHANGED <<controllerVars, deviceVars>>
          /\ compiled' \subseteq compiled \cup {RequestedValues}
          /\ recipe' \subseteq recipe \cup StepsFor(Awgs)
      BY <2>3 DEF FromSingleRun
    <3> QED
      BY <2>3, <3>1, CompilerStepType DEF FromSingleRun
  <2>4. ASSUME MergeCompilerRuns PROVE TypeInv'
    <3>1. CASE Changed \subseteq WithCommandTable
      <4>1. /\ UNCHANGED <<runs, experiment>> /\ UNCHANGED <<controllerVars, deviceVars>>
            /\ compiled' \subseteq compiled \cup {RequestedValues}
            /\ recipe' \subseteq recipe \cup StepsFor(Changed)
            /\ Changed \in SUBSET Awgs
        BY <2>4, <3>1 DEF MergeCompilerRuns, Changed
      <4> QED
        BY <2>4, <3>1, <4>1, CompilerStepType DEF MergeCompilerRuns
    <3>2. CASE ~(Changed \subseteq WithCommandTable)
      BY <2>0, <2>4, <3>2
      DEF MergeCompilerRuns, TypeInv, TypeOK, ControlType, CompilerType, ControllerType,
          DeviceType, Referring, compilerVars, controllerVars, deviceVars
    <3> QED
      BY <3>1, <3>2
  <2>5. ASSUME Run PROVE TypeInv'
    <3>1. /\ Chunks \in Nat \ {0} /\ Len(experiment.sweep) \in Nat \ {0} /\ pc = "ready"
          /\ Chunks' = Chunks /\ StepsOf' = StepsOf /\ ChunksOf' = ChunksOf
      BY <2>0, <2>5, CurrentExperiment DEF Run, Chunks, StepsOf, ChunksOf
    <3>2. ControlType' /\ CompilerType'
      BY <2>0, <2>5, <3>1, BoundsAssumption
      DEF Run, BeginStep, ControlType, CompilerType, compilerVars
    <3>3. ControllerType' /\ DeviceType'
      BY <2>0, <2>5, <3>1
      DEF Run, BeginStep, FirstChunk, ControllerType, DeviceType, deviceVars
    <3>4. Referring'
      BY <2>0, <2>5, <3>1 DEF Run, BeginStep, Referring, compilerVars
    <3> QED
      BY <3>2, <3>3, <3>4 DEF TypeInv, TypeOK
  <2>6. ASSUME NEW a \in Awgs, PrepareStep(a) PROVE TypeInv'
    <3>1. Chunks \in Nat \ {0} /\ chunk[a] < Chunks /\ pc = "upload" /\ pc' = pc
      BY <2>0, <2>6, CurrentExperiment DEF PrepareStep, AtItem
    <3>2. /\ chunk' = [chunk EXCEPT ![a] = @ + 1]
          /\ UNCHANGED <<runs, experiment, compilerVars, step, tracker, slots, deviceVars>>
      BY <2>6 DEF PrepareStep, AddItem
    <3>3. /\ items' \in [Awgs -> Seq(Nat \X Nat)]
          /\ \A b \in Awgs : \A i \in 1 .. Len(items'[b]) : HasArtifact(b, items'[b][i])
      <4>1. CASE RecipeStep(a) = None
        BY <2>0, <2>6, <3>1, <4>1 DEF PrepareStep, ControllerType, Referring
      <4>2. CASE RecipeStep(a) # None
        <5> DEFINE ref == RecipeStep(a)
        <5>1. ref \in Nat \X Nat /\ HasArtifact(a, ref)
          BY <2>0, <4>2, RecipeStepFacts DEF HasArtifact, InRecipe
        <5>2. items' = [items EXCEPT ![a] = Append(@, ref)]
          BY <2>6, <4>2 DEF PrepareStep, AddItem
        <5>3. items[a] \in Seq(Nat \X Nat)
          BY <2>0 DEF ControllerType
        <5> HIDE DEF ref
        <5>4. Append(items[a], ref) \in Seq(Nat \X Nat)
          BY <5>1, <5>3
        <5>5. \A i \in 1 .. Len(Append(items[a], ref)) : HasArtifact(a, Append(items[a], ref)[i])
          BY <2>0, <3>1, <5>1, <5>3 DEF Referring
        <5> QED
          BY <2>0, <3>1, <5>2, <5>4, <5>5 DEF ControllerType, Referring
      <4> QED
        BY <4>1, <4>2
    <3>4. chunk' \in [Awgs -> Nat] /\ \A b \in Awgs : chunk'[b] <= Chunks
      BY <2>0, <3>1, <3>2 DEF ControllerType
    <3>5. ControlType' /\ CompilerType' /\ DeviceType' /\ Chunks' = Chunks
      BY <2>0, <3>1, <3>2 DEF ControlType, CompilerType, DeviceType, Chunks, compilerVars, deviceVars
    <3>6. ControllerType'
      BY <2>0, <3>2, <3>3, <3>4, <3>5 DEF ControllerType
    <3>7. Referring'
      BY <2>0, <3>1, <3>2, <3>3, <3>5
      DEF Referring, HasArtifact, StepsOf, ChunksOf, compilerVars
    <3> QED
      BY <3>5, <3>6, <3>7 DEF TypeInv, TypeOK
  <2>7. ASSUME NEW a \in Awgs, PrepareChunk(a) PROVE TypeInv'
    <3> DEFINE known == tracker[a]
               c == chunk[a]
               update == RecipeStep(a)
               ref == NextStep(known, c, update)
    <3>1. /\ Chunks \in Nat \ {0} /\ c < Chunks /\ pc = "upload"
          /\ UNCHANGED <<runs, experiment, compilerVars, step, slots, deviceVars>>
      BY <2>0, <2>7, CurrentExperiment DEF PrepareChunk, AtItem
    <3>2. /\ update \in (Nat \X Nat) \cup {None} /\ None \notin Nat \X Nat
          /\ known \in Seq(Nat \X Nat) /\ c \in Nat
      BY <2>0, RecipeStepFacts DEF ControllerType
    <3>3. CompilerType' /\ DeviceType' /\ Chunks' = Chunks /\ StepsOf' = StepsOf /\ ChunksOf' = ChunksOf
      BY <2>0, <2>7, <3>1
      DEF CompilerType, DeviceType, Chunks, StepsOf, ChunksOf, compilerVars, deviceVars
    <3>4. CASE pc' = "failed" /\ UNCHANGED <<items, chunk>>
      <4>1. tracker' \in [Awgs -> Seq(Nat \X Nat)]
        <5>1. CASE ~Determined(known, c, update)
          BY <2>0, <2>7, <5>1 DEF PrepareChunk, ControllerType
        <5>2. CASE Determined(known, c, update)
          <6>1. tracker' = [tracker EXCEPT ![a] = NextSteps(known, c, update)]
            BY <2>7, <5>2 DEF PrepareChunk
          <6>2. NextSteps(known, c, update) \in Seq(Nat \X Nat)
            <7> HIDE DEF known, c, update
            <7> QED
              BY <3>2, <5>2, NextStepsType
          <6> QED
            BY <2>0, <6>1, <6>2 DEF ControllerType
        <5> QED
          BY <5>1, <5>2
      <4>2. ControlType' /\ ControllerType'
        BY <2>0, <3>1, <3>4, <4>1 DEF ControlType, ControllerType
      <4>3. Referring'
        BY <2>0, <3>1, <3>3, <3>4 DEF Referring, compilerVars
      <4> QED
        BY <3>3, <4>2, <4>3 DEF TypeInv, TypeOK
    <3>5. CASE ~(pc' = "failed" /\ UNCHANGED <<items, chunk>>)
      <4>1. /\ Determined(known, c, update) /\ HasArtifact(a, ref)
            /\ tracker' = [tracker EXCEPT ![a] = NextSteps(known, c, update)]
            /\ items' = [items EXCEPT ![a] = Append(@, ref)]
            /\ chunk' = [chunk EXCEPT ![a] = @ + 1] /\ pc' = pc
        BY <2>7, <3>5 DEF PrepareChunk, AddItem
      <4>2. NextSteps(known, c, update) \in Seq(Nat \X Nat)
        <5> HIDE DEF known, c, update
        <5> QED
          BY <3>2, <4>1, NextStepsType
      <4>3. ref \in Nat \X Nat
        BY <2>0, <4>1 DEF HasArtifact, CompilerType
      <4>4. items[a] \in Seq(Nat \X Nat)
        BY <2>0 DEF ControllerType
      <4> HIDE DEF ref
      <4>5. Append(items[a], ref) \in Seq(Nat \X Nat)
        BY <4>3, <4>4
      <4>6. \A i \in 1 .. Len(Append(items[a], ref)) : HasArtifact(a, Append(items[a], ref)[i])
        <5>1. \A i \in 1 .. Len(items[a]) : HasArtifact(a, items[a][i])
          BY <2>0, <3>1 DEF Referring
        <5>2. HasArtifact(a, ref)
          BY <4>1
        <5> QED
          BY <4>3, <4>4, <5>1, <5>2
      <4>7. tracker' \in [Awgs -> Seq(Nat \X Nat)] /\ items' \in [Awgs -> Seq(Nat \X Nat)]
        BY <2>0, <4>1, <4>2, <4>5 DEF ControllerType
      <4>8. chunk' \in [Awgs -> Nat] /\ \A b \in Awgs : chunk'[b] <= Chunks
        BY <2>0, <3>1, <4>1 DEF ControllerType
      <4>9. ControlType'
        BY <2>0, <3>1, <4>1 DEF ControlType
      <4>10. ControllerType'
        BY <2>0, <3>1, <3>3, <4>7, <4>8 DEF ControllerType
      <4>11. \A b \in Awgs : \A i \in 1 .. Len(items'[b]) : HasArtifact(b, items'[b][i])
        BY <2>0, <3>1, <4>1, <4>6 DEF Referring, ControllerType
      <4>12. Referring'
        BY <2>0, <3>1, <3>3, <4>11 DEF Referring, HasArtifact, compilerVars
      <4> QED
        BY <3>3, <4>9, <4>10, <4>12 DEF TypeInv, TypeOK
    <3> QED
      BY <3>4, <3>5
  <2>8. ASSUME NEW a \in Awgs, PipelinerCommitted(a) PROVE TypeInv'
    <3>1. /\ UNCHANGED <<pc, runs, experiment, compilerVars, step, controllerVars, memory>>
          /\ pending[a] \in Nat \ {0} /\ available[a] \in Int
          /\ pending' = [pending EXCEPT ![a] = @ - 1]
          /\ available' = [available EXCEPT ![a] = @ - 1]
      BY <2>0, <2>8 DEF PipelinerCommitted, DeviceType
    <3>2. DeviceType'
      BY <2>0, <3>1 DEF DeviceType
    <3>3. ControlType' /\ CompilerType' /\ ControllerType' /\ Referring'
      BY <2>0, <3>1
      DEF ControlType, CompilerType, ControllerType, Referring, Chunks, StepsOf, ChunksOf,
          HasArtifact, compilerVars, controllerVars
    <3> QED
      BY <3>2, <3>3 DEF TypeInv, TypeOK
  <2>9. ASSUME Upload \/ UploadToPipeliner PROVE TypeInv'
    <3>1. [a \in Awgs |-> Len(items[a])] \in [Awgs -> Nat]
      BY <2>0 DEF ControllerType
    <3>2. pc = "upload" /\ UNCHANGED <<runs, experiment, compilerVars, step, chunk, tracker, items>>
      BY <2>9 DEF Upload, UploadToPipeliner, Prepared, controllerVars
    <3>3. ASSUME NEW a \in Awgs PROVE Contents(a) \in Seq(Programs)
      <4>1. \A i \in 1 .. Len(items[a]) : Artifact(a, items[a][i]) \in Programs
        BY <2>0, <3>2, ArtifactType DEF Referring
      <4>2. Len(items[a]) \in Nat
        BY <3>1
      <4> QED
        BY <4>1, <4>2 DEF Contents
    <3>4. DeviceType'
      <4>1. \A a \in Awgs : memory[a] \in Seq(Programs)
        BY <2>0 DEF DeviceType
      <4>2. CASE Upload
        <5>1. /\ memory' = [a \in Awgs |-> IF items[a] = << >> THEN memory[a] ELSE Contents(a)]
              /\ UNCHANGED <<available, pending>>
          BY <4>2 DEF Upload
        <5> QED
          BY <2>0, <3>3, <4>1, <5>1 DEF DeviceType
      <4>3. CASE UploadToPipeliner
        <5>1. /\ memory' = [a \in Awgs |-> Contents(a)]
              /\ available' = [a \in Awgs |-> MaxSlots]
              /\ pending' = [a \in Awgs |-> Len(items[a])]
          BY <4>3 DEF UploadToPipeliner
        <5>2. memory' \in [Awgs -> Seq(Programs)]
          BY <3>3, <5>1
        <5>3. available' \in [Awgs -> Int] /\ pending' \in [Awgs -> Nat]
          BY <3>1, <5>1, BoundsAssumption
        <5> QED
          BY <5>2, <5>3 DEF DeviceType
      <4> QED
        BY <2>9, <4>2, <4>3
    <3>5. pc' \in {"wait", "execute"} /\ slots' \in [Awgs -> Nat]
      BY <2>0, <2>9, <3>1
      DEF Upload, UploadToPipeliner, SlotsUsed, ControllerType, controllerVars
    <3>6. ControlType' /\ CompilerType' /\ ControllerType' /\ Referring'
      BY <2>0, <3>2, <3>5
      DEF ControlType, CompilerType, ControllerType, Referring, Chunks, StepsOf, ChunksOf,
          compilerVars
    <3> QED
      BY <3>4, <3>6 DEF TypeInv, TypeOK
  <2>10. ASSUME WaitForUpload \/ Stop PROVE TypeInv'
    <3>1. /\ pc # "idle" /\ pc' \in {"execute", "failed", "ready"}
          /\ pc' = "execute" => pc = "wait"
          /\ UNCHANGED <<runs, experiment, compilerVars, step, controllerVars, deviceVars>>
      BY <2>10 DEF WaitForUpload, Stop
    <3> QED
      BY <2>0, <3>1
      DEF TypeInv, TypeOK, ControlType, CompilerType, ControllerType, DeviceType, Referring,
          Chunks, StepsOf, ChunksOf, compilerVars, controllerVars, deviceVars
  <2>11. ASSUME StepDone PROVE TypeInv'
    <3>1. /\ Chunks \in Nat \ {0} /\ Len(experiment.sweep) \in Nat \ {0} /\ pc = "execute"
          /\ UNCHANGED <<runs, experiment, compilerVars, tracker, slots, deviceVars>>
          /\ Chunks' = Chunks /\ StepsOf' = StepsOf /\ ChunksOf' = ChunksOf
      BY <2>0, <2>11, CurrentExperiment DEF StepDone, Chunks, StepsOf, ChunksOf
    <3>2. CompilerType' /\ DeviceType'
      BY <2>0, <2>11, <3>1
      DEF CompilerType, DeviceType, compilerVars, deviceVars
    <3>3. CASE step < Len(experiment.sweep)
      <4>1. pc' = "upload" /\ step' = step + 1 /\ chunk' = FirstChunk /\ items' = [a \in Awgs |-> << >>]
        BY <2>11, <3>3 DEF StepDone, BeginStep
      <4>2. ControlType' /\ ControllerType'
        BY <2>0, <3>1, <3>3, <4>1 DEF ControlType, ControllerType, FirstChunk
      <4>3. Referring'
        BY <2>0, <3>1, <4>1 DEF Referring, compilerVars
      <4> QED
        BY <3>2, <4>2, <4>3 DEF TypeInv, TypeOK
    <3>4. CASE ~(step < Len(experiment.sweep))
      <4>1. pc' = "ready" /\ UNCHANGED <<step, chunk, items>>
        BY <2>11, <3>4 DEF StepDone
      <4>2. ControlType' /\ ControllerType' /\ Referring'
        BY <2>0, <3>1, <4>1 DEF ControlType, ControllerType, Referring, compilerVars
      <4> QED
        BY <3>2, <4>2 DEF TypeInv, TypeOK
    <3> QED
      BY <3>3, <3>4
  <2>12. ASSUME UNCHANGED vars PROVE TypeInv'
    BY <2>0, <2>12
    DEF vars, TypeInv, TypeOK, ControlType, CompilerType, ControllerType, DeviceType, Referring,
        HasArtifact, Chunks, StepsOf, ChunksOf, compilerVars, controllerVars, deviceVars
  <2> QED
    BY <2>1, <2>2, <2>3, <2>4, <2>5, <2>6, <2>7, <2>8, <2>9, <2>10, <2>11, <2>12 DEF Next
<1>3. TypeInv => TypeOK
  BY DEF TypeInv
<1> QED
  BY <1>1, <1>2, <1>3, PTL DEF Spec

-----------------------------------------------------------------------------
(* The slots of an upload: what the controller waits for is what the       *)
(* device reports after the last commit (UploadIsAcknowledged), for any    *)
(* number of AWGs, programs and slots.                                     *)
THEOREM Acknowledged == Spec => []UploadIsAcknowledged
<1>1. Init => UploadIsAcknowledged
  BY DEF Init, UploadIsAcknowledged
<1>2. TypeOK /\ UploadIsAcknowledged /\ [Next]_vars => UploadIsAcknowledged'
  <2> SUFFICES ASSUME TypeOK, UploadIsAcknowledged, [Next]_vars, pc' = "wait", NEW a \in Awgs
               PROVE  available'[a] - pending'[a] = MaxSlots - slots'[a]
    BY DEF UploadIsAcknowledged
  <2>0. available[a] \in Int /\ pending[a] \in Nat /\ Len(items[a]) \in Nat
    BY DEF TypeOK, DeviceType, ControllerType
  <2>1. CASE UploadToPipeliner
    <3>1. /\ slots'[a] = Len(items[a]) /\ available'[a] = MaxSlots
          /\ pending'[a] = Len(items[a])
      BY <2>1 DEF UploadToPipeliner, SlotsUsed
    <3> QED
      BY <3>1
  <2>2. ASSUME NEW b \in Awgs, PipelinerCommitted(b)
        PROVE  available'[a] - pending'[a] = MaxSlots - slots'[a]
    <3>1. /\ pc = "wait" /\ slots' = slots /\ pending[b] \in Nat /\ available[b] \in Int
          /\ pending' = [pending EXCEPT ![b] = @ - 1]
          /\ available' = [available EXCEPT ![b] = @ - 1]
      BY <2>2 DEF PipelinerCommitted, controllerVars, TypeOK, DeviceType
    <3>2. available[a] - pending[a] = MaxSlots - slots[a]
      BY <3>1 DEF UploadIsAcknowledged
    <3>3. CASE a = b
      <4>1. pending'[a] = pending[a] - 1 /\ available'[a] = available[a] - 1
        BY <3>1, <3>3 DEF TypeOK, DeviceType
      <4> QED
        BY <2>0, <3>1, <3>2, <4>1
    <3>4. CASE a # b
      <4>1. pending'[a] = pending[a] /\ available'[a] = available[a]
        BY <3>1, <3>4 DEF TypeOK, DeviceType
      <4> QED
        BY <3>1, <3>2, <4>1
    <3> QED
      BY <3>3, <3>4
  <2>3. ASSUME NEW b \in Awgs, PrepareStep(b) \/ PrepareChunk(b) PROVE FALSE
    BY <2>3 DEF PrepareStep, PrepareChunk, AtItem
  <2>4. CASE SkipCompilation \/ FromSingleRun \/ MergeCompilerRuns
    BY <2>4 DEF SkipCompilation, FromSingleRun, MergeCompilerRuns, NextIteration
  <2>5. CASE Run \/ Upload \/ WaitForUpload \/ StepDone \/ Stop \/ \E e \in Experiments : Compile(e)
    BY <2>5 DEF Run, BeginStep, Upload, WaitForUpload, StepDone, Stop, Compile
  <2>6. CASE UNCHANGED vars
    BY <2>6 DEF UploadIsAcknowledged, vars, controllerVars, deviceVars
  <2> QED
    BY <2>1, <2>2, <2>3, <2>4, <2>5, <2>6 DEF Next
<1> QED
  BY <1>1, <1>2, Typing, PTL DEF Spec

-----------------------------------------------------------------------------
(***************************************************************************)
(* The compiler: a step of the recipe for each iteration of an AWG whose   *)
(* value has not been seen before and whose program is not the one that    *)
(* the AWG enters the iteration with.                                      *)
(***************************************************************************)

(* An iteration is skipped exactly when its value has been visited before. *)
LEMMA Lookup ==
  ASSUME TypeOK, Outputs, pc = "compile"
  PROVE  RequestedValues \in compiled <=> ~Fresh(step)
<1>1. /\ step \in StepsOf /\ index \in ChunksOf /\ Len(experiment.sweep) \in Nat
      /\ \A s \in StepsOf : experiment.sweep[s] \in Values
  BY CurrentExperiment
<1>2. RequestedValues \in compiled <=>
        \E t \in StepsOf : experiment.sweep[t] = experiment.sweep[step] /\ Seen(t, index)
  BY <1>1 DEF RequestedValues, Outputs
<1>3. \A t \in StepsOf : Seen(t, index) <=> t \in 1 .. step - 1
  BY <1>1 DEF Seen, StepsOf, ChunksOf
<1>4. \A t \in 1 .. step - 1 : t \in StepsOf
  BY <1>1 DEF StepsOf
<1> QED
  BY <1>2, <1>3, <1>4 DEF Fresh

LEMMA CompilerStep ==
  ASSUME TypeOK, Emission, pc = "compile", NextIteration, UNCHANGED experiment,
         last' = CompilerOutput, compiled' = compiled \cup {RequestedValues},
         \A a \in Awgs, s \in StepsOf, c \in ChunksOf :
           InRecipe(a, s, c)' <=>
             (InRecipe(a, s, c) \/ (s = step /\ c = index /\ Emitted(a, step, index)))
  PROVE  Emission'
<1>1. /\ pc' \in {"compile", "ready"}
      /\ pc' = "compile" =>
           /\ ~(step' = 1 /\ index' = 0)
           /\ \A s \in StepsOf, c \in ChunksOf :
                Seen(s, c)' <=> (Seen(s, c) \/ (s = step /\ c = index))
           /\ \A a \in Awgs : Entering(a, step', index') = ProgramOf(experiment, a, step, index)
      /\ pc' = "ready" =>
           \A s \in StepsOf, c \in ChunksOf : Seen(s, c) \/ (s = step /\ c = index)
  BY NextIterationFacts
<1>2. StepsOf' = StepsOf /\ ChunksOf' = ChunksOf /\ Chunks' = Chunks
  BY DEF StepsOf, ChunksOf, Chunks
<1>3. step \in StepsOf /\ index \in ChunksOf
  BY CurrentExperiment
<1>4. Outputs'
  <2> SUFFICES ASSUME pc' = "compile", NEW v \in Values, NEW c \in ChunksOf
               PROVE  <<v, c>> \in compiled' <=>
                        \E t \in StepsOf : experiment.sweep[t] = v /\ Seen(t, c)'
    BY <1>2 DEF Outputs
  <2>1. <<v, c>> \in compiled <=> \E t \in StepsOf : experiment.sweep[t] = v /\ Seen(t, c)
    BY DEF Emission, Outputs
  <2>2. <<v, c>> = RequestedValues <=> (experiment.sweep[step] = v /\ c = index)
    BY DEF RequestedValues
  <2>3. \A t \in StepsOf : Seen(t, c)' <=> (Seen(t, c) \/ (t = step /\ c = index))
    BY <1>1
  <2> QED
    BY <1>3, <2>1, <2>2, <2>3
<1>5. LastOutput'
  <2>1. CompilerOutput \in [Awgs -> Programs] /\ CompilerOutput # None
        /\ \A a \in Awgs : CompilerOutput[a] = ProgramOf(experiment, a, step, index)
    BY OutputType, NoneAssumption
  <2>2. \A a \in Awgs : \A s, c : Entering(a, s, c)' = Entering(a, s', c')
    BY <1>2 DEF Entering
  <2> QED
    BY <1>1, <1>2, <2>1 DEF LastOutput, Entering
<1>6. \A a \in Awgs, s \in StepsOf, c \in ChunksOf : Emitted(a, s, c)' <=> Emitted(a, s, c)
  BY <1>2 DEF Emitted, Entering, Fresh
<1>7. \A a \in Awgs, s \in StepsOf, c \in ChunksOf :
        InRecipe(a, s, c)' <=>
          ((Seen(s, c) \/ (s = step /\ c = index)) /\ Emitted(a, s, c))
  BY DEF Emission, Linked
<1>8. Linked' /\ Complete'
  BY <1>1, <1>2, <1>6, <1>7 DEF Linked, Complete
<1> QED
  BY <1>4, <1>5, <1>8 DEF Emission

LEMMA Compiled == Spec => []Emission
<1>1. Init => Emission
  BY DEF Init, Emission, Outputs, LastOutput, Linked, Complete
<1>2. TypeOK /\ Emission /\ [Next]_vars => Emission'
  <2> SUFFICES ASSUME TypeOK, Emission, [Next]_vars PROVE Emission'
    OBVIOUS
  <2>1. ASSUME NEW e \in Experiments, Compile(e) PROVE Emission'
    <3>1. /\ pc' = "compile" /\ experiment' = e /\ compiled' = {} /\ last' = None
          /\ recipe' = {} /\ step' = 1 /\ index' = 0
      BY <2>1 DEF Compile
    <3>2. Len(e.sweep) \in Nat /\ ChunkCount(e) \in Nat
      BY ExperimentFacts
    <3>3. \A s \in StepsOf', c \in ChunksOf' : ~Seen(s, c)'
      BY <3>1, <3>2 DEF StepsOf, ChunksOf, Chunks, Seen
    <3> QED
      BY <3>1, <3>3 DEF Emission, Outputs, LastOutput, Linked, Complete, InRecipe
  <2>2. ASSUME SkipCompilation PROVE Emission'
    <3>1. /\ pc = "compile" /\ NextIteration /\ UNCHANGED <<experiment, recipe>>
          /\ last' = CompilerOutput /\ RequestedValues \in compiled /\ compiled' = compiled
      BY <2>2 DEF SkipCompilation
    <3>2. compiled' = compiled \cup {RequestedValues}
      BY <3>1
    <3>3. step \in Nat \ {0} /\ ~Fresh(step)
      BY <3>1, Lookup DEF Emission, TypeOK, ControlType
    <3>4. step # 1
      BY <3>3 DEF Fresh
    <3>5. \A a \in Awgs : ~Emitted(a, step, index)
      BY <3>3, <3>4 DEF Emitted
    <3>6. \A a \in Awgs, s \in StepsOf, c \in ChunksOf : InRecipe(a, s, c)' <=> InRecipe(a, s, c)
      BY <3>1 DEF InRecipe
    <3> QED
      BY <3>1, <3>2, <3>5, <3>6, CompilerStep
  <2>3. ASSUME FromSingleRun PROVE Emission'
    <3>1. /\ pc = "compile" /\ NextIteration /\ UNCHANGED experiment
          /\ last' = CompilerOutput /\ last = None
          /\ compiled' = compiled \cup {RequestedValues} /\ recipe' = StepsFor(Awgs)
      BY <2>3 DEF FromSingleRun
    <3>2. step = 1 /\ index = 0
      BY <3>1 DEF Emission, LastOutput
    <3>3. \A s \in StepsOf, c \in ChunksOf : ~Seen(s, c)
      BY <3>1, <3>2, CurrentExperiment DEF Seen, StepsOf, ChunksOf
    <3>4. \A a \in Awgs, s \in StepsOf, c \in ChunksOf : ~InRecipe(a, s, c)
      BY <3>1, <3>3 DEF Emission, Linked
    <3>5. \A a \in Awgs : Emitted(a, step, index)
      BY <3>2 DEF Emitted
    <3>6. \A a \in Awgs : \A s, c : InRecipe(a, s, c)' <=> (s = step /\ c = index)
      BY <3>1 DEF InRecipe, StepsFor
    <3> QED
      BY <3>1, <3>4, <3>5, <3>6, CompilerStep
  <2>4. ASSUME MergeCompilerRuns PROVE Emission'
    <3>1. CASE Changed \subseteq WithCommandTable
      <4>1. /\ pc = "compile" /\ NextIteration /\ UNCHANGED experiment
            /\ last' = CompilerOutput /\ last # None /\ RequestedValues \notin compiled
            /\ compiled' = compiled \cup {RequestedValues}
            /\ recipe' = recipe \cup StepsFor(Changed)
        BY <2>4, <3>1 DEF MergeCompilerRuns
      <4>2. Fresh(step) /\ ~(step = 1 /\ index = 0)
        BY <4>1, Lookup DEF Emission, LastOutput
      <4>3. \A a \in Awgs : a \in Changed <=> Emitted(a, step, index)
        BY <4>1, <4>2, OutputType DEF Changed, Emitted, Emission, LastOutput
      <4>4. \A a \in Awgs : \A s, c :
              InRecipe(a, s, c)' <=> (InRecipe(a, s, c) \/ (s = step /\ c = index /\ a \in Changed))
        BY <4>1 DEF InRecipe, StepsFor
      <4> QED
        BY <4>1, <4>3, <4>4, CompilerStep
    <3>2. CASE ~(Changed \subseteq WithCommandTable)
      <4>1. pc' = "idle"
        BY <2>4, <3>2 DEF MergeCompilerRuns
      <4> QED
        BY <4>1 DEF Emission, Outputs, LastOutput, Linked, Complete
    <3> QED
      BY <3>1, <3>2
  <2>5. ASSUME UNCHANGED <<experiment, recipe>>,
               pc \notin {"idle", "compile"}, pc' \notin {"idle", "compile"}
        PROVE  Emission'
    <3>1. /\ StepsOf' = StepsOf /\ ChunksOf' = ChunksOf
          /\ \A a \in Awgs, s \in StepsOf, c \in ChunksOf :
               /\ Emitted(a, s, c)' <=> Emitted(a, s, c)
               /\ InRecipe(a, s, c)' <=> InRecipe(a, s, c)
      BY <2>5 DEF Chunks, StepsOf, ChunksOf, Emitted, Entering, Fresh, InRecipe
    <3> QED
      BY <2>5, <3>1 DEF Emission, Outputs, LastOutput, Linked, Complete
  <2>6. ASSUME Run \/ Upload \/ UploadToPipeliner \/ WaitForUpload \/ StepDone \/ Stop
        PROVE  Emission'
    <3>1. /\ UNCHANGED <<experiment, recipe>>
          /\ pc \notin {"idle", "compile"} /\ pc' \notin {"idle", "compile"}
      BY <2>6
      DEF Run, BeginStep, Upload, UploadToPipeliner, Prepared, WaitForUpload, StepDone, Stop,
          compilerVars
    <3> QED
      BY <2>5, <3>1
  <2>7. ASSUME NEW a \in Awgs, PrepareStep(a) \/ PrepareChunk(a) PROVE Emission'
    <3>1. /\ UNCHANGED <<experiment, recipe>>
          /\ pc \notin {"idle", "compile"} /\ pc' \notin {"idle", "compile"}
      BY <2>7 DEF PrepareStep, PrepareChunk, AtItem, compilerVars
    <3> QED
      BY <2>5, <3>1
  <2>8. ASSUME UNCHANGED <<pc, experiment, compilerVars, step>> PROVE Emission'
    BY <2>8
    DEF Emission, Outputs, LastOutput, Linked, Complete, compilerVars, Chunks, StepsOf,
        ChunksOf, Emitted, Entering, Fresh, InRecipe, Seen
  <2>9. CASE (\E a \in Awgs : PipelinerCommitted(a)) \/ UNCHANGED vars
    BY <2>8, <2>9 DEF PipelinerCommitted, vars
  <2> QED
    BY <2>1, <2>2, <2>3, <2>4, <2>6, <2>7, <2>9 DEF Next
<1> QED
  BY <1>1, <1>2, Typing, PTL DEF Spec

-----------------------------------------------------------------------------
(***************************************************************************)
(* The controller: the tracker can always tell the program of a chunk.     *)
(***************************************************************************)

(* What calc_next_step makes of the tracker's list for a chunk.            *)
LEMMA TrackerStep ==
  ASSUME TypeOK, Emission, Tracking, NEW a \in Awgs, AtItem(a), Pipelined(experiment)
  PROVE  LET known == tracker[a]
             c == chunk[a]
             update == RecipeStep(a)
             after == NextSteps(known, c, update)
         IN  /\ known \in Seq(Nat \X Nat) /\ c \in ChunksOf /\ Len(items[a]) = c
             /\ c <= Len(known) \/ c = 0
             /\ Determined(known, c, update)
             /\ update # None <=> Emitted(a, step, c)
             /\ c < Len(after) /\ NextStep(known, c, update) = after[c + 1]
             /\ Pipeline(a, after, c + 1)
<1> DEFINE known == tracker[a]
           c == chunk[a]
           update == RecipeStep(a)
           after == NextSteps(known, c, update)
<1>1. /\ pc = "upload" /\ c \in ChunksOf /\ c \in Nat /\ Chunks \in Nat \ {0}
      /\ step \in StepsOf /\ step \in Nat \ {0} /\ known \in Seq(Nat \X Nat)
  BY CurrentExperiment DEF AtItem, ChunksOf, TypeOK, ControllerType, ControlType
<1>2. /\ None \notin Nat \X Nat /\ update \in (Nat \X Nat) \cup {None}
      /\ update # None <=> Emitted(a, step, c)
      /\ update # None => HasArtifact(a, update)
  BY <1>1, RecipeStepFacts DEF Emission, Complete, HasArtifact, InRecipe
<1>3. Len(items[a]) = c /\ (Untouched(a) \/ Pipeline(a, known, c))
  BY <1>1 DEF Tracking, Running
<1>4. Emitted(a, step, c) => Fresh(step)
  BY DEF Emitted, Fresh
<1>5. Untouched(a) => c = 0 /\ update # None
  BY <1>2 DEF Untouched, Emitted
<1>6. (c <= Len(known) \/ c = 0) /\ Determined(known, c, update)
  <2>1. CASE Untouched(a)
    BY <1>5, <2>1 DEF Determined
  <2>2. CASE Pipeline(a, known, c)
    <3>1. (c > 0 /\ Len(known) = c) \/ c < Len(known)
      BY <1>1, <2>2 DEF Pipeline, ChunksOf
    <3> QED
      BY <1>1, <3>1 DEF Determined
  <2> QED
    BY <1>3, <2>1, <2>2
<1> HIDE DEF known, c, update
<1>7. after \in Seq(Nat \X Nat) /\ Amended(known, c, update, after)
  <2> DEFINE S == Nat \X Nat
  <2>1. /\ None \notin S /\ known \in Seq(S) /\ c \in Nat /\ update \in S \cup {None}
        /\ Determined(known, c, update) /\ (c <= Len(known) \/ c = 0)
    BY <1>1, <1>2, <1>6
  <2> HIDE DEF S
  <2>2. after \in Seq(S) /\ Amended(known, c, update, after)
    BY <2>1, NextStepsFacts
  <2> QED
    BY <2>2 DEF S
<1> HIDE DEF after
<1>8. Pipeline(a, after, c + 1)
  <2>1. CASE update # None /\ c = 0
    <3>1. Len(after) = 1 /\ after[1] = update /\ HasArtifact(a, update) /\ Fresh(step)
      BY <1>2, <1>4, <1>7, <2>1 DEF Amended
    <3> QED
      BY <2>1, <3>1 DEF Pipeline
  <2>2. CASE c = 0 /\ update = None
    <3>1. Pipeline(a, known, c) /\ ~Emitted(a, step, 0)
      BY <1>2, <1>3, <1>5, <2>2
    <3>2. step > 1 /\ Len(known) = Chunks /\ \A i \in 1 .. Len(known) : HasArtifact(a, known[i])
      BY <2>2, <3>1 DEF Pipeline
    <3>3. after = known
      BY <1>1, <1>7, <2>2, <3>2 DEF Amended
    <3> QED
      BY <3>1, <3>2, <3>3 DEF Pipeline
  <2>3. CASE c > 0
    <3>1. Pipeline(a, known, c)
      BY <1>3, <1>5, <2>3
    <3>2. Len(known) \in Nat /\ \A i \in 1 .. Len(known) : HasArtifact(a, known[i])
      BY <1>1, <3>1 DEF Pipeline
    <3>3. CASE Len(known) = c /\ Fresh(step)
      <4>1. Len(after) = c + 1
        BY <1>7, <2>3, <3>3 DEF Amended
      <4>2. HasArtifact(a, after[c + 1])
        <5>1. CASE update # None
          BY <1>2, <1>7, <5>1 DEF Amended
        <5>2. CASE update = None
          <6>1. after[c + 1] = known[c] /\ c \in 1 .. Len(known)
            BY <1>1, <1>7, <2>3, <3>3, <5>2 DEF Amended
          <6> QED
            BY <3>2, <6>1
        <5> QED
          BY <5>1, <5>2
      <4>3. \A i \in 1 .. Len(after) : HasArtifact(a, after[i])
        <5>1. \A i \in 1 .. Len(known) : i # c + 1 => after[i] = known[i]
          BY <1>7, <2>3 DEF Amended
        <5>2. \A i \in 1 .. Len(after) : i = c + 1 \/ i \in 1 .. Len(known)
          BY <1>1, <3>3, <4>1
        <5> QED
          BY <3>2, <4>2, <5>1, <5>2
      <4> QED
        BY <1>1, <3>3, <4>1, <4>3 DEF Pipeline
    <3>4. CASE step > 1 /\ Len(known) = Chunks /\ ~Emitted(a, step, 0)
      <4>1. c < Len(known)
        BY <1>1, <3>4 DEF ChunksOf
      <4>2. Len(after) = Chunks /\ \A i \in 1 .. Len(after) : HasArtifact(a, after[i])
        BY <1>1, <1>2, <1>7, <2>3, <3>2, <3>4, <4>1 DEF Amended
      <4> QED
        BY <3>4, <4>2 DEF Pipeline
    <3> QED
      BY <2>3, <3>1, <3>3, <3>4 DEF Pipeline
  <2> QED
    BY <1>1, <2>1, <2>2, <2>3
<1> QED
  BY <1>1, <1>2, <1>3, <1>6, <1>7, <1>8 DEF known, c, update, after, Amended

(* A step of the session that leaves the experiment and the place in it.   *)
LEMMA SamePipeline ==
  ASSUME UNCHANGED <<experiment, recipe, step>>, NEW b \in Awgs,
         tracker'[b] = tracker[b], chunk'[b] = chunk[b], Pipeline(b, tracker[b], chunk[b])
  PROVE  Pipeline(b, tracker[b], chunk[b])'
<1>1. Emitted(b, step, 0)' <=> Emitted(b, step, 0)
  BY DEF Emitted, Entering, Fresh, Chunks
<1>2. Chunks' = Chunks /\ (Fresh(step)' <=> Fresh(step))
  BY DEF Fresh, Chunks
<1>3. \A i \in 1 .. Len(tracker[b]) : HasArtifact(b, tracker[b][i])'
  BY DEF Pipeline, HasArtifact
<1> QED
  BY <1>1, <1>2, <1>3 DEF Pipeline

LEMMA SamePipelines ==
  ASSUME Tracking, Running, UNCHANGED <<experiment, recipe, step, chunk, tracker, items>>
  PROVE  Tracking'
  BY DEF Tracking, Pipeline, HasArtifact, Emitted, Entering, Fresh, Chunks, Untouched

(* The chunk just prepared, with the list the tracker made of it.          *)
LEMMA PreparedChunk ==
  ASSUME TypeOK, Emission, Tracking, NEW a \in Awgs, PrepareChunk(a)
  PROVE  LET ref == NextStep(tracker[a], chunk[a], RecipeStep(a))
             after == NextSteps(tracker[a], chunk[a], RecipeStep(a))
         IN  /\ AtItem(a) /\ Pipelined(experiment) /\ pc' = pc
             /\ UNCHANGED <<runs, experiment, compilerVars, step, slots, deviceVars>>
             /\ ref = after[chunk[a] + 1]
             /\ tracker' = [tracker EXCEPT ![a] = after]
             /\ items' = [items EXCEPT ![a] = Append(@, ref)]
             /\ chunk' = [chunk EXCEPT ![a] = @ + 1]
<1> DEFINE known == tracker[a]
           c == chunk[a]
           update == RecipeStep(a)
           ref == NextStep(known, c, update)
           after == NextSteps(known, c, update)
<1>1. AtItem(a) /\ Pipelined(experiment)
  BY DEF PrepareChunk
<1>2. /\ Determined(known, c, update) /\ chunk[a] \in Nat
      /\ c < Len(after) /\ ref = after[c + 1] /\ Pipeline(a, after, c + 1)
  BY <1>1, TrackerStep DEF TypeOK, ControllerType
<1>3. HasArtifact(a, ref)
  BY <1>2 DEF Pipeline
<1> QED
  BY <1>1, <1>2, <1>3 DEF PrepareChunk, AddItem

LEMMA Tracked == Spec => [](Tracking /\ Filled)
<1>1. Init => Tracking /\ Filled
  BY DEF Init, Tracking, Running, Filled
<1>2. TypeOK /\ Emission /\ Tracking /\ Filled /\ [Next]_vars => Tracking' /\ Filled'
  <2> SUFFICES ASSUME TypeOK, Emission, Tracking, Filled, [Next]_vars PROVE Tracking' /\ Filled'
    OBVIOUS
  <2>1. ASSUME ~Running' PROVE Tracking' /\ Filled'
    BY <2>1 DEF Running, Tracking, Filled
  <2>2. CASE SkipCompilation \/ FromSingleRun \/ MergeCompilerRuns \/ Stop \/ \E e \in Experiments : Compile(e)
    <3>1. ~Running'
      BY <2>2
      DEF SkipCompilation, FromSingleRun, MergeCompilerRuns, NextIteration, Stop, Compile, Running
    <3> QED
      BY <2>1, <3>1
  <2>3. CASE Run
    <3>1. pc' = "upload" /\ step' = 1 /\ \A a \in Awgs : chunk'[a] = 0 /\ items'[a] = << >>
      BY <2>3 DEF Run, BeginStep, FirstChunk
    <3> QED
      BY <3>1 DEF Tracking, Untouched, Filled
  <2>4. ASSUME NEW a \in Awgs, PrepareStep(a) PROVE Tracking' /\ Filled'
    BY <2>4 DEF PrepareStep, AtItem, Tracking, Filled
  <2>5. ASSUME NEW a \in Awgs, PrepareChunk(a) PROVE Tracking' /\ Filled'
    <3> DEFINE after == NextSteps(tracker[a], chunk[a], RecipeStep(a))
               ref == NextStep(tracker[a], chunk[a], RecipeStep(a))
    <3>1. /\ AtItem(a) /\ Pipelined(experiment) /\ pc' = pc
          /\ UNCHANGED <<experiment, recipe, step>>
          /\ tracker' = [tracker EXCEPT ![a] = after]
          /\ items' = [items EXCEPT ![a] = Append(@, ref)]
          /\ chunk' = [chunk EXCEPT ![a] = @ + 1]
      BY <2>5, PreparedChunk DEF compilerVars
    <3>2. Len(items[a]) = chunk[a] /\ Pipeline(a, after, chunk[a] + 1) /\ chunk[a] \in Nat
      BY <3>1, TrackerStep DEF TypeOK, ControllerType
    <3>3. pc = "upload"
      BY <3>1 DEF AtItem
    <3> HIDE DEF after, ref
    <3>4. ASSUME NEW b \in Awgs
          PROVE  Len(items'[b]) = chunk'[b] /\ (Untouched(b)' \/ Pipeline(b, tracker[b], chunk[b])')
      <4>1. CASE b = a
        <5>1. /\ tracker'[a] = after /\ chunk'[a] = chunk[a] + 1
              /\ items'[a] = Append(items[a], ref) /\ items[a] \in Seq(Nat \X Nat)
          BY <3>1 DEF TypeOK, ControllerType
        <5>2. Len(items'[a]) = Len(items[a]) + 1
          BY <5>1
        <5> QED
          BY <3>1, <3>2, <4>1, <5>1, <5>2
          DEF Pipeline, HasArtifact, Fresh, Emitted, Entering, Chunks
      <4>2. CASE b # a
        <5>1. tracker'[b] = tracker[b] /\ chunk'[b] = chunk[b] /\ items'[b] = items[b]
          BY <3>1, <4>2 DEF TypeOK, ControllerType
        <5>2. Len(items[b]) = chunk[b] /\ (Untouched(b) \/ Pipeline(b, tracker[b], chunk[b]))
          BY <3>1, <3>3 DEF Tracking, Running
        <5>3. Untouched(b) => Untouched(b)'
          BY <3>1, <5>1 DEF Untouched
        <5> QED
          BY <3>1, <5>1, <5>2, <5>3, SamePipeline
      <4> QED
        BY <4>1, <4>2
    <3> QED
      BY <3>1, <3>3, <3>4 DEF Tracking, Filled
  <2>6. CASE Upload
    BY <2>6, CurrentExperiment DEF Upload, Prepared, Tracking, Filled, controllerVars, Chunks
  <2>7. CASE UploadToPipeliner \/ WaitForUpload
    <3>1. /\ Running /\ UNCHANGED <<experiment, recipe, step, chunk, tracker, items>>
          /\ pc = "wait" \/ \A a \in Awgs : chunk[a] = Chunks
      BY <2>7
      DEF UploadToPipeliner, WaitForUpload, Prepared, Running, compilerVars, controllerVars
    <3>2. \A a \in Awgs : chunk'[a] = Chunks'
      BY <3>1 DEF Filled, Chunks
    <3> QED
      BY <3>1, <3>2, SamePipelines DEF Filled
  <2>8. CASE StepDone
    <3>1. CASE step < Len(experiment.sweep)
      <4>1. /\ pc = "execute" /\ pc' = "upload" /\ step' = step + 1 /\ UNCHANGED <<experiment, recipe, tracker>>
            /\ \A a \in Awgs : chunk'[a] = 0 /\ items'[a] = << >>
        BY <2>8, <3>1 DEF StepDone, BeginStep, FirstChunk, compilerVars
      <4>2. ASSUME Pipelined(experiment), NEW a \in Awgs PROVE Pipeline(a, tracker[a], chunk[a])'
        <5>1. Pipeline(a, tracker[a], Chunks)
          BY <4>1, <4>2, CurrentExperiment DEF Tracking, Running, Filled, Untouched
        <5>2. Len(tracker[a]) = Chunks /\ \A i \in 1 .. Len(tracker[a]) : HasArtifact(a, tracker[a][i])
          BY <5>1 DEF Pipeline
        <5>3. step' > 1
          BY <4>1, CurrentExperiment DEF TypeOK, ControlType
        <5> QED
          BY <4>1, <5>2, <5>3 DEF Pipeline, HasArtifact, Chunks
      <4> QED
        BY <4>1, <4>2 DEF Tracking, Filled
    <3>2. CASE ~(step < Len(experiment.sweep))
      BY <2>1, <2>8, <3>2 DEF StepDone, Running
    <3> QED
      BY <3>1, <3>2
  <2>9. CASE (\E a \in Awgs : PipelinerCommitted(a)) \/ UNCHANGED vars
    <3>1. UNCHANGED <<pc, experiment, recipe, step, chunk, tracker, items>>
      BY <2>9 DEF PipelinerCommitted, vars, compilerVars, controllerVars
    <3> QED
      BY <2>1, <3>1, SamePipelines DEF Filled, Running, Chunks
  <2> QED
    BY <2>2, <2>3, <2>4, <2>5, <2>6, <2>7, <2>8, <2>9 DEF Next
<1> QED
  BY <1>1, <1>2, Typing, Compiled, PTL DEF Spec

(* The controller always finds the program of a chunk (AlwaysDetermined):  *)
(* in any experiment, after any experiments before it, and however they    *)
(* ended, the pipeline reload tracker neither raises nor names a program   *)
(* that the compiled experiment does not have.                             *)
THEOREM Lookups == Spec => []AlwaysDetermined
<1>1. TypeOK /\ Emission /\ Tracking => AlwaysDetermined
  <2> SUFFICES ASSUME TypeOK, Emission, Tracking, NEW a \in Awgs, AtItem(a), Pipelined(experiment)
               PROVE  /\ Determined(tracker[a], chunk[a], RecipeStep(a))
                      /\ HasArtifact(a, NextStep(tracker[a], chunk[a], RecipeStep(a)))
    BY DEF AlwaysDetermined
  <2> DEFINE after == NextSteps(tracker[a], chunk[a], RecipeStep(a))
  <2>1. /\ Determined(tracker[a], chunk[a], RecipeStep(a))
        /\ chunk[a] \in Nat /\ chunk[a] < Len(after) /\ Pipeline(a, after, chunk[a] + 1)
        /\ NextStep(tracker[a], chunk[a], RecipeStep(a)) = after[chunk[a] + 1]
    BY TrackerStep DEF ChunksOf
  <2>2. Len(after) \in Nat
    BY TrackerStep, CurrentExperiment DEF Pipeline, AtItem
  <2> HIDE DEF after
  <2>3. HasArtifact(a, after[chunk[a] + 1])
    BY <2>1, <2>2 DEF Pipeline
  <2> QED
    BY <2>1, <2>3
<1> QED
  BY <1>1, Typing, Compiled, Tracked, PTL

-----------------------------------------------------------------------------
(***************************************************************************)
(* What is played, when the two rules agree on the experiment.             *)
(***************************************************************************)

(* An AWG without a step for chunk 0 has the programs of the step before.  *)
LEMMA NothingNew ==
  ASSUME TypeOK, pc # "idle", Agreeing, NEW a \in Awgs, NEW s \in StepsOf, s > 1,
         ~Emitted(a, s, 0), NEW c \in ChunksOf
  PROVE  ProgramOf(experiment, a, s, c) = ProgramOf(experiment, a, s - 1, c)
<1>1. /\ Chunks \in Nat \ {0} /\ s \in Nat /\ s - 1 \in StepsOf /\ Len(experiment.sweep) \in Nat
      /\ ~Pipelined(experiment) => c = 0 /\ Chunks - 1 = 0
  BY CurrentExperiment DEF StepsOf, ChunksOf
<1>2. CASE ~Fresh(s)
  <2>1. PICK t \in 1 .. s - 1 : experiment.sweep[t] = experiment.sweep[s]
    BY <1>2 DEF Fresh
  <2>2. t \in StepsOf /\ t <= s - 1 /\ s - 1 <= s
    BY <1>1, <2>1 DEF StepsOf
  <2>3. experiment.sweep[s - 1] = experiment.sweep[s]
    BY <1>1, <2>1, <2>2 DEF Agreeing, NeverReturns, StepsOf
  <2> QED
    BY <2>3 DEF ProgramOf
<1>3. CASE Fresh(s)
  <2>1. ProgramOf(experiment, a, s, 0) = ProgramOf(experiment, a, s - 1, Chunks - 1)
    BY <1>3 DEF Emitted, Entering
  <2>2. CASE ~Pipelined(experiment)
    BY <1>1, <2>1, <2>2
  <2>3. CASE Pipelined(experiment)
    <3>1. s - 1 \in 1 .. Len(experiment.sweep) - 1 /\ (s - 1) + 1 = s
      BY <1>1 DEF StepsOf
    <3> QED
      BY <2>1, <2>3, <3>1 DEF Agreeing, SimilarJobs, Chunks, ChunksOf
  <2> QED
    BY <2>2, <2>3
<1> QED
  BY <1>2, <1>3

(* The list that the tracker makes for a chunk has the program of the      *)
(* chunk, and for the others the programs it had before.                   *)
LEMMA TrackerPrograms ==
  ASSUME TypeOK, Emission, Tracking, TrackedPrograms, Agreeing,
         NEW a \in Awgs, AtItem(a), Pipelined(experiment)
  PROVE  LET c == chunk[a]
             after == NextSteps(tracker[a], c, RecipeStep(a))
         IN  \A i \in 1 .. Len(after) : Of(a, after[i], Place(i, c + 1), i - 1)
<1> DEFINE known == tracker[a]
           c == chunk[a]
           update == RecipeStep(a)
           after == NextSteps(known, c, update)
<1>1. /\ pc = "upload" /\ Running /\ c \in ChunksOf /\ c \in Nat /\ Chunks \in Nat \ {0}
      /\ step \in StepsOf /\ step \in Nat \ {0} /\ known \in Seq(Nat \X Nat)
  BY CurrentExperiment DEF AtItem, ChunksOf, TypeOK, ControllerType, ControlType, Running
<1>2. /\ None \notin Nat \X Nat /\ update \in (Nat \X Nat) \cup {None}
      /\ update # None => update = <<step, c>>
      /\ update # None <=> Emitted(a, step, c)
      /\ c <= Len(known) \/ c = 0
      /\ Determined(known, c, update)
  BY <1>1, RecipeStepFacts, TrackerStep
<1>3. update # None => Of(a, update, step, c)
  BY <1>2 DEF Of, Artifact
<1>4. Untouched(a) => c = 0 /\ update # None
  BY <1>2 DEF Untouched, Emitted
<1>5. \/ Untouched(a)
      \/ /\ Pipeline(a, known, c)
         /\ \A i \in 1 .. Len(known) : Of(a, known[i], Place(i, c), i - 1)
  BY <1>1 DEF Tracking, TrackedPrograms, Place
<1> HIDE DEF known, c, update
<1>6. after \in Seq(Nat \X Nat) /\ Amended(known, c, update, after)
  <2> DEFINE S == Nat \X Nat
  <2>1. /\ None \notin S /\ known \in Seq(S) /\ c \in Nat /\ update \in S \cup {None}
        /\ Determined(known, c, update) /\ (c <= Len(known) \/ c = 0)
    BY <1>1, <1>2
  <2> HIDE DEF S
  <2>2. after \in Seq(S) /\ Amended(known, c, update, after)
    BY <2>1, NextStepsFacts
  <2> QED
    BY <2>2 DEF S
<1> HIDE DEF after
<1>7. Len(after) \in Nat /\ Len(known) \in Nat
  BY <1>1, <1>6
<1>8. ASSUME update # None, NEW i \in 1 .. Len(after)
      PROVE  Of(a, after[i], Place(i, c + 1), i - 1)
  <2>1. CASE i = c + 1
    <3>1. Of(a, after[c + 1], step, c) /\ Place(i, c + 1) = step /\ i - 1 = c
      BY <1>1, <1>3, <1>6, <1>8, <2>1 DEF Amended, Place
    <3> QED
      BY <2>1, <3>1
  <2>2. CASE i # c + 1
    <3>1. c > 0
      <4> SUFFICES ASSUME c = 0 PROVE FALSE
        BY <1>1
      <4>1. Len(after) = 1
        BY <1>6, <1>8 DEF Amended
      <4>2. i = 1 /\ c + 1 = 1
        BY <1>7, <4>1
      <4> QED
        BY <2>2, <4>2
    <3>2. i \in 1 .. Len(known)
      <4>1. Len(after) = Len(known) \/ (c = Len(known) /\ Len(after) = c + 1)
        <5>1. c < Len(known) \/ c = Len(known)
          BY <1>1, <1>2, <1>7, <3>1
        <5> QED
          BY <1>6, <1>8, <3>1, <5>1 DEF Amended
      <4> QED
        BY <1>1, <1>7, <2>2, <4>1
    <3>3. after[i] = known[i]
      BY <1>6, <2>2, <3>1, <3>2 DEF Amended
    <3>4. Place(i, c + 1) = Place(i, c)
      BY <1>1, <2>2, <3>2 DEF Place
    <3>5. Of(a, known[i], Place(i, c), i - 1)
      BY <1>1, <1>4, <1>5, <3>1, <3>2
    <3> QED
      BY <3>3, <3>4, <3>5
  <2> QED
    BY <2>1, <2>2
<1>9. ASSUME update = None, NEW i \in 1 .. Len(after)
      PROVE  Of(a, after[i], Place(i, c + 1), i - 1)
  <2>1. /\ Pipeline(a, known, c) /\ ~Emitted(a, step, c)
        /\ \A n \in 1 .. Len(known) : Of(a, known[n], Place(n, c), n - 1)
    BY <1>2, <1>4, <1>5, <1>9
  <2>2. CASE c > 0 /\ Len(known) = c /\ Fresh(step)
    <3>1. ProgramOf(experiment, a, step, c) = ProgramOf(experiment, a, step, c - 1)
      BY <2>1, <2>2 DEF Emitted, Entering
    <3>2. Of(a, known[c], step, c - 1)
      BY <1>1, <2>1, <2>2 DEF Place
    <3>3. Of(a, after[c + 1], step, c) /\ Len(after) = c + 1
      BY <1>6, <1>9, <2>2, <3>1, <3>2 DEF Of, Amended
    <3>4. CASE i = c + 1
      <4>1. Place(i, c + 1) = step /\ i - 1 = c
        BY <1>1, <3>4 DEF Place
      <4> QED
        BY <3>3, <3>4, <4>1
    <3>5. CASE i # c + 1
      <4>1. i \in 1 .. Len(known) /\ Place(i, c + 1) = Place(i, c)
        BY <1>1, <2>2, <3>3, <3>5 DEF Place
      <4>2. after[i] = known[i]
        BY <1>6, <2>2, <3>5, <4>1 DEF Amended
      <4> QED
        BY <2>1, <4>1, <4>2
    <3> QED
      BY <3>4, <3>5
  <2>3. CASE step > 1 /\ Len(known) = Chunks /\ ~Emitted(a, step, 0)
    <3>1. c < Len(known)
      BY <1>1, <2>3 DEF ChunksOf
    <3>2. after = known
      BY <1>6, <1>9, <3>1 DEF Amended
    <3>3. CASE i = c + 1
      <4>1. ProgramOf(experiment, a, step, c) = ProgramOf(experiment, a, step - 1, c)
        BY <1>1, <2>3, NothingNew
      <4>2. Place(i, c + 1) = step /\ Place(i, c) = step - 1 /\ i - 1 = c
        BY <1>1, <3>3 DEF Place
      <4>3. Of(a, known[i], step - 1, c)
        BY <2>1, <3>2, <4>2
      <4> QED
        BY <3>2, <4>1, <4>2, <4>3 DEF Of
    <3>4. CASE i # c + 1
      <4>1. Place(i, c + 1) = Place(i, c)
        BY <1>1, <1>7, <3>4 DEF Place
      <4> QED
        BY <2>1, <3>2, <4>1
    <3> QED
      BY <3>3, <3>4
  <2>4. \/ c > 0 /\ Len(known) = c /\ Fresh(step)
        \/ step > 1 /\ Len(known) = Chunks /\ ~Emitted(a, step, 0)
    <3>1. c = 0 => ~Emitted(a, step, 0)
      BY <2>1
    <3> QED
      BY <1>1, <2>1, <3>1 DEF Pipeline
  <2> QED
    BY <2>2, <2>3, <2>4
<1>10. \A i \in 1 .. Len(after) : Of(a, after[i], Place(i, c + 1), i - 1)
  BY <1>8, <1>9
<1> QED
  BY <1>10 DEF known, c, update, after

(* A step of the session that leaves the experiment, the place in it and   *)
(* what has been prepared.                                                 *)
LEMMA SamePrograms ==
  ASSUME Playing, pc' = "upload" => pc = "upload", Running' => Running,
         pc' \in {"wait", "execute"} => pc \in {"wait", "execute"},
         UNCHANGED <<experiment, recipe, step, chunk, tracker, items, memory>>
  PROVE  Playing'
<1>1. Agreeing' => Agreeing
  BY DEF Agreeing, NeverReturns, SimilarJobs
<1>2. TrackedPrograms'
  BY <1>1 DEF Playing, TrackedPrograms, Running, Untouched, Of, Artifact, Place
<1>3. UploadedPrograms'
  BY <1>1 DEF Playing, UploadedPrograms, Chunks
<1>4. KeptPrograms'
  BY <1>1 DEF Playing, KeptPrograms, Emitted, Entering, Fresh, Chunks
<1> QED
  BY <1>2, <1>3, <1>4 DEF Playing

LEMMA PrepareStepPlaying ==
  ASSUME TypeOK, Emission, Playing, NEW a \in Awgs, PrepareStep(a)
  PROVE  Playing'
<1>1. /\ pc = "upload" /\ pc' = pc /\ ~Pipelined(experiment) /\ chunk[a] < Chunks
      /\ UNCHANGED <<experiment, recipe, step, memory>>
      /\ chunk' = [chunk EXCEPT ![a] = @ + 1]
  BY DEF PrepareStep, AtItem, AddItem, compilerVars, deviceVars
<1>2. Chunks = 1 /\ chunk[a] = 0 /\ step \in StepsOf /\ 0 \in ChunksOf /\ chunk'[a] = 1
  BY <1>1, CurrentExperiment DEF TypeOK, ControllerType, ChunksOf
<1>3. /\ RecipeStep(a) # None <=> Emitted(a, step, 0)
      /\ RecipeStep(a) # None => RecipeStep(a) = <<step, 0>>
  BY <1>1, <1>2, RecipeStepFacts DEF Emission, Complete
<1>4. ASSUME Agreeing PROVE KeptPrograms'
  <2>1. \A b \in Awgs :
          /\ items[b] = IF chunk[b] = 1 /\ Emitted(b, step, 0) THEN <<<<step, 0>>>> ELSE << >>
          /\ step > 1 => memory[b] = [i \in 1 .. 1 |-> ProgramOf(experiment, b, step - 1, 0)]
    BY <1>1, <1>4 DEF Playing, KeptPrograms
  <2>2. items'[a] = IF Emitted(a, step, 0) THEN <<<<step, 0>>>> ELSE << >>
    <3>1. items[a] = << >>
      BY <1>2, <2>1
    <3>2. items[a] \in Seq(Nat \X Nat) /\ items \in [Awgs -> Seq(Nat \X Nat)]
      BY DEF TypeOK, ControllerType
    <3>3. CASE RecipeStep(a) = None
      BY <1>3, <3>1, <3>3 DEF PrepareStep
    <3>4. CASE RecipeStep(a) # None
      <4>1. items' = [items EXCEPT ![a] = Append(@, <<step, 0>>)]
        BY <1>3, <3>4 DEF PrepareStep, AddItem
      <4>2. items'[a] = Append(<< >>, <<step, 0>>)
        BY <3>1, <3>2, <4>1
      <4>3. items'[a] = <<<<step, 0>>>>
        BY <4>2
      <4> QED
        BY <1>3, <3>4, <4>3
    <3> QED
      BY <3>3, <3>4
  <2>3. \A b \in Awgs \ {a} : items'[b] = items[b] /\ chunk'[b] = chunk[b]
    BY <1>1 DEF PrepareStep, AddItem, TypeOK, ControllerType
  <2>4. \A b \in Awgs : Emitted(b, step, 0)' <=> Emitted(b, step, 0)
    BY <1>1 DEF Emitted, Entering, Fresh, Chunks
  <2>5. \A b \in Awgs :
          items'[b] = IF chunk'[b] = 1 /\ Emitted(b, step, 0) THEN <<<<step, 0>>>> ELSE << >>
    BY <1>2, <2>1, <2>2, <2>3
  <2> QED
    BY <1>1, <2>1, <2>4, <2>5 DEF KeptPrograms
<1>5. Agreeing' => Agreeing
  BY <1>1 DEF Agreeing, NeverReturns, SimilarJobs
<1>6. KeptPrograms'
  BY <1>4, <1>5 DEF KeptPrograms
<1>7. TrackedPrograms' /\ UploadedPrograms'
  BY <1>1 DEF TrackedPrograms, UploadedPrograms
<1> QED
  BY <1>6, <1>7 DEF Playing

LEMMA PrepareChunkPlaying ==
  ASSUME TypeOK, Emission, Tracking, Playing, NEW a \in Awgs, PrepareChunk(a)
  PROVE  Playing'
<1> DEFINE after == NextSteps(tracker[a], chunk[a], RecipeStep(a))
           ref == NextStep(tracker[a], chunk[a], RecipeStep(a))
<1>1. /\ AtItem(a) /\ Pipelined(experiment) /\ pc' = pc
      /\ UNCHANGED <<experiment, recipe, step, memory>>
      /\ ref = after[chunk[a] + 1]
      /\ tracker' = [tracker EXCEPT ![a] = after]
      /\ items' = [items EXCEPT ![a] = Append(@, ref)]
      /\ chunk' = [chunk EXCEPT ![a] = @ + 1]
  BY PreparedChunk DEF compilerVars, deviceVars
<1>2. pc = "upload" /\ Running /\ chunk[a] \in Nat /\ Len(items[a]) = chunk[a]
      /\ chunk[a] + 1 \in 1 .. Len(after)
  <2>1. chunk[a] < Len(after) /\ Len(items[a]) = chunk[a] /\ after \in Seq(Nat \X Nat)
    <3>1. /\ RecipeStep(a) \in (Nat \X Nat) \cup {None} /\ None \notin Nat \X Nat
          /\ tracker[a] \in Seq(Nat \X Nat) /\ chunk[a] \in Nat
          /\ Determined(tracker[a], chunk[a], RecipeStep(a))
      BY <1>1, RecipeStepFacts, TrackerStep DEF TypeOK, ControllerType
    <3> QED
      BY <1>1, <3>1, TrackerStep, NextStepsType
  <2> QED
    BY <1>1, <2>1 DEF AtItem, Running, TypeOK, ControllerType
<1>3. ASSUME Agreeing PROVE TrackedPrograms'
  <2>1. TrackedPrograms
    BY DEF Playing
  <2>2. \A i \in 1 .. Len(after) : Of(a, after[i], Place(i, chunk[a] + 1), i - 1)
    BY <1>1, <1>3, <2>1, TrackerPrograms
  <2>3. Of(a, ref, step, chunk[a])
    <3>1. Place(chunk[a] + 1, chunk[a] + 1) = step /\ (chunk[a] + 1) - 1 = chunk[a]
      BY <1>2 DEF Place
    <3>2. Of(a, after[chunk[a] + 1], Place(chunk[a] + 1, chunk[a] + 1), (chunk[a] + 1) - 1)
      BY <1>2, <2>2
    <3> QED
      BY <1>1, <3>1, <3>2
  <2> HIDE DEF after, ref
  <2>4. \A b \in Awgs :
          /\ \A i \in 1 .. chunk[b] : Of(b, items[b][i], step, i - 1)
          /\ Untouched(b) \/ \A i \in 1 .. Len(tracker[b]) :
                               Of(b, tracker[b][i], Place(i, chunk[b]), i - 1)
    BY <1>1, <1>2, <1>3, <2>1 DEF TrackedPrograms
  <2>5. ASSUME NEW b \in Awgs
        PROVE  /\ \A i \in 1 .. chunk'[b] : Of(b, items'[b][i], step, i - 1)
               /\ \/ step = 1 /\ chunk'[b] = 0
                  \/ \A i \in 1 .. Len(tracker'[b]) :
                       Of(b, tracker'[b][i], Place(i, chunk'[b]), i - 1)
    <3>1. CASE b = a
      <4>1. /\ tracker'[a] = after /\ chunk'[a] = chunk[a] + 1
            /\ items'[a] = Append(items[a], ref) /\ items[a] \in Seq(Nat \X Nat)
        BY <1>1 DEF TypeOK, ControllerType
      <4>2. ASSUME NEW i \in 1 .. chunk[a] + 1 PROVE Of(a, items'[a][i], step, i - 1)
        <5>1. CASE i = chunk[a] + 1
          <6>1. items'[a][i] = ref /\ i - 1 = chunk[a]
            BY <1>2, <4>1, <5>1
          <6> QED
            BY <2>3, <6>1
        <5>2. CASE i # chunk[a] + 1
          <6>1. i \in 1 .. chunk[a] /\ items'[a][i] = items[a][i]
            BY <1>2, <4>1, <5>2
          <6> QED
            BY <2>4, <6>1
        <5> QED
          BY <5>1, <5>2
      <4> QED
        BY <2>2, <3>1, <4>1, <4>2
    <3>2. CASE b # a
      <4>1. tracker'[b] = tracker[b] /\ chunk'[b] = chunk[b] /\ items'[b] = items[b]
        BY <1>1, <3>2 DEF TypeOK, ControllerType
      <4> QED
        BY <2>4, <4>1 DEF Untouched
    <3> QED
      BY <3>1, <3>2
  <2>6. ASSUME NEW b \in Awgs PROVE (\A i \in 1 .. chunk[b] : Of(b, items[b][i], step, i - 1))'
    BY <1>1, <2>5 DEF Of, Artifact
  <2>7. ASSUME NEW b \in Awgs, ~Untouched(b)'
        PROVE  (\A i \in 1 .. Len(tracker[b]) : Of(b, tracker[b][i], Place(i, chunk[b]), i - 1))'
    <3>1. \A i \in 1 .. Len(tracker'[b]) : Of(b, tracker'[b][i], Place(i, chunk'[b]), i - 1)
      BY <1>1, <2>5, <2>7 DEF Untouched
    <3> QED
      BY <1>1, <3>1 DEF Of, Artifact, Place
  <2> QED
    BY <2>6, <2>7 DEF TrackedPrograms
<1>4. Agreeing' => Agreeing
  BY <1>1 DEF Agreeing, NeverReturns, SimilarJobs
<1>5. TrackedPrograms'
  BY <1>3, <1>4 DEF TrackedPrograms
<1>6. KeptPrograms' /\ UploadedPrograms'
  BY <1>1, <1>2 DEF KeptPrograms, UploadedPrograms
<1> QED
  BY <1>5, <1>6 DEF Playing

LEMMA UploadPlaying ==
  ASSUME TypeOK, Emission, Tracking, Playing, Upload \/ UploadToPipeliner
  PROVE  Playing'
<1>1. /\ pc = "upload" /\ Running /\ \A a \in Awgs : chunk[a] = Chunks
      /\ UNCHANGED <<experiment, recipe, step, chunk, tracker, items>>
      /\ pc' \in {"wait", "execute"}
  BY DEF Upload, UploadToPipeliner, Prepared, Running, compilerVars, controllerVars
<1>2. /\ Chunks \in Nat \ {0} /\ step \in StepsOf /\ step \in Nat \ {0} /\ 0 \in ChunksOf
      /\ ~Pipelined(experiment) => Chunks = 1
  BY <1>1, CurrentExperiment DEF TypeOK, ControlType, ChunksOf
<1>3. (Agreeing' <=> Agreeing) /\ Chunks' = Chunks
  BY <1>1 DEF Agreeing, NeverReturns, SimilarJobs, Chunks
<1>4. TrackedPrograms'
  BY <1>1, <1>3 DEF Playing, TrackedPrograms, Running, Untouched, Of, Artifact, Place
<1>5. ASSUME Agreeing, NEW a \in Awgs
      PROVE  memory'[a] = [i \in 1 .. Chunks |-> ProgramOf(experiment, a, step, i - 1)]
  <2>1. CASE UploadToPipeliner
    <3>1. Pipelined(experiment) /\ memory'[a] = Contents(a)
      BY <2>1 DEF UploadToPipeliner
    <3>2. Len(items[a]) = Chunks /\ \A i \in 1 .. Chunks : Of(a, items[a][i], step, i - 1)
      BY <1>1, <1>5, <3>1 DEF Tracking, Playing, TrackedPrograms
    <3> QED
      BY <3>1, <3>2 DEF Contents, Of
  <2>2. CASE Upload
    <3>1. ~Pipelined(experiment) /\ Chunks = 1
          /\ memory'[a] = IF items[a] = << >> THEN memory[a] ELSE Contents(a)
      <4>1. /\ ~Pipelined(experiment)
            /\ memory' = [b \in Awgs |-> IF items[b] = << >> THEN memory[b] ELSE Contents(b)]
        BY <2>2 DEF Upload
      <4> QED
        BY <1>2, <4>1
    <3>2. /\ items[a] = IF Emitted(a, step, 0) THEN <<<<step, 0>>>> ELSE << >>
          /\ step > 1 => memory[a] = [i \in 1 .. 1 |-> ProgramOf(experiment, a, step - 1, 0)]
      BY <1>1, <1>5, <3>1 DEF Playing, KeptPrograms
    <3>3. CASE Emitted(a, step, 0)
      <4>1. items[a] = <<<<step, 0>>>>
        BY <3>2, <3>3
      <4>2. Len(items[a]) = 1 /\ items[a][1] = <<step, 0>> /\ items[a] # << >>
        BY <4>1
      <4>3. memory'[a] = [i \in 1 .. 1 |-> Artifact(a, items[a][i])]
        BY <3>1, <4>2 DEF Contents
      <4>4. \A i \in 1 .. 1 : Artifact(a, items[a][i]) = ProgramOf(experiment, a, step, i - 1)
        BY <4>2 DEF Artifact
      <4> QED
        BY <3>1, <4>3, <4>4
    <3>4. CASE ~Emitted(a, step, 0)
      <4>1. step > 1
        <5>1. step # 1
          BY <3>4 DEF Emitted
        <5> QED
          BY <1>2, <5>1
      <4>2. ProgramOf(experiment, a, step, 0) = ProgramOf(experiment, a, step - 1, 0)
        <5>1. pc # "idle" /\ step \in StepsOf /\ 0 \in ChunksOf
          BY <1>1, <1>2
        <5> QED
          BY <1>5, <3>4, <4>1, <5>1, NothingNew
      <4>3. memory'[a] = [i \in 1 .. 1 |-> ProgramOf(experiment, a, step, 0)]
        BY <3>1, <3>2, <3>4, <4>1, <4>2
      <4> QED
        BY <3>1, <4>3
    <3> QED
      BY <3>3, <3>4
  <2> QED
    BY <2>1, <2>2
<1>6. UploadedPrograms'
  BY <1>1, <1>3, <1>5 DEF UploadedPrograms
<1>7. KeptPrograms'
  BY <1>1 DEF KeptPrograms
<1> QED
  BY <1>4, <1>6, <1>7 DEF Playing

LEMMA NextStepPlaying ==
  ASSUME TypeOK, Tracking, Filled, Playing, StepDone, step < Len(experiment.sweep)
  PROVE  Playing'
<1>1. /\ pc = "execute" /\ Running /\ pc' = "upload" /\ step' = step + 1
      /\ UNCHANGED <<experiment, recipe, tracker, memory>>
      /\ \A a \in Awgs : chunk'[a] = 0 /\ items'[a] = << >>
  BY DEF StepDone, BeginStep, FirstChunk, compilerVars, deviceVars, Running
<1>2. /\ Chunks \in Nat \ {0} /\ step \in Nat \ {0} /\ \A a \in Awgs : chunk[a] = Chunks
      /\ ~Pipelined(experiment) => Chunks = 1
  BY <1>1, CurrentExperiment DEF TypeOK, ControlType, Filled
<1>3. (Agreeing' <=> Agreeing) /\ (Pipelined(experiment)' <=> Pipelined(experiment))
  BY <1>1 DEF Agreeing, NeverReturns, SimilarJobs
<1>4. ASSUME Agreeing, Pipelined(experiment), NEW a \in Awgs
      PROVE  \A i \in 1 .. Len(tracker[a]) : Of(a, tracker[a][i], step, i - 1)
  <2>1. Len(tracker[a]) = Chunks
    BY <1>1, <1>2, <1>4 DEF Tracking, Pipeline, Untouched
  <2>2. \A i \in 1 .. Len(tracker[a]) : Of(a, tracker[a][i], Place(i, chunk[a]), i - 1)
    BY <1>1, <1>2, <1>4 DEF Playing, TrackedPrograms, Untouched
  <2> QED
    BY <1>2, <2>1, <2>2 DEF Place
<1>5. TrackedPrograms'
  <2>1. ASSUME Agreeing, Pipelined(experiment), NEW a \in Awgs
        PROVE  (\A i \in 1 .. Len(tracker[a]) : Of(a, tracker[a][i], Place(i, chunk[a]), i - 1))'
    <3>1. \A i \in 1 .. Len(tracker[a]) : Place(i, chunk[a])' = step
      BY <1>1, <1>2 DEF Place
    <3>2. \A i \in 1 .. Len(tracker[a]) : Of(a, tracker[a][i], step, i - 1)
      BY <1>4, <2>1
    <3>3. \A i \in 1 .. Len(tracker[a]) : Of(a, tracker[a][i], Place(i, chunk[a]), i - 1)'
      BY <1>1, <3>1, <3>2 DEF Of, Artifact
    <3> QED
      BY <1>1, <3>3
  <2>2. \A a \in Awgs : (\A i \in 1 .. chunk[a] : Of(a, items[a][i], step, i - 1))'
    BY <1>1
  <2> QED
    BY <1>3, <2>1, <2>2 DEF TrackedPrograms
<1>6. KeptPrograms'
  <2>1. ASSUME Agreeing, ~Pipelined(experiment), NEW a \in Awgs
        PROVE  memory'[a] = [i \in 1 .. 1 |-> ProgramOf(experiment, a, step' - 1, 0)]
    <3>1. memory[a] = [i \in 1 .. 1 |-> ProgramOf(experiment, a, step, i - 1)]
      BY <1>1, <1>2, <2>1 DEF Playing, UploadedPrograms
    <3>2. step' - 1 = step /\ \A i \in 1 .. 1 : i - 1 = 0
      BY <1>1, <1>2
    <3> QED
      BY <1>1, <3>1, <3>2
  <2>2. \A a \in Awgs : items'[a] = << >> /\ chunk'[a] # 1
    BY <1>1
  <2> QED
    BY <1>1, <1>3, <2>1, <2>2 DEF KeptPrograms
<1>7. UploadedPrograms'
  BY <1>1 DEF UploadedPrograms
<1> QED
  BY <1>5, <1>6, <1>7 DEF Playing

(* What an AWG plays in a near-time step is what was compiled for it, in   *)
(* every experiment on which the compiler and the controller agree         *)
(* (AgreeingRunsWhatWasCompiled): any values, steps, chunks and AWGs, and  *)
(* any experiments executed before it.                                     *)
THEOREM Agreement == Spec => []AgreeingRunsWhatWasCompiled
<1>1. Init => Playing
  BY DEF Init, Playing, TrackedPrograms, UploadedPrograms, KeptPrograms, Running
<1>2. TypeOK /\ Emission /\ Tracking /\ Filled /\ Playing /\ [Next]_vars => Playing'
  <2> SUFFICES ASSUME TypeOK, Emission, Tracking, Filled, Playing, [Next]_vars PROVE Playing'
    OBVIOUS
  <2>1. ASSUME ~Running' PROVE Playing'
    BY <2>1 DEF Running, Playing, TrackedPrograms, UploadedPrograms, KeptPrograms
  <2>2. CASE SkipCompilation \/ FromSingleRun \/ MergeCompilerRuns \/ Stop \/ \E e \in Experiments : Compile(e)
    <3>1. ~Running'
      BY <2>2
      DEF SkipCompilation, FromSingleRun, MergeCompilerRuns, NextIteration, Stop, Compile, Running
    <3> QED
      BY <2>1, <3>1
  <2>3. CASE Run
    <3>1. pc' = "upload" /\ step' = 1 /\ \A a \in Awgs : chunk'[a] = 0 /\ items'[a] = << >>
      BY <2>3 DEF Run, BeginStep, FirstChunk
    <3>2. TrackedPrograms'
      BY <3>1 DEF TrackedPrograms, Untouched
    <3>3. UploadedPrograms' /\ KeptPrograms'
      BY <3>1 DEF UploadedPrograms, KeptPrograms
    <3> QED
      BY <3>2, <3>3 DEF Playing
  <2>4. CASE \E a \in Awgs : PrepareStep(a) \/ PrepareChunk(a)
    BY <2>4, PrepareStepPlaying, PrepareChunkPlaying
  <2>5. CASE Upload \/ UploadToPipeliner
    BY <2>5, UploadPlaying
  <2>6. CASE WaitForUpload \/ UNCHANGED vars \/ \E a \in Awgs : PipelinerCommitted(a)
    <3>1. /\ UNCHANGED <<experiment, recipe, step, chunk, tracker, items, memory>>
          /\ pc' = pc \/ (pc = "wait" /\ pc' \in {"execute", "failed"})
      BY <2>6
      DEF WaitForUpload, PipelinerCommitted, vars, compilerVars, controllerVars, deviceVars
    <3> QED
      BY <3>1, SamePrograms DEF Running
  <2>7. CASE StepDone
    <3>1. CASE step < Len(experiment.sweep)
      BY <2>7, <3>1, NextStepPlaying
    <3>2. CASE ~(step < Len(experiment.sweep))
      BY <2>1, <2>7, <3>2 DEF StepDone, Running
    <3> QED
      BY <3>1, <3>2
  <2> QED
    BY <2>2, <2>3, <2>4, <2>5, <2>6, <2>7 DEF Next
<1>3. Playing => AgreeingRunsWhatWasCompiled
  BY DEF Playing, UploadedPrograms, Agreeing, AgreeingRunsWhatWasCompiled, RunsWhatWasCompiled
<1> QED
  BY <1>1, <1>2, <1>3, Typing, Compiled, Tracked, PTL DEF Spec

=============================================================================
