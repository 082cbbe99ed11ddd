--------------------------- MODULE StepExecution ---------------------------
(***************************************************************************)
(* One real-time step after the other: NearTimeRunner.rt_entry_handler and *)
(* the parts of the Controller it calls (_execute_one_step and everything  *)
(* below it, _read_one_step_results, _report_step_error), together with    *)
(* the instruments they drive and the node events the instruments send.    *)
(*                                                                         *)
(* The controller arms the acquisitions, starts the followers, waits for   *)
(* them to be ready, fires the leader, waits for the followers to stop and *)
(* reads the results.  Both waits only warn when they time out.  An        *)
(* attempt that raises is reported and repeated.  What a result is made of *)
(* is kept with it: the shots, each with the run of the sequencer that     *)
(* emitted it and the arming of the acquisition that recorded it.          *)
(***************************************************************************)
EXTENDS Naturals, Sequences

CONSTANTS
  Followers,      \* devices that are started first and waited for
  QAs,            \* the followers that produce results
  Counted,        \* QAs that report how many shots they have (SHFQA)
  Wrapping,       \* QAs whose shot counter goes back to 0 (UHFQA)
  NoReadyWait,    \* followers without ready conditions (SHFSG on its own)
  SelfTriggering, \* followers that are triggered by a node of their own
  Leader,         \* is there a leader (PQSC, or HDAWG on the desktop)?
  NumSteps,       \* near-time steps of the experiment
  MaxTries,       \* attempts per step
  Shots,          \* shots of one run
  None            \* "no result", "not armed"

ASSUME FollowersAssumption ==
  /\ QAs \subseteq Followers
  /\ NoReadyWait \subseteq Followers /\ SelfTriggering \subseteq Followers
ASSUME KindsAssumption ==
  /\ Counted \subseteq QAs /\ Wrapping \subseteq QAs
  /\ Counted \cap Wrapping = {}
ASSUME NumbersAssumption ==
  /\ NumSteps \in Nat \ {0} /\ MaxTries \in Nat \ {0} /\ Shots \in Nat \ {0}
  /\ Leader \in BOOLEAN

Steps == 1 .. NumSteps
Attempts == Steps \X (1 .. MaxTries)
Shot == [run : Attempts, arm : Attempts]
Result == [try : 1 .. MaxTries, shots : SUBSET Shot]

ASSUME NoneAssumption == None \notin Attempts \cup Result

\* The nodes the conditions are about: <awg>/enable and <unit>/result/enable.
EventNodes == (Followers \X {"awg"}) \cup (Counted \X {"result"})

VARIABLES
  pc,       \* where rt_entry_handler is
  step,     \* the near-time step, nt_step
  try,      \* the attempt of the step, retry + 1
  awaited,  \* ResponseWaiter._conditions: the nodes not yet seen
  toRead,   \* awgs_producing_results still to be read
  results,  \* acquired_results: what was stored for a step and a device
  errors,   \* execution_errors: how often a step was reported
  late,     \* [ready, done]: the waits of this attempt that timed out
  events,   \* NodeMonitor: the values of each node not yet consumed
  awg,      \* each follower's sequencer
  run,      \* the attempt that started it
  left,     \* the shots it has still to emit
  arm,      \* the attempt that armed the acquisition, None when it is off
  acquired, \* the acquisition's counter
  vec,      \* the shots in the result vector
  pulse,    \* the leader has been started and has not triggered yet
  swtrig,   \* followers whose own trigger node was set
  succeeded, \* history: steps whose last attempt did not raise
  overrun   \* history: an attempt began while a sequencer was not off

controller == <<pc, step, try, awaited, toRead, results, errors, late>>
sequencers == <<awg, run, left, pulse, swtrig>>
acquisitions == <<arm, acquired, vec>>
history == <<succeeded, overrun>>
vars == <<controller, events, sequencers, acquisitions, history>>

Init ==
  /\ pc = "prepare" /\ step = 1 /\ try = 1
  /\ awaited = {} /\ toRead = {}
  /\ results = [s \in Steps |-> [q \in QAs |-> None]]
  /\ errors = [s \in Steps |-> 0]
  /\ late = [ready |-> FALSE, done |-> FALSE]
  /\ events = [n \in EventNodes |-> << >>]
  /\ awg = [f \in Followers |-> "off"]
  /\ run = [f \in Followers |-> None]
  /\ left = [f \in Followers |-> 0]
  /\ arm = [q \in QAs |-> None]
  /\ acquired = [q \in QAs |-> 0]
  /\ vec = [q \in QAs |-> {}]
  /\ pulse = FALSE /\ swtrig = {}
  /\ succeeded = {} /\ overrun = FALSE

-----------------------------------------------------------------------------
(* Preparing an attempt: batch_set of the step's nodes.  Acquisitions are   *)
(* armed by writing result/enable 0 and then 1.                             *)

\* Seeded fault: without the 0 before the 1, an acquisition that is still on
\* goes on counting, and the cache drops the 1 where it is not.
PrepareWithoutToggle ==
  /\ pc = "prepare"
  /\ pc' = "flush"
  /\ late' = [ready |-> FALSE, done |-> FALSE]
  /\ arm' = [q \in QAs |-> IF step = 1 /\ try = 1 THEN <<1, 1>> ELSE arm[q]]
  /\ overrun' = (overrun \/ \E f \in Followers : awg[f] # "off")
  /\ UNCHANGED <<step, try, awaited, toRead, results, errors, events,
                 sequencers, acquired, vec, succeeded>>

Prepare ==
  /\ pc = "prepare"
  /\ pc' = "flush"
  /\ late' = [ready |-> FALSE, done |-> FALSE]
  /\ arm' = [q \in QAs |-> <<step, try>>]
  /\ acquired' = [q \in QAs |-> 0]
  /\ events' = [n \in EventNodes |->
                  IF n[2] = "result" THEN events[n] \o <<0, 1>> ELSE events[n]]
  /\ overrun' = (overrun \/ \E f \in Followers : awg[f] # "off")
  /\ UNCHANGED <<step, try, awaited, toRead, results, errors, sequencers, vec,
                 succeeded>>

\* batch_set raises outside the try statement: the execution is given up.
PrepareRaises ==
  /\ pc = "prepare"
  /\ pc' = "raised"
  /\ UNCHANGED <<step, try, awaited, toRead, results, errors, late, events,
                 sequencers, acquisitions, history>>

\* A near-time callback before the step raises AbortExecution.
Abort ==
  /\ pc = "prepare" /\ try = 1
  /\ pc' = "aborted"
  /\ UNCHANGED <<step, try, awaited, toRead, results, errors, late, events,
                 sequencers, acquisitions, history>>

-----------------------------------------------------------------------------
(* _execute_one_step                                                        *)

\* Seeded fault: what was received before the start is not thrown away.
FlushNothing ==
  /\ pc = "flush"
  /\ pc' = "followers"
  /\ UNCHANGED <<step, try, awaited, toRead, results, errors, late, events,
                 sequencers, acquisitions, history>>

FlushMonitor ==
  /\ pc = "flush"
  /\ pc' = "followers"
  /\ events' = [n \in EventNodes |-> << >>]
  /\ UNCHANGED <<step, try, awaited, toRead, results, errors, late,
                 sequencers, acquisitions, history>>

\* Seeded fault: nothing is waited for before the leader is started.
ReadyNodesNone == {}

ReadyNodes == (Followers \ NoReadyWait) \X {"awg"}
DoneNodes == EventNodes

\* <awg>/enable is set to 1, uncached.  A sequencer that still runs may take
\* no notice or start again.
StartFollowers ==
  /\ pc = "followers"
  /\ pc' = "ready" /\ awaited' = ReadyNodes
  /\ \E ignored \in SUBSET {f \in Followers : awg[f] = "running"} :
       /\ awg' = [f \in Followers |->
                    IF f \in ignored \/ awg[f] = "armed" THEN awg[f]
                    ELSE "arming"]
       /\ run' = [f \in Followers |->
                    IF f \in ignored THEN run[f] ELSE <<step, try>>]
       /\ events' = [n \in EventNodes |->
                       IF /\ n[2] = "awg"
                          /\ n[1] \in ignored \/ awg[n[1]] = "armed"
                       THEN Append(events[n], 1) ELSE events[n]]
  /\ UNCHANGED <<step, try, toRead, results, errors, late, left, pulse, swtrig,
                 acquisitions, history>>

\* The internal start nodes of the followers, then the leaders.
Trigger ==
  /\ pc = "trigger"
  /\ pc' = "wait" /\ awaited' = DoneNodes
  /\ swtrig' = swtrig \cup SelfTriggering
  /\ pulse' = (pulse \/ Leader)
  /\ UNCHANGED <<step, try, toRead, results, errors, late, events, awg, run,
                 left, acquisitions, history>>

-----------------------------------------------------------------------------
(* ResponseWaiter.wait_all, for the ready and for the done conditions.      *)

Expected == IF pc = "ready" THEN 1 ELSE 0

Seen(n) == \E i \in 1 .. Len(events[n]) : events[n][i] = Expected

\* pop until the expected value: what comes before it is gone.
Rest(n) ==
  IF Seen(n)
  THEN LET first == CHOOSE i \in 1 .. Len(events[n]) :
                      /\ events[n][i] = Expected
                      /\ \A j \in 1 .. i - 1 : events[n][j] # Expected
       IN  SubSeq(events[n], first + 1, Len(events[n]))
  ELSE << >>

Stored(s, q) == results[s][q] # None

\* Seeded fault: a retry reads only what is still missing.
ProducingMissing == {q \in QAs : ~Stored(step, q)}

Producing == QAs

AfterWait == IF pc = "ready" THEN "trigger" ELSE "read"

PollAndCheck ==
  /\ pc \in {"ready", "wait"}
  /\ events' = [n \in EventNodes |->
                  IF n \in awaited THEN Rest(n) ELSE events[n]]
  /\ awaited' = {n \in awaited : ~Seen(n)}
  /\ IF awaited' = {}
     THEN /\ pc' = AfterWait
          /\ toRead' = IF pc = "wait" THEN Producing ELSE toRead
     ELSE UNCHANGED <<pc, toRead>>
  /\ UNCHANGED <<step, try, results, errors, late, sequencers, acquisitions,
                 history>>

\* Seeded fault: the stop conditions are waited for without a limit.
WaitTimesOutReady ==
  /\ pc = "ready"
  /\ awaited # {} /\ \A n \in awaited : events[n] = << >>
  /\ pc' = AfterWait
  /\ late' = [late EXCEPT !.ready = TRUE]
  /\ awaited' = {}
  /\ UNCHANGED <<step, try, toRead, results, errors, events, sequencers,
                 acquisitions, history>>

\* The last poll has found some conditions still not fulfilled: warn, go on.
WaitTimesOut ==
  /\ pc \in {"ready", "wait"}
  /\ awaited # {} /\ \A n \in awaited : events[n] = << >>
  /\ pc' = AfterWait
  /\ toRead' = IF pc = "wait" THEN Producing ELSE toRead
  /\ late' = IF pc = "ready" THEN [late EXCEPT !.ready = TRUE]
                             ELSE [late EXCEPT !.done = TRUE]
  /\ awaited' = {}
  /\ UNCHANGED <<step, try, results, errors, events, sequencers, acquisitions,
                 history>>

-----------------------------------------------------------------------------
(* _read_one_step_results, one sequencer after the other.                   *)

\* check_results_acquired_status: SHFQA compares the counter with the number
\* of shots, UHFQA expects it to have gone back to 0, RAW is not checked.
\* Seeded fault: the counter of the SHFQA is not looked at.
CheckUnmade(q) == q \in Wrapping => acquired[q] = 0

CheckPasses(q) ==
  /\ q \in Counted => acquired[q] = Shots
  /\ q \in Wrapping => acquired[q] = 0

Read(q) ==
  /\ pc = "read" /\ q \in toRead
  /\ CheckPasses(q)
  /\ results' = [results EXCEPT ![step][q] =
                   [try |-> try, shots |-> vec[q]]]
  /\ toRead' = toRead \ {q}
  /\ UNCHANGED <<pc, step, try, awaited, errors, late, events, sequencers,
                 acquisitions, history>>

\* The vector still has another length after three attempts: assert.
ReadAsserts ==
  /\ pc = "read" /\ toRead # {}
  /\ pc' = "raised"
  /\ UNCHANGED <<step, try, awaited, toRead, results, errors, late, events,
                 sequencers, acquisitions, history>>

NextStep ==
  /\ try' = 1
  /\ IF step < NumSteps THEN step' = step + 1 /\ pc' = "prepare"
                        ELSE step' = step /\ pc' = "done"

\* Seeded fault: the reading of the results is not awaited.
StepDoneUnread ==
  /\ pc = "read"
  /\ NextStep
  /\ succeeded' = succeeded \cup {step}
  /\ UNCHANGED <<awaited, toRead, results, errors, late, events, sequencers,
                 acquisitions, overrun>>

StepDone ==
  /\ pc = "read" /\ toRead = {}
  /\ NextStep
  /\ succeeded' = succeeded \cup {step}
  /\ UNCHANGED <<awaited, toRead, results, errors, late, events, sequencers,
                 acquisitions, overrun>>

\* A LabOneQControllerException inside the try statement: from the check, or
\* from an API call.  It is reported, and the step is tried again or left.
Fails ==
  \/ \E q \in toRead : pc = "read" /\ ~CheckPasses(q)
  \/ pc \in {"followers", "trigger", "read"}

\* Seeded fault: the last failure is not reported.
ReportStepErrorOnRetry ==
  /\ Fails
  /\ errors' = IF try < MaxTries THEN [errors EXCEPT ![step] = @ + 1] ELSE errors
  /\ toRead' = {} /\ awaited' = {}
  /\ IF try < MaxTries THEN try' = try + 1 /\ pc' = "prepare" /\ step' = step
                       ELSE NextStep
  /\ UNCHANGED <<results, late, events, sequencers, acquisitions, history>>

\* Seeded fault: one attempt too many.
ReportStepErrorOnceMore ==
  /\ Fails
  /\ errors' = [errors EXCEPT ![step] = @ + 1]
  /\ toRead' = {} /\ awaited' = {}
  /\ IF try <= MaxTries THEN try' = try + 1 /\ pc' = "prepare" /\ step' = step
                        ELSE NextStep
  /\ UNCHANGED <<results, late, events, sequencers, acquisitions, history>>

ReportStepError ==
  /\ Fails
  /\ errors' = [errors EXCEPT ![step] = @ + 1]
  /\ toRead' = {} /\ awaited' = {}
  /\ IF try < MaxTries THEN try' = try + 1 /\ pc' = "prepare" /\ step' = step
                       ELSE NextStep
  /\ UNCHANGED <<results, late, events, sequencers, acquisitions, history>>

-----------------------------------------------------------------------------
(* The instruments.                                                         *)

Send(n, v) ==
  events' = [m \in EventNodes |->
               IF m = n THEN Append(events[m], v) ELSE events[m]]

SequencerArmed(f) ==
  /\ awg[f] = "arming"
  /\ awg' = [awg EXCEPT ![f] = "armed"]
  /\ Send(<<f, "awg">>, 1)
  /\ UNCHANGED <<controller, run, left, pulse, swtrig, acquisitions, history>>

Go(fs) ==
  /\ awg' = [f \in Followers |-> IF f \in fs THEN "running" ELSE awg[f]]
  /\ left' = [f \in Followers |-> IF f \in fs THEN Shots ELSE left[f]]

\* The leader's trigger goes out once: who is not armed misses it.
LeaderTriggers ==
  /\ pulse /\ pulse' = FALSE
  /\ Go({f \in Followers \ SelfTriggering : awg[f] = "armed"})
  /\ UNCHANGED <<controller, events, run, swtrig, acquisitions, history>>

\* An instrument handles its own trigger after the enable written before.
SelfTriggers(f) ==
  /\ f \in swtrig /\ awg[f] # "arming"
  /\ swtrig' = swtrig \ {f}
  /\ Go(IF awg[f] = "armed" THEN {f} ELSE {})
  /\ UNCHANGED <<controller, events, run, pulse, acquisitions, history>>

\* A shot is recorded when the acquisition is on; the last one turns it off.
Records(q) ==
  LET shot == [run |-> run[q], arm |-> arm[q]]
      full == acquired[q] + 1 = Shots
  IN  /\ arm[q] # None
      /\ vec' = [vec EXCEPT ![q] = IF acquired[q] = 0 THEN {shot} ELSE @ \cup {shot}]
      /\ acquired' = [acquired EXCEPT ![q] = IF full /\ q \in Wrapping THEN 0
                                             ELSE @ + 1]
      /\ arm' = [arm EXCEPT ![q] = IF full THEN None ELSE @]
      /\ IF full /\ q \in Counted THEN Send(<<q, "result">>, 0)
                                  ELSE UNCHANGED events

EmitsShot(q) ==
  /\ awg[q] = "running" /\ left[q] > 0
  /\ left' = [left EXCEPT ![q] = @ - 1]
  /\ Records(q) \/ UNCHANGED <<acquisitions, events>>
  /\ UNCHANGED <<controller, awg, run, pulse, swtrig, history>>

SequencerStops(f) ==
  /\ awg[f] = "running" /\ (f \in QAs => left[f] = 0)
  /\ awg' = [awg EXCEPT ![f] = "off"]
  /\ Send(<<f, "awg">>, 0)
  /\ UNCHANGED <<controller, run, left, pulse, swtrig, acquisitions, history>>

-----------------------------------------------------------------------------
ControllerStep ==
  \/ Prepare \/ FlushMonitor \/ StartFollowers \/ Trigger
  \/ PollAndCheck \/ WaitTimesOut
  \/ \E q \in QAs : Read(q)
  \/ StepDone \/ ReportStepError

InstrumentStep ==
  \/ \E f \in Followers :
       SequencerArmed(f) \/ SelfTriggers(f) \/ SequencerStops(f)
  \/ LeaderTriggers
  \/ \E q \in QAs : EmitsShot(q)

Next ==
  \/ ControllerStep
  \/ PrepareRaises \/ Abort \/ ReadAsserts
  \/ InstrumentStep

Spec == Init /\ [][Next]_vars

\* The controller runs on, and its waits are bounded by the clock; nothing
\* is assumed of the instruments.
FairSpec == Spec /\ WF_vars(ControllerStep)

-----------------------------------------------------------------------------
TypeOK ==
  /\ pc \in {"prepare", "flush", "followers", "ready", "trigger", "wait",
             "read", "done", "aborted", "raised"}
  /\ step \in Steps /\ try \in 1 .. MaxTries
  /\ awaited \subseteq EventNodes
  /\ toRead \subseteq QAs
  /\ results \in [Steps -> [QAs -> Result \cup {None}]]
  /\ errors \in [Steps -> 0 .. MaxTries]
  /\ late \in [ready : BOOLEAN, done : BOOLEAN]
  /\ events \in [EventNodes -> Seq({0, 1})]
  /\ awg \in [Followers -> {"off", "arming", "armed", "running"}]
  /\ run \in [Followers -> Attempts \cup {None}]
  /\ left \in [Followers -> 0 .. Shots]
  /\ arm \in [QAs -> Attempts \cup {None}]
  /\ acquired \in [QAs -> 0 .. Shots]
  /\ vec \in [QAs -> SUBSET Shot]
  /\ pulse \in BOOLEAN
  /\ swtrig \subseteq Followers
  /\ succeeded \subseteq Steps
  /\ overrun \in BOOLEAN

Over == {s \in Steps : s < step \/ pc = "done"}

(* A step the runner has left behind has a result for every device that     *)
(* produces one, or each of its attempts was reported: NaN is never silent. *)
NoSilentLoss ==
  \A s \in Over :
    IF s \in succeeded THEN \A q \in QAs : results[s][q] # None
                      ELSE errors[s] = MaxTries

(* What is kept of a step that succeeded, be it after some attempts that    *)
(* failed half way through reading, is of its last attempt, for all devices.*)
OneAttempt ==
  \A s \in succeeded, q \in QAs : results[s][q].try = errors[s] + 1

(* A device that counts its shots never has an older measurement stored,    *)
(* not even when the stop conditions were not fulfilled in time: each shot  *)
(* was recorded under the arming of the attempt that stored it.             *)
NeverStale ==
  \A s \in Steps, q \in Counted : Stored(s, q) =>
    /\ results[s][q].shots # {}
    /\ \A x \in results[s][q].shots : x.arm = <<s, results[s][q].try>>

(* As long as no attempt began while a sequencer was still busy, what such  *)
(* a device has stored was emitted by the run of the attempt that stored it.*)
OfThisRun ==
  ~overrun =>
    \A s \in Steps, q \in Counted : Stored(s, q) =>
      \A x \in results[s][q].shots : x.run = <<s, results[s][q].try>>

(* The stop conditions fulfilled: the sequencers have stopped and, where    *)
(* that is waited for, the acquisitions are complete.  No event from before *)
(* the start passes for one of them.                                        *)
StoppedWhenRead ==
  pc = "read" /\ ~late.done /\ ~overrun =>
    /\ \A f \in Followers : awg[f] = "off"
    /\ \A q \in Counted : arm[q] = None

(* The leader starts after the followers so that no trigger is lost: they   *)
(* are all armed when it comes, unless the wait for them timed out or they  *)
(* were still busy with an earlier attempt.                                 *)
NoTriggerLost ==
  [][LeaderTriggers =>
       \/ late.ready \/ overrun
       \/ \A f \in Followers \ (SelfTriggering \cup NoReadyWait) : awg[f] = "armed"]_vars

(* However the instruments behave, the experiment comes to an end.          *)
Ends == <>(pc \in {"done", "aborted", "raised"})

(* The refinement mapping to StepContract.                                  *)
CurrentStep == IF pc = "done" THEN NumSteps + 1 ELSE step
StoredTries == [s \in Steps |-> [q \in QAs |->
                  IF Stored(s, q) THEN results[s][q].try ELSE 0]]
GivenUp == pc \in {"aborted", "raised"}

Contract == INSTANCE StepContract WITH
  Devices <- QAs, current <- CurrentStep, reports <- errors,
  stored <- StoredTries, kept <- succeeded, closed <- GivenUp

(* The contract of the steps: what instruments, waits and events do can not *)
(* be seen in it, and a step that is over is never touched again.           *)
KeepsContract == Contract!Spec
=============================================================================
