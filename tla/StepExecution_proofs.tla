------------------------ MODULE StepExecution_proofs ------------------------
(***************************************************************************)
(* Proofs about the step execution: for any devices, steps, attempts and   *)
(* shots, no step is lost in silence, no result mixes two attempts, and    *)
(* what a counting device has stored was recorded in the attempt that      *)
(* stored it.                                                              *)
(***************************************************************************)
EXTENDS StepExecution, SequenceTheorems, DataLemmas, TLAPS

(* The report of an attempt and its number; an acquisition that is on has   *)
(* room for another shot; a sequencer that is not off was started.          *)
Counting ==
  /\ pc # "done" => errors[step] = try - 1
  /\ \A s \in Steps : s > step => errors[s] = 0
  /\ \A q \in QAs : arm[q] # None => acquired[q] < Shots
  /\ \A f \in Followers : awg[f] # "off" => run[f] # None

TypeInv == TypeOK /\ Counting

(* Steps succeed in their order; what has been read in this attempt is      *)
(* stored as such.                                                          *)
Succeeding ==
  /\ \A s \in succeeded : s <= step /\ (s = step => pc = "done")
  /\ pc = "done" => step = NumSteps
  /\ pc = "read" => \A q \in QAs \ toRead :
       results[step][q] # None /\ results[step][q].try = try

LossInv == TypeInv /\ Succeeding /\ NoSilentLoss /\ OneAttempt

InAttempt == pc \in {"flush", "followers", "ready", "trigger", "wait", "read"}
Now == <<step, try>>

(* What a vector holds when its counter is not 0 was recorded under the     *)
(* arming of the running attempt.                                           *)
Recording ==
  InAttempt =>
    \A q \in QAs :
      /\ arm[q] \in {None, Now}
      /\ acquired[q] > 0 => /\ vec[q] # {}
                            /\ \A x \in vec[q] : x.arm = Now

StaleInv == TypeInv /\ Recording /\ NeverStale

(* While no attempt began with a busy sequencer: they are off until they    *)
(* are started, and then they run for this attempt.                         *)
Started == pc \in {"ready", "trigger", "wait", "read"}

Running ==
  /\ pc \in {"flush", "followers"} =>
       /\ \A f \in Followers : awg[f] = "off"
       /\ \A q \in QAs : acquired[q] = 0
  /\ Started =>
       /\ \A f \in Followers : run[f] = Now
       /\ \A q \in QAs : acquired[q] > 0 => \A x \in vec[q] : x.run = Now

RunInv == StaleInv /\ (~overrun => Running) /\ OfThisRun

(* An event that has not been consumed tells what is still the case.        *)
Pending(n, v) == \E i \in 1 .. Len(events[n]) : events[n][i] = v

Stopped(n) == IF n[2] = "awg" THEN awg[n[1]] = "off" ELSE arm[n[1]] = None

Stopping ==
  /\ pc = "followers" => \A n \in EventNodes : events[n] = << >>
  /\ Started => \A n \in EventNodes : Pending(n, 0) => Stopped(n)
  /\ pc = "wait" => \A n \in EventNodes \ awaited : Stopped(n)
  /\ pc = "read" /\ ~late.done => \A n \in EventNodes : Stopped(n)

StopInv == RunInv /\ (~overrun => Stopping) /\ StoppedWhenRead

(* The followers that wait for the leader's trigger do so until it comes.   *)
Triggered == Followers \ SelfTriggering

Arming ==
  /\ pulse /\ pc \in {"flush", "followers", "ready", "trigger"} => Triggered = {}
  /\ pulse \/ pc \in {"ready", "trigger"} =>
       \A f \in Triggered : awg[f] \in {"arming", "armed"}
  /\ pc = "ready" => \A f \in Triggered \ NoReadyWait :
       Pending(<<f, "awg">>, 1) \/ <<f, "awg">> \notin awaited => awg[f] = "armed"
  /\ (pulse \/ pc = "trigger") /\ ~late.ready =>
       \A f \in Triggered \ NoReadyWait : awg[f] = "armed"

TriggerInv == StopInv /\ swtrig \subseteq SelfTriggering /\ (~overrun => Arming)

-----------------------------------------------------------------------------
LEMMA RestType ==
  ASSUME TypeOK, NEW n \in EventNodes
  PROVE  Rest(n) \in Seq({0, 1})
<1> DEFINE T == {i \in 1 .. Len(events[n]) : events[n][i] = Expected}
           first == CHOOSE i \in 1 .. Len(events[n]) :
                      /\ events[n][i] = Expected
                      /\ \A j \in 1 .. i - 1 : events[n][j] # Expected
<1>1. events[n] \in Seq({0, 1}) /\ Len(events[n]) \in Nat
  BY DEF TypeOK
<1>2. CASE Seen(n)
  <2>1. T # {} /\ T \in SUBSET Nat
    BY <1>1, <1>2 DEF Seen
  <2>2. PICK m \in T : \A k \in T : m <= k
    BY <2>1, Least
  <2>3. m \in 1 .. Len(events[n]) /\ events[n][m] = Expected
        /\ \A j \in 1 .. m - 1 : events[n][j] # Expected
    BY <1>1, <2>2
  <2>4. first \in 1 .. Len(events[n])
    BY <2>3
  <2>5. \A i \in first + 1 .. Len(events[n]) : events[n][i] \in {0, 1}
    BY <1>1, <2>4
  <2>6. SubSeq(events[n], first + 1, Len(events[n])) \in Seq({0, 1})
    BY <1>1, <2>4, <2>5, SubSeqProperties
  <2> QED BY <1>2, <2>6 DEF Rest
<1>3. CASE ~Seen(n)
  BY <1>3 DEF Rest
<1> QED BY <1>2, <1>3

LEMMA SendType ==
  ASSUME TypeOK, NEW n \in EventNodes, NEW v \in {0, 1}, Send(n, v)
  PROVE  events' \in [EventNodes -> Seq({0, 1})]
  BY DEF Send, TypeOK

LEMMA RecordsType ==
  ASSUME TypeInv, NEW q \in QAs, Records(q), run[q] # None
  PROVE  /\ arm' \in [QAs -> Attempts \cup {None}]
         /\ acquired' \in [QAs -> 0 .. Shots]
         /\ vec' \in [QAs -> SUBSET Shot]
         /\ events' \in [EventNodes -> Seq({0, 1})]
         /\ \A p \in QAs : arm'[p] # None => acquired'[p] < Shots
<1> DEFINE shot == [run |-> run[q], arm |-> arm[q]]
<1> USE NumbersAssumption, FollowersAssumption, KindsAssumption
<1>1. arm[q] # None /\ acquired[q] < Shots
  BY DEF Records, TypeInv, Counting
<1>2. shot \in Shot
  BY <1>1 DEF TypeInv, TypeOK, Shot
<1>3. vec' \in [QAs -> SUBSET Shot]
  BY <1>2 DEF Records, TypeInv, TypeOK
<1>4. /\ arm' \in [QAs -> Attempts \cup {None}]
      /\ acquired' \in [QAs -> 0 .. Shots]
      /\ \A p \in QAs : arm'[p] # None => acquired'[p] < Shots
  BY <1>1 DEF Records, TypeInv, TypeOK, Counting
<1>5. q \in Counted => <<q, "result">> \in EventNodes
  BY DEF EventNodes
<1>6. events' \in [EventNodes -> Seq({0, 1})]
  BY <1>5, SendType DEF Records, TypeInv, TypeOK
<1> QED BY <1>3, <1>4, <1>6

LEMMA TypeStep == TypeInv /\ [Next]_vars => TypeInv'
<1> SUFFICES ASSUME TypeInv, [Next]_vars PROVE TypeInv'
  OBVIOUS
<1> USE NumbersAssumption, FollowersAssumption, KindsAssumption DEF Steps
<1>0. TypeOK /\ Counting
  BY DEF TypeInv
<1>a. <<step, try>> \in Attempts /\ None \notin Attempts
  BY <1>0, NoneAssumption DEF TypeOK, Attempts
<1>1. CASE Prepare
  <2>1. \A n \in EventNodes : events[n] \o <<0, 1>> \in Seq({0, 1})
    BY <1>0 DEF TypeOK
  <2>2. events' \in [EventNodes -> Seq({0, 1})]
    BY <1>0, <1>1, <2>1 DEF Prepare, TypeOK
  <2> QED BY <1>0, <1>1, <1>a, <2>2 DEF Prepare, TypeInv, TypeOK, Counting, sequencers
<1>2. CASE FlushMonitor
  BY <1>0, <1>2 DEF FlushMonitor, TypeInv, TypeOK, Counting, sequencers, acquisitions, history
<1>3. CASE StartFollowers
  <2>1. PICK ignored \in SUBSET {f \in Followers : awg[f] = "running"} :
          /\ awg' = [f \in Followers |->
                       IF f \in ignored \/ awg[f] = "armed" THEN awg[f] ELSE "arming"]
          /\ run' = [f \in Followers |->
                       IF f \in ignored THEN run[f] ELSE <<step, try>>]
          /\ events' = [n \in EventNodes |->
                       IF /\ n[2] = "awg"
                          /\ n[1] \in ignored \/ awg[n[1]] = "armed"
                       THEN Append(events[n], 1) ELSE events[n]]
    BY <1>3 DEF StartFollowers
  <2>2. events' \in [EventNodes -> Seq({0, 1})]
    BY <1>0, <2>1 DEF TypeOK
  <2>3. /\ awg' \in [Followers -> {"off", "arming", "armed", "running"}]
        /\ run' \in [Followers -> Attempts \cup {None}]
        /\ \A f \in Followers : awg'[f] # "off" => run'[f] # None
    BY <1>0, <1>a, <2>1 DEF TypeOK, Counting
  <2>4. ReadyNodes \subseteq EventNodes
    BY DEF ReadyNodes, EventNodes
  <2> QED BY <1>0, <1>3, <2>2, <2>3, <2>4
          DEF StartFollowers, TypeInv, TypeOK, Counting, acquisitions, history
<1>4. CASE Trigger
  BY <1>0, <1>4 DEF Trigger, DoneNodes, TypeInv, TypeOK, Counting, acquisitions, history
<1>5. CASE PollAndCheck
  <2>1. events' \in [EventNodes -> Seq({0, 1})]
    BY <1>0, <1>5, RestType DEF PollAndCheck, TypeOK
  <2> QED BY <1>0, <1>5, <2>1
          DEF PollAndCheck, AfterWait, Producing, TypeInv, TypeOK, Counting,
              sequencers, acquisitions, history
<1>6. CASE WaitTimesOut
  BY <1>0, <1>6 DEF WaitTimesOut, AfterWait, Producing, TypeInv, TypeOK, Counting,
                    sequencers, acquisitions, history
<1>7. ASSUME NEW q \in QAs, Read(q) PROVE TypeInv'
  <2>1. [try |-> try, shots |-> vec[q]] \in Result
    BY <1>0 DEF Result, TypeOK
  <2>2. results' \in [Steps -> [QAs -> Result \cup {None}]]
    BY <1>0, <1>7, <2>1 DEF Read, TypeOK
  <2> QED BY <1>0, <1>7, <2>2
          DEF Read, TypeInv, TypeOK, Counting, sequencers, acquisitions, history
<1>8. CASE StepDone
  BY <1>0, <1>8 DEF StepDone, NextStep, TypeInv, TypeOK, Counting, sequencers, acquisitions
<1>9. CASE ReportStepError
  <2>1. pc # "done"
    BY <1>9 DEF ReportStepError, Fails
  <2>2. errors' = [errors EXCEPT ![step] = try] /\ try \in 1 .. MaxTries
    BY <1>0, <1>9, <2>1 DEF ReportStepError, TypeOK, Counting
  <2> QED BY <1>0, <1>9, <2>1, <2>2
          DEF ReportStepError, NextStep, TypeInv, TypeOK, Counting, sequencers,
              acquisitions, history
<1>10. CASE PrepareRaises \/ Abort \/ ReadAsserts
  BY <1>0, <1>10 DEF PrepareRaises, Abort, ReadAsserts, TypeInv, TypeOK, Counting,
                     sequencers, acquisitions, history
<1>11. ASSUME NEW f \in Followers, SequencerArmed(f) PROVE TypeInv'
  <2>1. events' \in [EventNodes -> Seq({0, 1})]
    BY <1>0, <1>11, SendType DEF SequencerArmed, EventNodes
  <2> QED BY <1>0, <1>11, <2>1
          DEF SequencerArmed, TypeInv, TypeOK, Counting, controller, acquisitions, history
<1>12. ASSUME NEW f \in Followers, SelfTriggers(f) PROVE TypeInv'
  BY <1>0, <1>12 DEF SelfTriggers, Go, TypeInv, TypeOK, Counting, controller,
                     acquisitions, history
<1>13. ASSUME NEW f \in Followers, SequencerStops(f) PROVE TypeInv'
  <2>1. events' \in [EventNodes -> Seq({0, 1})]
    BY <1>0, <1>13, SendType DEF SequencerStops, EventNodes
  <2> QED BY <1>0, <1>13, <2>1
          DEF SequencerStops, TypeInv, TypeOK, Counting, controller, acquisitions, history
<1>14. CASE LeaderTriggers
  <2>1. /\ awg' \in [Followers -> {"off", "arming", "armed", "running"}]
        /\ left' \in [Followers -> 0 .. Shots]
        /\ \A f \in Followers : awg'[f] # "off" => awg[f] # "off"
    BY <1>0, <1>14 DEF LeaderTriggers, Go, TypeOK
  <2> QED BY <1>0, <1>14, <2>1
          DEF LeaderTriggers, TypeInv, TypeOK, Counting, controller, acquisitions, history
<1>15. ASSUME NEW q \in QAs, EmitsShot(q) PROVE TypeInv'
  <2>1. run[q] # None
    BY <1>0, <1>15 DEF EmitsShot, Counting
  <2>2. CASE Records(q)
    <3>1. /\ arm' \in [QAs -> Attempts \cup {None}]
          /\ acquired' \in [QAs -> 0 .. Shots]
          /\ vec' \in [QAs -> SUBSET Shot]
          /\ events' \in [EventNodes -> Seq({0, 1})]
          /\ \A p \in QAs : arm'[p] # None => acquired'[p] < Shots
      BY <2>1, <2>2, RecordsType
    <3>2. left' \in [Followers -> 0 .. Shots]
      BY <1>0, <1>15 DEF EmitsShot, TypeOK
    <3> QED BY <1>0, <1>15, <3>1, <3>2
            DEF EmitsShot, TypeInv, TypeOK, Counting, controller, history
  <2>3. CASE UNCHANGED <<acquisitions, events>>
    BY <1>0, <1>15, <2>3 DEF EmitsShot, TypeInv, TypeOK, Counting, controller,
                             acquisitions, history
  <2> QED BY <1>15, <2>2, <2>3 DEF EmitsShot
<1>16. CASE UNCHANGED vars
  BY <1>0, <1>16 DEF vars, TypeInv, TypeOK, Counting, controller, sequencers,
                     acquisitions, history
<1> QED
  BY <1>1, <1>2, <1>3, <1>4, <1>5, <1>6, <1>7, <1>8, <1>9, <1>10, <1>11, <1>12,
     <1>13, <1>14, <1>15, <1>16 DEF Next, ControllerStep, InstrumentStep

LEMMA TypeInit == Init => TypeInv
<1> SUFFICES ASSUME Init PROVE TypeInv
  OBVIOUS
<1> USE NumbersAssumption DEF Steps
<1>1. events \in [EventNodes -> Seq({0, 1})]
  BY DEF Init
<1>2. results \in [Steps -> [QAs -> Result \cup {None}]]
  BY DEF Init
<1>5. /\ step \in Steps /\ try \in 1 .. MaxTries
      /\ errors \in [Steps -> 0 .. MaxTries] /\ left \in [Followers -> 0 .. Shots]
      /\ acquired \in [QAs -> 0 .. Shots] /\ vec \in [QAs -> SUBSET Shot]
  BY DEF Init
<1>3. TypeOK
  BY <1>1, <1>2, <1>5 DEF Init, TypeOK
<1>4. Counting
  BY DEF Init, Counting
<1> QED BY <1>3, <1>4 DEF TypeInv

(* Every variable has its type; no step is reported more often than it has  *)
(* attempts.                                                                *)
THEOREM Typing == Spec => []TypeOK
<1>1. TypeInv => TypeOK
  BY DEF TypeInv
<1> QED BY TypeInit, TypeStep, <1>1, PTL DEF Spec

-----------------------------------------------------------------------------
LEMMA LossInit == Init => LossInv
  BY TypeInit, NumbersAssumption
     DEF Init, LossInv, Succeeding, NoSilentLoss, OneAttempt, Over, Steps

(* Only Read changes what is stored, only the end of an attempt changes     *)
(* errors and succeeded.                                                    *)
LEMMA LossUnchanged ==
  ASSUME LossInv, TypeInv',
         UNCHANGED <<step, try, results, errors, succeeded>>,
         pc' = "done" <=> pc = "done",
         pc' = "read" => \/ pc = "read" /\ toRead' = toRead
                         \/ toRead' = QAs
  PROVE  LossInv'
  BY DEF LossInv, Succeeding, NoSilentLoss, OneAttempt, Over

(* The end of an attempt, and with it perhaps of the step.                  *)
LEMMA LossNextStep ==
  ASSUME LossInv, TypeInv', NextStep, pc # "done", UNCHANGED results,
         \/ /\ succeeded' = succeeded \cup {step} /\ errors' = errors
            /\ \A q \in QAs : results[step][q] # None /\ results[step][q].try = try
         \/ /\ succeeded' = succeeded /\ try = MaxTries
            /\ errors' = [errors EXCEPT ![step] = @ + 1]
  PROVE  LossInv'
<1> USE NumbersAssumption DEF Steps
<1>1. TypeOK /\ Counting /\ Succeeding /\ NoSilentLoss /\ OneAttempt
  BY DEF LossInv, TypeInv
<1>2. /\ step \in 1 .. NumSteps /\ try \in 1 .. MaxTries
      /\ errors \in [Steps -> 0 .. MaxTries] /\ errors[step] = try - 1
      /\ succeeded \subseteq 1 .. NumSteps
  BY <1>1 DEF TypeOK, Counting
<1>a. \A s \in succeeded : s <= step /\ s # step
  BY <1>1 DEF Succeeding
<1>b. /\ succeeded' \subseteq succeeded \cup {step}
      /\ \A s \in succeeded : s < step
  <2>1. \A s \in succeeded : s \in Int
    BY <1>2
  <2>2. \A s \in succeeded : s < step
    BY <1>2, <1>a, <2>1
  <2> QED BY <2>2
<1>c. \/ step' = step + 1 /\ pc' = "prepare" /\ step < NumSteps
      \/ step' = step /\ pc' = "done" /\ step = NumSteps
  BY <1>2 DEF NextStep
<1>d. \A s \in Steps : s # step => errors'[s] = errors[s]
  BY <1>2
<1>3. Succeeding'
  BY <1>2, <1>b, <1>c DEF Succeeding
<1>4. \A s \in Over' : s = step \/ s \in Over
  BY <1>2 DEF Over, NextStep
<1>5. \A s \in Over : s # step
  BY <1>2 DEF Over
<1>e. IF step \in succeeded' THEN \A q \in QAs : results[step][q] # None
                             ELSE errors'[step] = MaxTries
  BY <1>2, <1>b
<1>6. NoSilentLoss'
  BY <1>1, <1>4, <1>5, <1>d, <1>e DEF NoSilentLoss, Over
<1>7. step \in succeeded' =>
        \A q \in QAs : results[step][q].try = errors'[step] + 1
  BY <1>2, <1>b
<1>8. OneAttempt'
  BY <1>1, <1>2, <1>b, <1>d, <1>7 DEF OneAttempt
<1> QED BY <1>3, <1>6, <1>8 DEF LossInv

LEMMA LossStep == LossInv /\ [Next]_vars => LossInv'
<1> SUFFICES ASSUME LossInv, [Next]_vars PROVE LossInv'
  OBVIOUS
<1> USE NumbersAssumption, FollowersAssumption, KindsAssumption DEF Steps
<1>0. TypeInv /\ TypeOK /\ Counting /\ Succeeding /\ NoSilentLoss /\ OneAttempt
  BY DEF LossInv, TypeInv
<1>a. TypeInv'
  BY <1>0, TypeStep
<1>1. CASE Prepare
  BY <1>1, <1>a, LossUnchanged DEF Prepare
<1>2. CASE FlushMonitor
  BY <1>2, <1>a, LossUnchanged DEF FlushMonitor, history
<1>3. CASE StartFollowers
  BY <1>3, <1>a, LossUnchanged DEF StartFollowers, history
<1>4. CASE Trigger
  BY <1>4, <1>a, LossUnchanged DEF Trigger, history
<1>5. CASE PollAndCheck
  BY <1>5, <1>a, LossUnchanged DEF PollAndCheck, AfterWait, Producing, history
<1>6. CASE WaitTimesOut
  BY <1>6, <1>a, LossUnchanged DEF WaitTimesOut, AfterWait, Producing, history
<1>7. ASSUME NEW q \in QAs, Read(q) PROVE LossInv'
  <2> DEFINE new == [try |-> try, shots |-> vec[q]]
  <2>1. new # None
    BY <1>0, NoneAssumption DEF Result, TypeOK
  <2>2. /\ results'[step][q] = new /\ new.try = try
        /\ \A s \in Steps, p \in QAs : s # step \/ p # q =>
             results'[s][p] = results[s][p]
    BY <1>0, <1>7 DEF Read, TypeOK
  <2>3. \A s \in Over \cup succeeded : s # step
    BY <1>0, <1>7 DEF Read, Over, Succeeding, TypeOK
  <2>4. Over' = Over /\ Over \subseteq Steps /\ succeeded \subseteq Steps
    BY <1>0, <1>7 DEF Read, Over, TypeOK, history
  <2>5. Succeeding'
    BY <1>0, <1>7, <2>1, <2>2 DEF Read, Succeeding, history, TypeOK
  <2>6. NoSilentLoss' /\ OneAttempt'
    BY <1>0, <1>7, <2>2, <2>3, <2>4 DEF Read, NoSilentLoss, OneAttempt, history
  <2> QED BY <1>a, <2>5, <2>6 DEF LossInv
<1>8. CASE StepDone
  <2>1. \A q \in QAs : results[step][q] # None /\ results[step][q].try = try
    BY <1>0, <1>8 DEF StepDone, Succeeding
  <2> QED BY <1>8, <1>a, <2>1, LossNextStep DEF StepDone
<1>9. CASE ReportStepError
  <2>1. pc # "done" /\ pc' # "read" /\ UNCHANGED <<results, succeeded>>
        /\ errors' = [errors EXCEPT ![step] = @ + 1]
    BY <1>9 DEF ReportStepError, Fails, NextStep, history
  <2>2. CASE try < MaxTries
    <3>1. step' = step /\ try' = try + 1 /\ pc' = "prepare"
      BY <1>9, <2>2 DEF ReportStepError
    <3>2. Over' = Over /\ \A s \in Over : s # step
      BY <1>0, <2>1, <3>1 DEF Over, TypeOK
    <3>3. \A s \in succeeded : s # step
      BY <1>0, <2>1 DEF Succeeding
    <3>4. Succeeding'
      BY <1>0, <2>1, <3>1, <3>3 DEF Succeeding
    <3>5. NoSilentLoss' /\ OneAttempt'
      BY <1>0, <2>1, <3>2, <3>3 DEF NoSilentLoss, OneAttempt, TypeOK, Over
    <3> QED BY <1>a, <3>4, <3>5 DEF LossInv
  <2>3. CASE ~(try < MaxTries)
    <3>1. NextStep /\ try = MaxTries
      BY <1>0, <1>9, <2>3 DEF ReportStepError, TypeOK
    <3> QED BY <1>a, <2>1, <3>1, LossNextStep
  <2> QED BY <2>2, <2>3
<1>10. CASE PrepareRaises \/ Abort \/ ReadAsserts
  BY <1>10, <1>a, LossUnchanged DEF PrepareRaises, Abort, ReadAsserts, history
<1>11. CASE InstrumentStep \/ UNCHANGED vars
  <2>1. UNCHANGED <<controller, history>>
    BY <1>11 DEF InstrumentStep, SequencerArmed, SelfTriggers, SequencerStops,
                 LeaderTriggers, EmitsShot, vars
  <2> QED BY <2>1, <1>a, LossUnchanged DEF controller, history
<1> QED
  BY <1>1, <1>2, <1>3, <1>4, <1>5, <1>6, <1>7, <1>8, <1>9, <1>10, <1>11
     DEF Next, ControllerStep

(* For any number of devices, steps and attempts: a step left behind has    *)
(* succeeded, with a result of every device, or each of its attempts was    *)
(* reported.                                                                *)
THEOREM Loss == Spec => []NoSilentLoss
<1>1. LossInv => NoSilentLoss
  BY DEF LossInv
<1> QED BY LossInit, LossStep, <1>1, PTL DEF Spec

(* A step that succeeded keeps the results of its last attempt only.        *)
THEOREM LastAttempt == Spec => []OneAttempt
<1>1. LossInv => OneAttempt
  BY DEF LossInv
<1> QED BY LossInit, LossStep, <1>1, PTL DEF Spec

-----------------------------------------------------------------------------
LEMMA StaleInit == Init => StaleInv
  BY TypeInit, KindsAssumption DEF Init, StaleInv, Recording, NeverStale, InAttempt, Stored

(* Between the preparation and the end of an attempt only the instruments   *)
(* touch what is recorded.                                                  *)
LEMMA StaleUnchanged ==
  ASSUME StaleInv, TypeInv', UNCHANGED <<results, acquisitions>>,
         InAttempt' => InAttempt /\ UNCHANGED <<step, try>>
  PROVE  StaleInv'
  BY DEF StaleInv, Recording, NeverStale, Now, Stored, acquisitions

LEMMA StaleStep == StaleInv /\ [Next]_vars => StaleInv'
<1> SUFFICES ASSUME StaleInv, [Next]_vars PROVE StaleInv'
  OBVIOUS
<1> USE NumbersAssumption, FollowersAssumption, KindsAssumption DEF Steps
<1>0. TypeInv /\ TypeOK /\ Counting /\ Recording /\ NeverStale
  BY DEF StaleInv, TypeInv
<1>a. TypeInv'
  BY <1>0, TypeStep
<1>1. CASE Prepare
  BY <1>0, <1>1, <1>a DEF Prepare, StaleInv, Recording, NeverStale, Now, Stored
<1>2. CASE FlushMonitor
  BY <1>2, <1>a, StaleUnchanged DEF FlushMonitor, InAttempt
<1>3. CASE StartFollowers
  BY <1>3, <1>a, StaleUnchanged DEF StartFollowers, InAttempt
<1>4. CASE Trigger
  BY <1>4, <1>a, StaleUnchanged DEF Trigger, InAttempt
<1>5. CASE PollAndCheck
  BY <1>5, <1>a, StaleUnchanged DEF PollAndCheck, AfterWait, InAttempt
<1>6. CASE WaitTimesOut
  BY <1>6, <1>a, StaleUnchanged DEF WaitTimesOut, AfterWait, InAttempt
<1>7. ASSUME NEW q \in QAs, Read(q) PROVE StaleInv'
  <2> DEFINE new == [try |-> try, shots |-> vec[q]]
  <2>1. /\ results'[step][q] = new /\ new.try = try /\ new.shots = vec[q]
        /\ \A s \in Steps, p \in QAs : s # step \/ p # q =>
             results'[s][p] = results[s][p]
    BY <1>0, <1>7 DEF Read, TypeOK
  <2>2. q \in Counted => /\ vec[q] # {} /\ \A x \in vec[q] : x.arm = <<step, try>>
    BY <1>0, <1>7 DEF Read, CheckPasses, Recording, InAttempt, Now, TypeOK
  <2>3. NeverStale'
    BY <1>0, <1>7, <2>1, <2>2 DEF Read, NeverStale, Stored
  <2>4. Recording'
    BY <1>0, <1>7 DEF Read, Recording, InAttempt, Now, acquisitions
  <2> QED BY <1>a, <2>3, <2>4 DEF StaleInv
<1>8. CASE StepDone
  BY <1>8, <1>a, StaleUnchanged DEF StepDone, NextStep, InAttempt
<1>9. CASE ReportStepError
  BY <1>9, <1>a, StaleUnchanged DEF ReportStepError, NextStep, InAttempt
<1>10. CASE PrepareRaises \/ Abort \/ ReadAsserts
  BY <1>10, <1>a, StaleUnchanged DEF PrepareRaises, Abort, ReadAsserts, InAttempt
<1>11. ASSUME NEW q \in QAs, EmitsShot(q), Records(q) PROVE StaleInv'
  <2> DEFINE shot == [run |-> run[q], arm |-> arm[q]]
  <2>1. /\ arm[q] # None /\ shot.arm = arm[q]
        /\ vec' = [vec EXCEPT ![q] = IF acquired[q] = 0 THEN {shot} ELSE @ \cup {shot}]
        /\ \A p \in QAs : arm'[p] \in {None, arm[p]}
        /\ \A p \in QAs : p # q => acquired'[p] = acquired[p]
    BY <1>0, <1>11 DEF Records, TypeOK
  <2>2. InAttempt' = InAttempt /\ Now' = Now /\ UNCHANGED <<results, step, try>>
    BY <1>11 DEF EmitsShot, controller, InAttempt, Now
  <2>3. InAttempt => \A x \in vec'[q] : x.arm = Now
    <3>1. acquired[q] = 0 \/ acquired[q] > 0
      BY <1>0 DEF TypeOK
    <3>2. CASE acquired[q] = 0
      <4>1. vec'[q] = {shot}
        BY <1>0, <2>1, <3>2 DEF TypeOK
      <4> QED BY <1>0, <2>1, <4>1 DEF Recording
    <3>3. CASE acquired[q] > 0
      <4>1. vec'[q] = vec[q] \cup {shot}
        BY <1>0, <2>1, <3>3 DEF TypeOK
      <4> QED BY <1>0, <2>1, <3>3, <4>1 DEF Recording
    <3> QED BY <3>1, <3>2, <3>3
  <2>4. /\ vec'[q] # {}
        /\ \A p \in QAs : p # q => vec'[p] = vec[p]
    BY <1>0, <2>1 DEF TypeOK
  <2>5. Recording'
    BY <1>0, <2>1, <2>2, <2>3, <2>4 DEF Recording
  <2>6. NeverStale'
    BY <1>0, <2>2 DEF NeverStale, Stored
  <2> QED BY <1>a, <2>5, <2>6 DEF StaleInv
<1>12. ASSUME UNCHANGED <<controller, acquisitions>> PROVE StaleInv'
  BY <1>12, <1>a, StaleUnchanged DEF controller, InAttempt
<1>13. InstrumentStep \/ UNCHANGED vars =>
         \/ UNCHANGED <<controller, acquisitions>>
         \/ \E q \in QAs : EmitsShot(q) /\ Records(q)
  BY DEF InstrumentStep, SequencerArmed, SelfTriggers, SequencerStops,
         LeaderTriggers, EmitsShot, vars
<1> QED
  BY <1>1, <1>2, <1>3, <1>4, <1>5, <1>6, <1>7, <1>8, <1>9, <1>10, <1>11, <1>12,
     <1>13 DEF Next, ControllerStep

(* A counting device never has an older measurement stored, whatever the    *)
(* waits, the triggers and the earlier attempts did.                        *)
THEOREM Freshness == Spec => []NeverStale
<1>1. StaleInv => NeverStale
  BY DEF StaleInv
<1> QED BY StaleInit, StaleStep, <1>1, PTL DEF Spec

-----------------------------------------------------------------------------
LEMMA RunInit == Init => RunInv
  BY StaleInit, KindsAssumption
     DEF Init, RunInv, Running, OfThisRun, Started, Stored

LEMMA RunUnchanged ==
  ASSUME RunInv, StaleInv', UNCHANGED <<results, vec, acquired, run, overrun>>,
         \A f \in Followers : awg[f] = "off" => awg'[f] = "off",
         pc' \in {"flush", "followers"} => pc \in {"flush", "followers"},
         Started' => Started /\ UNCHANGED <<step, try>>
  PROVE  RunInv'
  BY DEF RunInv, Running, OfThisRun, Now, Stored

LEMMA RunStep == RunInv /\ [Next]_vars => RunInv'
<1> SUFFICES ASSUME RunInv, [Next]_vars PROVE RunInv'
  OBVIOUS
<1> USE NumbersAssumption, FollowersAssumption, KindsAssumption DEF Steps
<1>0. /\ TypeInv /\ TypeOK /\ Counting /\ StaleInv /\ OfThisRun
      /\ ~overrun => Running
  BY DEF RunInv, StaleInv, TypeInv
<1>a. StaleInv'
  BY <1>0, StaleStep
<1>1. CASE Prepare
  <2>1. /\ UNCHANGED results /\ (~overrun' => ~overrun) /\ pc' = "flush"
        /\ ~overrun' => \A f \in Followers : awg'[f] = "off"
        /\ \A q \in QAs : acquired'[q] = 0
    BY <1>1 DEF Prepare, sequencers
  <2>2. OfThisRun'
    BY <1>0, <2>1 DEF OfThisRun, Stored
  <2>3. ~overrun' => Running'
    BY <2>1 DEF Running, Started
  <2> QED BY <1>a, <2>2, <2>3 DEF RunInv
<1>2. CASE FlushMonitor
  BY <1>2, <1>a, RunUnchanged DEF FlushMonitor, Started, sequencers, acquisitions, history
<1>3. CASE StartFollowers
  <2>1. UNCHANGED <<results, step, try, acquired, vec, overrun>> /\ pc = "followers" /\ pc' = "ready"
    BY <1>3 DEF StartFollowers, acquisitions, history
  <2>2. ~overrun => \A f \in Followers : run'[f] = Now
    BY <1>0, <1>3, <2>1 DEF StartFollowers, Running, Now
  <2>3. OfThisRun'
    BY <1>0, <2>1 DEF OfThisRun, Stored
  <2>4. ~overrun' => Running'
    BY <1>0, <2>1, <2>2 DEF Running, Started, Now
  <2> QED BY <1>a, <2>3, <2>4 DEF RunInv
<1>4. CASE Trigger
  BY <1>4, <1>a, RunUnchanged DEF Trigger, Started, acquisitions, history
<1>5. CASE PollAndCheck
  BY <1>5, <1>a, RunUnchanged
     DEF PollAndCheck, AfterWait, Started, sequencers, acquisitions, history
<1>6. CASE WaitTimesOut
  BY <1>6, <1>a, RunUnchanged
     DEF WaitTimesOut, AfterWait, Started, sequencers, acquisitions, history
<1>7. ASSUME NEW q \in QAs, Read(q) PROVE RunInv'
  <2> DEFINE new == [try |-> try, shots |-> vec[q]]
  <2>1. /\ results'[step][q] = new /\ new.try = try /\ new.shots = vec[q]
        /\ \A s \in Steps, p \in QAs : s # step \/ p # q =>
             results'[s][p] = results[s][p]
    BY <1>0, <1>7 DEF Read, TypeOK
  <2>2. q \in Counted /\ ~overrun => \A x \in vec[q] : x.run = <<step, try>>
    BY <1>0, <1>7 DEF Read, CheckPasses, Running, Started, Now
  <2>3. OfThisRun'
    BY <1>0, <1>7, <2>1, <2>2 DEF Read, OfThisRun, Stored, history
  <2>4. ~overrun' => Running'
    BY <1>0, <1>7 DEF Read, Running, Started, Now, sequencers, acquisitions, history
  <2> QED BY <1>a, <2>3, <2>4 DEF RunInv
<1>8. CASE StepDone
  BY <1>8, <1>a, RunUnchanged
     DEF StepDone, NextStep, Started, sequencers, acquisitions
<1>9. CASE ReportStepError
  BY <1>9, <1>a, RunUnchanged
     DEF ReportStepError, NextStep, Started, sequencers, acquisitions, history
<1>10. CASE PrepareRaises \/ Abort \/ ReadAsserts
  BY <1>10, <1>a, RunUnchanged
     DEF PrepareRaises, Abort, ReadAsserts, Started, sequencers, acquisitions, history
<1>11. ASSUME NEW q \in QAs, EmitsShot(q), Records(q) PROVE RunInv'
  <2> DEFINE shot == [run |-> run[q], arm |-> arm[q]]
  <2>1. /\ shot.run = run[q] /\ awg[q] # "off" /\ q \in Followers
        /\ vec' = [vec EXCEPT ![q] = IF acquired[q] = 0 THEN {shot} ELSE @ \cup {shot}]
        /\ \A p \in QAs : p # q => acquired'[p] = acquired[p] /\ vec'[p] = vec[p]
    BY <1>0, <1>11 DEF Records, EmitsShot, TypeOK
  <2>2. UNCHANGED <<pc, step, try, results, awg, run, overrun>>
    BY <1>11 DEF EmitsShot, controller, history
  <2>3. Started /\ ~overrun => \A x \in vec'[q] : x.run = Now
    <3>1. acquired[q] = 0 \/ acquired[q] > 0
      BY <1>0 DEF TypeOK
    <3>2. CASE acquired[q] = 0
      <4>1. vec'[q] = {shot}
        BY <1>0, <2>1, <3>2 DEF TypeOK
      <4> QED BY <1>0, <2>1, <4>1 DEF Running
    <3>3. CASE acquired[q] > 0
      <4>1. vec'[q] = vec[q] \cup {shot}
        BY <1>0, <2>1, <3>3 DEF TypeOK
      <4> QED BY <1>0, <2>1, <3>3, <4>1 DEF Running
    <3> QED BY <3>1, <3>2, <3>3
  <2>4. ~overrun' => Running'
    BY <1>0, <2>1, <2>2, <2>3 DEF Running, Started, Now
  <2>5. OfThisRun'
    BY <1>0, <2>2 DEF OfThisRun, Stored
  <2> QED BY <1>a, <2>4, <2>5 DEF RunInv
<1>12. ASSUME UNCHANGED <<controller, run, acquisitions, history>>,
              \A f \in Followers : awg[f] = "off" => awg'[f] = "off"
       PROVE  RunInv'
  BY <1>12, <1>a, RunUnchanged DEF controller, acquisitions, history, Started
<1>13. ASSUME NEW f \in Followers, SequencerArmed(f) \/ SequencerStops(f)
       PROVE  RunInv'
  BY <1>0, <1>12, <1>13 DEF SequencerArmed, SequencerStops, TypeOK
<1>14. ASSUME NEW f \in Followers, SelfTriggers(f) PROVE RunInv'
  BY <1>0, <1>12, <1>14 DEF SelfTriggers, Go, TypeOK
<1>15. CASE LeaderTriggers
  BY <1>0, <1>12, <1>15 DEF LeaderTriggers, Go, TypeOK
<1>16. ASSUME NEW q \in QAs, EmitsShot(q) PROVE RunInv'
  BY <1>11, <1>12, <1>16 DEF EmitsShot
<1>17. CASE UNCHANGED vars
  BY <1>12, <1>17 DEF vars, sequencers
<1> QED
  BY <1>1, <1>2, <1>3, <1>4, <1>5, <1>6, <1>7, <1>8, <1>9, <1>10, <1>13, <1>14,
     <1>15, <1>16, <1>17 DEF Next, ControllerStep, InstrumentStep

(* As long as no attempt began with a busy sequencer, a counting device has *)
(* shots stored of the run of the storing attempt only.                     *)
THEOREM ThisRun == Spec => []OfThisRun
<1>1. RunInv => OfThisRun
  BY DEF RunInv
<1> QED BY RunInit, RunStep, <1>1, PTL DEF Spec

-----------------------------------------------------------------------------
LEMMA StopInit == Init => StopInv
  BY RunInit DEF Init, StopInv, Stopping, StoppedWhenRead, Started

(* What is left after a poll was pending before.                            *)
LEMMA RestPending ==
  ASSUME TypeOK, NEW n \in EventNodes, NEW v, NEW i \in 1 .. Len(Rest(n)), Rest(n)[i] = v
  PROVE  Pending(n, v)
<1> DEFINE T == {k \in 1 .. Len(events[n]) : events[n][k] = Expected}
           first == CHOOSE k \in 1 .. Len(events[n]) :
                      /\ events[n][k] = Expected
                      /\ \A j \in 1 .. k - 1 : events[n][j] # Expected
<1>1. events[n] \in Seq({0, 1}) /\ Len(events[n]) \in Nat
  BY DEF TypeOK
<1>2. CASE Seen(n)
  <2>1. T # {} /\ T \in SUBSET Nat
    BY <1>1, <1>2 DEF Seen
  <2>2. PICK m \in T : \A k \in T : m <= k
    BY <2>1, Least
  <2>3. m \in 1 .. Len(events[n]) /\ events[n][m] = Expected
        /\ \A j \in 1 .. m - 1 : events[n][j] # Expected
    BY <1>1, <2>2
  <2>4. first \in 1 .. Len(events[n])
    BY <2>3
  <2>5. \A k \in first + 1 .. Len(events[n]) : events[n][k] \in {0, 1}
    BY <1>1, <2>4
  <2>6. Rest(n) = SubSeq(events[n], first + 1, Len(events[n]))
    BY <1>2 DEF Rest
  <2> HIDE DEF first, T
  <2>7. /\ Len(Rest(n)) = IF first + 1 <= Len(events[n]) THEN Len(events[n]) - first ELSE 0
        /\ \A k \in 1 .. Len(events[n]) - first : Rest(n)[k] = events[n][first + k]
    BY <1>1, <2>4, <2>5, <2>6, SubSeqProperties
  <2>8. i \in 1 .. Len(events[n]) - first /\ first + i \in 1 .. Len(events[n])
    BY <1>1, <2>4, <2>7
  <2> QED BY <2>7, <2>8 DEF Pending
<1>3. CASE ~Seen(n)
  BY <1>3 DEF Rest
<1> QED BY <1>2, <1>3

(* An event that is sent is the only one that becomes pending.              *)
LEMMA SendPending ==
  ASSUME TypeOK, NEW m \in EventNodes, NEW v \in {0, 1}, Send(m, v)
  PROVE  \A n \in EventNodes, w \in {0, 1} :
           Pending(n, w)' => Pending(n, w) \/ (n = m /\ w = v)
  BY DEF TypeOK, Send, Pending

(* A step of the controller that starts nothing and waits for no more.      *)
LEMMA StopUnchanged ==
  ASSUME StopInv, RunInv', UNCHANGED <<awg, arm, overrun>>,
         pc' # "followers", Started' => Started,
         Started => \A n \in EventNodes : Pending(n, 0)' => Pending(n, 0),
         pc' = "wait" => pc = "wait" /\ awaited' = awaited,
         pc' = "read" => pc = "read" /\ late' = late
  PROVE  StopInv'
  BY DEF StopInv, Stopping, Stopped, StoppedWhenRead, EventNodes

(* Stopped is what the property says of the nodes.                          *)
LEMMA AllStopped ==
  ASSUME \A n \in EventNodes : Stopped(n)
  PROVE  /\ \A f \in Followers : awg[f] = "off"
         /\ \A q \in Counted : arm[q] = None
<1>1. \A f \in Followers : <<f, "awg">> \in EventNodes /\ (Stopped(<<f, "awg">>) => awg[f] = "off")
  BY DEF EventNodes, Stopped
<1>2. \A q \in Counted : <<q, "result">> \in EventNodes /\ (Stopped(<<q, "result">>) => arm[q] = None)
  BY DEF EventNodes, Stopped
<1> QED BY <1>1, <1>2

(* Nothing is claimed before the start and after the reading.               *)
LEMMA StopOutside ==
  ASSUME RunInv', pc' \notin {"followers", "ready", "trigger", "wait", "read"}
  PROVE  StopInv'
  BY DEF StopInv, Stopping, StoppedWhenRead, Started

LEMMA StopByStopping ==
  ASSUME RunInv', ~overrun' => Stopping'
  PROVE  StopInv'
<1>1. \A f \in Followers : <<f, "awg">> \in EventNodes /\ (Stopped(<<f, "awg">>)' => awg'[f] = "off")
  BY DEF EventNodes, Stopped
<1>2. \A q \in Counted : <<q, "result">> \in EventNodes /\ (Stopped(<<q, "result">>)' => arm'[q] = None)
  BY DEF EventNodes, Stopped
<1>3. StoppedWhenRead'
  BY <1>1, <1>2 DEF Stopping, StoppedWhenRead
<1> QED BY <1>3 DEF StopInv

(* A step of an instrument: what has stopped stays so, and what is sent is  *)
(* true.                                                                    *)
LEMMA StopInstrument ==
  ASSUME StopInv, RunInv', UNCHANGED <<controller, history>>,
         pc = "followers" /\ ~overrun => UNCHANGED events,
         \A n \in EventNodes : Stopped(n) => Stopped(n)',
         \A n \in EventNodes : Pending(n, 0)' => Pending(n, 0) \/ Stopped(n)'
  PROVE  StopInv'
<1>1. ~overrun' => Stopping'
  BY DEF StopInv, Stopping, Started, controller, history
<1> QED BY <1>1, StopByStopping

LEMMA StopStep == StopInv /\ [Next]_vars => StopInv'
<1> SUFFICES ASSUME StopInv, [Next]_vars PROVE StopInv'
  OBVIOUS
<1> USE FollowersAssumption, KindsAssumption
<1>0. /\ RunInv /\ TypeInv /\ TypeOK /\ (~overrun => Stopping) /\ (~overrun => Running)
  BY DEF StopInv, RunInv, StaleInv, TypeInv
<1>a. RunInv'
  BY <1>0, RunStep
<1>1. CASE Prepare
  BY <1>1, <1>a, StopOutside DEF Prepare
<1>2. CASE FlushMonitor
  <2>1. \A n \in EventNodes : events'[n] = << >>
    BY <1>2 DEF FlushMonitor
  <2>2. Stopping'
    BY <1>2, <2>1 DEF FlushMonitor, Stopping, Started
  <2> QED BY <1>a, <2>2, StopByStopping
<1>3. CASE StartFollowers
  <2>1. pc' = "ready" /\ pc = "followers" /\ overrun' = overrun
    BY <1>3 DEF StartFollowers, history
  <2>2. ~overrun => \A n \in EventNodes : events[n] = << >> /\ awg[n[1]] = "off"
    BY <1>0, <2>1 DEF Stopping, Running, EventNodes
  <2>3. ~overrun => \A n \in EventNodes : events'[n] = << >>
    <3> SUFFICES ASSUME ~overrun, NEW n \in EventNodes PROVE events'[n] = << >>
      OBVIOUS
    <3>1. PICK ignored \in SUBSET {f \in Followers : awg[f] = "running"} :
            events' = [m \in EventNodes |->
                         IF /\ m[2] = "awg"
                            /\ m[1] \in ignored \/ awg[m[1]] = "armed"
                         THEN Append(events[m], 1) ELSE events[m]]
      BY <1>3 DEF StartFollowers
    <3>2. awg[n[1]] = "off" /\ n[1] \notin ignored
      BY <2>2
    <3> QED BY <2>2, <3>1, <3>2
  <2>4. ~overrun => \A n \in EventNodes : ~Pending(n, 0)'
    BY <2>3 DEF Pending
  <2>5. ~overrun' => Stopping'
    BY <2>1, <2>4 DEF Stopping
  <2> QED BY <1>a, <2>5, StopByStopping
<1>4. CASE Trigger
  <2>1. /\ pc = "trigger" /\ pc' = "wait" /\ awaited' = EventNodes
        /\ UNCHANGED <<events, awg, arm, overrun>>
    BY <1>4 DEF Trigger, DoneNodes, acquisitions, history
  <2>2. ~overrun' => Stopping'
    BY <1>0, <2>1 DEF Stopping, Started, Pending, Stopped
  <2> QED BY <1>a, <2>2, StopByStopping
<1>5. CASE PollAndCheck
  <2>1. /\ pc \in {"ready", "wait"} /\ UNCHANGED <<awg, arm, overrun, late>>
        /\ pc' \in {pc, AfterWait} /\ awaited' = {n \in awaited : ~Seen(n)}
        /\ pc' # pc => awaited' = {}
    BY <1>5 DEF PollAndCheck, sequencers, acquisitions, history
  <2>2. \A n \in EventNodes : Pending(n, 0)' => Pending(n, 0)
    <3> SUFFICES ASSUME NEW n \in EventNodes, Pending(n, 0)' PROVE Pending(n, 0)
      OBVIOUS
    <3>1. events'[n] = IF n \in awaited THEN Rest(n) ELSE events[n]
      BY <1>5 DEF PollAndCheck
    <3>2. CASE n \in awaited
      <4>1. PICK i \in 1 .. Len(Rest(n)) : Rest(n)[i] = 0
        BY <3>1, <3>2 DEF Pending
      <4> QED BY <1>0, <4>1, RestPending
    <3>3. CASE n \notin awaited
      BY <3>1, <3>3 DEF Pending
    <3> QED BY <3>2, <3>3
  <2>3. pc = "wait" /\ ~overrun => \A n \in EventNodes \ awaited' : Stopped(n)
    <3>1. pc = "wait" => \A n \in EventNodes : Seen(n) => Pending(n, 0)
      BY DEF Seen, Pending, Expected
    <3> QED BY <1>0, <2>1, <3>1 DEF Stopping, Started
  <2>4. \A n \in EventNodes : Stopped(n)' <=> Stopped(n)
    BY <2>1 DEF Stopped
  <2>5. ~overrun' => Stopping'
    BY <1>0, <2>1, <2>2, <2>3, <2>4 DEF Stopping, Started, AfterWait
  <2> QED BY <1>a, <2>5, StopByStopping
<1>6. CASE WaitTimesOut
  <2>1. /\ pc \in {"ready", "wait"} /\ UNCHANGED <<awg, arm, overrun, events>>
        /\ pc' = AfterWait
        /\ pc = "wait" => late'.done = TRUE
    BY <1>0, <1>6 DEF WaitTimesOut, TypeOK, sequencers, acquisitions, history
  <2>2. ~overrun' => Stopping'
    BY <1>0, <2>1 DEF Stopping, Started, AfterWait, Pending, Stopped
  <2> QED BY <1>a, <2>2, StopByStopping
<1>7. ASSUME NEW q \in QAs, Read(q) PROVE StopInv'
  BY <1>7, <1>a, StopUnchanged
     DEF Read, Pending, Started, sequencers, acquisitions, history
<1>8. CASE StepDone
  BY <1>8, <1>a, StopOutside DEF StepDone, NextStep
<1>9. CASE ReportStepError
  BY <1>9, <1>a, StopOutside DEF ReportStepError, NextStep
<1>10. CASE PrepareRaises \/ Abort \/ ReadAsserts
  BY <1>10, <1>a, StopOutside DEF PrepareRaises, Abort, ReadAsserts
<1>11. ASSUME NEW f \in Followers, SequencerArmed(f) PROVE StopInv'
  <2>1. /\ awg[f] = "arming" /\ UNCHANGED <<controller, history, arm>>
        /\ \A g \in Followers : g # f => awg'[g] = awg[g]
        /\ <<f, "awg">> \in EventNodes /\ Send(<<f, "awg">>, 1)
    BY <1>0, <1>11 DEF SequencerArmed, EventNodes, TypeOK, acquisitions
  <2>2. \A n \in EventNodes : Stopped(n) => Stopped(n)'
    BY <2>1 DEF Stopped, EventNodes
  <2>3. \A n \in EventNodes : Pending(n, 0)' => Pending(n, 0)
    BY <1>0, <2>1, SendPending
  <2>4. ~(pc = "followers" /\ ~overrun)
    BY <1>0, <2>1 DEF Running
  <2> QED BY <1>a, <2>1, <2>2, <2>3, <2>4, StopInstrument
<1>12. ASSUME UNCHANGED <<controller, history, events, arm>>,
              \A f \in Followers : awg[f] = "off" => awg'[f] = "off"
       PROVE  StopInv'
  <2>1. \A n \in EventNodes : Stopped(n) => Stopped(n)'
    BY <1>12 DEF Stopped, EventNodes
  <2>2. \A n \in EventNodes : Pending(n, 0)' => Pending(n, 0)
    BY <1>12 DEF Pending
  <2> QED BY <1>a, <1>12, <2>1, <2>2, StopInstrument
<1>13. ASSUME NEW f \in Followers, SelfTriggers(f) PROVE StopInv'
  BY <1>0, <1>12, <1>13 DEF SelfTriggers, Go, TypeOK, acquisitions
<1>14. CASE LeaderTriggers
  BY <1>0, <1>12, <1>14 DEF LeaderTriggers, Go, TypeOK, acquisitions
<1>15. ASSUME NEW f \in Followers, SequencerStops(f) PROVE StopInv'
  <2>1. /\ awg[f] = "running" /\ UNCHANGED <<controller, history, arm>>
        /\ \A g \in Followers : g # f => awg'[g] = awg[g]
        /\ awg'[f] = "off"
        /\ <<f, "awg">> \in EventNodes /\ Send(<<f, "awg">>, 0)
    BY <1>0, <1>15 DEF SequencerStops, EventNodes, TypeOK, acquisitions
  <2>2. \A n \in EventNodes : Stopped(n) => Stopped(n)'
    BY <2>1 DEF Stopped, EventNodes
  <2>3. \A n \in EventNodes : Pending(n, 0)' => Pending(n, 0) \/ Stopped(n)'
    <3>1. Stopped(<<f, "awg">>)'
      BY <2>1 DEF Stopped
    <3> QED BY <1>0, <2>1, <3>1, SendPending
  <2>4. ~(pc = "followers" /\ ~overrun)
    BY <1>0, <2>1 DEF Running
  <2> QED BY <1>a, <2>1, <2>2, <2>3, <2>4, StopInstrument
<1>16. ASSUME NEW q \in QAs, EmitsShot(q), Records(q) PROVE StopInv'
  <2> DEFINE n0 == <<q, "result">>
  <2>1. /\ awg[q] = "running" /\ UNCHANGED <<controller, history, awg>>
        /\ \A p \in QAs : p # q => arm'[p] = arm[p]
        /\ arm'[q] \in {None, arm[q]}
    BY <1>0, <1>16 DEF EmitsShot, Records, TypeOK
  <2>2. \/ UNCHANGED events
        \/ n0 \in EventNodes /\ arm'[q] = None /\ Send(n0, 0)
    BY <1>0, <1>16 DEF Records, TypeOK, EventNodes
  <2>3. \A n \in EventNodes : Stopped(n) => Stopped(n)'
    BY <2>1 DEF Stopped, EventNodes
  <2>4. \A n \in EventNodes : Pending(n, 0)' => Pending(n, 0) \/ Stopped(n)'
    <3>1. CASE UNCHANGED events
      BY <3>1 DEF Pending
    <3>2. CASE n0 \in EventNodes /\ arm'[q] = None /\ Send(n0, 0)
      <4>1. Stopped(n0)'
        BY <3>2 DEF Stopped
      <4> QED BY <1>0, <3>2, <4>1, SendPending
    <3> QED BY <2>2, <3>1, <3>2
  <2>5. ~(pc = "followers" /\ ~overrun)
    BY <1>0, <2>1 DEF Running
  <2> QED BY <1>a, <2>1, <2>3, <2>4, <2>5, StopInstrument
<1>17. ASSUME NEW q \in QAs, EmitsShot(q) PROVE StopInv'
  BY <1>12, <1>16, <1>17 DEF EmitsShot, acquisitions
<1>18. CASE UNCHANGED vars
  BY <1>12, <1>18 DEF vars, sequencers, acquisitions
<1> QED
  BY <1>1, <1>2, <1>3, <1>4, <1>5, <1>6, <1>7, <1>8, <1>9, <1>10, <1>11, <1>13,
     <1>14, <1>15, <1>17, <1>18 DEF Next, ControllerStep, InstrumentStep

(* When the stop conditions are fulfilled, everything has stopped: no event *)
(* from before the start passes for one of them.                            *)
THEOREM Stop == Spec => []StoppedWhenRead
<1>1. StopInv => StoppedWhenRead
  BY DEF StopInv
<1> QED BY StopInit, StopStep, <1>1, PTL DEF Spec

-----------------------------------------------------------------------------
LEMMA TriggerInit == Init => TriggerInv
  BY StopInit DEF Init, TriggerInv, Arming

(* A step that starts nothing, outside the waits.                           *)
LEMMA TriggerUnchanged ==
  ASSUME TriggerInv, StopInv', UNCHANGED <<awg, pulse, swtrig, overrun, late>>,
         pc' \notin {"ready", "trigger"},
         pc' = "followers" => pc \in {"flush", "followers"},
         pc' # "flush"
  PROVE  TriggerInv'
  BY DEF TriggerInv, Arming

(* A step of an instrument that leaves the waiting sequencers alone.        *)
LEMMA TriggerInstrument ==
  ASSUME TriggerInv, StopInv', UNCHANGED <<controller, history>>,
         swtrig' \subseteq swtrig, pulse' = pulse,
         pulse \/ pc \in {"ready", "trigger"} => \A f \in Triggered :
           /\ awg[f] \in {"arming", "armed"} => awg'[f] \in {"arming", "armed"}
           /\ awg[f] = "armed" => awg'[f] = "armed",
         \A f \in Followers :
           Pending(<<f, "awg">>, 1)' => Pending(<<f, "awg">>, 1) \/ awg'[f] = "armed"
  PROVE  TriggerInv'
<1>1. ~overrun' => Arming'
  BY DEF TriggerInv, Arming, Triggered, controller, history
<1> QED BY <1>1 DEF TriggerInv

LEMMA TriggerStep == TriggerInv /\ [Next]_vars => TriggerInv'
<1> SUFFICES ASSUME TriggerInv, [Next]_vars PROVE TriggerInv'
  OBVIOUS
<1> USE FollowersAssumption, KindsAssumption
<1>0. /\ StopInv /\ TypeOK /\ (~overrun => Running) /\ (~overrun => Stopping)
      /\ (~overrun => Arming) /\ swtrig \subseteq SelfTriggering
  BY DEF TriggerInv, StopInv, RunInv, StaleInv, TypeInv
<1>a. StopInv'
  BY <1>0, StopStep
<1>1. CASE Prepare
  <2>1. /\ pc' = "flush" /\ UNCHANGED <<awg, pulse, swtrig>>
        /\ ~overrun' => ~overrun /\ \A f \in Followers : awg[f] = "off"
    BY <1>1 DEF Prepare, sequencers
  <2>2. ~overrun' /\ pulse => Triggered = {}
    BY <1>0, <2>1 DEF Arming, Triggered
  <2>3. ~overrun' => Arming'
    BY <2>1, <2>2 DEF Arming
  <2> QED BY <1>0, <1>a, <2>1, <2>3 DEF TriggerInv
<1>2. CASE FlushMonitor
  BY <1>2, <1>a, TriggerUnchanged DEF FlushMonitor, sequencers, history
<1>3. CASE StartFollowers
  <2>1. /\ pc = "followers" /\ pc' = "ready" /\ awaited' = ReadyNodes
        /\ UNCHANGED <<pulse, swtrig, overrun, late>>
    BY <1>3 DEF StartFollowers, history
  <2>2. ~overrun => \A f \in Followers : awg[f] = "off" /\ events[<<f, "awg">>] = << >>
    BY <1>0, <2>1 DEF Running, Stopping, EventNodes
  <2>3. ~overrun => \A f \in Followers : awg'[f] = "arming" /\ events'[<<f, "awg">>] = << >>
    <3> SUFFICES ASSUME ~overrun, NEW f \in Followers
                 PROVE  awg'[f] = "arming" /\ events'[<<f, "awg">>] = << >>
      OBVIOUS
    <3>1. PICK ignored \in SUBSET {g \in Followers : awg[g] = "running"} :
            /\ awg' = [g \in Followers |->
                         IF g \in ignored \/ awg[g] = "armed" THEN awg[g] ELSE "arming"]
            /\ events' = [m \in EventNodes |->
                         IF /\ m[2] = "awg"
                            /\ m[1] \in ignored \/ awg[m[1]] = "armed"
                         THEN Append(events[m], 1) ELSE events[m]]
      BY <1>3 DEF StartFollowers
    <3>2. awg[f] = "off" /\ f \notin ignored /\ <<f, "awg">> \in EventNodes
      BY <2>2 DEF EventNodes
    <3> QED BY <2>2, <3>1, <3>2
  <2>4. ~overrun => \A f \in Followers : ~Pending(<<f, "awg">>, 1)'
    <3> SUFFICES ASSUME ~overrun, NEW f \in Followers PROVE ~Pending(<<f, "awg">>, 1)'
      OBVIOUS
    <3>1. Len(events'[<<f, "awg">>]) = 0
      BY <2>3
    <3> QED BY <3>1 DEF Pending
  <2>5. \A f \in Triggered \ NoReadyWait : <<f, "awg">> \in awaited'
    BY <2>1 DEF ReadyNodes, Triggered
  <2>6. ~overrun /\ pulse => Triggered = {}
    BY <1>0, <2>1 DEF Arming
  <2>7. ~overrun' => Arming'
    BY <2>1, <2>3, <2>4, <2>5, <2>6 DEF Arming, Triggered
  <2> QED BY <1>0, <1>a, <2>1, <2>7 DEF TriggerInv
<1>4. CASE Trigger
  <2>1. /\ pc = "trigger" /\ pc' = "wait" /\ UNCHANGED <<awg, overrun, late>>
        /\ swtrig' = swtrig \cup SelfTriggering
    BY <1>4 DEF Trigger, history
  <2>2. ~overrun' => Arming'
    BY <1>0, <2>1 DEF Arming
  <2> QED BY <1>0, <1>a, <2>1, <2>2 DEF TriggerInv
<1>5. CASE PollAndCheck
  <2>1. /\ pc \in {"ready", "wait"} /\ UNCHANGED <<awg, pulse, swtrig, overrun, late>>
        /\ pc' \in {pc, AfterWait} /\ awaited' = {n \in awaited : ~Seen(n)}
        /\ pc' # pc => awaited' = {}
    BY <1>5 DEF PollAndCheck, sequencers, history
  <2>2. \A n \in EventNodes : Pending(n, 1)' => Pending(n, 1)
    <3> SUFFICES ASSUME NEW n \in EventNodes, Pending(n, 1)' PROVE Pending(n, 1)
      OBVIOUS
    <3>1. events'[n] = IF n \in awaited THEN Rest(n) ELSE events[n]
      BY <1>5 DEF PollAndCheck
    <3>2. CASE n \in awaited
      <4>1. PICK i \in 1 .. Len(Rest(n)) : Rest(n)[i] = 1
        BY <3>1, <3>2 DEF Pending
      <4> QED BY <1>0, <4>1, RestPending
    <3>3. CASE n \notin awaited
      BY <3>1, <3>3 DEF Pending
    <3> QED BY <3>2, <3>3
  <2>3. pc = "ready" /\ ~overrun => \A f \in Triggered \ NoReadyWait :
          Pending(<<f, "awg">>, 1) \/ <<f, "awg">> \notin awaited' => awg[f] = "armed"
    <3>1. pc = "ready" => \A n \in EventNodes : Seen(n) => Pending(n, 1)
      BY DEF Seen, Pending, Expected
    <3>2. \A f \in Triggered : <<f, "awg">> \in EventNodes
      BY DEF EventNodes, Triggered
    <3> QED BY <1>0, <2>1, <3>1, <3>2 DEF Arming
  <2>4. \A f \in Triggered : Pending(<<f, "awg">>, 1)' => Pending(<<f, "awg">>, 1)
    BY <2>2 DEF EventNodes, Triggered
  <2>5. ~overrun' => Arming'
    BY <1>0, <2>1, <2>3, <2>4 DEF Arming, AfterWait
  <2> QED BY <1>0, <1>a, <2>1, <2>5 DEF TriggerInv
<1>6. CASE WaitTimesOut
  <2>1. /\ pc \in {"ready", "wait"} /\ UNCHANGED <<awg, pulse, swtrig, overrun, events>>
        /\ pc' = AfterWait
        /\ IF pc = "ready" THEN late'.ready = TRUE ELSE late'.ready = late.ready
    BY <1>0, <1>6 DEF WaitTimesOut, TypeOK, sequencers, history
  <2>2. ~overrun' => Arming'
    BY <1>0, <2>1 DEF Arming, AfterWait
  <2> QED BY <1>0, <1>a, <2>1, <2>2 DEF TriggerInv
<1>7. ASSUME NEW q \in QAs, Read(q) PROVE TriggerInv'
  BY <1>7, <1>a, TriggerUnchanged DEF Read, sequencers, history
<1>8. CASE StepDone
  BY <1>8, <1>a, TriggerUnchanged DEF StepDone, NextStep, sequencers
<1>9. CASE ReportStepError
  BY <1>9, <1>a, TriggerUnchanged DEF ReportStepError, NextStep, sequencers, history
<1>10. CASE PrepareRaises \/ Abort \/ ReadAsserts
  BY <1>10, <1>a, TriggerUnchanged
     DEF PrepareRaises, Abort, ReadAsserts, sequencers, history
<1>11. ASSUME NEW f \in Followers, SequencerArmed(f) PROVE TriggerInv'
  <2>1. /\ awg[f] = "arming" /\ awg'[f] = "armed"
        /\ UNCHANGED <<controller, history, pulse, swtrig>>
        /\ \A g \in Followers : g # f => awg'[g] = awg[g]
        /\ <<f, "awg">> \in EventNodes /\ Send(<<f, "awg">>, 1)
    BY <1>0, <1>11 DEF SequencerArmed, EventNodes, TypeOK
  <2>2. \A g \in Followers :
          Pending(<<g, "awg">>, 1)' => Pending(<<g, "awg">>, 1) \/ awg'[g] = "armed"
    <3>1. \A g \in Followers : <<g, "awg">> \in EventNodes
      BY DEF EventNodes
    <3> QED BY <1>0, <2>1, <3>1, SendPending
  <2>3. \A g \in Triggered :
          /\ awg[g] \in {"arming", "armed"} => awg'[g] \in {"arming", "armed"}
          /\ awg[g] = "armed" => awg'[g] = "armed"
    BY <2>1 DEF Triggered
  <2> QED BY <1>a, <2>1, <2>2, <2>3, TriggerInstrument
<1>12. ASSUME NEW f \in Followers, SelfTriggers(f) PROVE TriggerInv'
  <2>1. /\ f \in SelfTriggering /\ swtrig' \subseteq swtrig
        /\ UNCHANGED <<controller, history, pulse, events>>
        /\ \A g \in Triggered : awg'[g] = awg[g]
    BY <1>0, <1>12 DEF SelfTriggers, Go, Triggered, TypeOK
  <2> QED BY <1>a, <2>1, TriggerInstrument DEF Pending
<1>13. ASSUME NEW f \in Followers, SequencerStops(f) PROVE TriggerInv'
  <2>1. /\ awg[f] = "running" /\ UNCHANGED <<controller, history, pulse, swtrig>>
        /\ \A g \in Followers : g # f => awg'[g] = awg[g]
        /\ <<f, "awg">> \in EventNodes /\ Send(<<f, "awg">>, 0)
    BY <1>0, <1>13 DEF SequencerStops, EventNodes, TypeOK
  <2>2. \A g \in Followers : Pending(<<g, "awg">>, 1)' => Pending(<<g, "awg">>, 1)
    <3>1. \A g \in Followers : <<g, "awg">> \in EventNodes
      BY DEF EventNodes
    <3> QED BY <1>0, <2>1, <3>1, SendPending
  <2>3. \A g \in Triggered :
          /\ awg[g] \in {"arming", "armed"} => awg'[g] \in {"arming", "armed"}
          /\ awg[g] = "armed" => awg'[g] = "armed"
    BY <2>1 DEF Triggered
  <2> QED BY <1>a, <2>1, <2>2, <2>3, TriggerInstrument
<1>14. CASE LeaderTriggers
  <2>1. /\ pulse /\ pulse' = FALSE
        /\ UNCHANGED <<controller, history, swtrig, events>>
    BY <1>14 DEF LeaderTriggers
  <2>2. ~overrun' => Arming'
    BY <1>0, <2>1 DEF Arming, Triggered, controller, history
  <2> QED BY <1>0, <1>a, <2>1, <2>2 DEF TriggerInv
<1>15. ASSUME NEW q \in QAs, EmitsShot(q) PROVE TriggerInv'
  <2>1. UNCHANGED <<controller, history, pulse, swtrig, awg>>
    BY <1>15 DEF EmitsShot
  <2>2. \/ UNCHANGED events
        \/ <<q, "result">> \in EventNodes /\ Send(<<q, "result">>, 0)
    BY <1>15 DEF EmitsShot, Records, EventNodes
  <2>3. \A g \in Followers : Pending(<<g, "awg">>, 1)' => Pending(<<g, "awg">>, 1)
    <3>1. \A g \in Followers : <<g, "awg">> \in EventNodes
      BY DEF EventNodes
    <3>2. CASE UNCHANGED events
      BY <3>2 DEF Pending
    <3>3. CASE <<q, "result">> \in EventNodes /\ Send(<<q, "result">>, 0)
      BY <1>0, <3>1, <3>3, SendPending
    <3> QED BY <2>2, <3>2, <3>3
  <2> QED BY <1>a, <2>1, <2>3, TriggerInstrument
<1>16. CASE UNCHANGED vars
  BY <1>16, <1>a, TriggerInstrument DEF vars, sequencers, Pending
<1> QED
  BY <1>1, <1>2, <1>3, <1>4, <1>5, <1>6, <1>7, <1>8, <1>9, <1>10, <1>11, <1>12,
     <1>13, <1>14, <1>15, <1>16 DEF Next, ControllerStep, InstrumentStep

(* The leader's trigger finds the followers that were waited for armed,     *)
(* unless the wait timed out or a sequencer was still busy before.          *)
THEOREM NoTriggerIsLost == Spec => NoTriggerLost
<1>1. TriggerInv /\ [Next]_vars =>
        [LeaderTriggers =>
           \/ late.ready \/ overrun
           \/ \A f \in Followers \ (SelfTriggering \cup NoReadyWait) :
                awg[f] = "armed"]_vars
  BY DEF TriggerInv, Arming, Triggered, LeaderTriggers
<1> QED BY TriggerInit, TriggerStep, <1>1, PTL DEF Spec, NoTriggerLost

-----------------------------------------------------------------------------
(* The step execution implements the contract of the steps.                 *)
LEMMA ContractInit == Init => Contract!Init
<1> SUFFICES ASSUME Init PROVE Contract!Init
  OBVIOUS
<1>1. CurrentStep = 1 /\ ~GivenUp
  BY DEF Init, CurrentStep, GivenUp
<1>2. StoredTries = [s \in Steps |-> [q \in QAs |-> 0]]
  BY DEF Init, StoredTries, Stored, Steps
<1> QED BY <1>1, <1>2 DEF Init, Contract!Init, Steps, Contract!Steps

\* Most steps are about what the contract does not see.
LEMMA ContractUnchanged ==
  ASSUME UNCHANGED <<step, results, errors, succeeded>>,
         pc' = "done" <=> pc = "done",
         pc' \in {"aborted", "raised"} <=> pc \in {"aborted", "raised"}
  PROVE  UNCHANGED Contract!vars
<1>1. CurrentStep' = CurrentStep /\ GivenUp' = GivenUp
  BY DEF CurrentStep, GivenUp
<1>2. StoredTries' = StoredTries
  BY DEF StoredTries, Stored
<1> QED BY <1>1, <1>2 DEF Contract!vars

LEMMA ContractWorking ==
  ASSUME TypeOK, Counting, pc \notin {"done", "aborted", "raised"}
  PROVE  CurrentStep = step /\ Contract!Working /\ Contract!Attempt = try
<1>1. step \in Steps /\ errors[step] = try - 1 /\ try \in Nat
  BY DEF TypeOK, Counting
<1>2. CurrentStep = step /\ ~GivenUp
  BY DEF CurrentStep, GivenUp
<1> QED BY <1>1, <1>2 DEF Contract!Working, Contract!Attempt, Steps, Contract!Steps

LEMMA ContractAdvances ==
  ASSUME NextStep, step \in Steps
  PROVE  CurrentStep' = step + 1
<1> USE NumbersAssumption DEF Steps
<1>1. CASE step < NumSteps
  BY <1>1 DEF NextStep, CurrentStep
<1>2. CASE step = NumSteps
  BY <1>2 DEF NextStep, CurrentStep
<1> QED BY <1>1, <1>2

LEMMA ContractStep ==
  LossInv /\ [Next]_vars => [Contract!Next]_(Contract!vars)
<1> SUFFICES ASSUME LossInv, [Next]_vars
             PROVE  Contract!Next \/ UNCHANGED Contract!vars
  OBVIOUS
<1> USE NumbersAssumption, FollowersAssumption, KindsAssumption
<1>0. TypeOK /\ Counting /\ Succeeding
  BY DEF LossInv, TypeInv
<1>1. CASE Prepare \/ FlushMonitor \/ StartFollowers \/ Trigger
  BY <1>1, ContractUnchanged
     DEF Prepare, FlushMonitor, StartFollowers, Trigger, acquisitions, history
<1>2. CASE PollAndCheck \/ WaitTimesOut
  BY <1>2, ContractUnchanged DEF PollAndCheck, WaitTimesOut, AfterWait, history
<1>3. ASSUME NEW q \in QAs, Read(q) PROVE Contract!Next
  <2> DEFINE new == [try |-> try, shots |-> vec[q]]
  <2>1. new # None /\ new.try = try
    BY <1>0, NoneAssumption DEF Result, TypeOK
  <2>2. /\ results' = [results EXCEPT ![step][q] = new]
        /\ results \in [Steps -> [QAs -> Result \cup {None}]] /\ step \in Steps
        /\ pc = "read" /\ UNCHANGED <<pc, step, errors, succeeded>>
    BY <1>0, <1>3 DEF Read, TypeOK, history
  <2>3. results'[step][q] = new
        /\ \A s \in Steps, p \in QAs : s # step \/ p # q =>
             results'[s][p] = results[s][p]
    BY <2>2
  <2>4. CurrentStep = step /\ Contract!Working /\ Contract!Attempt = try
    BY <1>0, <2>2, ContractWorking
  <2>5. StoredTries' = [StoredTries EXCEPT ![step][q] = try]
    <3> DEFINE to == [StoredTries EXCEPT ![step][q] = try]
    <3>1. /\ StoredTries' = [s \in Steps |-> [p \in QAs |-> StoredTries'[s][p]]]
          /\ to = [s \in Steps |-> [p \in QAs |-> to[s][p]]]
      BY <2>2 DEF StoredTries
    <3>2. \A s \in Steps, p \in QAs : StoredTries'[s][p] = to[s][p]
      BY <2>1, <2>2, <2>3 DEF StoredTries, Stored
    <3> QED BY <3>1, <3>2
  <2>6. CurrentStep' = CurrentStep /\ GivenUp' = GivenUp
    BY <2>2 DEF CurrentStep, GivenUp
  <2>7. Contract!Store(q)
    BY <2>2, <2>4, <2>5, <2>6 DEF Contract!Store
  <2> QED BY <2>7 DEF Contract!Next
<1>4. CASE StepDone
  <2>1. pc = "read" /\ pc' \in {"prepare", "done"} /\ step \in Steps
        /\ UNCHANGED <<results, errors>> /\ succeeded' = succeeded \cup {step}
    BY <1>0, <1>4 DEF StepDone, NextStep, TypeOK
  <2>2. CurrentStep = step /\ Contract!Working /\ Contract!Attempt = try
    BY <1>0, <2>1, ContractWorking
  <2>3. CurrentStep' = step + 1
    BY <1>4, <2>1, ContractAdvances DEF StepDone
  <2>4. \A q \in QAs : StoredTries[step][q] = try
    BY <1>0, <1>4, <2>1 DEF StepDone, Succeeding, StoredTries, Stored
  <2>5. StoredTries' = StoredTries
    BY <2>1 DEF StoredTries, Stored
  <2>6. GivenUp' = GivenUp
    BY <2>1 DEF GivenUp
  <2>7. Contract!Keep
    BY <2>1, <2>2, <2>3, <2>4, <2>5, <2>6 DEF Contract!Keep
  <2> QED BY <2>7 DEF Contract!Next
<1>5. CASE ReportStepError
  <2>1. /\ pc \notin {"done", "aborted", "raised"} /\ pc' \in {"prepare", "done"}
        /\ errors' = [errors EXCEPT ![step] = @ + 1]
        /\ UNCHANGED <<results, succeeded>>
    BY <1>5 DEF ReportStepError, Fails, NextStep, history
  <2>2. CurrentStep = step /\ Contract!Working /\ Contract!Attempt = try
    BY <1>0, <2>1, ContractWorking
  <2>3. /\ step \in Steps /\ try \in 1 .. MaxTries /\ errors[step] = try - 1
        /\ errors \in [Steps -> 0 .. MaxTries]
    BY <1>0, <2>1 DEF TypeOK, Counting
  <2>4. errors' = [errors EXCEPT ![step] = try] /\ errors[step] < MaxTries
    BY <2>1, <2>3
  <2>5. CurrentStep' = IF try = MaxTries THEN step + 1 ELSE step
    <3>1. CASE try < MaxTries
      BY <1>5, <2>3, <3>1 DEF ReportStepError, CurrentStep
    <3>2. CASE try = MaxTries
      BY <1>5, <2>3, <3>2, ContractAdvances DEF ReportStepError
    <3> QED BY <2>3, <3>1, <3>2
  <2>6. StoredTries' = StoredTries
    BY <2>1 DEF StoredTries, Stored
  <2>7. GivenUp' = GivenUp
    BY <2>1 DEF GivenUp
  <2>8. Contract!Report
    BY <2>1, <2>2, <2>4, <2>5, <2>6, <2>7 DEF Contract!Report
  <2> QED BY <2>8 DEF Contract!Next
<1>6. CASE PrepareRaises \/ Abort \/ ReadAsserts
  <2>1. /\ pc \notin {"done", "aborted", "raised"} /\ pc' \in {"aborted", "raised"}
        /\ UNCHANGED <<step, results, errors, succeeded>>
    BY <1>6 DEF PrepareRaises, Abort, ReadAsserts, history
  <2>2. CurrentStep' = CurrentStep /\ GivenUp' = TRUE
    BY <2>1 DEF CurrentStep, GivenUp
  <2>3. StoredTries' = StoredTries
    BY <2>1 DEF StoredTries, Stored
  <2>4. Contract!GiveUp
    BY <1>0, <2>1, <2>2, <2>3, ContractWorking DEF Contract!GiveUp
  <2> QED BY <2>4 DEF Contract!Next
<1>7. CASE InstrumentStep \/ UNCHANGED vars
  <2>1. UNCHANGED <<controller, history>>
    BY <1>7 DEF InstrumentStep, SequencerArmed, SelfTriggers, SequencerStops,
                LeaderTriggers, EmitsShot, vars
  <2> QED BY <2>1, ContractUnchanged DEF controller, history
<1> QED
  BY <1>1, <1>2, <1>3, <1>4, <1>5, <1>6, <1>7 DEF Next, ControllerStep

(* For any instruments: seen without them, an experiment works its steps    *)
(* off in order, keeps one with all results of one attempt or loses it with *)
(* all attempts reported, and touches none that is over.                    *)
THEOREM Implementation == Spec => KeepsContract
<1>1. Init => Contract!Init
  BY ContractInit
<1>2. LossInv /\ [Next]_vars => [Contract!Next]_(Contract!vars)
  BY ContractStep
<1> QED BY LossInit, LossStep, <1>1, <1>2, PTL DEF Spec, KeepsContract, Contract!Spec
=============================================================================
