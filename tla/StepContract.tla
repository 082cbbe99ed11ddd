---------------------------- MODULE StepContract ----------------------------
(***************************************************************************)
(* What a user of an experiment may rely on, without instruments, waits    *)
(* and events: the near-time steps are worked off in their order.  A step  *)
(* is kept with the results of all devices, all of one attempt, or it is   *)
(* lost after every attempt was reported; either way nothing of it is      *)
(* touched again.  StepExecution implements this.                          *)
(***************************************************************************)
EXTENDS Naturals

CONSTANTS
  Devices,   \* the devices that produce results
  NumSteps,  \* near-time steps
  MaxTries   \* attempts per step

VARIABLES
  current,   \* the step worked on, NumSteps + 1 when all are over
  reports,   \* how often a step was reported as failed
  stored,    \* the attempt a device's result of a step is of, 0 if none
  kept,      \* the steps that ended well
  closed     \* the execution was given up

vars == <<current, reports, stored, kept, closed>>

Steps == 1 .. NumSteps
Attempt == reports[current] + 1

Init ==
  /\ current = 1
  /\ reports = [s \in Steps |-> 0]
  /\ stored = [s \in Steps |-> [d \in Devices |-> 0]]
  /\ kept = {} /\ closed = FALSE

Working == ~closed /\ current \in Steps

Store(d) ==
  /\ Working
  /\ stored' = [stored EXCEPT ![current][d] = Attempt]
  /\ UNCHANGED <<current, reports, kept, closed>>

\* The attempt has brought a result of every device.
Keep ==
  /\ Working
  /\ \A d \in Devices : stored[current][d] = Attempt
  /\ kept' = kept \cup {current}
  /\ current' = current + 1
  /\ UNCHANGED <<reports, stored, closed>>

\* The attempt has failed; the last one takes the step with it.
Report ==
  /\ Working /\ reports[current] < MaxTries
  /\ reports' = [reports EXCEPT ![current] = Attempt]
  /\ current' = IF Attempt = MaxTries THEN current + 1 ELSE current
  /\ UNCHANGED <<stored, kept, closed>>

\* A callback aborts the execution, or something raises outside an attempt.
GiveUp ==
  /\ Working
  /\ closed' = TRUE
  /\ UNCHANGED <<current, reports, stored, kept>>

Next ==
  \/ \E d \in Devices : Store(d)
  \/ Keep \/ Report \/ GiveUp

Spec == Init /\ [][Next]_vars
=============================================================================
