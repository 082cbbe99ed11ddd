-------------------------- MODULE MCNearTimeReload --------------------------
(* Small sets of experiments for TLC. *)
EXTENDS NearTimeReload

CONSTANTS Steps, ChunkCounts, Changing

\* All experiments with these numbers of steps and chunks in which the AWGs
\* that are not Changing always play the same program.
Sweeps == UNION {[1 .. n -> Values] : n \in Steps}
Constant(keys) == {[x \in keys |-> p] : p \in {CHOOSE p \in Programs : TRUE}}
ProgramsOver(keys) ==
  LET changing == [Changing -> [keys -> Programs]]
      still == [Awgs \ Changing -> Constant(keys)]
  IN  {[a \in Awgs |-> IF a \in Changing THEN f[a] ELSE g[a]] : f \in changing, g \in still}
ExperimentsWith(k) ==
  [sweep : Sweeps, chunks : {k},
   program : ProgramsOver(Values \X (0 .. (IF k = 0 THEN 0 ELSE k - 1)))]
MCExperiments == UNION {ExperimentsWith(k) : k \in ChunkCounts}

\* Those whose sweeps do not come back to a value they have left.
NotReturning == {e \in MCExperiments : NeverReturns(e)}
=============================================================================
