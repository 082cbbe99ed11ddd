---------------------------- MODULE NearTimeSweep ----------------------------
(***************************************************************************)
(* An experiment as the controller executes it: the near-time loops, what  *)
(* is set in each of their steps, and where the results of a step go.      *)
(*                                                                         *)
(* The experiment is the list of its statements in program order, with the *)
(* position of the end of a loop kept at its beginning.  NearTimeRunner    *)
(* walks it: parameters of sweeps are noted and, at the real-time loop,    *)
(* turned into settings of the nodes whose attributes have changed; nodes  *)
(* the user sets wait for the same moment.  A step is tried three times.   *)
(* Its results come as one vector per signal, of which the controller has  *)
(* to know which entry was measured where: the compiler's list of          *)
(* simultaneous acquires says so for one shot.                             *)
(*                                                                         *)
(* A near-time callback may replace pulses.  A wave of a program holds     *)
(* several pulses, so the controller keeps the waves it has edited; they   *)
(* are written with the next step, after the programs it uploads.          *)
(***************************************************************************)
EXTENDS Integers, Sequences, FiniteSets, SequencesExt

CONSTANTS
  Programs,    \* the experiments
  AwgOrder,    \* the AWGs that produce results, in the order they are read
  SignalsOf,   \* their acquire signals
  Attributes,  \* device attributes: a fixed value or a parameter
  Keys,        \* nodes and the attributes each is computed from
  PulsesIn,    \* the waves that hold pulses, and which
  MaxTries,    \* attempts per step
  None

Signals == UNION {SignalsOf[AwgOrder[k]] : k \in 1 .. Len(AwgOrder)}
Nodes == DOMAIN Keys
Params == {Attributes[a].param : a \in DOMAIN Attributes} \ {None}

ASSUME AttributesAssumption ==
  /\ \A a \in DOMAIN Attributes : /\ (Attributes[a].param = None) # (Attributes[a].value = None)
                                  /\ Attributes[a].value \in Int \cup {None}
  /\ Keys \in [Nodes -> Seq(DOMAIN Attributes)]
Measured == [step : Seq(Nat), shot : Nat, event : [stmt : Nat, index : Seq(Nat)]]
ASSUME NoneAssumption == None \notin Int /\ None \notin Measured
ASSUME AwgsAssumption ==
  /\ AwgOrder \in Seq(Range(AwgOrder))
  /\ \A j, k \in 1 .. Len(AwgOrder) :
       j # k => SignalsOf[AwgOrder[j]] \cap SignalsOf[AwgOrder[k]] = {}
LoopsOf(p) == {j \in DOMAIN p : p[j].op \in {"for", "rt"}}

\* Loops are nested, each with an end of its own; one of them is in real time.
ASSUME ProgramsAssumption ==
  \A p \in Programs :
    /\ p \in Seq(Range(p))
    /\ \A j \in LoopsOf(p) : /\ p[j].count \in Nat \ {0}
                            /\ p[j].end \in (j + 1) .. Len(p) /\ p[p[j].end].op = "end"
    /\ \A i \in DOMAIN p : p[i].op = "end" => \E j \in LoopsOf(p) : p[j].end = i
    /\ \A j, k \in LoopsOf(p) : (j < k /\ k < p[j].end) => p[k].end < p[j].end
    /\ \A j, k \in LoopsOf(p) : p[j].end = p[k].end => j = k
    /\ \E j \in LoopsOf(p) : \A k \in LoopsOf(p) : p[k].op = "rt" <=> k = j

\* The real-time loop is the averaging loop; one in near time does not get this
\* far.  The others are sweeps and, when the sweep in real time is executed in
\* chunks, a loop with nothing but the real-time loop in it.
ASSUME AroundAssumption ==
  \A p \in Programs : \A j \in LoopsOf(p) :
    /\ p[j].op = "rt" <=> p[j].kind = "average"
    /\ p[j].kind = "pipeline" => p[j + 1].op = "rt" /\ p[j].end = p[j + 1].end + 1

\* Acquires are in real time, and the signals of an AWG; the compiler refuses a
\* handle that is used on several signals.
ASSUME AcquiresAssumption ==
  \A p \in Programs : \A i \in {k \in DOMAIN p : p[k].op = "acquire"} :
    /\ \E r \in LoopsOf(p) : p[r].op = "rt" /\ r < i /\ i < p[r].end
    /\ \A s \in DOMAIN p[i].handles : s \in Signals /\ p[i].handles[s] # None
    /\ \A j \in {k \in DOMAIN p : p[k].op = "acquire"} :
         \A s \in DOMAIN p[i].handles : \A t \in DOMAIN p[j].handles :
           p[i].handles[s] = p[j].handles[t] => s = t

\* A parameter is swept once, by loops around the real-time loop, and before it.
ASSUME SweepsAssumption ==
  \A p \in Programs : \A i \in {k \in DOMAIN p : p[k].op = "param"} :
    /\ p[i].name # None /\ p[i].values \in Seq(Int) /\ p[i].values # << >>
    /\ \E j \in LoopsOf(p) :
         /\ j < i /\ i < p[j].end
         /\ \A k \in LoopsOf(p) : (k < i /\ i < p[k].end) => k <= j
    /\ \A j, r \in LoopsOf(p) :
         (j < i /\ i < p[j].end /\ p[r].op = "rt") => i < r /\ r < p[j].end
    /\ \A k \in DOMAIN p : p[k].op = "param" /\ p[k].name = p[i].name => k = i
ASSUME SetsAssumption ==
  \A p \in Programs : \A i \in DOMAIN p : p[i].op = "set" => p[i].node \in Nodes /\ p[i].value \in Int

\* The calls of replace_pulse a near-time callback may make, of the pulses there are.
ASSUME CallsAssumption ==
  \A p \in Programs : \A i \in DOMAIN p : p[i].op = "call" =>
    \A r \in p[i].replaces : r.pulse \in UNION Range(PulsesIn) /\ r.value \in Int

\* What the compiler lists: each wave table with the step it was compiled for
\* and its AWG.  An AWG has a program from the first step on, and here the
\* same number of waves in all of them.
ASSUME WavesAssumption ==
  \A p \in Programs : \A r \in {j \in DOMAIN p : p[j].op = "rt"} :
    LET tables == p[r].waveIndices
    IN  /\ tables \in Seq(Range(tables))
        /\ \A j, k \in DOMAIN tables :
             /\ tables[k].waves \in Seq(DOMAIN PulsesIn)
             /\ tables[j].awg = tables[k].awg =>
                  /\ Len(tables[j].waves) = Len(tables[k].waves)
                  /\ tables[j].step = tables[k].step => j = k
             /\ \E i \in DOMAIN tables : /\ tables[i].awg = tables[k].awg
                                        /\ Range(tables[i].step) \subseteq {0}
ASSUME TriesAssumption == MaxTries \in Nat \ {0}

VARIABLES
  code,      \* the experiment: RecipeData.execution
  acquires,  \* Recipe.simultaneous_acquires
  at,        \* the next statement
  loops,     \* the loops around it and their indices
  indices,   \* NearTimeRunner.nt_loop_indices
  chunk,     \* NearTimeRunner.pipeline_chunk
  params,    \* SweepParamsTracker: the values
  updates,   \* SweepParamsTracker: the parameters set since the last step
  attrs,     \* AttributeValueTracker: value and updated
  userSet,   \* user_set_nodes
  node,      \* the nodes in the instruments
  phase,     \* "walk", a step: "execute" and "read", or how it ended
  try,       \* attempts of the step
  toRead,    \* how many AWGs have been read
  data,      \* acquired_results: the arrays, flat for each near-time step
  last,      \* last_nt_step of each result
  errors,    \* execution_errors: the steps of the failed attempts
  loaded,    \* the program in each AWG, and how many steps came before it
  memory,    \* the waves in the AWGs
  waves,     \* Controller._current_waves: the waves edited so far
  replaced,  \* _nodes_from_neartime_callbacks: the wave nodes to be written
  sent,      \* those of the step that is executed
  asked,     \* history: the last replacement of each pulse
  executed,  \* history: the near-time steps that were begun
  wanted     \* history: what the program has last asked of each node

walker == <<at, loops, indices, chunk>>
trackers == <<params, updates, attrs, userSet>>
results == <<data, last>>
recipe == <<code, acquires>>
pulses == <<loaded, memory, waves, replaced, sent, asked>>
vars == <<recipe, walker, trackers, node, pulses, phase, try, toRead, results, errors,
          executed, wanted>>

-----------------------------------------------------------------------------
(* The structure of the experiment.                                        *)

Loop(j) == code[j].op \in {"for", "rt"}
RtAt == CHOOSE j \in DOMAIN code : code[j].op = "rt"
LoopsAround(i) == {j \in DOMAIN code : Loop(j) /\ j < i /\ i < code[j].end}
Innermost(i) == CHOOSE j \in LoopsAround(i) : \A k \in LoopsAround(i) : k <= j

\* Loops by position, which is from the outermost to the innermost.
Sorted(js) ==
  [k \in 1 .. Cardinality(js) |->
     CHOOSE j \in js : Cardinality({i \in js : i <= j}) = k]

\* The acquires of one handle, with the signal each is on.
Acquires(i) == IF code[i].op = "acquire" THEN code[i].handles ELSE << >>
HandlesAt(i) == {Acquires(i)[s] : s \in DOMAIN Acquires(i)}
Handles == UNION {HandlesAt(i) : i \in DOMAIN code}
AcquiresOf(h) == {i \in DOMAIN code : h \in HandlesAt(i)}

\* The loops that have an axis in the result of an acquire: not the averaging
\* loop, unless each shot is kept, and not the loop over pipeline chunks.
HasAxis(j) ==
  CASE code[j].kind = "pipeline" -> FALSE
    [] code[j].kind = "average" -> code[j].singleShot
    [] OTHER -> TRUE
Axes(i) == Sorted({j \in LoopsAround(i) : HasAxis(j)})
BaseShape(i) == [k \in DOMAIN Axes(i) |-> code[Axes(i)[k]].count]

\* acquire_handler of _LoopsPreprocessor refuses one handle of two shapes.
ShapesAgree ==
  \A h \in Handles : \A i, j \in AcquiresOf(h) : BaseShape(i) = BaseShape(j)

Shape(h) ==
  LET base == BaseShape(CHOOSE i \in AcquiresOf(h) : TRUE)
      more == Cardinality(AcquiresOf(h))
  IN  IF more > 1 THEN Append(base, more) ELSE base

\* The indices of an array, and those loops run through.
Tuples(dims) ==
  {x \in [DOMAIN dims -> UNION {0 .. dims[k] - 1 : k \in DOMAIN dims}] :
     \A k \in DOMAIN dims : x[k] < dims[k]}
Indices(js) == Tuples([k \in DOMAIN js |-> code[js[k]].count])

\* The order in which loops go through them, the last index first: of elements
\* of an array (np.ravel), of near-time steps, and of what happens in a shot.
Precedes(x, y) ==
  \E m \in DOMAIN x \cap DOMAIN y : x[m] < y[m] /\ \A l \in 1 .. (m - 1) : x[l] = y[l]

NtAxes == Axes(RtAt)
RtShape(h) == SubSeq(Shape(h), Len(NtAxes) + 1, Len(Shape(h)))
NtSteps == Indices(NtAxes)

Size(h) == Cardinality(Tuples(RtShape(h)))
Cells(h) == NtSteps \X (1 .. Size(h))

-----------------------------------------------------------------------------
(* What one shot measures, in the order of time: the acquires of the       *)
(* unrolled sweeps.  gen_acquire_map keeps the handles of each signal.     *)

Sweeps(i) == Sorted({j \in LoopsAround(i) : j > RtAt})
EventsOf(i) == {[stmt |-> i, index |-> x] : x \in Indices(Sweeps(i))}

\* Where an event is: each loop and its index, then the statement.
Position(e) ==
  LET s == Sweeps(e.stmt)
  IN  [k \in 1 .. 2 * Len(s) + 1 |->
         IF k = 2 * Len(s) + 1 THEN e.stmt
         ELSE IF k % 2 = 1 THEN s[(k + 1) \div 2] ELSE e.index[k \div 2]]

Before(e, f) == Precedes(Position(e), Position(f))

Events == UNION {EventsOf(i) : i \in {j \in DOMAIN code : code[j].op = "acquire"}}
UpToEvent(e) == {f \in Events : f = e \/ Before(f, e)}
SimultaneousAcquires ==
  [k \in 1 .. Cardinality(Events) |->
     CHOOSE e \in Events : Cardinality(UpToEvent(e)) = k]

\* The acquires at some places of the list.
AcquiresAt(ks) == [k \in 1 .. Cardinality(ks) |-> acquires[Sorted(ks)[k]]]

\* Seeded fault: a signal has no entry for what only the others acquire.
ResultMapDense(awg, s) ==
  AcquiresAt({k \in DOMAIN acquires : s \in DOMAIN Acquires(acquires[k].stmt)})

\* awg_result_map: the events of the AWG; for a signal that takes no part in
\* one of them the entry is None.
PlacesOf(awg) ==
  {k \in DOMAIN acquires : DOMAIN Acquires(acquires[k].stmt) \cap SignalsOf[awg] # {}}
ResultMap(awg, s) == AcquiresAt(PlacesOf(awg))

HandleOf(e, s) == IF s \in DOMAIN Acquires(e.stmt) THEN Acquires(e.stmt)[s] ELSE None

Repeats == IF code[RtAt].singleShot THEN code[RtAt].count ELSE 1

\* The vector of a signal.  The instrument has an entry for each event its
\* AWG takes part in, whatever the controller believes.
Raw(awg, step) ==
  LET events == AcquiresAt(PlacesOf(awg))
      n == Len(events)
  IN  [k \in 1 .. n * Repeats |->
         [step |-> step, shot |-> (k - 1) \div n, event |-> events[((k - 1) % n) + 1]]]

-----------------------------------------------------------------------------
(* build_partial_result.                                                   *)

\* Seeded fault: the map is used once, whatever the length of the vector.
HitsOnce(awg, s, h) ==
  LET map == ResultMap(awg, s)
  IN  Sorted({k \in DOMAIN map : HandleOf(map[k], s) = h})

\* The entries of the vector that belong to a handle, the map repeated as
\* often as the vector needs it.
Hits(awg, s, h) ==
  LET map == ResultMap(awg, s)
  IN  Sorted({k \in 1 .. Len(map) * Repeats :
                HandleOf(map[((k - 1) % Len(map)) + 1], s) = h})

\* Without loops in real time the first entry is the result.
Placed(awg, s, h, step) ==
  LET hits == Hits(awg, s, h)
      raw == Raw(awg, step)
      only == IF Len(Shape(h)) = Len(step) THEN {1} ELSE DOMAIN hits
  IN  [c \in {<<step, k>> : k \in only} |-> raw[hits[c[2]]]]

\* The results after the vectors of some signals have been stored.
Stored(awg, signals, step) ==
  LET from(h) == {s \in signals : \E k \in DOMAIN ResultMap(awg, s) :
                                    HandleOf(ResultMap(awg, s)[k], s) = h}
  IN  [h \in Handles |->
         IF from(h) = {} THEN data[h]
         ELSE [c \in Cells(h) |->
                 LET new == Placed(awg, CHOOSE s \in from(h) : TRUE, h, step)
                 IN  IF c \in DOMAIN new THEN new[c] ELSE data[h][c]]]

Marked(awg, signals, step) ==
  [h \in Handles |->
     IF \E i \in AcquiresOf(h) : \E s \in signals : HandleOf([stmt |-> i], s) = h
     THEN step ELSE last[h]]

-----------------------------------------------------------------------------
(* Replacing pulses.  A wave's content is the last replacement of each of  *)
(* its pulses, None for what was compiled.                                 *)

WaveTables == code[RtAt].waveIndices
Generators == {WaveTables[k].awg : k \in DOMAIN WaveTables}
Pulses == UNION Range(PulsesIn)
Compiled(w) == [p \in PulsesIn[w] |-> None]

\* The table of the program an AWG gets in a step, if it gets one.
TableOf(g, step) == {k \in DOMAIN WaveTables : /\ WaveTables[k].awg = g
                                             /\ WaveTables[k].step = step}

\* pulse_map: the linker keeps the one of the first compilation.
MappedWaves ==
  UNION {Range(WaveTables[k].waves) :
           k \in {j \in DOMAIN WaveTables : Range(WaveTables[j].step) \subseteq {0}}}
PulseMap(p) == {w \in MappedWaves : p \in PulsesIn[w]}

\* Seeded fault: each replacement starts from the compiled wave.
EditedAfresh(ws, p, v) ==
  [w \in DOMAIN ws \cup PulseMap(p) |->
     IF w \in PulseMap(p) THEN [Compiled(w) EXCEPT ![p] = v] ELSE ws[w]]

\* _replace_pulse_in_wave: it edits its copy of the wave, made when needed.
Edited(ws, p, v) ==
  [w \in DOMAIN ws \cup PulseMap(p) |->
     LET before == IF w \in DOMAIN ws THEN ws[w] ELSE Compiled(w)
     IN  IF w \in PulseMap(p) THEN [before EXCEPT ![p] = v] ELSE before]

\* The wave nodes of an AWG that get a pulse: a place in any of its programs,
\* loaded or not, that has a wave with the pulse.  Of several programs' waves
\* at one place the last one's stands, as the nodes of one path are written in
\* the order they were noted.
TablesWith(g, i, p) ==
  {k \in DOMAIN WaveTables : /\ WaveTables[k].awg = g /\ i \in DOMAIN WaveTables[k].waves
                            /\ WaveTables[k].waves[i] \in PulseMap(p)}
Targets(g, p) ==
  {i \in UNION {DOMAIN WaveTables[k].waves : k \in DOMAIN WaveTables} :
     TablesWith(g, i, p) # {}}
WaveFor(g, i, p) ==
  LET k == CHOOSE k \in TablesWith(g, i, p) : \A j \in TablesWith(g, i, p) : j <= k
  IN  WaveTables[k].waves[i]

\* The nodes to be written after a pulse has been replaced.
WaveNodes(ws, p) ==
  [g \in Generators |->
     [i \in DOMAIN replaced[g] \cup Targets(g, p) |->
        IF i \in Targets(g, p) THEN ws[WaveFor(g, i, p)] ELSE replaced[g][i]]]

\* The nodes are written.
Written(mem, nodes) ==
  [g \in Generators |->
     [i \in DOMAIN mem[g] |-> IF i \in DOMAIN nodes[g] THEN nodes[g][i] ELSE mem[g][i]]]
NoNodes == [g \in Generators |-> << >>]

\* _initialize_awgs for the waves: those of a program it uploads.
Uploaded(step) ==
  [g \in Generators |->
     IF TableOf(g, step) = {} THEN memory[g]
     ELSE LET ws == WaveTables[CHOOSE k \in TableOf(g, step) : TRUE].waves
          IN  [i \in DOMAIN ws |-> Compiled(ws[i])]]

-----------------------------------------------------------------------------
(* The walk over the near-time part.                                       *)

Init ==
  /\ code \in Programs /\ ShapesAgree /\ acquires = SimultaneousAcquires
  /\ at = 1 /\ loops = << >> /\ indices = << >> /\ chunk = 0
  /\ params = [p \in Params |-> None] /\ updates = {}
  /\ attrs = [a \in DOMAIN Attributes |->
                [value |-> Attributes[a].value, updated |-> Attributes[a].value # None]]
  /\ userSet = << >>
  /\ node = [n \in Nodes |-> None]
  /\ loaded = [g \in Generators |-> [table |-> None, before |-> 0]]
  /\ memory = [g \in Generators |-> << >>]
  /\ waves = << >> /\ replaced = NoNodes /\ sent = NoNodes
  /\ asked = [p \in Pulses |-> [value |-> None, before |-> -1]]
  /\ phase = "walk" /\ try = 0 /\ toRead = 0
  /\ data = [h \in Handles |-> [c \in Cells(h) |-> None]]
  /\ last = [h \in Handles |-> None]
  /\ errors = << >> /\ executed = << >>
  /\ wanted = [n \in Nodes |-> None]

Statement(op) == phase = "walk" /\ at \in DOMAIN code /\ code[at].op = op
Indexed(l) == code[l.at].kind # "pipeline"
NtStep == indices

\* for_loop_entry_handler: the index of the pipeline loop is kept apart.
Entered(l, outer) ==
  IF Indexed(l) THEN indices' = Append(outer, l.index) /\ UNCHANGED chunk
                ELSE indices' = outer /\ chunk' = l.index

\* for_loop_exit_handler.
Exited == IF Indexed(Last(loops)) THEN Front(indices) ELSE indices

EnterLoop ==
  /\ Statement("for")
  /\ LET l == [at |-> at, index |-> 0]
     IN  loops' = Append(loops, l) /\ Entered(l, indices)
  /\ at' = at + 1
  /\ UNCHANGED <<recipe, trackers, node, pulses, phase, try, toRead, results, errors,
                 executed, wanted>>

\* Seeded fault: the last iteration is left out.
LoopEndsEarly ==
  /\ Statement("end")
  /\ LET l == [Last(loops) EXCEPT !.index = @ + 1]
     IN  IF l.index + 1 < code[l.at].count
         THEN loops' = Append(Front(loops), l) /\ Entered(l, Exited) /\ at' = l.at + 1
         ELSE loops' = Front(loops) /\ indices' = Exited /\ at' = at + 1 /\ UNCHANGED chunk
  /\ UNCHANGED <<recipe, trackers, node, pulses, phase, try, toRead, results, errors,
                 executed, wanted>>

\* Seeded fault: one iteration too many.
LoopEndsLate ==
  /\ Statement("end")
  /\ LET l == [Last(loops) EXCEPT !.index = @ + 1]
     IN  IF l.index <= code[l.at].count
         THEN loops' = Append(Front(loops), l) /\ Entered(l, Exited) /\ at' = l.at + 1
         ELSE loops' = Front(loops) /\ indices' = Exited /\ at' = at + 1 /\ UNCHANGED chunk
  /\ UNCHANGED <<recipe, trackers, node, pulses, phase, try, toRead, results, errors,
                 executed, wanted>>

\* The end of an iteration: the next one, or the statement after the loop.
LoopEnds ==
  /\ Statement("end")
  /\ LET l == [Last(loops) EXCEPT !.index = @ + 1]
     IN  IF l.index < code[l.at].count
         THEN loops' = Append(Front(loops), l) /\ Entered(l, Exited) /\ at' = l.at + 1
         ELSE loops' = Front(loops) /\ indices' = Exited /\ at' = at + 1 /\ UNCHANGED chunk
  /\ UNCHANGED <<recipe, trackers, node, pulses, phase, try, toRead, results, errors,
                 executed, wanted>>

\* SetSoftwareParam: the value at the index of the loop, kept in its range.
ValueAt(stmt, index) ==
  LET k == IF index < Len(stmt.values) THEN index ELSE Len(stmt.values) - 1
  IN  stmt.values[k + 1]

SetParam ==
  /\ Statement("param")
  /\ params' = [params EXCEPT ![code[at].name] = ValueAt(code[at], Last(loops).index)]
  /\ updates' = updates \cup {code[at].name}
  /\ at' = at + 1
  /\ UNCHANGED <<recipe, loops, indices, chunk, attrs, userSet, node, pulses, phase,
                 try, toRead, results, errors, executed, wanted>>

SetNode ==
  /\ Statement("set")
  /\ userSet' = Append(userSet, [node |-> code[at].node, value |-> code[at].value])
  /\ wanted' = [wanted EXCEPT ![code[at].node] = code[at].value]
  /\ at' = at + 1
  /\ UNCHANGED <<recipe, loops, indices, chunk, params, updates, attrs, node, pulses,
                 phase, try, toRead, results, errors, executed>>

\* replace_pulse, which a near-time callback calls as often as it likes: the
\* edited waves and the nodes to be written.
ReplacePulse ==
  /\ Statement("call")
  /\ \E r \in code[at].replaces :
       /\ waves' = Edited(waves, r.pulse, r.value)
       /\ replaced' = WaveNodes(Edited(waves, r.pulse, r.value), r.pulse)
       /\ asked' = [asked EXCEPT ![r.pulse] = [value |-> r.value, before |-> Len(executed)]]
  /\ UNCHANGED <<recipe, walker, trackers, node, loaded, memory, sent, phase, try,
                 toRead, results, errors, executed, wanted>>

\* A near-time callback returns, aborts the experiment or raises.
Callback ==
  /\ Statement("call")
  /\ \/ at' = at + 1 /\ UNCHANGED phase
     \/ phase' \in {"aborted", "raised"} /\ UNCHANGED at
  /\ UNCHANGED <<recipe, loops, indices, chunk, trackers, node, pulses, try, toRead,
                 results, errors, executed, wanted>>

-----------------------------------------------------------------------------
(* A step: rt_entry_handler.                                               *)

\* Only the first chunk is executed here; the pipeliner goes through the rest.
SkipChunk ==
  /\ Statement("rt") /\ chunk > 0
  /\ at' = code[at].end + 1
  /\ UNCHANGED <<recipe, loops, indices, chunk, trackers, node, pulses, phase, try,
                 toRead, results, errors, executed, wanted>>

\* AttributeValueTracker.update for the parameters set since the last step.
Updated ==
  [a \in DOMAIN Attributes |->
     IF Attributes[a].param \in updates
     THEN [value |-> params[Attributes[a].param], updated |-> TRUE]
     ELSE attrs[a]]

\* Seeded fault: only the first attribute of a node is looked at.
SweptFirst(as) ==
  {n \in Nodes : /\ Keys[n] # << >>
                 /\ as[Keys[n][1]].updated /\ as[Keys[n][1]].value # None}

\* The nodes collect_prepare_nt_step_nodes sets: an attribute has changed, and
\* the one the others are added to has a value.
Swept(as) ==
  {n \in Nodes : /\ \E k \in DOMAIN Keys[n] : as[Keys[n][k]].updated
                 /\ as[Keys[n][1]].value # None}

\* The delay of a port, say: what the scheduler asks for and what is swept.
Total(values) == FoldLeft(LAMBDA x, v : IF v = None THEN x ELSE x + v, 0, values)
ValueOf(as, n) == Total([k \in DOMAIN Keys[n] |-> as[Keys[n][k]].value])

\* Seeded fault: of two sets of a node the batch keeps the first.
LastSetFirst(n) ==
  LET sets == {k \in DOMAIN userSet : userSet[k].node = n}
  IN  IF sets = {} THEN node[n]
      ELSE userSet[CHOOSE k \in sets : \A j \in sets : k <= j].value

\* What the user's part of the batch makes of a node: the sets are in order.
LastSet(n) ==
  LET sets == {k \in DOMAIN userSet : userSet[k].node = n}
  IN  IF sets = {} THEN node[n]
      ELSE userSet[CHOOSE k \in sets : \A j \in sets : j <= k].value

\* The batch: first what the user has set, then the swept nodes.
Delivered ==
  [n \in Nodes |-> IF n \in Swept(Updated) THEN ValueOf(Updated, n) ELSE LastSet(n)]

PrepareStep ==
  /\ Statement("rt") /\ chunk = 0
  /\ node' = Delivered
  /\ attrs' = [a \in DOMAIN Attributes |-> [value |-> Updated[a].value, updated |-> FALSE]]
  /\ userSet' = << >> /\ updates' = {}
  /\ loaded' = [g \in Generators |->
                  IF TableOf(g, NtStep) = {} THEN loaded[g]
                  ELSE [table |-> CHOOSE k \in TableOf(g, NtStep) : TRUE,
                        before |-> Len(executed)]]
  /\ memory' = Written(Uploaded(NtStep), replaced)
  /\ sent' = replaced /\ replaced' = NoNodes
  /\ phase' = "execute" /\ try' = 1
  /\ executed' = Append(executed, NtStep)
  /\ UNCHANGED <<recipe, walker, params, waves, asked, toRead, results, errors, wanted>>

\* The upload, the triggers, the batch or something in the attempt raise what
\* is no controller exception: the experiment is over.
StepRaises ==
  /\ (Statement("rt") /\ chunk = 0) \/ phase = "execute"
  /\ phase' = "raised"
  /\ UNCHANGED <<recipe, walker, trackers, node, pulses, try, toRead, results, errors,
                 executed, wanted>>

\* _execute_one_step returns.
StepExecuted ==
  /\ phase = "execute"
  /\ phase' = "read" /\ toRead' = 1
  /\ UNCHANGED <<recipe, walker, trackers, node, pulses, try, results, errors,
                 executed, wanted>>

ReadAwg ==
  /\ phase = "read" /\ toRead <= Len(AwgOrder)
  /\ LET awg == AwgOrder[toRead]
     IN  /\ data' = Stored(awg, SignalsOf[awg], NtStep)
         /\ last' = Marked(awg, SignalsOf[awg], NtStep)
  /\ toRead' = toRead + 1
  /\ UNCHANGED <<recipe, walker, trackers, node, pulses, phase, try, errors, executed,
                 wanted>>

\* A vector of the wrong length: some signals of the AWG have been stored.
ReadRaises ==
  /\ phase = "read" /\ toRead <= Len(AwgOrder)
  /\ \E signals \in SUBSET SignalsOf[AwgOrder[toRead]] :
       /\ data' = Stored(AwgOrder[toRead], signals, NtStep)
       /\ last' = Marked(AwgOrder[toRead], signals, NtStep)
  /\ phase' = "raised"
  /\ UNCHANGED <<recipe, walker, trackers, node, pulses, try, toRead, errors, executed,
                 wanted>>

\* RTExit has no handler: the walk goes on after the real-time loop.
Leave == phase' = "walk" /\ at' = code[at].end + 1 /\ try' = 0 /\ toRead' = 0

StepIsRead ==
  /\ phase = "read" /\ toRead > Len(AwgOrder)
  /\ Leave
  /\ UNCHANGED <<recipe, loops, indices, chunk, trackers, node, pulses, results,
                 errors, executed, wanted>>

\* _report_step_error, and another attempt, with the waves written again, or
\* none.
AttemptFails ==
  /\ phase = "execute" \/ (phase = "read" /\ toRead <= Len(AwgOrder))
  /\ errors' = Append(errors, NtStep)
  /\ IF try < MaxTries
     THEN /\ phase' = "execute" /\ try' = try + 1 /\ toRead' = 0
          /\ memory' = Written(memory, sent)
          /\ UNCHANGED at
     ELSE Leave /\ UNCHANGED memory
  /\ UNCHANGED <<recipe, loops, indices, chunk, trackers, node, loaded, waves,
                 replaced, sent, asked, results, executed, wanted>>

Finish ==
  /\ phase = "walk" /\ at \notin DOMAIN code
  /\ phase' = "done"
  /\ UNCHANGED <<recipe, walker, trackers, node, pulses, try, toRead, results, errors,
                 executed, wanted>>

Next ==
  \/ EnterLoop \/ LoopEnds \/ SetParam \/ SetNode
  \/ ReplacePulse \/ Callback
  \/ SkipChunk \/ PrepareStep \/ StepRaises
  \/ StepExecuted \/ ReadAwg \/ ReadRaises \/ StepIsRead \/ AttemptFails
  \/ Finish

Spec == Init /\ [][Next]_vars

-----------------------------------------------------------------------------
Values == Int \cup {None}

TypeOK ==
  /\ code \in Programs
  /\ at \in 1 .. Len(code) + 1
  /\ \A k \in DOMAIN loops : /\ loops[k].at \in DOMAIN code /\ Loop(loops[k].at)
                            /\ loops[k].index \in 0 .. code[loops[k].at].count - 1
  /\ chunk \in Nat
  /\ params \in [Params -> Values] /\ None \notin updates
  /\ DOMAIN attrs = DOMAIN Attributes
  /\ \A a \in DOMAIN attrs : attrs[a].value \in Values /\ attrs[a].updated \in BOOLEAN
  /\ \A k \in DOMAIN userSet : userSet[k].node \in Nodes
  /\ DOMAIN node = Nodes /\ wanted \in [Nodes -> Values]
  /\ DOMAIN loaded = Generators /\ DOMAIN memory = Generators
  /\ DOMAIN waves \subseteq MappedWaves
  /\ \A w \in DOMAIN waves : waves[w] \in [PulsesIn[w] -> Values]
  /\ DOMAIN replaced = Generators /\ DOMAIN sent = Generators
  /\ phase \in {"walk", "execute", "read", "done", "aborted", "raised"}
  /\ try \in 0 .. MaxTries /\ toRead \in 0 .. Len(AwgOrder) + 1
  /\ \A h \in Handles : DOMAIN data[h] = Cells(h)
  /\ DOMAIN last = Handles

Running == phase \in {"execute", "read"}

\* The value a parameter has at this point of the sweeps, from the program.
Setters(p) == {i \in DOMAIN code : code[i].op = "param" /\ code[i].name = p}
At(i) == LET k == CHOOSE k \in DOMAIN loops : loops[k].at = Innermost(i)
         IN  ValueAt(code[i], loops[k].index)
Current(p) == IF Setters(p) = {} THEN None ELSE At(CHOOSE i \in Setters(p) : TRUE)

AttributeNow(a) == IF Attributes[a].param = None THEN Attributes[a].value
                   ELSE Current(Attributes[a].param)

(* While a step is executed, each node that is computed from swept and      *)
(* fixed attributes has the value of the point the sweeps are at, although  *)
(* only what has changed since the last step is set.                        *)
SweptNodesAreCurrent ==
  Running =>
    \A n \in {m \in Nodes : Keys[m] # << >> /\ wanted[m] = None} :
      AttributeNow(Keys[n][1]) # None =>
        node[n] = Total([k \in DOMAIN Keys[n] |-> AttributeNow(Keys[n][k])])

(* While a step is executed, each node the program sets itself has the      *)
(* value that was asked for last.                                           *)
UserSetsAreInForce ==
  Running =>
    \A n \in {m \in Nodes : Keys[m] = << >> /\ wanted[m] # None} : node[n] = wanted[n]

\* Where in its result a value belongs: the shot, the points of the sweeps in
\* real time, and which acquire of the handle it is.
Nth(h, i) == Cardinality({j \in AcquiresOf(h) : j < i})
Point(h, v) ==
  (IF code[RtAt].singleShot THEN <<v.shot>> ELSE << >>)
  \o v.event.index
  \o (IF Cardinality(AcquiresOf(h)) > 1 THEN <<Nth(h, v.event.stmt)>> ELSE << >>)
PlaceOf(dims, p) == Cardinality({q \in Tuples(dims) : q = p \/ Precedes(q, p)})

\* The acquires of each handle are in the same loops.
InSameLoops ==
  \A h \in Handles : \A i, j \in AcquiresOf(h) : LoopsAround(i) = LoopsAround(j)

(* Each value stands where the axes of its result say, although the result  *)
(* is filled in the order in which its signal's vector has the values.      *)
ResultsArePlaced ==
  \A h \in Handles : \A c \in Cells(h) :
    data[h][c] # None =>
      LET v == data[h][c]
      IN  /\ v.step = c[1] /\ v.event.stmt \in AcquiresOf(h)
          /\ Point(h, v) \in Tuples(RtShape(h))
          /\ c[2] = PlaceOf(RtShape(h), Point(h, v))

(* What get_last_nt_step promises: all elements of that near-time point are *)
(* filled.                                                                  *)
LastStepIsFilled ==
  \A h \in Handles : last[h] # None =>
    last[h] \in NtSteps /\ \A k \in 1 .. Size(h) : data[h][<<last[h], k>>] # None

StepsInOrder ==
  /\ {executed[k] : k \in DOMAIN executed} = NtSteps
  /\ \A j, k \in DOMAIN executed : j < k => Precedes(executed[j], executed[k])

Reported ==
  \A h \in Handles : \A c \in Cells(h) : data[h][c] = None =>
    Cardinality({k \in DOMAIN errors : errors[k] = c[1]}) = MaxTries

(* An experiment that ends by itself has executed every near-time point     *)
(* once, in the order of the loops, and where no result is every attempt    *)
(* was reported.                                                            *)
EveryStepIsExecuted == phase = "done" => StepsInOrder /\ Reported

\* The wave at an index of an AWG is what the loaded program has there, unless
\* the program of another step has a wave there that may be edited.
OnlyWaveAt(g, i) ==
  LET w == WaveTables[loaded[g].table].waves[i]
  IN  \A k \in DOMAIN WaveTables :
        (WaveTables[k].awg = g /\ WaveTables[k].waves[i] # w)
          => WaveTables[k].waves[i] \notin MappedWaves

(* While a step is executed, each pulse in a wave that may be edited is what *)
(* was asked for since its AWG got the program, whatever other pulses of the *)
(* wave have been replaced and however often the step is tried.  If nothing  *)
(* was, it is what was compiled or, brought back by the replacement of       *)
(* another pulse of the wave, what was asked for last; never older.          *)
PulsesAreReplaced ==
  Running =>
    \A g \in Generators : \A i \in DOMAIN memory[g] :
      LET w == WaveTables[loaded[g].table].waves[i]
      IN  (w \in MappedWaves /\ OnlyWaveAt(g, i)) =>
            \A p \in PulsesIn[w] :
              IF asked[p].before >= loaded[g].before
              THEN memory[g][i][p] = asked[p].value
              ELSE memory[g][i][p] \in {None, asked[p].value}

=============================================================================
