------------------------------ MODULE Scheduler ------------------------------
(***************************************************************************)
(* The real-time scheduler: the tree of sections, loops, match sections    *)
(* and pulses that Scheduler._schedule_section has built, and the timing   *)
(* IntervalSchedule.calculate_timing gives it.                             *)
(*                                                                         *)
(* A node knows its length and where its children start relative to        *)
(* itself; where it is in absolute terms is settled only later, and the    *)
(* feedback of a match section depends on it.  The recursion over the tree *)
(* is a stack of calls; one action is one step of the innermost call.      *)
(*                                                                         *)
(* Times are in tiny samples; a node's grid is the number of tiny samples  *)
(* its start has to be a multiple of.                                      *)
(***************************************************************************)
EXTENDS Integers, Sequences, SequencesExt

CONSTANTS
  Signals,
  SampleGrid, SequencerGrid, \* tiny samples per sample, per sequencer cycle
  Latency,     \* from the end of an acquisition to the signal's earliest start
  Experiments  \* the section trees: sequences of nodes, parents first

None == -1     \* a length, an absolute start or a repetition time not known

Leaves == {"play", "acquire", "group", "reserve", "clear", "reset", "empty"}
Arranged == {"section", "iteration", "case"}
Kinds == Leaves \cup Arranged \cup {"root", "compressed", "unrolled", "match"}

NodeType == [
  kind : Kinds,
  children : Seq(Nat),
  own : SUBSET Signals,  \* of a leaf, or reserved by the section
  length : Nat \cup {None},  \* of a leaf; asked for by the section, or None
  right : BOOLEAN,       \* right_aligned
  align : Nat \ {0},     \* the grid asked for in addition to the children's
  trigger : BOOLEAN,     \* the section has a trigger output
  section : STRING, use : Nat, \* the section, and which use of it this is
  after : SUBSET STRING, \* play_after
  handle : STRING,       \* acquired, or matched on ("" if there is none)
  mode : {"FASTEST", "CONSTANT", "AUTO"},
  time : Nat \cup {None}, \* repetition time of the shot loop, or None
  count : Nat,           \* iterations of a compressed loop
  loopGrid : Nat \ {0},  \* a match's constraint on compressed loops around it
  pulse : Nat ]          \* the pulse a precompensation clear belongs to

ASSUME GridAssumption ==
  /\ IsFiniteSet(Signals)
  /\ SampleGrid \in [Signals -> Nat \ {0}]
  /\ SequencerGrid \in [Signals -> Nat \ {0}]
  /\ Latency \in [Signals -> Nat]
\* A tree under its root, the first node.
ASSUME TreeAssumption == \A x \in Experiments :
  /\ x \in Seq(NodeType) /\ x # << >>
  /\ \A n \in DOMAIN x : x[n].kind = "root" <=> n = 1
  /\ \A n \in DOMAIN x : IsInjective(x[n].children)
  /\ \A n \in DOMAIN x : \A c \in ToSet(x[n].children) : c > n /\ c \in DOMAIN x
  /\ \A c \in DOMAIN x \ {1} : \E n \in DOMAIN x : c \in ToSet(x[n].children)
  /\ \A n, m \in DOMAIN x : ToSet(x[n].children) \cap ToSet(x[m].children) # {} => n = m
\* Its nodes are numbered in the order of the program: a child and all that is in
\* it before the next child.
ASSUME NumberingAssumption == \A x \in Experiments : \A n \in DOMAIN x :
  \A i, j \in DOMAIN x[n].children : i < j =>
    LET child == x[n].children[i]
        later == x[n].children[j]
    IN  /\ child < later
        /\ \A m \in DOMAIN x : child <= m /\ m < later => \A c \in ToSet(x[m].children) : c < later
\* Among the children of a section, the first use of a section has the name
\* (_load_section); only named sections are played after.
ASSUME NamesAssumption == \A x \in Experiments : \A n \in DOMAIN x :
  /\ "" \notin x[n].after
  /\ \A b, c \in ToSet(x[n].children) :
       x[b].section = x[c].section /\ x[b].section # "" /\ x[b].use = 0 /\ x[c].use = 0 => b = c
\* What the code that builds the trees asserts or makes so.
ASSUME KindAssumption == \A x \in Experiments : \A n \in DOMAIN x :
  /\ x[n].kind \in Leaves => x[n].children = << >> /\ x[n].after = {} \* section_schedule.py 28
  /\ x[n].kind \in {"play", "acquire", "group", "reset"} => x[n].length # None
  \* scheduler.py 983-993, 1024-1029
  /\ x[n].kind = "clear" =>
       /\ x[n].own = {}
       /\ \E p \in DOMAIN x : \E i, j \in DOMAIN x[p].children :
            i < j /\ x[p].children[i] = x[n].pulse /\ x[p].children[j] = n
  \* loop_schedule.py 52-53, 81; scheduler.py 347
  /\ x[n].kind \in {"compressed", "unrolled"} =>
       \A c \in ToSet(x[n].children) : x[c].kind = "iteration"
  /\ x[n].kind = "compressed" => Len(x[n].children) = 1 /\ x[n].count > 1
  \* section.py 441; only a mode other than FASTEST is passed on with a time
  \* (scheduler.py 332-337, 1143)
  /\ x[n].mode = "CONSTANT" => x[n].time # None
  /\ x[n].mode = "FASTEST" => x[n].time = None

\* Conditions of some theorems: a compressed loop in mode AUTO takes a repetition
\* time for its length even if the iteration is longer (loop_schedule.py 59), and
\* sections at the top are played in parallel whatever their signals
\* (scheduler.py 211).
AutoHasNoTime == \A x \in Experiments : \A n \in DOMAIN x :
  x[n].kind = "compressed" /\ x[n].mode = "AUTO" => x[n].time = None
OneAtTheTop == \A x \in Experiments : Len(x[1].children) <= 1
\* A section is named in play_after by its siblings in a section, not in a match
\* or a loop, and not where it is used again (section_schedule.py 77, 131).
OrderIsHeeded == \A x \in Experiments : \A p \in DOMAIN x : \A b, c \in ToSet(x[p].children) :
  x[b].section \in x[c].after => x[p].kind \in Arranged /\ x[b].use = 0

VARIABLES
  tree,                   \* the sections as built
  signals, grid, loopGrid, \* of each node, children included
  start,      \* children_start, kept with the child
  length, absolute,       \* length and absolute_start of each node
  acquired,   \* acquire_pulses: the acquisitions of each handle visited so far
  stack,      \* the calls of calculate_timing under way, innermost first
  outcome     \* "running", "done", or "refused" by an exception

built == <<tree, signals, grid, loopGrid>>
vars == <<built, start, length, absolute, acquired, stack, outcome>>

-----------------------------------------------------------------------------
(* Grids (scheduler/utils.py and IntervalSchedule.__attrs_post_init__).    *)

Lcm(a, b) == Min({m \in {a * k : k \in 1..b} : m % b = 0})
LcmOf(S) == FoldSet(Lcm, 1, S)
ceil_to_grid(value, g) == ((value + g - 1) \div g) * g
floor_to_grid(value, g) == (value \div g) * g

SystemGrid == LcmOf({SequencerGrid[s] : s \in Signals})

SignalsOf(x) ==
  LET signalsOf[n \in DOMAIN x] ==
        x[n].own \cup UNION {signalsOf[c] : c \in ToSet(x[n].children)}
  IN  signalsOf

\* Seeded fault: neither a trigger nor an acquisition escalates.
SectionGridsOfRates(x, n, sigs) ==
  {x[n].align} \cup (IF Cardinality({SampleGrid[s] : s \in sigs}) > 1
                     THEN {SequencerGrid[s] : s \in sigs} ELSE {SampleGrid[s] : s \in sigs})

\* What _schedule_children asks of a section: its signals' sample grid, or the
\* sequencer's if they differ or if there is a trigger or an acquisition.
SectionGrids(x, n, sigs) ==
  LET samples == {SampleGrid[s] : s \in sigs}
      sequencer == {SequencerGrid[s] : s \in sigs}
      acquires == \E c \in ToSet(x[n].children) : x[c].kind = "acquire"
  IN  {x[n].align}
        \cup (IF Cardinality(samples) > 1 \/ x[n].trigger \/ acquires
              THEN sequencer ELSE samples)

GridOf(x, sigs) ==
  LET gridOf[n \in DOMAIN x] ==
        LET below == {gridOf[c] : c \in ToSet(x[n].children)}
            sample == {SampleGrid[s] : s \in sigs[n]}
            sequencer == {SequencerGrid[s] : s \in sigs[n]}
        IN  CASE x[n].kind \in {"play", "acquire", "group", "reserve"} -> LcmOf(sample)
              [] x[n].kind = "clear" -> LcmOf({SequencerGrid[s] : s \in sigs[x[n].pulse]})
              [] x[n].kind = "reset" -> x[n].align
              [] x[n].kind = "empty" -> LcmOf(sequencer)
              [] x[n].kind = "match" -> LcmOf(sequencer \cup below)
              [] x[n].kind = "root" -> LcmOf(below)
              [] OTHER -> LcmOf(SectionGrids(x, n, sigs[n]) \cup below)
  IN  gridOf

LoopGridOf(x) ==
  LET loopGridOf[n \in DOMAIN x] ==
        LcmOf({x[n].loopGrid} \cup {loopGridOf[c] : c \in ToSet(x[n].children)})
  IN  loopGridOf

\* A sequencer cycle is a number of samples (sampling_rate_tracker.py 51).  A loop
\* iteration is on the system grid, and so is the phase reset in it, whose own
\* grid may only be coarser (scheduler.py 562, 488).  Sections have triggers; what
\* is in them has not (scheduler.py 637).
ASSUME RateAssumption ==
  /\ \A s \in Signals : SequencerGrid[s] % SampleGrid[s] = 0
  /\ \A x \in Experiments : \A n \in DOMAIN x :
       /\ x[n].kind \in {"iteration", "reset"} => x[n].align % SystemGrid = 0
       /\ x[n].trigger => x[n].kind \notin Leaves

-----------------------------------------------------------------------------
(* The tree.                                                               *)

Nodes == DOMAIN tree
Children(n) == ToSet(tree[n].children)
Index(p, c) == CHOOSE i \in DOMAIN tree[p].children : tree[p].children[i] = c
Parent(n) == CHOOSE p \in Nodes : n \in Children(p)

Below(n) ==   \* n and its descendants
  LET below[m \in Nodes] == {m} \cup UNION {below[c] : c \in Children(m)}
  IN  below[n]

\* Where the nodes below n are if n is at at.
PositionsFrom(n, at, starts) ==
  LET pos[m \in Below(n)] == IF m = n THEN at ELSE pos[Parent(m)] + starts[m]
  IN  pos

\* on_absolute_start_time_fixed: what is fixed already stays.
FixedFrom(n, at, starts) ==
  LET pos == PositionsFrom(n, at, starts)
  IN  [m \in Nodes |-> IF m \in Below(n) /\ absolute[m] = None THEN pos[m] ELSE absolute[m]]

-----------------------------------------------------------------------------
(* Calls.                                                                  *)

RightArranged(n) == tree[n].kind \in Arranged /\ tree[n].right

\* The children of a right-aligned section are timed from the last to the first.
Call(n, at, mayChange) ==
  [node |-> n, at |-> at, mayChange |-> mayChange,
   todo |-> IF RightArranged(n) THEN Reverse(tree[n].children) ELSE tree[n].children,
   edge |-> [s \in Signals |-> 0]]  \* current_signal_start, current_signal_end

\* Sections are found by name among the children; later uses of a section have
\* names of their own (_load_section), so that its name is that of the first.
Named(p, name) == {c \in Children(p) : tree[c].section = name /\ tree[c].use = 0}
PlaysAfter(p, c) == UNION {Named(p, name) : name \in tree[c].after}
\* Seeded fault: play_after counts in left-aligned sections only.
PlaysBeforeNever(p, c) == {}

PlaysBefore(p, c) == {b \in Children(p) : c \in PlaysAfter(p, b)}

\* As early as the signals allow, after the sections it plays after; a
\* precompensation clear starts with its pulse.
LeftStart(f, c) ==
  LET free == Max({0} \cup {f.edge[s] : s \in signals[c]}
                \cup {start[b] + length[b] : b \in PlaysAfter(f.node, c)})
  IN  ceil_to_grid(IF tree[c].kind = "clear" THEN start[tree[c].pulse] ELSE free, grid[c])

\* Seeded fault: rounded to the later grid point.
RightStartLater(f, c, len) ==
  ceil_to_grid(Min({0} \cup {f.edge[s] : s \in signals[c]}
                     \cup {start[b] : b \in PlaysBefore(f.node, c)}) - len, grid[c])

\* As late as possible, counted back from the end of the section.
RightStart(f, c, len) ==
  LET before == Min({0} \cup {f.edge[s] : s \in signals[c]}
                      \cup {start[b] : b \in PlaysBefore(f.node, c)})
  IN  floor_to_grid(before - len, grid[c])

\* The iterations of a loop follow each other, each as long as it is so far.
IterationStart(p, c) ==
  LET i == Index(p, c)
      last == tree[p].children[i - 1]
  IN  IF i = 1 THEN 0 ELSE start[last] + ceil_to_grid(length[last], grid[p])

\* Where the call f asks its child to start, relative to f's node.
ProposedStart(f, c) ==
  CASE tree[f.node].kind = "unrolled" -> IterationStart(f.node, c)
    [] tree[f.node].kind \in Arranged /\ ~tree[f.node].right -> LeftStart(f, c)
    [] OTHER -> 0

\* Seeded fault: the children of a right-aligned section are fixed at once.
MayChangeInLoops(f, c) ==
  \/ f.mayChange
  \/ tree[f.node].kind = "unrolled" /\ tree[f.node].mode = "AUTO"

MayChange(f, c) ==
  \/ f.mayChange
  \/ RightArranged(f.node)
  \/ tree[f.node].kind = "unrolled" /\ tree[f.node].mode = "AUTO"

Acquisitions(c) == acquired[tree[c].handle]

\* Seeded fault: the start of the acquisition counts.
EarliestMatchOfStart(c) ==
  LET acquisition == Last(Acquisitions(c))
  IN  Max({0} \cup {ceil_to_grid(absolute[acquisition] + Latency[s], grid[c]) : s \in signals[c]})

\* _compute_start_with_latency: after the data of the last acquisition visited.
EarliestMatch(c) ==
  LET acquisition == Last(Acquisitions(c))
      end == absolute[acquisition] + length[acquisition]
  IN  Max({0} \cup {ceil_to_grid(end + Latency[s], grid[c]) : s \in signals[c]})

Matches(c) == tree[c].kind = "match" /\ tree[c].handle # ""

\* The absolute start the child c of f returns.
CalledAt(f, c) ==
  LET asked == f.at + ProposedStart(f, c)
  IN  IF Matches(c) THEN Max({asked, EarliestMatch(c)}) ELSE asked

\* The exceptions raised before a child is timed.
Refused(f, c) ==
  \/ /\ tree[f.node].kind \in Arranged /\ ~tree[f.node].right
     /\ \E name \in tree[c].after :
          \A b \in Named(f.node, name) : Index(f.node, b) >= Index(f.node, c)
  \/ /\ RightArranged(f.node)
     /\ \/ tree[c].kind = "clear"
        \/ \E b \in PlaysBefore(f.node, c) : Index(f.node, b) <= Index(f.node, c)
  \/ /\ Matches(c)
     /\ \/ MayChange(f, c)
        \/ ~(Acquisitions(c) # << >> /\ absolute[Last(Acquisitions(c))] # None)

Placed(f, c, at, len) ==
  IF RightArranged(f.node) THEN RightStart(f, c, len) ELSE at - f.at

\* The call f after its child c has been placed.
Advance(f, c, at, len) ==
  LET st == Placed(f, c, at, len)
  IN  [f EXCEPT !.todo = Tail(@),
                !.edge = [s \in Signals |->
                   IF s \notin signals[c] THEN @[s]
                   ELSE IF RightArranged(f.node) THEN st ELSE st + len]]

-----------------------------------------------------------------------------
(* Lengths.                                                                *)

\* Seeded fault: they move the other way.
MovedBack(starts, n, by) ==
  [m \in Nodes |-> IF m \in Children(n) /\ tree[n].right THEN starts[m] - by ELSE starts[m]]

\* The children of a right-aligned section move with its end.
Moved(starts, n, by) ==
  [m \in Nodes |-> IF m \in Children(n) /\ tree[n].right THEN starts[m] + by ELSE starts[m]]

\* adjust_length
Adjusted(n, old, new) == IF new = old THEN old ELSE ceil_to_grid(new, grid[n])

ContentLength(n, starts, lengths) ==
  ceil_to_grid(Max({0} \cup {starts[c] + lengths[c] : c \in Children(n)}), grid[n])

TooLong(n, content) ==
  tree[n].length # None /\ ceil_to_grid(tree[n].length, grid[n]) < content

\* _calculate_length
LengthOf(n, content) ==
  IF tree[n].length = None THEN content ELSE ceil_to_grid(tree[n].length, grid[n])

RepetitionTime(n) == ceil_to_grid(tree[n].time, grid[n])

\* How long the loop makes an iteration of the given length.
IterationLength(p, len) ==
  CASE tree[p].mode = "FASTEST" -> ceil_to_grid(len, grid[p])
    [] tree[p].mode = "CONSTANT" -> RepetitionTime(p)
    [] tree[p].mode = "AUTO" -> len

-----------------------------------------------------------------------------

Init ==
  \E x \in Experiments :
    /\ tree = x
    /\ signals = SignalsOf(x) /\ grid = GridOf(x, signals) /\ loopGrid = LoopGridOf(x)
    /\ start = [n \in DOMAIN x |-> 0]
    /\ length = [n \in DOMAIN x |-> x[n].length]
    /\ absolute = [n \in DOMAIN x |-> None]
    /\ acquired = [h \in {x[n].handle : n \in DOMAIN x} |-> << >>]
    /\ stack = << Call(1, 0, FALSE) >>
    /\ outcome = "running"

Top == Head(stack)
Next1 == Head(Top.todo)  \* the child to visit
Visiting == outcome = "running" /\ Top.todo # << >>

Refuse ==
  /\ outcome' = "refused"
  /\ UNCHANGED <<built, start, length, absolute, acquired, stack>>

RefuseChild == Visiting /\ Refused(Top, Next1) /\ Refuse

LeafLength(c) ==
  CASE tree[c].kind \in {"reserve", "clear"} -> 0
    [] tree[c].kind = "empty" -> grid[c]
    [] OTHER -> length[c]

VisitLeaf ==
  LET c == Next1
      at == CalledAt(Top, c)
      len == LeafLength(c)
  IN  /\ Visiting /\ ~Refused(Top, c) /\ tree[c].kind \in Leaves
      /\ length' = [length EXCEPT ![c] = len]
      /\ absolute' = IF MayChange(Top, c) THEN absolute ELSE [absolute EXCEPT ![c] = at]
      /\ acquired' = IF tree[c].kind \in {"acquire", "group"} /\ tree[c].handle # ""
                     THEN [acquired EXCEPT ![tree[c].handle] = Append(@, c)] ELSE acquired
      /\ start' = [start EXCEPT ![c] = Placed(Top, c, at, len)]
      /\ stack' = << Advance(Top, c, at, len) >> \o Tail(stack)
      /\ UNCHANGED <<built, outcome>>

VisitBranch ==
  LET c == Next1
  IN  /\ Visiting /\ ~Refused(Top, c) /\ tree[c].kind \notin Leaves
      /\ stack' = << Call(c, CalledAt(Top, c), MayChange(Top, c)) >> \o stack
      /\ UNCHANGED <<built, start, length, absolute, acquired, outcome>>

\* The innermost call returns with this length and its children there; its
\* absolute start is fixed, unless it may change, before the caller places it
\* and, if the caller is a loop, adjusts its length.
Return(len, starts, lengths) ==
  LET n == Top.node
      caller == stack[2]
      placed == [starts EXCEPT ![n] = Placed(caller, n, Top.at, len)]
      final == IF tree[caller.node].kind = "unrolled"
               THEN Adjusted(n, len, IterationLength(caller.node, len)) ELSE len
  IN  /\ absolute' = IF Top.mayChange THEN absolute ELSE FixedFrom(n, Top.at, starts)
      /\ start' = Moved(placed, n, final - len)
      /\ length' = [lengths EXCEPT ![n] = final]
      /\ stack' = << Advance(caller, n, Top.at, final) >> \o SubSeq(stack, 3, Len(stack))
      /\ UNCHANGED <<built, acquired, outcome>>

Leaving(kinds) == outcome = "running" /\ Top.todo = << >> /\ tree[Top.node].kind \in kinds

\* Seeded fault: no check.
TooSlowNever(loop, len) == FALSE

\* check_repetition_time
TooSlow(loop, len) == tree[loop].mode = "CONSTANT" /\ len > RepetitionTime(loop)

\* The section begins on its grid; its end moves to the length asked for.
LeaveSection ==
  LET n == Top.node
      first == IF RightArranged(n) /\ Children(n) # {}
               THEN floor_to_grid(Min({start[c] : c \in Children(n)}), grid[n]) ELSE 0
      arranged == [m \in Nodes |-> IF m \in Children(n) THEN start[m] - first ELSE start[m]]
      content == ContentLength(n, arranged, length)
      len == LengthOf(n, content)
      refused == \/ TooLong(n, content)
                 \/ tree[Parent(n)].kind = "unrolled" /\ TooSlow(Parent(n), len)
  IN  /\ Leaving(Arranged \cup {"match"})
      /\ IF refused THEN Refuse ELSE Return(len, Moved(arranged, n, len - content), length)

\* All iterations of a loop have been timed; in mode AUTO the longest counts.
LeaveUnrolled ==
  LET n == Top.node
      longest == Max({0} \cup {ceil_to_grid(length[c], grid[n]) : c \in Children(n)})
      auto == tree[n].mode = "AUTO"
      lengths == [m \in Nodes |-> IF auto /\ m \in Children(n)
                                  THEN Adjusted(m, length[m], longest) ELSE length[m]]
      starts == [m \in Nodes |->
                   IF ~auto \/ m \notin Below(n) \ {n} THEN start[m]
                   ELSE IF m \in Children(n) THEN longest * (Index(n, m) - 1)
                   ELSE IF Parent(m) \in Children(n) /\ tree[Parent(m)].right
                        THEN start[m] + lengths[Parent(m)] - length[Parent(m)] ELSE start[m]]
      content == ContentLength(n, starts, lengths)
      len == LengthOf(n, content)
  IN  /\ Leaving({"unrolled"})
      /\ IF TooLong(n, content) THEN Refuse
         ELSE Return(len, Moved(starts, n, len - content), lengths)

\* One iteration stands for all; it is extended so that each repetition of it
\* is on the grids of what it contains.
CompressedLength(n, len) ==
  ceil_to_grid(IF tree[n].time = None THEN len ELSE RepetitionTime(n), Lcm(grid[n], loopGrid[n]))

LeaveCompressed ==
  LET n == Top.node
      c == tree[n].children[1]
      iteration == Adjusted(c, length[c], CompressedLength(n, length[c]))
  IN  /\ Leaving({"compressed"})
      /\ IF TooSlow(n, length[c]) THEN Refuse
         ELSE Return(CompressedLength(n, length[c]) * tree[n].count,
                     Moved(start, c, iteration - length[c]),
                     [length EXCEPT ![c] = iteration])

\* RootSchedule: what is below it starts at 0, in parallel.
LeaveRoot ==
  /\ Leaving({"root"})
  /\ length' = [length EXCEPT ![1] = ContentLength(1, start, length)]
  /\ absolute' = FixedFrom(1, 0, start)
  /\ stack' = << >> /\ outcome' = "done"
  /\ UNCHANGED <<built, start, acquired>>

Next ==
  \/ RefuseChild \/ VisitLeaf \/ VisitBranch
  \/ LeaveSection \/ LeaveUnrolled \/ LeaveCompressed \/ LeaveRoot

Spec == Init /\ [][Next]_vars

-----------------------------------------------------------------------------
(* Properties of the finished schedule.                                    *)

Done == outcome = "done"
Position == PositionsFrom(1, 0, start)
End(n) == Position[n] + length[n]

TypeOK ==
  /\ tree \in Seq(NodeType)
  /\ signals \in [Nodes -> SUBSET Signals]
  /\ grid \in [Nodes -> Nat \ {0}] /\ loopGrid \in [Nodes -> Nat \ {0}]
  /\ start \in [Nodes -> Int]
  /\ length \in [Nodes -> Nat \cup {None}]
  /\ absolute \in [Nodes -> Nat \cup {None}]
  /\ \A h \in DOMAIN acquired : acquired[h] \in Seq(Nodes)
  /\ \A i \in DOMAIN stack :
       stack[i] \in [node : Nodes, at : Nat, mayChange : BOOLEAN, todo : Seq(Nodes),
                     edge : [Signals -> Int]]
  /\ outcome \in {"running", "done", "refused"}

\* Different branches of a match exclude each other.
Alternatives(m, n) ==
  \E p \in Nodes : /\ tree[p].kind = "match"
                   /\ \E a, b \in Children(p) : a # b /\ m \in Below(a) /\ n \in Below(b)

\* No two pulses or acquisitions are on the same signal at the same time,
\* wherever in the tree they are: the lengths sections were placed with are
\* those they have after alignment, repetition times and feedback have moved
\* and extended them (section_schedule.py 38-222, loop_schedule.py 29-105).
NoOverlap ==
  Done => \A m, n \in Nodes :
    (/\ m < n /\ tree[m].kind \in Leaves /\ tree[n].kind \in Leaves
     /\ signals[m] \cap signals[n] # {} /\ ~Alternatives(m, n))
      => End(m) <= Position[n] \/ End(n) <= Position[m]

\* What a section contains stays inside it, and the repetitions of a loop's
\* body stay inside theirs, whatever extends or moves them.
Contained ==
  Done => \A n \in Nodes \ {1} :
    Parent(n) # 1 => Position[Parent(n)] <= Position[n] /\ End(n) <= End(Parent(n))

\* In every repetition of the loops around it, a pulse starts on the samples of
\* its signal, and a section that triggers, acquires or mixes sample rates on
\* the sequencer cycles of its signals, so that no event needs rounding later.
OnHardwareGrid ==
  Done => \A n \in Nodes :
    LET cycles == \/ tree[n].kind \in {"match", "iteration"}
                  \/ tree[n].trigger
                  \/ \E c \in Children(n) : tree[c].kind = "acquire"
                  \/ tree[n].kind \in Arranged
                       /\ Cardinality({SampleGrid[s] : s \in signals[n]}) > 1
        repeats == {length[i] : i \in {j \in Nodes \ {1} : /\ tree[Parent(j)].kind = "compressed"
                                                    /\ n \in Below(j)}}
    IN  \A s \in signals[n], t \in {Position[n]} \cup repeats :
          /\ tree[n].kind \in Leaves => t % SampleGrid[s] = 0
          /\ cycles => t % SequencerGrid[s] = 0

\* A match section starts when the data of the acquisition it depends on can
\* have reached its signals, in the first repetition and, with the grid the
\* feedback needs, in every other (match_schedule.py 61-229).
MatchWaitsForData ==
  Done => \A n \in Nodes : Matches(n) =>
    /\ \A a \in ToSet(Acquisitions(n)), s \in signals[n] :
         a < n => Position[n] >= End(a) + Latency[s]
    /\ \A j \in Nodes \ {1} : (tree[Parent(j)].kind = "compressed" /\ n \in Below(j))
         => length[j] % tree[n].loopGrid = 0

\* A condition of the theorem about MatchWaitsForData: a match waits for the last
\* acquisition visited, which is not the last in time where sections are right-aligned
\* or acquired in parallel (a warning, scheduler.py 223).
AcquiresInOrder == \A n \in Nodes : Matches(n) =>
  \A i, j \in DOMAIN Acquisitions(n) :
    i < j => End(Acquisitions(n)[i]) <= End(Acquisitions(n)[j])

\* A section begins when the sections it plays after have ended
\* (section.py 68: "A list of sections that must complete before this section
\* may be played").
PlayAfterKept ==
  Done => \A b, c \in Nodes :
    (b # 1 /\ c # 1 /\ Parent(b) = Parent(c) /\ tree[b].section \in tree[c].after)
      => End(b) <= Position[c]

\* A node is told its absolute start once nothing around it may move it.
MayMove(n) == \E a \in Nodes :
  /\ n \in Below(a) \ {a}
  /\ RightArranged(a) \/ (tree[a].kind = "unrolled" /\ tree[a].mode = "AUTO")

\* A node that may become longer than what it contains.
MayGrow(n) ==
  LET loop == Parent(n)
      repeats == IF tree[loop].kind = "compressed" THEN Lcm(grid[loop], loopGrid[loop]) ELSE grid[loop]
  IN  IF tree[n].kind = "iteration" THEN tree[loop].time # None \/ grid[n] % repeats # 0
      ELSE tree[n].kind \in {"match", "unrolled"} /\ tree[n].length # None

\* A condition of the theorem about AbsoluteIsActual: where a loop extends
\* right-aligned iterations, what they contain moves after it has been told.
NothingMovesLate == \A n \in Nodes : tree[n].right /\ MayGrow(n) => MayMove(n)

\* The absolute start a node was told is where it is (interval_schedule.py 74:
\* "The absolute start time (since trigger) of the interval").
AbsoluteIsActual == Done => absolute = Position
=============================================================================
