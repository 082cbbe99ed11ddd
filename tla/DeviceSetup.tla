----------------------------- MODULE DeviceSetup -----------------------------
(***************************************************************************)
(* DeviceCollection.configure_device_setup: reference clocks, sample       *)
(* clocks, output offsets and ZSync links are set up one after the other,  *)
(* each from the leaders down to their followers.  What a device needs is  *)
(* a list of nodes its driver returns; the controller compares the last    *)
(* values its node monitor has seen with it, sends the commands of the     *)
(* devices that differ, and waits for their responses.                     *)
(*                                                                         *)
(* The instruments go on by themselves.  They answer a command some time   *)
(* after it, a follower loses its reference when its leader switches, and  *)
(* what they report waits at the data server until the controller polls    *)
(* it.  A poll takes all there is, so that only the order of the values of *)
(* one node can be told.                                                   *)
(***************************************************************************)
EXTENDS Naturals, Sequences, SequencesExt

CONSTANTS
  PQSCs, HDAWGs, SHFs, UHFQAs,  \* the devices, by driver
  Children,     \* the devices downstream of each, in order (_downlinks)
  Order,        \* all devices in the order of the collection
  Servers, ServerOf,
  ForceInternal, \* the reference clock asked for, "default" if none is
  WithOffset    \* HDAWGs with an offset on their RF output (_rf_offsets)

Devices == PQSCs \cup HDAWGs \cup SHFs \cup UHFQAs
Followers == {d \in Devices : \E l \in Devices : d \in ToSet(Children[l])}

NodeNames == {"freq", "source", "actual", "status", "extclk",
              "samplefreq", "samplestatus", "on", "offset"}

ASSUME DevicesAssumption ==
  /\ Children \in [Devices -> Seq(Devices)]
  /\ ServerOf \in [Devices -> Servers]
  /\ ForceInternal \in [Devices -> {"yes", "no", "default"}]
  /\ WithOffset \subseteq HDAWGs
  /\ Order \in Seq(Devices) /\ IsInjective(Order) /\ ToSet(Order) = Devices
  /\ Devices \cap NodeNames = {}
ASSUME DriversAssumption ==
  /\ PQSCs \cap HDAWGs = {} /\ PQSCs \cap SHFs = {} /\ PQSCs \cap UHFQAs = {}
  /\ HDAWGs \cap SHFs = {} /\ HDAWGs \cap UHFQAs = {} /\ SHFs \cap UHFQAs = {}
\* ZSync leads from a PQSC to HDAWGs and SHFs, DIO from an HDAWG to UHFQAs.
\* Each device has at most one upstream, a UHFQA one.
ASSUME TopologyAssumption ==
  /\ \A d \in Devices : IsInjective(Children[d])
  /\ \A d \in Devices : Children[d] # << >> => d \in PQSCs \cup HDAWGs
  /\ \A l \in PQSCs : ToSet(Children[l]) \subseteq HDAWGs \cup SHFs
  /\ \A l \in HDAWGs : ToSet(Children[l]) \subseteq UHFQAs
  /\ \A l, m \in Devices : ToSet(Children[l]) \cap ToSet(Children[m]) # {} => l = m
  /\ UHFQAs \subseteq Followers

LeaderOf(d) == CHOOSE l \in Devices : d \in ToSet(Children[l])

-----------------------------------------------------------------------------
(* What the drivers ask for.                                               *)

None == "none"   \* no value is expected: any will do

Node(d, name, value, kind) == [path |-> <<d, name>>, value |-> value, kind |-> kind]

IsLeader(d) == d \notin Followers /\ Children[d] # << >>
IsStandalone(d) == d \notin Followers /\ Children[d] = << >>

SourceOfHDAWG(d) ==
  CASE ForceInternal[d] = "yes" -> "int"
    [] ForceInternal[d] = "default" /\ IsStandalone(d) -> "int"
    [] ForceInternal[d] # "yes" /\ IsLeader(d) -> "ext"
    [] ForceInternal[d] = "no" /\ IsStandalone(d) -> "ext"
    [] OTHER -> "zsync"

SourceOfSHF(d) ==
  CASE ~IsStandalone(d) -> "zsync"
    [] IsStandalone(d) /\ ForceInternal[d] # "no" -> "int"
    [] IsStandalone(d) /\ ForceInternal[d] = "no" -> "ext"

SourceOfPQSC(d) == IF ForceInternal[d] = "yes" THEN "int" ELSE "ext"

\* Internal with an HDAWG that leads (desktop), unless external is asked for.
SourceOfUHFQA(d) ==
  IF IsLeader(LeaderOf(d)) /\ LeaderOf(d) \in HDAWGs /\ ForceInternal[d] # "no" THEN "int" ELSE "ext"

Source(d) ==
  CASE d \in PQSCs -> SourceOfPQSC(d)
    [] d \in HDAWGs -> SourceOfHDAWG(d)
    [] d \in SHFs -> SourceOfSHF(d)
    [] d \in UHFQAs -> SourceOfUHFQA(d)

ExpectedFreq(source) ==
  CASE source = "int" -> None [] source = "ext" -> "10MHz" [] source = "zsync" -> "100MHz"

ClockNodesOfHDAWG(d) ==
  << Node(d, "freq", ExpectedFreq(Source(d)), "Condition"),
     Node(d, "source", Source(d), "Command"),
     Node(d, "status", "locked", "Response") >>

\* SHFs and the PQSC also report the source that is in use.
ClockNodesOfGen2(d) ==
  << Node(d, "freq", ExpectedFreq(Source(d)), "Condition"),
     Node(d, "source", Source(d), "Command"),
     Node(d, "actual", Source(d), "Response"),
     Node(d, "status", "locked", "Response") >>

ClockNodes(d) ==
  CASE d \in HDAWGs -> ClockNodesOfHDAWG(d)
    [] d \in SHFs \cup PQSCs -> ClockNodesOfGen2(d)
    [] d \in UHFQAs -> << Node(d, "extclk", Source(d), "Command") >>

\* Seeded fault: the clock first.
SampleClockNodesUnprepared(d) ==
  IF d \notin HDAWGs THEN << >>
  ELSE << Node(d, "samplefreq", "asked", "Command"),
          Node(d, "samplestatus", "locked", "Response"),
          Node(d, "on", "off", "Prepare") >>

\* The outputs are switched off first; a sample clock that changes under an
\* output in use is an error of the device (device_hdawg.py 176-179).
SampleClockNodes(d) ==
  IF d \notin HDAWGs THEN << >>
  ELSE << Node(d, "on", "off", "Prepare"),
          Node(d, "samplefreq", "asked", "Command"),
          Node(d, "samplestatus", "locked", "Response") >>

OffsetNodes(d) ==
  IF d \notin WithOffset THEN << >>
  ELSE << Node(d, "on", "on", "Command"), Node(d, "offset", "asked", "Command") >>

\* Fulfilled by the followers when they switch to ZSync: nothing to command.
LinkNodes(d) ==
  IF d \notin PQSCs THEN << >>
  ELSE [i \in DOMAIN Children[d] |-> Node(d, Children[d][i], "up", "WaitCondition")]

Configs(d) ==
  << ClockNodes(d), SampleClockNodes(d), OffsetNodes(d), LinkNodes(d) >>

NumConfigs == 4
Wanted(d) == UNION {ToSet(Configs(d)[c]) : c \in 1 .. NumConfigs}
Paths == {n.path : n \in UNION {Wanted(d) : d \in Devices}}
Values == {"int", "ext", "zsync", "10MHz", "100MHz", "locked", "locking",
           "asked", "another", "on", "off", "up", "down"}

\* By their places, which are set in this order.
filter_commands(nodes) ==
  {k \in DOMAIN nodes : nodes[k].kind \in {"Prepare", "Command"}}
filter_conditions(nodes) == {n \in ToSet(nodes) : n.kind # "Prepare"}

\* Seeded fault: the responses are not awaited.
filter_responsesWithout(nodes) == {n \in ToSet(nodes) : n.kind = "Command"}

\* Seeded fault: conditions awaited like responses.
filter_responsesAndConditions(nodes) ==
  {n \in ToSet(nodes) : n.kind \in {"Condition", "Command", "Response"}}

filter_responses(nodes) ==
  {n \in ToSet(nodes) : n.kind \in {"Command", "Response"}}

IsExpected(value, expected) == expected = None \/ value = expected

-----------------------------------------------------------------------------
VARIABLES
  pc,        \* where configure_device_setup is
  config,    \* the configuration being set up, 1 .. NumConfigs
  targets,   \* the devices of the level it is set up on
  commands,  \* set_nodes: what is still to be set, each by the place of its
             \* device in targets and its own place in the device's nodes
  awaited,   \* ResponseWaiter: the nodes not yet seen with their value
  queue,     \* NodeMonitor: the values of each node not yet consumed
  last,      \* NodeMonitor: the last value received
  transit,   \* data servers: the values of each node nobody polled yet
  quiet,     \* history: the instruments were settled when the setup began
  node,      \* the instruments' nodes
  switching, \* devices whose reference clock is to lock, or to report again
  sampling   \* HDAWGs whose sample clock is changing

controller == <<pc, config, targets, commands, awaited, quiet>>
monitor == <<queue, last>>
instruments == <<node, switching, sampling>>
vars == <<controller, monitor, transit, instruments>>

Clocked == Devices \ UHFQAs   \* UHFQAs have no status of their clock
Doubtful == {d \in Clocked : Source(d) = "ext"}  \* with a reference of their own

Locked(nodes, d) == nodes[<<d, "status">>] = "locked"
OnZSync(nodes, d) == d \in Clocked /\ nodes[<<d, "source">>] = "zsync"

\* The instruments as they were left: with another source and sample clock,
\* not locked, with an external reference that is not the right one; all
\* outputs are on.
Left(other, unlocked, absent) ==
  LET source(d) == IF d \notin other THEN Source(d)
                   ELSE IF Source(d) = "int" THEN "ext" ELSE "int"
      locked(d) == d \in Clocked \ unlocked
      value(d, name) ==
        CASE name \in {"source", "actual", "extclk"} -> source(d)
          [] name = "status" -> IF locked(d) THEN "locked" ELSE "locking"
          [] name = "freq" ->
               IF source(d) = "ext" /\ d \notin absent THEN "10MHz" ELSE "100MHz"
          [] name = "samplefreq" -> IF d \in other THEN "another" ELSE "asked"
          [] name = "samplestatus" -> "locked"
          [] name = "on" -> "on"
          [] name = "offset" -> "asked"
          [] OTHER -> IF locked(name) /\ source(name) = "zsync" THEN "up" ELSE "down"
  IN [p \in Paths |-> value(p[1], p[2])]

CanLock(d) == OnZSync(node, d) => Locked(node, LeaderOf(d)) /\ LeaderOf(d) \notin switching

CanLink(l, d) ==
  /\ <<l, d>> \in Paths /\ node[<<l, d>>] # "up"
  /\ OnZSync(node, d) /\ Locked(node, d)

\* No instrument is about to report something by itself.
Settled ==
  /\ sampling = {}
  /\ \A d \in switching : ~CanLock(d)
  /\ \A l, d \in Devices : ~CanLink(l, d)

\* What they are is known to the monitors since start_monitor.  One that has
\* no lock may be about to get it, a follower when its leader has.
Init ==
  /\ pc = "idle" /\ config = 1 /\ targets = << >>
  /\ commands = {} /\ awaited = {} /\ quiet = TRUE
  /\ \E other \in SUBSET Devices, unlocked \in SUBSET Clocked, absent \in SUBSET Doubtful :
       LET left == Left(other, unlocked, absent)
           led == {d \in unlocked : OnZSync(left, d)}
       IN /\ node = left
          /\ \A d \in absent : left[<<d, "source">>] = "ext"
          /\ \A d \in Clocked \ unlocked :
               OnZSync(left, d) => Locked(left, LeaderOf(d))
          /\ switching \in {led, unlocked}
  /\ last = node
  /\ queue = [p \in Paths |-> << >>]
  /\ transit = [p \in Paths |-> << >>]
  /\ sampling = {}

-----------------------------------------------------------------------------
(* NodeMonitor                                                             *)

LastOf(p, values) == IF values = << >> THEN last[p] ELSE Last(values)

Flush ==
  /\ queue' = [p \in Paths |-> << >>]
  /\ last' = [p \in Paths |-> LastOf(p, transit[p])]
  /\ transit' = [p \in Paths |-> << >>]

\* Popping values up to the expected one, or all of them.
Hits(n, values) == {i \in DOMAIN values : IsExpected(values[i], n.value)}
Rest(n, values) ==
  IF Hits(n, values) = {} THEN << >>
  ELSE SubSeq(values, (CHOOSE i \in Hits(n, values) :
                         \A j \in Hits(n, values) : i <= j) + 1, Len(values))

-----------------------------------------------------------------------------
(* configure_device_setup                                                  *)

\* Seeded fault: everything on the first level.
LeadersOrAllTogether == Order

InOrder(ds) ==
  FlattenSeq([i \in DOMAIN Order |-> IF Order[i] \in ds THEN <<Order[i]>> ELSE << >>])

LeadersOrAll ==
  LET leaders == {d \in Devices : IsLeader(d)}
  IN InOrder(IF leaders # {} THEN leaders ELSE Devices)

\* Bound: instruments that are still busy when a setup begins have settled
\* when the one after it begins.
BeginSetup ==
  /\ pc \in {"idle", "ready", "raised"}
  /\ quiet \/ Settled
  /\ Flush
  /\ pc' = "configure" /\ config' = 1 /\ targets' = LeadersOrAll
  /\ commands' = {} /\ awaited' = {} /\ quiet' = Settled
  /\ UNCHANGED instruments

\* Seeded fault: one configuration too many.
GoOnTooFar ==
  /\ config' = config + 1 /\ targets' = LeadersOrAll
  /\ pc' = IF config > NumConfigs THEN "ready" ELSE "configure"
  /\ commands' = {} /\ awaited' = {}
  /\ UNCHANGED quiet

Downstream(ds) == FlattenSeq([i \in DOMAIN ds |-> Children[ds[i]]])

\* The next level, or the first of the next configuration.
GoOn ==
  LET children == Downstream(targets)
  IN /\ IF children # << >>
        THEN pc' = "configure" /\ targets' = children /\ UNCHANGED config
        ELSE IF config < NumConfigs
        THEN pc' = "configure" /\ targets' = LeadersOrAll /\ config' = config + 1
        ELSE pc' = "ready" /\ UNCHANGED <<config, targets>>
     /\ commands' = {} /\ awaited' = {}
     /\ UNCHANGED quiet

\* check_all of a device's ConditionsChecker: with the last values, not polling.
Failed(d) ==
  {n \in filter_conditions(Configs(d)[config]) : ~IsExpected(last[n.path], n.value)}

NothingToDo ==
  /\ pc = "configure"
  /\ \A d \in ToSet(targets) : Failed(d) = {}
  /\ GoOn
  /\ UNCHANGED <<monitor, transit, instruments>>

Configure ==
  /\ pc = "configure"
  /\ LET failing == {i \in DOMAIN targets : Failed(targets[i]) # {}}
     IN /\ failing # {}
        /\ commands' = UNION { {i} \X filter_commands(Configs(targets[i])[config]) : i \in failing }
        /\ awaited' = UNION { {n \in Failed(targets[i]) : n.kind = "WaitCondition"}
                                \cup filter_responses(Configs(targets[i])[config])
                              : i \in failing }
  /\ pc' = IF commands' = {} THEN "wait" ELSE "set"
  /\ UNCHANGED <<config, targets, quiet, monitor, transit, instruments>>

-----------------------------------------------------------------------------
(* What a command does to the instruments.  A source that changes unlocks  *)
(* the device, breaks its link and takes the reference from the followers  *)
(* that use it; a source that is set again is only reported again.         *)

\* Nodes take new values, which are reported.
Report(news) ==
  /\ node' = [p \in Paths |-> IF p \in DOMAIN news THEN news[p] ELSE node[p]]
  /\ transit' = [p \in Paths |-> IF p \in DOMAIN news THEN Append(transit[p], news[p])
                                 ELSE transit[p]]

\* Of devices that lose their clock.
Unlocking(ds) ==
  LET links == {<<LeaderOf(d), d>> : d \in ds \cap Followers} \cap Paths
  IN {<<d, "status">> : d \in {e \in ds : Locked(node, e)}} \cup {p \in links : node[p] = "up"}

SetSource(d, source) ==
  LET dependents == {f \in ToSet(Children[d]) : OnZSync(node, f)}
      losing == IF node[<<d, "source">>] = source THEN {} ELSE {d} \cup dependents
      own == <<d, "source">>
  IN /\ Report([p \in {own} \cup Unlocking(losing) |->
                  IF p = own THEN source ELSE IF p[2] = "status" THEN "locking" ELSE "down"])
     /\ switching' = switching \cup {d} \cup losing
     /\ UNCHANGED sampling

SetSampleFreq(d, freq) ==
  /\ Report([p \in {<<d, "samplefreq">>, <<d, "samplestatus">>} |->
               IF p = <<d, "samplefreq">> THEN freq ELSE "locking"])
  /\ sampling' = sampling \cup {d}
  /\ UNCHANGED switching

SetPlain(path, value) ==
  Report([p \in {path} |-> value]) /\ UNCHANGED <<switching, sampling>>

Obey(n) ==
  \/ n.path[2] = "source" /\ SetSource(n.path[1], n.value)
  \/ n.path[2] = "samplefreq" /\ SetSampleFreq(n.path[1], n.value)
  \/ n.path[2] \notin {"source", "samplefreq"} /\ SetPlain(n.path, n.value)

CommandAt(c) == Configs(targets[c[1]])[config][c[2]]
Precedes(b, c) == b[1] < c[1] \/ (b[1] = c[1] /\ b[2] < c[2])

\* A data server sets its nodes one after the other.  The order of the
\* servers is left open.
SetNode(c) ==
  /\ pc = "set" /\ c \in commands
  /\ \A b \in commands :
       ServerOf[targets[b[1]]] = ServerOf[targets[c[1]]] => ~Precedes(b, c)
  /\ Obey(CommandAt(c))
  /\ commands' = commands \ {c}
  /\ UNCHANGED <<pc, config, targets, awaited, quiet, monitor>>

\* An exception ends the setup, what it was about is gone.
Raise ==
  /\ pc' = "raised"
  /\ config' = 1 /\ targets' = << >> /\ commands' = {} /\ awaited' = {}
  /\ UNCHANGED quiet

BatchSet ==
  /\ pc = "set" /\ commands = {}
  /\ pc' = "wait"
  /\ UNCHANGED <<config, targets, commands, awaited, quiet, monitor, transit, instruments>>

\* The API call raises, with any number of the nodes set.
BatchSetRaises ==
  /\ pc = "set"
  /\ Raise
  /\ UNCHANGED <<monitor, transit, instruments>>

-----------------------------------------------------------------------------
(* ResponseWaiter.wait_all: one pass over the monitors with conditions.    *)
(* poll takes everything there is; what instruments report between the     *)
(* polls of two servers is left to the next pass.                          *)

Polled == {ServerOf[n.path[1]] : n \in awaited}

Read(p) == IF ServerOf[p[1]] \in Polled THEN transit[p] ELSE << >>
Queued(p) == queue[p] \o Read(p)
StillAwaited == {n \in awaited : Hits(n, Queued(n.path)) = {}}

Pass ==
  /\ pc = "wait" /\ awaited # {}
  /\ last' = [p \in Paths |-> LastOf(p, Read(p))]
  /\ queue' = [p \in Paths |->
       LET of == {n \in awaited : n.path = p}
       IN IF of = {} THEN Queued(p) ELSE Rest(CHOOSE n \in of : TRUE, Queued(p))]
  /\ transit' = [p \in Paths |-> IF ServerOf[p[1]] \in Polled THEN << >> ELSE transit[p]]
  /\ UNCHANGED instruments

PollAndCheck ==
  /\ Pass
  /\ awaited' = StillAwaited
  /\ UNCHANGED <<pc, config, targets, commands, quiet>>

WaitTimesOut == Pass /\ StillAwaited # {} /\ Raise

\* The checker at the end is that of the last device of the level.
CheckRaises ==
  /\ pc = "wait" /\ awaited = {}
  /\ Failed(targets[Len(targets)]) # {}
  /\ Raise
  /\ UNCHANGED <<monitor, transit, instruments>>

CheckPasses ==
  /\ pc = "wait" /\ awaited = {}
  /\ Failed(targets[Len(targets)]) = {}
  /\ GoOn
  /\ UNCHANGED <<monitor, transit, instruments>>

ControllerStep ==
  \/ BeginSetup \/ NothingToDo \/ Configure
  \/ (\E c \in commands : SetNode(c)) \/ BatchSet \/ BatchSetRaises
  \/ PollAndCheck \/ WaitTimesOut \/ CheckRaises \/ CheckPasses

-----------------------------------------------------------------------------
(* The instruments by themselves.                                          *)

\* Locks to the source, or reports again that it is.  The frequency of an
\* external reference is what is connected.
ClockLocks(d) ==
  /\ d \in switching
  /\ CanLock(d)
  /\ \E freq \in IF node[<<d, "source">>] # "ext" THEN {"100MHz"}
                ELSE {"10MHz"} \cup (IF d \in Doubtful THEN {"100MHz"} ELSE {}) :
       LET actual == {<<d, "actual">>} \cap Paths
           counted == IF actual # {} \/ node[<<d, "freq">>] # freq THEN {<<d, "freq">>} ELSE {}
       IN Report([p \in {<<d, "status">>} \cup actual \cup counted |->
                    CASE p[2] = "status" -> "locked"
                      [] p[2] = "actual" -> node[<<d, "source">>]
                      [] p[2] = "freq" -> freq])
  /\ switching' = switching \ {d}
  /\ UNCHANGED <<sampling, controller, monitor>>

SampleClockLocks(d) ==
  /\ d \in sampling
  /\ Report([p \in {<<d, "samplestatus">>} |-> "locked"])
  /\ sampling' = sampling \ {d}
  /\ UNCHANGED <<switching, controller, monitor>>

LinkComes(l, d) ==
  /\ CanLink(l, d)
  /\ Report([p \in {<<l, d>>} |-> "up"])
  /\ UNCHANGED <<switching, sampling, controller, monitor>>

Next ==
  \/ ControllerStep
  \/ \E d \in Devices : ClockLocks(d) \/ SampleClockLocks(d)
  \/ \E l, d \in Devices : LinkComes(l, d)

Spec == Init /\ [][Next]_vars

-----------------------------------------------------------------------------
(* Properties.                                                             *)

TypeOK ==
  /\ pc \in {"idle", "configure", "set", "wait", "ready", "raised"}
  /\ config \in 1 .. NumConfigs /\ targets \in Seq(Devices)
  /\ \A c \in commands : c[1] \in DOMAIN targets /\ CommandAt(c).path \in Paths
  /\ awaited \subseteq UNION {Wanted(d) : d \in Devices}
  /\ queue \in [Paths -> Seq(Values)] /\ last \in [Paths -> Values]
  /\ transit \in [Paths -> Seq(Values)] /\ node \in [Paths -> Values]
  /\ quiet \in BOOLEAN /\ switching \subseteq Clocked /\ sampling \subseteq HDAWGs

InEffect(n) == IsExpected(node[n.path], n.value)

\* The devices that are set up: a standalone one only if no device leads.
Reached == {d \in Devices : IsStandalone(d) => \A l \in Devices : ~IsLeader(l)}

\* When a setup that found the instruments settled has succeeded, what it
\* commanded is so in the instruments and answered, and the links are up.
SetupComplete ==
  pc = "ready" /\ quiet =>
    \A d \in Reached : \A n \in Wanted(d) :
      n.kind \in {"Command", "Response", "WaitCondition"} => InEffect(n)

\* A follower is told to switch its clock only when its leader has the clock
\* it is to have (device_collection.py 207-212).
LeadersFirst ==
  pc = "set" /\ quiet =>
    \A c \in commands :
      LET d == targets[c[1]]
      IN CommandAt(c).path[2] = "source" /\ d \in Followers =>
           \A n \in ToSet(ClockNodes(LeaderOf(d))) : n.kind # "Condition" => InEffect(n)

\* No wait is in vain: once the instruments are settled, every value that is
\* waited for has been reported, and is still to be read.
AnswerIsOnItsWay ==
  pc = "wait" /\ quiet /\ Settled =>
    \A n \in awaited :
      \/ Hits(n, queue[n.path]) # {}
      \/ Hits(n, transit[n.path]) # {}

\* The sample clock is never changed under an output that is on.
OutputsOffForSampleClock ==
  [][ \A d \in HDAWGs : d \in sampling' \ sampling => node'[<<d, "on">>] = "off" ]_vars

\* When a level is left without exception, what was asked of each of its
\* devices was verified (zi_node_monitor.py 294-299).
ConditionsVerified ==
  [][ pc = "wait" /\ pc' \in {"configure", "ready"} =>
        \A d \in ToSet(targets) : Failed(d) = {} ]_vars
==============================================================================
