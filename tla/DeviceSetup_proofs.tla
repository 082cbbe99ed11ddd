-------------------------- MODULE DeviceSetup_proofs --------------------------
(***************************************************************************)
(* Theorems about DeviceSetup, for any devices linked as the drivers allow, *)
(* spread over any data servers.                                            *)
(***************************************************************************)
EXTENDS DeviceSetup, DataLemmas

-----------------------------------------------------------------------------
(* Constants: drivers, links and nodes.                                    *)

LEMMA SourceCases ==
  ASSUME NEW d \in Devices
  PROVE  /\ Source(d) \in {"int", "ext", "zsync"}
         /\ d \notin Followers => Source(d) \in {"int", "ext"}
         /\ d \in UHFQAs => Source(d) \in {"int", "ext"}
         /\ d \in PQSCs => Source(d) \in {"int", "ext"}
<1>0. ForceInternal[d] \in {"yes", "no", "default"}
  BY DevicesAssumption
<1>1. CASE d \in PQSCs
  <2>1. Source(d) = SourceOfPQSC(d)
    BY <1>1, DriversAssumption DEF Source
  <2> QED BY <2>1, <1>1, DriversAssumption DEF SourceOfPQSC
<1>2. CASE d \in HDAWGs
  <2>1. Source(d) = SourceOfHDAWG(d)
    BY <1>2, DriversAssumption DEF Source
  <2>2. SourceOfHDAWG(d) \in {"int", "ext", "zsync"}
    BY DEF SourceOfHDAWG
  <2>3. d \notin Followers => IsLeader(d) \/ IsStandalone(d)
    BY DEF IsLeader, IsStandalone
  <2>4. d \notin Followers => SourceOfHDAWG(d) \in {"int", "ext"}
    BY <2>3, <1>0 DEF SourceOfHDAWG
  <2> QED BY <2>1, <2>2, <2>4, <1>2, DriversAssumption
<1>3. CASE d \in SHFs
  <2>1. Source(d) = SourceOfSHF(d)
    BY <1>3, DriversAssumption DEF Source
  <2>2. SourceOfSHF(d) \in {"int", "ext", "zsync"}
    BY DEF SourceOfSHF
  <2>3. d \notin Followers => IsStandalone(d)
    BY <1>3, TopologyAssumption, DriversAssumption DEF IsStandalone
  <2>4. d \notin Followers => SourceOfSHF(d) \in {"int", "ext"}
    BY <2>3, <1>0 DEF SourceOfSHF
  <2> QED BY <2>1, <2>2, <2>4, <1>3, DriversAssumption
<1>4. CASE d \in UHFQAs
  <2>1. Source(d) = SourceOfUHFQA(d)
    BY <1>4, DriversAssumption DEF Source
  <2> QED BY <2>1, <1>4, DriversAssumption, TopologyAssumption DEF SourceOfUHFQA
<1> QED BY <1>1, <1>2, <1>3, <1>4 DEF Devices

(* The nodes of a device in each configuration.                            *)
IsNode(d, c, k, n) ==
  \/ c = 1 /\ d \in Clocked /\ k = 1 /\ n = Node(d, "freq", ExpectedFreq(Source(d)), "Condition")
  \/ c = 1 /\ d \in Clocked /\ k = 2 /\ n = Node(d, "source", Source(d), "Command")
  \/ c = 1 /\ d \in Clocked /\ k \in {3, 4} /\ n = Node(d, "status", "locked", "Response")
  \/ c = 1 /\ d \in SHFs \cup PQSCs /\ k = 3 /\ n = Node(d, "actual", Source(d), "Response")
  \/ c = 1 /\ d \in UHFQAs /\ k = 1 /\ n = Node(d, "extclk", Source(d), "Command")
  \/ c = 2 /\ d \in HDAWGs /\ k = 1 /\ n = Node(d, "on", "off", "Prepare")
  \/ c = 2 /\ d \in HDAWGs /\ k = 2 /\ n = Node(d, "samplefreq", "asked", "Command")
  \/ c = 2 /\ d \in HDAWGs /\ k = 3 /\ n = Node(d, "samplestatus", "locked", "Response")
  \/ c = 3 /\ d \in WithOffset /\ k = 1 /\ n = Node(d, "on", "on", "Command")
  \/ c = 3 /\ d \in WithOffset /\ k = 2 /\ n = Node(d, "offset", "asked", "Command")
  \/ c = 4 /\ d \in PQSCs /\ \E f \in ToSet(Children[d]) : n = Node(d, f, "up", "WaitCondition")

LEMMA NodeCases ==
  ASSUME NEW d \in Devices, NEW c \in 1 .. NumConfigs, NEW k \in DOMAIN Configs(d)[c]
  PROVE  IsNode(d, c, k, Configs(d)[c][k])
<1>1. CASE c = 1
  <2>0. Configs(d)[c] = ClockNodes(d)
    BY <1>1 DEF Configs
  <2>1. CASE d \in HDAWGs
    <3>1. ClockNodes(d) = ClockNodesOfHDAWG(d)
      BY <2>1, DriversAssumption DEF ClockNodes
    <3>2. d \in Clocked
      BY <2>1, DriversAssumption DEF Clocked
    <3> QED BY <3>1, <3>2, <2>0, <1>1 DEF ClockNodesOfHDAWG, IsNode
  <2>2. CASE d \in SHFs \cup PQSCs
    <3>1. ClockNodes(d) = ClockNodesOfGen2(d)
      BY <2>2, DriversAssumption DEF ClockNodes
    <3>2. d \in Clocked
      BY <2>2, DriversAssumption DEF Clocked
    <3> QED BY <3>1, <3>2, <2>0, <1>1, <2>2 DEF ClockNodesOfGen2, IsNode
  <2>3. CASE d \in UHFQAs
    <3>1. ClockNodes(d) = << Node(d, "extclk", Source(d), "Command") >>
      BY <2>3, DriversAssumption DEF ClockNodes
    <3> QED BY <3>1, <2>0, <1>1, <2>3 DEF IsNode
  <2> QED BY <2>1, <2>2, <2>3 DEF Devices
<1>2. CASE c = 2
  <2>0. Configs(d)[c] = SampleClockNodes(d)
    BY <1>2 DEF Configs
  <2> QED BY <2>0, <1>2 DEF SampleClockNodes, IsNode
<1>3. CASE c = 3
  <2>0. Configs(d)[c] = OffsetNodes(d)
    BY <1>3 DEF Configs
  <2> QED BY <2>0, <1>3 DEF OffsetNodes, IsNode
<1>4. CASE c = 4
  <2>0. Configs(d)[c] = LinkNodes(d)
    BY <1>4 DEF Configs
  <2>1. d \in PQSCs
    BY <2>0 DEF LinkNodes
  <2>2. Configs(d)[c][k] = Node(d, Children[d][k], "up", "WaitCondition") /\ k \in DOMAIN Children[d]
    BY <2>0, <2>1 DEF LinkNodes
  <2>3. Children[d][k] \in ToSet(Children[d])
    BY <2>2 DEF ToSet
  <2> QED BY <2>1, <2>2, <2>3, <1>4 DEF IsNode
<1> QED BY <1>1, <1>2, <1>3, <1>4 DEF NumConfigs

LEMMA NodesOf ==
  ASSUME NEW d \in Devices
  PROVE  /\ d \in Clocked =>
              /\ 2 \in DOMAIN Configs(d)[1] /\ Configs(d)[1][2] = Node(d, "source", Source(d), "Command")
              /\ Node(d, "source", Source(d), "Command") \in ToSet(Configs(d)[1])
              /\ Node(d, "status", "locked", "Response") \in ToSet(Configs(d)[1])
              /\ Node(d, "freq", ExpectedFreq(Source(d)), "Condition") \in ToSet(Configs(d)[1])
         /\ d \in SHFs \cup PQSCs => Node(d, "actual", Source(d), "Response") \in ToSet(Configs(d)[1])
         /\ d \in UHFQAs =>
              1 \in DOMAIN Configs(d)[1] /\ Configs(d)[1][1] = Node(d, "extclk", Source(d), "Command")
         /\ d \in HDAWGs =>
              /\ DOMAIN Configs(d)[2] = 1 .. 3
              /\ Configs(d)[2][1] = Node(d, "on", "off", "Prepare")
              /\ Configs(d)[2][2] = Node(d, "samplefreq", "asked", "Command")
              /\ Configs(d)[2][3] = Node(d, "samplestatus", "locked", "Response")
              /\ Node(d, "samplestatus", "locked", "Response") \in ToSet(Configs(d)[2])
         /\ d \in WithOffset =>
              /\ DOMAIN Configs(d)[3] = 1 .. 2
              /\ Configs(d)[3][1] = Node(d, "on", "on", "Command")
              /\ Configs(d)[3][2] = Node(d, "offset", "asked", "Command")
         /\ d \in PQSCs => \A f \in ToSet(Children[d]) :
              Node(d, f, "up", "WaitCondition") \in ToSet(Configs(d)[4])
<1>0. /\ Configs(d)[1] = ClockNodes(d) /\ Configs(d)[2] = SampleClockNodes(d)
      /\ Configs(d)[3] = OffsetNodes(d) /\ Configs(d)[4] = LinkNodes(d)
  BY DEF Configs
<1>1. ASSUME d \in HDAWGs
      PROVE  /\ d \in Clocked /\ d \notin SHFs \cup PQSCs \cup UHFQAs
             /\ Configs(d)[1] = ClockNodesOfHDAWG(d)
  BY <1>0, <1>1, DriversAssumption DEF ClockNodes, Clocked
<1>2. ASSUME d \in SHFs \cup PQSCs
      PROVE  /\ d \in Clocked /\ d \notin HDAWGs \cup UHFQAs
             /\ Configs(d)[1] = ClockNodesOfGen2(d)
  BY <1>0, <1>2, DriversAssumption DEF ClockNodes, Clocked
<1>3. ASSUME d \in UHFQAs
      PROVE  /\ d \notin Clocked /\ d \notin HDAWGs \cup SHFs \cup PQSCs
             /\ Configs(d)[1] = << Node(d, "extclk", Source(d), "Command") >>
  BY <1>0, <1>3, DriversAssumption DEF ClockNodes, Clocked
<1>4. d \in HDAWGs \/ d \in SHFs \cup PQSCs \/ d \in UHFQAs
  BY DEF Devices
<1>5. ASSUME d \in Clocked
      PROVE  /\ 2 \in DOMAIN Configs(d)[1] /\ Configs(d)[1][2] = Node(d, "source", Source(d), "Command")
             /\ Node(d, "source", Source(d), "Command") \in ToSet(Configs(d)[1])
             /\ Node(d, "status", "locked", "Response") \in ToSet(Configs(d)[1])
             /\ Node(d, "freq", ExpectedFreq(Source(d)), "Condition") \in ToSet(Configs(d)[1])
  <2>1. CASE d \in HDAWGs
    BY <2>1, <1>1 DEF ClockNodesOfHDAWG, ToSet
  <2>2. CASE d \in SHFs \cup PQSCs
    BY <2>2, <1>2 DEF ClockNodesOfGen2, ToSet
  <2> QED
    BY <2>1, <2>2, <1>4, <1>5, <1>3
<1>6. d \in SHFs \cup PQSCs => Node(d, "actual", Source(d), "Response") \in ToSet(Configs(d)[1])
  BY <1>2 DEF ClockNodesOfGen2, ToSet
<1>7. d \in UHFQAs => 1 \in DOMAIN Configs(d)[1] /\ Configs(d)[1][1] = Node(d, "extclk", Source(d), "Command")
  BY <1>3
<1>8. ASSUME d \in HDAWGs
      PROVE  /\ DOMAIN Configs(d)[2] = 1 .. 3
             /\ Configs(d)[2][1] = Node(d, "on", "off", "Prepare")
             /\ Configs(d)[2][2] = Node(d, "samplefreq", "asked", "Command")
             /\ Configs(d)[2][3] = Node(d, "samplestatus", "locked", "Response")
             /\ Node(d, "samplestatus", "locked", "Response") \in ToSet(Configs(d)[2])
  BY <1>0, <1>8 DEF SampleClockNodes, ToSet
<1>9. ASSUME d \in WithOffset
      PROVE  /\ DOMAIN Configs(d)[3] = 1 .. 2
             /\ Configs(d)[3][1] = Node(d, "on", "on", "Command")
             /\ Configs(d)[3][2] = Node(d, "offset", "asked", "Command")
  BY <1>0, <1>9 DEF OffsetNodes
<1>10. ASSUME d \in PQSCs, NEW f \in ToSet(Children[d])
       PROVE  Node(d, f, "up", "WaitCondition") \in ToSet(Configs(d)[4])
  BY <1>0, <1>10 DEF LinkNodes, ToSet
<1> QED
  BY <1>5, <1>6, <1>7, <1>8, <1>9, <1>10

(* A link is one of a PQSC to a device that has its clock from it.          *)
LEMMA LinkFacts ==
  ASSUME NEW l \in PQSCs, NEW d \in ToSet(Children[l])
  PROVE  /\ l \in Devices /\ d \in Devices /\ d \in HDAWGs \cup SHFs
         /\ d \in Followers /\ d \in Clocked /\ l \notin Followers /\ l \in Clocked
         /\ LeaderOf(d) = l /\ l # d /\ IsLeader(l) /\ l \in Reached /\ d \in Reached
<1>1. l \in Devices /\ l \in Clocked
  BY DriversAssumption DEF Devices, Clocked
<1>2. d \in Devices /\ d \in HDAWGs \cup SHFs /\ d \in Clocked /\ d # l
  BY <1>1, TopologyAssumption, DriversAssumption DEF Devices, Clocked
<1>3. d \in Followers
  BY <1>1, <1>2 DEF Followers
<1>4. l \notin Followers
  <2> SUFFICES ASSUME NEW m \in Devices, l \in ToSet(Children[m]) PROVE FALSE
    BY DEF Followers
  <2>1. Children[m] # << >>
    BY DEF ToSet
  <2>2. m \in PQSCs \cup HDAWGs
    BY <2>1, TopologyAssumption
  <2>3. l \in HDAWGs \cup SHFs \cup UHFQAs
    BY <2>2, TopologyAssumption
  <2> QED
    BY <2>3, DriversAssumption
<1>5. LeaderOf(d) = l
  <2>1. \A m \in Devices : d \in ToSet(Children[m]) => m = l
    BY <1>1, TopologyAssumption
  <2> QED
    BY <2>1, <1>1 DEF LeaderOf
<1>6. Children[l] # << >>
  BY DEF ToSet
<1>7. IsLeader(l) /\ l \in Reached /\ d \in Reached
  BY <1>1, <1>2, <1>3, <1>4, <1>6 DEF IsLeader, Reached, IsStandalone
<1> QED
  BY <1>1, <1>2, <1>3, <1>4, <1>5, <1>7

(* The leader of a follower: a PQSC, or an HDAWG for a UHFQA.               *)
LEMMA LeaderFacts ==
  ASSUME NEW d \in Followers
  PROVE  /\ d \in Devices /\ LeaderOf(d) \in Devices /\ d \in ToSet(Children[LeaderOf(d)])
         /\ \A l \in Devices : d \in ToSet(Children[l]) => l = LeaderOf(d)
         /\ d \in Clocked => LeaderOf(d) \in PQSCs
         /\ LeaderOf(d) \in Followers => LeaderOf(d) \in HDAWGs /\ d \in UHFQAs
<1>1. d \in Devices /\ \E l \in Devices : d \in ToSet(Children[l])
  BY DEF Followers
<1>2. LeaderOf(d) \in Devices /\ d \in ToSet(Children[LeaderOf(d)])
  BY <1>1 DEF LeaderOf
<1>3. \A l \in Devices : d \in ToSet(Children[l]) => l = LeaderOf(d)
  BY <1>2, TopologyAssumption
<1>4. Children[LeaderOf(d)] # << >>
  BY <1>2 DEF ToSet
<1>5. LeaderOf(d) \in PQSCs \cup HDAWGs
  BY <1>2, <1>4, TopologyAssumption
<1>6. LeaderOf(d) \in HDAWGs => d \in UHFQAs
  BY <1>2, TopologyAssumption
<1>7. LeaderOf(d) \in PQSCs => LeaderOf(d) \notin Followers
  BY <1>2, LinkFacts
<1> QED
  BY <1>1, <1>2, <1>3, <1>5, <1>6, <1>7 DEF Clocked

(* The paths that are monitored.                                           *)
LEMMA PathCases ==
  ASSUME NEW p \in Paths
  PROVE  /\ p[1] \in Devices /\ p = <<p[1], p[2]>>
         /\ \/ p[1] \in Clocked /\ p[2] \in {"freq", "source", "status"}
            \/ p[1] \in SHFs \cup PQSCs /\ p[2] = "actual"
            \/ p[1] \in UHFQAs /\ p[2] = "extclk"
            \/ p[1] \in HDAWGs /\ p[2] \in {"on", "samplefreq", "samplestatus"}
            \/ p[1] \in WithOffset /\ p[2] \in {"on", "offset"}
            \/ p[1] \in PQSCs /\ p[2] \in ToSet(Children[p[1]])
<1>1. PICK d \in Devices, c \in 1 .. NumConfigs : \E n \in ToSet(Configs(d)[c]) : p = n.path
  BY DEF Paths, Wanted
<1>2. PICK n \in ToSet(Configs(d)[c]) : p = n.path
  BY <1>1
<1>3. PICK k \in DOMAIN Configs(d)[c] : n = Configs(d)[c][k]
  BY DEF ToSet
<1>4. IsNode(d, c, k, n)
  BY <1>3, NodeCases
<1>5. p[1] = d /\ p = <<d, p[2]>>
  BY <1>2, <1>4 DEF IsNode, Node
<1> QED
  BY <1>2, <1>4, <1>5 DEF IsNode, Node

LEMMA PathsOf ==
  ASSUME NEW d \in Devices
  PROVE  /\ d \in Clocked => {<<d, "freq">>, <<d, "source">>, <<d, "status">>} \subseteq Paths
         /\ d \in SHFs \cup PQSCs => <<d, "actual">> \in Paths
         /\ d \in UHFQAs => <<d, "extclk">> \in Paths
         /\ d \in HDAWGs =>
              {<<d, "on">>, <<d, "samplefreq">>, <<d, "samplestatus">>} \subseteq Paths
         /\ d \in WithOffset => {<<d, "on">>, <<d, "offset">>} \subseteq Paths
         /\ d \in PQSCs => \A f \in ToSet(Children[d]) : <<d, f>> \in Paths
<1>1. ASSUME NEW c \in 1 .. NumConfigs, NEW n \in ToSet(Configs(d)[c]) PROVE n.path \in Paths
  BY DEF Paths, Wanted
<1>2. ASSUME NEW c \in 1 .. NumConfigs, NEW k \in DOMAIN Configs(d)[c],
             NEW x, NEW v, NEW kind, Configs(d)[c][k] = Node(d, x, v, kind)
      PROVE  <<d, x>> \in Paths
  <2>1. Node(d, x, v, kind) \in ToSet(Configs(d)[c])
    BY <1>2 DEF ToSet
  <2> QED
    BY <2>1, <1>1 DEF Node
<1>3. 1 \in 1 .. NumConfigs /\ 2 \in 1 .. NumConfigs /\ 3 \in 1 .. NumConfigs /\ 4 \in 1 .. NumConfigs
  BY DEF NumConfigs
<1>4. d \in Clocked => {<<d, "freq">>, <<d, "source">>, <<d, "status">>} \subseteq Paths
  BY <1>1, <1>3, NodesOf DEF Node
<1>5. d \in SHFs \cup PQSCs => <<d, "actual">> \in Paths
  BY <1>1, <1>3, NodesOf DEF Node
<1>6. d \in UHFQAs => <<d, "extclk">> \in Paths
  BY <1>2, <1>3, NodesOf DEF Node
<1>7. d \in HDAWGs => {<<d, "on">>, <<d, "samplefreq">>, <<d, "samplestatus">>} \subseteq Paths
  <2> SUFFICES ASSUME d \in HDAWGs PROVE {<<d, "on">>, <<d, "samplefreq">>, <<d, "samplestatus">>} \subseteq Paths
    OBVIOUS
  <2>1. 1 \in DOMAIN Configs(d)[2] /\ 2 \in DOMAIN Configs(d)[2] /\ 3 \in DOMAIN Configs(d)[2]
    BY NodesOf
  <2>2. <<d, "on">> \in Paths
    BY <1>2, <1>3, <2>1, NodesOf
  <2>3. <<d, "samplefreq">> \in Paths
    BY <1>2, <1>3, <2>1, NodesOf
  <2>4. <<d, "samplestatus">> \in Paths
    BY <1>2, <1>3, <2>1, NodesOf
  <2> QED
    BY <2>2, <2>3, <2>4
<1>8. d \in WithOffset => {<<d, "on">>, <<d, "offset">>} \subseteq Paths
  <2> SUFFICES ASSUME d \in WithOffset PROVE {<<d, "on">>, <<d, "offset">>} \subseteq Paths
    OBVIOUS
  <2>1. 1 \in DOMAIN Configs(d)[3] /\ 2 \in DOMAIN Configs(d)[3]
    BY NodesOf
  <2>2. <<d, "on">> \in Paths
    BY <1>2, <1>3, <2>1, NodesOf
  <2>3. <<d, "offset">> \in Paths
    BY <1>2, <1>3, <2>1, NodesOf
  <2> QED
    BY <2>2, <2>3
<1>9. ASSUME d \in PQSCs, NEW f \in ToSet(Children[d]) PROVE <<d, f>> \in Paths
  <2>1. Node(d, f, "up", "WaitCondition") \in ToSet(Configs(d)[4])
    BY <1>9, NodesOf
  <2> QED
    BY <2>1, <1>1, <1>3 DEF Node
<1> QED
  BY <1>4, <1>5, <1>6, <1>7, <1>8, <1>9

LEMMA LinkPath ==
  ASSUME NEW l, NEW d \in Devices, <<l, d>> \in Paths
  PROVE  l \in PQSCs /\ d \in ToSet(Children[l])
<1>1. d \notin NodeNames
  BY DevicesAssumption
<1>2. <<l, d>>[1] = l /\ <<l, d>>[2] = d
  OBVIOUS
<1> QED
  BY <1>1, <1>2, PathCases DEF NodeNames

(* A link is on no path of another kind.                                   *)
LEMMA LinkName ==
  ASSUME NEW l \in PQSCs, NEW d \in ToSet(Children[l]) PROVE d \notin NodeNames
BY LinkFacts, DevicesAssumption

LEMMA NodeTypes ==
  ASSUME NEW d \in Devices, NEW c \in 1 .. NumConfigs, NEW n \in ToSet(Configs(d)[c])
  PROVE  /\ n \in Wanted(d) /\ n.path \in Paths /\ n.path[1] = d
         /\ n.kind \in {"Prepare", "Command", "Condition", "Response", "WaitCondition"}
         /\ n.kind # "Condition" => n.value \in Values /\ n.value # None
         /\ n = Node(d, n.path[2], n.value, n.kind)
<1>1. PICK k \in DOMAIN Configs(d)[c] : n = Configs(d)[c][k]
  BY DEF ToSet
<1>0. IsNode(d, c, k, n)
  BY <1>1, NodeCases
<1>2. n \in Wanted(d) /\ n.path \in Paths
  BY DEF Wanted, Paths
<1>3. n.path[1] = d /\ n = Node(d, n.path[2], n.value, n.kind)
  BY <1>0 DEF IsNode, Node
<1>4. Source(d) \in Values /\ Source(d) # None
  BY SourceCases DEF Values, None
<1>5. n.kind \in {"Prepare", "Command", "Condition", "Response", "WaitCondition"}
  BY <1>0 DEF IsNode, Node
<1>6. n.kind # "Condition" => n.value \in Values /\ n.value # None
  BY <1>0, <1>4 DEF IsNode, Node, Values, None
<1> QED
  BY <1>2, <1>3, <1>5, <1>6

(* A path is wanted at one value in a configuration.                       *)
LEMMA OneNode ==
  ASSUME NEW d \in Devices, NEW c \in 1 .. NumConfigs,
         NEW m \in ToSet(Configs(d)[c]), NEW n \in ToSet(Configs(d)[c]), m.path = n.path
  PROVE  m = n
<1>1. PICK j \in DOMAIN Configs(d)[c] : m = Configs(d)[c][j]
  BY DEF ToSet
<1>2. PICK k \in DOMAIN Configs(d)[c] : n = Configs(d)[c][k]
  BY DEF ToSet
<1>3. m.path[2] = n.path[2] /\ IsNode(d, c, j, m) /\ IsNode(d, c, k, n)
  BY <1>1, <1>2, NodeCases
<1>4. CASE c # 4
  BY <1>3, <1>4 DEF IsNode, Node
<1>5. CASE c = 4
  BY <1>3, <1>5 DEF IsNode, Node
<1> QED
  BY <1>4, <1>5

(* What is commanded, and at which place.                                  *)
IsCommand(d, c, k, n) ==
  \/ c = 1 /\ d \in Clocked /\ k = 2 /\ n = Node(d, "source", Source(d), "Command")
  \/ c = 1 /\ d \in UHFQAs /\ k = 1 /\ n = Node(d, "extclk", Source(d), "Command")
  \/ c = 2 /\ d \in HDAWGs /\ k = 1 /\ n = Node(d, "on", "off", "Prepare")
  \/ c = 2 /\ d \in HDAWGs /\ k = 2 /\ n = Node(d, "samplefreq", "asked", "Command")
  \/ c = 3 /\ d \in WithOffset /\ k = 1 /\ n = Node(d, "on", "on", "Command")
  \/ c = 3 /\ d \in WithOffset /\ k = 2 /\ n = Node(d, "offset", "asked", "Command")

LEMMA CommandCases ==
  ASSUME NEW d \in Devices, NEW c \in 1 .. NumConfigs, NEW k \in filter_commands(Configs(d)[c])
  PROVE  /\ k \in DOMAIN Configs(d)[c] /\ Configs(d)[c][k] \in ToSet(Configs(d)[c])
         /\ IsCommand(d, c, k, Configs(d)[c][k])
<1> DEFINE n == Configs(d)[c][k]
<1>1. k \in DOMAIN Configs(d)[c] /\ n.kind \in {"Prepare", "Command"}
  BY DEF filter_commands
<1>2. n \in ToSet(Configs(d)[c])
  BY <1>1 DEF ToSet
<1>3. IsNode(d, c, k, n)
  BY <1>1, NodeCases
<1>4. IsCommand(d, c, k, n)
  <2> HIDE DEF n
  <2> QED
    BY <1>1, <1>3 DEF IsNode, IsCommand, Node
<1> QED
  BY <1>1, <1>2, <1>4

(* Commands are answered: at least they are reported.                      *)
LEMMA CommandsAnswered ==
  ASSUME NEW d \in Devices, NEW c \in 1 .. NumConfigs, filter_commands(Configs(d)[c]) # {}
  PROVE  filter_responses(Configs(d)[c]) # {}
<1>1. PICK k \in filter_commands(Configs(d)[c]) : TRUE
  OBVIOUS
<1>2. IsCommand(d, c, k, Configs(d)[c][k]) /\ Configs(d)[c][k] \in ToSet(Configs(d)[c])
  BY CommandCases
<1>3. \E n \in ToSet(Configs(d)[c]) : n.kind = "Command"
  <2>1. CASE c = 2 /\ d \in HDAWGs
    <3>1. 2 \in DOMAIN Configs(d)[2] /\ Configs(d)[2][2] = Node(d, "samplefreq", "asked", "Command")
      BY <2>1, NodesOf
    <3>2. Configs(d)[2][2] \in ToSet(Configs(d)[2]) /\ Configs(d)[2][2].kind = "Command"
      BY <3>1 DEF ToSet, Node
    <3> QED
      BY <2>1, <3>2
  <2>2. CASE ~(c = 2 /\ d \in HDAWGs)
    <3>1. Configs(d)[c][k].kind = "Command"
      BY <1>2, <2>2 DEF IsCommand, Node
    <3> QED
      BY <1>2, <3>1
  <2> QED
    BY <2>1, <2>2
<1> QED
  BY <1>3 DEF filter_responses

-----------------------------------------------------------------------------
(* Levels.  A device is set up after the one it depends on.                *)

Level(d) ==
  IF d \notin Followers THEN 0 ELSE IF LeaderOf(d) \notin Followers THEN 1 ELSE 2

AtLevel(ds, r) == ToSet(ds) = {d \in Reached : Level(d) = r}

LEMMA Ordered ==
  ASSUME NEW ds \in SUBSET Devices
  PROVE  InOrder(ds) \in Seq(Devices) /\ IsInjective(InOrder(ds)) /\ ToSet(InOrder(ds)) = ds
<1> DEFINE ss == [i \in DOMAIN Order |-> IF Order[i] \in ds THEN <<Order[i]>> ELSE << >>]
<1>1. Order \in Seq(Devices) /\ IsInjective(Order) /\ ToSet(Order) = Devices
  BY DevicesAssumption
<1>2. ss \in Seq(Seq(Devices)) /\ DOMAIN ss = DOMAIN Order
  <2>1. Len(Order) \in Nat /\ DOMAIN Order = 1 .. Len(Order)
    BY <1>1
  <2>2. ASSUME NEW i \in DOMAIN Order
        PROVE  (IF Order[i] \in ds THEN <<Order[i]>> ELSE << >>) \in Seq(Devices)
    BY <1>1
  <2>3. ss \in [1 .. Len(Order) -> Seq(Devices)]
    BY <2>1, <2>2
  <2> HIDE DEF ss
  <2> QED
    BY <2>1, <2>3, SeqByElements
<1>3. \A i \in DOMAIN ss : IsInjective(ss[i]) /\ ToSet(ss[i]) = {Order[i]} \cap ds
  BY <1>2 DEF IsInjective, ToSet
<1>4. \A i, j \in DOMAIN ss : i # j => ToSet(ss[i]) \cap ToSet(ss[j]) = {}
  BY <1>1, <1>2, <1>3 DEF IsInjective
<1>5. UNION {ToSet(ss[i]) : i \in DOMAIN ss} = ds
  <2>1. ASSUME NEW d \in ds PROVE \E i \in DOMAIN ss : d \in ToSet(ss[i])
    <3>1. PICK i \in DOMAIN Order : Order[i] = d
      BY <1>1 DEF ToSet
    <3> HIDE DEF ss
    <3> QED
      BY <3>1, <1>2, <1>3
  <2>2. ASSUME NEW i \in DOMAIN ss, NEW d \in ToSet(ss[i]) PROVE d \in ds
    <3> HIDE DEF ss
    <3> QED
      BY <1>3, <2>2
  <2> HIDE DEF ss
  <2> QED
    BY <2>1, <2>2
<1>6. InOrder(ds) = FlattenSeq(ss)
  BY DEF InOrder
<1> HIDE DEF ss
<1>7. \A i \in DOMAIN ss : IsInjective(ss[i])
  BY <1>3
<1>8. FlattenSeq(ss) \in Seq(Devices) /\ IsInjective(FlattenSeq(ss)) /\ ToSet(FlattenSeq(ss)) = ds
  BY <1>2, <1>4, <1>5, <1>7, Flattened
<1> QED
  BY <1>6, <1>8

LEMMA LevelUp ==
  ASSUME NEW l \in Devices, NEW d \in ToSet(Children[l])
  PROVE  /\ d \in Reached /\ l \in Reached /\ d \in Followers /\ LeaderOf(d) = l
         /\ Level(l) \in 0 .. 1 /\ Level(d) = Level(l) + 1
<1>1. d \in Devices
  BY DevicesAssumption DEF ToSet
<1>2. d \in Followers /\ LeaderOf(d) = l
  BY <1>1, LeaderFacts DEF Followers
<1>3. Children[l] # << >>
  BY DEF ToSet
<1>4. d \in Reached /\ l \in Reached
  BY <1>1, <1>2, <1>3 DEF Reached, IsStandalone
<1>5. ASSUME l \in Followers, LeaderOf(l) \in Followers PROVE FALSE
  <2>1. l \in UHFQAs
    BY <1>5, LeaderFacts
  <2> QED
    BY <2>1, <1>3, TopologyAssumption, DriversAssumption
<1> QED
  BY <1>2, <1>4, <1>5 DEF Level

LEMMA FirstLevel ==
  LeadersOrAll \in Seq(Devices) /\ IsInjective(LeadersOrAll) /\ AtLevel(LeadersOrAll, 0)
<1> DEFINE leaders == {d \in Devices : IsLeader(d)}
<1>1. CASE leaders # {}
  <2>1. LeadersOrAll = InOrder(leaders)
    BY <1>1 DEF LeadersOrAll
  <2>2. leaders = {d \in Reached : Level(d) = 0}
    BY <1>1 DEF IsLeader, IsStandalone, Reached, Level
  <2> HIDE DEF leaders
  <2>3. leaders \in SUBSET Devices
    BY DEF leaders
  <2> QED
    BY <2>1, <2>2, <2>3, Ordered DEF AtLevel
<1>2. CASE leaders = {}
  <2>1. LeadersOrAll = InOrder(Devices)
    BY <1>2 DEF LeadersOrAll
  <2>2. ASSUME NEW f \in Followers PROVE FALSE
    <3>1. LeaderOf(f) \in Devices /\ f \in ToSet(Children[LeaderOf(f)])
      BY LeaderFacts
    <3>2. CASE LeaderOf(f) \notin Followers
      <4>1. Children[LeaderOf(f)] # << >>
        BY <3>1 DEF ToSet
      <4> QED
        BY <1>2, <3>1, <3>2, <4>1 DEF IsLeader
    <3>3. CASE LeaderOf(f) \in Followers
      <4> DEFINE h == LeaderOf(f)
      <4>1. h \in HDAWGs
        BY <3>3, LeaderFacts
      <4>2. h \in Clocked
        BY <4>1, <3>1, DriversAssumption DEF Clocked
      <4>3. LeaderOf(h) \in PQSCs /\ h \in ToSet(Children[LeaderOf(h)])
        BY <3>3, <4>2, LeaderFacts
      <4>4. IsLeader(LeaderOf(h)) /\ LeaderOf(h) \in Devices
        BY <4>3, LinkFacts
      <4> QED
        BY <4>4, <1>2
    <3> QED
      BY <3>2, <3>3
  <2>3. Devices = {d \in Reached : Level(d) = 0}
    BY <2>2, <1>2 DEF Reached, Level, Followers
  <2> QED
    BY <2>1, <2>3, Ordered DEF AtLevel
<1> QED
  BY <1>1, <1>2

LEMMA NextLevel ==
  ASSUME NEW ds \in Seq(Devices), IsInjective(ds), NEW r \in 0 .. 2, AtLevel(ds, r)
  PROVE  /\ Downstream(ds) \in Seq(Devices) /\ IsInjective(Downstream(ds))
         /\ AtLevel(Downstream(ds), r + 1)
         /\ Downstream(ds) # << >> => r + 1 \in 0 .. 2
         /\ Downstream(ds) = << >> => \A d \in Reached : Level(d) <= r
<1> DEFINE ss == [i \in DOMAIN ds |-> Children[ds[i]]]
<1>0. \A d \in ToSet(ds) : d \in Devices
  BY DEF ToSet
<1>1. ss \in Seq(Seq(Devices)) /\ DOMAIN ss = DOMAIN ds /\ \A i \in DOMAIN ss : ds[i] \in Devices
  <2>1. Len(ds) \in Nat /\ DOMAIN ds = 1 .. Len(ds) /\ \A i \in DOMAIN ds : ds[i] \in Devices
    OBVIOUS
  <2>2. ss \in [1 .. Len(ds) -> Seq(Devices)]
    BY <2>1, DevicesAssumption
  <2> HIDE DEF ss
  <2> QED
    BY <2>1, <2>2, SeqByElements
<1>2. \A i \in DOMAIN ss : IsInjective(ss[i])
  BY <1>1, TopologyAssumption
<1>3. \A i, j \in DOMAIN ss : i # j => ToSet(ss[i]) \cap ToSet(ss[j]) = {}
  BY <1>1, TopologyAssumption DEF IsInjective
<1>4. Downstream(ds) = FlattenSeq(ss)
  BY DEF Downstream
<1>5. UNION {ToSet(ss[i]) : i \in DOMAIN ss} = UNION {ToSet(Children[d]) : d \in ToSet(ds)}
  <2>1. \A i \in DOMAIN ss : ds[i] \in ToSet(ds) /\ ToSet(ss[i]) = ToSet(Children[ds[i]])
    BY <1>1 DEF ToSet
  <2>2. \A d \in ToSet(ds) : \E i \in DOMAIN ss : d = ds[i] /\ ToSet(ss[i]) = ToSet(Children[d])
    BY <1>1 DEF ToSet
  <2> HIDE DEF ss
  <2> QED
    BY <2>1, <2>2
<1>6. /\ Downstream(ds) \in Seq(Devices) /\ IsInjective(Downstream(ds))
      /\ ToSet(Downstream(ds)) = UNION {ToSet(Children[d]) : d \in ToSet(ds)}
  <2> HIDE DEF ss
  <2>1. /\ FlattenSeq(ss) \in Seq(Devices) /\ IsInjective(FlattenSeq(ss))
        /\ ToSet(FlattenSeq(ss)) = UNION {ToSet(ss[i]) : i \in DOMAIN ss}
    BY <1>1, <1>2, <1>3, Flattened
  <2> QED
    BY <2>1, <1>4, <1>5
<1>7. UNION {ToSet(Children[d]) : d \in ToSet(ds)} \subseteq {d \in Reached : Level(d) = r + 1}
  <2> SUFFICES ASSUME NEW l \in ToSet(ds), NEW d \in ToSet(Children[l])
               PROVE  d \in Reached /\ Level(d) = r + 1
    OBVIOUS
  <2>1. Level(l) = r
    BY DEF AtLevel
  <2> QED
    BY <1>0, <2>1, LevelUp
<1>8. ASSUME NEW d \in Reached, Level(d) # 0
      PROVE  /\ LeaderOf(d) \in Reached /\ d \in ToSet(Children[LeaderOf(d)])
             /\ LeaderOf(d) \in Devices /\ Level(d) = Level(LeaderOf(d)) + 1
             /\ Level(LeaderOf(d)) \in 0 .. 1
  <2>1. d \in Followers
    BY <1>8 DEF Level
  <2>2. LeaderOf(d) \in Devices /\ d \in ToSet(Children[LeaderOf(d)])
    BY <2>1, LeaderFacts
  <2> QED
    BY <2>2, LevelUp
<1>9. {d \in Reached : Level(d) = r + 1} \subseteq UNION {ToSet(Children[d]) : d \in ToSet(ds)}
  <2> SUFFICES ASSUME NEW d \in Reached, Level(d) = r + 1
               PROVE  \E l \in ToSet(ds) : d \in ToSet(Children[l])
    OBVIOUS
  <2>1. LeaderOf(d) \in Reached /\ d \in ToSet(Children[LeaderOf(d)]) /\ Level(LeaderOf(d)) = r
    BY <1>8
  <2> QED
    BY <2>1 DEF AtLevel
<1>10. AtLevel(Downstream(ds), r + 1)
  BY <1>6, <1>7, <1>9 DEF AtLevel
<1>11. ASSUME Downstream(ds) # << >> PROVE r + 1 \in 0 .. 2
  <2>1. PICK d : d \in ToSet(Downstream(ds))
    BY <1>6, <1>11 DEF ToSet
  <2>2. Level(d) = r + 1
    BY <2>1, <1>10 DEF AtLevel
  <2>3. Level(d) \in 0 .. 2
    BY DEF Level
  <2> QED
    BY <2>2, <2>3
<1>12. ASSUME Downstream(ds) = << >>, NEW d \in Reached PROVE Level(d) <= r
  <2>1. \A e \in Reached : Level(e) # r + 1
    BY <1>10, <1>12 DEF AtLevel, ToSet
  <2>2. Level(d) \in 0 .. 2
    BY DEF Level
  <2>3. CASE Level(d) = 0
    BY <2>3
  <2>4. CASE Level(d) # 0
    <3>1. Level(d) # r + 1 /\ Level(LeaderOf(d)) # r + 1
      BY <2>1, <2>4, <1>8
    <3> QED
      BY <3>1, <2>4, <1>8
  <2> QED
    BY <2>3, <2>4
<1> QED
  BY <1>6, <1>10, <1>11, <1>12

-----------------------------------------------------------------------------
(* The inductive invariant.                                                *)

Working == pc \in {"configure", "set", "wait", "ready"}
Setting == pc \in {"set", "wait"}
CommandNames == {"source", "extclk", "samplefreq", "on", "offset"}
Heard(p) == ToSet(queue[p]) \cup ToSet(transit[p])

\* One level is set up at a time.
Levels ==
  /\ IsInjective(targets)
  /\ pc \in {"configure", "set", "wait"} => \E r \in 0 .. 2 : AtLevel(targets, r)

\* What is still to be set and what is waited for is about these devices, and
\* what a command brings about is waited for as long as it is not set.
Work ==
  /\ commands \subseteq UNION {{i} \X filter_commands(Configs(targets[i])[config]) : i \in DOMAIN targets}
  /\ commands # {} => pc = "set"
  /\ awaited # {} => Setting
  /\ \A n \in awaited : \E d \in ToSet(targets) :
       n \in ToSet(Configs(d)[config]) /\ n.kind \in {"Command", "Response", "WaitCondition"}
  /\ \A c \in commands : filter_responses(Configs(targets[c[1]])[config]) \subseteq awaited

Structure == TypeOK /\ Levels /\ Work

LEMMA CommandFacts ==
  ASSUME Work, targets \in Seq(Devices), config \in 1 .. NumConfigs, NEW c \in commands
  PROVE  /\ c = <<c[1], c[2]>> /\ c[1] \in DOMAIN targets /\ targets[c[1]] \in Devices
         /\ targets[c[1]] \in ToSet(targets)
         /\ c[2] \in filter_commands(Configs(targets[c[1]])[config])
         /\ c[2] \in DOMAIN Configs(targets[c[1]])[config]
         /\ CommandAt(c) \in ToSet(Configs(targets[c[1]])[config])
         /\ IsCommand(targets[c[1]], config, c[2], CommandAt(c))
         /\ CommandAt(c).path \in Paths /\ CommandAt(c).value \in Values
         /\ CommandAt(c).path[1] = targets[c[1]]
<1>1. PICK i \in DOMAIN targets : c \in {i} \X filter_commands(Configs(targets[i])[config])
  BY DEF Work
<1>2. /\ c = <<c[1], c[2]>> /\ c[1] \in DOMAIN targets /\ targets[c[1]] \in Devices
      /\ c[2] \in filter_commands(Configs(targets[c[1]])[config])
  BY <1>1
<1>3. targets[c[1]] \in ToSet(targets)
  BY <1>2 DEF ToSet
<1>4. /\ c[2] \in DOMAIN Configs(targets[c[1]])[config]
      /\ CommandAt(c) \in ToSet(Configs(targets[c[1]])[config])
      /\ IsCommand(targets[c[1]], config, c[2], CommandAt(c))
  BY <1>2, CommandCases DEF CommandAt
<1>5. CommandAt(c).kind # "Condition"
  BY <1>4 DEF IsCommand, Node
<1> QED
  BY <1>2, <1>3, <1>4, <1>5, NodeTypes

LEMMA AwaitedFacts ==
  ASSUME Work, targets \in Seq(Devices), config \in 1 .. NumConfigs, NEW n \in awaited
  PROVE  /\ n.path \in Paths /\ n.path[1] \in Devices /\ n.path[1] \in ToSet(targets)
         /\ n \in ToSet(Configs(n.path[1])[config]) /\ n \in Wanted(n.path[1])
         /\ n.kind \in {"Command", "Response", "WaitCondition"}
         /\ n.value \in Values /\ n.value # None
         /\ n = Node(n.path[1], n.path[2], n.value, n.kind)
<1>1. PICK d \in ToSet(targets) :
        n \in ToSet(Configs(d)[config]) /\ n.kind \in {"Command", "Response", "WaitCondition"}
  BY DEF Work
<1>2. d \in Devices
  BY DEF ToSet
<1> QED
  BY <1>1, <1>2, NodeTypes

-----------------------------------------------------------------------------
(* The instruments as they were left.                                      *)

IsLeft(left, unlocked) ==
  /\ left \in [Paths -> Values]
  /\ \A d \in Clocked :
       /\ left[<<d, "source">>] \in {"int", "ext", Source(d)}
       /\ left[<<d, "status">>] = IF d \in unlocked THEN "locking" ELSE "locked"
       /\ <<d, "actual">> \in Paths => left[<<d, "actual">>] = left[<<d, "source">>]
  /\ \A d \in HDAWGs : left[<<d, "samplestatus">>] = "locked"
  /\ \A l, d \in Devices : <<l, d>> \in Paths =>
       left[<<l, d>>] = IF d \notin unlocked /\ left[<<d, "source">>] = "zsync"
                        THEN "up" ELSE "down"

LEMMA LeftNodes ==
  ASSUME NEW other \in SUBSET Devices, NEW unlocked \in SUBSET Clocked,
         NEW absent \in SUBSET Doubtful
  PROVE  IsLeft(Left(other, unlocked, absent), unlocked)
<1> DEFINE left == Left(other, unlocked, absent)
<1> DEFINE source(d) == IF d \notin other THEN Source(d)
                        ELSE IF Source(d) = "int" THEN "ext" ELSE "int"
           locked(d) == d \in Clocked \ unlocked
           value(d, name) ==
             CASE name \in {"source", "actual", "extclk"} -> source(d)
               [] name = "status" -> IF locked(d) THEN "locked" ELSE "locking"
               [] name = "freq" ->
                    IF source(d) = "ext" /\ d \notin absent THEN "10MHz" ELSE "100MHz"
               [] name = "samplefreq" -> IF d \in other THEN "another" ELSE "asked"
               [] name = "samplestatus" -> "locked"
               [] name = "on" -> "on"
               [] name = "offset" -> "asked"
               [] OTHER -> IF locked(name) /\ source(name) = "zsync" THEN "up" ELSE "down"
<1>1. left = [p \in Paths |-> value(p[1], p[2])]
  BY Zenon DEF Left
<1> HIDE DEF left
<1>2. \A d \in Devices : source(d) \in {"int", "ext", "zsync"} /\ source(d) \in {"int", "ext", Source(d)}
  BY SourceCases
<1>3. ASSUME NEW d, NEW name
      PROVE  /\ name \in {"source", "actual", "extclk"} => value(d, name) = source(d)
             /\ name = "status" => value(d, name) = IF locked(d) THEN "locked" ELSE "locking"
             /\ name = "freq" => value(d, name) \in {"10MHz", "100MHz"}
             /\ name = "samplefreq" => value(d, name) \in {"another", "asked"}
             /\ name = "samplestatus" => value(d, name) = "locked"
             /\ name = "on" => value(d, name) = "on"
             /\ name = "offset" => value(d, name) = "asked"
             /\ name \notin NodeNames =>
                  value(d, name) = IF locked(name) /\ source(name) = "zsync" THEN "up" ELSE "down"
  <2> HIDE DEF source, locked
  <2> QED
    BY Zenon DEF NodeNames
<1> HIDE DEF source, locked, value
<1>4. ASSUME NEW p \in Paths PROVE value(p[1], p[2]) \in Values
  <2>1. p[1] \in Devices
    BY PathCases
  <2>2. CASE p[2] \in NodeNames
    BY <1>2, <1>3, <2>1, <2>2 DEF Values, NodeNames
  <2>3. CASE p[2] \notin NodeNames
    BY <1>3, <2>3 DEF Values
  <2> QED
    BY <2>2, <2>3
<1>5. left \in [Paths -> Values]
  BY <1>1, <1>4
<1>6. ASSUME NEW d \in Clocked
      PROVE  /\ left[<<d, "source">>] = source(d)
             /\ left[<<d, "source">>] \in {"int", "ext", Source(d)}
             /\ left[<<d, "status">>] = IF d \in unlocked THEN "locking" ELSE "locked"
             /\ <<d, "actual">> \in Paths => left[<<d, "actual">>] = left[<<d, "source">>]
  <2>1. d \in Devices /\ <<d, "source">> \in Paths /\ <<d, "status">> \in Paths
    BY PathsOf DEF Clocked
  <2>2. left[<<d, "source">>] = source(d) /\ left[<<d, "status">>] = value(d, "status")
    BY <1>1, <1>3, <2>1
  <2>3. <<d, "actual">> \in Paths => left[<<d, "actual">>] = source(d)
    BY <1>1, <1>3
  <2>4. value(d, "status") = IF locked(d) THEN "locked" ELSE "locking"
    BY <1>3
  <2>5. locked(d) <=> d \notin unlocked
    BY DEF locked
  <2> QED
    BY <1>2, <2>1, <2>2, <2>3, <2>4, <2>5
<1>7. ASSUME NEW d \in HDAWGs PROVE left[<<d, "samplestatus">>] = "locked"
  <2>1. <<d, "samplestatus">> \in Paths
    BY PathsOf DEF Devices
  <2> QED
    BY <1>1, <1>3, <2>1
<1>8. ASSUME NEW l \in Devices, NEW d \in Devices, <<l, d>> \in Paths
      PROVE  left[<<l, d>>] = IF d \notin unlocked /\ left[<<d, "source">>] = "zsync"
                              THEN "up" ELSE "down"
  <2>1. d \notin NodeNames /\ d \in Clocked
    BY <1>8, LinkPath, LinkName, LinkFacts
  <2>2. left[<<l, d>>] = value(l, d)
    BY <1>1, <1>8
  <2>3. value(l, d) = IF locked(d) /\ source(d) = "zsync" THEN "up" ELSE "down"
    BY <1>3, <2>1
  <2>4. locked(d) <=> d \notin unlocked
    BY <2>1 DEF locked
  <2> QED
    BY <1>6, <2>1, <2>2, <2>3, <2>4
<1>9. IsLeft(left, unlocked)
  BY <1>5, <1>6, <1>7, <1>8 DEF IsLeft
<1> QED
  BY <1>9 DEF left

-----------------------------------------------------------------------------
(* What a step does to the nodes.                                          *)

Changes(p, v) == node'[p] = v /\ transit'[p] = Append(transit[p], v)
Stays(p) == node'[p] = node[p] /\ transit'[p] = transit[p]

LEMMA Reported ==
  ASSUME TypeOK, NEW news, DOMAIN news \subseteq Paths, \A p \in DOMAIN news : news[p] \in Values,
         Report(news)
  PROVE  /\ node' \in [Paths -> Values] /\ transit' \in [Paths -> Seq(Values)]
         /\ \A p \in Paths : IF p \in DOMAIN news THEN Changes(p, news[p]) ELSE Stays(p)
<1>1. node \in [Paths -> Values] /\ transit \in [Paths -> Seq(Values)]
  BY DEF TypeOK
<1>2. \A p \in Paths : (IF p \in DOMAIN news THEN news[p] ELSE node[p]) \in Values
  BY <1>1
<1>3. \A p \in Paths : (IF p \in DOMAIN news THEN Append(transit[p], news[p]) ELSE transit[p]) \in Seq(Values)
  BY <1>1
<1> QED
  BY <1>2, <1>3 DEF Report, Changes, Stays

LEMMA HeardChanges ==
  ASSUME TypeOK, queue' = queue, NEW p \in Paths, NEW v \in Values, Changes(p, v)
  PROVE  /\ Heard(p)' = Heard(p) \cup {v} /\ ToSet(transit'[p]) = ToSet(transit[p]) \cup {v}
         /\ transit'[p] # << >> /\ v \in Heard(p)' /\ Heard(p) \subseteq Heard(p)'
<1>1. transit[p] \in Seq(Values)
  BY DEF TypeOK
<1>2. ToSet(Append(transit[p], v)) = ToSet(transit[p]) \cup {v}
  <2> DEFINE s == transit[p]
             t == Append(s, v)
  <2>0. s \in Seq(Values) /\ t \in Seq(Values) /\ Len(t) = Len(s) + 1 /\ Len(s) \in Nat
    BY <1>1
  <2>1. DOMAIN s = 1 .. Len(s) /\ DOMAIN t = 1 .. Len(s) + 1
    BY <2>0
  <2>2. t[Len(s) + 1] = v /\ \A i \in 1 .. Len(s) : t[i] = s[i]
    BY <2>0
  <2> HIDE DEF s, t
  <2>3. ToSet(t) = ToSet(s) \cup {v}
    BY <2>0, <2>1, <2>2 DEF ToSet
  <2> QED
    BY <2>3 DEF s, t
<1>3. Append(transit[p], v) # << >>
  BY <1>1
<1> QED
  BY <1>2, <1>3 DEF Heard, Changes

LEMMA HeardStays ==
  ASSUME queue' = queue, NEW p \in Paths, Stays(p)
  PROVE  Heard(p)' = Heard(p)
BY DEF Heard, Stays

\* Those that lose their reference when the source of a device changes.
Losing(d, source) ==
  IF node[<<d, "source">>] = source THEN {}
  ELSE {d} \cup {f \in ToSet(Children[d]) : OnZSync(node, f)}

LEMMA SetSourceEffect ==
  ASSUME TypeOK, NEW d \in Clocked, NEW source \in Values, SetSource(d, source)
  PROVE  /\ node' \in [Paths -> Values] /\ transit' \in [Paths -> Seq(Values)]
         /\ Changes(<<d, "source">>, source)
         /\ \A p \in Paths :
              \/ p = <<d, "source">>
              \/ Stays(p) /\ (p[2] = "status" => p[1] \notin Losing(d, source) \/ node[p] # "locked")
                          /\ (p[2] \notin NodeNames => p[2] \notin Losing(d, source) \/ node[p] # "up")
              \/ p[2] = "status" /\ p[1] \in Losing(d, source) /\ Changes(p, "locking")
              \/ /\ p[2] \notin NodeNames /\ p[2] \in Losing(d, source) /\ p[1] = LeaderOf(p[2])
                 /\ node[p] = "up" /\ Changes(p, "down")
         /\ switching' = switching \cup {d} \cup Losing(d, source)
         /\ Losing(d, source) \subseteq Clocked /\ sampling' = sampling
<1> DEFINE own == <<d, "source">>
           losing == Losing(d, source)
           lost == Unlocking(losing)
           news == [p \in {own} \cup lost |->
                     IF p = own THEN source ELSE IF p[2] = "status" THEN "locking" ELSE "down"]
<1>1. losing \subseteq Clocked /\ d \in Devices
  BY DEF Losing, OnZSync, Clocked
<1>2. own \in Paths
  BY PathsOf, <1>1
<1>3. Report(news) /\ switching' = switching \cup {d} \cup losing /\ sampling' = sampling
  BY DEF SetSource, Losing
<1>4. \A p \in Paths :
        p \in lost <=>
          \/ p[2] = "status" /\ p[1] \in losing /\ node[p] = "locked"
          \/ p[2] \notin NodeNames /\ p[2] \in losing /\ p[1] = LeaderOf(p[2]) /\ node[p] = "up"
  <2> SUFFICES ASSUME NEW p \in Paths
      PROVE p \in lost <=>
          \/ p[2] = "status" /\ p[1] \in losing /\ node[p] = "locked"
          \/ p[2] \notin NodeNames /\ p[2] \in losing /\ p[1] = LeaderOf(p[2]) /\ node[p] = "up"
    OBVIOUS
  <2> HIDE DEF losing
  <2>1. p = <<p[1], p[2]>> /\ p[1] \in Devices
    BY PathCases
  <2>2. p \in {<<e, "status">> : e \in {x \in losing : Locked(node, x)}} <=>
          p[2] = "status" /\ p[1] \in losing /\ node[p] = "locked"
    <3>1. ASSUME NEW e \in losing, Locked(node, e), p = <<e, "status">>
          PROVE  p[2] = "status" /\ p[1] \in losing /\ node[p] = "locked"
      BY <3>1 DEF Locked
    <3>2. ASSUME p[2] = "status", p[1] \in losing, node[p] = "locked"
          PROVE  \E e \in {x \in losing : Locked(node, x)} : p = <<e, "status">>
      <4>1. p = <<p[1], "status">>
        BY <2>1, <3>2
      <4>2. Locked(node, p[1])
        BY <4>1, <3>2, Zenon DEF Locked
      <4> QED
        BY <4>1, <4>2, <3>2, Zenon
    <3> QED
      BY <3>1, <3>2
  <2>3. ASSUME p \in {<<LeaderOf(e), e>> : e \in losing \cap Followers}
        PROVE  p[2] \in losing /\ p[1] = LeaderOf(p[2]) /\ p[2] \notin NodeNames
    <3>1. PICK e \in losing \cap Followers : p = <<LeaderOf(e), e>>
      BY <2>3
    <3>2. e \in Devices
      BY DEF Followers
    <3> QED
      BY <3>1, <3>2, DevicesAssumption
  <2>4. ASSUME p[2] \in losing, p[1] = LeaderOf(p[2]), p[2] \notin NodeNames
        PROVE  p \in {<<LeaderOf(e), e>> : e \in losing \cap Followers}
    <3>1. p[2] \in Devices
      BY <2>4, <1>1 DEF Clocked
    <3>2. p[1] \in PQSCs /\ p[2] \in ToSet(Children[p[1]])
      BY <3>1, <2>1, LinkPath
    <3>3. p[2] \in Followers
      BY <3>2, LinkFacts
    <3> QED
      BY <3>3, <2>1, <2>4
  <2> QED
    BY <2>2, <2>3, <2>4 DEF Unlocking
<1>5. lost \subseteq Paths
  <2> HIDE DEF losing
  <2>1. ASSUME NEW e \in losing PROVE <<e, "status">> \in Paths
    BY <1>1, PathsOf DEF Clocked
  <2> QED
    BY <2>1 DEF Unlocking
<1>6. DOMAIN news \subseteq Paths /\ \A p \in DOMAIN news : news[p] \in Values
  <2> HIDE DEF losing, lost
  <2> QED
    BY <1>2, <1>5 DEF Values
<1>7. /\ node' \in [Paths -> Values] /\ transit' \in [Paths -> Seq(Values)]
      /\ \A p \in Paths : IF p \in DOMAIN news THEN Changes(p, news[p]) ELSE Stays(p)
  <2> HIDE DEF news
  <2> QED
    BY <1>3, <1>6, Reported
<1>8. \A p \in Paths :
        /\ p = own => Changes(p, source)
        /\ p # own /\ p \in lost /\ p[2] = "status" => Changes(p, "locking")
        /\ p # own /\ p \in lost /\ p[2] # "status" => Changes(p, "down")
        /\ p # own /\ p \notin lost => Stays(p)
  <2> HIDE DEF losing, lost, own
  <2> QED
    BY <1>7
<1>9. "status" \in NodeNames
  BY DEF NodeNames
<1> HIDE DEF losing, lost, news
<1>10. ASSUME NEW p \in Paths, p # own
       PROVE  \/ Stays(p) /\ (p[2] = "status" => p[1] \notin losing \/ node[p] # "locked")
                          /\ (p[2] \notin NodeNames => p[2] \notin losing \/ node[p] # "up")
              \/ p[2] = "status" /\ p[1] \in losing /\ Changes(p, "locking")
              \/ /\ p[2] \notin NodeNames /\ p[2] \in losing /\ p[1] = LeaderOf(p[2])
                 /\ node[p] = "up" /\ Changes(p, "down")
  <2>1. p[2] \notin NodeNames /\ p[2] \in losing => p[1] = LeaderOf(p[2])
    <3> SUFFICES ASSUME p[2] \notin NodeNames, p[2] \in losing PROVE p[1] = LeaderOf(p[2])
      OBVIOUS
    <3>1. p[1] \in PQSCs /\ p[2] \in ToSet(Children[p[1]])
      BY PathCases DEF NodeNames
    <3> QED
      BY <3>1, LinkFacts
  <2>2. CASE p \in lost
    BY <2>2, <1>4, <1>8, <1>9, <1>10
  <2>3. CASE p \notin lost
    BY <2>1, <2>3, <1>4, <1>8, <1>9, <1>10
  <2> QED
    BY <2>2, <2>3
<1> QED
  BY <1>1, <1>2, <1>3, <1>7, <1>8, <1>10 DEF losing

Loses(m) == IF m.path[2] = "source" THEN Losing(m.path[1], m.value) ELSE {}

LEMMA ObeyEffect ==
  ASSUME Structure, NEW c \in commands, NEW m, m = CommandAt(c), Obey(m)
  PROVE  /\ node' \in [Paths -> Values] /\ transit' \in [Paths -> Seq(Values)]
         /\ Changes(m.path, m.value)
         /\ \A p \in Paths :
              \/ p = m.path
              \/ Stays(p) /\ (p[2] = "status" => p[1] \notin Loses(m) \/ node[p] # "locked")
                          /\ (p[2] \notin NodeNames => p[2] \notin Loses(m) \/ node[p] # "up")
                          /\ (p[2] = "samplestatus" => p[1] # m.path[1] \/ m.path[2] # "samplefreq")
              \/ p[2] = "status" /\ p[1] \in Loses(m) /\ Changes(p, "locking")
              \/ /\ p[2] \notin NodeNames /\ p[2] \in Loses(m) /\ p[1] = LeaderOf(p[2])
                 /\ node[p] = "up" /\ Changes(p, "down")
              \/ /\ p = <<m.path[1], "samplestatus">> /\ m.path[2] = "samplefreq"
                 /\ Changes(p, "locking")
         /\ Loses(m) \subseteq Clocked
         /\ switching' = switching \cup (IF m.path[2] = "source" THEN {m.path[1]} ELSE {}) \cup Loses(m)
         /\ sampling' = sampling \cup (IF m.path[2] = "samplefreq" THEN {m.path[1]} ELSE {})
<1>1. TypeOK /\ Work /\ targets \in Seq(Devices) /\ config \in 1 .. NumConfigs
  BY DEF Structure, TypeOK
<1>2. /\ m.path \in Paths /\ m.value \in Values /\ m.path[1] = targets[c[1]]
      /\ IsCommand(m.path[1], config, c[2], m) /\ m.path[1] \in Devices
  BY <1>1, CommandFacts
<1>3. CASE m.path[2] = "source"
  <2>1. m.path[1] \in Clocked /\ m.path = <<m.path[1], "source">>
    BY <1>2, <1>3 DEF IsCommand, Node
  <2>2. SetSource(m.path[1], m.value)
    BY <1>3, Zenon DEF Obey
  <2>3. Loses(m) = Losing(m.path[1], m.value)
    BY <1>3, Zenon DEF Loses
  <2> DEFINE d == m.path[1]
             v == m.value
             lost == Losing(d, v)
  <2> HIDE DEF lost
  <2>4. /\ node' \in [Paths -> Values] /\ transit' \in [Paths -> Seq(Values)]
        /\ Changes(m.path, v)
        /\ \A p \in Paths :
              \/ p = m.path
              \/ Stays(p) /\ (p[2] = "status" => p[1] \notin lost \/ node[p] # "locked")
                          /\ (p[2] \notin NodeNames => p[2] \notin lost \/ node[p] # "up")
              \/ p[2] = "status" /\ p[1] \in lost /\ Changes(p, "locking")
              \/ /\ p[2] \notin NodeNames /\ p[2] \in lost /\ p[1] = LeaderOf(p[2])
                 /\ node[p] = "up" /\ Changes(p, "down")
        /\ switching' = switching \cup {d} \cup lost
        /\ lost \subseteq Clocked /\ sampling' = sampling
    <3> USE DEF lost
    <3> HIDE DEF d, v
    <3>1. d \in Clocked /\ v \in Values /\ SetSource(d, v) /\ m.path = <<d, "source">>
      BY <2>1, <2>2, <1>2 DEF d, v
    <3> QED
      BY <1>1, <3>1, SetSourceEffect
  <2>5. Loses(m) = lost
    BY <2>3 DEF lost
  <2>6. m.path[2] # "samplefreq"
    BY <1>3
  <2>7. \A p \in Paths :
              \/ p = m.path
              \/ Stays(p) /\ (p[2] = "status" => p[1] \notin lost \/ node[p] # "locked")
                          /\ (p[2] \notin NodeNames => p[2] \notin lost \/ node[p] # "up")
                          /\ (p[2] = "samplestatus" => p[1] # m.path[1] \/ m.path[2] # "samplefreq")
              \/ p[2] = "status" /\ p[1] \in lost /\ Changes(p, "locking")
              \/ /\ p[2] \notin NodeNames /\ p[2] \in lost /\ p[1] = LeaderOf(p[2])
                 /\ node[p] = "up" /\ Changes(p, "down")
              \/ /\ p = <<m.path[1], "samplestatus">> /\ m.path[2] = "samplefreq"
                 /\ Changes(p, "locking")
    BY <2>4, <2>6, Zenon
  <2> QED
    BY <2>4, <2>5, <2>6, <2>7, <1>3
<1>4. Loses(m) = {} \/ m.path[2] = "source"
  BY DEF Loses
<1>5. CASE m.path[2] = "samplefreq"
  <2> DEFINE d == m.path[1]
             news == [p \in {<<d, "samplefreq">>, <<d, "samplestatus">>} |->
                        IF p = <<d, "samplefreq">> THEN m.value ELSE "locking"]
  <2>1. d \in HDAWGs /\ m.path = <<d, "samplefreq">>
    BY <1>2, <1>5 DEF IsCommand, Node
  <2>2. Report(news) /\ sampling' = sampling \cup {d} /\ switching' = switching
    BY <1>5, Zenon DEF Obey, SetSampleFreq
  <2>3. {<<d, "samplefreq">>, <<d, "samplestatus">>} \subseteq Paths
    BY <2>1, <1>2, PathsOf
  <2>4. DOMAIN news \subseteq Paths /\ \A p \in DOMAIN news : news[p] \in Values
    BY <2>3, <1>2 DEF Values
  <2>5. /\ node' \in [Paths -> Values] /\ transit' \in [Paths -> Seq(Values)]
        /\ \A p \in Paths : IF p \in DOMAIN news THEN Changes(p, news[p]) ELSE Stays(p)
    <3> HIDE DEF news
    <3> QED
      BY <1>1, <2>2, <2>4, Reported
  <2>6. /\ Changes(<<d, "samplefreq">>, m.value)
        /\ \A p \in Paths : p # <<d, "samplefreq">> =>
             IF p = <<d, "samplestatus">> THEN Changes(p, "locking") ELSE Stays(p)
    BY <2>3, <2>5
  <2>7. Loses(m) = {}
    BY <1>4, <1>5
  <2>8. ASSUME NEW p \in Paths, p[1] = d, p[2] = "samplestatus" PROVE p = <<d, "samplestatus">>
    BY <2>8, PathCases
  <2> QED
    BY <1>5, <2>1, <2>2, <2>5, <2>6, <2>7, <2>8
<1>6. CASE m.path[2] \notin {"source", "samplefreq"}
  <2> DEFINE news == [p \in {m.path} |-> m.value]
  <2>1. Report(news) /\ sampling' = sampling /\ switching' = switching
    BY <1>6, Zenon DEF Obey, SetPlain
  <2>2. DOMAIN news \subseteq Paths /\ \A p \in DOMAIN news : news[p] \in Values
    BY <1>2
  <2>3. /\ node' \in [Paths -> Values] /\ transit' \in [Paths -> Seq(Values)]
        /\ \A p \in Paths : IF p \in DOMAIN news THEN Changes(p, news[p]) ELSE Stays(p)
    <3> HIDE DEF news
    <3> QED
      BY <1>1, <2>1, <2>2, Reported
  <2>4. Changes(m.path, m.value) /\ \A p \in Paths : p # m.path => Stays(p)
    BY <2>3, <1>2
  <2>5. Loses(m) = {}
    BY <1>4, <1>6
  <2> QED
    BY <1>6, <2>1, <2>3, <2>4, <2>5
<1> QED
  BY <1>3, <1>5, <1>6

LEMMA ClockLocksEffect ==
  ASSUME TypeOK, NEW d \in Devices, ClockLocks(d)
  PROVE  /\ node' \in [Paths -> Values] /\ transit' \in [Paths -> Seq(Values)]
         /\ d \in switching /\ d \in Clocked /\ CanLock(d)
         /\ Changes(<<d, "status">>, "locked")
         /\ <<d, "actual">> \in Paths => Changes(<<d, "actual">>, node[<<d, "source">>])
         /\ Stays(<<d, "freq">>) \/ \E v \in Values : Changes(<<d, "freq">>, v)
         /\ \A p \in Paths : p \notin {<<d, "status">>, <<d, "actual">>, <<d, "freq">>} => Stays(p)
         /\ switching' = switching \ {d}
         /\ UNCHANGED <<sampling, controller, monitor>>
<1>1. d \in switching /\ CanLock(d) /\ switching' = switching \ {d} /\ UNCHANGED <<sampling, controller, monitor>>
  BY DEF ClockLocks
<1>2. d \in Clocked /\ node \in [Paths -> Values]
  BY <1>1 DEF TypeOK
<1>3. <<d, "freq">> \in Paths /\ <<d, "status">> \in Paths /\ <<d, "source">> \in Paths
  BY <1>2, PathsOf
<1> DEFINE actual == {<<d, "actual">>} \cap Paths
           Counted(freq) == IF actual # {} \/ node[<<d, "freq">>] # freq THEN {<<d, "freq">>} ELSE {}
           News(counted, freq) == [p \in {<<d, "status">>} \cup actual \cup counted |->
                    CASE p[2] = "status" -> "locked"
                      [] p[2] = "actual" -> node[<<d, "source">>]
                      [] p[2] = "freq" -> freq]
<1>4. PICK freq \in {"10MHz", "100MHz"} : Report(News(Counted(freq), freq))
  <2>1. PICK freq \in IF node[<<d, "source">>] # "ext" THEN {"100MHz"}
                ELSE {"10MHz"} \cup (IF d \in Doubtful THEN {"100MHz"} ELSE {}) :
          Report(News(Counted(freq), freq))
    BY Zenon DEF ClockLocks
  <2>2. freq \in {"10MHz", "100MHz"}
    OBVIOUS
  <2> QED
    BY <2>1, <2>2, Zenon
<1> DEFINE counted == Counted(freq)
           news == News(counted, freq)
<1>5. counted \subseteq {<<d, "freq">>} /\ actual \subseteq {<<d, "actual">>} /\ actual \subseteq Paths
  OBVIOUS
<1>6. (<<d, "actual">> \in Paths) <=> (<<d, "actual">> \in actual)
  OBVIOUS
<1> HIDE DEF Counted, counted, actual
<1>7. DOMAIN news = {<<d, "status">>} \cup actual \cup counted
  OBVIOUS
<1>8. ASSUME NEW p \in DOMAIN news
      PROVE  /\ p \in Paths /\ p \in {<<d, "status">>, <<d, "actual">>, <<d, "freq">>}
             /\ p = <<d, "status">> => news[p] = "locked"
             /\ p = <<d, "actual">> => news[p] = node[<<d, "source">>]
             /\ p = <<d, "freq">> => news[p] = freq
  <2>1. p \in {<<d, "status">>} \cup actual \cup counted
    BY <1>7
  <2>2. p \in Paths /\ p \in {<<d, "status">>, <<d, "actual">>, <<d, "freq">>}
    BY <2>1, <1>3, <1>5
  <2>3. p[2] = "status" => news[p] = "locked"
    BY <2>1
  <2>4. p[2] = "actual" => news[p] = node[<<d, "source">>]
    BY <2>1
  <2>5. p[2] = "freq" => news[p] = freq
    BY <2>1
  <2> QED
    BY <2>2, <2>3, <2>4, <2>5
<1> HIDE DEF news
<1>9. DOMAIN news \subseteq Paths /\ \A p \in DOMAIN news : news[p] \in Values
  BY <1>2, <1>3, <1>4, <1>8 DEF Values
<1>10. Report(news)
  BY <1>4 DEF news, counted
<1>11. /\ node' \in [Paths -> Values] /\ transit' \in [Paths -> Seq(Values)]
       /\ \A p \in Paths : IF p \in DOMAIN news THEN Changes(p, news[p]) ELSE Stays(p)
  BY <1>9, <1>10, Reported
<1>12. Changes(<<d, "status">>, "locked")
  BY <1>3, <1>7, <1>8, <1>11
<1>13. <<d, "actual">> \in Paths => Changes(<<d, "actual">>, node[<<d, "source">>])
  BY <1>6, <1>7, <1>8, <1>11
<1>14. ASSUME NEW p \in Paths, p \notin {<<d, "status">>, <<d, "actual">>, <<d, "freq">>}
       PROVE  Stays(p)
  BY <1>8, <1>11, <1>14
<1>15. Stays(<<d, "freq">>) \/ \E v \in Values : Changes(<<d, "freq">>, v)
  BY <1>3, <1>9, <1>11
<1> QED
  BY <1>1, <1>2, <1>11, <1>12, <1>13, <1>14, <1>15

LEMMA SampleClockLocksEffect ==
  ASSUME TypeOK, NEW d \in Devices, SampleClockLocks(d)
  PROVE  /\ node' \in [Paths -> Values] /\ transit' \in [Paths -> Seq(Values)]
         /\ d \in sampling /\ d \in HDAWGs
         /\ Changes(<<d, "samplestatus">>, "locked")
         /\ \A p \in Paths : p # <<d, "samplestatus">> => Stays(p)
         /\ sampling' = sampling \ {d}
         /\ UNCHANGED <<switching, controller, monitor>>
<1> DEFINE news == [p \in {<<d, "samplestatus">>} |-> "locked"]
<1>1. /\ Report(news) /\ d \in sampling /\ d \in HDAWGs
      /\ sampling' = sampling \ {d} /\ UNCHANGED <<switching, controller, monitor>>
  BY DEF SampleClockLocks, TypeOK
<1>2. <<d, "samplestatus">> \in Paths
  BY <1>1, PathsOf
<1>3. DOMAIN news \subseteq Paths /\ \A p \in DOMAIN news : news[p] \in Values
  BY <1>2 DEF Values
<1>4. /\ node' \in [Paths -> Values] /\ transit' \in [Paths -> Seq(Values)]
      /\ \A p \in Paths : IF p \in DOMAIN news THEN Changes(p, news[p]) ELSE Stays(p)
  <2> HIDE DEF news
  <2> QED
    BY <1>1, <1>3, Reported
<1> QED
  BY <1>1, <1>2, <1>4

LEMMA LinkComesEffect ==
  ASSUME TypeOK, NEW l \in Devices, NEW d \in Devices, LinkComes(l, d)
  PROVE  /\ node' \in [Paths -> Values] /\ transit' \in [Paths -> Seq(Values)]
         /\ CanLink(l, d) /\ <<l, d>> \in Paths
         /\ Changes(<<l, d>>, "up")
         /\ \A p \in Paths : p # <<l, d>> => Stays(p)
         /\ UNCHANGED <<switching, sampling, controller, monitor>>
<1> DEFINE news == [p \in {<<l, d>>} |-> "up"]
<1>1. /\ Report(news) /\ CanLink(l, d) /\ <<l, d>> \in Paths
      /\ UNCHANGED <<switching, sampling, controller, monitor>>
  BY DEF LinkComes, CanLink
<1>2. DOMAIN news \subseteq Paths /\ \A p \in DOMAIN news : news[p] \in Values
  BY <1>1 DEF Values
<1>3. /\ node' \in [Paths -> Values] /\ transit' \in [Paths -> Seq(Values)]
      /\ \A p \in Paths : IF p \in DOMAIN news THEN Changes(p, news[p]) ELSE Stays(p)
  <2> HIDE DEF news
  <2> QED
    BY <1>1, <1>2, Reported
<1> QED
  BY <1>1, <1>3

-----------------------------------------------------------------------------
(* What the controller reads.                                              *)

LEMMA RestOf ==
  ASSUME NEW n, NEW s \in Seq(Values)
  PROVE  Rest(n, s) \in Seq(Values) /\ ToSet(Rest(n, s)) \subseteq ToSet(s)
<1>1. CASE Hits(n, s) = {}
  BY <1>1 DEF Rest, ToSet
<1>2. CASE Hits(n, s) # {}
  <2> DEFINE first == CHOOSE i \in Hits(n, s) : \A j \in Hits(n, s) : i <= j
  <2>1. Len(s) \in Nat /\ DOMAIN s = 1 .. Len(s) /\ \A i \in DOMAIN s : s[i] \in Values
    OBVIOUS
  <2>2. Hits(n, s) \subseteq 1 .. Len(s)
    BY <2>1 DEF Hits
  <2>3. Hits(n, s) \in SUBSET Nat
    BY <2>1, <2>2
  <2>4. \E i \in Hits(n, s) : \A j \in Hits(n, s) : i <= j
    BY <1>2, <2>3, Least
  <2>5. first \in 1 .. Len(s)
    BY <2>2, <2>4
  <2>6. Rest(n, s) = SubSeq(s, first + 1, Len(s))
    BY <1>2, Zenon DEF Rest
  <2> HIDE DEF first
  <2> DEFINE rest == SubSeq(s, first + 1, Len(s))
  <2>7. rest \in Seq(Values) /\ DOMAIN rest = 1 .. Len(s) - first /\ \A i \in 1 .. Len(s) - first : rest[i] = s[first + i]
    BY <2>1, <2>5
  <2>8. \A i \in 1 .. Len(s) - first : first + i \in 1 .. Len(s)
    BY <2>1, <2>5
  <2> HIDE DEF rest
  <2>9. ToSet(rest) \subseteq ToSet(s)
    BY <2>1, <2>7, <2>8 DEF ToSet
  <2> QED
    BY <2>6, <2>7, <2>9 DEF rest
<1> QED
  BY <1>1, <1>2

LEMMA NothingIn ==
  ASSUME NEW s \in Seq(Values)
  PROVE  ToSet(s) = {} <=> s = << >>
<1>1. ToSet(<< >>) = {}
  BY DEF ToSet
<1>2. ASSUME s # << >> PROVE ToSet(s) # {}
  <2>1. 1 \in DOMAIN s
    BY <1>2
  <2> QED
    BY <2>1 DEF ToSet
<1> QED
  BY <1>1, <1>2

LEMMA HitsOf ==
  ASSUME NEW n, n.value # None, NEW s
  PROVE  Hits(n, s) = {} <=> n.value \notin ToSet(s)
BY DEF Hits, IsExpected, ToSet

LEMMA LastIn ==
  ASSUME TypeOK, NEW p \in Paths, NEW s \in Seq(Values)
  PROVE  /\ LastOf(p, s) \in Values
         /\ s # << >> => LastOf(p, s) \in ToSet(s) /\ LastOf(p, s) = Last(s)
         /\ s = << >> => LastOf(p, s) = last[p]
<1>1. last[p] \in Values
  BY DEF TypeOK
<1>2. CASE s = << >>
  BY <1>1, <1>2 DEF LastOf
<1>3. CASE s # << >>
  <2>1. Len(s) \in DOMAIN s /\ s[Len(s)] \in Values
    BY <1>3
  <2>2. LastOf(p, s) = s[Len(s)] /\ Last(s) = s[Len(s)]
    BY <1>3 DEF LastOf, Last
  <2> QED
    BY <1>3, <2>1, <2>2 DEF ToSet
<1> QED
  BY <1>2, <1>3

LEMMA PassEffect ==
  ASSUME Structure, Pass
  PROVE  /\ last' \in [Paths -> Values] /\ queue' \in [Paths -> Seq(Values)]
         /\ transit' \in [Paths -> Seq(Values)]
         /\ \A p \in Paths : IF \E n \in awaited : ServerOf[n.path[1]] = ServerOf[p[1]]
                             THEN transit'[p] = << >> /\ last'[p] = LastOf(p, transit[p])
                             ELSE transit'[p] = transit[p] /\ last'[p] = last[p]
         /\ \A p \in Paths : Heard(p)' \subseteq Heard(p)
         /\ \A n \in awaited : n \in StillAwaited <=> n.value \notin Heard(n.path)
         /\ StillAwaited \subseteq awaited
<1>1. /\ TypeOK /\ Work /\ targets \in Seq(Devices) /\ config \in 1 .. NumConfigs
      /\ queue \in [Paths -> Seq(Values)] /\ transit \in [Paths -> Seq(Values)]
      /\ last \in [Paths -> Values]
  BY DEF Structure, TypeOK
<1>2. ASSUME NEW p \in Paths
      PROVE  /\ Read(p) \in Seq(Values) /\ LastOf(p, Read(p)) \in Values
             /\ Queued(p) \in Seq(Values) /\ ToSet(Queued(p)) = ToSet(queue[p]) \cup ToSet(Read(p))
             /\ Read(p) = IF \E n \in awaited : ServerOf[n.path[1]] = ServerOf[p[1]] THEN transit[p] ELSE << >>
  <2>1. Read(p) = IF \E n \in awaited : ServerOf[n.path[1]] = ServerOf[p[1]] THEN transit[p] ELSE << >>
    BY DEF Read, Polled
  <2>2. Read(p) \in Seq(Values) /\ queue[p] \in Seq(Values)
    BY <2>1, <1>1
  <2>3. LastOf(p, Read(p)) \in Values
    BY <2>2, <1>1, LastIn
  <2>4. Queued(p) \in Seq(Values) /\ ToSet(Queued(p)) = ToSet(queue[p]) \cup ToSet(Read(p))
    BY <2>2, Joined DEF Queued
  <2> QED
    BY <2>1, <2>2, <2>3, <2>4
<1>3. last' \in [Paths -> Values] /\ \A p \in Paths : last'[p] = LastOf(p, Read(p))
  BY <1>2 DEF Pass
<1> DEFINE Waits(p) == {n \in awaited : n.path = p}
           Kept(p) == IF Waits(p) = {} THEN Queued(p) ELSE Rest(CHOOSE n \in Waits(p) : TRUE, Queued(p))
<1>4. ASSUME NEW p \in Paths
      PROVE  Kept(p) \in Seq(Values) /\ ToSet(Kept(p)) \subseteq ToSet(Queued(p))
  <2>1. CASE Waits(p) = {}
    BY <2>1, <1>2
  <2>2. CASE Waits(p) # {}
    <3>1. Kept(p) = Rest(CHOOSE n \in Waits(p) : TRUE, Queued(p))
      BY <2>2
    <3> HIDE DEF Waits, Kept
    <3> QED
      BY <3>1, <1>2, RestOf
  <2> QED
    BY <2>1, <2>2
<1>5. queue' = [p \in Paths |-> Kept(p)]
  BY Zenon DEF Pass
<1> HIDE DEF Kept
<1>11. queue' \in [Paths -> Seq(Values)] /\ \A p \in Paths : queue'[p] = Kept(p)
  BY <1>4, <1>5
<1>6. \A p \in Paths : transit'[p] = IF \E n \in awaited : ServerOf[n.path[1]] = ServerOf[p[1]] THEN << >> ELSE transit[p]
  BY DEF Pass, Polled
<1>7. transit' \in [Paths -> Seq(Values)]
  BY <1>1 DEF Pass
<1>8. ASSUME NEW p \in Paths
      PROVE IF \E n \in awaited : ServerOf[n.path[1]] = ServerOf[p[1]]
            THEN transit'[p] = << >> /\ last'[p] = LastOf(p, transit[p])
            ELSE transit'[p] = transit[p] /\ last'[p] = last[p]
  <2>1. LastOf(p, << >>) = last[p]
    BY DEF LastOf
  <2> QED
    BY <1>2, <1>3, <1>6, <2>1
<1>9. ASSUME NEW p \in Paths
      PROVE  Heard(p)' \subseteq Heard(p)
  <2>0. ToSet(<< >>) = {}
    BY DEF ToSet
  <2>1. ToSet(queue'[p]) \subseteq ToSet(queue[p]) \cup ToSet(Read(p))
    BY <1>2, <1>4, <1>11
  <2>2. ToSet(Read(p)) \subseteq ToSet(transit[p]) /\ ToSet(transit'[p]) \subseteq ToSet(transit[p])
    BY <1>2, <1>6, <2>0
  <2> QED
    BY <2>1, <2>2 DEF Heard
<1>10. ASSUME NEW n \in awaited
       PROVE  n \in StillAwaited <=> n.value \notin Heard(n.path)
  <2>1. n.path \in Paths /\ n.value # None
    BY <1>1, AwaitedFacts
  <2>2. n \in StillAwaited <=> n.value \notin ToSet(Queued(n.path))
    BY <2>1, HitsOf DEF StillAwaited
  <2>3. Read(n.path) = transit[n.path]
    BY <2>1, <1>2
  <2>4. ToSet(Queued(n.path)) = Heard(n.path)
    BY <2>1, <2>3, <1>2 DEF Heard
  <2> QED
    BY <2>2, <2>4
<1> QED
  BY <1>3, <1>7, <1>8, <1>9, <1>10, <1>11 DEF StillAwaited

LEMMA FlushEffect ==
  ASSUME TypeOK, Flush
  PROVE  /\ last' \in [Paths -> Values] /\ queue' \in [Paths -> Seq(Values)]
         /\ transit' \in [Paths -> Seq(Values)]
         /\ \A p \in Paths : /\ last'[p] = LastOf(p, transit[p]) /\ transit'[p] = << >>
                             /\ Heard(p)' = {}
<1>1. \A p \in Paths : LastOf(p, transit[p]) \in Values
  BY LastIn DEF TypeOK
<1>2. ToSet(<< >>) = {}
  BY DEF ToSet
<1> QED
  BY <1>1, <1>2 DEF Flush, Heard

-----------------------------------------------------------------------------
(* Type correctness, and where the controller is.                          *)

\* Configuration c of d has been set up.
Done(d, c) ==
  \/ pc = "ready" \/ c < config
  \/ c = config /\ \A e \in ToSet(targets) : Level(d) < Level(e)

LEMMA FirstExists ==
  ASSUME NEW d \in Reached
  PROVE  \E e \in ToSet(LeadersOrAll) : Level(e) = 0
<1>1. \E e \in Reached : Level(e) = 0
  <2>1. CASE Level(d) = 0
    BY <2>1
  <2>2. CASE Level(d) # 0
    <3>1. d \in Followers
      BY <2>2 DEF Level
    <3>2. LeaderOf(d) \in Reached
      BY <3>1, LeaderFacts, LevelUp
    <3>3. CASE Level(LeaderOf(d)) = 0
      BY <3>2, <3>3
    <3>4. CASE Level(LeaderOf(d)) # 0
      <4> DEFINE l == LeaderOf(d)
      <4>1. l \in Followers /\ Level(l) \in 0 .. 1
        BY <3>1, <3>4, LeaderFacts, LevelUp DEF Level
      <4>2. LeaderOf(l) \in Reached /\ Level(l) = Level(LeaderOf(l)) + 1 /\ Level(LeaderOf(l)) \in 0 .. 1
        <5> HIDE DEF l
        <5> QED
          BY <4>1, LeaderFacts, LevelUp
      <4>3. Level(LeaderOf(l)) = 0
        BY <4>1, <4>2
      <4> QED
        BY <4>2, <4>3
    <3> QED
      BY <3>3, <3>4
  <2> QED
    BY <2>1, <2>2
<1> QED
  BY <1>1, FirstLevel DEF AtLevel

LEMMA GoOnEffect ==
  ASSUME Structure, pc \in {"configure", "wait"}, GoOn
  PROVE  /\ pc' \in {"configure", "ready"} /\ config' \in 1 .. NumConfigs
         /\ targets' \in Seq(Devices) /\ Levels' /\ commands' = {} /\ awaited' = {} /\ quiet' = quiet
         /\ \A d \in Reached, c \in 1 .. NumConfigs :
              Done(d, c)' <=> Done(d, c) \/ (c = config /\ d \in ToSet(targets))
<1>1. config \in 1 .. NumConfigs /\ targets \in Seq(Devices) /\ IsInjective(targets)
  BY DEF Structure, TypeOK, Levels
<1>2. PICK r \in 0 .. 2 : AtLevel(targets, r)
  BY DEF Structure, Levels
<1>3. commands' = {} /\ awaited' = {} /\ quiet' = quiet
  BY DEF GoOn
<1>4. \A e \in ToSet(targets) : e \in Reached /\ Level(e) = r
  BY <1>2 DEF AtLevel
<1>5. \A d \in Reached : Level(d) \in 0 .. 2
  BY DEF Level
<1>6. pc # "ready"
  OBVIOUS
<1>7. CASE Downstream(targets) # << >>
  <2>1. pc' = "configure" /\ targets' = Downstream(targets) /\ config' = config
    BY <1>7 DEF GoOn
  <2>2. targets' \in Seq(Devices) /\ IsInjective(targets') /\ AtLevel(targets', r + 1) /\ r + 1 \in 0 .. 2
    BY <1>1, <1>2, <1>7, <2>1, NextLevel
  <2>3. Levels'
    BY <2>2 DEF Levels, AtLevel
  <2>4. PICK f \in ToSet(targets') : TRUE
    BY <1>7, <2>1, <2>2 DEF ToSet
  <2>5. \A e \in ToSet(targets') : Level(e) = r + 1 /\ e \in Reached
    BY <2>2 DEF AtLevel
  <2>6. \E e \in ToSet(targets) : TRUE
    <3>1. f \in Reached /\ Level(f) = r + 1 /\ r + 1 # 0
      BY <2>4, <2>5
    <3>2. f \in Followers
      BY <3>1 DEF Level
    <3>3. LeaderOf(f) \in Reached /\ Level(f) = Level(LeaderOf(f)) + 1 /\ Level(LeaderOf(f)) \in 0 .. 1
      BY <3>2, LeaderFacts, LevelUp
    <3>4. Level(LeaderOf(f)) = r
      BY <3>1, <3>3
    <3> QED
      BY <1>2, <3>3, <3>4 DEF AtLevel
  <2>7. ASSUME NEW d \in Reached, NEW c \in 1 .. NumConfigs
        PROVE  Done(d, c)' <=> Done(d, c) \/ (c = config /\ d \in ToSet(targets))
    <3>1. Done(d, c)' <=> c < config \/ (c = config /\ Level(d) < r + 1)
      BY <2>1, <2>4, <2>5 DEF Done
    <3>2. Done(d, c) <=> c < config \/ (c = config /\ Level(d) < r)
      BY <1>4, <1>6, <2>6 DEF Done
    <3>3. d \in ToSet(targets) <=> Level(d) = r
      BY <1>2 DEF AtLevel
    <3>4. Level(d) \in 0 .. 2
      BY <1>5
    <3> QED
      BY <3>1, <3>2, <3>3, <3>4
  <2> QED
    BY <1>1, <1>3, <2>1, <2>2, <2>3, <2>7
<1>8. CASE Downstream(targets) = << >>
  <2>1. \A d \in Reached : Level(d) <= r
    BY <1>1, <1>2, <1>8, NextLevel
  <2>2. ASSUME NEW d \in Reached
        PROVE  Done(d, config) \/ d \in ToSet(targets)
    <3>1. Level(d) < r \/ Level(d) = r
      BY <1>5, <2>1
    <3> QED
      BY <3>1, <1>2, <1>4 DEF Done, AtLevel
  <2>3. CASE config < NumConfigs
    <3>1. pc' = "configure" /\ targets' = LeadersOrAll /\ config' = config + 1
      BY <1>8, <2>3 DEF GoOn
    <3>2. targets' \in Seq(Devices) /\ Levels'
      BY <3>1, FirstLevel DEF Levels, AtLevel
    <3>3. config' \in 1 .. NumConfigs
      BY <3>1, <2>3, <1>1 DEF NumConfigs
    <3>4. ASSUME NEW d \in Reached, NEW c \in 1 .. NumConfigs
          PROVE  Done(d, c)' <=> Done(d, c) \/ (c = config /\ d \in ToSet(targets))
      <4>1. \E e \in ToSet(targets') : ~(Level(d) < Level(e))
        BY <3>1, <1>5, FirstExists
      <4>2. Done(d, c)' <=> c < config + 1
        BY <3>1, <4>1 DEF Done
      <4>3. c < config => Done(d, c)
        BY DEF Done
      <4>4. Done(d, c) => c < config \/ c = config
        BY <1>6 DEF Done
      <4>5. c \in Int /\ config \in Int
        BY <1>1
      <4> QED
        BY <4>2, <4>3, <4>4, <4>5, <2>2
    <3> QED
      BY <1>3, <3>1, <3>2, <3>3, <3>4
  <2>4. CASE ~(config < NumConfigs)
    <3>1. pc' = "ready" /\ targets' = targets /\ config' = config
      BY <1>8, <2>4 DEF GoOn
    <3>2. config = NumConfigs
      BY <1>1, <2>4 DEF NumConfigs
    <3>3. Levels'
      BY <3>1, <1>1 DEF Levels
    <3>4. ASSUME NEW d \in Reached, NEW c \in 1 .. NumConfigs
          PROVE  Done(d, c)' <=> Done(d, c) \/ (c = config /\ d \in ToSet(targets))
      <4>1. Done(d, c)'
        BY <3>1 DEF Done
      <4>2. CASE c = config
        BY <4>1, <4>2, <2>2
      <4>3. CASE c # config
        BY <4>1, <4>3, <3>2 DEF Done, NumConfigs
      <4> QED
        BY <4>2, <4>3
    <3> QED
      BY <1>1, <1>3, <3>1, <3>3, <3>4
  <2> QED
    BY <2>3, <2>4
<1> QED
  BY <1>7, <1>8

LEMMA BeginEffect ==
  ASSUME TypeOK, BeginSetup
  PROVE  /\ pc' = "configure" /\ config' = 1 /\ targets' \in Seq(Devices) /\ Levels'
         /\ commands' = {} /\ awaited' = {} /\ quiet' = Settled /\ Flush
         /\ UNCHANGED instruments
         /\ \A d \in Reached, c \in 1 .. NumConfigs : ~Done(d, c)'
<1>1. /\ pc' = "configure" /\ config' = 1 /\ targets' = LeadersOrAll
      /\ commands' = {} /\ awaited' = {} /\ quiet' = Settled /\ Flush
      /\ UNCHANGED instruments
  BY DEF BeginSetup
<1>2. targets' \in Seq(Devices) /\ Levels'
  BY <1>1, FirstLevel DEF Levels, AtLevel
<1>3. ASSUME NEW d \in Reached, NEW c \in 1 .. NumConfigs, Done(d, c)' PROVE FALSE
  <2>1. c = 1 /\ \A e \in ToSet(targets') : Level(d) < Level(e)
    BY <1>1, <1>3 DEF Done
  <2>2. Level(d) \in 0 .. 2
    BY DEF Level
  <2> QED
    BY <1>1, <2>1, <2>2, FirstExists
<1> QED
  BY <1>1, <1>2, <1>3

\* The controller's own state, when it stays at the same configuration.
LEMMA StructureStays ==
  ASSUME Structure, UNCHANGED <<config, targets>>, quiet' \in BOOLEAN,
         pc \in {"set", "wait"}, pc' \in {"set", "wait"} \/ awaited' = {},
         pc' \in {"set", "wait", "idle", "ready", "raised"},
         commands' \subseteq commands, commands' # {} => pc' = "set" /\ awaited' = awaited,
         awaited' \subseteq awaited,
         queue' \in [Paths -> Seq(Values)], last' \in [Paths -> Values],
         transit' \in [Paths -> Seq(Values)], node' \in [Paths -> Values],
         switching' \subseteq Clocked, sampling' \subseteq HDAWGs
  PROVE  Structure'
<1>1. TypeOK /\ Levels /\ Work
  BY DEF Structure
<1>2. TypeOK'
  <2>1. \A c \in commands' : c[1] \in DOMAIN targets' /\ CommandAt(c)'.path \in Paths
    BY <1>1 DEF TypeOK, CommandAt
  <2>2. awaited' \subseteq UNION {Wanted(d) : d \in Devices}
    BY <1>1 DEF TypeOK
  <2> QED
    BY <1>1, <2>1, <2>2 DEF TypeOK
<1>3. Levels'
  BY <1>1 DEF Levels, AtLevel
<1>4. Work'
  BY <1>1 DEF Work, Setting
<1> QED
  BY <1>2, <1>3, <1>4 DEF Structure

\* When what was done is finished, or given up.
LEMMA StructureMoves ==
  ASSUME Structure, config' \in 1 .. NumConfigs, targets' \in Seq(Devices), Levels',
         quiet' \in BOOLEAN, pc' \in {"configure", "ready", "raised"},
         commands' = {}, awaited' = {},
         queue' \in [Paths -> Seq(Values)], last' \in [Paths -> Values],
         transit' \in [Paths -> Seq(Values)], UNCHANGED instruments
  PROVE  Structure'
<1>1. TypeOK
  BY DEF Structure
<1>2. TypeOK'
  BY <1>1 DEF TypeOK, instruments
<1>3. Work'
  BY DEF Work
<1> QED
  BY <1>2, <1>3 DEF Structure

LEMMA StructureInit == Init => Structure
<1> SUFFICES ASSUME Init PROVE Structure
  OBVIOUS
<1>1. PICK other \in SUBSET Devices, unlocked \in SUBSET Clocked, absent \in SUBSET Doubtful :
        LET left == Left(other, unlocked, absent)
            led == {d \in unlocked : OnZSync(left, d)}
        IN /\ node = left
           /\ \A d \in absent : left[<<d, "source">>] = "ext"
           /\ \A d \in Clocked \ unlocked :
                OnZSync(left, d) => Locked(left, LeaderOf(d))
           /\ switching \in {led, unlocked}
  BY DEF Init
<1>2. node = Left(other, unlocked, absent) /\ switching \subseteq unlocked
  BY <1>1
<1>3. node \in [Paths -> Values] /\ switching \subseteq Clocked
  BY <1>2, LeftNodes DEF IsLeft
<1>4. << >> \in Seq(Devices) /\ << >> \in Seq(Values) /\ IsInjective(<< >>)
  BY DEF IsInjective
<1>5. TypeOK
  BY <1>3, <1>4 DEF TypeOK, Init, NumConfigs
<1>6. Levels /\ Work
  BY <1>4 DEF Levels, Work, Init
<1> QED
  BY <1>5, <1>6 DEF Structure

LEMMA RaiseEffect ==
  ASSUME Structure, Raise,
         queue' \in [Paths -> Seq(Values)], last' \in [Paths -> Values],
         transit' \in [Paths -> Seq(Values)], UNCHANGED instruments
  PROVE  Structure'
<1>1. /\ pc' = "raised" /\ config' = 1 /\ targets' = << >> /\ commands' = {} /\ awaited' = {}
      /\ quiet' = quiet
  BY DEF Raise
<1>2. config' \in 1 .. NumConfigs /\ targets' \in Seq(Devices) /\ Levels' /\ quiet' \in BOOLEAN
  BY <1>1 DEF NumConfigs, Levels, IsInjective, Structure, TypeOK
<1> QED
  BY <1>1, <1>2, StructureMoves

LEMMA ConfigureEffect ==
  ASSUME Structure, Configure
  PROVE  /\ commands = {} /\ awaited = {}
         /\ \E i \in DOMAIN targets : Failed(targets[i]) # {}
         /\ \A c \in commands' : /\ c = <<c[1], c[2]>> /\ c[1] \in DOMAIN targets
                                 /\ Failed(targets[c[1]]) # {}
                                 /\ c[2] \in filter_commands(Configs(targets[c[1]])[config])
         /\ \A i \in DOMAIN targets : Failed(targets[i]) # {} =>
              /\ \A k \in filter_commands(Configs(targets[i])[config]) : <<i, k>> \in commands'
              /\ filter_responses(Configs(targets[i])[config]) \subseteq awaited'
              /\ \A n \in Failed(targets[i]) : n.kind = "WaitCondition" => n \in awaited'
         /\ \A n \in awaited' : \E i \in DOMAIN targets :
              /\ Failed(targets[i]) # {}
              /\ \/ n \in Failed(targets[i]) /\ n.kind = "WaitCondition"
                 \/ n \in filter_responses(Configs(targets[i])[config])
         /\ pc = "configure" /\ pc' = IF commands' = {} THEN "wait" ELSE "set"
         /\ UNCHANGED <<config, targets, quiet, monitor, transit, instruments>>
<1> DEFINE failing == {i \in DOMAIN targets : Failed(targets[i]) # {}}
           cs(i) == {i} \X filter_commands(Configs(targets[i])[config])
           as(i) == {n \in Failed(targets[i]) : n.kind = "WaitCondition"}
                      \cup filter_responses(Configs(targets[i])[config])
<1>1. /\ failing # {} /\ commands' = UNION {cs(i) : i \in failing}
      /\ awaited' = UNION {as(i) : i \in failing}
      /\ pc = "configure" /\ pc' = IF commands' = {} THEN "wait" ELSE "set"
      /\ UNCHANGED <<config, targets, quiet, monitor, transit, instruments>>
  BY Zenon DEF Configure
<1>2. commands = {} /\ awaited = {}
  BY <1>1 DEF Structure, Work, Setting
<1>3. \A i \in failing : \A k \in filter_commands(Configs(targets[i])[config]) : <<i, k>> \in cs(i)
  OBVIOUS
<1>4. \A i \in failing : \A c \in cs(i) :
        c = <<c[1], c[2]>> /\ c[1] = i /\ c[2] \in filter_commands(Configs(targets[i])[config])
  OBVIOUS
<1>5. \A i \in failing : \A k \in filter_commands(Configs(targets[i])[config]) : <<i, k>> \in commands'
  <2> HIDE DEF failing, cs, as
  <2> QED
    BY <1>1, <1>3
<1>6. ASSUME NEW c \in commands'
      PROVE  /\ c = <<c[1], c[2]>> /\ c[1] \in failing
             /\ c[2] \in filter_commands(Configs(targets[c[1]])[config])
  <2> HIDE DEF failing, cs, as
  <2>1. PICK i \in failing : c \in cs(i)
    BY <1>1
  <2> QED
    BY <1>4, <2>1
<1>7. \A i \in failing : as(i) \subseteq awaited'
  <2> HIDE DEF failing, cs, as
  <2> QED
    BY <1>1
<1>8. \A n \in awaited' : \E i \in failing : n \in as(i)
  <2> HIDE DEF failing, cs, as
  <2> QED
    BY <1>1
<1> QED
  BY <1>1, <1>2, <1>5, <1>6, <1>7, <1>8

LEMMA StructureConfigure ==
  ASSUME Structure, Configure
  PROVE  Structure'
<1>0. TypeOK /\ Levels /\ config \in 1 .. NumConfigs /\ targets \in Seq(Devices)
  BY DEF Structure, TypeOK
<1>1. /\ pc = "configure" /\ pc' = IF commands' = {} THEN "wait" ELSE "set"
      /\ UNCHANGED <<config, targets, quiet, monitor, transit, instruments>>
  BY ConfigureEffect
<1>2. \A i \in DOMAIN targets : targets[i] \in Devices /\ targets[i] \in ToSet(targets)
  BY <1>0 DEF ToSet
<1>3. ASSUME NEW c \in commands'
      PROVE  /\ c \in UNION {{i} \X filter_commands(Configs(targets[i])[config]) : i \in DOMAIN targets}
             /\ c[1] \in DOMAIN targets' /\ CommandAt(c)'.path \in Paths
             /\ filter_responses(Configs(targets'[c[1]])[config']) \subseteq awaited'
  <2>1. /\ c = <<c[1], c[2]>> /\ c[1] \in DOMAIN targets /\ Failed(targets[c[1]]) # {}
        /\ c[2] \in filter_commands(Configs(targets[c[1]])[config])
    BY ConfigureEffect
  <2>2. c \in {c[1]} \X filter_commands(Configs(targets[c[1]])[config])
    BY <2>1
  <2>3. CommandAt(c)' = Configs(targets[c[1]])[config][c[2]]
    BY <1>1 DEF CommandAt
  <2>4. Configs(targets[c[1]])[config][c[2]] \in ToSet(Configs(targets[c[1]])[config])
    BY <2>1, <1>0, <1>2, CommandCases
  <2>5. Configs(targets[c[1]])[config][c[2]].path \in Paths
    BY <2>1, <2>4, <1>0, <1>2, NodeTypes
  <2>6. filter_responses(Configs(targets[c[1]])[config]) \subseteq awaited'
    BY <2>1, ConfigureEffect
  <2> QED
    BY <1>1, <2>1, <2>2, <2>3, <2>5, <2>6
<1>4. ASSUME NEW n \in awaited'
      PROVE  /\ \E d \in ToSet(targets) :
                  n \in ToSet(Configs(d)[config]) /\ n.kind \in {"Command", "Response", "WaitCondition"}
             /\ n \in UNION {Wanted(d) : d \in Devices}
  <2>1. PICK i \in DOMAIN targets :
              \/ n \in Failed(targets[i]) /\ n.kind = "WaitCondition"
              \/ n \in filter_responses(Configs(targets[i])[config])
    BY ConfigureEffect
  <2>2. n \in ToSet(Configs(targets[i])[config]) /\ n.kind \in {"Command", "Response", "WaitCondition"}
    BY <2>1 DEF Failed, filter_conditions, filter_responses
  <2>3. n \in Wanted(targets[i])
    BY <2>2, <1>0, <1>2, NodeTypes
  <2> QED
    BY <2>2, <2>3, <1>2
<1>5. TypeOK'
  <2>1. awaited' \subseteq UNION {Wanted(d) : d \in Devices}
    BY <1>4
  <2>2. \A c \in commands' : c[1] \in DOMAIN targets' /\ CommandAt(c)'.path \in Paths
    BY <1>3
  <2>3. pc' \in {"set", "wait"}
    BY <1>1
  <2> QED
    BY <1>0, <1>1, <2>1, <2>2, <2>3 DEF TypeOK, monitor, instruments
<1>6. Levels'
  BY <1>0, <1>1 DEF Levels, AtLevel
<1>7. Work'
  <2>1. commands' \subseteq UNION {{i} \X filter_commands(Configs(targets'[i])[config']) : i \in DOMAIN targets'}
    BY <1>1, <1>3
  <2>2. \A n \in awaited' : \E d \in ToSet(targets') :
       n \in ToSet(Configs(d)[config']) /\ n.kind \in {"Command", "Response", "WaitCondition"}
    BY <1>1, <1>4
  <2> QED
    BY <1>1, <1>3, <2>1, <2>2 DEF Work, Setting
<1> QED
  BY <1>5, <1>6, <1>7 DEF Structure

LEMMA StructureNext == Structure /\ [Next]_vars => Structure'
<1> SUFFICES ASSUME Structure, [Next]_vars PROVE Structure'
  OBVIOUS
<1>0. /\ TypeOK /\ Levels /\ Work /\ config \in 1 .. NumConfigs /\ targets \in Seq(Devices)
      /\ quiet \in BOOLEAN /\ pc \in {"idle", "configure", "set", "wait", "ready", "raised"}
      /\ queue \in [Paths -> Seq(Values)] /\ last \in [Paths -> Values]
      /\ transit \in [Paths -> Seq(Values)] /\ node \in [Paths -> Values]
      /\ switching \subseteq Clocked /\ sampling \subseteq HDAWGs
  BY DEF Structure, TypeOK
<1>1. CASE BeginSetup
  <2>1. /\ pc' = "configure" /\ config' = 1 /\ targets' \in Seq(Devices) /\ Levels'
        /\ commands' = {} /\ awaited' = {} /\ quiet' = Settled /\ Flush /\ UNCHANGED instruments
    BY <1>0, <1>1, BeginEffect
  <2>2. last' \in [Paths -> Values] /\ queue' \in [Paths -> Seq(Values)] /\ transit' \in [Paths -> Seq(Values)]
    BY <1>0, <2>1, FlushEffect
  <2>3. quiet' \in BOOLEAN /\ config' \in 1 .. NumConfigs
    BY <2>1 DEF Settled, NumConfigs
  <2> QED
    BY <2>1, <2>2, <2>3, StructureMoves
<1>2. CASE NothingToDo
  <2>1. pc = "configure" /\ GoOn /\ UNCHANGED <<monitor, transit, instruments>>
    BY <1>2 DEF NothingToDo
  <2>2. /\ pc' \in {"configure", "ready"} /\ config' \in 1 .. NumConfigs /\ targets' \in Seq(Devices)
        /\ Levels' /\ commands' = {} /\ awaited' = {} /\ quiet' = quiet
    BY <2>1, GoOnEffect
  <2> QED
    BY <1>0, <2>1, <2>2, StructureMoves DEF monitor
<1>3. CASE Configure
  BY <1>3, StructureConfigure
<1>4. ASSUME NEW c \in commands, SetNode(c) PROVE Structure'
  <2> DEFINE m == CommandAt(c)
  <2>1. /\ pc = "set" /\ Obey(m) /\ commands' = commands \ {c}
        /\ UNCHANGED <<pc, config, targets, awaited, quiet, monitor>>
    BY <1>4 DEF SetNode
  <2> HIDE DEF m
  <2>2. m = CommandAt(c)
    BY DEF m
  <2>3. /\ node' \in [Paths -> Values] /\ transit' \in [Paths -> Seq(Values)]
        /\ Loses(m) \subseteq Clocked
        /\ switching' = switching \cup (IF m.path[2] = "source" THEN {m.path[1]} ELSE {}) \cup Loses(m)
        /\ sampling' = sampling \cup (IF m.path[2] = "samplefreq" THEN {m.path[1]} ELSE {})
    BY <2>1, <2>2, ObeyEffect
  <2>4. IsCommand(targets[c[1]], config, c[2], m) /\ m.path[1] = targets[c[1]]
    BY <1>0, <2>2, CommandFacts
  <2>5. m.path[2] = "source" => m.path[1] \in Clocked
    BY <2>4 DEF IsCommand, Node
  <2>6. m.path[2] = "samplefreq" => m.path[1] \in HDAWGs
    BY <2>4 DEF IsCommand, Node
  <2>7. switching' \subseteq Clocked /\ sampling' \subseteq HDAWGs
    BY <1>0, <2>3, <2>5, <2>6
  <2> QED
    BY <1>0, <2>1, <2>3, <2>7, StructureStays DEF monitor
<1>5. CASE BatchSet
  BY <1>0, <1>5, StructureStays DEF BatchSet, monitor, instruments
<1>6. CASE BatchSetRaises
  BY <1>0, <1>6, RaiseEffect DEF BatchSetRaises, monitor
<1>7. ASSUME Pass
      PROVE  /\ last' \in [Paths -> Values] /\ queue' \in [Paths -> Seq(Values)]
             /\ transit' \in [Paths -> Seq(Values)] /\ StillAwaited \subseteq awaited
             /\ pc = "wait" /\ UNCHANGED instruments
  BY <1>7, PassEffect DEF Pass
<1>8. CASE PollAndCheck
  <2>1. Pass /\ awaited' = StillAwaited /\ UNCHANGED <<pc, config, targets, commands, quiet>>
    BY <1>8 DEF PollAndCheck
  <2>2. commands = {}
    BY <1>0, <1>7, <2>1 DEF Work
  <2> QED
    BY <1>0, <1>7, <2>1, <2>2, StructureStays DEF instruments
<1>9. CASE WaitTimesOut
  BY <1>7, <1>9, RaiseEffect DEF WaitTimesOut
<1>10. CASE CheckRaises
  BY <1>0, <1>10, RaiseEffect DEF CheckRaises, monitor
<1>11. CASE CheckPasses
  <2>1. pc = "wait" /\ GoOn /\ UNCHANGED <<monitor, transit, instruments>>
    BY <1>11 DEF CheckPasses
  <2>2. /\ pc' \in {"configure", "ready"} /\ config' \in 1 .. NumConfigs /\ targets' \in Seq(Devices)
        /\ Levels' /\ commands' = {} /\ awaited' = {} /\ quiet' = quiet
    BY <2>1, GoOnEffect
  <2> QED
    BY <1>0, <2>1, <2>2, StructureMoves DEF monitor
<1>12. ASSUME UNCHANGED <<controller, monitor>>,
              node' \in [Paths -> Values], transit' \in [Paths -> Seq(Values)],
              switching' \subseteq Clocked, sampling' \subseteq HDAWGs
       PROVE  Structure'
  <2>1. TypeOK'
    BY <1>0, <1>12 DEF TypeOK, CommandAt, controller, monitor
  <2>2. Levels'
    BY <1>0, <1>12 DEF Levels, AtLevel, controller
  <2>3. Work'
    BY <1>0, <1>12 DEF Work, Setting, controller
  <2> QED
    BY <2>1, <2>2, <2>3 DEF Structure
<1>13. ASSUME NEW d \in Devices, ClockLocks(d) PROVE Structure'
  <2>1. /\ node' \in [Paths -> Values] /\ transit' \in [Paths -> Seq(Values)]
        /\ switching' = switching \ {d} /\ UNCHANGED <<sampling, controller, monitor>>
    BY <1>0, <1>13, ClockLocksEffect
  <2> QED
    BY <1>0, <1>12, <2>1
<1>14. ASSUME NEW d \in Devices, SampleClockLocks(d) PROVE Structure'
  <2>1. /\ node' \in [Paths -> Values] /\ transit' \in [Paths -> Seq(Values)]
        /\ sampling' = sampling \ {d} /\ UNCHANGED <<switching, controller, monitor>>
    BY <1>0, <1>14, SampleClockLocksEffect
  <2> QED
    BY <1>0, <1>12, <2>1
<1>15. ASSUME NEW l \in Devices, NEW d \in Devices, LinkComes(l, d) PROVE Structure'
  <2>1. /\ node' \in [Paths -> Values] /\ transit' \in [Paths -> Seq(Values)]
        /\ UNCHANGED <<switching, sampling, controller, monitor>>
    BY <1>0, <1>15, LinkComesEffect
  <2> QED
    BY <1>0, <1>12, <2>1
<1>16. CASE UNCHANGED vars
  BY <1>0, <1>12, <1>16 DEF vars, instruments
<1> QED
  BY <1>1, <1>2, <1>3, <1>4, <1>5, <1>6, <1>8, <1>9, <1>10, <1>11, <1>13, <1>14, <1>15, <1>16
     DEF Next, ControllerStep

LEMMA StructureHolds == Spec => []Structure
<1> QED
  BY StructureInit, StructureNext, PTL DEF Spec

\* TypeOK: whatever the devices, every value of every variable is of its type.
THEOREM TypeCorrect == Spec => []TypeOK
<1>1. Structure => TypeOK
  BY DEF Structure
<1> QED
  BY <1>1, StructureHolds, PTL

-----------------------------------------------------------------------------
(* Monitors and instruments.                                               *)

\* A monitor misses nothing: what the data server has for it ends with what
\* the node is.
MonitorFollows == \A p \in Paths : node[p] = LastOf(p, transit[p])

LEMMA MonitorFollowsInit == Init => MonitorFollows
BY DEF Init, MonitorFollows, LastOf

LEMMA MonitorFollowsNext == Structure /\ MonitorFollows /\ [Next]_vars => MonitorFollows'
<1> SUFFICES ASSUME Structure, MonitorFollows, [Next]_vars PROVE MonitorFollows'
  OBVIOUS
<1>0. /\ TypeOK /\ last \in [Paths -> Values] /\ transit \in [Paths -> Seq(Values)]
  BY DEF Structure, TypeOK
<1>1. ASSUME UNCHANGED <<node, transit, last>> PROVE MonitorFollows'
  BY <1>1 DEF MonitorFollows, LastOf
<1>2. ASSUME last' = last, \A p \in Paths : Stays(p) \/ \E v : Changes(p, v)
      PROVE  MonitorFollows'
  <2> SUFFICES ASSUME NEW p \in Paths PROVE node'[p] = LastOf(p, transit[p])'
    BY DEF MonitorFollows
  <2>1. CASE Stays(p)
    BY <1>2, <2>1 DEF Stays, MonitorFollows, LastOf
  <2>2. CASE \E v : Changes(p, v)
    <3>1. PICK v : Changes(p, v)
      BY <2>2
    <3> DEFINE s == transit[p]
               t == Append(s, v)
    <3>3. s \in Seq(Values)
      BY <1>0
    <3>4. t # << >> /\ Last(t) = v
      BY <3>3 DEF Last
    <3>5. node'[p] = v /\ transit'[p] = t
      BY <3>1 DEF Changes
    <3> QED
      BY <3>4, <3>5 DEF LastOf
  <2> QED
    BY <1>2, <2>1, <2>2
<1>3. CASE BeginSetup
  <2>1. Flush /\ node' = node
    BY <1>3 DEF BeginSetup, instruments
  <2> QED
    BY <1>0, <2>1, FlushEffect DEF MonitorFollows, LastOf
<1>4. ASSUME Pass PROVE MonitorFollows'
  <2>1. node' = node
    BY <1>4 DEF Pass, instruments
  <2>2. \A p \in Paths : IF \E n \in awaited : ServerOf[n.path[1]] = ServerOf[p[1]]
                             THEN transit'[p] = << >> /\ last'[p] = LastOf(p, transit[p])
                             ELSE transit'[p] = transit[p] /\ last'[p] = last[p]
    BY <1>4, PassEffect
  <2> QED
    BY <2>1, <2>2 DEF MonitorFollows, LastOf
<1>5. ASSUME NEW c \in commands, SetNode(c) PROVE MonitorFollows'
  <2> DEFINE m == CommandAt(c)
  <2>1. Obey(m) /\ last' = last
    BY <1>5 DEF SetNode, monitor
  <2> HIDE DEF m
  <2>2. \A p \in Paths :
              \/ p = m.path
              \/ Stays(p) /\ (p[2] = "status" => p[1] \notin Loses(m) \/ node[p] # "locked")
                          /\ (p[2] \notin NodeNames => p[2] \notin Loses(m) \/ node[p] # "up")
                          /\ (p[2] = "samplestatus" => p[1] # m.path[1] \/ m.path[2] # "samplefreq")
              \/ p[2] = "status" /\ p[1] \in Loses(m) /\ Changes(p, "locking")
              \/ /\ p[2] \notin NodeNames /\ p[2] \in Loses(m) /\ p[1] = LeaderOf(p[2])
                 /\ node[p] = "up" /\ Changes(p, "down")
              \/ /\ p = <<m.path[1], "samplestatus">> /\ m.path[2] = "samplefreq"
                 /\ Changes(p, "locking")
    BY <2>1, ObeyEffect DEF m
  <2>3. Changes(m.path, m.value)
    BY <2>1, ObeyEffect DEF m
  <2>4. \A p \in Paths : Stays(p) \/ \E v : Changes(p, v)
    BY <2>2, <2>3
  <2> QED
    BY <1>2, <2>1, <2>4
<1>6. ASSUME NEW d \in Devices, ClockLocks(d) PROVE MonitorFollows'
  <2>1. last' = last
    BY <1>6 DEF ClockLocks, monitor
  <2>2. \A p \in Paths : Stays(p) \/ \E v : Changes(p, v)
    BY <1>0, <1>6, ClockLocksEffect
  <2> QED
    BY <1>2, <2>1, <2>2
<1>7. ASSUME NEW d \in Devices, SampleClockLocks(d) PROVE MonitorFollows'
  BY <1>0, <1>2, <1>7, SampleClockLocksEffect DEF monitor
<1>8. ASSUME NEW l \in Devices, NEW d \in Devices, LinkComes(l, d) PROVE MonitorFollows'
  BY <1>0, <1>2, <1>8, LinkComesEffect DEF monitor
<1>9. CASE NothingToDo \/ BatchSet \/ BatchSetRaises \/ CheckRaises \/ CheckPasses
  BY <1>1, <1>9 DEF NothingToDo, BatchSet, BatchSetRaises, CheckRaises, CheckPasses, monitor, instruments
<1>10. CASE Configure
  BY <1>1, <1>10 DEF Configure, monitor, instruments
<1>11. CASE UNCHANGED vars
  BY <1>1, <1>11 DEF vars, monitor, instruments
<1> QED
  BY <1>3, <1>4, <1>5, <1>6, <1>7, <1>8, <1>9, <1>10, <1>11
     DEF Next, ControllerStep, PollAndCheck, WaitTimesOut

\* Only one that is to have its clock from its leader has; without a lock it
\* is to lock or to report; a lock is to the source that is set, and a link is
\* up only with it; a sample clock that is not locked is about to be.
Clocks ==
  /\ \A d \in Clocked :
       /\ OnZSync(node, d) => Source(d) = "zsync"
       /\ OnZSync(node, d) /\ ~Locked(node, d) => d \in switching
       /\ <<d, "actual">> \in Paths /\ Locked(node, d) =>
            node[<<d, "actual">>] = node[<<d, "source">>]
  /\ \A l, d \in Devices : <<l, d>> \in Paths =>
       /\ node[<<l, d>>] \in {"up", "down"}
       /\ node[<<l, d>>] = "up" => OnZSync(node, d) /\ Locked(node, d)
  /\ \A d \in HDAWGs : d \notin sampling => node[<<d, "samplestatus">>] = "locked"

LEMMA ClocksInit == Init => Clocks
<1> SUFFICES ASSUME Init PROVE Clocks
  OBVIOUS
<1>1. PICK other \in SUBSET Devices, unlocked \in SUBSET Clocked, absent \in SUBSET Doubtful :
        LET left == Left(other, unlocked, absent)
            led == {d \in unlocked : OnZSync(left, d)}
        IN /\ node = left
           /\ \A d \in absent : left[<<d, "source">>] = "ext"
           /\ \A d \in Clocked \ unlocked :
                OnZSync(left, d) => Locked(left, LeaderOf(d))
           /\ switching \in {led, unlocked}
  BY DEF Init
<1>2. node = Left(other, unlocked, absent) /\ {d \in unlocked : OnZSync(node, d)} \subseteq switching
  BY <1>1
<1>3. /\ \A d \in Clocked :
              /\ node[<<d, "source">>] \in {"int", "ext", Source(d)}
              /\ node[<<d, "status">>] = IF d \in unlocked THEN "locking" ELSE "locked"
              /\ <<d, "actual">> \in Paths => node[<<d, "actual">>] = node[<<d, "source">>]
      /\ \A d \in HDAWGs : node[<<d, "samplestatus">>] = "locked"
      /\ \A l, d \in Devices : <<l, d>> \in Paths =>
              node[<<l, d>>] = IF d \notin unlocked /\ node[<<d, "source">>] = "zsync"
                               THEN "up" ELSE "down"
  <2>1. IsLeft(node, unlocked)
    BY <1>2, LeftNodes
  <2> QED
    BY <2>1 DEF IsLeft
<1>4. ASSUME NEW d \in Clocked
      PROVE  /\ OnZSync(node, d) => Source(d) = "zsync"
             /\ OnZSync(node, d) /\ ~Locked(node, d) => d \in switching
             /\ <<d, "actual">> \in Paths /\ Locked(node, d) =>
                  node[<<d, "actual">>] = node[<<d, "source">>]
  BY <1>2, <1>3 DEF OnZSync, Locked
<1>5. ASSUME NEW l \in Devices, NEW d \in Devices, <<l, d>> \in Paths
      PROVE  /\ node[<<l, d>>] \in {"up", "down"}
             /\ node[<<l, d>>] = "up" => OnZSync(node, d) /\ Locked(node, d)
  <2>1. d \in Clocked
    BY <1>5, LinkPath, LinkFacts
  <2> QED
    BY <1>3, <1>5, <2>1 DEF OnZSync, Locked
<1> QED
  BY <1>3, <1>4, <1>5 DEF Clocks

\* The parts of Clocks about one device and one link.
LEMMA ClocksParts ==
  ASSUME Clocks
  PROVE  /\ \A d \in Clocked :
              /\ node[<<d, "source">>] = "zsync" => Source(d) = "zsync"
              /\ node[<<d, "source">>] = "zsync" /\ node[<<d, "status">>] # "locked" => d \in switching
              /\ <<d, "actual">> \in Paths /\ node[<<d, "status">>] = "locked" =>
                   node[<<d, "actual">>] = node[<<d, "source">>]
         /\ \A l, d \in Devices : <<l, d>> \in Paths =>
              /\ node[<<l, d>>] \in {"up", "down"}
              /\ node[<<l, d>>] = "up" => node[<<d, "source">>] = "zsync" /\ node[<<d, "status">>] = "locked"
         /\ \A d \in HDAWGs : d \notin sampling => node[<<d, "samplestatus">>] = "locked"
BY DEF Clocks, OnZSync, Locked

LEMMA ClocksFromParts ==
  ASSUME \A d \in Clocked :
              /\ node'[<<d, "source">>] = "zsync" => Source(d) = "zsync"
              /\ node'[<<d, "source">>] = "zsync" /\ node'[<<d, "status">>] # "locked" => d \in switching'
              /\ <<d, "actual">> \in Paths /\ node'[<<d, "status">>] = "locked" =>
                   node'[<<d, "actual">>] = node'[<<d, "source">>],
         \A l, d \in Devices : <<l, d>> \in Paths =>
              /\ node'[<<l, d>>] \in {"up", "down"}
              /\ node'[<<l, d>>] = "up" => node'[<<d, "source">>] = "zsync" /\ node'[<<d, "status">>] = "locked",
         \A d \in HDAWGs : d \notin sampling' => node'[<<d, "samplestatus">>] = "locked"
  PROVE  Clocks'
<1>1. \A l, d \in Devices : <<l, d>> \in Paths => d \in Clocked
  BY LinkPath, LinkFacts
<1> QED
  BY <1>1 DEF Clocks, OnZSync, Locked

LEMMA ClocksCommanded ==
  ASSUME Structure, Clocks, NEW c \in commands, SetNode(c)
  PROVE  Clocks'
<1> DEFINE m == CommandAt(c)
           own == m.path
<1>1. Obey(m)
  BY DEF SetNode
<1>2. /\ TypeOK /\ Work /\ targets \in Seq(Devices) /\ config \in 1 .. NumConfigs
  BY DEF Structure, TypeOK
<1> HIDE DEF m
<1>3. m = CommandAt(c)
  BY DEF m
<1>4. IsCommand(m.path[1], config, c[2], m) /\ m.path \in Paths /\ m.path = <<m.path[1], m.path[2]>>
  BY <1>2, <1>3, CommandFacts, PathCases
<1> DEFINE lost == Loses(m)
<1>5. /\ Changes(own, m.value)
      /\ \A p \in Paths :
              \/ p = own
              \/ Stays(p) /\ (p[2] = "status" => p[1] \notin lost \/ node[p] # "locked")
                          /\ (p[2] \notin NodeNames => p[2] \notin lost \/ node[p] # "up")
                          /\ (p[2] = "samplestatus" => p[1] # m.path[1] \/ m.path[2] # "samplefreq")
              \/ p[2] = "status" /\ p[1] \in lost /\ Changes(p, "locking")
              \/ /\ p[2] \notin NodeNames /\ p[2] \in lost /\ p[1] = LeaderOf(p[2])
                 /\ node[p] = "up" /\ Changes(p, "down")
              \/ /\ p = <<m.path[1], "samplestatus">> /\ m.path[2] = "samplefreq"
                 /\ Changes(p, "locking")
      /\ switching' = switching \cup (IF m.path[2] = "source" THEN {m.path[1]} ELSE {}) \cup lost
      /\ sampling' = sampling \cup (IF m.path[2] = "samplefreq" THEN {m.path[1]} ELSE {})
  BY <1>1, <1>3, ObeyEffect
<1>6. lost = IF m.path[2] = "source" THEN Losing(m.path[1], m.value) ELSE {}
  BY DEF Loses
<1>7. m.path[2] \in CommandNames
  BY <1>4 DEF IsCommand, Node, CommandNames
<1> HIDE DEF lost
<1>8. ASSUME NEW d \in Clocked
      PROVE  /\ <<d, "source">> \in Paths /\ <<d, "status">> \in Paths
             /\ \/ /\ own = <<d, "source">> /\ node'[<<d, "source">>] = Source(d)
                   /\ d \in switching'
                   /\ d \notin lost => node'[<<d, "source">>] = node[<<d, "source">>]
                \/ node'[<<d, "source">>] = node[<<d, "source">>]
             /\ \/ d \in lost /\ node'[<<d, "status">>] = "locking" /\ d \in switching'
                \/ /\ node'[<<d, "status">>] = node[<<d, "status">>]
                   /\ d \notin lost \/ node[<<d, "status">>] # "locked"
  <2>1. <<d, "source">> \in Paths /\ <<d, "status">> \in Paths /\ d \in Devices
    BY PathsOf DEF Clocked
  <2>2. \/ /\ own = <<d, "source">> /\ node'[<<d, "source">>] = Source(d)
           /\ d \in switching'
           /\ d \notin lost => node'[<<d, "source">>] = node[<<d, "source">>]
        \/ node'[<<d, "source">>] = node[<<d, "source">>]
    <3>1. CASE own = <<d, "source">>
      <4>1. m.value = Source(d) /\ m.path[2] = "source" /\ m.path[1] = d
        BY <1>4, <3>1 DEF IsCommand, Node
      <4>2. node'[<<d, "source">>] = Source(d) /\ d \in switching'
        BY <1>5, <3>1, <4>1 DEF Changes
      <4>3. d \notin lost => Source(d) = node[<<d, "source">>]
        BY <1>6, <4>1 DEF Losing
      <4> QED
        BY <3>1, <4>2, <4>3
    <3>2. CASE own # <<d, "source">>
      <4>1. Stays(<<d, "source">>)
        BY <1>5, <2>1, <3>2 DEF NodeNames
      <4> QED
        BY <4>1 DEF Stays
    <3> QED
      BY <3>1, <3>2
  <2>4. \/ d \in lost /\ node'[<<d, "status">>] = "locking" /\ d \in switching'
        \/ /\ node'[<<d, "status">>] = node[<<d, "status">>]
           /\ d \notin lost \/ node[<<d, "status">>] # "locked"
    <3>1. own # <<d, "status">>
      BY <1>7 DEF CommandNames
    <3>2. \/ d \in lost /\ Changes(<<d, "status">>, "locking")
          \/ Stays(<<d, "status">>) /\ (d \notin lost \/ node[<<d, "status">>] # "locked")
      BY <1>5, <2>1, <3>1 DEF NodeNames
    <3> QED
      BY <3>2, <1>5 DEF Stays, Changes
  <2> QED
    BY <2>1, <2>2, <2>4
<1>9. ASSUME NEW d \in Clocked
      PROVE  /\ node'[<<d, "source">>] = "zsync" => Source(d) = "zsync"
             /\ node'[<<d, "source">>] = "zsync" /\ node'[<<d, "status">>] # "locked" => d \in switching'
  BY <1>5, <1>8, ClocksParts
<1>10. ASSUME NEW d \in Clocked, <<d, "actual">> \in Paths, node'[<<d, "status">>] = "locked"
       PROVE  node'[<<d, "actual">>] = node'[<<d, "source">>]
  <2>1. d \notin lost /\ node[<<d, "status">>] = "locked"
    BY <1>8, <1>10
  <2>2. own # <<d, "actual">>
    BY <1>7 DEF CommandNames
  <2>3. Stays(<<d, "actual">>)
    BY <1>5, <1>10, <2>2 DEF NodeNames
  <2>4. node'[<<d, "source">>] = node[<<d, "source">>]
    BY <1>8, <2>1
  <2> QED
    BY <1>10, <2>1, <2>3, <2>4, ClocksParts DEF Stays
<1>11. ASSUME NEW l \in Devices, NEW d \in Devices, <<l, d>> \in Paths
       PROVE  /\ node'[<<l, d>>] \in {"up", "down"}
              /\ node'[<<l, d>>] = "up" => node'[<<d, "source">>] = "zsync" /\ node'[<<d, "status">>] = "locked"
  <2>1. d \in Clocked /\ d \notin NodeNames
    BY <1>11, LinkPath, LinkFacts, LinkName
  <2>2. own # <<l, d>>
    BY <1>7, <2>1 DEF CommandNames, NodeNames
  <2>3. \/ Changes(<<l, d>>, "down")
        \/ Stays(<<l, d>>) /\ (d \notin lost \/ node[<<l, d>>] # "up")
    BY <1>5, <1>11, <2>1, <2>2 DEF NodeNames
  <2>4. CASE Changes(<<l, d>>, "down")
    BY <2>4 DEF Changes
  <2>5. CASE Stays(<<l, d>>) /\ (d \notin lost \/ node[<<l, d>>] # "up")
    BY <1>8, <1>11, <2>1, <2>5, ClocksParts DEF Stays
  <2> QED
    BY <2>3, <2>4, <2>5
<1>12. ASSUME NEW d \in HDAWGs, d \notin sampling' PROVE node'[<<d, "samplestatus">>] = "locked"
  <2>1. d \notin sampling /\ (m.path[1] # d \/ m.path[2] # "samplefreq")
    BY <1>5, <1>12
  <2>2. <<d, "samplestatus">> \in Paths
    BY PathsOf DEF Devices
  <2>3. own # <<d, "samplestatus">>
    BY <1>7 DEF CommandNames
  <2>4. Stays(<<d, "samplestatus">>)
    BY <1>5, <2>1, <2>2, <2>3 DEF NodeNames
  <2> QED
    BY <2>1, <2>4, ClocksParts DEF Stays
<1> QED
  BY <1>9, <1>10, <1>11, <1>12, ClocksFromParts

LEMMA ClocksNext == Structure /\ Clocks /\ [Next]_vars => Clocks'
<1> SUFFICES ASSUME Structure, Clocks, [Next]_vars PROVE Clocks'
  OBVIOUS
<1>0. TypeOK
  BY DEF Structure
<1>1. ASSUME UNCHANGED instruments PROVE Clocks'
  BY <1>1 DEF Clocks, OnZSync, Locked, instruments
<1>2. ASSUME NEW c \in commands, SetNode(c) PROVE Clocks'
  BY <1>2, ClocksCommanded
<1>3. ASSUME NEW d \in Devices, ClockLocks(d) PROVE Clocks'
  <2>1. /\ d \in Clocked
        /\ Changes(<<d, "status">>, "locked")
        /\ <<d, "actual">> \in Paths => Changes(<<d, "actual">>, node[<<d, "source">>])
        /\ \A p \in Paths : p \notin {<<d, "status">>, <<d, "actual">>, <<d, "freq">>} => Stays(p)
        /\ switching' = switching \ {d} /\ sampling' = sampling
    BY <1>0, <1>3, ClockLocksEffect
  <2>2. ASSUME NEW e \in Clocked
        PROVE  /\ node'[<<e, "source">>] = node[<<e, "source">>]
               /\ e = d => node'[<<e, "status">>] = "locked"
               /\ e = d /\ <<e, "actual">> \in Paths => node'[<<e, "actual">>] = node[<<e, "source">>]
               /\ e # d => node'[<<e, "status">>] = node[<<e, "status">>]
               /\ e # d /\ <<e, "actual">> \in Paths => node'[<<e, "actual">>] = node[<<e, "actual">>]
    <3>1. <<e, "source">> \in Paths /\ <<e, "status">> \in Paths
      BY PathsOf DEF Clocked
    <3> QED
      BY <2>1, <3>1 DEF Changes, Stays
  <2>3. ASSUME NEW l \in Devices, NEW e \in Devices, <<l, e>> \in Paths
        PROVE  e \in Clocked /\ node'[<<l, e>>] = node[<<l, e>>]
    <3>1. e \in Clocked /\ e \notin NodeNames
      BY <2>3, LinkPath, LinkFacts, LinkName
    <3> QED
      BY <2>1, <2>3, <3>1 DEF NodeNames, Stays
  <2>4. ASSUME NEW e \in HDAWGs PROVE node'[<<e, "samplestatus">>] = node[<<e, "samplestatus">>]
    <3>1. <<e, "samplestatus">> \in Paths
      BY PathsOf DEF Devices
    <3> QED
      BY <2>1, <3>1 DEF Stays
  <2>5. ASSUME NEW e \in Clocked
        PROVE  /\ node'[<<e, "source">>] = "zsync" => Source(e) = "zsync"
               /\ node'[<<e, "source">>] = "zsync" /\ node'[<<e, "status">>] # "locked" => e \in switching'
               /\ <<e, "actual">> \in Paths /\ node'[<<e, "status">>] = "locked" =>
                    node'[<<e, "actual">>] = node'[<<e, "source">>]
    <3>1. /\ node[<<e, "source">>] = "zsync" => Source(e) = "zsync"
          /\ node[<<e, "source">>] = "zsync" /\ node[<<e, "status">>] # "locked" => e \in switching
          /\ <<e, "actual">> \in Paths /\ node[<<e, "status">>] = "locked" =>
               node[<<e, "actual">>] = node[<<e, "source">>]
      BY ClocksParts
    <3> QED
      BY <3>1, <2>1, <2>2
  <2>6. ASSUME NEW l \in Devices, NEW e \in Devices, <<l, e>> \in Paths
        PROVE  /\ node'[<<l, e>>] \in {"up", "down"}
               /\ node'[<<l, e>>] = "up" => node'[<<e, "source">>] = "zsync" /\ node'[<<e, "status">>] = "locked"
    <3>1. /\ node[<<l, e>>] \in {"up", "down"}
          /\ node[<<l, e>>] = "up" => node[<<e, "source">>] = "zsync" /\ node[<<e, "status">>] = "locked"
      BY <2>6, ClocksParts
    <3>2. e \in Clocked /\ node'[<<l, e>>] = node[<<l, e>>]
      BY <2>6, <2>3
    <3> QED
      BY <3>1, <3>2, <2>2
  <2>7. \A e \in HDAWGs : e \notin sampling' => node'[<<e, "samplestatus">>] = "locked"
    BY <2>1, <2>4, ClocksParts
  <2> QED
    BY <2>5, <2>6, <2>7, ClocksFromParts
<1>4. ASSUME NEW d \in Devices, SampleClockLocks(d) PROVE Clocks'
  <2>1. /\ Changes(<<d, "samplestatus">>, "locked")
        /\ \A p \in Paths : p # <<d, "samplestatus">> => Stays(p)
        /\ sampling' = sampling \ {d} /\ switching' = switching
    BY <1>0, <1>4, SampleClockLocksEffect
  <2>2. \A p \in Paths : p[2] # "samplestatus" => node'[p] = node[p]
    BY <2>1 DEF Stays
  <2>3. ASSUME NEW e \in Clocked
        PROVE  /\ node'[<<e, "source">>] = node[<<e, "source">>]
               /\ node'[<<e, "status">>] = node[<<e, "status">>]
               /\ <<e, "actual">> \in Paths => node'[<<e, "actual">>] = node[<<e, "actual">>]
    <3>1. <<e, "source">> \in Paths /\ <<e, "status">> \in Paths
      BY PathsOf DEF Clocked
    <3> QED
      BY <2>2, <3>1
  <2>4. ASSUME NEW l \in Devices, NEW e \in Devices, <<l, e>> \in Paths
        PROVE  e \in Clocked /\ node'[<<l, e>>] = node[<<l, e>>]
    <3>1. e \in Clocked /\ e \notin NodeNames
      BY <2>4, LinkPath, LinkFacts, LinkName
    <3> QED
      BY <2>2, <2>4, <3>1 DEF NodeNames
  <2>5. ASSUME NEW e \in HDAWGs, e \notin sampling' PROVE node'[<<e, "samplestatus">>] = "locked"
    <3>1. <<e, "samplestatus">> \in Paths
      BY PathsOf DEF Devices
    <3> QED
      BY <2>1, <2>5, <3>1, ClocksParts DEF Stays, Changes
  <2>6. ASSUME NEW e \in Clocked
        PROVE  /\ node'[<<e, "source">>] = "zsync" => Source(e) = "zsync"
               /\ node'[<<e, "source">>] = "zsync" /\ node'[<<e, "status">>] # "locked" => e \in switching'
               /\ <<e, "actual">> \in Paths /\ node'[<<e, "status">>] = "locked" =>
                    node'[<<e, "actual">>] = node'[<<e, "source">>]
    <3>1. /\ node[<<e, "source">>] = "zsync" => Source(e) = "zsync"
          /\ node[<<e, "source">>] = "zsync" /\ node[<<e, "status">>] # "locked" => e \in switching
          /\ <<e, "actual">> \in Paths /\ node[<<e, "status">>] = "locked" =>
               node[<<e, "actual">>] = node[<<e, "source">>]
      BY ClocksParts
    <3> QED
      BY <3>1, <2>1, <2>3
  <2>7. ASSUME NEW l \in Devices, NEW e \in Devices, <<l, e>> \in Paths
        PROVE  /\ node'[<<l, e>>] \in {"up", "down"}
               /\ node'[<<l, e>>] = "up" => node'[<<e, "source">>] = "zsync" /\ node'[<<e, "status">>] = "locked"
    <3>1. /\ node[<<l, e>>] \in {"up", "down"}
          /\ node[<<l, e>>] = "up" => node[<<e, "source">>] = "zsync" /\ node[<<e, "status">>] = "locked"
      BY <2>7, ClocksParts
    <3>2. e \in Clocked /\ node'[<<l, e>>] = node[<<l, e>>]
      BY <2>7, <2>4
    <3> QED
      BY <3>1, <3>2, <2>3
  <2> QED
    BY <2>5, <2>6, <2>7, ClocksFromParts
<1>5. ASSUME NEW l \in Devices, NEW d \in Devices, LinkComes(l, d) PROVE Clocks'
  <2>1. /\ CanLink(l, d) /\ <<l, d>> \in Paths /\ Changes(<<l, d>>, "up")
        /\ \A p \in Paths : p # <<l, d>> => Stays(p)
        /\ UNCHANGED <<switching, sampling>>
    BY <1>0, <1>5, LinkComesEffect
  <2>2. d \in Clocked /\ d \notin NodeNames
    BY <2>1, LinkPath, LinkFacts, LinkName
  <2>3. \A p \in Paths : p[2] \in NodeNames => node'[p] = node[p]
    BY <2>1, <2>2 DEF Stays
  <2>4. ASSUME NEW e \in Clocked
        PROVE  /\ node'[<<e, "source">>] = node[<<e, "source">>]
               /\ node'[<<e, "status">>] = node[<<e, "status">>]
               /\ <<e, "actual">> \in Paths => node'[<<e, "actual">>] = node[<<e, "actual">>]
    <3>1. <<e, "source">> \in Paths /\ <<e, "status">> \in Paths
      BY PathsOf DEF Clocked
    <3> QED
      BY <2>3, <3>1 DEF NodeNames
  <2>5. node[<<d, "source">>] = "zsync" /\ node[<<d, "status">>] = "locked"
    BY <2>1 DEF CanLink, OnZSync, Locked
  <2>6. ASSUME NEW k \in Devices, NEW e \in Devices, <<k, e>> \in Paths
        PROVE  /\ node'[<<k, e>>] \in {"up", "down"}
               /\ node'[<<k, e>>] = "up" => node'[<<e, "source">>] = "zsync" /\ node'[<<e, "status">>] = "locked"
    <3>1. e \in Clocked
      BY <2>6, LinkPath, LinkFacts
    <3>2. CASE <<k, e>> = <<l, d>>
      BY <2>1, <2>4, <2>5, <3>1, <3>2 DEF Changes
    <3>3. CASE <<k, e>> # <<l, d>>
      <4>1. node'[<<k, e>>] = node[<<k, e>>]
        BY <2>1, <2>6, <3>3 DEF Stays
      <4> QED
        BY <2>4, <2>6, <3>1, <4>1, ClocksParts
    <3> QED
      BY <3>2, <3>3
  <2>7. ASSUME NEW e \in HDAWGs, e \notin sampling' PROVE node'[<<e, "samplestatus">>] = "locked"
    <3>1. <<e, "samplestatus">> \in Paths
      BY PathsOf DEF Devices
    <3> QED
      BY <2>1, <2>3, <2>7, <3>1, ClocksParts DEF NodeNames
  <2>8. ASSUME NEW e \in Clocked
        PROVE  /\ node'[<<e, "source">>] = "zsync" => Source(e) = "zsync"
               /\ node'[<<e, "source">>] = "zsync" /\ node'[<<e, "status">>] # "locked" => e \in switching'
               /\ <<e, "actual">> \in Paths /\ node'[<<e, "status">>] = "locked" =>
                    node'[<<e, "actual">>] = node'[<<e, "source">>]
    <3>1. /\ node[<<e, "source">>] = "zsync" => Source(e) = "zsync"
          /\ node[<<e, "source">>] = "zsync" /\ node[<<e, "status">>] # "locked" => e \in switching
          /\ <<e, "actual">> \in Paths /\ node[<<e, "status">>] = "locked" =>
               node[<<e, "actual">>] = node[<<e, "source">>]
      BY ClocksParts
    <3> QED
      BY <3>1, <2>1, <2>4
  <2> QED
    BY <2>6, <2>7, <2>8, ClocksFromParts
<1>6. ASSUME Pass PROVE Clocks'
  BY <1>1, <1>6 DEF Pass
<1>7. CASE NothingToDo \/ BatchSet \/ BatchSetRaises \/ CheckRaises \/ CheckPasses \/ BeginSetup \/ Configure
  BY <1>1, <1>7 DEF NothingToDo, BatchSet, BatchSetRaises, CheckRaises, CheckPasses, BeginSetup, Configure, instruments
<1>8. CASE UNCHANGED vars
  BY <1>1, <1>8 DEF vars
<1> QED
  BY <1>2, <1>3, <1>4, <1>5, <1>6, <1>7, <1>8
     DEF Next, ControllerStep, PollAndCheck, WaitTimesOut

-----------------------------------------------------------------------------
(* Commands.                                                               *)

LEMMA CommandNodes ==
  ASSUME NEW d \in Devices, NEW c \in 1 .. NumConfigs, NEW n \in ToSet(Configs(d)[c]), n.kind = "Command"
  PROVE  /\ n.path \in Paths /\ n.path[1] = d /\ n.path[2] \in CommandNames /\ n.value # None
         /\ n.path[2] \in {"source", "extclk"} => c = 1
         /\ n.path[2] = "samplefreq" => c = 2
         /\ n.path[2] \in {"on", "offset"} => c = 3
<1>1. PICK k \in DOMAIN Configs(d)[c] : n = Configs(d)[c][k]
  BY DEF ToSet
<1>2. IsNode(d, c, k, n)
  BY <1>1, NodeCases
<1>3. n.path \in Paths /\ n.path[1] = d /\ n.value # None
  BY NodeTypes
<1> QED
  BY <1>2, <1>3 DEF IsNode, Node, CommandNames

\* The steps of the instruments by themselves.
OwnStep ==
  \/ \E d \in Devices : ClockLocks(d) \/ SampleClockLocks(d)
  \/ \E l, d \in Devices : LinkComes(l, d)

LEMMA OwnStepEffect ==
  ASSUME TypeOK, OwnStep
  PROVE  /\ UNCHANGED <<controller, monitor>>
         /\ \A p \in Paths :
              /\ p[2] \in CommandNames => Stays(p)
              /\ p[2] \notin NodeNames => Stays(p) \/ Changes(p, "up")
              /\ Stays(p) \/ \E v \in Values : Changes(p, v)
<1>1. ASSUME NEW d \in Devices, ClockLocks(d)
      PROVE  /\ UNCHANGED <<controller, monitor>>
             /\ \A p \in Paths :
                  /\ p[2] \in CommandNames => Stays(p)
                  /\ p[2] \notin NodeNames => Stays(p) \/ Changes(p, "up")
                  /\ Stays(p) \/ \E v \in Values : Changes(p, v)
  <2>1. /\ Changes(<<d, "status">>, "locked")
        /\ <<d, "actual">> \in Paths => Changes(<<d, "actual">>, node[<<d, "source">>])
        /\ Stays(<<d, "freq">>) \/ \E v \in Values : Changes(<<d, "freq">>, v)
        /\ \A p \in Paths : p \notin {<<d, "status">>, <<d, "actual">>, <<d, "freq">>} => Stays(p)
        /\ UNCHANGED <<controller, monitor>> /\ d \in Clocked
    BY <1>1, ClockLocksEffect
  <2>2. node[<<d, "source">>] \in Values /\ "locked" \in Values
    <3>1. <<d, "source">> \in Paths
      BY <2>1, PathsOf
    <3> QED
      BY <3>1 DEF TypeOK, Values
  <2>3. ASSUME NEW p \in Paths PROVE Stays(p) \/ \E v \in Values : Changes(p, v)
    BY <2>1, <2>2
  <2> QED
    BY <2>1, <2>3 DEF CommandNames, NodeNames
<1>2. ASSUME NEW d \in Devices, SampleClockLocks(d)
      PROVE  /\ UNCHANGED <<controller, monitor>>
             /\ \A p \in Paths :
                  /\ p[2] \in CommandNames => Stays(p)
                  /\ p[2] \notin NodeNames => Stays(p) \/ Changes(p, "up")
                  /\ Stays(p) \/ \E v \in Values : Changes(p, v)
  <2>1. /\ Changes(<<d, "samplestatus">>, "locked")
        /\ \A p \in Paths : p # <<d, "samplestatus">> => Stays(p)
        /\ UNCHANGED <<controller, monitor>>
    BY <1>2, SampleClockLocksEffect
  <2> QED
    BY <2>1 DEF CommandNames, NodeNames, Values
<1>3. ASSUME NEW l \in Devices, NEW d \in Devices, LinkComes(l, d)
      PROVE  /\ UNCHANGED <<controller, monitor>>
             /\ \A p \in Paths :
                  /\ p[2] \in CommandNames => Stays(p)
                  /\ p[2] \notin NodeNames => Stays(p) \/ Changes(p, "up")
                  /\ Stays(p) \/ \E v \in Values : Changes(p, v)
  <2>1. /\ Changes(<<l, d>>, "up") /\ <<l, d>> \in Paths
        /\ \A p \in Paths : p # <<l, d>> => Stays(p)
        /\ UNCHANGED <<controller, monitor>>
    BY <1>3, LinkComesEffect
  <2>2. d \notin NodeNames
    BY <2>1, LinkPath, LinkName
  <2> QED
    BY <2>1, <2>2 DEF CommandNames, NodeNames, Values
<1> QED
  BY <1>1, <1>2, <1>3 DEF OwnStep

LEMMA CommandEffect ==
  ASSUME Structure, Clocks, NEW c \in commands, SetNode(c), NEW m, m = CommandAt(c)
  PROVE  /\ pc = "set" /\ commands' = commands \ {c} /\ Changes(m.path, m.value)
         /\ UNCHANGED <<pc, config, targets, awaited, quiet, monitor>>
         /\ c[1] \in DOMAIN targets /\ m.path[1] = targets[c[1]] /\ m.path[1] \in Devices
         /\ c[2] \in DOMAIN Configs(m.path[1])[config] /\ m = Configs(m.path[1])[config][c[2]]
         /\ m \in ToSet(Configs(m.path[1])[config]) /\ m.path \in Paths /\ m.path = <<m.path[1], m.path[2]>>
         /\ IsCommand(m.path[1], config, c[2], m) /\ m.path[2] \in CommandNames
         /\ \A p \in Paths :
              /\ p[2] \in CommandNames /\ p # m.path => Stays(p)
              /\ p[2] \notin NodeNames => Stays(p) \/ (Changes(p, "down") /\ p[1] = m.path[1])
              /\ Stays(p) \/ \E v \in Values : Changes(p, v)
<1>0. /\ TypeOK /\ Work /\ targets \in Seq(Devices) /\ config \in 1 .. NumConfigs
  BY DEF Structure, TypeOK
<1>1. /\ Obey(m) /\ pc = "set" /\ commands' = commands \ {c}
      /\ UNCHANGED <<pc, config, targets, awaited, quiet, monitor>>
  BY DEF SetNode
<1>2. /\ c[1] \in DOMAIN targets /\ m.path[1] = targets[c[1]] /\ m.path[1] \in Devices
      /\ c[2] \in DOMAIN Configs(m.path[1])[config]
      /\ m \in ToSet(Configs(m.path[1])[config]) /\ m.path \in Paths /\ m.value \in Values
      /\ IsCommand(m.path[1], config, c[2], m)
  BY <1>0, CommandFacts
<1>3. m = Configs(m.path[1])[config][c[2]]
  BY <1>2 DEF CommandAt
<1>4. m.path[2] \in CommandNames /\ m.path = <<m.path[1], m.path[2]>>
  BY <1>2, PathCases DEF IsCommand, Node, CommandNames
<1> DEFINE lost == Loses(m)
<1>5. /\ Changes(m.path, m.value)
      /\ \A p \in Paths :
              \/ p = m.path
              \/ Stays(p) /\ (p[2] = "status" => p[1] \notin lost \/ node[p] # "locked")
                          /\ (p[2] \notin NodeNames => p[2] \notin lost \/ node[p] # "up")
                          /\ (p[2] = "samplestatus" => p[1] # m.path[1] \/ m.path[2] # "samplefreq")
              \/ p[2] = "status" /\ p[1] \in lost /\ Changes(p, "locking")
              \/ /\ p[2] \notin NodeNames /\ p[2] \in lost /\ p[1] = LeaderOf(p[2])
                 /\ node[p] = "up" /\ Changes(p, "down")
              \/ /\ p = <<m.path[1], "samplestatus">> /\ m.path[2] = "samplefreq"
                 /\ Changes(p, "locking")
  BY <1>1, ObeyEffect
<1>6. lost = IF m.path[2] = "source" THEN Losing(m.path[1], m.value) ELSE {}
  BY DEF Loses
<1> HIDE DEF lost
<1>7. ASSUME NEW p \in Paths, p[2] \in CommandNames, p # m.path PROVE Stays(p)
  BY <1>5, <1>7 DEF CommandNames, NodeNames
<1>8. ASSUME NEW p \in Paths, p[2] \notin NodeNames
      PROVE  Stays(p) \/ (Changes(p, "down") /\ p[1] = m.path[1])
  <2>1. p # m.path
    BY <1>4, <1>8 DEF CommandNames, NodeNames
  <2>2. Stays(p) \/ (p[2] \in lost /\ p[1] = LeaderOf(p[2]) /\ node[p] = "up" /\ Changes(p, "down"))
    BY <1>5, <1>8, <2>1 DEF NodeNames
  <2>3. ASSUME p[2] \in lost, p[1] = LeaderOf(p[2]), node[p] = "up" PROVE p[1] = m.path[1]
    <3> DEFINE d == m.path[1]
               e == p[2]
    <3>1. m.path[2] = "source" /\ e \in Losing(d, m.value)
      BY <1>6, <2>3
    <3>2. m.value = Source(d) /\ m.path = <<d, "source">> /\ d \in Clocked
      BY <1>2, <3>1 DEF IsCommand, Node
    <3>3. node[<<d, "source">>] # m.value /\ (e = d \/ e \in ToSet(Children[d]))
      BY <3>1 DEF Losing
    <3>4. p = <<p[1], p[2]>> /\ p[1] \in Devices /\ p[2] \in Devices
      <4>1. p = <<p[1], p[2]>> /\ p[1] \in PQSCs /\ p[2] \in ToSet(Children[p[1]])
        BY <1>8, PathCases DEF NodeNames
      <4> QED
        BY <4>1, LinkFacts
    <3>5. node[<<e, "source">>] = "zsync" /\ Source(e) = "zsync"
      <4>1. <<p[1], e>> \in Paths /\ node[<<p[1], e>>] = "up"
        BY <3>4, <2>3
      <4> DEFINE l == p[1]
      <4>4. l \in Devices /\ e \in Devices /\ <<l, e>> \in Paths /\ node[<<l, e>>] = "up"
        BY <4>1, <3>4
      <4>2. node[<<e, "source">>] = "zsync"
        <5> HIDE DEF l, e
        <5> QED
          BY <4>4, ClocksParts
      <4>3. e \in Clocked
        BY <4>1, <3>4, LinkPath, LinkFacts
      <4> QED
        BY <4>2, <4>3, ClocksParts
    <3>6. e # d
      BY <3>2, <3>3, <3>5
    <3>7. LeaderOf(e) = d
      <4>1. d \in Devices /\ e \in ToSet(Children[d])
        BY <1>2, <3>3, <3>6
      <4> HIDE DEF d, e
      <4> QED
        BY <4>1, LevelUp
    <3> QED
      BY <3>7, <2>3
  <2> QED
    BY <2>2, <2>3
<1>9. ASSUME NEW p \in Paths PROVE Stays(p) \/ \E v \in Values : Changes(p, v)
  BY <1>2, <1>5 DEF Values
<1> QED
  BY <1>1, <1>2, <1>3, <1>4, <1>5, <1>7, <1>8, <1>9

\* What a command changed, and a link that broke, is known before the wait is
\* over: the server that has to tell it is one that is polled.
Unread(p) ==
  \/ p[2] \in CommandNames /\ transit[p] # << >>
  \/ p[2] \notin NodeNames /\ "down" \in ToSet(transit[p])

Polls ==
  Working => \A p \in Paths :
    Unread(p) => \E n \in awaited : ServerOf[n.path[1]] = ServerOf[p[1]]

LEMMA UnreadChanges ==
  ASSUME TypeOK, NEW p \in Paths, NEW v \in Values, Changes(p, v) \/ Stays(p)
  PROVE  /\ Stays(p) => Unread(p)' = Unread(p)
         /\ Changes(p, v) /\ p[2] \notin NodeNames /\ v # "down" => (Unread(p)' => Unread(p))
<1>1. CommandNames \subseteq NodeNames
  BY DEF CommandNames, NodeNames
<1>2. Stays(p) => Unread(p)' = Unread(p)
  BY DEF Stays, Unread
<1>3. ASSUME Changes(p, v) PROVE ToSet(transit'[p]) = ToSet(transit[p]) \cup {v}
  <2> DEFINE s == transit[p]
             t == Append(s, v)
  <2>0. s \in Seq(Values)
    BY DEF TypeOK
  <2>1. DOMAIN s = 1 .. Len(s) /\ DOMAIN t = 1 .. Len(s) + 1 /\ Len(s) \in Nat
    BY <2>0
  <2>2. t[Len(s) + 1] = v /\ \A i \in 1 .. Len(s) : t[i] = s[i]
    BY <2>0
  <2>3. transit'[p] = t
    BY <1>3 DEF Changes
  <2> HIDE DEF s, t
  <2>4. ToSet(t) = ToSet(s) \cup {v}
    BY <2>1, <2>2 DEF ToSet
  <2> QED
    BY <2>3, <2>4 DEF s
<1>4. Changes(p, v) /\ p[2] \notin NodeNames /\ v # "down" => (Unread(p)' => Unread(p))
  BY <1>1, <1>3 DEF Unread
<1> QED
  BY <1>2, <1>4

LEMMA PollsInit == Init => Polls
BY DEF Init, Polls, Working

LEMMA PollsNext == Structure /\ Clocks /\ Polls /\ [Next]_vars => Polls'
<1> SUFFICES ASSUME Structure, Clocks, Polls, [Next]_vars PROVE Polls'
  OBVIOUS
<1>0. /\ TypeOK /\ Work /\ targets \in Seq(Devices) /\ config \in 1 .. NumConfigs
  BY DEF Structure, TypeOK
<1>1. ASSUME transit' = transit, awaited \subseteq awaited', Working
      PROVE  Polls'
  BY <1>1 DEF Polls, Unread
<1>2. ASSUME pc' = "raised" PROVE Polls'
  BY <1>2 DEF Polls, Working
<1>3. CASE BeginSetup
  <2>1. \A p \in Paths : transit'[p] = << >>
    BY <1>0, <1>3, FlushEffect, BeginEffect
  <2>2. \A p \in Paths : ~Unread(p)'
    BY <2>1 DEF Unread, ToSet
  <2> QED
    BY <2>2 DEF Polls
<1>4. CASE NothingToDo \/ CheckPasses
  <2>1. awaited = {} /\ Working /\ transit' = transit
    BY <1>0, <1>4 DEF NothingToDo, CheckPasses, Work, Setting, Working
  <2> QED
    BY <1>1, <2>1
<1>5. CASE Configure
  <2>1. awaited = {} /\ Working /\ transit' = transit
    BY <1>0, <1>5, ConfigureEffect DEF Working
  <2> QED
    BY <1>1, <2>1
<1>6. CASE BatchSet
  BY <1>1, <1>6 DEF BatchSet, Working
<1>7. CASE BatchSetRaises \/ WaitTimesOut \/ CheckRaises
  BY <1>2, <1>7 DEF BatchSetRaises, WaitTimesOut, CheckRaises, Raise
<1>8. CASE PollAndCheck
  <2>1. Pass /\ Working
    BY <1>8 DEF PollAndCheck, Pass, Working
  <2>2. \A p \in Paths : IF \E n \in awaited : ServerOf[n.path[1]] = ServerOf[p[1]]
                         THEN transit'[p] = << >> ELSE transit'[p] = transit[p]
    BY <2>1, PassEffect
  <2>3. ASSUME NEW p \in Paths, Unread(p)' PROVE FALSE
    <3>1. transit'[p] # << >>
      BY <2>3 DEF Unread, ToSet
    <3>2. transit'[p] = transit[p] /\ ~\E n \in awaited : ServerOf[n.path[1]] = ServerOf[p[1]]
      BY <2>2, <3>1
    <3>3. Unread(p)
      BY <2>3, <3>2 DEF Unread
    <3> QED
      BY <2>1, <3>2, <3>3 DEF Polls
  <2> QED
    BY <2>3 DEF Polls
<1>9. ASSUME NEW c \in commands, SetNode(c) PROVE Polls'
  <2> DEFINE m == CommandAt(c)
  <2>1. m = CommandAt(c)
    OBVIOUS
  <2> HIDE DEF m
  <2>2. /\ pc = "set" /\ UNCHANGED <<pc, awaited>>
        /\ m.path[1] = targets[c[1]] /\ m.path[1] \in Devices /\ m \in ToSet(Configs(m.path[1])[config])
        /\ c[2] \in DOMAIN Configs(m.path[1])[config]
        /\ \A p \in Paths :
              /\ p[2] \in CommandNames /\ p # m.path => Stays(p)
              /\ p[2] \notin NodeNames => Stays(p) \/ (Changes(p, "down") /\ p[1] = m.path[1])
              /\ Stays(p) \/ \E v \in Values : Changes(p, v)
    BY <1>9, <2>1, CommandEffect
  <2>3. \E n \in awaited : n.path[1] = m.path[1]
    <3>1. c[2] \in filter_commands(Configs(m.path[1])[config])
      BY <1>0, <2>2, CommandFacts
    <3>2. filter_responses(Configs(m.path[1])[config]) # {}
      BY <1>0, <2>2, <3>1, CommandsAnswered
    <3>3. PICK n : n \in filter_responses(Configs(m.path[1])[config])
      BY <3>2
    <3>4. n \in awaited
      BY <1>0, <2>2, <3>3 DEF Work
    <3>5. n \in ToSet(Configs(m.path[1])[config])
      BY <3>3 DEF filter_responses
    <3>6. n.path[1] = m.path[1]
      BY <1>0, <2>2, <3>5, NodeTypes
    <3> QED
      BY <3>4, <3>6
  <2>4. ASSUME NEW p \in Paths, Unread(p)', p[1] # m.path[1] PROVE Unread(p)
    <3>1. p[2] \in CommandNames \/ p[2] \notin NodeNames
      BY <2>4 DEF Unread
    <3>2. Stays(p)
      BY <2>2, <2>4, <3>1
    <3> QED
      BY <2>4, <3>2 DEF Unread, Stays
  <2> QED
    BY <2>2, <2>3, <2>4 DEF Polls, Working
<1>10. CASE OwnStep
  <2>1. /\ UNCHANGED <<controller, monitor>>
        /\ \A p \in Paths :
              /\ p[2] \in CommandNames => Stays(p)
              /\ p[2] \notin NodeNames => Stays(p) \/ Changes(p, "up")
    BY <1>0, <1>10, OwnStepEffect
  <2>2. ASSUME NEW p \in Paths, Unread(p)' PROVE Unread(p)
    <3>1. p[2] \in CommandNames \/ p[2] \notin NodeNames
      BY <2>2 DEF Unread
    <3>2. CASE Stays(p)
      BY <1>0, <2>2, <3>2 DEF Unread, Stays
    <3>3. CASE p[2] \notin NodeNames /\ Changes(p, "up")
      <4>1. "up" \in Values /\ "up" # "down"
        BY DEF Values
      <4> QED
        BY <1>0, <2>2, <3>3, <4>1, UnreadChanges
    <3> QED
      BY <2>1, <3>1, <3>2, <3>3
  <2> QED
    BY <2>1, <2>2 DEF Polls, Working, controller
<1>11. CASE UNCHANGED vars
  BY <1>11 DEF vars, controller, Polls, Working, Unread
<1> QED
  BY <1>3, <1>4, <1>5, <1>6, <1>7, <1>8, <1>9, <1>10, <1>11
     DEF Next, ControllerStep, OwnStep

\* What was commanded is so: where the configuration has been set up, and, of
\* the one being set up, as far as the commands have been set.
Executed ==
  /\ Working => \A d \in Reached, c \in 1 .. NumConfigs : Done(d, c) =>
       \A n \in ToSet(Configs(d)[c]) : n.kind = "Command" => node[n.path] = n.value
  /\ Setting => \A i \in DOMAIN targets : \A k \in DOMAIN Configs(targets[i])[config] :
       Configs(targets[i])[config][k].kind = "Command" =>
         \/ node[Configs(targets[i])[config][k].path] = Configs(targets[i])[config][k].value
         \/ <<i, k>> \in commands

LEMMA ExecutedInit == Init => Executed
BY DEF Init, Executed, Working, Setting

\* A device with nothing to do is as it is to be.
LEMMA NothingFails ==
  ASSUME Structure, MonitorFollows, Polls, awaited = {}, Working,
         NEW d \in Devices, Failed(d) = {},
         NEW n \in ToSet(Configs(d)[config]), n.kind = "Command"
  PROVE  node[n.path] = n.value
<1>0. TypeOK /\ config \in 1 .. NumConfigs
  BY DEF Structure, TypeOK
<1>1. n \in filter_conditions(Configs(d)[config])
  BY DEF filter_conditions
<1>2. n.path \in Paths /\ n.path[2] \in CommandNames /\ n.value # None
  BY <1>0, CommandNodes
<1>3. last[n.path] = n.value
  BY <1>1, <1>2 DEF Failed, IsExpected
<1>4. transit[n.path] = << >>
  BY <1>2 DEF Polls, Unread
<1> QED
  BY <1>2, <1>3, <1>4 DEF MonitorFollows, LastOf

LEMMA ExecutedMoves ==
  ASSUME Structure, Executed, pc \in {"configure", "wait"}, GoOn, node' = node,
         \A d \in ToSet(targets) : \A n \in ToSet(Configs(d)[config]) :
           n.kind = "Command" => node[n.path] = n.value
  PROVE  Executed'
<1>1. /\ pc' \in {"configure", "ready"}
      /\ \A d \in Reached, c \in 1 .. NumConfigs :
              Done(d, c)' <=> Done(d, c) \/ (c = config /\ d \in ToSet(targets))
  BY GoOnEffect
<1>2. Working
  BY DEF Working
<1>3. \A d \in Reached, c \in 1 .. NumConfigs : Done(d, c)' =>
       \A n \in ToSet(Configs(d)[c]) : n.kind = "Command" => node[n.path] = n.value
  BY <1>1, <1>2 DEF Executed
<1>4. ~Setting'
  BY <1>1 DEF Setting
<1> QED
  BY <1>3, <1>4 DEF Executed

LEMMA DoneStays ==
  ASSUME UNCHANGED <<config, targets>>, pc # "ready", pc' # "ready", NEW d, NEW c
  PROVE  Done(d, c)' = Done(d, c)
BY DEF Done

LEMMA NotDoneYet ==
  ASSUME TypeOK, pc # "ready", NEW d \in ToSet(targets), NEW c \in 1 .. NumConfigs, Done(d, c)
  PROVE  c < config
<1>1. Level(d) \in 0 .. 2
  BY DEF Level
<1> QED
  BY <1>1 DEF Done

LEMMA ExecutedNext ==
  Structure /\ Clocks /\ MonitorFollows /\ Polls /\ Executed /\ [Next]_vars => Executed'
<1> SUFFICES ASSUME Structure, Clocks, MonitorFollows, Polls, Executed, [Next]_vars PROVE Executed'
  OBVIOUS
<1>0. /\ TypeOK /\ Work /\ Levels /\ targets \in Seq(Devices) /\ config \in 1 .. NumConfigs
  BY DEF Structure, TypeOK
<1>1. \A i \in DOMAIN targets : targets[i] \in ToSet(targets) /\ targets[i] \in Devices
  BY <1>0 DEF ToSet
<1>2. \A d \in ToSet(targets) : d \in Devices /\ \E i \in DOMAIN targets : targets[i] = d
  BY <1>0 DEF ToSet
<1>3. ASSUME pc' = "raised" PROVE Executed'
  BY <1>3 DEF Executed, Working, Setting
<1>4. CASE BeginSetup
  <2>1. pc' = "configure" /\ \A d \in Reached, c \in 1 .. NumConfigs : ~Done(d, c)'
    BY <1>0, <1>4, BeginEffect
  <2> QED
    BY <2>1 DEF Executed, Setting
<1>5. CASE NothingToDo
  <2>1. pc = "configure" /\ GoOn /\ node' = node /\ \A d \in ToSet(targets) : Failed(d) = {}
    BY <1>5 DEF NothingToDo, instruments
  <2>2. awaited = {} /\ Working
    BY <1>0, <2>1 DEF Work, Setting, Working
  <2>3. \A d \in ToSet(targets) : \A n \in ToSet(Configs(d)[config]) :
          n.kind = "Command" => node[n.path] = n.value
    BY <1>2, <2>1, <2>2, NothingFails
  <2> QED
    BY <2>1, <2>3, ExecutedMoves
<1>6. CASE CheckPasses
  <2>1. pc = "wait" /\ GoOn /\ node' = node
    BY <1>6 DEF CheckPasses, instruments
  <2>2. commands = {} /\ Setting
    BY <1>0, <2>1 DEF Work, Setting
  <2>3. ASSUME NEW d \in ToSet(targets), NEW n \in ToSet(Configs(d)[config]), n.kind = "Command"
        PROVE  node[n.path] = n.value
    <3>1. PICK i \in DOMAIN targets : targets[i] = d
      BY <1>2
    <3>2. PICK k \in DOMAIN Configs(d)[config] : n = Configs(d)[config][k]
      BY DEF ToSet
    <3> QED
      BY <2>2, <2>3, <3>1, <3>2 DEF Executed
  <2> QED
    BY <2>1, <2>3, ExecutedMoves
<1>7. CASE Configure
  <2>1. /\ pc = "configure" /\ pc' \in {"set", "wait"} /\ awaited = {}
        /\ UNCHANGED <<config, targets>> /\ node' = node
        /\ \A i \in DOMAIN targets : Failed(targets[i]) # {} =>
              \A k \in filter_commands(Configs(targets[i])[config]) : <<i, k>> \in commands'
    BY <1>7, ConfigureEffect DEF instruments
  <2>2. Working
    BY <2>1 DEF Working
  <2>3. \A d \in Reached, c \in 1 .. NumConfigs : Done(d, c)' = Done(d, c)
    BY <2>1, DoneStays
  <2>4. ASSUME NEW i \in DOMAIN targets, NEW k \in DOMAIN Configs(targets[i])[config],
               Configs(targets[i])[config][k].kind = "Command"
        PROVE  \/ node[Configs(targets[i])[config][k].path] = Configs(targets[i])[config][k].value
               \/ <<i, k>> \in commands'
    <3>1. CASE Failed(targets[i]) = {}
      <4>1. Configs(targets[i])[config][k] \in ToSet(Configs(targets[i])[config])
        BY DEF ToSet
      <4> QED
        BY <1>1, <2>1, <2>2, <2>4, <3>1, <4>1, NothingFails
    <3>2. CASE Failed(targets[i]) # {}
      BY <2>1, <2>4, <3>2 DEF filter_commands
    <3> QED
      BY <3>1, <3>2
  <2> QED
    BY <2>1, <2>2, <2>3, <2>4 DEF Executed
<1>8. CASE BatchSet
  <2>1. pc = "set" /\ pc' = "wait" /\ UNCHANGED <<config, targets, commands>> /\ node' = node
    BY <1>8 DEF BatchSet, instruments
  <2>2. \A d \in Reached, c \in 1 .. NumConfigs : Done(d, c)' = Done(d, c)
    BY <2>1, DoneStays
  <2> QED
    BY <2>1, <2>2 DEF Executed, Working, Setting
<1>9. CASE BatchSetRaises \/ WaitTimesOut \/ CheckRaises
  BY <1>3, <1>9 DEF BatchSetRaises, WaitTimesOut, CheckRaises, Raise
<1>10. CASE PollAndCheck
  <2>1. UNCHANGED <<pc, config, targets, commands>> /\ node' = node
    BY <1>10 DEF PollAndCheck, Pass, instruments
  <2> QED
    BY <2>1 DEF Executed, Working, Setting, Done
<1>11. ASSUME NEW c \in commands, SetNode(c) PROVE Executed'
  <2> DEFINE m == CommandAt(c)
  <2>1. m = CommandAt(c)
    OBVIOUS
  <2> HIDE DEF m
  <2>2. /\ pc = "set" /\ UNCHANGED <<pc, config, targets>> /\ commands' = commands \ {c}
        /\ Changes(m.path, m.value)
        /\ c[1] \in DOMAIN targets /\ m.path[1] = targets[c[1]] /\ m.path[1] \in Devices
        /\ m \in ToSet(Configs(m.path[1])[config]) /\ m = Configs(m.path[1])[config][c[2]]
        /\ IsCommand(m.path[1], config, c[2], m)
        /\ \A p \in Paths : p[2] \in CommandNames /\ p # m.path => Stays(p)
    BY <1>11, <2>1, CommandEffect
  <2>3. Working /\ Setting
    BY <2>2 DEF Working, Setting
  <2>4. ASSUME NEW d \in Reached, NEW f \in 1 .. NumConfigs, Done(d, f)',
               NEW n \in ToSet(Configs(d)[f]), n.kind = "Command"
        PROVE  node'[n.path] = n.value
    <3>0. d \in Devices
      BY DEF Reached
    <3>1. Done(d, f) /\ node[n.path] = n.value
      BY <2>2, <2>3, <2>4 DEF Executed, Done
    <3>2. /\ n.path \in Paths /\ n.path[1] = d /\ n.path[2] \in CommandNames
          /\ n.path[2] \in {"source", "extclk"} => f = 1
          /\ n.path[2] = "samplefreq" => f = 2
          /\ n.path[2] \in {"on", "offset"} => f = 3
      BY <2>4, <3>0, CommandNodes
    <3>3. n.path # m.path
      <4> SUFFICES ASSUME n.path = m.path PROVE FALSE
        OBVIOUS
      <4>1. d \in ToSet(targets)
        BY <1>1, <2>2, <3>2
      <4>2. f < config
        BY <1>0, <2>2, <3>1, <4>1, NotDoneYet
      <4>3. f = config \/ (config = 2 /\ f = 3)
        BY <2>2, <3>2 DEF IsCommand, Node
      <4> QED
        BY <1>0, <4>2, <4>3
    <3>4. Stays(n.path)
      BY <2>2, <3>2, <3>3
    <3> QED
      BY <3>1, <3>4 DEF Stays
  <2>5. ASSUME NEW i \in DOMAIN targets, NEW k \in DOMAIN Configs(targets[i])[config],
               Configs(targets[i])[config][k].kind = "Command"
        PROVE  \/ node'[Configs(targets[i])[config][k].path] = Configs(targets[i])[config][k].value
               \/ <<i, k>> \in commands'
    <3> DEFINE d == targets[i]
               n == Configs(d)[config][k]
    <3>1. d \in Devices /\ n \in ToSet(Configs(d)[config]) /\ n.kind = "Command"
      BY <1>1, <2>5 DEF ToSet
    <3>2. node[n.path] = n.value \/ <<i, k>> \in commands
      BY <2>3, <2>5 DEF Executed
    <3> HIDE DEF d, n
    <3>3. n.path \in Paths /\ n.path[1] = d /\ n.path[2] \in CommandNames
      BY <1>0, <3>1, CommandNodes
    <3>4. CASE n.path = m.path
      <4>1. m.path[1] = d
        BY <3>3, <3>4
      <4>2. m = n
        BY <1>0, <2>2, <3>1, <3>4, <4>1, OneNode
      <4>3. node'[n.path] = n.value
        BY <2>2, <4>2 DEF Changes
      <4> QED
        BY <4>3 DEF n, d
    <3>5. CASE n.path # m.path
      <4>1. Stays(n.path)
        BY <2>2, <3>3, <3>5
      <4>2. <<i, k>> # c
        <5> SUFFICES ASSUME <<i, k>> = c PROVE FALSE
          OBVIOUS
        <5>1. c[1] = i /\ c[2] = k
          OBVIOUS
        <5>2. m = n
          BY <2>2, <5>1 DEF n, d
        <5> QED
          BY <3>5, <5>2
      <4>3. node'[n.path] = n.value \/ <<i, k>> \in commands'
        BY <2>2, <3>2, <4>1, <4>2 DEF Stays
      <4> QED
        BY <4>3 DEF n, d
    <3> QED
      BY <3>4, <3>5
  <2> QED
    BY <2>2, <2>3, <2>4, <2>5 DEF Executed
<1>12. CASE OwnStep
  <2>1. /\ UNCHANGED <<pc, config, targets, commands>>
        /\ \A p \in Paths : p[2] \in CommandNames => node'[p] = node[p]
    BY <1>0, <1>12, OwnStepEffect DEF controller, Stays
  <2>2. ASSUME NEW d \in Devices, NEW f \in 1 .. NumConfigs, NEW n \in ToSet(Configs(d)[f]), n.kind = "Command"
        PROVE  node'[n.path] = node[n.path]
    BY <2>1, <2>2, CommandNodes
  <2>3. ASSUME NEW d \in Reached, NEW f \in 1 .. NumConfigs, Done(d, f)', Working',
               NEW n \in ToSet(Configs(d)[f]), n.kind = "Command"
        PROVE  node'[n.path] = n.value
    <3>1. Done(d, f) /\ Working /\ d \in Devices
      BY <2>1, <2>3 DEF Done, Working, Reached
    <3> QED
      BY <2>2, <2>3, <3>1 DEF Executed
  <2>4. ASSUME NEW i \in DOMAIN targets, NEW k \in DOMAIN Configs(targets[i])[config], Setting,
               Configs(targets[i])[config][k].kind = "Command"
        PROVE  \/ node'[Configs(targets[i])[config][k].path] = Configs(targets[i])[config][k].value
               \/ <<i, k>> \in commands
    <3>1. Configs(targets[i])[config][k] \in ToSet(Configs(targets[i])[config])
      BY DEF ToSet
    <3>2. node'[Configs(targets[i])[config][k].path] = node[Configs(targets[i])[config][k].path]
      BY <1>0, <1>1, <2>2, <2>4, <3>1
    <3> QED
      BY <2>4, <3>2 DEF Executed
  <2> QED
    BY <2>1, <2>3, <2>4 DEF Executed, Setting
<1>13. CASE UNCHANGED vars
  BY <1>13 DEF vars, controller, instruments, Executed, Working, Setting, Done
<1> QED
  BY <1>4, <1>5, <1>6, <1>7, <1>8, <1>9, <1>10, <1>11, <1>12, <1>13
     DEF Next, ControllerStep, OwnStep

-----------------------------------------------------------------------------
(* The outputs and the sample clock.                                       *)

\* When only the sample clock is left to set the outputs are off.
OutputsOff ==
  config = 2 => \A i \in DOMAIN targets :
    <<i, 2>> \in commands /\ <<i, 1>> \notin commands => node[<<targets[i], "on">>] = "off"

LEMMA OutputsOffInit == Init => OutputsOff
BY DEF Init, OutputsOff

LEMMA OutputsOffNext == Structure /\ Clocks /\ OutputsOff /\ [Next]_vars => OutputsOff'
<1> SUFFICES ASSUME Structure, Clocks, OutputsOff, [Next]_vars PROVE OutputsOff'
  OBVIOUS
<1>0. /\ TypeOK /\ Work /\ targets \in Seq(Devices) /\ config \in 1 .. NumConfigs
  BY DEF Structure, TypeOK
<1>1. \A i \in DOMAIN targets : targets[i] \in Devices
  BY <1>0
<1>2. ASSUME commands' = {} PROVE OutputsOff'
  BY <1>2 DEF OutputsOff
<1>3. ASSUME UNCHANGED <<config, targets, commands>>, node' = node PROVE OutputsOff'
  BY <1>3 DEF OutputsOff
<1>4. CASE BeginSetup \/ NothingToDo \/ BatchSetRaises \/ WaitTimesOut \/ CheckRaises \/ CheckPasses
  BY <1>2, <1>4 DEF BeginSetup, NothingToDo, GoOn, BatchSetRaises, WaitTimesOut, CheckRaises, CheckPasses, Raise
<1>5. CASE Configure
  <2>1. /\ \A c \in commands' : /\ c[1] \in DOMAIN targets /\ Failed(targets[c[1]]) # {}
                                /\ c[2] \in filter_commands(Configs(targets[c[1]])[config])
        /\ \A i \in DOMAIN targets : Failed(targets[i]) # {} =>
              \A k \in filter_commands(Configs(targets[i])[config]) : <<i, k>> \in commands'
        /\ UNCHANGED <<config, targets>>
    BY <1>5, ConfigureEffect
  <2>2. ASSUME config = 2, NEW i \in DOMAIN targets, <<i, 2>> \in commands'
        PROVE  <<i, 1>> \in commands'
    <3> DEFINE d == targets[i]
    <3>1. d \in Devices /\ Failed(d) # {} /\ 2 \in filter_commands(Configs(d)[config])
      BY <1>1, <2>1, <2>2
    <3> HIDE DEF d
    <3>2. IsCommand(d, config, 2, Configs(d)[config][2])
      BY <1>0, <3>1, CommandCases
    <3>3. d \in HDAWGs
      BY <2>2, <3>2 DEF IsCommand
    <3>4. DOMAIN Configs(d)[2] = 1 .. 3 /\ Configs(d)[2][1] = Node(d, "on", "off", "Prepare")
      BY <3>1, <3>3, NodesOf
    <3>5. 1 \in filter_commands(Configs(d)[config])
      BY <2>2, <3>4 DEF filter_commands, Node
    <3> QED
      BY <2>1, <3>1, <3>5 DEF d
  <2> QED
    BY <2>1, <2>2 DEF OutputsOff
<1>6. ASSUME NEW c \in commands, SetNode(c) PROVE OutputsOff'
  <2> DEFINE m == CommandAt(c)
  <2>1. m = CommandAt(c)
    OBVIOUS
  <2> HIDE DEF m
  <2>2. /\ UNCHANGED <<config, targets>> /\ commands' = commands \ {c}
        /\ Changes(m.path, m.value)
        /\ m.path[1] = targets[c[1]] /\ m = Configs(m.path[1])[config][c[2]]
        /\ IsCommand(m.path[1], config, c[2], m) /\ m.path = <<m.path[1], m.path[2]>>
        /\ \A p \in Paths : p[2] \in CommandNames /\ p # m.path => Stays(p)
    BY <1>6, <2>1, CommandEffect
  <2>3. c = <<c[1], c[2]>>
    BY <1>0, CommandFacts
  <2>4. ASSUME config = 2, NEW i \in DOMAIN targets, <<i, 2>> \in commands', <<i, 1>> \notin commands'
        PROVE  node'[<<targets[i], "on">>] = "off"
    <3> DEFINE own == <<targets[i], "on">>
    <3>1. CASE m.path = own
      <4>1. m.value = "off"
        BY <2>2, <2>4, <3>1 DEF IsCommand, Node
      <4> QED
        BY <2>2, <3>1, <4>1 DEF Changes
    <3>2. CASE m.path # own
      <4>1. c # <<i, 1>>
        <5> SUFFICES ASSUME c = <<i, 1>> PROVE FALSE
          OBVIOUS
        <5>1. c[1] = i /\ c[2] = 1
          OBVIOUS
        <5>2. m.path[1] = targets[i] /\ m.path[2] = "on"
          BY <2>2, <2>4, <5>1 DEF IsCommand, Node
        <5> QED
          BY <2>2, <3>2, <5>2
      <4>2. <<i, 2>> \in commands /\ <<i, 1>> \notin commands
        BY <2>2, <2>4, <4>1
      <4>3. node[own] = "off"
        BY <2>4, <4>2 DEF OutputsOff
      <4>4. own \in Paths
        <5> DEFINE d == targets[i]
        <5>1. d \in Devices /\ 2 \in filter_commands(Configs(d)[config])
          BY <1>0, <1>1, <4>2, CommandFacts
        <5> HIDE DEF d
        <5>2. IsCommand(d, config, 2, Configs(d)[config][2])
          BY <1>0, <5>1, CommandCases
        <5>3. d \in HDAWGs
          BY <2>4, <5>2 DEF IsCommand
        <5>4. <<d, "on">> \in Paths
          BY <5>1, <5>3, PathsOf
        <5> QED
          BY <5>4 DEF d
      <4>5. Stays(own)
        BY <2>2, <3>2, <4>4 DEF CommandNames
      <4> QED
        BY <4>3, <4>5 DEF Stays
    <3> QED
      BY <3>1, <3>2
  <2> QED
    BY <2>2, <2>4 DEF OutputsOff
<1>7. CASE BatchSet
  BY <1>3, <1>7 DEF BatchSet, instruments
<1>8. CASE PollAndCheck
  BY <1>3, <1>8 DEF PollAndCheck, Pass, instruments
<1>9. CASE OwnStep
  <2>1. UNCHANGED <<config, targets, commands>> /\ \A p \in Paths : p[2] \in CommandNames => Stays(p)
    BY <1>0, <1>9, OwnStepEffect DEF controller
  <2>2. ASSUME config = 2, NEW i \in DOMAIN targets, <<i, 2>> \in commands
        PROVE  node'[<<targets[i], "on">>] = node[<<targets[i], "on">>]
    <3> DEFINE d == targets[i]
    <3>1. d \in Devices /\ 2 \in filter_commands(Configs(d)[config])
      BY <1>0, <1>1, <2>2, CommandFacts
    <3> HIDE DEF d
    <3>2. IsCommand(d, config, 2, Configs(d)[config][2])
      BY <1>0, <3>1, CommandCases
    <3>3. d \in HDAWGs
      BY <2>2, <3>2 DEF IsCommand
    <3>4. <<d, "on">> \in Paths
      BY <3>1, <3>3, PathsOf
    <3>5. Stays(<<d, "on">>)
      BY <2>1, <3>4 DEF CommandNames
    <3> QED
      BY <3>5 DEF d, Stays
  <2> QED
    BY <2>1, <2>2 DEF OutputsOff
<1>10. CASE UNCHANGED vars
  BY <1>3, <1>10 DEF vars, controller, instruments
<1> QED
  BY <1>4, <1>5, <1>6, <1>7, <1>8, <1>9, <1>10 DEF Next, ControllerStep, OwnStep

LEMMA OutputsOffStep ==
  Structure /\ Clocks /\ OutputsOff /\ [Next]_vars =>
    [\A d \in HDAWGs : d \in sampling' \ sampling => node'[<<d, "on">>] = "off"]_vars
<1> SUFFICES ASSUME Structure, Clocks, OutputsOff, [Next]_vars, NEW d \in HDAWGs, d \in sampling' \ sampling
             PROVE  node'[<<d, "on">>] = "off"
  OBVIOUS
<1>0. /\ TypeOK /\ Work /\ targets \in Seq(Devices) /\ config \in 1 .. NumConfigs
  BY DEF Structure, TypeOK
<1>1. ASSUME NEW c \in commands, SetNode(c) PROVE node'[<<d, "on">>] = "off"
  <2> DEFINE m == CommandAt(c)
  <2>1. m = CommandAt(c) /\ Obey(m)
    BY <1>1 DEF SetNode
  <2> HIDE DEF m
  <2>2. sampling' = sampling \cup (IF m.path[2] = "samplefreq" THEN {m.path[1]} ELSE {})
    BY <2>1, ObeyEffect
  <2>3. m.path[2] = "samplefreq" /\ m.path[1] = d
    BY <2>2
  <2>4. /\ m.path[1] = targets[c[1]] /\ c[1] \in DOMAIN targets
        /\ IsCommand(m.path[1], config, c[2], m)
        /\ \A p \in Paths : p[2] \in CommandNames /\ p # m.path => Stays(p)
    BY <1>1, <2>1, CommandEffect
  <2>5. config = 2 /\ c[2] = 2
    BY <2>3, <2>4 DEF IsCommand, Node
  <2>6. c = <<c[1], 2>>
    BY <1>0, <2>5, CommandFacts
  <2>7. <<c[1], 1>> \notin commands
    <3> DEFINE b == <<c[1], 1>>
    <3>1. b[1] = c[1] /\ b[2] = 1 /\ Precedes(b, c)
      BY <2>5 DEF Precedes
    <3> HIDE DEF b
    <3>2. b \notin commands
      BY <1>1, <3>1 DEF SetNode
    <3> QED
      BY <3>2 DEF b
  <2>8. node[<<d, "on">>] = "off"
    BY <2>3, <2>4, <2>5, <2>6, <2>7 DEF OutputsOff
  <2>9. <<d, "on">> \in Paths /\ <<d, "on">> # m.path
    <3>1. d \in Devices
      BY DEF Devices
    <3>2. <<d, "on">> \in Paths
      BY <3>1, PathsOf
    <3>3. <<d, "on">> # m.path
      BY <2>3
    <3> QED
      BY <3>2, <3>3
  <2> QED
    BY <2>4, <2>8, <2>9 DEF Stays, CommandNames
<1>2. ASSUME UNCHANGED instruments PROVE FALSE
  BY <1>2 DEF instruments
<1>3. ASSUME NEW e \in Devices, ClockLocks(e) PROVE FALSE
  BY <1>3 DEF ClockLocks
<1>4. ASSUME NEW e \in Devices, SampleClockLocks(e) PROVE FALSE
  BY <1>4 DEF SampleClockLocks
<1>5. ASSUME NEW l \in Devices, NEW e \in Devices, LinkComes(l, e) PROVE FALSE
  BY <1>5 DEF LinkComes
<1>6. CASE NothingToDo \/ BatchSet \/ BatchSetRaises \/ CheckRaises \/ CheckPasses \/ BeginSetup \/ Configure
  BY <1>2, <1>6 DEF NothingToDo, BatchSet, BatchSetRaises, CheckRaises, CheckPasses, BeginSetup, Configure
<1>7. ASSUME Pass PROVE FALSE
  BY <1>2, <1>7 DEF Pass
<1>8. CASE UNCHANGED vars
  BY <1>2, <1>8 DEF vars
<1> QED
  BY <1>1, <1>3, <1>4, <1>5, <1>6, <1>7, <1>8
     DEF Next, ControllerStep, PollAndCheck, WaitTimesOut

\* OutputsOffForSampleClock: a sample clock begins to change only when the
\* outputs of the device are off.  Both are set in one batch, in this order,
\* as they are nodes of one data server.
THEOREM SampleClockBehindOutputs == Spec => OutputsOffForSampleClock
<1>1. Init /\ [][Next]_vars => [](Structure /\ Clocks)
  <2>1. Structure /\ Clocks /\ [Next]_vars => (Structure /\ Clocks)'
    BY StructureNext, ClocksNext
  <2> QED
    BY <2>1, StructureInit, ClocksInit, PTL
<1>2. Init /\ [][Next]_vars => [](Structure /\ Clocks /\ OutputsOff)
  <2>1. Structure /\ Clocks /\ OutputsOff /\ [Next]_vars => OutputsOff'
    BY OutputsOffNext
  <2> QED
    BY <1>1, <2>1, OutputsOffInit, PTL
<1>3. Structure /\ Clocks /\ OutputsOff /\ [Next]_vars =>
        [\A d \in HDAWGs : d \in sampling' \ sampling => node'[<<d, "on">>] = "off"]_vars
  BY OutputsOffStep
<1> QED
  BY <1>2, <1>3, PTL DEF Spec, OutputsOffForSampleClock

-----------------------------------------------------------------------------
(* What is waited for has come, or is going to.                            *)

\* Setting m makes the instruments report n.
Triggers(m, n) ==
  /\ m.path[1] = n.path[1]
  /\ \/ m.path = n.path
     \/ m.path[2] = "source" /\ n.path[2] \in {"status", "actual"}
     \/ m.path[2] = "samplefreq" /\ n.path[2] = "samplestatus"

Comes(n) ==
  \/ n.value \in Heard(n.path)
  \/ \E c \in commands : Triggers(CommandAt(c), n)
  \/ n.path[2] \in {"status", "actual"} /\ n.path[1] \in switching
  \/ n.path[2] = "samplestatus" /\ n.path[1] \in sampling
  \/ n.kind = "WaitCondition" /\ node[n.path] # "up"

Answered == \A n \in awaited : Comes(n)

LEMMA AnsweredInit == Init => Answered
BY DEF Init, Answered

\* The nodes that are waited for, by what they wait for.
LEMMA AwaitedCases ==
  ASSUME NEW d \in Devices, NEW c \in 1 .. NumConfigs, NEW n \in ToSet(Configs(d)[c]),
         n.kind \in {"Command", "Response", "WaitCondition"}
  PROVE  \/ n.kind = "Command"
         \/ n.kind = "Response" /\ n.path = <<d, "status">> /\ n.value = "locked" /\ c = 1 /\ d \in Clocked
         \/ /\ n.kind = "Response" /\ n.path = <<d, "actual">> /\ n.value = Source(d) /\ c = 1
            /\ d \in Clocked
         \/ /\ n.kind = "Response" /\ n.path = <<d, "samplestatus">> /\ n.value = "locked" /\ c = 2
            /\ d \in HDAWGs
         \/ /\ n.kind = "WaitCondition" /\ n.value = "up" /\ c = 4 /\ d \in PQSCs
            /\ n.path[2] \in ToSet(Children[d]) /\ n.path[2] \in Devices /\ n.path[2] \notin NodeNames
            /\ n.path = <<d, n.path[2]>>
<1>1. PICK k \in DOMAIN Configs(d)[c] : n = Configs(d)[c][k]
  BY DEF ToSet
<1>2. IsNode(d, c, k, n)
  BY <1>1, NodeCases
<1>3. CASE c \in 1 .. 3
  <2>1. SHFs \cup PQSCs \subseteq Clocked
    BY DriversAssumption DEF Clocked, Devices
  <2> QED
    BY <1>2, <1>3, <2>1 DEF IsNode, Node
<1>4. CASE c = 4
  <2>1. d \in PQSCs /\ \E f \in ToSet(Children[d]) : n = Node(d, f, "up", "WaitCondition")
    BY <1>2, <1>4 DEF IsNode
  <2>2. PICK f \in ToSet(Children[d]) : n = Node(d, f, "up", "WaitCondition")
    BY <2>1
  <2>3. n.kind = "WaitCondition" /\ n.value = "up" /\ n.path = <<d, f>> /\ n.path[2] = f
    BY <2>2 DEF Node
  <2>4. f \in Devices /\ f \notin NodeNames
    BY <2>1, LinkFacts, LinkName
  <2> QED
    BY <1>4, <2>1, <2>3, <2>4
<1> QED
  BY <1>3, <1>4 DEF NumConfigs

LEMMA AnsweredConfigured ==
  ASSUME Structure, MonitorFollows, Configure
  PROVE  Answered'
<1>0. /\ TypeOK /\ Work /\ targets \in Seq(Devices) /\ config \in 1 .. NumConfigs
  BY DEF Structure, TypeOK
<1>1. /\ \A i \in DOMAIN targets : Failed(targets[i]) # {} =>
              \A k \in filter_commands(Configs(targets[i])[config]) : <<i, k>> \in commands'
      /\ UNCHANGED <<config, targets, monitor, transit, instruments>>
  BY ConfigureEffect
<1> SUFFICES ASSUME NEW n \in awaited' PROVE Comes(n)'
  BY DEF Answered
<1>2. PICK i \in DOMAIN targets :
              /\ Failed(targets[i]) # {}
              /\ \/ n \in Failed(targets[i]) /\ n.kind = "WaitCondition"
                 \/ n \in filter_responses(Configs(targets[i])[config])
  BY ConfigureEffect
<1> DEFINE d == targets[i]
<1>3. /\ d \in Devices /\ n \in ToSet(Configs(d)[config])
      /\ \/ n \in Failed(d) /\ n.kind = "WaitCondition"
         \/ n.kind \in {"Command", "Response"}
  BY <1>0, <1>2 DEF Failed, filter_conditions, filter_responses
<1>4. \A k \in DOMAIN Configs(d)[config] : Configs(d)[config][k].kind = "Command" =>
        /\ <<i, k>> \in commands' /\ CommandAt(<<i, k>>)' = Configs(d)[config][k]
  BY <1>1, <1>2 DEF filter_commands, CommandAt
<1> HIDE DEF d
<1>5. ASSUME NEW k \in DOMAIN Configs(d)[config], Configs(d)[config][k].kind = "Command",
             Triggers(Configs(d)[config][k], n)
      PROVE  Comes(n)'
  <2>1. <<i, k>> \in commands' /\ Triggers(CommandAt(<<i, k>>)', n)
    BY <1>4, <1>5
  <2> QED
    BY <2>1 DEF Comes
<1>6. CASE n.kind = "Command"
  <2>1. PICK k \in DOMAIN Configs(d)[config] : n = Configs(d)[config][k]
    BY <1>3 DEF ToSet
  <2>2. Triggers(n, n)
    BY DEF Triggers
  <2> QED
    BY <1>5, <1>6, <2>1, <2>2
<1>7. CASE n.kind = "Response"
  <2>1. \/ n.path \in {<<d, "status">>, <<d, "actual">>} /\ config = 1 /\ d \in Clocked
        \/ n.path = <<d, "samplestatus">> /\ config = 2 /\ d \in HDAWGs
    BY <1>0, <1>3, <1>7, AwaitedCases
  <2>2. CASE n.path \in {<<d, "status">>, <<d, "actual">>} /\ config = 1 /\ d \in Clocked
    <3>1. 2 \in DOMAIN Configs(d)[config] /\ Configs(d)[config][2] = Node(d, "source", Source(d), "Command")
      BY <1>3, <2>2, NodesOf
    <3>2. Configs(d)[config][2].kind = "Command" /\ Triggers(Configs(d)[config][2], n)
      BY <2>2, <3>1 DEF Node, Triggers
    <3> QED
      BY <1>5, <3>1, <3>2
  <2>3. CASE n.path = <<d, "samplestatus">> /\ config = 2 /\ d \in HDAWGs
    <3>1. 2 \in DOMAIN Configs(d)[config] /\ Configs(d)[config][2] = Node(d, "samplefreq", "asked", "Command")
      BY <1>3, <2>3, NodesOf
    <3>2. Configs(d)[config][2].kind = "Command" /\ Triggers(Configs(d)[config][2], n)
      BY <2>3, <3>1 DEF Node, Triggers
    <3> QED
      BY <1>5, <3>1, <3>2
  <2> QED
    BY <2>1, <2>2, <2>3
<1>8. CASE n \in Failed(d) /\ n.kind = "WaitCondition"
  <2>1. n.value = "up" /\ n.path \in Paths
    BY <1>0, <1>3, <1>8, AwaitedCases, NodeTypes
  <2>2. last[n.path] # "up"
    BY <1>8, <2>1 DEF Failed, IsExpected
  <2>3. transit[n.path] \in Seq(Values)
    BY <1>0, <2>1 DEF TypeOK
  <2>4. CASE transit[n.path] = << >>
    <3>1. node[n.path] # "up"
      BY <2>1, <2>2, <2>4 DEF MonitorFollows, LastOf
    <3> QED
      BY <1>1, <1>8, <3>1 DEF Comes, instruments
  <2>5. CASE transit[n.path] # << >>
    <3>1. node[n.path] \in ToSet(transit[n.path])
      BY <1>0, <2>1, <2>3, <2>5, LastIn DEF MonitorFollows
    <3>2. node[n.path] # "up" \/ n.value \in Heard(n.path)
      BY <2>1, <3>1 DEF Heard
    <3>3. node' = node /\ Heard(n.path)' = Heard(n.path)
      BY <1>1 DEF Heard, monitor, instruments
    <3> QED
      BY <1>8, <3>2, <3>3 DEF Comes
  <2> QED
    BY <2>4, <2>5
<1> QED
  BY <1>3, <1>6, <1>7, <1>8

LEMMA AnsweredCommanded ==
  ASSUME Structure, Clocks, Answered, NEW c \in commands, SetNode(c)
  PROVE  Answered'
<1>0. /\ TypeOK /\ Work /\ targets \in Seq(Devices) /\ config \in 1 .. NumConfigs
  BY DEF Structure, TypeOK
<1> DEFINE m == CommandAt(c)
<1>1. m = CommandAt(c) /\ Obey(m)
  BY DEF SetNode
<1> HIDE DEF m
<1>2. /\ UNCHANGED <<config, targets, awaited, monitor>> /\ commands' = commands \ {c}
      /\ Changes(m.path, m.value)
      /\ m.path[1] \in Devices /\ m \in ToSet(Configs(m.path[1])[config])
      /\ m.path \in Paths /\ m.path[2] \in CommandNames
      /\ IsCommand(m.path[1], config, c[2], m)
      /\ \A p \in Paths :
              /\ p[2] \notin NodeNames => Stays(p) \/ (Changes(p, "down") /\ p[1] = m.path[1])
              /\ Stays(p) \/ \E v \in Values : Changes(p, v)
  BY <1>1, CommandEffect
<1>3. /\ Loses(m) \subseteq Clocked
      /\ switching' = switching \cup (IF m.path[2] = "source" THEN {m.path[1]} ELSE {}) \cup Loses(m)
      /\ sampling' = sampling \cup (IF m.path[2] = "samplefreq" THEN {m.path[1]} ELSE {})
  BY <1>1, ObeyEffect
<1>4. queue' = queue
  BY <1>2 DEF monitor
<1> SUFFICES ASSUME NEW n \in awaited PROVE Comes(n)'
  BY <1>2 DEF Answered
<1>5. /\ n.path \in Paths /\ n.path[1] \in Devices /\ n \in ToSet(Configs(n.path[1])[config])
      /\ n.kind \in {"Command", "Response", "WaitCondition"}
  BY <1>0, AwaitedFacts
<1>6. Heard(n.path) \subseteq Heard(n.path)'
  BY <1>0, <1>2, <1>4, <1>5, HeardChanges, HeardStays
<1>7. Comes(n)
  BY DEF Answered
<1>8. CASE n.value \in Heard(n.path)
  BY <1>6, <1>8 DEF Comes
<1>9. ASSUME NEW b \in commands, Triggers(CommandAt(b), n) PROVE Comes(n)'
  <2>1. CASE b # c
    <3>1. b \in commands' /\ CommandAt(b)' = CommandAt(b)
      BY <1>2, <2>1 DEF CommandAt
    <3> QED
      BY <1>9, <3>1 DEF Comes
  <2>2. CASE b = c
    <3>1. Triggers(m, n)
      BY <1>1, <1>9, <2>2
    <3>2. CASE m.path = n.path
      <4>1. m.path[1] = n.path[1]
        BY <3>2
      <4>2. m = n
        BY <1>0, <1>2, <1>5, <3>2, <4>1, OneNode
      <4>3. n.value \in Heard(n.path)'
        <5>1. m.value \in Values
          BY <1>0, <1>1, CommandFacts
        <5> QED
          BY <1>0, <1>2, <1>4, <4>2, <5>1, HeardChanges
      <4> QED
        BY <4>3 DEF Comes
    <3>3. CASE m.path[2] = "source" /\ n.path[2] \in {"status", "actual"}
      <4>1. n.path[1] \in switching'
        BY <1>3, <3>1, <3>3 DEF Triggers
      <4> QED
        BY <3>3, <4>1 DEF Comes
    <3>4. CASE m.path[2] = "samplefreq" /\ n.path[2] = "samplestatus"
      <4>1. n.path[1] \in sampling'
        BY <1>3, <3>1, <3>4 DEF Triggers
      <4> QED
        BY <3>4, <4>1 DEF Comes
    <3> QED
      BY <3>1, <3>2, <3>3, <3>4 DEF Triggers
  <2> QED
    BY <2>1, <2>2
<1>10. CASE n.path[2] \in {"status", "actual"} /\ n.path[1] \in switching
  BY <1>3, <1>10 DEF Comes
<1>11. CASE n.path[2] = "samplestatus" /\ n.path[1] \in sampling
  BY <1>3, <1>11 DEF Comes
<1>12. CASE n.kind = "WaitCondition" /\ node[n.path] # "up"
  <2>1. n.path[2] \notin NodeNames
    BY <1>0, <1>5, <1>12, AwaitedCases
  <2>2. Stays(n.path) \/ Changes(n.path, "down")
    BY <1>2, <1>5, <2>1
  <2>3. node'[n.path] # "up"
    BY <1>12, <2>2 DEF Stays, Changes
  <2> QED
    BY <1>12, <2>3 DEF Comes
<1> QED
  BY <1>7, <1>8, <1>9, <1>10, <1>11, <1>12 DEF Comes

LEMMA AnsweredByThemselves ==
  ASSUME Structure, Executed, Answered, OwnStep
  PROVE  Answered'
<1>0. /\ TypeOK /\ Work /\ targets \in Seq(Devices) /\ config \in 1 .. NumConfigs
      /\ node \in [Paths -> Values]
  BY DEF Structure, TypeOK
<1>1. /\ UNCHANGED <<config, targets, commands, awaited, queue>>
      /\ \A p \in Paths : Stays(p) \/ \E v \in Values : Changes(p, v)
  BY <1>0, OwnStepEffect DEF controller, monitor
<1> SUFFICES ASSUME NEW n \in awaited PROVE Comes(n)'
  BY <1>1 DEF Answered
<1>2. /\ n.path \in Paths /\ n.path[1] \in Devices /\ n \in ToSet(Configs(n.path[1])[config])
      /\ n.kind \in {"Command", "Response", "WaitCondition"} /\ n.path[1] \in ToSet(targets)
  BY <1>0, AwaitedFacts
<1>3. Heard(n.path) \subseteq Heard(n.path)'
  BY <1>0, <1>1, <1>2, HeardChanges, HeardStays
<1>4. Comes(n)
  BY DEF Answered
<1>5. CASE n.value \in Heard(n.path)
  BY <1>3, <1>5 DEF Comes
<1>6. ASSUME NEW b \in commands, Triggers(CommandAt(b), n) PROVE Comes(n)'
  <2>1. b \in commands' /\ CommandAt(b)' = CommandAt(b)
    BY <1>1 DEF CommandAt
  <2> QED
    BY <1>6, <2>1 DEF Comes
<1>7. ASSUME NEW d \in Devices, ClockLocks(d),
             \/ n.path[2] \in {"status", "actual"} /\ n.path[1] \in switching
             \/ n.path[2] = "samplestatus" /\ n.path[1] \in sampling
             \/ n.kind = "WaitCondition" /\ node[n.path] # "up"
      PROVE  Comes(n)'
  <2>1. /\ d \in Clocked /\ Changes(<<d, "status">>, "locked")
        /\ <<d, "actual">> \in Paths => Changes(<<d, "actual">>, node[<<d, "source">>])
        /\ \A p \in Paths : p \notin {<<d, "status">>, <<d, "actual">>, <<d, "freq">>} => Stays(p)
        /\ switching' = switching \ {d} /\ sampling' = sampling
    BY <1>0, <1>7, ClockLocksEffect
  <2>2. CASE n.path[2] \in {"status", "actual"} /\ n.path[1] \in switching /\ n.path[1] # d
    BY <2>1, <2>2 DEF Comes
  <2>3. CASE n.path[2] \in {"status", "actual"} /\ n.path[1] = d
    <3>1. /\ n.path = <<d, n.path[2]>> /\ config = 1
          /\ n.path[2] = "status" => n.value = "locked"
          /\ n.path[2] = "actual" => n.value = Source(d)
      <4>1. n.path = <<d, n.path[2]>>
        BY <1>2, <2>3, PathCases
      <4>2. n.kind # "Command"
        <5> SUFFICES ASSUME n.kind = "Command" PROVE FALSE
          OBVIOUS
        <5>1. n.path[2] \in CommandNames
          BY <1>0, <1>2, CommandNodes
        <5> QED
          BY <2>3, <5>1 DEF CommandNames
      <4>3. n.path[2] \in NodeNames
        BY <2>3 DEF NodeNames
      <4>4. \/ n.path = <<d, "status">> /\ n.value = "locked" /\ config = 1
            \/ n.path = <<d, "actual">> /\ n.value = Source(d) /\ config = 1
            \/ n.path = <<d, "samplestatus">>
        BY <1>0, <1>2, <2>3, <4>2, <4>3, AwaitedCases
      <4> QED
        BY <2>3, <4>1, <4>4
    <3>2. CASE n.path[2] = "status"
      <4>1. n.path = <<d, "status">> /\ n.value = "locked" /\ "locked" \in Values
        BY <3>1, <3>2 DEF Values
      <4>2. n.value \in Heard(n.path)'
        BY <1>0, <1>1, <1>2, <2>1, <4>1, HeardChanges
      <4> QED
        BY <4>2 DEF Comes
    <3>3. CASE n.path[2] = "actual"
      <4>1. PICK i \in DOMAIN targets : targets[i] = d
        BY <1>2, <2>3 DEF ToSet
      <4>2. 2 \in DOMAIN Configs(d)[1] /\ Configs(d)[1][2] = Node(d, "source", Source(d), "Command")
        BY <2>1, NodesOf
      <4>3. node[<<d, "source">>] = Source(d) \/ <<i, 2>> \in commands
        BY <1>0, <3>1, <4>1, <4>2 DEF Executed, Work, Node
      <4>4. CASE <<i, 2>> \in commands
        <5>1. CommandAt(<<i, 2>>) = Node(d, "source", Source(d), "Command")
          BY <3>1, <4>1, <4>2 DEF CommandAt
        <5>2. Triggers(CommandAt(<<i, 2>>), n)
          BY <2>3, <5>1 DEF Triggers, Node
        <5> QED
          BY <1>6, <4>4, <5>2
      <4>5. CASE node[<<d, "source">>] = Source(d)
        <5>1. n.path = <<d, "actual">> /\ n.value = Source(d) /\ Source(d) \in Values
          <6>1. Source(d) \in Values
            BY SourceCases DEF Values
          <6> QED
            BY <3>1, <3>3, <6>1
        <5>2. n.value \in Heard(n.path)'
          BY <1>0, <1>1, <1>2, <2>1, <4>5, <5>1, HeardChanges
        <5> QED
          BY <5>2 DEF Comes
      <4> QED
        BY <4>3, <4>4, <4>5
    <3> QED
      BY <2>3, <3>2, <3>3
  <2>4. CASE n.path[2] = "samplestatus" /\ n.path[1] \in sampling
    BY <2>1, <2>4 DEF Comes
  <2>5. CASE n.kind = "WaitCondition" /\ node[n.path] # "up"
    <3>1. n.path[2] \notin NodeNames
      BY <1>0, <1>2, <2>5, AwaitedCases
    <3>2. Stays(n.path)
      BY <1>2, <2>1, <3>1 DEF NodeNames
    <3> QED
      BY <2>5, <3>2 DEF Comes, Stays
  <2> QED
    BY <1>7, <2>2, <2>3, <2>4, <2>5
<1>8. ASSUME NEW d \in Devices, SampleClockLocks(d),
             \/ n.path[2] \in {"status", "actual"} /\ n.path[1] \in switching
             \/ n.path[2] = "samplestatus" /\ n.path[1] \in sampling
             \/ n.kind = "WaitCondition" /\ node[n.path] # "up"
      PROVE  Comes(n)'
  <2>1. /\ Changes(<<d, "samplestatus">>, "locked")
        /\ \A p \in Paths : p # <<d, "samplestatus">> => Stays(p)
        /\ sampling' = sampling \ {d} /\ switching' = switching
    BY <1>0, <1>8, SampleClockLocksEffect
  <2>2. CASE n.path[2] \in {"status", "actual"} /\ n.path[1] \in switching
    BY <2>1, <2>2 DEF Comes
  <2>3. CASE n.path[2] = "samplestatus" /\ n.path[1] \in sampling
    <3>1. CASE n.path[1] # d
      BY <2>1, <2>3, <3>1 DEF Comes
    <3>2. CASE n.path[1] = d
      <4>1. n.path = <<d, "samplestatus">>
        BY <1>2, <2>3, <3>2, PathCases
      <4>2. n.kind # "Command"
        <5> SUFFICES ASSUME n.kind = "Command" PROVE FALSE
          OBVIOUS
        <5>1. n.path[2] \in CommandNames
          BY <1>0, <1>2, CommandNodes
        <5> QED
          BY <2>3, <5>1 DEF CommandNames
      <4>3. n.value = "locked"
        BY <1>0, <1>2, <2>3, <4>1, <4>2, AwaitedCases DEF NodeNames
      <4>4. n.value \in Heard(n.path)'
        BY <1>0, <1>1, <1>2, <2>1, <4>1, <4>3, HeardChanges DEF Values
      <4> QED
        BY <4>4 DEF Comes
    <3> QED
      BY <3>1, <3>2
  <2>4. CASE n.kind = "WaitCondition" /\ node[n.path] # "up"
    <3>1. n.path[2] \notin NodeNames
      BY <1>0, <1>2, <2>4, AwaitedCases
    <3>2. Stays(n.path)
      BY <1>2, <2>1, <3>1 DEF NodeNames
    <3> QED
      BY <2>4, <3>2 DEF Comes, Stays
  <2> QED
    BY <1>8, <2>2, <2>3, <2>4
<1>9. ASSUME NEW l \in Devices, NEW d \in Devices, LinkComes(l, d),
             \/ n.path[2] \in {"status", "actual"} /\ n.path[1] \in switching
             \/ n.path[2] = "samplestatus" /\ n.path[1] \in sampling
             \/ n.kind = "WaitCondition" /\ node[n.path] # "up"
      PROVE  Comes(n)'
  <2>1. /\ Changes(<<l, d>>, "up") /\ \A p \in Paths : p # <<l, d>> => Stays(p)
        /\ UNCHANGED <<switching, sampling>>
    BY <1>0, <1>9, LinkComesEffect
  <2>2. CASE n.kind = "WaitCondition" /\ node[n.path] # "up"
    <3>1. n.value = "up"
      BY <1>0, <1>2, <2>2, AwaitedCases
    <3>2. CASE n.path = <<l, d>>
      <4>1. n.value \in Heard(n.path)'
        BY <1>0, <1>1, <1>2, <2>1, <3>1, <3>2, HeardChanges DEF Values
      <4> QED
        BY <4>1 DEF Comes
    <3>3. CASE n.path # <<l, d>>
      BY <1>2, <2>1, <2>2, <3>3 DEF Comes, Stays
    <3> QED
      BY <3>2, <3>3
  <2> QED
    BY <1>9, <2>1, <2>2 DEF Comes
<1>10. \/ n.value \in Heard(n.path)
       \/ \E b \in commands : Triggers(CommandAt(b), n)
       \/ \/ n.path[2] \in {"status", "actual"} /\ n.path[1] \in switching
          \/ n.path[2] = "samplestatus" /\ n.path[1] \in sampling
          \/ n.kind = "WaitCondition" /\ node[n.path] # "up"
  BY <1>4 DEF Comes
<1> QED
  BY <1>5, <1>6, <1>7, <1>8, <1>9, <1>10 DEF OwnStep

LEMMA AnsweredNext ==
  Structure /\ Clocks /\ MonitorFollows /\ Executed /\ Answered /\ [Next]_vars => Answered'
<1> SUFFICES ASSUME Structure, Clocks, MonitorFollows, Executed, Answered, [Next]_vars PROVE Answered'
  OBVIOUS
<1>0. /\ TypeOK /\ Work /\ targets \in Seq(Devices) /\ config \in 1 .. NumConfigs
  BY DEF Structure, TypeOK
<1>1. ASSUME awaited' = {} PROVE Answered'
  BY <1>1 DEF Answered
<1>2. CASE BeginSetup \/ NothingToDo \/ BatchSetRaises \/ WaitTimesOut \/ CheckRaises \/ CheckPasses
  BY <1>1, <1>2 DEF BeginSetup, NothingToDo, GoOn, BatchSetRaises, WaitTimesOut, CheckRaises, CheckPasses, Raise
<1>3. CASE Configure
  BY <1>3, AnsweredConfigured
<1>4. ASSUME NEW c \in commands, SetNode(c) PROVE Answered'
  BY <1>4, AnsweredCommanded
<1>5. ASSUME UNCHANGED <<config, targets, commands, awaited, queue, transit, instruments>> PROVE Answered'
  BY <1>5 DEF Answered, Comes, Heard, CommandAt, instruments
<1>6. CASE BatchSet \/ UNCHANGED vars
  BY <1>5, <1>6 DEF BatchSet, vars, controller, monitor
<1>7. CASE PollAndCheck
  <2>1. Pass /\ awaited' = StillAwaited /\ UNCHANGED <<config, targets, commands>> /\ pc = "wait"
    BY <1>7 DEF PollAndCheck, Pass
  <2>2. commands = {}
    BY <1>0, <2>1 DEF Work
  <2>3. UNCHANGED instruments
    BY <2>1 DEF Pass
  <2> SUFFICES ASSUME NEW n \in StillAwaited PROVE Comes(n)'
    BY <2>1 DEF Answered
  <2>4. n \in awaited /\ n.value \notin Heard(n.path)
    BY <2>1, PassEffect
  <2>5. Comes(n)
    BY <2>4 DEF Answered
  <2> QED
    BY <2>2, <2>3, <2>4, <2>5 DEF Comes, instruments
<1>8. CASE OwnStep
  BY <1>8, AnsweredByThemselves
<1> QED
  BY <1>2, <1>3, <1>4, <1>6, <1>7, <1>8 DEF Next, ControllerStep, OwnStep

-----------------------------------------------------------------------------
(* When the instruments were settled at the beginning: what a device       *)
(* reports of a clock is about the setting it was commanded.               *)

Quiet == Working /\ quiet

\* Configuration c of d has been set up, or its main command has been set.
Touched(d, c) ==
  \/ Done(d, c)
  \/ Setting /\ config = c /\ \E i \in DOMAIN targets : targets[i] = d /\ <<i, 2>> \notin commands

\* The status of a reference clock without a leader, and of a sample clock.
ConfigOf(name) == IF name = "status" THEN 1 ELSE 2
CommandOf(name) == IF name = "status" THEN "source" ELSE "samplefreq"
Pending(name) == IF name = "status" THEN switching ELSE sampling

Replying(d, name) ==
  \/ name = "status" /\ d \in (Reached \cap Clocked) \ Followers
  \/ name = "samplestatus" /\ d \in Reached \cap HDAWGs

Verified(d, c, n) ==
  Done(d, c) \/ (Setting /\ config = c /\ d \in ToSet(targets) /\ n \notin awaited)

Replies(d, name) ==
  /\ d \in Pending(name) \/ Heard(<<d, name>>) # {} => Touched(d, ConfigOf(name))
  /\ "locked" \in Heard(<<d, name>>) => node[<<d, name>>] = "locked" /\ d \notin Pending(name)
  /\ Verified(d, ConfigOf(name), Node(d, name, "locked", "Response")) =>
       node[<<d, name>>] = "locked" /\ d \notin Pending(name)

RepliesFollow == Quiet => \A d, name : Replying(d, name) => Replies(d, name)

LEMMA ReplyFacts ==
  ASSUME NEW d, NEW name, Replying(d, name)
  PROVE  /\ d \in Devices /\ d \in Reached /\ <<d, name>> \in Paths /\ name \in NodeNames
         /\ name \notin CommandNames /\ name \in {"status", "samplestatus"}
         /\ ConfigOf(name) \in 1 .. NumConfigs
         /\ 2 \in DOMAIN Configs(d)[ConfigOf(name)]
         /\ Configs(d)[ConfigOf(name)][2].path = <<d, CommandOf(name)>>
         /\ Node(d, name, "locked", "Response") \in ToSet(Configs(d)[ConfigOf(name)])
         /\ Node(d, name, "locked", "Response") \in filter_responses(Configs(d)[ConfigOf(name)])
         /\ Node(d, name, "locked", "Response") \in filter_conditions(Configs(d)[ConfigOf(name)])
<1>1. d \in Devices /\ d \in Reached
  BY DEF Replying, Reached
<1>2. CASE name = "status" /\ d \in (Reached \cap Clocked) \ Followers
  <2>1. /\ 2 \in DOMAIN Configs(d)[1] /\ Configs(d)[1][2] = Node(d, "source", Source(d), "Command")
        /\ Node(d, "status", "locked", "Response") \in ToSet(Configs(d)[1])
    BY <1>1, <1>2, NodesOf
  <2>2. <<d, "status">> \in Paths
    BY <1>1, <1>2, PathsOf
  <2> QED
    BY <1>1, <1>2, <2>1, <2>2
       DEF ConfigOf, CommandOf, Node, filter_responses, filter_conditions, NumConfigs, NodeNames, CommandNames
<1>3. CASE name = "samplestatus" /\ d \in Reached \cap HDAWGs
  <2>1. /\ 2 \in DOMAIN Configs(d)[2] /\ Configs(d)[2][2] = Node(d, "samplefreq", "asked", "Command")
        /\ Node(d, "samplestatus", "locked", "Response") \in ToSet(Configs(d)[2])
    BY <1>1, <1>3, NodesOf
  <2>2. <<d, "samplestatus">> \in Paths
    BY <1>1, <1>3, PathsOf
  <2> QED
    BY <1>1, <1>3, <2>1, <2>2
       DEF ConfigOf, CommandOf, Node, filter_responses, filter_conditions, NumConfigs, NodeNames, CommandNames
<1> QED
  BY <1>2, <1>3 DEF Replying

\* What was done stays done until the next setup begins.
LEMMA TouchedStays ==
  ASSUME Structure, Working, Working', NEW d \in Reached, NEW c \in 1 .. NumConfigs,
         \/ GoOn /\ pc \in {"configure", "wait"}
         \/ /\ UNCHANGED <<config, targets>> /\ pc # "ready" /\ pc' # "ready"
            /\ ~Setting \/ (Setting' /\ commands' \subseteq commands)
  PROVE  Touched(d, c) => Touched(d, c)'
<1> SUFFICES ASSUME Touched(d, c) PROVE Touched(d, c)'
  OBVIOUS
<1>1. CASE GoOn /\ pc \in {"configure", "wait"}
  <2>1. Done(d, c)' <=> Done(d, c) \/ (c = config /\ d \in ToSet(targets))
    BY <1>1, GoOnEffect
  <2>2. Done(d, c) \/ (c = config /\ d \in ToSet(targets))
    BY DEF Touched, ToSet
  <2> QED
    BY <2>1, <2>2 DEF Touched
<1>2. CASE /\ UNCHANGED <<config, targets>> /\ pc # "ready" /\ pc' # "ready"
           /\ ~Setting \/ (Setting' /\ commands' \subseteq commands)
  <2>1. Done(d, c)' = Done(d, c)
    BY <1>2, DoneStays
  <2> QED
    BY <1>2, <2>1 DEF Touched
<1> QED
  BY <1>1, <1>2

\* A command that is still to be set has not touched its device.
LEMMA NotTouchedYet ==
  ASSUME Structure, NEW b \in commands, b[2] = 2
  PROVE  ~Touched(targets[b[1]], config)
<1>0. /\ TypeOK /\ Work /\ Levels /\ targets \in Seq(Devices) /\ config \in 1 .. NumConfigs
  BY DEF Structure, TypeOK
<1>1. b = <<b[1], 2>> /\ b[1] \in DOMAIN targets /\ targets[b[1]] \in ToSet(targets) /\ pc = "set"
  BY <1>0, CommandFacts DEF Work
<1>2. ~Done(targets[b[1]], config)
  <2>1. Done(targets[b[1]], config) => config < config
    BY <1>0, <1>1, NotDoneYet
  <2> QED
    BY <1>0, <2>1
<1>3. \A i \in DOMAIN targets : targets[i] = targets[b[1]] => i = b[1]
  BY <1>0, <1>1 DEF Levels, IsInjective
<1> QED
  BY <1>1, <1>2, <1>3 DEF Touched

\* Before anything is set a device of the level is untouched.
LEMMA UntouchedBefore ==
  ASSUME Structure, pc = "configure", NEW d \in ToSet(targets)
  PROVE  ~Touched(d, config)
<1>0. TypeOK /\ config \in 1 .. NumConfigs
  BY DEF Structure, TypeOK
<1>1. Done(d, config) => config < config
  BY <1>0, NotDoneYet
<1> QED
  BY <1>0, <1>1 DEF Touched, Setting

\* A device of the level with nothing to do has its clock.
LEMMA RepliesWithout ==
  ASSUME Structure, MonitorFollows, pc = "configure", NEW d \in ToSet(targets), NEW name,
         Replying(d, name), Replies(d, name), config = ConfigOf(name), Failed(d) = {}
  PROVE  node[<<d, name>>] = "locked" /\ d \notin Pending(name)
<1> DEFINE n == Node(d, name, "locked", "Response")
<1>1. /\ d \in Devices /\ <<d, name>> \in Paths /\ n \in filter_conditions(Configs(d)[config])
  BY ReplyFacts
<1>2. n.path = <<d, name>> /\ n.value = "locked"
  BY DEF Node
<1>3. last[<<d, name>>] = "locked"
  <2> HIDE DEF n
  <2> QED
    BY <1>1, <1>2 DEF Failed, IsExpected, None
<1>4. d \notin Pending(name) /\ Heard(<<d, name>>) = {}
  BY UntouchedBefore DEF Replies
<1>5. transit[<<d, name>>] = << >>
  <2>1. transit[<<d, name>>] \in Seq(Values)
    BY <1>1 DEF Structure, TypeOK
  <2>2. ToSet(transit[<<d, name>>]) = {}
    BY <1>4 DEF Heard
  <2> QED
    BY <2>1, <2>2, NothingIn
<1> QED
  BY <1>1, <1>3, <1>4, <1>5 DEF MonitorFollows, LastOf

LEMMA RepliesBegin ==
  ASSUME Structure, Clocks, BeginSetup, quiet'
  PROVE  \A d, name : Replying(d, name) => Replies(d, name)'
<1>0. TypeOK
  BY DEF Structure
<1>1. /\ pc' = "configure" /\ quiet' = Settled /\ Flush /\ UNCHANGED instruments
      /\ \A d \in Reached, c \in 1 .. NumConfigs : ~Done(d, c)'
  BY <1>0, BeginEffect
<1>2. \A p \in Paths : Heard(p)' = {}
  BY <1>0, <1>1, FlushEffect
<1> SUFFICES ASSUME NEW d, NEW name, Replying(d, name) PROVE Replies(d, name)'
  OBVIOUS
<1>3. d \in Reached /\ <<d, name>> \in Paths /\ ConfigOf(name) \in 1 .. NumConfigs
  BY ReplyFacts
<1>4. d \notin Pending(name)
  <2>1. CASE name = "status"
    <3>1. d \in Clocked \ Followers /\ d \in Devices
      BY <2>1 DEF Replying, Clocked
    <3>2. Source(d) # "zsync"
      BY <3>1, SourceCases
    <3>3. ~OnZSync(node, d)
      BY <3>1, <3>2 DEF Clocks
    <3>4. CanLock(d)
      BY <3>3 DEF CanLock
    <3> QED
      BY <1>1, <2>1, <3>4 DEF Settled, Pending
  <2>2. CASE name # "status"
    BY <1>1, <2>2 DEF Settled, Pending
  <2> QED
    BY <2>1, <2>2
<1>5. Pending(name)' = Pending(name)
  BY <1>1 DEF Pending, instruments
<1>6. ~Verified(d, ConfigOf(name), Node(d, name, "locked", "Response"))'
  BY <1>1, <1>3 DEF Verified, Setting
<1> QED
  BY <1>2, <1>3, <1>4, <1>5, <1>6 DEF Replies

LEMMA RepliesMove ==
  ASSUME Structure, pc \in {"configure", "wait"}, GoOn, UNCHANGED <<monitor, transit, instruments>>,
         NEW d, NEW name, Replying(d, name), Replies(d, name),
         config = ConfigOf(name) /\ d \in ToSet(targets) =>
           node[<<d, name>>] = "locked" /\ d \notin Pending(name)
  PROVE  Replies(d, name)'
<1> DEFINE c == ConfigOf(name)
<1>1. d \in Reached /\ c \in 1 .. NumConfigs /\ <<d, name>> \in Paths
  BY ReplyFacts
<1>2. /\ pc' \in {"configure", "ready"}
      /\ Done(d, c)' <=> Done(d, c) \/ (c = config /\ d \in ToSet(targets))
  BY <1>1, GoOnEffect
<1>3. Touched(d, c) => Touched(d, c)'
  BY <1>1, <1>2, TouchedStays DEF Working
<1>4. /\ Heard(<<d, name>>)' = Heard(<<d, name>>) /\ Pending(name)' = Pending(name)
      /\ node' = node
  BY DEF Heard, Pending, monitor, instruments
<1>5. Verified(d, c, Node(d, name, "locked", "Response"))' => Done(d, c) \/ (c = config /\ d \in ToSet(targets))
  BY <1>2 DEF Verified, Setting
<1>6. Done(d, c) => node[<<d, name>>] = "locked" /\ d \notin Pending(name)
  BY DEF Replies, Verified
<1> QED
  BY <1>3, <1>4, <1>5, <1>6 DEF Replies

LEMMA RepliesConfigure ==
  ASSUME Structure, MonitorFollows, Configure,
         NEW d, NEW name, Replying(d, name), Replies(d, name)
  PROVE  Replies(d, name)'
<1> DEFINE c == ConfigOf(name)
           n == Node(d, name, "locked", "Response")
<1>1. d \in Reached /\ c \in 1 .. NumConfigs /\ n \in filter_responses(Configs(d)[c])
  BY ReplyFacts
<1>2. /\ pc = "configure" /\ pc' \in {"set", "wait"}
      /\ UNCHANGED <<config, targets, monitor, transit, instruments>>
      /\ \A i \in DOMAIN targets : Failed(targets[i]) # {} =>
           filter_responses(Configs(targets[i])[config]) \subseteq awaited'
  BY ConfigureEffect
<1> HIDE DEF n
<1>3. Touched(d, c) => Touched(d, c)'
  BY <1>1, <1>2, TouchedStays DEF Working, Setting
<1>4. /\ Heard(<<d, name>>)' = Heard(<<d, name>>) /\ Pending(name)' = Pending(name)
      /\ node' = node
  BY <1>2 DEF Heard, Pending, monitor, instruments
<1>5. Done(d, c)' = Done(d, c)
  BY <1>2, DoneStays
<1>6. ASSUME Verified(d, c, n)' PROVE node[<<d, name>>] = "locked" /\ d \notin Pending(name)
  <2>1. CASE Done(d, c)
    BY <2>1 DEF Replies, Verified
  <2>2. CASE config = c /\ d \in ToSet(targets) /\ n \notin awaited'
    <3>1. PICK i \in DOMAIN targets : targets[i] = d
      BY <2>2 DEF ToSet
    <3>2. Failed(d) = {}
      BY <1>1, <1>2, <2>2, <3>1
    <3> QED
      BY <1>2, <2>2, <3>2, RepliesWithout
  <2> QED
    BY <1>2, <1>5, <1>6, <2>1, <2>2 DEF Verified
<1> QED
  BY <1>3, <1>4, <1>6 DEF Replies, n

LEMMA RepliesCommanded ==
  ASSUME Structure, Clocks, NEW b \in commands, SetNode(b),
         NEW d, NEW name, Replying(d, name), Replies(d, name)
  PROVE  Replies(d, name)'
<1> DEFINE c == ConfigOf(name)
           n == Node(d, name, "locked", "Response")
           p == <<d, name>>
           m == CommandAt(b)
<1>0. /\ TypeOK /\ Work /\ targets \in Seq(Devices) /\ config \in 1 .. NumConfigs
  BY DEF Structure, TypeOK
<1>1. /\ d \in Reached /\ c \in 1 .. NumConfigs /\ n \in filter_responses(Configs(d)[c])
      /\ p \in Paths /\ p[1] = d /\ p[2] = name /\ name \in NodeNames /\ name \notin CommandNames
      /\ name \in {"status", "samplestatus"}
  BY ReplyFacts
<1>2. m = CommandAt(b) /\ Obey(m)
  BY DEF SetNode
<1> HIDE DEF n, m, p
<1>3. /\ pc = "set" /\ UNCHANGED <<pc, config, targets, awaited, monitor>> /\ commands' = commands \ {b}
      /\ m.path[1] = targets[b[1]] /\ m.path[2] \in CommandNames /\ m.path[1] \in Devices
      /\ b[1] \in DOMAIN targets
      /\ IsCommand(m.path[1], config, b[2], m)
  BY <1>2, CommandEffect
<1>4. /\ \A q \in Paths :
              \/ q = m.path
              \/ Stays(q) /\ (q[2] = "status" => q[1] \notin Loses(m) \/ node[q] # "locked")
                          /\ (q[2] \notin NodeNames => q[2] \notin Loses(m) \/ node[q] # "up")
                          /\ (q[2] = "samplestatus" => q[1] # m.path[1] \/ m.path[2] # "samplefreq")
              \/ q[2] = "status" /\ q[1] \in Loses(m) /\ Changes(q, "locking")
              \/ /\ q[2] \notin NodeNames /\ q[2] \in Loses(m) /\ q[1] = LeaderOf(q[2])
                 /\ node[q] = "up" /\ Changes(q, "down")
              \/ /\ q = <<m.path[1], "samplestatus">> /\ m.path[2] = "samplefreq"
                 /\ Changes(q, "locking")
      /\ switching' = switching \cup (IF m.path[2] = "source" THEN {m.path[1]} ELSE {}) \cup Loses(m)
      /\ sampling' = sampling \cup (IF m.path[2] = "samplefreq" THEN {m.path[1]} ELSE {})
  BY <1>2, ObeyEffect
<1>5. queue' = queue
  BY <1>3 DEF monitor
<1>6. Touched(d, c) => Touched(d, c)'
  BY <1>1, <1>3, TouchedStays DEF Working, Setting
<1>7. Done(d, c)' = Done(d, c)
  BY <1>3, DoneStays
<1>8. Verified(d, c, n)' = Verified(d, c, n)
  BY <1>3, <1>7 DEF Verified, Setting
<1>9. p # m.path
  BY <1>1, <1>3
<1>10. CASE m.path[1] = d /\ m.path[2] = CommandOf(name)
  <2>1. config = c /\ b[2] = 2
    BY <1>1, <1>3, <1>10 DEF IsCommand, Node, CommandOf, ConfigOf
  <2>2. ~Touched(d, c)
    BY <1>3, <1>10, <2>1, NotTouchedYet
  <2>3. Heard(p) = {} /\ d \notin Pending(name)
    BY <2>2 DEF Replies, p
  <2>4. Stays(p) \/ Changes(p, "locking")
    BY <1>1, <1>4, <1>9
  <2>5. "locked" \notin Heard(p)'
    <3>1. CASE Stays(p)
      BY <1>1, <1>5, <2>3, <3>1, HeardStays
    <3>2. CASE Changes(p, "locking")
      BY <1>0, <1>1, <1>5, <2>3, <3>2, HeardChanges DEF Values
    <3> QED
      BY <2>4, <3>1, <3>2
  <2>6. Touched(d, c)'
    <3>1. b = <<b[1], 2>>
      BY <1>0, <2>1, CommandFacts
    <3>2. <<b[1], 2>> \notin commands'
      BY <1>3, <3>1
    <3> QED
      BY <1>3, <1>10, <2>1, <3>2 DEF Touched, Setting
  <2>7. ~Verified(d, c, n)
    <3>1. filter_responses(Configs(targets[b[1]])[config]) \subseteq awaited
      BY <1>0 DEF Work
    <3>2. n \in awaited
      BY <1>1, <1>3, <1>10, <2>1, <3>1
    <3>3. ~Done(d, c)
      BY <2>2 DEF Touched
    <3> QED
      BY <3>2, <3>3 DEF Verified
  <2> QED
    BY <1>8, <2>5, <2>6, <2>7 DEF Replies, n, p
<1>11. CASE ~(m.path[1] = d /\ m.path[2] = CommandOf(name))
  <2>1. d \in Pending(name)' <=> d \in Pending(name)
    <3>1. CASE name = "status"
      <4>1. d \notin Loses(m)
        <5> SUFFICES ASSUME d \in Loses(m) PROVE FALSE
          OBVIOUS
        <5>1. m.path[2] = "source" /\ d \in ToSet(Children[m.path[1]])
          BY <1>11, <3>1 DEF Loses, Losing, CommandOf
        <5>2. d \in Followers
          BY <1>3, <5>1, LevelUp
        <5> QED
          BY <3>1, <5>2 DEF Replying
      <4> QED
        BY <1>4, <1>11, <3>1, <4>1 DEF Pending, CommandOf
    <3>2. CASE name = "samplestatus"
      BY <1>4, <1>11, <3>2 DEF Pending, CommandOf
    <3> QED
      BY <1>1, <3>1, <3>2
  <2>2. Stays(p)
    <3>1. CASE name = "status"
      <4>1. d \notin Loses(m)
        <5> SUFFICES ASSUME d \in Loses(m) PROVE FALSE
          OBVIOUS
        <5>1. m.path[2] = "source" /\ d \in ToSet(Children[m.path[1]])
          BY <1>11, <3>1 DEF Loses, Losing, CommandOf
        <5>2. d \in Followers
          BY <1>3, <5>1, LevelUp
        <5> QED
          BY <3>1, <5>2 DEF Replying
      <4>2. p # <<m.path[1], "samplestatus">>
        BY <3>1 DEF p
      <4> QED
        BY <1>1, <1>4, <1>9, <4>1, <4>2
    <3>2. CASE name = "samplestatus"
      <4>1. ~(p = <<m.path[1], "samplestatus">> /\ m.path[2] = "samplefreq")
        BY <1>11, <3>2 DEF p, CommandOf
      <4> QED
        BY <1>1, <1>4, <1>9, <3>2, <4>1
    <3> QED
      BY <1>1, <3>1, <3>2
  <2>3. Heard(p)' = Heard(p) /\ node'[p] = node[p]
    BY <1>1, <1>5, <2>2, HeardStays DEF Stays
  <2> QED
    BY <1>6, <1>8, <2>1, <2>3 DEF Replies, n, p
<1> QED
  BY <1>10, <1>11

LEMMA RepliesPolled ==
  ASSUME Structure, PollAndCheck, NEW d, NEW name, Replying(d, name), Replies(d, name)
  PROVE  Replies(d, name)'
<1> DEFINE c == ConfigOf(name)
           n == Node(d, name, "locked", "Response")
<1>1. d \in Reached /\ c \in 1 .. NumConfigs /\ <<d, name>> \in Paths
  BY ReplyFacts
<1>2. /\ Pass /\ pc = "wait" /\ awaited' = StillAwaited
      /\ UNCHANGED <<pc, config, targets, commands>> /\ UNCHANGED instruments
  BY DEF PollAndCheck, Pass
<1>3. /\ Heard(<<d, name>>)' \subseteq Heard(<<d, name>>)
      /\ n \in awaited => (n \in StillAwaited <=> n.value \notin Heard(n.path))
  <2> HIDE DEF n
  <2> QED
    BY <1>1, <1>2, PassEffect
<1>4. n.path = <<d, name>> /\ n.value = "locked"
  BY DEF Node
<1>5. Touched(d, c) => Touched(d, c)'
  BY <1>1, <1>2, TouchedStays DEF Working, Setting
<1>6. Done(d, c)' = Done(d, c)
  BY <1>2, DoneStays
<1>7. Pending(name)' = Pending(name) /\ node' = node
  BY <1>2 DEF Pending, instruments
<1>8. Verified(d, c, n)' => Verified(d, c, n) \/ "locked" \in Heard(<<d, name>>)
  <2> HIDE DEF n
  <2> QED
    BY <1>2, <1>3, <1>4, <1>6 DEF Verified, Setting
<1> QED
  BY <1>3, <1>5, <1>7, <1>8 DEF Replies

LEMMA RepliesByThemselves ==
  ASSUME Structure, OwnStep, Working, NEW d, NEW name, Replying(d, name), Replies(d, name)
  PROVE  Replies(d, name)'
<1> DEFINE c == ConfigOf(name)
           n == Node(d, name, "locked", "Response")
           p == <<d, name>>
<1>0. TypeOK
  BY DEF Structure
<1>1. /\ d \in Reached /\ c \in 1 .. NumConfigs /\ p \in Paths /\ p[1] = d /\ p[2] = name
      /\ name \in {"status", "samplestatus"}
  BY ReplyFacts
<1> HIDE DEF n, p
<1>2. UNCHANGED <<pc, config, targets, commands, awaited, queue>>
  BY <1>0, OwnStepEffect DEF controller, monitor
<1>3. Done(d, c)' = Done(d, c) /\ Touched(d, c)' = Touched(d, c) /\ Verified(d, c, n)' = Verified(d, c, n)
  BY <1>2 DEF Done, Touched, Verified, Setting
<1>4. ASSUME Stays(p), d \in Pending(name)' <=> d \in Pending(name) PROVE Replies(d, name)'
  <2>1. Heard(p)' = Heard(p) /\ node'[p] = node[p]
    BY <1>1, <1>2, <1>4, HeardStays DEF Stays
  <2> QED
    BY <1>3, <1>4, <2>1 DEF Replies, n, p
<1>5. ASSUME Changes(p, "locked"), d \in Pending(name), d \notin Pending(name)' PROVE Replies(d, name)'
  <2>1. node'[p] = "locked"
    BY <1>5 DEF Changes
  <2>2. Touched(d, c)
    BY <1>5 DEF Replies
  <2> QED
    BY <1>3, <1>5, <2>1, <2>2 DEF Replies, n, p
<1>6. ASSUME NEW e \in Devices, ClockLocks(e) PROVE Replies(d, name)'
  <2>1. /\ e \in switching /\ Changes(<<e, "status">>, "locked")
        /\ \A q \in Paths : q \notin {<<e, "status">>, <<e, "actual">>, <<e, "freq">>} => Stays(q)
        /\ switching' = switching \ {e} /\ sampling' = sampling
    BY <1>0, <1>6, ClockLocksEffect
  <2>2. CASE name = "status" /\ d = e
    <3>1. p = <<e, "status">> /\ d \in Pending(name) /\ d \notin Pending(name)'
      BY <2>1, <2>2 DEF p, Pending
    <3> QED
      BY <1>5, <2>1, <3>1
  <2>3. CASE ~(name = "status" /\ d = e)
    <3>1. p \notin {<<e, "status">>, <<e, "actual">>, <<e, "freq">>}
      BY <1>1, <2>3 DEF p
    <3>2. d \in Pending(name)' <=> d \in Pending(name)
      BY <2>1, <2>3 DEF Pending
    <3> QED
      BY <1>1, <1>4, <2>1, <3>1, <3>2
  <2> QED
    BY <2>2, <2>3
<1>7. ASSUME NEW e \in Devices, SampleClockLocks(e) PROVE Replies(d, name)'
  <2>1. /\ e \in sampling /\ Changes(<<e, "samplestatus">>, "locked")
        /\ \A q \in Paths : q # <<e, "samplestatus">> => Stays(q)
        /\ sampling' = sampling \ {e} /\ switching' = switching
    BY <1>0, <1>7, SampleClockLocksEffect
  <2>2. CASE name = "samplestatus" /\ d = e
    <3>1. p = <<e, "samplestatus">> /\ d \in Pending(name) /\ d \notin Pending(name)'
      BY <2>1, <2>2 DEF p, Pending
    <3> QED
      BY <1>5, <2>1, <3>1
  <2>3. CASE ~(name = "samplestatus" /\ d = e)
    <3>1. p # <<e, "samplestatus">>
      BY <1>1, <2>3 DEF p
    <3>2. d \in Pending(name)' <=> d \in Pending(name)
      BY <1>1, <2>1, <2>3 DEF Pending
    <3> QED
      BY <1>1, <1>4, <2>1, <3>1, <3>2
  <2> QED
    BY <2>2, <2>3
<1>8. ASSUME NEW l \in Devices, NEW e \in Devices, LinkComes(l, e) PROVE Replies(d, name)'
  <2>1. /\ <<l, e>> \in Paths /\ \A q \in Paths : q # <<l, e>> => Stays(q)
        /\ UNCHANGED <<switching, sampling>>
    BY <1>0, <1>8, LinkComesEffect
  <2>2. e \notin NodeNames
    BY <2>1, LinkPath, LinkName
  <2>3. p # <<l, e>>
    BY <1>1, <2>2 DEF NodeNames, p
  <2> QED
    BY <1>1, <1>4, <2>1, <2>3 DEF Pending
<1> QED
  BY <1>6, <1>7, <1>8 DEF OwnStep

LEMMA RepliesInit == Init => RepliesFollow
BY DEF Init, RepliesFollow, Quiet, Working

LEMMA RepliesNext ==
  Structure /\ Clocks /\ MonitorFollows /\ RepliesFollow /\ [Next]_vars => RepliesFollow'
<1> SUFFICES ASSUME Structure, Clocks, MonitorFollows, RepliesFollow, [Next]_vars, Quiet',
                    NEW d, NEW name, Replying(d, name)
             PROVE  Replies(d, name)'
  BY DEF RepliesFollow
<1>0. /\ TypeOK /\ Work /\ quiet' /\ pc' # "raised"
  BY DEF Structure, Quiet, Working
<1>1. Quiet => Replies(d, name)
  BY DEF RepliesFollow
<1>2. CASE BeginSetup
  BY <1>0, <1>2, RepliesBegin
<1>3. CASE NothingToDo
  <2>1. /\ pc = "configure" /\ GoOn /\ UNCHANGED <<monitor, transit, instruments>> /\ quiet' = quiet
        /\ \A e \in ToSet(targets) : Failed(e) = {}
    BY <1>3 DEF NothingToDo, GoOn
  <2>2. Replies(d, name)
    BY <1>0, <1>1, <2>1 DEF Quiet, Working
  <2> QED
    BY <2>1, <2>2, RepliesMove, RepliesWithout
<1>4. CASE CheckPasses
  <2>1. /\ pc = "wait" /\ GoOn /\ UNCHANGED <<monitor, transit, instruments>> /\ quiet' = quiet
        /\ awaited = {}
    BY <1>4 DEF CheckPasses, GoOn
  <2>2. Replies(d, name)
    BY <1>0, <1>1, <2>1 DEF Quiet, Working
  <2>3. config = ConfigOf(name) /\ d \in ToSet(targets) =>
           node[<<d, name>>] = "locked" /\ d \notin Pending(name)
    BY <2>1, <2>2 DEF Replies, Verified, Setting
  <2> QED
    BY <2>1, <2>2, <2>3, RepliesMove
<1>5. CASE Configure
  <2>1. pc = "configure" /\ quiet' = quiet
    BY <1>5 DEF Configure
  <2>2. Replies(d, name)
    BY <1>0, <1>1, <2>1 DEF Quiet, Working
  <2> QED
    BY <1>5, <2>2, RepliesConfigure
<1>6. ASSUME NEW b \in commands, SetNode(b) PROVE Replies(d, name)'
  <2>1. pc = "set" /\ quiet' = quiet
    BY <1>6 DEF SetNode
  <2>2. Replies(d, name)
    BY <1>0, <1>1, <2>1 DEF Quiet, Working
  <2> QED
    BY <1>6, <2>2, RepliesCommanded
<1>7. CASE BatchSet
  <2>1. /\ pc = "set" /\ pc' = "wait" /\ quiet' = quiet
        /\ UNCHANGED <<config, targets, commands, awaited, monitor, transit, instruments>>
    BY <1>7 DEF BatchSet
  <2>2. Replies(d, name)
    BY <1>0, <1>1, <2>1 DEF Quiet, Working
  <2> QED
    BY <2>1, <2>2 DEF Replies, Heard, Pending, Touched, Verified, Done, Setting, monitor, instruments
<1>8. CASE BatchSetRaises \/ WaitTimesOut \/ CheckRaises
  BY <1>0, <1>8 DEF BatchSetRaises, WaitTimesOut, CheckRaises, Raise
<1>9. CASE PollAndCheck
  <2>1. pc = "wait" /\ quiet' = quiet
    BY <1>9 DEF PollAndCheck, Pass
  <2>2. Replies(d, name)
    BY <1>0, <1>1, <2>1 DEF Quiet, Working
  <2> QED
    BY <1>9, <2>2, RepliesPolled
<1>10. CASE OwnStep
  <2>1. UNCHANGED <<pc, quiet>>
    BY <1>0, <1>10, OwnStepEffect DEF controller
  <2>2. Replies(d, name) /\ Working
    BY <1>1, <2>1 DEF Quiet, Working
  <2> QED
    BY <1>10, <2>2, RepliesByThemselves
<1>11. CASE UNCHANGED vars
  <2>1. UNCHANGED <<controller, monitor, transit, instruments>>
    BY <1>11 DEF vars
  <2>2. Replies(d, name)
    BY <1>1, <2>1 DEF Quiet, Working, controller
  <2> QED
    BY <2>1, <2>2 DEF Replies, Heard, Pending, Touched, Verified, Done, Setting, monitor, instruments, controller
<1> QED
  BY <1>2, <1>3, <1>4, <1>5, <1>6, <1>7, <1>8, <1>9, <1>10, <1>11
     DEF Next, ControllerStep, OwnStep

-----------------------------------------------------------------------------
(* When the instruments were settled at the beginning: a link.             *)

UpNode(l, d) == Node(l, d, "up", "WaitCondition")

\* A link that comes up does so after its leader has got its clock, and stays
\* up.  Before that nothing can come up: the device is not to be linked, and
\* one that is to lock waits for its leader.
Linked(l, d) ==
  /\ "up" \in Heard(<<l, d>>) => Touched(l, 1) /\ node[<<l, d>>] = "up"
  /\ ~Touched(l, 1) => /\ ~CanLink(l, d)
                       /\ d \in switching /\ OnZSync(node, d) => ~Locked(node, l)
  /\ Verified(l, 4, UpNode(l, d)) => node[<<l, d>>] = "up"

Links == Quiet => \A l \in PQSCs : \A d \in ToSet(Children[l]) : Linked(l, d)

LEMMA UpNodeFacts ==
  ASSUME NEW l \in PQSCs, NEW d \in ToSet(Children[l])
  PROVE  /\ UpNode(l, d) \in ToSet(Configs(l)[4])
         /\ UpNode(l, d) \in filter_conditions(Configs(l)[4])
         /\ UpNode(l, d) \in Wanted(l) /\ <<l, d>> \in Paths
         /\ UpNode(l, d).path = <<l, d>> /\ UpNode(l, d).value = "up"
         /\ UpNode(l, d).kind = "WaitCondition" /\ UpNode(l, d).path[2] = d
<1> DEFINE n == UpNode(l, d)
<1>1. n.path = <<l, d>> /\ n.value = "up" /\ n.kind = "WaitCondition" /\ n.path[2] = d
  BY DEF UpNode, Node
<1>2. PICK i \in DOMAIN Children[l] : Children[l][i] = d
  BY DEF ToSet
<1>3. Configs(l)[4] = LinkNodes(l)
  BY DEF Configs
<1>4. i \in DOMAIN LinkNodes(l) /\ LinkNodes(l)[i] = n
  BY <1>2 DEF LinkNodes, UpNode
<1> HIDE DEF n
<1>5. n \in ToSet(Configs(l)[4])
  BY <1>3, <1>4 DEF ToSet
<1>6. n \in filter_conditions(Configs(l)[4])
  BY <1>1, <1>5 DEF filter_conditions
<1>7. n \in Wanted(l) /\ n.path \in Paths
  BY <1>5, LinkFacts, NodeTypes DEF NumConfigs
<1> QED
  BY <1>1, <1>5, <1>6, <1>7 DEF n

\* A leader is done with what its followers are set up for.
LEMMA LeaderDone ==
  ASSUME Structure, pc \in {"configure", "set", "wait"},
         NEW l \in PQSCs, NEW d \in ToSet(Children[l]), d \in ToSet(targets)
  PROVE  Done(l, config)
<1>1. PICK r \in 0 .. 2 : AtLevel(targets, r)
  BY DEF Structure, Levels
<1>2. Level(l) = 0 /\ Level(d) = 1
  BY LinkFacts DEF Level
<1>3. \A e \in ToSet(targets) : Level(e) = r
  BY <1>1 DEF AtLevel
<1> QED
  BY <1>2, <1>3 DEF Done

\* One that is asked for and not missed is up.
LEMMA LinkedWithout ==
  ASSUME Structure, Clocks, MonitorFollows, Polls, Working, awaited = {}, config = 4,
         NEW l \in PQSCs, NEW d \in ToSet(Children[l]), UpNode(l, d) \notin Failed(l)
  PROVE  node[<<l, d>>] = "up"
<1> DEFINE p == <<l, d>>
           n == UpNode(l, d)
<1>1. n \in filter_conditions(Configs(l)[config]) /\ n.path = p /\ n.value = "up"
  BY UpNodeFacts
<1>2. p \in Paths /\ p[2] = d /\ d \notin NodeNames /\ l \in Devices /\ d \in Devices
  BY UpNodeFacts, LinkName, LinkFacts
<1>3. node[p] \in {"up", "down"}
  BY <1>2 DEF Clocks
<1> HIDE DEF n, p
<1>4. last[p] = "up"
  BY <1>1 DEF Failed, IsExpected, None, n
<1>5. "down" \notin ToSet(transit[p])
  BY <1>2 DEF Polls, Unread
<1>6. transit[p] \in Seq(Values) /\ TypeOK
  BY <1>2 DEF Structure, TypeOK
<1>7. node[p] = LastOf(p, transit[p])
  BY <1>2 DEF MonitorFollows
<1>8. node[p] = "up"
  BY <1>2, <1>3, <1>4, <1>5, <1>6, <1>7, LastIn
<1> QED
  BY <1>8 DEF p

LEMMA LinksBegin ==
  ASSUME Structure, Clocks, BeginSetup, quiet', NEW l \in PQSCs, NEW d \in ToSet(Children[l])
  PROVE  Linked(l, d)'
<1>0. TypeOK
  BY DEF Structure
<1>1. /\ pc' = "configure" /\ Settled /\ Flush /\ node' = node /\ switching' = switching
      /\ \A e \in Reached, c \in 1 .. NumConfigs : ~Done(e, c)'
  BY <1>0, BeginEffect DEF instruments
<1>2. /\ l \in Reached /\ l \in Devices /\ l \in Clocked /\ l \notin Followers
      /\ d \in Devices /\ LeaderOf(d) = l
  BY LinkFacts
<1>3. Heard(<<l, d>>)' = {}
  BY <1>0, <1>1, UpNodeFacts, FlushEffect
<1>4. ~CanLink(l, d)'
  BY <1>1, <1>2 DEF Settled, CanLink
<1>5. l \notin switching
  <2>1. ~OnZSync(node, l)
    BY <1>2, SourceCases DEF Clocks
  <2> QED
    BY <1>1, <2>1 DEF Settled, CanLock
<1>6. d \in switching /\ OnZSync(node, d) => ~Locked(node, l)
  BY <1>1, <1>2, <1>5 DEF Settled, CanLock
<1>7. ~Verified(l, 4, UpNode(l, d))'
  <2>1. ~Done(l, 4)'
    BY <1>1, <1>2 DEF NumConfigs
  <2> QED
    BY <1>1, <2>1 DEF Verified, Setting
<1> QED
  BY <1>1, <1>3, <1>4, <1>6, <1>7 DEF Linked

LEMMA LinksMove ==
  ASSUME Structure, pc \in {"configure", "wait"}, GoOn, UNCHANGED <<monitor, transit, instruments>>,
         NEW l \in PQSCs, NEW d \in ToSet(Children[l]), Linked(l, d),
         config = 4 /\ l \in ToSet(targets) => node[<<l, d>>] = "up"
  PROVE  Linked(l, d)'
<1>1. l \in Reached
  BY LinkFacts
<1>2. /\ pc' \in {"configure", "ready"}
      /\ Done(l, 4)' <=> Done(l, 4) \/ (4 = config /\ l \in ToSet(targets))
  BY <1>1, GoOnEffect DEF NumConfigs
<1>3. Touched(l, 1) => Touched(l, 1)'
  BY <1>1, <1>2, TouchedStays DEF Working, NumConfigs
<1>4. /\ Heard(<<l, d>>)' = Heard(<<l, d>>) /\ switching' = switching /\ node' = node
      /\ CanLink(l, d)' = CanLink(l, d)
  BY DEF Heard, monitor, instruments, CanLink
<1>5. Verified(l, 4, UpNode(l, d))' => Done(l, 4) \/ (4 = config /\ l \in ToSet(targets))
  BY <1>2 DEF Verified, Setting
<1>6. Done(l, 4) => node[<<l, d>>] = "up"
  BY DEF Linked, Verified
<1> QED
  BY <1>3, <1>4, <1>5, <1>6 DEF Linked

LEMMA LinksConfigure ==
  ASSUME Structure, Clocks, MonitorFollows, Polls, Configure,
         NEW l \in PQSCs, NEW d \in ToSet(Children[l]), Linked(l, d)
  PROVE  Linked(l, d)'
<1> DEFINE n == UpNode(l, d)
<1>1. l \in Reached /\ n.kind = "WaitCondition"
  BY LinkFacts, UpNodeFacts
<1>2. /\ pc = "configure" /\ pc' \in {"set", "wait"} /\ awaited = {}
      /\ UNCHANGED <<config, targets, monitor, transit, instruments>>
      /\ \A i \in DOMAIN targets : Failed(targets[i]) # {} =>
           \A m \in Failed(targets[i]) : m.kind = "WaitCondition" => m \in awaited'
  BY ConfigureEffect
<1> HIDE DEF n
<1>3. Touched(l, 1) => Touched(l, 1)'
  BY <1>1, <1>2, TouchedStays DEF Working, Setting, NumConfigs
<1>4. /\ Heard(<<l, d>>)' = Heard(<<l, d>>) /\ switching' = switching /\ node' = node
      /\ CanLink(l, d)' = CanLink(l, d)
  BY <1>2 DEF Heard, monitor, instruments, CanLink
<1>5. Done(l, 4)' = Done(l, 4)
  BY <1>2, DoneStays
<1>6. ASSUME Verified(l, 4, n)' PROVE node[<<l, d>>] = "up"
  <2>1. CASE Done(l, 4)
    BY <2>1 DEF Linked, Verified
  <2>2. CASE config = 4 /\ l \in ToSet(targets) /\ n \notin awaited'
    <3>1. PICK i \in DOMAIN targets : targets[i] = l
      BY <2>2 DEF ToSet
    <3>2. n \notin Failed(l)
      BY <1>1, <1>2, <2>2, <3>1
    <3>3. Working
      BY <1>2 DEF Working
    <3> QED
      BY <1>2, <2>2, <3>2, <3>3, LinkedWithout DEF n
  <2> QED
    BY <1>2, <1>5, <1>6, <2>1, <2>2 DEF Verified
<1> QED
  BY <1>3, <1>4, <1>6 DEF Linked, n

LEMMA LinksCommanded ==
  ASSUME Structure, Clocks, NEW b \in commands, SetNode(b), Working, RepliesFollow, quiet,
         NEW l \in PQSCs, NEW d \in ToSet(Children[l]), Linked(l, d)
  PROVE  Linked(l, d)'
<1> DEFINE n == UpNode(l, d)
           p == <<l, d>>
           m == CommandAt(b)
<1>0. /\ TypeOK /\ Work /\ targets \in Seq(Devices) /\ config \in 1 .. NumConfigs
  BY DEF Structure, TypeOK
<1>1. /\ l \in Reached /\ l \in Devices /\ d \in Devices /\ d \in Clocked /\ l \in Clocked /\ l # d
      /\ l \notin Followers /\ p \in Paths /\ p[1] = l /\ p[2] = d /\ d \notin NodeNames
  BY LinkFacts, UpNodeFacts, LinkName
<1>2. m = CommandAt(b) /\ Obey(m)
  BY DEF SetNode
<1> HIDE DEF n, m, p
<1>3. /\ pc = "set" /\ UNCHANGED <<pc, config, targets, awaited, monitor>> /\ commands' = commands \ {b}
      /\ m.path[1] = targets[b[1]] /\ m.path[2] \in CommandNames /\ m.path[1] \in Devices
      /\ m.path = <<m.path[1], m.path[2]>>
      /\ b[1] \in DOMAIN targets
      /\ IsCommand(m.path[1], config, b[2], m)
      /\ \A q \in Paths :
              /\ q[2] \in CommandNames /\ q # m.path => Stays(q)
              /\ q[2] \notin NodeNames => Stays(q) \/ (Changes(q, "down") /\ q[1] = m.path[1])
  BY <1>2, CommandEffect
<1>4. /\ \A q \in Paths :
              \/ q = m.path
              \/ Stays(q) /\ (q[2] = "status" => q[1] \notin Loses(m) \/ node[q] # "locked")
                          /\ (q[2] \notin NodeNames => q[2] \notin Loses(m) \/ node[q] # "up")
                          /\ (q[2] = "samplestatus" => q[1] # m.path[1] \/ m.path[2] # "samplefreq")
              \/ q[2] = "status" /\ q[1] \in Loses(m) /\ Changes(q, "locking")
              \/ /\ q[2] \notin NodeNames /\ q[2] \in Loses(m) /\ q[1] = LeaderOf(q[2])
                 /\ node[q] = "up" /\ Changes(q, "down")
              \/ /\ q = <<m.path[1], "samplestatus">> /\ m.path[2] = "samplefreq"
                 /\ Changes(q, "locking")
      /\ switching' = switching \cup (IF m.path[2] = "source" THEN {m.path[1]} ELSE {}) \cup Loses(m)
  BY <1>2, ObeyEffect
<1>5. queue' = queue
  BY <1>3 DEF monitor
<1>6. Touched(l, 1) => Touched(l, 1)'
  BY <1>1, <1>3, TouchedStays DEF Working, Setting, NumConfigs
<1>7. Done(l, 4)' = Done(l, 4)
  BY <1>3, DoneStays
<1>8. Verified(l, 4, n)' = Verified(l, 4, n)
  BY <1>3, <1>7 DEF Verified, Setting
<1>9. CASE m.path[1] = l /\ m.path[2] = "source"
  <2>1. config = 1 /\ b[2] = 2
    BY <1>1, <1>3, <1>9 DEF IsCommand, Node
  <2>2. ~Touched(l, 1)
    BY <1>3, <1>9, <2>1, NotTouchedYet
  <2>3. "up" \notin Heard(p)
    BY <2>2 DEF Linked, p
  <2>4. Stays(p) \/ Changes(p, "down")
    BY <1>1, <1>3
  <2>5. "up" \notin Heard(p)'
    <3>1. CASE Stays(p)
      BY <1>1, <1>5, <2>3, <3>1, HeardStays
    <3>2. CASE Changes(p, "down")
      BY <1>0, <1>1, <1>5, <2>3, <3>2, HeardChanges DEF Values
    <3> QED
      BY <2>4, <3>1, <3>2
  <2>6. Touched(l, 1)'
    <3>1. b = <<b[1], 2>>
      BY <1>0, <2>1, CommandFacts
    <3>2. <<b[1], 2>> \notin commands'
      BY <1>3, <3>1
    <3> QED
      BY <1>3, <1>9, <2>1, <3>2 DEF Touched, Setting
  <2>7. ~Verified(l, 4, n)
    BY <1>3, <2>1 DEF Verified, Done
  <2> QED
    BY <1>8, <2>5, <2>6, <2>7 DEF Linked, n, p
<1>10. CASE ~(m.path[1] = l /\ m.path[2] = "source")
  <2>1. l \notin Loses(m) /\ (d \in Loses(m) => m.path[1] = d /\ m.path[2] = "source")
    <3>1. ASSUME NEW e, e \in Loses(m) PROVE m.path[2] = "source" /\ (e = m.path[1] \/ e \in ToSet(Children[m.path[1]]))
      BY <3>1 DEF Loses, Losing
    <3>2. l \in ToSet(Children[m.path[1]]) => l \in Followers
      BY <1>1, <1>3 DEF Followers
    <3>3. d \in ToSet(Children[m.path[1]]) => m.path[1] = l
      BY <1>1, <1>3, TopologyAssumption
    <3> QED
      BY <1>1, <1>10, <3>1, <3>2, <3>3
  <2>2. Stays(p)
    <3>1. p # m.path
      BY <1>1, <1>3 DEF CommandNames, NodeNames
    <3>2. CASE d \in Loses(m)
      <4>1. m.path[1] # l
        BY <1>1, <2>1, <3>2
      <4> QED
        BY <1>1, <1>3, <4>1
    <3>3. CASE d \notin Loses(m)
      BY <1>1, <1>4, <3>1, <3>3 DEF NodeNames
    <3> QED
      BY <3>2, <3>3
  <2>3. Heard(p)' = Heard(p) /\ node'[p] = node[p]
    BY <1>1, <1>5, <2>2, HeardStays DEF Stays
  <2>4. ASSUME ~Touched(l, 1)
        PROVE  /\ ~CanLink(l, d)'
               /\ d \in switching' /\ OnZSync(node', d) => ~Locked(node', l)
    <3>1. ~(m.path[1] = d /\ m.path[2] = "source")
      <4> SUFFICES ASSUME m.path[1] = d, m.path[2] = "source" PROVE FALSE
        OBVIOUS
      <4>1. config = 1
        BY <1>1, <1>3 DEF IsCommand, Node
      <4>2. d \in ToSet(targets)
        BY <1>3 DEF ToSet
      <4>3. Done(l, 1)
        BY <1>3, <4>1, <4>2, LeaderDone
      <4> QED
        BY <2>4, <4>3 DEF Touched
    <3> DEFINE s == <<d, "source">>
               t == <<d, "status">>
               u == <<l, "status">>
    <3>2. s \in Paths /\ t \in Paths /\ u \in Paths
      BY <1>1, PathsOf
    <3>3. s[1] = d /\ s[2] = "source" /\ t[1] = d /\ t[2] = "status" /\ u[1] = l /\ u[2] = "status"
      OBVIOUS
    <3> HIDE DEF s, t, u
    <3>4. s # m.path /\ t # m.path /\ u # m.path
      BY <1>3, <3>1, <3>3 DEF CommandNames
    <3>5. Stays(s)
      BY <1>3, <3>2, <3>3, <3>4 DEF CommandNames
    <3>6. t # <<m.path[1], "samplestatus">> /\ u # <<m.path[1], "samplestatus">>
      BY <3>3
    <3>7. Stays(t)
      BY <1>4, <2>1, <3>1, <3>2, <3>3, <3>4, <3>6 DEF NodeNames
    <3>8. Stays(u)
      BY <1>4, <2>1, <3>2, <3>3, <3>4, <3>6 DEF NodeNames
    <3>9. d \in switching' => d \in switching
      BY <1>4, <2>1, <3>1
    <3>10. OnZSync(node', d) = OnZSync(node, d) /\ Locked(node', d) = Locked(node, d)
      BY <3>5, <3>7 DEF OnZSync, Locked, Stays, s, t
    <3>11. Locked(node', l) = Locked(node, l)
      BY <3>8 DEF Locked, Stays, u
    <3>12. ~CanLink(l, d) /\ (d \in switching /\ OnZSync(node, d) => ~Locked(node, l))
      BY <2>4 DEF Linked
    <3> QED
      BY <2>3, <3>9, <3>10, <3>11, <3>12 DEF CanLink, p
  <2> QED
    BY <1>6, <1>8, <2>3, <2>4 DEF Linked, n, p
<1> QED
  BY <1>9, <1>10

LEMMA LinksPolled ==
  ASSUME Structure, PollAndCheck, NEW l \in PQSCs, NEW d \in ToSet(Children[l]), Linked(l, d)
  PROVE  Linked(l, d)'
<1> DEFINE n == UpNode(l, d)
           p == <<l, d>>
<1>1. l \in Reached /\ p \in Paths /\ n.path = p /\ n.value = "up"
  BY LinkFacts, UpNodeFacts
<1> HIDE DEF n, p
<1>2. /\ Pass /\ pc = "wait" /\ awaited' = StillAwaited
      /\ UNCHANGED <<pc, config, targets, commands>> /\ UNCHANGED instruments
  BY DEF PollAndCheck, Pass
<1>3. /\ Heard(p)' \subseteq Heard(p)
      /\ n \in awaited => (n \in StillAwaited <=> n.value \notin Heard(n.path))
  BY <1>1, <1>2, PassEffect
<1>4. Touched(l, 1) => Touched(l, 1)'
  BY <1>1, <1>2, TouchedStays DEF Working, Setting, NumConfigs
<1>5. Done(l, 4)' = Done(l, 4)
  BY <1>2, DoneStays
<1>6. switching' = switching /\ node' = node /\ CanLink(l, d)' = CanLink(l, d)
  BY <1>2 DEF instruments, CanLink
<1>7. Verified(l, 4, n)' => Verified(l, 4, n) \/ "up" \in Heard(p)
  BY <1>1, <1>2, <1>3, <1>5 DEF Verified, Setting
<1> QED
  BY <1>3, <1>4, <1>6, <1>7 DEF Linked, n, p

LEMMA LinksByThemselves ==
  ASSUME Structure, Clocks, OwnStep, Working, RepliesFollow, quiet,
         NEW l \in PQSCs, NEW d \in ToSet(Children[l]), Linked(l, d)
  PROVE  Linked(l, d)'
<1> DEFINE n == UpNode(l, d)
           p == <<l, d>>
           s == <<d, "source">>
           t == <<d, "status">>
           u == <<l, "status">>
<1>0. TypeOK
  BY DEF Structure
<1>1. /\ l \in Reached /\ l \in Devices /\ d \in Devices /\ d \in Clocked /\ l \in Clocked /\ l # d
      /\ l \notin Followers /\ LeaderOf(d) = l
      /\ p \in Paths /\ p[1] = l /\ p[2] = d /\ d \notin NodeNames
  BY LinkFacts, UpNodeFacts, LinkName
<1>2. /\ s \in Paths /\ t \in Paths /\ u \in Paths
      /\ s[1] = d /\ s[2] = "source" /\ t[1] = d /\ t[2] = "status" /\ u[1] = l /\ u[2] = "status"
  BY <1>1, PathsOf
<1> HIDE DEF n, p, s, t, u
<1>3. UNCHANGED <<pc, config, targets, commands, awaited, queue>>
  BY <1>0, OwnStepEffect DEF controller, monitor
<1>4. Touched(l, 1)' = Touched(l, 1) /\ Verified(l, 4, n)' = Verified(l, 4, n)
  BY <1>3 DEF Done, Touched, Verified, Setting
<1>5. Replies(l, "status")
  BY <1>1 DEF RepliesFollow, Quiet, Replying
<1>6. ASSUME Stays(p),
             ~Touched(l, 1) => Stays(s) /\ Stays(t) /\ Stays(u) /\ switching' \subseteq switching
      PROVE  Linked(l, d)'
  <2>1. Heard(p)' = Heard(p) /\ node'[p] = node[p]
    BY <1>1, <1>3, <1>6, HeardStays DEF Stays
  <2>2. ASSUME ~Touched(l, 1)
        PROVE  /\ ~CanLink(l, d)'
               /\ d \in switching' /\ OnZSync(node', d) => ~Locked(node', l)
    <3>1. OnZSync(node', d) = OnZSync(node, d) /\ Locked(node', d) = Locked(node, d)
      BY <1>6, <2>2 DEF OnZSync, Locked, Stays, s, t
    <3>2. Locked(node', l) = Locked(node, l)
      BY <1>6, <2>2 DEF Locked, Stays, u
    <3>3. ~CanLink(l, d) /\ (d \in switching /\ OnZSync(node, d) => ~Locked(node, l))
      BY <2>2 DEF Linked
    <3> QED
      BY <1>6, <2>1, <2>2, <3>1, <3>2, <3>3 DEF CanLink, p
  <2> QED
    BY <1>4, <2>1, <2>2 DEF Linked, n, p
<1>7. ASSUME NEW e \in Devices, ClockLocks(e) PROVE Linked(l, d)'
  <2>1. /\ e \in switching /\ CanLock(e)
        /\ \A q \in Paths : q \notin {<<e, "status">>, <<e, "actual">>, <<e, "freq">>} => Stays(q)
        /\ switching' = switching \ {e}
    BY <1>0, <1>7, ClockLocksEffect
  <2>2. Stays(p)
    <3>1. p \notin {<<e, "status">>, <<e, "actual">>, <<e, "freq">>}
      BY <1>1 DEF NodeNames
    <3> QED
      BY <1>1, <2>1, <3>1
  <2>3. ASSUME ~Touched(l, 1), ~(e = d /\ ~OnZSync(node, d)) PROVE Stays(s) /\ Stays(t) /\ Stays(u)
    <3>1. e # l
      BY <1>5, <2>1, <2>3 DEF Replies, Pending, ConfigOf
    <3>2. e # d
      <4> SUFFICES ASSUME e = d PROVE FALSE
        OBVIOUS
      <4>1. OnZSync(node, d) /\ Locked(node, l)
        BY <1>1, <2>1, <2>3 DEF CanLock
      <4> QED
        BY <2>1, <2>3, <4>1 DEF Linked
    <3>3. /\ s \notin {<<e, "status">>, <<e, "actual">>, <<e, "freq">>}
          /\ t \notin {<<e, "status">>, <<e, "actual">>, <<e, "freq">>}
          /\ u \notin {<<e, "status">>, <<e, "actual">>, <<e, "freq">>}
      BY <1>2, <3>1, <3>2
    <3> QED
      BY <1>2, <2>1, <3>3
  <2>4. CASE ~(~Touched(l, 1) /\ e = d /\ ~OnZSync(node, d))
    BY <1>6, <2>1, <2>2, <2>3, <2>4
  <2>5. CASE ~Touched(l, 1) /\ e = d /\ ~OnZSync(node, d)
    <3>1. Stays(s)
      BY <1>2, <2>1
    <3>2. ~OnZSync(node', d)
      BY <2>5, <3>1 DEF OnZSync, Stays, s
    <3>3. Heard(p)' = Heard(p) /\ node'[p] = node[p]
      BY <1>1, <1>3, <2>2, HeardStays DEF Stays
    <3> QED
      BY <1>4, <2>5, <3>2, <3>3 DEF Linked, CanLink, n, p
  <2> QED
    BY <2>4, <2>5
<1>8. ASSUME NEW e \in Devices, SampleClockLocks(e) PROVE Linked(l, d)'
  <2>1. /\ \A q \in Paths : q # <<e, "samplestatus">> => Stays(q)
        /\ switching' = switching
    BY <1>0, <1>8, SampleClockLocksEffect
  <2>2. p # <<e, "samplestatus">> /\ s # <<e, "samplestatus">> /\ t # <<e, "samplestatus">> /\ u # <<e, "samplestatus">>
    BY <1>1, <1>2 DEF NodeNames
  <2> QED
    BY <1>1, <1>2, <1>6, <2>1, <2>2
<1>9. ASSUME NEW k \in Devices, NEW e \in Devices, LinkComes(k, e) PROVE Linked(l, d)'
  <2>1. /\ CanLink(k, e) /\ <<k, e>> \in Paths /\ Changes(<<k, e>>, "up")
        /\ \A q \in Paths : q # <<k, e>> => Stays(q)
        /\ switching' = switching
    BY <1>0, <1>9, LinkComesEffect
  <2>2. e \notin NodeNames
    BY <2>1, LinkPath, LinkName
  <2>3. s # <<k, e>> /\ t # <<k, e>> /\ u # <<k, e>>
    BY <1>2, <2>2 DEF NodeNames
  <2>4. CASE p # <<k, e>>
    BY <1>1, <1>2, <1>6, <2>1, <2>3, <2>4
  <2>5. CASE p = <<k, e>>
    <3>1. k = l /\ e = d
      BY <2>5 DEF p
    <3>2. Touched(l, 1)
      BY <2>1, <3>1 DEF Linked
    <3>3. node'[p] = "up"
      BY <2>1, <2>5 DEF Changes
    <3> QED
      BY <1>4, <3>2, <3>3 DEF Linked, p, n
  <2> QED
    BY <2>4, <2>5
<1> QED
  BY <1>7, <1>8, <1>9 DEF OwnStep

LEMMA LinksInit == Init => Links
BY DEF Init, Links, Quiet, Working

LEMMA LinksNext ==
  /\ Structure /\ Clocks /\ MonitorFollows /\ Polls /\ RepliesFollow /\ Links
  /\ [Next]_vars
  => Links'
<1> SUFFICES ASSUME Structure, Clocks, MonitorFollows, Polls, RepliesFollow, Links, [Next]_vars,
                    Quiet', NEW l \in PQSCs, NEW d \in ToSet(Children[l])
             PROVE  Linked(l, d)'
  BY DEF Links
<1>0. /\ TypeOK /\ Work /\ quiet' /\ pc' # "raised"
  BY DEF Structure, Quiet, Working
<1>1. Quiet => Linked(l, d)
  BY DEF Links
<1>2. CASE BeginSetup
  BY <1>0, <1>2, LinksBegin
<1>3. CASE NothingToDo
  <2>1. /\ pc = "configure" /\ GoOn /\ UNCHANGED <<monitor, transit, instruments>> /\ quiet' = quiet
        /\ \A e \in ToSet(targets) : Failed(e) = {}
    BY <1>3 DEF NothingToDo, GoOn
  <2>2. Linked(l, d) /\ Working /\ awaited = {}
    BY <1>0, <1>1, <2>1 DEF Quiet, Working, Work, Setting
  <2> QED
    BY <2>1, <2>2, LinksMove, LinkedWithout
<1>4. CASE CheckPasses
  <2>1. /\ pc = "wait" /\ GoOn /\ UNCHANGED <<monitor, transit, instruments>> /\ quiet' = quiet
        /\ awaited = {}
    BY <1>4 DEF CheckPasses, GoOn
  <2>2. Linked(l, d)
    BY <1>0, <1>1, <2>1 DEF Quiet, Working
  <2>3. config = 4 /\ l \in ToSet(targets) => node[<<l, d>>] = "up"
    BY <2>1, <2>2 DEF Linked, Verified, Setting
  <2> QED
    BY <2>1, <2>2, <2>3, LinksMove
<1>5. CASE Configure
  <2>1. pc = "configure" /\ quiet' = quiet
    BY <1>5 DEF Configure
  <2>2. Linked(l, d)
    BY <1>0, <1>1, <2>1 DEF Quiet, Working
  <2> QED
    BY <1>5, <2>2, LinksConfigure
<1>6. ASSUME NEW b \in commands, SetNode(b) PROVE Linked(l, d)'
  <2>1. pc = "set" /\ quiet' = quiet
    BY <1>6 DEF SetNode
  <2>2. Linked(l, d) /\ Working /\ quiet
    BY <1>0, <1>1, <2>1 DEF Quiet, Working
  <2> QED
    BY <1>6, <2>2, LinksCommanded
<1>7. CASE BatchSet
  <2>1. /\ pc = "set" /\ pc' = "wait" /\ quiet' = quiet
        /\ UNCHANGED <<config, targets, commands, awaited, monitor, transit, instruments>>
    BY <1>7 DEF BatchSet
  <2>2. Linked(l, d)
    BY <1>0, <1>1, <2>1 DEF Quiet, Working
  <2> QED
    BY <2>1, <2>2 DEF Linked, Heard, CanLink, Touched, Verified, Done, Setting, monitor, instruments
<1>8. CASE BatchSetRaises \/ WaitTimesOut \/ CheckRaises
  BY <1>0, <1>8 DEF BatchSetRaises, WaitTimesOut, CheckRaises, Raise
<1>9. CASE PollAndCheck
  <2>1. pc = "wait" /\ quiet' = quiet
    BY <1>9 DEF PollAndCheck, Pass
  <2>2. Linked(l, d)
    BY <1>0, <1>1, <2>1 DEF Quiet, Working
  <2> QED
    BY <1>9, <2>2, LinksPolled
<1>10. CASE OwnStep
  <2>1. UNCHANGED <<pc, quiet>>
    BY <1>0, <1>10, OwnStepEffect DEF controller
  <2>2. Linked(l, d) /\ Working /\ quiet
    BY <1>0, <1>1, <2>1 DEF Quiet, Working
  <2> QED
    BY <1>10, <2>2, LinksByThemselves
<1>11. CASE UNCHANGED vars
  <2>1. UNCHANGED <<controller, monitor, transit, instruments>>
    BY <1>11 DEF vars
  <2>2. Linked(l, d)
    BY <1>1, <2>1 DEF Quiet, Working, controller
  <2> QED
    BY <2>1, <2>2 DEF Linked, Heard, CanLink, Touched, Verified, Done, Setting, monitor, instruments, controller
<1> QED
  BY <1>2, <1>3, <1>4, <1>5, <1>6, <1>7, <1>8, <1>9, <1>10, <1>11
     DEF Next, ControllerStep, OwnStep

-----------------------------------------------------------------------------
(* The inductive invariant, and what it says of a setup.                   *)

Following == /\ Structure /\ Clocks /\ MonitorFollows /\ Polls /\ Executed /\ Answered
             /\ RepliesFollow /\ Links

LEMMA FollowingHolds == Spec => []Following
<1>1. Init => Following
  BY StructureInit, ClocksInit, MonitorFollowsInit, PollsInit, ExecutedInit, AnsweredInit,
     RepliesInit, LinksInit DEF Following
<1>2. Following /\ [Next]_vars => Following'
  <2> SUFFICES ASSUME Following, [Next]_vars PROVE Following'
    OBVIOUS
  <2>1. Structure /\ Clocks /\ MonitorFollows /\ Polls /\ Executed /\ Answered /\ RepliesFollow /\ Links
    BY DEF Following
  <2>2. Structure' /\ Clocks' /\ MonitorFollows' /\ Polls'
    BY <2>1, StructureNext, ClocksNext, MonitorFollowsNext, PollsNext
  <2>3. Executed' /\ Answered'
    BY <2>1, ExecutedNext, AnsweredNext
  <2>4. RepliesFollow' /\ Links'
    BY <2>1, RepliesNext, LinksNext
  <2> QED
    BY <2>2, <2>3, <2>4 DEF Following
<1> QED
  BY <1>1, <1>2, PTL DEF Spec

\* The clock of a device without a leader, where it has been verified.
LEMMA RootClock ==
  ASSUME Following, Quiet, NEW d \in (Reached \cap Clocked) \ Followers, Done(d, 1),
         NEW n \in ToSet(Configs(d)[1]), n.kind \in {"Command", "Response"}
  PROVE  node[n.path] = n.value
<1>1. /\ Structure /\ Clocks /\ Executed /\ RepliesFollow /\ Working
  BY DEF Following, Quiet
<1>2. d \in Devices /\ d \in Clocked /\ d \in Reached
  BY DEF Reached
<1>3. \A k \in ToSet(Configs(d)[1]) : k.kind = "Command" => node[k.path] = k.value
  BY <1>1, <1>2 DEF Executed, NumConfigs
<1>4. node[<<d, "status">>] = "locked"
  <2>1. Replies(d, "status")
    BY <1>1 DEF RepliesFollow, Replying
  <2> QED
    BY <2>1 DEF Replies, Verified, ConfigOf
<1>5. node[<<d, "source">>] = Source(d)
  <2> DEFINE m == Node(d, "source", Source(d), "Command")
  <2>1. m \in ToSet(Configs(d)[1]) /\ m.kind = "Command" /\ m.path = <<d, "source">> /\ m.value = Source(d)
    BY <1>2, NodesOf DEF Node
  <2> HIDE DEF m
  <2> QED
    BY <1>3, <2>1
<1>6. <<d, "actual">> \in Paths => node[<<d, "actual">>] = Source(d)
  BY <1>1, <1>2, <1>4, <1>5, ClocksParts
<1>7. n.path \in Paths
  BY <1>2, NodeTypes DEF NumConfigs
<1> QED
  BY <1>2, <1>3, <1>4, <1>6, <1>7, AwaitedCases DEF NumConfigs

\* LeadersFirst: a follower is told to switch its clock to its leader's only
\* when the leader has the clock it is to have.
THEOREM FollowersAfterLeaders == Spec => []LeadersFirst
<1>1. Following => LeadersFirst
  <2> SUFFICES ASSUME Following, pc = "set", quiet, NEW c \in commands,
                      NEW d, d = targets[c[1]], CommandAt(c).path[2] = "source", d \in Followers,
                      NEW n \in ToSet(ClockNodes(LeaderOf(d))), n.kind # "Condition"
               PROVE  InEffect(n)
    BY DEF LeadersFirst
  <2>0. /\ Structure /\ TypeOK /\ Work /\ targets \in Seq(Devices) /\ config \in 1 .. NumConfigs
    BY DEF Following, Structure, TypeOK
  <2> DEFINE l == LeaderOf(d)
             m == CommandAt(c)
  <2>1. IsCommand(d, config, c[2], m) /\ d \in ToSet(targets) /\ m.path[2] = "source"
    BY <2>0, CommandFacts
  <2>2. config = 1 /\ d \in Clocked
    <3> HIDE DEF m
    <3> QED
      BY <2>1 DEF IsCommand, Node
  <2>3. l \in PQSCs /\ d \in ToSet(Children[l])
    BY <2>2, LeaderFacts
  <2> HIDE DEF l, m
  <2>4. l \in Reached /\ l \in Clocked /\ l \notin Followers /\ l \in Devices
    BY <2>3, LinkFacts
  <2>5. Done(l, 1)
    BY <2>0, <2>1, <2>2, <2>3, LeaderDone
  <2>6. Configs(l)[1] = ClockNodes(l)
    BY DEF Configs
  <2>7. n \in ToSet(Configs(l)[1])
    BY <2>6 DEF l
  <2>8. n.kind \in {"Command", "Response"}
    <3>1. PICK k \in DOMAIN Configs(l)[1] : n = Configs(l)[1][k]
      BY <2>7 DEF ToSet
    <3>2. IsNode(l, 1, k, n)
      BY <2>4, <3>1, NodeCases DEF NumConfigs
    <3> QED
      BY <3>2 DEF IsNode, Node
  <2>9. Quiet
    BY DEF Quiet, Working
  <2> QED
    BY <2>4, <2>5, <2>7, <2>8, <2>9, RootClock DEF InEffect, IsExpected
<1> QED
  BY <1>1, FollowingHolds, PTL

\* SetupComplete: when a setup that found the instruments settled has
\* succeeded, everything it commanded is so, every clock has been answered
\* for, and all links are up.
THEOREM SetupAchieves == Spec => []SetupComplete
<1>1. Following => SetupComplete
  <2> SUFFICES ASSUME Following, pc = "ready", quiet, NEW d \in Reached, NEW n \in Wanted(d),
                      n.kind \in {"Command", "Response", "WaitCondition"}
               PROVE  node[n.path] = n.value
    BY DEF SetupComplete, InEffect, IsExpected
  <2>0. /\ Structure /\ TypeOK /\ Clocks /\ Executed /\ RepliesFollow /\ Links /\ Quiet /\ Working
        /\ d \in Devices
    BY DEF Following, Structure, Quiet, Working, Reached
  <2>1. PICK c \in 1 .. NumConfigs : n \in ToSet(Configs(d)[c])
    BY DEF Wanted
  <2>2. \A e \in Devices, k \in 1 .. NumConfigs : Done(e, k)
    BY DEF Done
  <2>3. CASE n.kind = "Command"
    BY <2>0, <2>1, <2>2, <2>3 DEF Executed
  <2>4. CASE n.kind = "Response" /\ c = 1 /\ d \in Clocked
    <3>1. CASE d \notin Followers
      BY <2>0, <2>1, <2>2, <2>4, <3>1, RootClock DEF NumConfigs
    <3>2. CASE d \in Followers
      <4> DEFINE l == LeaderOf(d)
      <4>1. l \in PQSCs /\ d \in ToSet(Children[l])
        BY <2>4, <3>2, LeaderFacts
      <4> HIDE DEF l
      <4>2. l \in Devices /\ <<l, d>> \in Paths
        BY <4>1, LinkFacts, UpNodeFacts
      <4>3. node[<<l, d>>] = "up"
        <5>1. Linked(l, d)
          BY <2>0, <4>1 DEF Links
        <5> QED
          BY <2>2, <4>2, <5>1 DEF Linked, Verified, NumConfigs
      <4>4. node[<<d, "source">>] = "zsync" /\ node[<<d, "status">>] = "locked"
        BY <2>0, <4>2, <4>3, ClocksParts
      <4>5. Source(d) = "zsync"
        BY <2>0, <2>4, <4>4, ClocksParts
      <4>6. <<d, "actual">> \in Paths => node[<<d, "actual">>] = Source(d)
        BY <2>0, <2>4, <4>4, <4>5, ClocksParts
      <4>7. n.path \in Paths
        BY <2>0, <2>1, NodeTypes
      <4> QED
        BY <2>0, <2>1, <2>4, <4>4, <4>6, <4>7, AwaitedCases
    <3> QED
      BY <3>1, <3>2
  <2>5. CASE n.path = <<d, "samplestatus">> /\ n.value = "locked" /\ d \in HDAWGs
    <3>1. Replies(d, "samplestatus")
      BY <2>0, <2>5 DEF RepliesFollow, Replying
    <3> QED
      BY <2>0, <2>2, <2>5, <3>1 DEF Replies, Verified, ConfigOf, NumConfigs
  <2>6. CASE /\ n.value = "up" /\ d \in PQSCs /\ n.path[2] \in ToSet(Children[d])
             /\ n.path = <<d, n.path[2]>>
    <3> DEFINE f == n.path[2]
    <3>1. f \in ToSet(Children[d]) /\ n.path = <<d, f>>
      BY <2>6
    <3> HIDE DEF f
    <3>2. Linked(d, f)
      BY <2>0, <2>6, <3>1 DEF Links
    <3>3. node[<<d, f>>] = "up"
      BY <2>0, <2>2, <3>2 DEF Linked, Verified, NumConfigs
    <3> QED
      BY <2>6, <3>1, <3>3
  <2> QED
    BY <2>0, <2>1, <2>3, <2>4, <2>5, <2>6, AwaitedCases
<1> QED
  BY <1>1, FollowingHolds, PTL

-----------------------------------------------------------------------------
(* Waits.                                                                  *)

\* An HDAWG that is asked for its own clock in spite of its PQSC never links,
\* and the wait for its link ends with the time-out (device_hdawg.py 135-138).
\* All other followers have their clock from the PQSC.
FollowersOnZSync == \A d \in Followers \cap Clocked : Source(d) = "zsync"

LEMMA FollowersWithoutOwnClock ==
  (\A d \in HDAWGs \cap Followers : ForceInternal[d] # "yes") => FollowersOnZSync
<1> SUFFICES ASSUME \A d \in HDAWGs \cap Followers : ForceInternal[d] # "yes",
                    NEW d \in Followers \cap Clocked
             PROVE  Source(d) = "zsync"
  BY DEF FollowersOnZSync
<1>1. /\ d \in Devices /\ LeaderOf(d) \in PQSCs /\ d \in ToSet(Children[LeaderOf(d)])
  BY LeaderFacts
<1>2. d \in HDAWGs \cup SHFs
  BY <1>1, LinkFacts
<1>3. CASE d \in HDAWGs
  <2>1. Source(d) = SourceOfHDAWG(d)
    BY <1>3, DriversAssumption DEF Source
  <2>2. ~IsLeader(d) /\ ~IsStandalone(d) /\ ForceInternal[d] # "yes"
    BY <1>3 DEF IsLeader, IsStandalone
  <2> QED
    BY <2>1, <2>2 DEF SourceOfHDAWG
<1>4. CASE d \in SHFs
  <2>1. Source(d) = SourceOfSHF(d)
    BY <1>4, DriversAssumption DEF Source
  <2>2. ~IsStandalone(d)
    BY DEF IsStandalone
  <2> QED
    BY <2>1, <2>2 DEF SourceOfSHF
<1> QED
  BY <1>2, <1>3, <1>4

\* A leader that has been set up leaves none of its followers without a clock
\* once the instruments are settled.
LEMMA SettledLocks ==
  ASSUME Following, Quiet, Settled, NEW l \in PQSCs, NEW d \in ToSet(Children[l]),
         Done(l, 1), d \in switching, OnZSync(node, d)
  PROVE  FALSE
<1>1. /\ RepliesFollow /\ LeaderOf(d) = l /\ l \in (Reached \cap Clocked) \ Followers
  BY LinkFacts DEF Following
<1>2. Replies(l, "status")
  BY <1>1 DEF RepliesFollow, Replying
<1>3. Locked(node, l) /\ l \notin switching
  BY <1>2 DEF Replies, Verified, ConfigOf, Pending, Locked
<1> QED
  BY <1>1, <1>3 DEF Settled, CanLock

\* AnswerIsOnItsWay: no wait is in vain.  Once the instruments are settled,
\* every value that is waited for has been reported and is still to be read.
THEOREM WaitsAreAnswered ==
  ASSUME \A d \in HDAWGs \cap Followers : ForceInternal[d] # "yes"
  PROVE  Spec => []AnswerIsOnItsWay
<1>0. FollowersOnZSync
  BY FollowersWithoutOwnClock
<1>1. Following => AnswerIsOnItsWay
  <2> SUFFICES ASSUME Following, pc = "wait", quiet, Settled, NEW n \in awaited
               PROVE  Hits(n, queue[n.path]) # {} \/ Hits(n, transit[n.path]) # {}
    BY DEF AnswerIsOnItsWay
  <2>1. /\ Structure /\ TypeOK /\ Work /\ targets \in Seq(Devices) /\ config \in 1 .. NumConfigs
        /\ Clocks /\ Executed /\ RepliesFollow /\ Quiet /\ Working
    BY DEF Following, Structure, TypeOK, Quiet, Working
  <2> DEFINE d == n.path[1]
  <2>2. /\ d \in Devices /\ d \in ToSet(targets) /\ n \in ToSet(Configs(d)[config])
        /\ n.kind \in {"Command", "Response", "WaitCondition"} /\ n.value # None
    BY <2>1, AwaitedFacts
  <2> HIDE DEF d
  <2>3. commands = {}
    BY <2>1 DEF Work
  <2>4. Comes(n)
    BY DEF Following, Answered
  <2>5. n.kind = "Command" => n.path[2] \in CommandNames
    BY <2>1, <2>2, CommandNodes
  <2>6. ASSUME n.path[2] \in {"status", "actual"}, d \in switching PROVE FALSE
    <3>1. config = 1 /\ d \in Clocked
      BY <2>1, <2>2, <2>5, <2>6, AwaitedCases DEF CommandNames, NodeNames
    <3>2. OnZSync(node, d)
      BY <2>6 DEF Settled, CanLock
    <3>3. d \in Followers
      BY <2>1, <2>2, <3>1, <3>2, SourceCases DEF Clocks
    <3> DEFINE l == LeaderOf(d)
    <3>4. l \in PQSCs /\ d \in ToSet(Children[l])
      BY <3>1, <3>3, LeaderFacts
    <3> HIDE DEF l
    <3>5. Done(l, 1)
      BY <2>1, <2>2, <3>1, <3>4, LeaderDone
    <3> QED
      BY <2>1, <2>6, <3>2, <3>4, <3>5, SettledLocks
  <2>7. ASSUME n.kind = "WaitCondition", node[n.path] # "up" PROVE FALSE
    <3> DEFINE f == n.path[2]
    <3>1. config = 4 /\ d \in PQSCs /\ f \in ToSet(Children[d]) /\ n.path = <<d, f>>
      BY <2>1, <2>2, <2>7, AwaitedCases
    <3> HIDE DEF f
    <3>2. /\ f \in Devices /\ f \in Clocked /\ f \in Followers /\ f \in Reached /\ <<d, f>> \in Paths
      BY <3>1, LinkFacts, UpNodeFacts
    <3>3. Source(f) = "zsync" /\ Done(f, 1) /\ Done(d, 1)
      BY <1>0, <3>1, <3>2 DEF FollowersOnZSync, Done
    <3>4. OnZSync(node, f)
      <4> DEFINE m == Node(f, "source", Source(f), "Command")
      <4>1. m \in ToSet(Configs(f)[1]) /\ m.kind = "Command" /\ m.path = <<f, "source">> /\ m.value = Source(f)
        BY <3>2, NodesOf DEF Node
      <4> HIDE DEF m
      <4>2. node[<<f, "source">>] = Source(f)
        BY <2>1, <3>2, <3>3, <4>1 DEF Executed, NumConfigs
      <4> QED
        BY <3>2, <3>3, <4>2 DEF OnZSync
    <3>5. ~Locked(node, f)
      BY <2>2, <2>7, <3>1, <3>2, <3>4 DEF Settled, CanLink
    <3>6. f \in switching
      BY <2>1, <3>2, <3>4, <3>5 DEF Clocks
    <3> QED
      BY <2>1, <3>1, <3>3, <3>4, <3>6, SettledLocks
  <2>8. n.value \in Heard(n.path)
    <3>1. sampling = {}
      BY DEF Settled
    <3> QED
      BY <2>3, <2>4, <2>6, <2>7, <3>1 DEF Comes, d
  <2> QED
    BY <2>2, <2>8, HitsOf DEF Heard
<1> QED
  BY <1>1, FollowingHolds, PTL
==============================================================================
