---------------------------- MODULE MCDaqSession ----------------------------
(* Two data servers: qa has an acquisition that clears its enable node, and *)
(* a plain node reachable through a pattern; sg has one plain node.         *)
EXTENDS DaqSession

MCDaqs == {"qa", "sg"}
MCNodes == {"qa_enable", "qa_len", "sg_on"}
MCPatterns == {"qa_*"}
MCCovers == [p \in MCNodes \cup MCPatterns |->
               IF p = "qa_*" THEN {"qa_enable", "qa_len"} ELSE {p}]
MCValues == {0, 1}
MCSelfClearing == {"qa_enable"}

set(n, v) == [path |-> n, value |-> v, cached |-> TRUE]
force(n, v) == [path |-> n, value |-> v, cached |-> FALSE]

\* Arming, a step without arming, a reset by pattern, a user's node.
MCBatches == {
  [qa |-> <<set("qa_len", 1), set("qa_enable", 0), set("qa_enable", 1)>>,
   sg |-> <<set("sg_on", 1)>>],
  [qa |-> <<set("qa_len", 0)>>, sg |-> <<set("sg_on", 0)>>],
  [qa |-> <<force("qa_*", 0), set("qa_len", 1)>>, sg |-> << >>],
  [qa |-> << >>, sg |-> <<force("sg_on", 1), set("sg_on", 0)>>] }

=============================================================================
