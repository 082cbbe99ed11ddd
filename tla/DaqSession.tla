----------------------------- MODULE DaqSession -----------------------------
(***************************************************************************)
(* The node sessions of the controller: controller/communication.py and    *)
(* controller/cache.py.  Every node the controller sets goes through the   *)
(* module function batch_set, which splits the list by data server, lets   *)
(* each DaqWrapper drop what its node cache says is already set, and hands *)
(* the rest to the data server in one API call.                            *)
(*                                                                         *)
(* The cache is written while the list is filtered, before the API call,   *)
(* and the instrument changes some nodes by itself (an enable node goes    *)
(* back to 0 when the acquisition is done).  The module is about what the  *)
(* cache may then still be trusted for.                                    *)
(***************************************************************************)
EXTENDS Naturals, Sequences

CONSTANTS
  Daqs,         \* the data servers
  Nodes,        \* node paths, over all data servers
  Patterns,     \* paths with a "*" in them
  Covers,       \* the nodes a path stands for
  Values,       \* node values; 0 is the value a node resets to
  NoEntry,      \* "this path is not in the cache"
  SelfClearing, \* nodes the instrument sets back to 0 by itself
  MaxAttempts,  \* attempts of _api_wrapper
  Batches       \* the lists of actions batch_set is called with, by server

Paths == Nodes \cup Patterns

\* CachingStrategy: only whole paths are ever set through the cache.
SetAction == [path : Nodes, value : Values, cached : BOOLEAN]
               \cup [path : Patterns, value : Values, cached : {FALSE}]

ASSUME ValuesAssumption == 0 \in Values /\ NoEntry \notin Values
ASSUME CoversAssumption == /\ Covers \in [Paths -> SUBSET Nodes]
                           /\ \A n \in Nodes : Covers[n] = {n}
ASSUME MaxAttemptsAssumption == MaxAttempts \in Nat \ {0}
ASSUME SelfClearingAssumption == SelfClearing \subseteq Nodes
ASSUME BatchesAssumption == Batches \subseteq [Daqs -> Seq(SetAction)]

VARIABLES
  cache,    \* Cache._cache of all sessions (a node belongs to one session)
  node,     \* the values in the instruments
  phase,    \* where the running batch_set is
  session,  \* the session being served
  todo,     \* split_actions: what is left to filter, by data server
  wire,     \* api_input of the API call being prepared or made
  sent,     \* how many elements of wire the data server has applied
  attempt,  \* the attempt of _api_wrapper
  outcome,  \* how the last batch_set ended
  asked, want, got,  \* history of the call: values asked for a node, the
                     \* last one, and the last one that reached the instrument
  own, lost          \* history: nodes the instrument changed, and nodes a
                     \* failed API call left unwritten, since the last write

vars == <<cache, node, phase, session, todo, wire, sent, attempt, outcome,
          asked, want, got, own, lost>>
call == <<phase, session, todo, wire, sent, attempt, outcome>>
history == <<asked, want, got>>

Init ==
  /\ cache = [n \in Nodes |-> NoEntry]
  /\ node \in [Nodes -> Values]
  /\ phase = "idle"
  /\ session \in Daqs
  /\ todo = [d \in Daqs |-> << >>]
  /\ wire = << >> /\ sent = 0 /\ attempt = 0
  /\ outcome = "none"
  /\ asked = [n \in Nodes |-> {}]
  /\ want = [n \in Nodes |-> NoEntry]
  /\ got = [n \in Nodes |-> NoEntry]
  /\ own = {} /\ lost = {}

-----------------------------------------------------------------------------
(* Cache.  force_set with a pattern updates the keys that are there.        *)

\* Seeded fault: a pattern does not reach the keys it stands for.
ForceSetLiteral(p, v) ==
  IF p \in Nodes THEN [cache EXCEPT ![p] = v] ELSE cache

ForceSet(p, v) ==
  IF p \in Nodes THEN [cache EXCEPT ![p] = v]
  ELSE [n \in Nodes |-> IF n \in Covers[p] /\ cache[n] # NoEntry
                        THEN v ELSE cache[n]]

Hit(a) == a.cached /\ cache[a.path] = a.value

-----------------------------------------------------------------------------
(* batch_set of the module: split the list and serve one session at a time. *)

BatchSet ==
  /\ phase = "idle"
  /\ \E b \in Batches : todo' = b
  /\ phase' = "split" /\ outcome' = "none"
  /\ asked' = [n \in Nodes |-> {}]
  /\ want' = [n \in Nodes |-> NoEntry]
  /\ got' = [n \in Nodes |-> NoEntry]
  /\ UNCHANGED <<cache, node, session, wire, sent, attempt, own, lost>>

NextSession(d) ==
  /\ phase = "split" /\ todo[d] # << >>
  /\ phase' = "filter" /\ session' = d
  /\ UNCHANGED <<cache, node, todo, wire, sent, attempt, outcome,
                 history, own, lost>>

Return ==
  /\ phase = "split"
  /\ \A d \in Daqs : todo[d] = << >>
  /\ phase' = "idle" /\ outcome' = "set"
  /\ UNCHANGED <<cache, node, session, todo, wire, sent, attempt,
                 history, own, lost>>

-----------------------------------------------------------------------------
(* DaqWrapper.batch_set: the loop over the actions, then the API call.      *)

Ask(a) ==
  /\ asked' = [n \in Nodes |-> IF n \in Covers[a.path]
                               THEN asked[n] \cup {a.value} ELSE asked[n]]
  /\ want' = [n \in Nodes |-> IF n \in Covers[a.path]
                              THEN a.value ELSE want[n]]

\* "continue": the cache says the node has this value.
Suppress ==
  /\ phase = "filter" /\ todo[session] # << >>
  /\ Hit(Head(todo[session]))
  /\ Ask(Head(todo[session]))
  /\ todo' = [todo EXCEPT ![session] = Tail(@)]
  /\ UNCHANGED <<cache, node, phase, session, wire, sent, attempt, outcome,
                 got, own, lost>>

\* Seeded fault: a path is put into the API input only once.
KeepFirst ==
  /\ phase = "filter" /\ todo[session] # << >>
  /\ ~Hit(Head(todo[session]))
  /\ LET a == Head(todo[session])
     IN  /\ cache' = ForceSet(a.path, a.value)
         /\ wire' = IF \E i \in 1 .. Len(wire) : wire[i].path = a.path
                    THEN wire ELSE Append(wire, a)
         /\ Ask(a)
  /\ todo' = [todo EXCEPT ![session] = Tail(@)]
  /\ UNCHANGED <<node, phase, session, sent, attempt, outcome, got, own, lost>>

\* Cache.set with another value, or force_set: remember it, and send it.
Keep ==
  /\ phase = "filter" /\ todo[session] # << >>
  /\ ~Hit(Head(todo[session]))
  /\ LET a == Head(todo[session])
     IN  /\ cache' = ForceSet(a.path, a.value)
         /\ wire' = Append(wire, a)
         /\ Ask(a)
  /\ todo' = [todo EXCEPT ![session] = Tail(@)]
  /\ UNCHANGED <<node, phase, session, sent, attempt, outcome, got, own, lost>>

CallApi ==
  /\ phase = "filter" /\ todo[session] = << >>
  /\ phase' = "send" /\ attempt' = 1
  /\ UNCHANGED <<cache, node, session, todo, wire, sent, outcome,
                 history, own, lost>>

-----------------------------------------------------------------------------
(* The API call, _api_wrapper("set", api_input).  The data server applies  *)
(* the elements in order; the call may fail after any of them.             *)

ServerApplies ==
  /\ phase = "send" /\ sent < Len(wire)
  /\ LET a == wire[sent + 1]
         written(f) == [n \in Nodes |-> IF n \in Covers[a.path]
                                        THEN a.value ELSE f[n]]
     IN  /\ node' = written(node)
         /\ got' = written(got)
         /\ own' = own \ Covers[a.path]
         /\ lost' = lost \ Covers[a.path]
  /\ sent' = sent + 1
  /\ UNCHANGED <<cache, phase, session, todo, wire, attempt, outcome,
                 asked, want>>

ApiReturns ==
  /\ phase = "send" /\ sent = Len(wire)
  /\ phase' = "split" /\ wire' = << >> /\ sent' = 0 /\ attempt' = 0
  /\ UNCHANGED <<cache, node, session, todo, outcome, history, own, lost>>

\* Seeded fault: the attempts are not counted.
ApiRetriesForever ==
  /\ phase = "send"
  /\ sent' = 0
  /\ UNCHANGED <<cache, node, phase, session, todo, wire, attempt, outcome,
                 history, own, lost>>

\* The vector write inconsistency: two more attempts with the same input.
ApiRetries ==
  /\ phase = "send" /\ attempt < MaxAttempts
  /\ attempt' = attempt + 1 /\ sent' = 0
  /\ UNCHANGED <<cache, node, phase, session, todo, wire, outcome,
                 history, own, lost>>

\* Seeded fault: the progress of the failed call is kept for the next one.
ApiRaisesKeepsProgress ==
  /\ phase = "send"
  /\ lost' = lost \cup
       {n \in Nodes : \E i \in sent + 1 .. Len(wire) : n \in Covers[wire[i].path]}
  /\ phase' = "idle" /\ outcome' = "raised"
  /\ todo' = [d \in Daqs |-> << >>]
  /\ wire' = << >> /\ attempt' = 0
  /\ UNCHANGED <<cache, node, session, sent, history, own>>

\* Any other error, or that one for the third time: batch_set raises, and
\* the sessions it had not come to yet are left alone.
ApiRaises ==
  /\ phase = "send"
  /\ lost' = lost \cup
       {n \in Nodes : \E i \in sent + 1 .. Len(wire) : n \in Covers[wire[i].path]}
  /\ phase' = "idle" /\ outcome' = "raised"
  /\ todo' = [d \in Daqs |-> << >>]
  /\ wire' = << >> /\ sent' = 0 /\ attempt' = 0
  /\ UNCHANGED <<cache, node, session, history, own>>

-----------------------------------------------------------------------------
(* The other operations on a session, and the instrument.                   *)

\* batch_get: what is not answered by the cache is read and remembered.
BatchGet(n, cached) ==
  /\ phase = "idle"
  /\ ~(cached /\ cache[n] # NoEntry)
  /\ cache' = ForceSet(n, node[n])
  /\ own' = own \ {n} /\ lost' = lost \ {n}
  /\ UNCHANGED <<node, call, history>>

\* load_factory_preset of the device collection clears the caches.
ClearCache ==
  /\ phase = "idle"
  /\ cache' = [n \in Nodes |-> NoEntry]
  /\ UNCHANGED <<node, call, history, own, lost>>

InstrumentClears(n) ==
  /\ node[n] # 0
  /\ node' = [node EXCEPT ![n] = 0]
  /\ own' = own \cup {n}
  /\ UNCHANGED <<cache, call, history, lost>>

Step ==
  \/ \E d \in Daqs : NextSession(d)
  \/ Suppress \/ Keep \/ CallApi
  \/ ServerApplies \/ ApiReturns \/ ApiRetries \/ ApiRaises
  \/ Return

Next ==
  \/ BatchSet
  \/ Step
  \/ \E n \in Nodes, c \in BOOLEAN : BatchGet(n, c)
  \/ ClearCache
  \/ \E n \in SelfClearing : InstrumentClears(n)

Spec == Init /\ [][Next]_vars

\* The coroutine runs on, and the API answers or fails.
FairSpec == Spec /\ WF_vars(Step)

-----------------------------------------------------------------------------
TypeOK ==
  /\ cache \in [Nodes -> Values \cup {NoEntry}]
  /\ node \in [Nodes -> Values]
  /\ phase \in {"idle", "split", "filter", "send"}
  /\ session \in Daqs
  /\ todo \in [Daqs -> Seq(SetAction)]
  /\ wire \in Seq(SetAction)
  /\ sent \in 0 .. Len(wire)
  /\ attempt \in 0 .. MaxAttempts
  /\ outcome \in {"none", "set", "raised"}
  /\ asked \in [Nodes -> SUBSET Values]
  /\ want \in [Nodes -> Values \cup {NoEntry}]
  /\ got \in [Nodes -> Values \cup {NoEntry}]
  /\ own \subseteq Nodes
  /\ lost \subseteq Nodes

(* Between two calls a cached value is the value in the instrument, unless  *)
(* the instrument has changed the node by itself or an API call that failed *)
(* has left it unwritten.                                                   *)
Coherent ==
  phase = "idle" =>
    \A n \in Nodes \ (own \cup lost) : cache[n] \in {NoEntry, node[n]}

(* The way acquisitions are armed: a batch that sets a node to one value    *)
(* and then to another (result/enable 0, then 1) makes the last one reach   *)
(* the instrument, whatever the cache believed before the call.             *)
RearmDelivered ==
  outcome = "set" =>
    \A n \in Nodes :
      (\E v, w \in asked[n] : v # w) => got[n] = want[n]

(* A call of batch_set comes to an end: it returns or it raises.            *)
CallEnds == phase # "idle" ~> phase = "idle"
=============================================================================
