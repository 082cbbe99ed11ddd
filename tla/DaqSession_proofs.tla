-------------------------- MODULE DaqSession_proofs --------------------------
(***************************************************************************)
(* Proofs about the node sessions: for any servers, nodes, patterns and    *)
(* batches, the cache is coherent between two calls, and a batch that sets *)
(* a node to two values delivers the last one.                             *)
(***************************************************************************)
EXTENDS DaqSession, SequenceTheorems, TLAPS

(* The running call: the element of wire that is the last one for a node   *)
(* carries the value the cache has for it.                                 *)
LastFor(i, n) ==
  /\ i \in 1 .. Len(wire) /\ n \in Covers[wire[i].path]
  /\ \A j \in i + 1 .. Len(wire) : n \notin Covers[wire[j].path]

WireAsCached ==
  \A n \in Nodes, i \in 1 .. Len(wire) :
    LastFor(i, n) /\ cache[n] # NoEntry => cache[n] = wire[i].value

(* A node that waits for nothing has the value the cache has for it.       *)
Waiting(n) == \E i \in sent + 1 .. Len(wire) : n \in Covers[wire[i].path]

CachedAsSet ==
  \A n \in Nodes \ (own \cup lost) :
    ~Waiting(n) /\ cache[n] # NoEntry => cache[n] = node[n]

NothingOnTheWire ==
  /\ phase \in {"idle", "split"} => wire = << >> /\ sent = 0
  /\ phase # "idle" => outcome = "none"

CoherenceInv == TypeOK /\ NothingOnTheWire /\ WireAsCached /\ CachedAsSet

-----------------------------------------------------------------------------
LEMMA ForceSetType ==
  ASSUME TypeOK, NEW p \in Paths, NEW v \in Values
  PROVE  /\ ForceSet(p, v) \in [Nodes -> Values \cup {NoEntry}]
         /\ \A n \in Nodes : n \in Covers[p] /\ ForceSet(p, v)[n] # NoEntry
                               => ForceSet(p, v)[n] = v
         /\ \A n \in Nodes \ Covers[p] : ForceSet(p, v)[n] = cache[n]
  BY CoversAssumption DEF ForceSet, TypeOK, Paths

LEMMA HeadOfTodo ==
  ASSUME TypeOK, todo[session] # << >>
  PROVE  /\ Head(todo[session]) \in SetAction
         /\ Head(todo[session]).path \in Paths
         /\ Head(todo[session]).value \in Values
         /\ [todo EXCEPT ![session] = Tail(@)] \in [Daqs -> Seq(SetAction)]
<1>1. todo[session] \in Seq(SetAction)
  BY DEF TypeOK
<1>2. /\ Head(todo[session]) \in SetAction
      /\ Tail(todo[session]) \in Seq(SetAction)
  BY <1>1
<1> QED
  BY <1>2 DEF TypeOK, SetAction, Paths

(* Every variable of the model has its type, whatever the batches are.      *)
THEOREM Typing == Spec => []TypeOK
<1>1. Init => TypeOK
  BY MaxAttemptsAssumption DEF Init, TypeOK
<1>2. TypeOK /\ [Next]_vars => TypeOK'
  <2> SUFFICES ASSUME TypeOK, [Next]_vars PROVE TypeOK'
    OBVIOUS
  <2> USE MaxAttemptsAssumption
  <2>1. CASE BatchSet
    BY <2>1, BatchesAssumption DEF BatchSet, TypeOK
  <2>2. ASSUME NEW d \in Daqs, NextSession(d) PROVE TypeOK'
    BY <2>2 DEF NextSession, TypeOK, history
  <2>3. CASE Suppress
    <3>1. asked' \in [Nodes -> SUBSET Values] /\ want' \in [Nodes -> Values \cup {NoEntry}]
      BY <2>3, HeadOfTodo DEF Suppress, Ask, TypeOK
    <3> QED BY <2>3, <3>1, HeadOfTodo DEF Suppress, TypeOK
  <2>4. CASE Keep
    <3>1. asked' \in [Nodes -> SUBSET Values] /\ want' \in [Nodes -> Values \cup {NoEntry}]
      BY <2>4, HeadOfTodo DEF Keep, Ask, TypeOK
    <3>2. wire' \in Seq(SetAction) /\ Len(wire') = Len(wire) + 1
      BY <2>4, HeadOfTodo DEF Keep, TypeOK
    <3>3. cache' \in [Nodes -> Values \cup {NoEntry}]
      BY <2>4, HeadOfTodo, ForceSetType DEF Keep
    <3>4. todo' \in [Daqs -> Seq(SetAction)]
      BY <2>4, HeadOfTodo DEF Keep
    <3> QED BY <2>4, <3>1, <3>2, <3>3, <3>4 DEF Keep, TypeOK
  <2>5. CASE CallApi
    BY <2>5 DEF CallApi, TypeOK, history
  <2>6. CASE ServerApplies
    <3>1. wire[sent + 1] \in SetAction
      BY <2>6 DEF ServerApplies, TypeOK
    <3>2. wire[sent + 1].value \in Values
      BY <3>1 DEF SetAction
    <3> QED BY <2>6, <3>2 DEF ServerApplies, TypeOK
  <2>7. CASE ApiReturns
    BY <2>7 DEF ApiReturns, TypeOK, history
  <2>8. CASE ApiRetries
    BY <2>8 DEF ApiRetries, TypeOK, history
  <2>9. CASE ApiRaises
    BY <2>9 DEF ApiRaises, TypeOK, history
  <2>10. CASE Return
    BY <2>10 DEF Return, TypeOK, history
  <2>11. ASSUME NEW n \in Nodes, NEW c \in BOOLEAN, BatchGet(n, c) PROVE TypeOK'
    <3>1. n \in Paths /\ node[n] \in Values
      BY DEF TypeOK, Paths
    <3>2. cache' \in [Nodes -> Values \cup {NoEntry}]
      BY <2>11, <3>1, ForceSetType DEF BatchGet
    <3> QED BY <2>11, <3>2 DEF BatchGet, TypeOK, call, history
  <2>12. CASE ClearCache
    BY <2>12 DEF ClearCache, TypeOK, call, history
  <2>13. ASSUME NEW n \in SelfClearing, InstrumentClears(n) PROVE TypeOK'
    BY <2>13, SelfClearingAssumption, ValuesAssumption
       DEF InstrumentClears, TypeOK, call, history
  <2>14. CASE UNCHANGED vars
    BY <2>14 DEF vars, TypeOK
  <2> QED
    BY <2>1, <2>2, <2>3, <2>4, <2>5, <2>6, <2>7, <2>8, <2>9, <2>10, <2>11,
       <2>12, <2>13, <2>14 DEF Next, Step
<1> QED BY <1>1, <1>2, PTL DEF Spec

-----------------------------------------------------------------------------
LEMMA CoherenceStep == CoherenceInv /\ TypeOK' /\ [Next]_vars => CoherenceInv'
<1> SUFFICES ASSUME CoherenceInv, TypeOK', [Next]_vars PROVE CoherenceInv'
  OBVIOUS
<1> USE DEF CoherenceInv
<1>1. CASE BatchSet
  BY <1>1 DEF BatchSet, NothingOnTheWire, WireAsCached, CachedAsSet, LastFor, Waiting
<1>2. ASSUME NEW d \in Daqs, NextSession(d) PROVE CoherenceInv'
  BY <1>2 DEF NextSession, NothingOnTheWire, WireAsCached, CachedAsSet, LastFor,
              Waiting
<1>3. CASE Suppress
  BY <1>3 DEF Suppress, NothingOnTheWire, WireAsCached, CachedAsSet, LastFor, Waiting
<1>4. CASE Keep
  <2> DEFINE a == Head(todo[session])
  <2>1. /\ a.path \in Paths /\ a.value \in Values
        /\ phase = "filter" /\ UNCHANGED <<phase, sent, node, outcome>>
        /\ own' = own /\ lost' = lost
        /\ cache' = ForceSet(a.path, a.value)
        /\ wire' = Append(wire, a)
    BY <1>4, HeadOfTodo DEF Keep
  <2>2. /\ \A n \in Nodes : n \in Covers[a.path] /\ cache'[n] # NoEntry
                              => cache'[n] = a.value
        /\ \A n \in Nodes \ Covers[a.path] : cache'[n] = cache[n]
    BY <2>1, ForceSetType
  <2>3. /\ Len(wire') = Len(wire) + 1 /\ Len(wire) \in Nat
        /\ \A i \in 1 .. Len(wire) : wire'[i] = wire[i]
        /\ wire'[Len(wire) + 1] = a
    BY <2>1 DEF TypeOK
  <2>4. WireAsCached'
    <3> SUFFICES ASSUME NEW n \in Nodes, NEW i \in 1 .. Len(wire'),
                        LastFor(i, n)', cache'[n] # NoEntry
                 PROVE  cache'[n] = wire'[i].value
      BY DEF WireAsCached
    <3>1. CASE n \in Covers[a.path]
      <4>1. i = Len(wire) + 1
        BY <2>3, <3>1 DEF LastFor
      <4> QED BY <2>2, <2>3, <3>1, <4>1
    <3>2. CASE n \notin Covers[a.path]
      <4>1. i \in 1 .. Len(wire) /\ cache'[n] = cache[n]
        BY <2>2, <2>3, <3>2 DEF LastFor
      <4>2. LastFor(i, n)
        BY <2>3, <4>1 DEF LastFor
      <4> QED BY <2>3, <4>1, <4>2 DEF WireAsCached
    <3> QED BY <3>1, <3>2
  <2>5. CachedAsSet'
    <3> SUFFICES ASSUME NEW n \in Nodes \ (own' \cup lost'),
                        ~Waiting(n)', cache'[n] # NoEntry
                 PROVE  cache'[n] = node'[n]
      BY DEF CachedAsSet
    <3>0. /\ sent \in 0 .. Len(wire)
          /\ \A i \in sent + 1 .. Len(wire) + 1 : n \notin Covers[wire'[i].path]
      BY <2>1, <2>3 DEF Waiting, TypeOK
    <3>1. n \notin Covers[a.path]
      BY <2>3, <3>0
    <3>2. ~Waiting(n)
      <4> SUFFICES ASSUME NEW i \in sent + 1 .. Len(wire)
                   PROVE  n \notin Covers[wire[i].path]
        BY DEF Waiting
      <4>1. i \in 1 .. Len(wire) /\ i \in sent + 1 .. Len(wire) + 1
        BY <2>3, <3>0
      <4> QED BY <2>3, <3>0, <4>1
    <3> QED BY <2>1, <2>2, <3>1, <3>2 DEF CachedAsSet
  <2> QED BY <2>1, <2>4, <2>5 DEF NothingOnTheWire, TypeOK
<1>5. CASE CallApi
  BY <1>5 DEF CallApi, NothingOnTheWire, WireAsCached, CachedAsSet, LastFor, Waiting
<1>6. CASE ServerApplies
  <2>1. /\ sent + 1 \in 1 .. Len(wire) /\ sent' = sent + 1 /\ sent \in Nat
        /\ UNCHANGED <<cache, wire, phase, outcome>> /\ phase = "send"
    BY <1>6 DEF ServerApplies, TypeOK
  <2>2. WireAsCached'
    BY <2>1 DEF WireAsCached, LastFor
  <2>3. CachedAsSet'
    <3> SUFFICES ASSUME NEW n \in Nodes \ (own' \cup lost'),
                        ~Waiting(n)', cache'[n] # NoEntry
                 PROVE  cache'[n] = node'[n]
      BY DEF CachedAsSet
    <3>1. CASE n \in Covers[wire[sent + 1].path]
      <4>1. LastFor(sent + 1, n)
        BY <2>1, <3>1 DEF LastFor, Waiting
      <4>2. cache[n] = wire[sent + 1].value
        BY <2>1, <4>1 DEF WireAsCached
      <4> QED BY <1>6, <2>1, <3>1, <4>2 DEF ServerApplies
    <3>2. CASE n \notin Covers[wire[sent + 1].path]
      <4>1. n \in Nodes \ (own \cup lost) /\ node'[n] = node[n]
        BY <1>6, <3>2 DEF ServerApplies
      <4>2. ~Waiting(n)
        BY <2>1, <3>2 DEF Waiting
      <4> QED BY <2>1, <4>1, <4>2 DEF CachedAsSet
    <3> QED BY <3>1, <3>2
  <2> QED BY <2>1, <2>2, <2>3 DEF NothingOnTheWire
<1>7. CASE ApiReturns
  BY <1>7 DEF ApiReturns, NothingOnTheWire, WireAsCached, CachedAsSet, LastFor,
              Waiting, TypeOK
<1>8. CASE ApiRetries
  BY <1>8 DEF ApiRetries, NothingOnTheWire, WireAsCached, CachedAsSet, LastFor,
              Waiting, TypeOK
<1>9. CASE ApiRaises
  BY <1>9 DEF ApiRaises, NothingOnTheWire, WireAsCached, CachedAsSet, LastFor,
              Waiting, TypeOK
<1>10. CASE Return
  BY <1>10 DEF Return, NothingOnTheWire, WireAsCached, CachedAsSet, LastFor, Waiting
<1>11. ASSUME NEW n \in Nodes, NEW c \in BOOLEAN, BatchGet(n, c)
       PROVE  CoherenceInv'
  <2>1. /\ wire = << >> /\ sent = 0 /\ cache' = [cache EXCEPT ![n] = node[n]]
        /\ UNCHANGED <<node, phase, wire, sent, outcome>>
        /\ own' = own \ {n} /\ lost' = lost \ {n}
    BY <1>11 DEF BatchGet, NothingOnTheWire, ForceSet, call
  <2> QED BY <2>1 DEF NothingOnTheWire, WireAsCached, CachedAsSet, LastFor, Waiting,
                      TypeOK
<1>12. CASE ClearCache
  BY <1>12 DEF ClearCache, NothingOnTheWire, WireAsCached, CachedAsSet, LastFor,
               Waiting, call, TypeOK
<1>13. ASSUME NEW n \in SelfClearing, InstrumentClears(n) PROVE CoherenceInv'
  BY <1>13, SelfClearingAssumption
     DEF InstrumentClears, NothingOnTheWire, WireAsCached, CachedAsSet, LastFor,
         Waiting, call, TypeOK
<1>14. CASE UNCHANGED vars
  BY <1>14 DEF vars, NothingOnTheWire, WireAsCached, CachedAsSet, LastFor, Waiting
<1> QED
  BY <1>1, <1>2, <1>3, <1>4, <1>5, <1>6, <1>7, <1>8, <1>9, <1>10, <1>11,
     <1>12, <1>13, <1>14 DEF Next, Step

(* Between two calls the cache is right about every node that the           *)
(* instrument did not change and no failed call left behind.                *)
THEOREM Coherence == Spec => []Coherent
<1>1. Init => CoherenceInv
  BY MaxAttemptsAssumption
     DEF Init, CoherenceInv, TypeOK, NothingOnTheWire, WireAsCached, CachedAsSet, LastFor
<1>2. CoherenceInv => Coherent
  BY DEF CoherenceInv, NothingOnTheWire, CachedAsSet, Waiting, Coherent, TypeOK
<1> QED BY <1>1, <1>2, CoherenceStep, Typing, PTL DEF Spec

-----------------------------------------------------------------------------
(* What the running call has been asked for is what the cache holds ...     *)
Twice(n) == \E v, w \in asked[n] : v # w

AskedAsCached ==
  phase # "idle" =>
    \A n \in Nodes : asked[n] # {} =>
      want[n] \in asked[n] /\ cache[n] \in {NoEntry, want[n]}

(* ... a node asked for twice has its last value on the wire or has got it  *)
(* from an earlier session's API call ...                                   *)
Covered(n) == \E i \in 1 .. Len(wire) : n \in Covers[wire[i].path]

TwiceOnTheWire ==
  phase # "idle" \/ outcome = "set" =>
    \A n \in Nodes : Twice(n) =>
      \/ \E i \in 1 .. Len(wire) : LastFor(i, n) /\ wire[i].value = want[n]
      \/ ~Covered(n) /\ got[n] = want[n]

(* ... and the instrument has got the last element applied for it.          *)
GotAsApplied ==
  \A n \in Nodes, i \in 1 .. sent :
    /\ n \in Covers[wire[i].path]
    /\ \A j \in i + 1 .. sent : n \notin Covers[wire[j].path]
    => got[n] = wire[i].value

RearmInv ==
  /\ TypeOK /\ NothingOnTheWire
  /\ AskedAsCached /\ TwiceOnTheWire /\ GotAsApplied

LEMMA RearmStep == RearmInv /\ TypeOK' /\ NothingOnTheWire' /\ [Next]_vars => RearmInv'
<1> SUFFICES ASSUME RearmInv, TypeOK', NothingOnTheWire', [Next]_vars PROVE RearmInv'
  OBVIOUS
<1> USE DEF RearmInv
<1>1. CASE BatchSet
  BY <1>1 DEF BatchSet, NothingOnTheWire, AskedAsCached, TwiceOnTheWire,
              GotAsApplied, Twice, LastFor, Covered
<1>2. ASSUME NEW d \in Daqs, NextSession(d) PROVE RearmInv'
  BY <1>2 DEF NextSession, history, NothingOnTheWire, AskedAsCached,
              TwiceOnTheWire, GotAsApplied, Twice, LastFor, Covered
<1>3. CASE Suppress
  <2> DEFINE a == Head(todo[session])
  <2>1. /\ a.path \in Nodes /\ Covers[a.path] = {a.path}
        /\ a.value \in Values /\ cache[a.path] = a.value
        /\ a.value # NoEntry
    BY <1>3, HeadOfTodo, CoversAssumption, ValuesAssumption
       DEF Suppress, Hit, SetAction
  <2>2. /\ phase = "filter" /\ Ask(a)
        /\ UNCHANGED <<cache, phase, wire, sent, got, outcome>>
    BY <1>3 DEF Suppress
  <2>3. \A n \in Nodes \ {a.path} : asked'[n] = asked[n] /\ want'[n] = want[n]
    BY <2>1, <2>2 DEF Ask
  <2>4. /\ asked'[a.path] = asked[a.path] \cup {a.value}
        /\ want'[a.path] = a.value
    BY <2>1, <2>2 DEF Ask
  <2>5. asked[a.path] # {} => want[a.path] = a.value
    BY <2>1, <2>2 DEF AskedAsCached
  <2>6. AskedAsCached'
    BY <2>1, <2>2, <2>3, <2>4 DEF AskedAsCached
  <2>7. TwiceOnTheWire'
    <3> SUFFICES ASSUME NEW n \in Nodes, Twice(n)'
                 PROVE  Twice(n) /\ want'[n] = want[n]
      BY <2>2 DEF TwiceOnTheWire, LastFor, Covered
    <3>1. CASE n # a.path
      BY <2>3, <3>1 DEF Twice
    <3>2. CASE n = a.path
      <4>1. PICK v \in asked'[n], w \in asked'[n] : v # w
        BY DEF Twice
      <4>2. asked[n] # {} /\ want[n] = a.value
        BY <2>4, <2>5, <3>2, <4>1
      <4>3. asked'[n] = asked[n]
        BY <2>2, <2>4, <3>2, <4>2 DEF AskedAsCached
      <4> QED BY <2>4, <3>2, <4>2, <4>3 DEF Twice
    <3> QED BY <3>1, <3>2
  <2> QED BY <2>2, <2>6, <2>7 DEF GotAsApplied
<1>4. CASE Keep
  <2> DEFINE a == Head(todo[session])
  <2>1. /\ a.path \in Paths /\ a.value \in Values
        /\ phase = "filter" /\ Ask(a) /\ UNCHANGED <<phase, sent, got, outcome>>
        /\ cache' = ForceSet(a.path, a.value)
        /\ wire' = Append(wire, a)
    BY <1>4, HeadOfTodo DEF Keep
  <2>2. /\ Len(wire') = Len(wire) + 1 /\ Len(wire) \in Nat /\ sent \in 0 .. Len(wire)
        /\ \A i \in 1 .. Len(wire) : wire'[i] = wire[i]
        /\ wire'[Len(wire) + 1] = a
    BY <2>1 DEF TypeOK
  <2>3. \A n \in Nodes \ Covers[a.path] :
          asked'[n] = asked[n] /\ want'[n] = want[n] /\ cache'[n] = cache[n]
    BY <2>1, ForceSetType DEF Ask
  <2>4. \A n \in Nodes \cap Covers[a.path] :
          /\ want'[n] = a.value /\ a.value \in asked'[n]
          /\ cache'[n] \in {NoEntry, a.value}
    BY <2>1, ForceSetType DEF Ask
  <2>5. AskedAsCached'
    BY <2>1, <2>3, <2>4 DEF AskedAsCached
  <2>6. TwiceOnTheWire'
    <3> SUFFICES ASSUME NEW n \in Nodes, Twice(n)'
                 PROVE \/ \E i \in 1 .. Len(wire') :
                            LastFor(i, n)' /\ wire'[i].value = want'[n]
                       \/ ~Covered(n)' /\ got'[n] = want'[n]
      BY DEF TwiceOnTheWire
    <3>1. CASE n \in Covers[a.path]
      <4>1. LastFor(Len(wire), n)'
        BY <2>2, <3>1 DEF LastFor
      <4> QED BY <2>2, <2>4, <3>1, <4>1
    <3>2. CASE n \notin Covers[a.path]
      <4>1. Twice(n) /\ want'[n] = want[n]
        BY <2>3, <3>2 DEF Twice
      <4>2. ASSUME NEW i \in 1 .. Len(wire), LastFor(i, n)
            PROVE  i \in 1 .. Len(wire') /\ LastFor(i, n)' /\ wire'[i] = wire[i]
        BY <2>2, <3>2, <4>2 DEF LastFor
      <4>3. ~Covered(n) => ~Covered(n)'
        BY <2>2, <3>2 DEF Covered
      <4> QED BY <2>1, <4>1, <4>2, <4>3 DEF TwiceOnTheWire
    <3> QED BY <3>1, <3>2
  <2>7. GotAsApplied'
    <3> SUFFICES ASSUME NEW n \in Nodes, NEW i \in 1 .. sent,
                        n \in Covers[wire'[i].path],
                        \A j \in i + 1 .. sent : n \notin Covers[wire'[j].path]
                 PROVE  got[n] = wire'[i].value
      BY <2>1 DEF GotAsApplied
    <3>1. \A j \in i .. sent : wire'[j] = wire[j]
      BY <2>2
    <3> QED BY <2>2, <3>1 DEF GotAsApplied
  <2> QED BY <2>5, <2>6, <2>7
<1>5. CASE CallApi
  BY <1>5 DEF CallApi, history, NothingOnTheWire, AskedAsCached, TwiceOnTheWire,
              GotAsApplied, Twice, LastFor, Covered
<1>6. CASE ServerApplies
  <2>1. /\ sent \in Nat /\ sent + 1 \in 1 .. Len(wire) /\ sent' = sent + 1
        /\ phase = "send"
        /\ UNCHANGED <<cache, wire, phase, outcome, asked, want>>
    BY <1>6 DEF ServerApplies, TypeOK
  <2>2. \A n \in Nodes : got'[n] = IF n \in Covers[wire[sent + 1].path]
                                   THEN wire[sent + 1].value ELSE got[n]
    BY <1>6 DEF ServerApplies
  <2>3. AskedAsCached'
    BY <2>1 DEF AskedAsCached
  <2>4. TwiceOnTheWire'
    BY <2>1, <2>2 DEF TwiceOnTheWire, Twice, LastFor, Covered
  <2>5. GotAsApplied'
    <3> SUFFICES ASSUME NEW n \in Nodes, NEW i \in 1 .. sent + 1,
                        n \in Covers[wire[i].path],
                        \A j \in i + 1 .. sent + 1 : n \notin Covers[wire[j].path]
                 PROVE  got'[n] = wire[i].value
      BY <2>1 DEF GotAsApplied
    <3>1. CASE i = sent + 1
      BY <2>2, <3>1
    <3>2. CASE i # sent + 1
      <4>1. i \in 1 .. sent /\ n \notin Covers[wire[sent + 1].path]
        BY <2>1, <3>2
      <4>2. \A j \in i + 1 .. sent : n \notin Covers[wire[j].path]
        BY <2>1
      <4> QED BY <2>2, <4>1, <4>2 DEF GotAsApplied
    <3> QED BY <3>1, <3>2
  <2> QED BY <2>3, <2>4, <2>5
<1>7. CASE ApiReturns
  <2>1. /\ phase = "send" /\ sent = Len(wire) /\ Len(wire) \in Nat
        /\ phase' = "split" /\ wire' = << >> /\ sent' = 0
        /\ UNCHANGED <<cache, outcome, asked, want, got>>
    BY <1>7 DEF ApiReturns, history, TypeOK
  <2>2. ASSUME NEW n \in Nodes, Twice(n) PROVE got[n] = want[n]
    <3>1. CASE ~Covered(n) /\ got[n] = want[n]
      BY <3>1
    <3>2. ASSUME NEW i \in 1 .. Len(wire), LastFor(i, n), wire[i].value = want[n]
          PROVE  got[n] = want[n]
      BY <2>1, <3>2 DEF LastFor, GotAsApplied
    <3> QED BY <2>1, <2>2, <3>1, <3>2 DEF TwiceOnTheWire
  <2> QED BY <2>1, <2>2 DEF AskedAsCached, TwiceOnTheWire, Twice, Covered,
                            GotAsApplied
<1>8. CASE ApiRetries
  BY <1>8 DEF ApiRetries, history, AskedAsCached, TwiceOnTheWire, GotAsApplied,
              Twice, LastFor, Covered
<1>9. CASE ApiRaises
  BY <1>9 DEF ApiRaises, AskedAsCached, TwiceOnTheWire, GotAsApplied
<1>10. CASE Return
  BY <1>10 DEF Return, history, AskedAsCached, TwiceOnTheWire, GotAsApplied,
               Twice, LastFor, Covered
<1>11. ASSUME NEW n \in Nodes, NEW c \in BOOLEAN, BatchGet(n, c) PROVE RearmInv'
  BY <1>11 DEF BatchGet, call, history, AskedAsCached, TwiceOnTheWire,
               GotAsApplied, Twice, LastFor, Covered
<1>12. CASE ClearCache
  BY <1>12 DEF ClearCache, call, history, AskedAsCached, TwiceOnTheWire,
               GotAsApplied, Twice, LastFor, Covered
<1>13. ASSUME NEW n \in SelfClearing, InstrumentClears(n) PROVE RearmInv'
  BY <1>13 DEF InstrumentClears, call, history, AskedAsCached, TwiceOnTheWire,
               GotAsApplied, Twice, LastFor, Covered
<1>14. CASE UNCHANGED vars
  BY <1>14 DEF vars, AskedAsCached, TwiceOnTheWire, GotAsApplied, Twice, LastFor,
               Covered
<1> QED
  BY <1>1, <1>2, <1>3, <1>4, <1>5, <1>6, <1>7, <1>8, <1>9, <1>10, <1>11,
     <1>12, <1>13, <1>14 DEF Next, Step

(* Setting a node to two values in one batch always makes the last one      *)
(* reach the instrument, whatever the cache held.                           *)
THEOREM Rearm == Spec => []RearmDelivered
<1>1. Init => CoherenceInv /\ RearmInv
  BY MaxAttemptsAssumption
     DEF Init, CoherenceInv, TypeOK, NothingOnTheWire, WireAsCached, CachedAsSet,
         LastFor, RearmInv, AskedAsCached, TwiceOnTheWire, GotAsApplied
<1>2. CoherenceInv /\ RearmInv /\ TypeOK' /\ [Next]_vars => CoherenceInv' /\ RearmInv'
  BY CoherenceStep, RearmStep DEF CoherenceInv
<1>3. RearmInv => RearmDelivered
  <2> SUFFICES ASSUME RearmInv, outcome = "set",
                      NEW n \in Nodes, Twice(n)
               PROVE  got[n] = want[n]
    BY DEF RearmDelivered, Twice
  <2>1. wire = << >>
    BY DEF RearmInv, NothingOnTheWire
  <2> QED BY <2>1 DEF RearmInv, TwiceOnTheWire
<1> QED BY <1>1, <1>2, <1>3, Typing, PTL DEF Spec
=============================================================================
