--------------------------- MODULE Scheduler_proofs ---------------------------
(***************************************************************************)
(* Theorems about Scheduler, for any section trees.                         *)
(***************************************************************************)
EXTENDS Scheduler, DataLemmas, SequenceTheorems

-----------------------------------------------------------------------------
(* The inductive invariant: over starts st and lengths ln of the nodes.     *)

Ends(b, st, ln) == st[b] + ln[b]

\* One of the two is over before the other begins.
Disjoint(b, c, st, ln) == Ends(b, st, ln) <= st[c] \/ Ends(c, st, ln) <= st[b]

\* Children that have to be disjoint.
Apart(n, b, c) == tree[n].kind \in Arranged /\ signals[b] \cap signals[c] # {}

Follows(n, b, c) ==
  \/ tree[n].kind \in Arranged /\ b \in PlaysAfter(n, c)
  \/ tree[n].kind = "unrolled" /\ Index(n, b) < Index(n, c)

Spaced(n, P, st, ln) ==
  \A b, c \in P : /\ b # c /\ Apart(n, b, c) => Disjoint(b, c, st, ln)
                  /\ Follows(n, b, c) => Ends(b, st, ln) <= st[c]

\* The children are in n if its length is size, and in order.
Inside(n, st, ln, size) ==
  /\ \A c \in Children(n) : ln[c] \in Nat /\ st[c] >= 0 /\ Ends(c, st, ln) <= size
  /\ Spaced(n, Children(n), st, ln)

Fits(n, st, ln) == ln[n] \in Nat /\ Inside(n, st, ln, ln[n])

Order(n) == IF RightArranged(n) THEN Reverse(tree[n].children) ELSE tree[n].children
Visited(f) == Children(f.node) \ ToSet(f.todo)

FrameType == [node : Nodes, at : Nat, mayChange : BOOLEAN, todo : Seq(Nodes),
              edge : [Signals -> Int]]

\* The children placed so far in a right-aligned section, and in any other node.
PlacedRight(f, st, ln) ==
  \A b \in Visited(f) :
    /\ Ends(b, st, ln) <= 0
    /\ \A s \in signals[b] : f.edge[s] <= st[b]
    /\ PlaysBefore(f.node, b) \subseteq Visited(f)

PlacedLeft(f, st, ln) ==
  \A b \in Visited(f) :
    /\ st[b] >= 0
    /\ tree[f.node].kind = "compressed" => st[b] = 0
    /\ tree[f.node].kind \in Arranged =>
         /\ \A s \in signals[b] : Ends(b, st, ln) <= f.edge[s]
         /\ PlaysAfter(f.node, b) \subseteq Visited(f)

Placing(f, st, ln) ==
  /\ \A b \in Visited(f) : ln[b] \in Nat
  /\ Spaced(f.node, Visited(f), st, ln)
  /\ RightArranged(f.node) => PlacedRight(f, st, ln)
  /\ ~RightArranged(f.node) => PlacedLeft(f, st, ln)

Progress(f) ==
  /\ tree[f.node].kind \notin Leaves
  /\ \E k \in Nat : IsRest(f.todo, Order(f.node), k)

\* What a call has asked of its next child c.
Offered(f, c, at, st, ln) ==
  /\ RightArranged(f.node) => PlaysBefore(f.node, c) \subseteq Visited(f)
  /\ ~RightArranged(f.node) =>
       /\ at >= f.at
       /\ tree[f.node].kind = "compressed" => at = f.at
       /\ \A b \in Visited(f) :
            Apart(f.node, b, c) \/ Follows(f.node, b, c) => Ends(b, st, ln) <= at - f.at
       /\ tree[f.node].kind \in Arranged => PlaysAfter(f.node, c) \subseteq Visited(f)

Called(f, c, at, st, ln) == f.todo # << >> /\ c = Head(f.todo) /\ Offered(f, c, at, st, ln)

\* The calls q under way, the innermost first.
Calling(q, st, ln) ==
  /\ q \in Seq(FrameType)
  /\ \A i \in 1 .. Len(q) : Progress(q[i]) /\ Placing(q[i], st, ln)
  /\ \A i \in 1 .. Len(q) - 1 : Called(q[i + 1], q[i].node, q[i].at, st, ln)
  /\ q # << >> => q[Len(q)].node = 1

Calls ==
  /\ Calling(stack, start, length)
  /\ outcome = "running" => stack # << >>
  /\ outcome = "done" => stack = << >>

\* The nodes not timed yet, if the calls q wait for their next children, and now.
Pending(q) == {p \in Nodes : \E i \in 1 .. Len(q) :
                 p = q[i].node \/ \E c \in ToSet(Tail(q[i].todo)) : p \in Below(c)}
Open(q) == {p \in Nodes : \E i \in 1 .. Len(q) :
              \/ p = q[i].node
              \/ \E c \in ToSet(IF i = 1 THEN q[i].todo ELSE Tail(q[i].todo)) : p \in Below(c)}
Timed == \A p \in Nodes \ Open(stack) : Fits(p, start, length)

Divides(a, b) == \E k \in Int : b = a * k

\* What the start of a child is a multiple of: the iterations of a loop follow each
\* other on the grid of the loop.
Unit(p, c) == IF tree[p].kind = "unrolled" THEN grid[p] ELSE grid[c]
StartsOnGrid(st) == \A p \in Nodes : \A c \in Children(p) : Divides(Unit(p, c), st[c])

\* A timed iteration is as long as its grid allows, and repeats on the grids of
\* what it contains.
Regular(p, ln) ==
  /\ tree[p].kind = "iteration" => Divides(grid[p], ln[p])
  /\ tree[p].kind = "compressed" =>
       \A c \in Children(p) : Divides(Lcm(grid[p], loopGrid[p]), ln[c])

\* Where the calls q have been asked to start.
AskedOnGrid(q) ==
  \A i \in 1 .. Len(q) :
    /\ Divides(grid[q[i].node], q[i].at)
    /\ i < Len(q) => Divides(Unit(q[i + 1].node, q[i].node), q[i].at)

OnGrid ==
  /\ StartsOnGrid(start)
  /\ \A p \in Nodes \ Open(stack) : Regular(p, length)
  /\ AskedOnGrid(stack)

\* What the children a call has visited have been told, and those of a node that
\* has been timed.
ToldCall(f, st, ab) ==
  /\ f.mayChange <=> MayMove(f.node)
  /\ f.node = 1 => f.at = 0
  /\ \A b \in Visited(f) : ab[b] = IF MayMove(b) THEN None ELSE f.at + st[b]
ToldBelow(p, st, ab) == \A c \in Children(p) : ab[c] = IF ab[p] = None THEN None ELSE ab[p] + st[c]

ToldBy(q, st, ab) ==
  /\ \A i \in 1 .. Len(q) : ToldCall(q[i], st, ab)
  /\ \A p \in Nodes \ Open(q) : ToldBelow(p, st, ab)
  /\ \A p \in Open(q) : ab[p] = None

Told == ToldBy(stack, start, absolute) /\ (Done => absolute[1] = 0)

\* The match n, started at at, has the data of an acquisition it depends on; those
\* noted after that one are in the tree after n.
Waits(n, at, ln, ab, aq) ==
  LET noted == aq[tree[n].handle]
  IN  \E k \in 1 .. Len(noted) :
        /\ noted[k] \in Nodes /\ tree[noted[k]].kind \in Leaves
        /\ ab[noted[k]] \in Nat /\ ln[noted[k]] \in Nat
        /\ \A s \in signals[n] : ab[noted[k]] + ln[noted[k]] + Latency[s] <= at
        /\ \A l \in 1 .. Len(noted) : l > k => noted[l] > n

\* The nodes the calls q have not visited yet.
Coming(q) == {p \in Nodes : \E i \in 1 .. Len(q) :
                \E c \in ToSet(IF i = 1 THEN q[i].todo ELSE Tail(q[i].todo)) : p \in Below(c)}
Precedes(n, q) == \A m \in Coming(q) : n < m

\* A match that is called, and one that has been timed.
WaitingCall(f, q, ln, ab, aq) ==
  Matches(f.node) => /\ ~MayMove(f.node)
                     /\ Waits(f.node, f.at, ln, ab, aq)
                     /\ Precedes(f.node, q)
WaitingTimed(n, q, ln, ab, aq) ==
  Matches(n) => /\ ab[n] # None
                /\ Waits(n, ab[n], ln, ab, aq)
                /\ Precedes(n, q)
WaitingBy(q, ln, ab, aq) ==
  /\ \A i \in 1 .. Len(q) : WaitingCall(q[i], q, ln, ab, aq)
  /\ \A n \in Nodes \ Open(q) : WaitingTimed(n, q, ln, ab, aq)

Noted(aq) == \A h \in DOMAIN aq : \A k \in 1 .. Len(aq[h]) :
  aq[h][k] \in Nodes /\ tree[aq[h][k]].kind \in {"acquire", "group"}

Waiting == Noted(acquired) /\ WaitingBy(stack, length, absolute, acquired)

Typed ==
  /\ start \in [Nodes -> Int]
  /\ length \in [Nodes -> Nat \cup {None}]
  /\ \A n \in Nodes : tree[n].kind \in {"play", "acquire", "group", "reset"} => length[n] \in Nat
  /\ absolute \in [Nodes -> Nat \cup {None}]
  /\ DOMAIN acquired = {tree[n].handle : n \in Nodes}
  /\ \A h \in DOMAIN acquired : acquired[h] \in Seq(Nodes)
  /\ outcome \in {"running", "done", "refused"}

Built ==
  /\ tree \in Experiments
  /\ signals = SignalsOf(tree) /\ grid = GridOf(tree, signals) /\ loopGrid = LoopGridOf(tree)

-----------------------------------------------------------------------------
(* Grids.                                                                  *)

LEMMA Division ==
  ASSUME NEW v \in Int, NEW g \in Nat \ {0}
  PROVE  /\ v \div g \in Int /\ v % g \in 0 .. g - 1
         /\ v = g * (v \div g) + (v % g)
OBVIOUS

LEMMA Ceil ==
  ASSUME NEW v \in Int, NEW g \in Nat \ {0}
  PROVE  /\ ceil_to_grid(v, g) \in Int
         /\ v <= ceil_to_grid(v, g) /\ ceil_to_grid(v, g) < v + g
         /\ v >= 0 => ceil_to_grid(v, g) >= 0
         /\ \E k \in Int : ceil_to_grid(v, g) = g * k
<1> DEFINE w == v + g - 1
           q == w \div g
<1>1. w \in Int
  OBVIOUS
<1> HIDE DEF w
<1>2. q \in Int /\ w % g \in 0 .. g - 1 /\ w = g * q + (w % g)
  BY <1>1, Division
<1>3. ceil_to_grid(v, g) = q * g
  BY DEF ceil_to_grid, w
<1> HIDE DEF q
<1>4. q * g = g * q /\ g * q \in Int
  BY <1>2
<1>5. v <= g * q /\ g * q < v + g
  <2>1. w = v + g - 1
    BY DEF w
  <2> QED
    BY <2>1, <1>2, <1>4
<1>6. ceil_to_grid(v, g) = g * q
  BY <1>3, <1>4
<1>7. \E k \in Int : ceil_to_grid(v, g) = g * k
  BY <1>2, <1>6
<1>8. v >= 0 => g * q >= 0
  BY <1>4, <1>5
<1> QED
  BY <1>4, <1>5, <1>6, <1>7, <1>8

LEMMA Floor ==
  ASSUME NEW v \in Int, NEW g \in Nat \ {0}
  PROVE  /\ floor_to_grid(v, g) \in Int
         /\ floor_to_grid(v, g) <= v /\ v < floor_to_grid(v, g) + g
         /\ \E k \in Int : floor_to_grid(v, g) = g * k
<1> DEFINE q == v \div g
<1>1. q \in Int /\ v % g \in 0 .. g - 1 /\ v = g * q + (v % g)
  BY Division
<1>2. floor_to_grid(v, g) = q * g
  BY DEF floor_to_grid
<1> HIDE DEF q
<1>3. q * g = g * q /\ g * q \in Int
  BY <1>1
<1>4. g * q <= v /\ v < g * q + g
  BY <1>1, <1>3
<1> QED
  BY <1>1, <1>2, <1>3, <1>4

LEMMA Divisible ==
  ASSUME NEW a \in Nat \ {0}, NEW b \in Int
  PROVE  b % a = 0 <=> Divides(a, b)
<1>1. ASSUME b % a = 0 PROVE Divides(a, b)
  <2>1. b \div a \in Int /\ b = a * (b \div a)
    BY <1>1, Division
  <2> QED
    BY <2>1 DEF Divides
<1>2. ASSUME NEW k \in Int, b = a * k PROVE b % a = 0
  <2> DEFINE q == b \div a
             r == b % a
  <2>1. q \in Int /\ r \in 0 .. a - 1 /\ b = a * q + r
    BY Division
  <2> HIDE DEF q, r
  <2>2. a * (k - q) = r
    BY <2>1, <1>2
  <2>3. k - q \in Int /\ (k - q >= 1 => a * (k - q) >= a) /\ (k - q <= -1 => a * (k - q) <= -a)
    BY <2>1
  <2>4. k - q = 0
    BY <2>1, <2>2, <2>3
  <2>5. r = 0
    BY <2>2, <2>4
  <2> QED
    BY <2>5 DEF r
<1> QED
  BY <1>1, <1>2 DEF Divides

LEMMA DividesTransitive ==
  ASSUME NEW a \in Int, NEW b \in Int, NEW c \in Int, Divides(a, b), Divides(b, c)
  PROVE  Divides(a, c)
<1>1. PICK k \in Int : b = a * k
  BY DEF Divides
<1>2. PICK l \in Int : c = b * l
  BY DEF Divides
<1>3. c = a * (k * l) /\ k * l \in Int
  BY <1>1, <1>2
<1> QED
  BY <1>3 DEF Divides

LEMMA DividesItself ==
  ASSUME NEW a \in Int
  PROVE  Divides(a, a)
<1>1. a = a * 1
  OBVIOUS
<1> QED
  BY <1>1 DEF Divides

LEMMA DividesZero ==
  ASSUME NEW a \in Int
  PROVE  Divides(a, 0)
<1>1. 0 = a * 0
  OBVIOUS
<1> QED
  BY <1>1 DEF Divides

LEMMA DividesSums ==
  ASSUME NEW a \in Int, NEW b \in Int, NEW c \in Int, Divides(a, b), Divides(a, c)
  PROVE  Divides(a, b + c) /\ Divides(a, b - c)
<1>1. PICK k \in Int : b = a * k
  BY DEF Divides
<1>2. PICK l \in Int : c = a * l
  BY DEF Divides
<1>3. b + c = a * (k + l) /\ b - c = a * (k - l) /\ k + l \in Int /\ k - l \in Int
  BY <1>1, <1>2
<1> QED
  BY <1>3 DEF Divides

LEMMA CeilOnGrid ==
  ASSUME NEW v \in Int, NEW g \in Nat \ {0}, Divides(g, v)
  PROVE  ceil_to_grid(v, g) = v
<1>1. PICK k \in Int : v = g * k
  BY DEF Divides
<1>2. PICK l \in Int : ceil_to_grid(v, g) = g * l
  BY Ceil
<1>3. v <= g * l /\ g * l < v + g
  BY <1>2, Ceil
<1>4. g * (l - k) = g * l - v
  BY <1>1
<1>5. l - k \in Int /\ (l - k >= 1 => g * (l - k) >= g) /\ (l - k <= -1 => g * (l - k) < 0)
  OBVIOUS
<1>6. g * (l - k) >= 0 /\ g * (l - k) < g
  BY <1>1, <1>3, <1>4
<1>7. l - k = 0
  BY <1>5, <1>6
<1>8. l = k
  BY <1>7
<1> QED
  BY <1>1, <1>2, <1>8

(* The least common multiple is one.                                       *)
LEMMA LcmOfTwo ==
  ASSUME NEW a \in Nat \ {0}, NEW b \in Nat \ {0}
  PROVE  Lcm(a, b) \in Nat \ {0} /\ Divides(a, Lcm(a, b)) /\ Divides(b, Lcm(a, b))
<1> DEFINE M == {m \in {a * k : k \in 1 .. b} : m % b = 0}
<1>1. \A m \in M : m \in Nat /\ m # 0 /\ Divides(a, m) /\ m % b = 0
  <2> SUFFICES ASSUME NEW k \in 1 .. b PROVE a * k \in Nat /\ a * k # 0 /\ k \in Int
    BY DEF Divides
  <2>1. k >= 1 /\ k \in Int /\ a >= 1
    OBVIOUS
  <2>2. a * k >= a
    BY <2>1
  <2> QED
    BY <2>1, <2>2
<1>2. M # {}
  <2>1. (a * b) % b = 0
    <3>1. Divides(b, a * b)
      <4>1. a * b = b * a
        OBVIOUS
      <4> QED
        BY <4>1 DEF Divides
    <3> QED
      BY <3>1, Divisible
  <2>2. b \in 1 .. b
    OBVIOUS
  <2> QED
    BY <2>1, <2>2
<1>3. Lcm(a, b) = Min(M)
  BY DEF Lcm
<1>4. M \in SUBSET Nat
  BY <1>1
<1> HIDE DEF M
<1>5. Min(M) \in M
  <2>1. \E m \in M : \A k \in M : m <= k
    BY <1>2, <1>4, Least
  <2> QED
    BY <2>1 DEF Min
<1>6. Min(M) \in Nat \ {0} /\ Divides(a, Min(M)) /\ Min(M) % b = 0
  BY <1>1, <1>5
<1>7. Divides(b, Min(M))
  <2>1. Min(M) \in Int
    BY <1>6
  <2> HIDE DEF Divides
  <2> QED
    BY <1>6, <2>1, Divisible
<1> QED
  BY <1>3, <1>6, <1>7

(* FoldSet's function, over the sets of numbers Lcm is folded over.        *)
Folds(f, S) ==
  f = [s \in SUBSET S |->
         IF s = {} THEN 1 ELSE Lcm(CHOOSE x \in s : TRUE, f[s \ {CHOOSE x \in s : TRUE}])]

LEMMA FoldExists ==
  ASSUME NEW S \in SUBSET (Nat \ {0}), IsFiniteSet(S)
  PROVE  \E f \in [SUBSET S -> Nat \ {0}] : Folds(f, S)
<1> DEFINE D == SUBSET S
           V == Nat \ {0}
           K == Cardinality(S)
           any(s) == CHOOSE x \in s : TRUE
           value(f, s) == IF s = {} THEN 1 ELSE Lcm(any(s), f[s \ {any(s)}])
           F == [f \in [D -> V] |-> [s \in D |-> value(f, s)]]
           r == [s \in D |-> Cardinality(s)]
<1> HIDE DEF F, V
<1>0. K \in Nat
  BY FS_CardinalityType
<1>1. ASSUME NEW s \in D PROVE IsFiniteSet(s) /\ Cardinality(s) \in 0 .. K
  <2>1. IsFiniteSet(s) /\ Cardinality(s) <= K
    BY FS_Subset
  <2>2. Cardinality(s) \in Nat
    BY <2>1, FS_CardinalityType
  <2> QED
    BY <1>0, <2>1, <2>2
<1>2. r \in [D -> 0 .. K]
  <2> HIDE DEF D, K
  <2> QED
    BY <1>1
<1>3. ASSUME NEW s \in D, s # {}
      PROVE  /\ any(s) \in V /\ s \ {any(s)} \in D
             /\ r[s \ {any(s)}] < r[s]
  <2>0. any(s) \in V
    BY <1>3 DEF V
  <2>1. any(s) \in s
    BY <1>3
  <2> HIDE DEF any
  <2>2. s \ {any(s)} \in D /\ Cardinality(s \ {any(s)}) = Cardinality(s) - 1
    BY <1>1, <2>1, FS_RemoveElement
  <2>3. Cardinality(s) \in Int
    BY <1>1
  <2>4. r[s] = Cardinality(s) /\ r[s \ {any(s)}] = Cardinality(s \ {any(s)})
    BY <2>2
  <2> HIDE DEF r, D
  <2> QED
    BY <2>0, <2>2, <2>3, <2>4
<1>4. F \in [[D -> V] -> [D -> V]]
  <2> SUFFICES ASSUME NEW f \in [D -> V], NEW s \in D PROVE value(f, s) \in V
    BY DEF F
  <2>1. CASE s = {}
    BY <2>1 DEF V
  <2>2. CASE s # {}
    <3>1. any(s) \in V /\ s \ {any(s)} \in D
      BY <2>2, <1>3
    <3> HIDE DEF any, D
    <3>2. f[s \ {any(s)}] \in V
      BY <3>1
    <3>3. Lcm(any(s), f[s \ {any(s)}]) \in V
      BY <3>1, <3>2, LcmOfTwo DEF V
    <3> QED
      BY <3>3, <2>2
  <2> QED
    BY <2>1, <2>2
<1>5. WellFounded(D, V, r, F)
  <2> SUFFICES ASSUME NEW f \in [D -> V], NEW g \in [D -> V], NEW n \in D,
                      \A c \in D : r[c] < r[n] => f[c] = g[c]
               PROVE  value(f, n) = value(g, n)
    <3> HIDE DEF value, D, r
    <3> QED
      BY DEF F, WellFounded
  <2>1. CASE n = {}
    BY <2>1
  <2>2. CASE n # {}
    <3>1. f[n \ {any(n)}] = g[n \ {any(n)}]
      <4> HIDE DEF r, any, D
      <4> QED
        BY <2>2, <1>3
    <3> QED
      BY <3>1
  <2> QED
    BY <2>1, <2>2
<1>6. \E f \in [D -> V] : F[f] = f
  <2>1. V # {}
    <3>1. 1 \in V
      BY DEF V
    <3> QED
      BY <3>1
  <2>2. Recursive(D, V, K, r, F)
    <3> HIDE DEF D, K, r
    <3> QED
      BY <2>1, <1>0, <1>2, <1>4, <1>5 DEF Recursive
  <2> HIDE DEF D, K, r
  <2>3. FixedPoint(D, V, F)
    BY <2>2, Recursion
  <2> QED
    BY <2>3 DEF FixedPoint
<1>7. PICK f \in [D -> V] : F[f] = f
  BY <1>6
<1>8. F[f] = [s \in D |-> value(f, s)]
  <2> HIDE DEF D, value
  <2> QED
    BY DEF F
<1>9. Folds(f, S)
  BY <1>7, <1>8 DEF Folds
<1> QED
  BY <1>9 DEF V

LEMMA LcmOfSet ==
  ASSUME NEW S \in SUBSET (Nat \ {0}), IsFiniteSet(S)
  PROVE  LcmOf(S) \in Nat \ {0} /\ \A g \in S : Divides(g, LcmOf(S))
<1> DEFINE f == CHOOSE f : Folds(f, S)
<1>1. Folds(f, S)
  BY FoldExists
<1>2. LcmOf(S) = f[S]
  BY DEF LcmOf, FoldSet, MapThenFoldSet, Folds
<1> HIDE DEF f
<1> DEFINE Fine(s) == f[s] \in Nat \ {0} /\ \A g \in s : Divides(g, f[s])
           Bad == {n \in Nat : \E s \in SUBSET S : Cardinality(s) = n /\ ~Fine(s)}
<1>3. ASSUME NEW s \in SUBSET S PROVE IsFiniteSet(s) /\ Cardinality(s) \in Nat
  BY FS_Subset, FS_CardinalityType
<1>4. Bad = {}
  <2> SUFFICES ASSUME Bad # {} PROVE FALSE
    OBVIOUS
  <2>1. PICK n \in Bad : \A k \in Bad : n <= k
    <3>1. Bad \in SUBSET Nat
      OBVIOUS
    <3> HIDE DEF Bad
    <3> QED
      BY <3>1, Least
  <2>2. PICK s \in SUBSET S : Cardinality(s) = n /\ ~Fine(s)
    OBVIOUS
  <2>3. CASE s = {}
    <3>1. f[s] = 1
      BY <2>3, <1>1 DEF Folds
    <3> QED
      BY <3>1, <2>3, <2>2
  <2>4. CASE s # {}
    <3> DEFINE x == CHOOSE x \in s : TRUE
               t == s \ {x}
    <3>1. x \in s /\ x \in Nat \ {0} /\ t \in SUBSET S
      BY <2>4
    <3>2. f[s] = Lcm(x, f[t])
      BY <2>4, <1>1 DEF Folds
    <3> HIDE DEF x
    <3>3. Cardinality(t) = n - 1 /\ n \in Nat /\ n - 1 \in Nat
      <4>1. Cardinality(t) = Cardinality(s) - 1
        BY <3>1, <1>3, FS_RemoveElement
      <4> QED
        BY <4>1, <2>2, <3>1, <1>3
    <3>4. n - 1 \notin Bad
      <4> HIDE DEF Bad
      <4> QED
        BY <2>1, <3>3
    <3>5. Fine(t)
      <4> HIDE DEF Fine
      <4> QED
        BY <3>1, <3>3, <3>4
    <3>6. f[s] \in Nat \ {0} /\ Divides(x, f[s]) /\ Divides(f[t], f[s])
      BY <3>1, <3>2, <3>5, LcmOfTwo
    <3>7. ASSUME NEW g \in s PROVE Divides(g, f[s])
      <4>1. CASE g = x
        BY <4>1, <3>6
      <4>2. CASE g # x
        <5>1. Divides(g, f[t])
          BY <4>2, <3>5
        <5>2. g \in Int /\ f[t] \in Int /\ f[s] \in Int
          BY <3>5, <3>6
        <5> QED
          BY <5>1, <5>2, <3>6, DividesTransitive
      <4> QED
        BY <4>1, <4>2
    <3> QED
      BY <3>6, <3>7, <2>2
  <2> QED
    BY <2>3, <2>4
<1>5. Fine(S)
  <2>1. Cardinality(S) \in Nat /\ Cardinality(S) \notin Bad
    BY <1>3, <1>4
  <2> HIDE DEF Fine
  <2> QED
    BY <2>1
<1> QED
  BY <1>2, <1>5

-----------------------------------------------------------------------------
(* The tree.                                                               *)

LEMMA Shape ==
  ASSUME tree \in Experiments
  PROVE  /\ Len(tree) \in Nat /\ Nodes = 1 .. Len(tree) /\ 1 \in Nodes
         /\ \A n \in Nodes : tree[n] \in NodeType
         /\ \A n \in Nodes : \A c \in Children(n) : c \in Nodes /\ c > n
         /\ \A n \in Nodes : tree[n].kind = "root" <=> n = 1
<1>1. /\ tree \in Seq(NodeType) /\ tree # << >>
      /\ \A n \in DOMAIN tree : tree[n].kind = "root" <=> n = 1
      /\ \A n \in DOMAIN tree : \A c \in ToSet(tree[n].children) : c > n /\ c \in DOMAIN tree
  BY TreeAssumption
<1>2. Len(tree) \in Nat /\ Nodes = 1 .. Len(tree) /\ Len(tree) # 0
  BY <1>1 DEF Nodes
<1>3. 1 \in Nodes
  BY <1>2
<1>4. \A n \in Nodes : tree[n] \in NodeType
  BY <1>1 DEF Nodes
<1> QED
  BY <1>1, <1>2, <1>3, <1>4 DEF Nodes, Children

LEMMA Families ==
  ASSUME tree \in Experiments
  PROVE  /\ \A c \in Nodes \ {1} : Parent(c) \in Nodes /\ c \in Children(Parent(c))
         /\ \A n \in Nodes : \A c \in Children(n) : c \in Nodes \ {1} /\ Parent(c) = n /\ n < c
<1>0. /\ \A c \in Nodes \ {1} : \E n \in Nodes : c \in Children(n)
      /\ \A n, m \in Nodes : Children(n) \cap Children(m) # {} => n = m
  BY TreeAssumption DEF Nodes, Children
<1>1. ASSUME NEW c \in Nodes \ {1} PROVE Parent(c) \in Nodes /\ c \in Children(Parent(c))
  <2>1. \E p \in Nodes : c \in Children(p)
    BY <1>0
  <2> QED
    BY <2>1 DEF Parent
<1>2. ASSUME NEW n \in Nodes, NEW c \in Children(n)
      PROVE  c \in Nodes \ {1} /\ Parent(c) = n /\ n < c
  <2>1. c \in Nodes /\ n < c
    BY Shape
  <2>2. c # 1
    <3>1. n \in Nat /\ n # 0
      BY Shape
    <3> QED
      BY <2>1, <3>1
  <2>3. Parent(c) \in Nodes /\ c \in Children(Parent(c))
    BY <1>1, <2>1, <2>2
  <2>4. Parent(c) = n
    BY <1>0, <2>3
  <2> QED
    BY <2>1, <2>2, <2>4
<1> QED
  BY <1>1, <1>2

(* From the leaves up, and from the root down.                             *)
LEMMA Upward ==
  ASSUME tree \in Experiments, NEW S \in SUBSET Nodes,
         \A n \in Nodes : Children(n) \subseteq S => n \in S
  PROVE  S = Nodes
<1> SUFFICES ASSUME Nodes \ S # {} PROVE FALSE
  OBVIOUS
<1>1. PICK n \in Nodes \ S : \A k \in Nodes \ S : k <= n
  <2>1. Nodes \ S \in SUBSET (0 .. Len(tree)) /\ Len(tree) \in Nat
    BY Shape
  <2> HIDE DEF Nodes
  <2> QED
    BY <2>1, Greatest
<1>2. \A c \in Children(n) : c \in S
  <2> SUFFICES ASSUME NEW c \in Children(n), c \notin S PROVE FALSE
    OBVIOUS
  <2>1. c \in Nodes /\ n < c
    BY Shape
  <2>2. c <= n
    BY <1>1, <2>1
  <2>3. c \in Int /\ n \in Int
    BY <2>1, Shape
  <2> QED
    BY <2>1, <2>2, <2>3
<1> QED
  BY <1>1, <1>2

LEMMA Downward ==
  ASSUME tree \in Experiments, NEW S \in SUBSET Nodes, 1 \in S,
         \A n \in S : Children(n) \subseteq S
  PROVE  S = Nodes
<1> SUFFICES ASSUME Nodes \ S # {} PROVE FALSE
  OBVIOUS
<1>1. PICK n \in Nodes \ S : \A k \in Nodes \ S : n <= k
  <2>1. Nodes \ S \in SUBSET Nat
    BY Shape
  <2> HIDE DEF Nodes
  <2> QED
    BY <2>1, Least
<1>2. n \in Nodes \ {1}
  OBVIOUS
<1>3. Parent(n) \in Nodes /\ n \in Children(Parent(n)) /\ Parent(n) < n
  BY <1>2, Families
<1>4. Parent(n) \in S
  <2> SUFFICES ASSUME Parent(n) \notin S PROVE FALSE
    OBVIOUS
  <2>1. n <= Parent(n)
    BY <1>1, <1>3
  <2>2. n \in Int /\ Parent(n) \in Int
    BY <1>2, <1>3, Shape
  <2> QED
    BY <2>1, <2>2, <1>3
<1> QED
  BY <1>1, <1>3, <1>4

(* Functions of the nodes that depend on the values of the children.       *)
Agree(f, g, n) == \A c \in Children(n) : f[c] = g[c]

FromChildren(V, F) ==
  /\ F \in [[Nodes -> V] -> [Nodes -> V]]
  /\ \A f, g \in [Nodes -> V] : \A n \in Nodes : Agree(f, g, n) => F[f][n] = F[g][n]

LEMMA TreeRecursion ==
  ASSUME tree \in Experiments, NEW V, V # {}, NEW F, FromChildren(V, F)
  PROVE  FixedPoint(Nodes, V, F)
<1> DEFINE K == Len(tree)
           r == [n \in Nodes |-> K - n]
<1>1. K \in Nat /\ Nodes = 1 .. K
  BY Shape
<1>2. r \in [Nodes -> 0 .. K]
  BY <1>1
<1>3. F \in [[Nodes -> V] -> [Nodes -> V]]
  BY DEF FromChildren
<1>4. \A n \in Nodes : \A c \in Children(n) : c \in Nodes /\ r[c] < r[n]
  <2> SUFFICES ASSUME NEW n \in Nodes, NEW c \in Children(n) PROVE c \in Nodes /\ K - c < K - n
    OBVIOUS
  <2>1. c \in Nodes /\ n < c
    BY Shape
  <2> HIDE DEF K
  <2> QED
    BY <2>1, <1>1
<1> HIDE DEF r, K
<1>5. WellFounded(Nodes, V, r, F)
  <2> SUFFICES ASSUME NEW f \in [Nodes -> V], NEW g \in [Nodes -> V], NEW n \in Nodes,
                      \A c \in Nodes : r[c] < r[n] => f[c] = g[c]
               PROVE  F[f][n] = F[g][n]
    BY DEF WellFounded
  <2>1. Agree(f, g, n)
    BY <1>4 DEF Agree
  <2> QED
    BY <2>1 DEF FromChildren
<1>6. Recursive(Nodes, V, K, r, F)
  BY <1>1, <1>2, <1>3, <1>5 DEF Recursive
<1> QED
  BY <1>6, Recursion

(* What the recursive functions of the tree satisfy.                       *)
SignalsAre(f) == f = [n \in Nodes |-> tree[n].own \cup UNION {f[c] : c \in Children(n)}]

GridFrom(n, f, sigs) ==
  LET below == {f[c] : c \in Children(n)}
      sample == {SampleGrid[s] : s \in sigs[n]}
      sequencer == {SequencerGrid[s] : s \in sigs[n]}
  IN  CASE tree[n].kind \in {"play", "acquire", "group", "reserve"} -> LcmOf(sample)
        [] tree[n].kind = "clear" -> LcmOf({SequencerGrid[s] : s \in sigs[tree[n].pulse]})
        [] tree[n].kind = "reset" -> tree[n].align
        [] tree[n].kind = "empty" -> LcmOf(sequencer)
        [] tree[n].kind = "match" -> LcmOf(sequencer \cup below)
        [] tree[n].kind = "root" -> LcmOf(below)
        [] OTHER -> LcmOf(SectionGrids(tree, n, sigs[n]) \cup below)
GridsAre(f, sigs) == f = [n \in Nodes |-> GridFrom(n, f, sigs)]

LoopGridFrom(n, f) == LcmOf({tree[n].loopGrid} \cup {f[c] : c \in Children(n)})
LoopGridsAre(f) == f = [n \in Nodes |-> LoopGridFrom(n, f)]

BelowAre(f) == f = [n \in Nodes |-> {n} \cup UNION {f[c] : c \in Children(n)}]

LEMMA Chosen ==
  /\ SignalsOf(tree) = CHOOSE f : SignalsAre(f)
  /\ \A sigs : GridOf(tree, sigs) = CHOOSE f : GridsAre(f, sigs)
  /\ LoopGridOf(tree) = CHOOSE f : LoopGridsAre(f)
  /\ \A n : Below(n) = (CHOOSE f : BelowAre(f))[n]
<1>1. SignalsOf(tree) = CHOOSE f : SignalsAre(f)
  BY DEF SignalsOf, SignalsAre, Children, Nodes
<1>2. ASSUME NEW sigs PROVE GridOf(tree, sigs) = CHOOSE f : GridsAre(f, sigs)
  BY DEF GridOf, GridsAre, GridFrom, Children, Nodes
<1>3. LoopGridOf(tree) = CHOOSE f : LoopGridsAre(f)
  BY DEF LoopGridOf, LoopGridsAre, LoopGridFrom, Children, Nodes
<1>4. ASSUME NEW n PROVE Below(n) = (CHOOSE f : BelowAre(f))[n]
  BY DEF Below, BelowAre
<1> QED
  BY <1>1, <1>2, <1>3, <1>4

LEMMA SignalsOfNodes ==
  ASSUME tree \in Experiments
  PROVE  SignalsOf(tree) \in [Nodes -> SUBSET Signals] /\ SignalsAre(SignalsOf(tree))
<1> DEFINE V == SUBSET Signals
           value(f, n) == tree[n].own \cup UNION {f[c] : c \in Children(n)}
           F == [f \in [Nodes -> V] |-> [n \in Nodes |-> value(f, n)]]
<1>0. V # {} /\ \A n \in Nodes : tree[n].own \in V
  BY Shape DEF NodeType
<1>1. FromChildren(V, F)
  <2>1. ASSUME NEW f \in [Nodes -> V], NEW n \in Nodes PROVE value(f, n) \in V
    BY <1>0, Shape
  <2>2. ASSUME NEW f \in [Nodes -> V], NEW g \in [Nodes -> V], NEW n \in Nodes, Agree(f, g, n)
        PROVE  value(f, n) = value(g, n)
    BY <2>2 DEF Agree
  <2> HIDE DEF V, value
  <2>3. \A f \in [Nodes -> V] : F[f] = [n \in Nodes |-> value(f, n)]
    OBVIOUS
  <2>4. F \in [[Nodes -> V] -> [Nodes -> V]]
    BY <2>1
  <2>5. ASSUME NEW f \in [Nodes -> V], NEW g \in [Nodes -> V], NEW n \in Nodes, Agree(f, g, n)
        PROVE  F[f][n] = F[g][n]
    <3> HIDE DEF F
    <3>1. F[f][n] = value(f, n) /\ F[g][n] = value(g, n)
      BY <2>3
    <3> QED
      BY <2>2, <2>5, <3>1
  <2> HIDE DEF F
  <2> QED
    BY <2>4, <2>5 DEF FromChildren
<1> HIDE DEF V
<1>2. PICK f \in [Nodes -> V] : F[f] = f
  <2> HIDE DEF F
  <2>1. FixedPoint(Nodes, V, F)
    BY <1>0, <1>1, TreeRecursion
  <2> QED
    BY <2>1 DEF FixedPoint
<1>3. SignalsAre(f)
  BY <1>2 DEF SignalsAre
<1>4. SignalsAre(SignalsOf(tree))
  BY <1>3, Chosen
<1> DEFINE g == SignalsOf(tree)
           S == {n \in Nodes : g[n] \in V}
<1> HIDE DEF g
<1>5. S = Nodes
  <2> SUFFICES ASSUME NEW n \in Nodes, Children(n) \subseteq S PROVE g[n] \in V
    <3>1. S \in SUBSET Nodes
      OBVIOUS
    <3> HIDE DEF S
    <3> QED
      BY <3>1, Upward DEF S
  <2>1. g[n] = tree[n].own \cup UNION {g[c] : c \in Children(n)}
    BY <1>4 DEF SignalsAre, g
  <2> QED
    BY <2>1, <1>0 DEF V
<1>6. DOMAIN g = Nodes /\ g = [n \in Nodes |-> g[n]]
  BY <1>4 DEF SignalsAre, g
<1> QED
  BY <1>4, <1>5, <1>6 DEF V, g

LEMMA FiniteChildren ==
  ASSUME tree \in Experiments, NEW n \in Nodes
  PROVE  IsFiniteSet(Children(n))
<1> DEFINE s == tree[n].children
<1>1. s \in Seq(Nat)
  BY Shape DEF NodeType
<1>2. Len(s) \in Nat /\ DOMAIN s = 1 .. Len(s)
  BY <1>1
<1> HIDE DEF s
<1>3. IsFiniteSet(ToSet(s))
  BY <1>2, FiniteElements
<1> QED
  BY <1>3 DEF Children, s

(* The numbers whose least common multiple is taken are finitely many.      *)
Numbers(S) == S \in SUBSET (Nat \ {0}) /\ IsFiniteSet(S)

LEMMA NumbersOf ==
  ASSUME NEW S, IsFiniteSet(S), NEW f, \A x \in S : f[x] \in Nat \ {0}
  PROVE  Numbers({f[x] : x \in S})
<1> DEFINE g == [x \in S |-> f[x]]
<1>1. IsFiniteSet({g[x] : x \in S})
  <2>1. DOMAIN g = S
    OBVIOUS
  <2> HIDE DEF g
  <2> QED
    BY <2>1, FiniteImage
<1>2. {g[x] : x \in S} = {f[x] : x \in S}
  OBVIOUS
<1>3. {f[x] : x \in S} \in SUBSET (Nat \ {0})
  OBVIOUS
<1> QED
  BY <1>1, <1>2, <1>3 DEF Numbers

LEMMA NumbersTogether ==
  /\ \A S, T : Numbers(S) /\ Numbers(T) => Numbers(S \cup T)
  /\ \A g \in Nat \ {0} : Numbers({g})
<1>1. ASSUME NEW S, NEW T, Numbers(S), Numbers(T) PROVE Numbers(S \cup T)
  BY <1>1, FS_Union DEF Numbers
<1>2. ASSUME NEW g \in Nat \ {0} PROVE Numbers({g})
  BY FS_Singleton DEF Numbers
<1> QED
  BY <1>1, <1>2

LEMMA LcmOfNumbers ==
  ASSUME NEW S, Numbers(S)
  PROVE  LcmOf(S) \in Nat \ {0} /\ \A g \in S : Divides(g, LcmOf(S))
<1>1. S \in SUBSET (Nat \ {0}) /\ IsFiniteSet(S)
  BY DEF Numbers
<1> QED
  BY <1>1, LcmOfSet

LEMMA GridsOfSignals ==
  ASSUME NEW S \in SUBSET Signals
  PROVE  Numbers({SampleGrid[s] : s \in S}) /\ Numbers({SequencerGrid[s] : s \in S})
<1>1. IsFiniteSet(S)
  BY GridAssumption, FS_Subset
<1>2. /\ \A s \in S : SampleGrid[s] \in Nat \ {0}
      /\ \A s \in S : SequencerGrid[s] \in Nat \ {0}
  BY GridAssumption
<1>3. Numbers({SampleGrid[s] : s \in S})
  BY <1>1, <1>2, NumbersOf
<1>4. Numbers({SequencerGrid[s] : s \in S})
  BY <1>1, <1>2, NumbersOf
<1> QED
  BY <1>3, <1>4

\* What a section asks of its grid.
LEMMA SectionNumbers ==
  ASSUME tree \in Experiments, NEW n \in Nodes, NEW S \in SUBSET Signals
  PROVE  Numbers(SectionGrids(tree, n, S))
<1> DEFINE sample == {SampleGrid[s] : s \in S}
           sequencer == {SequencerGrid[s] : s \in S}
           asked == SectionGrids(tree, n, S)
<1>1. Numbers({tree[n].align})
  <2>1. tree[n].align \in Nat \ {0}
    BY Shape DEF NodeType
  <2> QED
    BY <2>1, NumbersTogether
<1>2. Numbers(sample) /\ Numbers(sequencer)
  BY GridsOfSignals
<1>3. asked = {tree[n].align} \cup sample \/ asked = {tree[n].align} \cup sequencer
  BY DEF SectionGrids
<1> HIDE DEF asked, sample, sequencer
<1>4. Numbers(asked)
  BY <1>1, <1>2, <1>3, NumbersTogether
<1> QED
  BY <1>4 DEF asked

LEMMA Grid ==
  ASSUME tree \in Experiments, NEW sigs \in [Nodes -> SUBSET Signals], NEW n \in Nodes,
         NEW f, \A c \in Children(n) : f[c] \in Nat \ {0}
  PROVE  /\ GridFrom(n, f, sigs) \in Nat \ {0}
         /\ \A c \in Children(n) : Divides(f[c], GridFrom(n, f, sigs))
<1> DEFINE below == {f[c] : c \in Children(n)}
           sample == {SampleGrid[s] : s \in sigs[n]}
           sequencer == {SequencerGrid[s] : s \in sigs[n]}
           ofPulse == {SequencerGrid[s] : s \in sigs[tree[n].pulse]}
           asked == SectionGrids(tree, n, sigs[n])
<1>1. Numbers(below)
  BY FiniteChildren, NumbersOf
<1>2. Numbers(sample) /\ Numbers(sequencer)
  <2>1. sigs[n] \in SUBSET Signals
    OBVIOUS
  <2> QED
    BY <2>1, GridsOfSignals
<1>3. tree[n].kind = "clear" => Numbers(ofPulse)
  <2> SUFFICES ASSUME tree[n].kind = "clear" PROVE sigs[tree[n].pulse] \in SUBSET Signals
    BY GridsOfSignals
  <2>1. PICK p \in Nodes : \E i, j \in DOMAIN tree[p].children : tree[p].children[i] = tree[n].pulse
    BY KindAssumption DEF Nodes
  <2>2. tree[n].pulse \in Children(p)
    BY <2>1 DEF Children, ToSet
  <2> QED
    BY <2>2, Shape
<1>4. Numbers(asked)
  <2>1. sigs[n] \in SUBSET Signals
    OBVIOUS
  <2> QED
    BY <2>1, SectionNumbers
<1> HIDE DEF below, sample, sequencer, ofPulse, asked
<1>5. /\ LcmOf(sample) \in Nat \ {0} /\ LcmOf(sequencer) \in Nat \ {0} /\ LcmOf(below) \in Nat \ {0}
      /\ tree[n].kind = "clear" => LcmOf(ofPulse) \in Nat \ {0}
      /\ LcmOf(sequencer \cup below) \in Nat \ {0}
      /\ LcmOf(asked \cup below) \in Nat \ {0}
  <2>1. Numbers(sequencer \cup below) /\ Numbers(asked \cup below)
    BY <1>1, <1>2, <1>4, NumbersTogether
  <2> QED
    BY <2>1, <1>1, <1>2, <1>3, LcmOfNumbers
<1>6. tree[n].align \in Nat \ {0}
  BY Shape DEF NodeType
<1>7. GridFrom(n, f, sigs) =
        CASE tree[n].kind \in {"play", "acquire", "group", "reserve"} -> LcmOf(sample)
          [] tree[n].kind = "clear" -> LcmOf(ofPulse)
          [] tree[n].kind = "reset" -> tree[n].align
          [] tree[n].kind = "empty" -> LcmOf(sequencer)
          [] tree[n].kind = "match" -> LcmOf(sequencer \cup below)
          [] tree[n].kind = "root" -> LcmOf(below)
          [] OTHER -> LcmOf(asked \cup below)
  BY DEF GridFrom, below, sample, sequencer, ofPulse, asked
<1>8. GridFrom(n, f, sigs) \in Nat \ {0}
  <2> DEFINE V == Nat \ {0}
             a == LcmOf(sample)
             b == LcmOf(ofPulse)
             c == LcmOf(sequencer)
             d == LcmOf(sequencer \cup below)
             e == LcmOf(below)
             h == LcmOf(asked \cup below)
  <2>1. a \in V /\ c \in V /\ d \in V /\ e \in V /\ h \in V /\ tree[n].align \in V
        /\ (tree[n].kind = "clear" => b \in V)
    BY <1>5, <1>6
  <2> HIDE DEF V, a, b, c, d, e, h
  <2>2. GridFrom(n, f, sigs) \in V
    BY <2>1, <1>7 DEF a, b, c, d, e, h
  <2> QED
    BY <2>2 DEF V
<1>9. ASSUME NEW c \in Children(n)
      PROVE  Divides(f[c], GridFrom(n, f, sigs))
  <2>1. tree[n].kind \notin Leaves
    <3>1. tree[n].children # << >>
      BY DEF Children, ToSet
    <3> QED
      BY <3>1, KindAssumption DEF Nodes
  <2>2. PICK all : GridFrom(n, f, sigs) = LcmOf(all)
                   /\ all \in {sequencer \cup below, below, asked \cup below}
    BY <1>7, <2>1 DEF Leaves
  <2>3. Numbers(all)
    BY <1>1, <1>2, <1>4, <2>2, NumbersTogether
  <2>4. f[c] \in all
    BY <2>2 DEF below
  <2> QED
    BY <2>2, <2>3, <2>4, LcmOfNumbers
<1> QED
  BY <1>8, <1>9

LEMMA GridsOfNodes ==
  ASSUME tree \in Experiments, NEW sigs \in [Nodes -> SUBSET Signals]
  PROVE  GridOf(tree, sigs) \in [Nodes -> Nat \ {0}] /\ GridsAre(GridOf(tree, sigs), sigs)
<1> DEFINE V == Nat \ {0}
           value(f, n) == GridFrom(n, f, sigs)
           F == [f \in [Nodes -> V] |-> [n \in Nodes |-> value(f, n)]]
<1>0. V # {}
  <2>1. 1 \in V
    OBVIOUS
  <2> QED
    BY <2>1
<1>1. ASSUME NEW f, NEW n \in Nodes, \A c \in Children(n) : f[c] \in V
      PROVE  value(f, n) \in V
  BY <1>1, Grid
<1>2. FromChildren(V, F)
  <2>1. ASSUME NEW f \in [Nodes -> V], NEW n \in Nodes PROVE value(f, n) \in V
    <3>1. \A c \in Children(n) : f[c] \in V
      <4> HIDE DEF V
      <4> QED
        BY Shape
    <3> HIDE DEF V, value
    <3> QED
      BY <3>1, <1>1
  <2>2. ASSUME NEW f \in [Nodes -> V], NEW g \in [Nodes -> V], NEW n \in Nodes, Agree(f, g, n)
        PROVE  value(f, n) = value(g, n)
    BY <2>2 DEF Agree, GridFrom
  <2> HIDE DEF V, value
  <2>3. \A f \in [Nodes -> V] : F[f] = [n \in Nodes |-> value(f, n)]
    OBVIOUS
  <2>4. F \in [[Nodes -> V] -> [Nodes -> V]]
    BY <2>1
  <2>5. ASSUME NEW f \in [Nodes -> V], NEW g \in [Nodes -> V], NEW n \in Nodes, Agree(f, g, n)
        PROVE  F[f][n] = F[g][n]
    <3> HIDE DEF F
    <3>1. F[f][n] = value(f, n) /\ F[g][n] = value(g, n)
      BY <2>3
    <3> QED
      BY <2>2, <2>5, <3>1
  <2> HIDE DEF F
  <2> QED
    BY <2>4, <2>5 DEF FromChildren
<1> HIDE DEF V, value
<1>3. PICK f \in [Nodes -> V] : F[f] = f
  <2> HIDE DEF F
  <2>1. FixedPoint(Nodes, V, F)
    BY <1>0, <1>2, TreeRecursion
  <2> QED
    BY <2>1 DEF FixedPoint
<1>4. f = [n \in Nodes |-> value(f, n)]
  BY <1>3
<1>5. GridsAre(f, sigs)
  BY <1>4 DEF GridsAre, value
<1> DEFINE g == GridOf(tree, sigs)
<1>6. GridsAre(g, sigs)
  BY <1>5, Chosen
<1> HIDE DEF g
<1>7. g = [n \in Nodes |-> value(g, n)]
  BY <1>6 DEF GridsAre, value
<1> DEFINE S == {n \in Nodes : g[n] \in V}
<1>8. S = Nodes
  <2> SUFFICES ASSUME NEW n \in Nodes, Children(n) \subseteq S PROVE g[n] \in V
    <3>1. S \in SUBSET Nodes
      OBVIOUS
    <3> HIDE DEF S
    <3> QED
      BY <3>1, Upward DEF S
  <2>1. g[n] = value(g, n)
    BY <1>7
  <2>2. \A c \in Children(n) : g[c] \in V
    OBVIOUS
  <2> QED
    BY <2>1, <2>2, <1>1
<1>9. g \in [Nodes -> V]
  <2>1. \A n \in Nodes : value(g, n) \in V
    BY <1>7, <1>8
  <2>2. [n \in Nodes |-> value(g, n)] \in [Nodes -> V]
    BY <2>1
  <2> QED
    BY <2>2, <1>7
<1> QED
  <2> HIDE DEF F
  <2>1. GridOf(tree, sigs) \in [Nodes -> Nat \ {0}]
    BY <1>9 DEF V, g
  <2>2. GridsAre(GridOf(tree, sigs), sigs)
    BY <1>6 DEF g
  <2> QED
    BY <2>1, <2>2

LEMMA LoopGridsOfNodes ==
  ASSUME tree \in Experiments
  PROVE  LoopGridOf(tree) \in [Nodes -> Nat \ {0}] /\ LoopGridsAre(LoopGridOf(tree))
<1> DEFINE V == Nat \ {0}
           value(f, n) == LoopGridFrom(n, f)
           F == [f \in [Nodes -> V] |-> [n \in Nodes |-> value(f, n)]]
<1>0. V # {}
  <2>1. 1 \in V
    OBVIOUS
  <2> QED
    BY <2>1
<1>1. ASSUME NEW f, NEW n \in Nodes, \A c \in Children(n) : f[c] \in V
      PROVE  value(f, n) \in V
  <2>1. Numbers({f[c] : c \in Children(n)})
    BY <1>1, FiniteChildren, NumbersOf
  <2>2. Numbers({tree[n].loopGrid})
    <3>1. tree[n].loopGrid \in Nat \ {0}
      BY Shape DEF NodeType
    <3> QED
      BY <3>1, NumbersTogether
  <2>3. Numbers({tree[n].loopGrid} \cup {f[c] : c \in Children(n)})
    BY <2>1, <2>2, NumbersTogether
  <2> QED
    BY <2>3, LcmOfNumbers DEF LoopGridFrom
<1>2. FromChildren(V, F)
  <2>1. ASSUME NEW f \in [Nodes -> V], NEW n \in Nodes PROVE value(f, n) \in V
    <3>1. \A c \in Children(n) : f[c] \in V
      <4> HIDE DEF V
      <4> QED
        BY Shape
    <3> HIDE DEF V, value
    <3> QED
      BY <3>1, <1>1
  <2>2. ASSUME NEW f \in [Nodes -> V], NEW g \in [Nodes -> V], NEW n \in Nodes, Agree(f, g, n)
        PROVE  value(f, n) = value(g, n)
    BY <2>2 DEF Agree, LoopGridFrom
  <2> HIDE DEF V, value
  <2>3. \A f \in [Nodes -> V] : F[f] = [n \in Nodes |-> value(f, n)]
    OBVIOUS
  <2>4. F \in [[Nodes -> V] -> [Nodes -> V]]
    BY <2>1
  <2>5. ASSUME NEW f \in [Nodes -> V], NEW g \in [Nodes -> V], NEW n \in Nodes, Agree(f, g, n)
        PROVE  F[f][n] = F[g][n]
    <3> HIDE DEF F
    <3>1. F[f][n] = value(f, n) /\ F[g][n] = value(g, n)
      BY <2>3
    <3> QED
      BY <2>2, <2>5, <3>1
  <2> HIDE DEF F
  <2> QED
    BY <2>4, <2>5 DEF FromChildren
<1> HIDE DEF V, value
<1>3. PICK f \in [Nodes -> V] : F[f] = f
  <2> HIDE DEF F
  <2>1. FixedPoint(Nodes, V, F)
    BY <1>0, <1>2, TreeRecursion
  <2> QED
    BY <2>1 DEF FixedPoint
<1>4. f = [n \in Nodes |-> value(f, n)]
  BY <1>3
<1>5. LoopGridsAre(f)
  BY <1>4 DEF LoopGridsAre, value
<1> DEFINE g == LoopGridOf(tree)
<1>6. LoopGridsAre(g)
  BY <1>5, Chosen
<1> HIDE DEF g
<1>7. g = [n \in Nodes |-> value(g, n)]
  BY <1>6 DEF LoopGridsAre, value
<1> DEFINE S == {n \in Nodes : g[n] \in V}
<1>8. S = Nodes
  <2> SUFFICES ASSUME NEW n \in Nodes, Children(n) \subseteq S PROVE g[n] \in V
    <3>1. S \in SUBSET Nodes
      OBVIOUS
    <3> HIDE DEF S
    <3> QED
      BY <3>1, Upward DEF S
  <2>1. g[n] = value(g, n)
    BY <1>7
  <2>2. \A c \in Children(n) : g[c] \in V
    OBVIOUS
  <2> QED
    BY <2>1, <2>2, <1>1
<1>9. g \in [Nodes -> V]
  <2>1. \A n \in Nodes : value(g, n) \in V
    BY <1>7, <1>8
  <2>2. [n \in Nodes |-> value(g, n)] \in [Nodes -> V]
    BY <2>1
  <2> QED
    BY <2>2, <1>7
<1> QED
  <2> HIDE DEF F
  <2>1. LoopGridOf(tree) \in [Nodes -> Nat \ {0}]
    BY <1>9 DEF V, g
  <2>2. LoopGridsAre(LoopGridOf(tree))
    BY <1>6 DEF g
  <2> QED
    BY <2>1, <2>2

LEMMA BelowNodes ==
  ASSUME tree \in Experiments
  PROVE  (CHOOSE h : BelowAre(h)) \in [Nodes -> SUBSET Nodes] /\ BelowAre(CHOOSE h : BelowAre(h))
<1> DEFINE V == SUBSET Nodes
           value(f, n) == {n} \cup UNION {f[c] : c \in Children(n)}
           F == [f \in [Nodes -> V] |-> [n \in Nodes |-> value(f, n)]]
<1>0. V # {}
  OBVIOUS
<1>1. ASSUME NEW f, NEW n \in Nodes, \A c \in Children(n) : f[c] \in V
      PROVE  value(f, n) \in V
  BY <1>1
<1>2. FromChildren(V, F)
  <2>1. ASSUME NEW f \in [Nodes -> V], NEW n \in Nodes PROVE value(f, n) \in V
    <3>1. \A c \in Children(n) : f[c] \in V
      <4> HIDE DEF V
      <4> QED
        BY Shape
    <3> HIDE DEF V, value
    <3> QED
      BY <3>1, <1>1
  <2>2. ASSUME NEW f \in [Nodes -> V], NEW g \in [Nodes -> V], NEW n \in Nodes, Agree(f, g, n)
        PROVE  value(f, n) = value(g, n)
    BY <2>2 DEF Agree
  <2> HIDE DEF V, value
  <2>3. \A f \in [Nodes -> V] : F[f] = [n \in Nodes |-> value(f, n)]
    OBVIOUS
  <2>4. F \in [[Nodes -> V] -> [Nodes -> V]]
    BY <2>1
  <2>5. ASSUME NEW f \in [Nodes -> V], NEW g \in [Nodes -> V], NEW n \in Nodes, Agree(f, g, n)
        PROVE  F[f][n] = F[g][n]
    <3> HIDE DEF F
    <3>1. F[f][n] = value(f, n) /\ F[g][n] = value(g, n)
      BY <2>3
    <3> QED
      BY <2>2, <2>5, <3>1
  <2> HIDE DEF F
  <2> QED
    BY <2>4, <2>5 DEF FromChildren
<1> HIDE DEF V, value
<1>3. PICK f \in [Nodes -> V] : F[f] = f
  <2> HIDE DEF F
  <2>1. FixedPoint(Nodes, V, F)
    BY <1>0, <1>2, TreeRecursion
  <2> QED
    BY <2>1 DEF FixedPoint
<1>4. f = [n \in Nodes |-> value(f, n)]
  BY <1>3
<1>5. BelowAre(f)
  BY <1>4 DEF BelowAre, value
<1> DEFINE g == (CHOOSE h : BelowAre(h))
<1>6. BelowAre(g)
  BY <1>5
<1> HIDE DEF g
<1>7. g = [n \in Nodes |-> value(g, n)]
  BY <1>6 DEF BelowAre, value
<1> DEFINE S == {n \in Nodes : g[n] \in V}
<1>8. S = Nodes
  <2> SUFFICES ASSUME NEW n \in Nodes, Children(n) \subseteq S PROVE g[n] \in V
    <3>1. S \in SUBSET Nodes
      OBVIOUS
    <3> HIDE DEF S
    <3> QED
      BY <3>1, Upward DEF S
  <2>1. g[n] = value(g, n)
    BY <1>7
  <2>2. \A c \in Children(n) : g[c] \in V
    OBVIOUS
  <2> QED
    BY <2>1, <2>2, <1>1
<1>9. g \in [Nodes -> V]
  <2>1. \A n \in Nodes : value(g, n) \in V
    BY <1>7, <1>8
  <2>2. [n \in Nodes |-> value(g, n)] \in [Nodes -> V]
    BY <2>1
  <2> QED
    BY <2>2, <1>7
<1> QED
  <2> HIDE DEF F
  <2>1. (CHOOSE h : BelowAre(h)) \in [Nodes -> SUBSET Nodes]
    BY <1>9 DEF V, g
  <2>2. BelowAre(CHOOSE h : BelowAre(h))
    BY <1>6 DEF g
  <2> QED
    BY <2>1, <2>2

LEMMA Facts ==
  ASSUME Built
  PROVE  /\ signals \in [Nodes -> SUBSET Signals]
         /\ \A n \in Nodes : \A c \in Children(n) : signals[c] \subseteq signals[n]
         /\ \A n \in Nodes : tree[n].kind = "clear" => signals[n] = {}
         /\ grid \in [Nodes -> Nat \ {0}] /\ loopGrid \in [Nodes -> Nat \ {0}]
         /\ \A n \in Nodes : \A c \in Children(n) : Divides(grid[c], grid[n])
         /\ GridsAre(grid, signals)
<1>1. tree \in Experiments /\ signals = SignalsOf(tree)
      /\ grid = GridOf(tree, signals) /\ loopGrid = LoopGridOf(tree)
  BY DEF Built
<1>2. signals \in [Nodes -> SUBSET Signals] /\ SignalsAre(signals)
  BY <1>1, SignalsOfNodes
<1>3. \A n \in Nodes : signals[n] = tree[n].own \cup UNION {signals[c] : c \in Children(n)}
  BY <1>2 DEF SignalsAre
<1>4. ASSUME NEW n \in Nodes, tree[n].kind = "clear" PROVE signals[n] = {}
  <2>1. tree[n].own = {} /\ tree[n].children = << >>
    BY <1>1, <1>4, KindAssumption DEF Nodes, Leaves
  <2>2. Children(n) = {}
    BY <2>1 DEF Children, ToSet
  <2> QED
    BY <1>3, <2>1, <2>2
<1>5. grid \in [Nodes -> Nat \ {0}] /\ GridsAre(grid, signals)
  BY <1>1, <1>2, GridsOfNodes
<1>6. loopGrid \in [Nodes -> Nat \ {0}]
  BY <1>1, LoopGridsOfNodes
<1>7. ASSUME NEW n \in Nodes, NEW c \in Children(n)
      PROVE  Divides(grid[c], grid[n])
  <2>1. grid[n] = GridFrom(n, grid, signals)
    BY <1>5 DEF GridsAre
  <2>2. \A d \in Children(n) : grid[d] \in Nat \ {0}
    BY <1>1, <1>5, Shape
  <2>3. \A d \in Children(n) : Divides(grid[d], GridFrom(n, grid, signals))
    BY <1>1, <1>2, <2>2, Grid
  <2> QED
    BY <2>1, <2>3
<1> QED
  BY <1>2, <1>3, <1>4, <1>5, <1>6, <1>7

LEMMA BelowIs ==
  ASSUME tree \in Experiments, NEW n \in Nodes
  PROVE  Below(n) \subseteq Nodes /\ Below(n) = {n} \cup UNION {Below(c) : c \in Children(n)}
<1> DEFINE f == CHOOSE f : BelowAre(f)
<1>1. f \in [Nodes -> SUBSET Nodes] /\ BelowAre(f)
  BY BelowNodes
<1>2. \A m : Below(m) = f[m]
  BY Chosen
<1> HIDE DEF f
<1>3. f[n] = {n} \cup UNION {f[c] : c \in Children(n)} /\ f[n] \subseteq Nodes
  BY <1>1 DEF BelowAre
<1>4. {f[c] : c \in Children(n)} = {Below(c) : c \in Children(n)}
  BY <1>2
<1> QED
  BY <1>2, <1>3, <1>4

LEMMA BelowWays ==
  ASSUME tree \in Experiments, NEW n \in Nodes
  PROVE  /\ n \in Below(n)
         /\ \A c \in Children(n) : Below(c) \subseteq Below(n)
         /\ \A m \in Below(n) : m = n \/ \E c \in Children(n) : m \in Below(c)
<1>1. Below(n) = {n} \cup UNION {Below(c) : c \in Children(n)}
  BY BelowIs
<1> QED
  BY <1>1

LEMMA BelowIsLater ==
  ASSUME tree \in Experiments, NEW n \in Nodes, NEW m \in Below(n)
  PROVE  m \in Nodes /\ m >= n /\ (m # n => m # 1 /\ Parent(m) \in Below(n))
<1> DEFINE Good(k) == \A l \in Below(k) : l >= k /\ (l # k => l # 1 /\ Parent(l) \in Below(k))
           S == {k \in Nodes : Good(k)}
<1>1. ASSUME NEW k \in Nodes, Children(k) \subseteq S PROVE k \in S
  <2> SUFFICES ASSUME NEW l \in Below(k)
               PROVE  l >= k /\ (l # k => l # 1 /\ Parent(l) \in Below(k))
    OBVIOUS
  <2>1. CASE l = k
    <3>1. k \in Nat
      BY Shape
    <3> QED
      BY <3>1, <2>1
  <2>2. CASE l # k
    <3>1. PICK c \in Children(k) : l \in Below(c)
      BY <2>2, BelowWays
    <3>2. Good(c)
      BY <1>1
    <3>3. c \in Nodes /\ c # 1 /\ k < c /\ Parent(c) = k /\ l \in Nodes
      BY Families, BelowIs
    <3>4. l >= k
      <4>1. l >= c
        BY <3>1, <3>2
      <4>2. l \in Int /\ c \in Int /\ k \in Int
        BY <3>3, Shape
      <4> QED
        BY <4>1, <4>2, <3>3
    <3>5. k \in Below(k) /\ Below(c) \subseteq Below(k)
      BY BelowWays
    <3>6. l # 1 /\ Parent(l) \in Below(k)
      <4>1. CASE l = c
        BY <4>1, <3>3, <3>5
      <4>2. CASE l # c
        BY <4>2, <3>1, <3>2, <3>5
      <4> QED
        BY <4>1, <4>2
    <3> QED
      BY <3>4, <3>6
  <2> QED
    BY <2>1, <2>2
<1>2. S = Nodes
  <2>1. S \in SUBSET Nodes
    OBVIOUS
  <2> HIDE DEF S
  <2> QED
    BY <1>1, <2>1, Upward
<1>3. Good(n)
  BY <1>2
<1> QED
  BY <1>3, BelowIs

LEMMA BelowContains ==
  ASSUME tree \in Experiments, NEW n \in Nodes, NEW m \in Below(n)
  PROVE  Below(m) \subseteq Below(n) /\ Children(m) \subseteq Below(n)
<1> DEFINE Good(k) == \A l \in Below(k) : Below(l) \subseteq Below(k)
           S == {k \in Nodes : Good(k)}
<1>1. ASSUME NEW k \in Nodes, Children(k) \subseteq S PROVE k \in S
  <2> SUFFICES ASSUME NEW l \in Below(k) PROVE Below(l) \subseteq Below(k)
    OBVIOUS
  <2>1. CASE l = k
    BY <2>1
  <2>2. CASE l # k
    <3>1. PICK c \in Children(k) : l \in Below(c)
      BY <2>2, BelowWays
    <3>2. Below(c) \subseteq Below(k)
      BY BelowWays
    <3>3. Good(c)
      BY <1>1
    <3> QED
      BY <3>1, <3>2, <3>3
  <2> QED
    BY <2>1, <2>2
<1>2. S = Nodes
  <2>1. S \in SUBSET Nodes
    OBVIOUS
  <2> HIDE DEF S
  <2> QED
    BY <1>1, <2>1, Upward
<1>3. Below(m) \subseteq Below(n)
  BY <1>2
<1>4. m \in Nodes
  BY BelowIs
<1>5. \A c \in Children(m) : c \in Below(m)
  <2> SUFFICES ASSUME NEW c \in Children(m) PROVE c \in Below(m)
    OBVIOUS
  <2>1. c \in Nodes /\ Below(c) \subseteq Below(m)
    BY <1>4, Shape, BelowWays
  <2> QED
    BY <2>1, BelowWays
<1> QED
  BY <1>3, <1>5

LEMMA Branches ==
  ASSUME tree \in Experiments, NEW p \in Nodes, NEW b \in Children(p), NEW c \in Children(p), b # c
  PROVE  Below(b) \cap Below(c) = {}
<1>1. b \in Nodes /\ c \in Nodes /\ Parent(b) = p /\ Parent(c) = p /\ p < b /\ p < c
  BY Families
<1>2. b \notin Below(c) /\ c \notin Below(b)
  <2>1. \A x, y \in Children(p) : x # y => x \notin Below(y)
    <3> SUFFICES ASSUME NEW x \in Children(p), NEW y \in Children(p), x # y, x \in Below(y)
                 PROVE  FALSE
      OBVIOUS
    <3>1. x \in Nodes /\ y \in Nodes /\ Parent(x) = p /\ p < y
      BY Families
    <3>2. p \in Below(y)
      BY <3>1, BelowIsLater
    <3>3. p >= y
      BY <3>1, <3>2, BelowIsLater
    <3>4. p \in Int /\ y \in Int
      BY <3>1, Shape
    <3> QED
      BY <3>1, <3>3, <3>4
  <2> QED
    BY <2>1
<1> SUFFICES ASSUME Below(b) \cap Below(c) # {} PROVE FALSE
  OBVIOUS
<1>3. PICK m \in Below(b) \cap Below(c) : \A k \in Below(b) \cap Below(c) : m <= k
  <2>1. Below(b) \cap Below(c) \in SUBSET Nat
    BY <1>1, BelowIs, Shape
  <2> QED
    BY <2>1, Least
<1>4. m # b /\ m # c
  BY <1>2
<1>5. m \in Nodes /\ Parent(m) \in Below(b) /\ Parent(m) \in Below(c) /\ m # 1
  BY <1>1, <1>4, BelowIsLater
<1>6. Parent(m) < m
  BY <1>5, Families
<1>7. m <= Parent(m)
  BY <1>3, <1>5
<1>8. m \in Int /\ Parent(m) \in Int
  BY <1>5, Families, Shape
<1> QED
  BY <1>6, <1>7, <1>8

LEMMA Everything ==
  ASSUME tree \in Experiments
  PROVE  Below(1) = Nodes
<1>1. 1 \in Nodes
  BY Shape
<1>2. Below(1) \in SUBSET Nodes /\ 1 \in Below(1)
  BY <1>1, BelowIs, BelowWays
<1>3. \A n \in Below(1) : Children(n) \subseteq Below(1)
  BY <1>1, BelowContains
<1> QED
  BY <1>2, <1>3, Downward

-----------------------------------------------------------------------------
(* The children of a call, in the order they are visited in.                *)

LEMMA Indices ==
  ASSUME tree \in Experiments, NEW n \in Nodes
  PROVE  LET s == tree[n].children
         IN  /\ s \in Seq(Nodes) /\ IsInjective(s) /\ Len(s) \in Nat /\ DOMAIN s = 1 .. Len(s)
             /\ Children(n) = {s[i] : i \in 1 .. Len(s)}
             /\ \A i \in 1 .. Len(s) : s[i] \in Children(n) /\ Index(n, s[i]) = i
             /\ \A c \in Children(n) : Index(n, c) \in 1 .. Len(s) /\ s[Index(n, c)] = c
<1> DEFINE s == tree[n].children
<1>1. s \in Seq(Nat)
  BY Shape DEF NodeType
<1>2. IsInjective(s)
  BY TreeAssumption DEF Nodes
<1>3. Children(n) = ToSet(s)
  BY DEF Children
<1>4. \A c \in ToSet(s) : c \in Nodes
  BY <1>3, Shape
<1> HIDE DEF s
<1>5. Len(s) \in Nat /\ DOMAIN s = 1 .. Len(s) /\ s \in [1 .. Len(s) -> Nat]
  BY <1>1
<1>6. ToSet(s) = {s[i] : i \in 1 .. Len(s)}
  BY <1>5 DEF ToSet
<1>7. s \in [1 .. Len(s) -> Nodes]
  BY <1>4, <1>5, <1>6
<1>8. s \in Seq(Nodes)
  BY <1>5, <1>7, SeqByElements
<1>9. ASSUME NEW c \in ToSet(s)
      PROVE  Index(n, c) \in 1 .. Len(s) /\ s[Index(n, c)] = c
  <2>1. \E i \in 1 .. Len(s) : s[i] = c
    BY <1>6
  <2>2. Index(n, c) = CHOOSE i \in 1 .. Len(s) : s[i] = c
    BY <1>5 DEF Index, s
  <2> QED
    BY <2>1, <2>2
<1>10. ASSUME NEW i \in 1 .. Len(s) PROVE s[i] \in ToSet(s) /\ Index(n, s[i]) = i
  <2>1. s[i] \in ToSet(s)
    BY <1>6
  <2>2. Index(n, s[i]) \in 1 .. Len(s) /\ s[Index(n, s[i])] = s[i]
    BY <2>1, <1>9
  <2> QED
    BY <2>1, <2>2, <1>2, <1>5 DEF IsInjective
<1> QED
  BY <1>2, <1>3, <1>5, <1>6, <1>8, <1>9, <1>10 DEF s

LEMMA Orders ==
  ASSUME tree \in Experiments, NEW n \in Nodes
  PROVE  LET len == Len(tree[n].children)
         IN  /\ Order(n) \in Seq(Nodes) /\ IsInjective(Order(n)) /\ Len(Order(n)) = len
             /\ ToSet(Order(n)) = Children(n)
             /\ \A i \in 1 .. len :
                  Index(n, Order(n)[i]) = IF RightArranged(n) THEN len + 1 - i ELSE i
<1> DEFINE s == tree[n].children
           len == Len(s)
<1>1. /\ s \in Seq(Nodes) /\ IsInjective(s) /\ len \in Nat
      /\ \A i \in 1 .. len : Index(n, s[i]) = i
  BY Indices
<1>2. Children(n) = ToSet(s)
  BY DEF Children
<1>3. CASE ~RightArranged(n)
  BY <1>1, <1>2, <1>3 DEF Order
<1>4. CASE RightArranged(n)
  <2> DEFINE r == Reverse(s)
  <2>1. Order(n) = r
    BY <1>4 DEF Order
  <2> HIDE DEF s
  <2>2. /\ r \in Seq(Nodes) /\ Len(r) = len /\ ToSet(r) = ToSet(s) /\ IsInjective(r)
        /\ \A i \in 1 .. len : r[i] = s[len + 1 - i]
    BY <1>1, Backwards
  <2> HIDE DEF r
  <2>3. ASSUME NEW i \in 1 .. len PROVE Index(n, r[i]) = len + 1 - i
    <3>1. len + 1 - i \in 1 .. len
      BY <1>1
    <3> QED
      BY <3>1, <2>2, <1>1
  <2> QED
    BY <1>2, <1>4, <2>1, <2>2, <2>3 DEF s
<1> QED
  BY <1>3, <1>4

LEMMA Ahead ==
  ASSUME tree \in Experiments, NEW f, f.node \in Nodes, Progress(f)
  PROVE  /\ f.todo \in Seq(Nodes) /\ ToSet(f.todo) \subseteq Children(f.node)
         /\ f.todo = << >> => Visited(f) = Children(f.node)
<1> DEFINE n == f.node
           s == Order(n)
           len == Len(tree[n].children)
<1>1. PICK k \in Nat : IsRest(f.todo, s, k)
  BY DEF Progress
<1>2. s \in Seq(Nodes) /\ IsInjective(s) /\ Len(s) = len /\ ToSet(s) = Children(n)
  BY Orders
<1> HIDE DEF s, len
<1>3. f.todo \in Seq(Nodes) /\ Len(f.todo) = len - k /\ \A i \in 1 .. (len - k) : f.todo[i] = s[k + i]
  <2>1. k \in 0 .. Len(s) /\ f.todo = SubSeq(s, k + 1, Len(s))
    BY <1>1 DEF IsRest
  <2> QED
    BY <2>1, <1>2, SuffixElements
<1>4. ToSet(f.todo) \subseteq ToSet(s)
  <2> SUFFICES ASSUME NEW i \in 1 .. (len - k) PROVE s[k + i] \in ToSet(s)
    BY <1>3 DEF ToSet
  <2>1. len \in Nat /\ DOMAIN s = 1 .. len
    BY <1>2
  <2>2. k + i \in DOMAIN s
    BY <2>1
  <2> QED
    BY <2>2 DEF ToSet
<1>5. f.todo = << >> => Visited(f) = Children(n)
  BY DEF Visited, ToSet
<1> QED
  BY <1>2, <1>3, <1>4, <1>5

LEMMA Step ==
  ASSUME tree \in Experiments, NEW f, f.node \in Nodes, Progress(f), f.todo # << >>,
         NEW g, g.node = f.node, g.todo = Tail(f.todo)
  PROVE  LET c == Head(f.todo)
         IN  /\ c \in Children(f.node) /\ c \notin Visited(f)
             /\ Progress(g) /\ Visited(g) = Visited(f) \cup {c}
             /\ ToSet(f.todo) = ToSet(g.todo) \cup {c} /\ c \notin ToSet(g.todo)
             /\ \A b \in Children(f.node) :
                  /\ RightArranged(f.node) /\ Index(f.node, b) > Index(f.node, c) => b \in Visited(f)
                  /\ ~RightArranged(f.node) =>
                       (Index(f.node, b) < Index(f.node, c) <=> b \in Visited(f))
<1> DEFINE n == f.node
           s == Order(n)
           len == Len(tree[n].children)
           c == Head(f.todo)
           Place(i) == IF RightArranged(n) THEN len + 1 - i ELSE i
<1>1. PICK k \in Nat : IsRest(f.todo, s, k)
  BY DEF Progress
<1>2. /\ s \in Seq(Nodes) /\ IsInjective(s) /\ Len(s) = len /\ ToSet(s) = Children(n)
      /\ \A i \in 1 .. len : Index(n, s[i]) = Place(i)
  BY Orders
<1>0. len \in Nat
  BY Indices
<1> HIDE DEF s, len, Place
<1>3. /\ \A i \in 1 .. len : s[i] \in ToSet(f.todo) <=> i > k
      /\ k = len => f.todo = << >>
      /\ k # len => Head(f.todo) = s[k + 1] /\ IsRest(Tail(f.todo), s, k + 1)
  <2> DEFINE t == f.todo
  <2>1. IsRest(t, s, k)
    BY <1>1
  <2> HIDE DEF t
  <2>2. /\ \A i \in 1 .. Len(s) : s[i] \in ToSet(t) <=> i > k
        /\ k = Len(s) => t = << >>
        /\ k # Len(s) => Head(t) = s[k + 1] /\ IsRest(Tail(t), s, k + 1)
    <3>1. \A i \in 1 .. Len(s) : s[i] \in ToSet(t) <=> i > k
      BY <2>1, <1>2, WorkedOff
    <3>2. k = Len(s) => t = << >>
      BY <2>1, <1>2, WorkedOff
    <3>3. k # Len(s) => Head(t) = s[k + 1]
      BY <2>1, <1>2, WorkedOff
    <3>4. k # Len(s) => IsRest(Tail(t), s, k + 1)
      BY <2>1, <1>2, WorkedOff
    <3> QED
      BY <3>1, <3>2, <3>3, <3>4
  <2>3. Len(s) = len
    BY <1>2
  <2> QED
    BY <2>2, <2>3 DEF t
<1>4. k # len /\ k + 1 \in 1 .. len
  <2>1. k \in 0 .. len
    BY <1>1, <1>2 DEF IsRest
  <2> QED
    BY <1>0, <1>3, <2>1
<1>5. c = s[k + 1] /\ IsRest(g.todo, s, k + 1)
  BY <1>3, <1>4
<1>6. \A i \in 1 .. len : s[i] \in ToSet(g.todo) <=> i > k + 1
  <2> DEFINE l == k + 1
  <2>1. IsRest(g.todo, s, l) /\ l \in Nat
    BY <1>5
  <2> HIDE DEF l
  <2>2. \A i \in 1 .. Len(s) : s[i] \in ToSet(g.todo) <=> i > l
    BY <2>1, <1>2, WorkedOff
  <2> QED
    BY <2>2, <1>2 DEF l
<1>7. DOMAIN s = 1 .. len /\ Children(n) = {s[i] : i \in 1 .. len}
  <2>1. DOMAIN s = 1 .. len
    BY <1>2
  <2> QED
    BY <2>1, <1>2 DEF ToSet
<1>8. Progress(g)
  <2>1. tree[g.node].kind \notin Leaves /\ g.node = n
    BY DEF Progress
  <2>2. k + 1 \in Nat
    OBVIOUS
  <2> QED
    BY <1>5, <2>1, <2>2 DEF Progress, s
<1>9. ToSet(f.todo) \subseteq Children(n) /\ ToSet(g.todo) \subseteq Children(n)
  BY <1>8, Ahead
<1>10. \A i \in 1 .. len : i > k <=> i > k + 1 \/ i = k + 1
  BY <1>0
<1>11. \A i \in 1 .. len : s[i] = c <=> i = k + 1
  BY <1>2, <1>4, <1>5, <1>7 DEF IsInjective
<1>12. ToSet(f.todo) = ToSet(g.todo) \cup {c}
  <2>1. \A b \in Children(n) : b \in ToSet(f.todo) <=> b \in ToSet(g.todo) \/ b = c
    BY <1>3, <1>6, <1>7, <1>10, <1>11
  <2>2. c \in Children(n)
    BY <1>4, <1>5, <1>7
  <2> QED
    BY <2>1, <2>2, <1>9
<1>13. c \in Children(n) /\ c \in ToSet(f.todo) /\ c \notin ToSet(g.todo)
  <2>1. ~(k + 1 > k + 1)
    BY <1>0
  <2> QED
    BY <2>1, <1>4, <1>5, <1>6, <1>7, <1>12
<1>14. c \notin Visited(f) /\ Visited(g) = Visited(f) \cup {c}
  BY <1>12, <1>13 DEF Visited
<1>15. ASSUME NEW b \in Children(n)
       PROVE  /\ RightArranged(n) /\ Index(n, b) > Index(n, c) => b \in Visited(f)
              /\ ~RightArranged(n) => (Index(n, b) < Index(n, c) <=> b \in Visited(f))
  <2>1. PICK i \in 1 .. len : b = s[i]
    BY <1>7
  <2>2. b \in Visited(f) <=> ~(i > k)
    BY <2>1, <1>3 DEF Visited
  <2>3. Index(n, b) = Place(i) /\ Index(n, c) = Place(k + 1)
    BY <2>1, <1>2, <1>4, <1>5
  <2>4. RightArranged(n) => (Place(i) > Place(k + 1) <=> ~(i > k))
    BY <1>0, <1>4 DEF Place
  <2>5. ~RightArranged(n) => (Place(i) < Place(k + 1) <=> ~(i > k))
    BY <1>0, <1>4 DEF Place
  <2> QED
    BY <2>2, <2>3, <2>4, <2>5
<1> QED
  BY <1>8, <1>12, <1>13, <1>14, <1>15

-----------------------------------------------------------------------------
(* Where a child is placed.                                                *)

Bounded(S, f) == IsFiniteSet(S) /\ \A x \in S : f[x] \in Int
Values(S, f, T, g) == {0} \cup {f[x] : x \in S} \cup {g[y] : y \in T}

LEMMA Largest ==
  ASSUME NEW S, NEW T, NEW f, NEW g, Bounded(S, f), Bounded(T, g)
  PROVE  LET all == Values(S, f, T, g)
         IN  /\ Max(all) \in Int /\ Max(all) >= 0 /\ Max(all) \in all
             /\ \A x \in S : f[x] <= Max(all)
             /\ \A y \in T : g[y] <= Max(all)
             /\ Min(all) \in Int /\ Min(all) <= 0
             /\ \A x \in S : Min(all) <= f[x]
             /\ \A y \in T : Min(all) <= g[y]
<1>0. /\ IsFiniteSet(S) /\ \A x \in S : f[x] \in Int
      /\ IsFiniteSet(T) /\ \A y \in T : g[y] \in Int
  BY DEF Bounded
<1> DEFINE F == [x \in S |-> f[x]]
           G == [y \in T |-> g[y]]
           A == {f[x] : x \in S}
           B == {g[y] : y \in T}
           all == {0} \cup A \cup B
<1>1. IsFiniteSet(A)
  <2>1. IsFiniteSet({F[x] : x \in S})
    <3>1. DOMAIN F = S
      OBVIOUS
    <3> HIDE DEF F
    <3> QED
      BY <1>0, <3>1, FiniteImage
  <2>2. {F[x] : x \in S} = A
    OBVIOUS
  <2> QED
    BY <2>1, <2>2
<1>2. IsFiniteSet(B)
  <2>1. IsFiniteSet({G[y] : y \in T})
    <3>1. DOMAIN G = T
      OBVIOUS
    <3> HIDE DEF G
    <3> QED
      BY <1>0, <3>1, FiniteImage
  <2>2. {G[y] : y \in T} = B
    OBVIOUS
  <2> QED
    BY <2>1, <2>2
<1>3. all \in SUBSET Int /\ 0 \in all
  BY <1>0
<1>4. IsFiniteSet(all)
  <2> HIDE DEF A, B
  <2>1. IsFiniteSet({0})
    BY FS_Singleton
  <2>2. IsFiniteSet({0} \cup A)
    BY <2>1, <1>1, FS_Union
  <2> QED
    BY <2>2, <1>2, FS_Union
<1>5. (\A x \in S : f[x] \in all) /\ (\A y \in T : g[y] \in all)
  OBVIOUS
<1> HIDE DEF all
<1>6. all # {}
  BY <1>3
<1>7. Max(all) \in all /\ \A k \in all : k <= Max(all)
  BY <1>3, <1>4, <1>6, MaxOfFinite
<1>8. Min(all) \in all /\ \A k \in all : Min(all) <= k
  BY <1>3, <1>4, <1>6, MinOfFinite
<1>9. /\ Max(all) \in Int /\ Max(all) >= 0 /\ Max(all) \in all
      /\ \A x \in S : f[x] <= Max(all)
      /\ \A y \in T : g[y] <= Max(all)
  BY <1>3, <1>5, <1>7
<1>10. /\ Min(all) \in Int /\ Min(all) <= 0
       /\ \A x \in S : Min(all) <= f[x]
       /\ \A y \in T : Min(all) <= g[y]
  BY <1>3, <1>5, <1>8
<1> QED
  BY <1>9, <1>10 DEF all, Values

LEMMA Names ==
  ASSUME tree \in Experiments, NEW p \in Nodes, NEW c
  PROVE  /\ PlaysAfter(p, c) \subseteq Children(p) /\ PlaysBefore(p, c) \subseteq Children(p)
         /\ IsFiniteSet(PlaysAfter(p, c)) /\ IsFiniteSet(PlaysBefore(p, c))
<1>1. PlaysAfter(p, c) \subseteq Children(p)
  BY DEF PlaysAfter, Named
<1>2. PlaysBefore(p, c) \subseteq Children(p)
  BY DEF PlaysBefore
<1>3. IsFiniteSet(Children(p))
  BY FiniteChildren
<1> QED
  BY <1>1, <1>2, <1>3, FS_Subset

LEMMA Units ==
  ASSUME Built, NEW p \in Nodes, NEW c \in Children(p)
  PROVE  /\ Unit(p, c) \in Nat \ {0}
         /\ Divides(Unit(p, c), grid[p]) /\ Divides(grid[c], Unit(p, c))
<1>1. tree \in Experiments /\ c \in Nodes
  BY Shape DEF Built
<1>2. grid[p] \in Nat \ {0} /\ grid[c] \in Nat \ {0} /\ Divides(grid[c], grid[p])
  BY <1>1, Facts
<1>3. Divides(grid[p], grid[p]) /\ Divides(grid[c], grid[c])
  BY <1>2, DividesItself
<1> QED
  BY <1>2, <1>3 DEF Unit

LEMMA RightBound ==
  ASSUME Built, start \in [Nodes -> Int], NEW f \in FrameType, NEW c \in Children(f.node),
         NEW len \in Nat
  PROVE  LET st == RightStart(f, c, len)
         IN  /\ st \in Int /\ st + len <= 0 /\ Divides(grid[c], st)
             /\ \A s \in signals[c] : st + len <= f.edge[s]
             /\ \A b \in PlaysBefore(f.node, c) : st + len <= start[b]
<1> DEFINE E == f.edge
           S == signals[c]
           T == PlaysBefore(f.node, c)
           all == Values(S, E, T, start)
           st == RightStart(f, c, len)
<1>0. tree \in Experiments /\ f.node \in Nodes /\ f.edge \in [Signals -> Int]
  BY DEF Built, FrameType
<1>1. c \in Nodes /\ S \in SUBSET Signals
  BY <1>0, Shape, Facts
<1>2. IsFiniteSet(S)
  BY <1>1, GridAssumption, FS_Subset
<1>3. IsFiniteSet(T) /\ T \subseteq Nodes
  BY <1>0, Names, Shape
<1>4. (\A s \in S : E[s] \in Int) /\ (\A b \in T : start[b] \in Int)
  BY <1>0, <1>1, <1>3
<1>5. st = floor_to_grid(Min(all) - len, grid[c])
  BY DEF RightStart, Values
<1> HIDE DEF E, S, T, st
<1>6. /\ Min(all) \in Int /\ Min(all) <= 0
      /\ \A s \in S : Min(all) <= E[s]
      /\ \A b \in T : Min(all) <= start[b]
  <2>1. Bounded(S, E) /\ Bounded(T, start)
    BY <1>2, <1>3, <1>4 DEF Bounded
  <2> QED
    BY <2>1, Largest
<1> HIDE DEF all
<1>7. Min(all) - len \in Int /\ grid[c] \in Nat \ {0}
  BY <1>1, <1>6, Facts
<1>8. st \in Int /\ st <= Min(all) - len /\ Divides(grid[c], st)
  BY <1>5, <1>7, Floor DEF Divides
<1>9. \A v \in Int : Min(all) <= v => st + len <= v
  BY <1>6, <1>8
<1> QED
  BY <1>4, <1>6, <1>8, <1>9 DEF E, S, T, st

LEMMA LeftBound ==
  ASSUME Built, start \in [Nodes -> Int], NEW f \in FrameType, NEW c \in Children(f.node),
         tree[c].kind # "clear", \A b \in PlaysAfter(f.node, c) : length[b] \in Nat
  PROVE  LET st == LeftStart(f, c)
         IN  /\ st \in Int /\ st >= 0 /\ Divides(grid[c], st)
             /\ \A s \in signals[c] : f.edge[s] <= st
             /\ \A b \in PlaysAfter(f.node, c) : start[b] + length[b] <= st
<1> DEFINE E == f.edge
           S == signals[c]
           T == PlaysAfter(f.node, c)
           end == [b \in T |-> start[b] + length[b]]
           all == Values(S, E, T, end)
           st == LeftStart(f, c)
<1>0. tree \in Experiments /\ f.node \in Nodes /\ f.edge \in [Signals -> Int]
  BY DEF Built, FrameType
<1>1. c \in Nodes /\ S \in SUBSET Signals
  BY <1>0, Shape, Facts
<1>2. IsFiniteSet(S)
  BY <1>1, GridAssumption, FS_Subset
<1>3. IsFiniteSet(T) /\ T \subseteq Nodes
  BY <1>0, Names, Shape
<1>4. (\A s \in S : E[s] \in Int) /\ (\A b \in T : end[b] \in Int)
  BY <1>0, <1>1, <1>3
<1>5. st = ceil_to_grid(Max(all), grid[c])
  <2>1. {end[b] : b \in T} = {start[b] + length[b] : b \in T}
    OBVIOUS
  <2>2. st = ceil_to_grid(Max({0} \cup {E[s] : s \in S} \cup {start[b] + length[b] : b \in T}), grid[c])
    BY DEF LeftStart
  <2> HIDE DEF end
  <2> QED
    BY <2>1, <2>2 DEF Values
<1>9. \A b \in T : end[b] = start[b] + length[b]
  OBVIOUS
<1> HIDE DEF E, S, T, st, end
<1>6. /\ Max(all) \in Int /\ Max(all) >= 0
      /\ \A s \in S : E[s] <= Max(all)
      /\ \A b \in T : end[b] <= Max(all)
  <2>1. Bounded(S, E) /\ Bounded(T, end)
    BY <1>2, <1>3, <1>4 DEF Bounded
  <2> QED
    BY <2>1, Largest
<1> HIDE DEF all
<1>7. grid[c] \in Nat \ {0}
  BY <1>1, Facts
<1>8. st \in Int /\ st >= Max(all) /\ Divides(grid[c], st)
  BY <1>5, <1>6, <1>7, Ceil DEF Divides
<1>10. \A v \in Int : v <= Max(all) => v <= st
  BY <1>6, <1>8
<1> QED
  BY <1>4, <1>6, <1>8, <1>9, <1>10 DEF E, S, T, st

LEMMA Advanced ==
  ASSUME Built, NEW f \in FrameType, NEW c, NEW at, NEW len \in Nat, Placed(f, c, at, len) \in Int,
         f.todo # << >>
  PROVE  LET g == Advance(f, c, at, len)
             st == Placed(f, c, at, len)
         IN  /\ g \in FrameType /\ g.node = f.node /\ g.at = f.at /\ g.mayChange = f.mayChange
             /\ g.todo = Tail(f.todo)
             /\ \A s \in Signals :
                  g.edge[s] = IF s \notin signals[c] THEN f.edge[s]
                              ELSE IF RightArranged(f.node) THEN st ELSE st + len
<1> DEFINE g == Advance(f, c, at, len)
           st == Placed(f, c, at, len)
           e == [s \in Signals |-> IF s \notin signals[c] THEN f.edge[s]
                                   ELSE IF RightArranged(f.node) THEN st ELSE st + len]
<1>1. f.edge \in [Signals -> Int] /\ f.todo \in Seq(Nodes)
  BY DEF FrameType
<1>2. st \in Int
  OBVIOUS
<1>3. g = [f EXCEPT !.todo = Tail(@), !.edge = e]
  BY DEF Advance
<1> HIDE DEF g, st
<1>4. e \in [Signals -> Int] /\ Tail(f.todo) \in Seq(Nodes)
  BY <1>1, <1>2
<1>5. \A s \in Signals : e[s] = IF s \notin signals[c] THEN f.edge[s]
                                ELSE IF RightArranged(f.node) THEN st ELSE st + len
  OBVIOUS
<1> HIDE DEF e
<1>6. g \in FrameType /\ g.node = f.node /\ g.at = f.at /\ g.mayChange = f.mayChange
      /\ g.todo = Tail(f.todo) /\ g.edge = e
  BY <1>3, <1>4 DEF FrameType
<1> QED
  BY <1>5, <1>6 DEF g, st

Same(P, st, ln, st2, ln2) == \A b \in P : st2[b] = st[b] /\ ln2[b] = ln[b]

\* One more child, that does not get in the way of those in P.
InTheWay(n, b, c, st, ln) ==
  \/ Apart(n, b, c) /\ ~Disjoint(b, c, st, ln)
  \/ Follows(n, b, c) /\ ~(Ends(b, st, ln) <= st[c])
  \/ Follows(n, c, b) /\ ~(Ends(c, st, ln) <= st[b])

LEMMA OneMore ==
  ASSUME NEW n, NEW P, NEW c, NEW st, NEW ln, NEW st2, NEW ln2,
         Spaced(n, P, st, ln), Same(P, st, ln, st2, ln2),
         \A b \in P : ~InTheWay(n, b, c, st2, ln2), ~Follows(n, c, c)
  PROVE  Spaced(n, P \cup {c}, st2, ln2)
<1> SUFFICES ASSUME NEW a \in P \cup {c}, NEW b \in P \cup {c}
             PROVE  /\ a # b /\ Apart(n, a, b) => Disjoint(a, b, st2, ln2)
                    /\ Follows(n, a, b) => Ends(a, st2, ln2) <= st2[b]
  BY DEF Spaced
<1>1. CASE a \in P /\ b \in P
  <2>1. /\ a # b /\ Apart(n, a, b) => Disjoint(a, b, st, ln)
        /\ Follows(n, a, b) => Ends(a, st, ln) <= st[b]
    BY <1>1 DEF Spaced
  <2>2. st2[a] = st[a] /\ ln2[a] = ln[a] /\ st2[b] = st[b] /\ ln2[b] = ln[b]
    BY <1>1 DEF Same
  <2> QED
    BY <2>1, <2>2 DEF Disjoint, Ends
<1>2. CASE a \in P /\ b = c
  BY <1>2 DEF InTheWay
<1>3. CASE a = c /\ b \in P
  <2>1. ~InTheWay(n, b, c, st2, ln2)
    BY <1>3
  <2>2. Apart(n, a, b) => Apart(n, b, a)
    BY DEF Apart
  <2>3. Disjoint(b, a, st2, ln2) => Disjoint(a, b, st2, ln2)
    BY DEF Disjoint
  <2> QED
    BY <2>1, <2>2, <2>3, <1>3 DEF InTheWay
<1>4. CASE a = c /\ b = c
  BY <1>4
<1> QED
  BY <1>1, <1>2, <1>3, <1>4

LEMMA PlacedNext ==
  ASSUME Built, start \in [Nodes -> Int],
         NEW f \in FrameType, Progress(f), f.todo # << >>, Placing(f, start, length),
         NEW at \in Nat, Offered(f, Head(f.todo), at, start, length), NEW len \in Nat,
         NEW st, NEW ln, Same(Visited(f), start, length, st, ln),
         st[Head(f.todo)] = Placed(f, Head(f.todo), at, len), ln[Head(f.todo)] = len
  PROVE  LET g == Advance(f, Head(f.todo), at, len)
         IN  /\ g \in FrameType /\ Progress(g) /\ Placing(g, st, ln)
             /\ g.node = f.node /\ g.at = f.at /\ g.mayChange = f.mayChange
             /\ g.todo = Tail(f.todo)
             /\ Placed(f, Head(f.todo), at, len) \in Int
<1> DEFINE c == Head(f.todo)
           n == f.node
           V == Visited(f)
           g == Advance(f, c, at, len)
           right == RightArranged(n)
<1>0. tree \in Experiments /\ n \in Nodes /\ f.at \in Nat /\ f.edge \in [Signals -> Int]
  BY DEF Built, FrameType
<1>1. c \in Children(n) /\ c \notin V
  <2>1. [node |-> n, todo |-> Tail(f.todo)].node = n /\ [node |-> n, todo |-> Tail(f.todo)].todo = Tail(f.todo)
    OBVIOUS
  <2> QED
    BY <2>1, <1>0, Step
<1>2. c \in Nodes /\ signals[c] \subseteq Signals /\ V \subseteq Children(n) /\ V \subseteq Nodes
  <2>1. V \subseteq Children(n)
    BY DEF Visited
  <2> QED
    BY <2>1, <1>0, <1>1, Shape, Facts
<1>3. ASSUME right PROVE LET r == RightStart(f, c, len)
                         IN  /\ r \in Int /\ r + len <= 0
                             /\ \A s \in signals[c] : r + len <= f.edge[s]
                             /\ \A b \in PlaysBefore(n, c) : r + len <= start[b]
  BY <1>1, RightBound
<1>4. /\ right => st[c] = RightStart(f, c, len)
      /\ ~right => st[c] = at - f.at
      /\ ln[c] = len /\ st[c] = Placed(f, c, at, len)
  BY DEF Placed
<1>5. st[c] \in Int
  BY <1>0, <1>3, <1>4
<1>6. /\ g \in FrameType /\ g.node = n /\ g.at = f.at /\ g.mayChange = f.mayChange
      /\ g.todo = Tail(f.todo)
      /\ \A s \in Signals : g.edge[s] = IF s \notin signals[c] THEN f.edge[s]
                                        ELSE IF right THEN st[c] ELSE st[c] + len
  BY <1>4, <1>5, Advanced
<1> HIDE DEF g
<1>7. /\ Progress(g) /\ Visited(g) = V \cup {c}
      /\ ~right => \A b \in Children(n) : Index(n, b) < Index(n, c) <=> b \in V
  BY <1>0, <1>6, Step
<1> HIDE DEF c, n, V, right
<1>8. \A b \in V : /\ st[b] = start[b] /\ ln[b] = length[b] /\ ln[b] \in Nat /\ st[b] \in Int
                   /\ Ends(b, st, ln) = Ends(b, start, length)
  <2>1. \A b \in V : st[b] = start[b] /\ ln[b] = length[b]
    BY DEF Same, V
  <2>2. \A b \in V : length[b] \in Nat
    BY DEF Placing, V
  <2>3. \A b \in V : start[b] \in Int
    BY <1>2
  <2> QED
    BY <2>1, <2>2, <2>3 DEF Ends
<1>9. Ends(c, st, ln) = st[c] + len
  BY <1>4 DEF Ends
<1>10. \A b \in V : Index(n, b) \in Int /\ Index(n, c) \in Int
  BY <1>0, <1>1, <1>2, Indices DEF n
<1>11. right => PlacedRight(f, start, length) /\ PlaysBefore(n, c) \subseteq V
  BY DEF Placing, Offered, right, n, V, c
<1>12. ~right => /\ PlacedLeft(f, start, length)
                 /\ at >= f.at
                 /\ tree[n].kind = "compressed" => at = f.at
                 /\ \A b \in V : Apart(n, b, c) \/ Follows(n, b, c) => Ends(b, start, length) <= at - f.at
                 /\ tree[n].kind \in Arranged => PlaysAfter(n, c) \subseteq V
  BY DEF Placing, Offered, right, n, V, c
<1>13. right => tree[n].kind \in Arranged /\ tree[n].kind # "unrolled"
  BY DEF right, RightArranged, Arranged
<1>14. \A b \in Children(n) : c \in PlaysAfter(n, b) => b \in PlaysBefore(n, c)
  BY DEF PlaysBefore
<1>15. \A b \in Children(n) : b \in PlaysAfter(n, c) => c \in PlaysBefore(n, b)
  BY <1>1 DEF PlaysBefore, n
<1>16. ~Follows(n, c, c)
  <2>1. CASE right
    BY <2>1, <1>1, <1>11, <1>13, <1>15 DEF Follows, n
  <2>2. CASE ~right
    <3>1. ~(Index(n, c) < Index(n, c))
      <4>1. Index(n, c) \in Int
        BY <1>0, <1>1, Indices DEF n
      <4> QED
        BY <4>1
    <3> QED
      BY <2>2, <3>1, <1>1, <1>12 DEF Follows
  <2> QED
    BY <2>1, <2>2
<1>17. ASSUME NEW b \in V PROVE ~InTheWay(n, b, c, st, ln)
  <2>0. b \in Children(n) /\ b # c
    BY <1>1, <1>2 DEF n
  <2>1. CASE right
    <3>1. Apart(n, b, c) => Ends(c, st, ln) <= st[b]
      <4> SUFFICES ASSUME NEW s \in signals[b], s \in signals[c] PROVE st[c] + len <= st[b]
        BY <1>9 DEF Apart
      <4>1. st[c] + len <= f.edge[s]
        BY <2>1, <1>3, <1>4
      <4>2. f.edge[s] <= start[b]
        BY <2>1, <1>11 DEF PlacedRight, V
      <4>3. f.edge[s] \in Int
        BY <1>0, <1>2
      <4> QED
        BY <4>1, <4>2, <4>3, <1>5, <1>8
    <3>2. ~Follows(n, b, c)
      <4>1. PlaysBefore(n, b) \subseteq V
        BY <2>1, <1>11 DEF PlacedRight, V, n
      <4> QED
        BY <4>1, <2>0, <2>1, <1>1, <1>13, <1>15 DEF Follows
    <3>3. Follows(n, c, b) => Ends(c, st, ln) <= st[b]
      <4> SUFFICES ASSUME Follows(n, c, b) PROVE st[c] + len <= start[b]
        BY <1>8, <1>9
      <4>1. b \in PlaysBefore(n, c)
        BY <2>0, <2>1, <1>13, <1>14 DEF Follows
      <4> QED
        BY <4>1, <2>1, <1>3, <1>4
    <3> QED
      BY <3>1, <3>2, <3>3 DEF InTheWay, Disjoint
  <2>2. CASE ~right
    <3>1. Apart(n, b, c) \/ Follows(n, b, c) => Ends(b, st, ln) <= st[c]
      BY <2>2, <1>4, <1>8, <1>12
    <3>2. ~Follows(n, c, b)
      <4>1. ASSUME tree[n].kind \in Arranged, c \in PlaysAfter(n, b) PROVE FALSE
        <5>1. PlaysAfter(n, b) \subseteq V
          BY <2>2, <4>1, <1>12 DEF PlacedLeft, V, n
        <5> QED
          BY <5>1, <4>1, <1>1
      <4>2. ASSUME Index(n, c) < Index(n, b) PROVE FALSE
        <5>1. Index(n, b) < Index(n, c)
          BY <2>0, <2>2, <1>7
        <5> QED
          BY <5>1, <4>2, <1>10
      <4> QED
        BY <4>1, <4>2 DEF Follows
    <3> QED
      BY <3>1, <3>2 DEF InTheWay, Disjoint
  <2> QED
    BY <2>1, <2>2
<1>18. Spaced(n, V \cup {c}, st, ln)
  <2>1. Spaced(n, V, start, length) /\ Same(V, start, length, st, ln)
    BY DEF Placing, n, V
  <2> QED
    BY <2>1, <1>16, <1>17, OneMore
<1>19. ASSUME right PROVE PlacedRight(g, st, ln)
  <2> SUFFICES ASSUME NEW b \in V \cup {c}
               PROVE  /\ Ends(b, st, ln) <= 0
                      /\ \A s \in signals[b] : g.edge[s] <= st[b]
                      /\ PlaysBefore(n, b) \subseteq V \cup {c}
    BY <1>6, <1>7 DEF PlacedRight, n
  <2>0. signals[b] \subseteq Signals
    BY <1>2, Facts
  <2>1. CASE b = c
    <3>1. \A s \in signals[b] : g.edge[s] = st[c]
      BY <2>0, <2>1, <1>6, <1>19
    <3> QED
      BY <3>1, <2>1, <1>3, <1>4, <1>5, <1>9, <1>11, <1>19
  <2>2. CASE b \in V
    <3>1. /\ Ends(b, st, ln) <= 0
          /\ \A s \in signals[b] : f.edge[s] <= st[b]
          /\ PlaysBefore(n, b) \subseteq V
      BY <2>2, <1>8, <1>11, <1>19 DEF PlacedRight, V, n
    <3>2. ASSUME NEW s \in signals[b], s \in signals[c] PROVE g.edge[s] <= st[b]
      <4>1. g.edge[s] = st[c]
        BY <2>0, <3>2, <1>6, <1>19
      <4>2. st[c] + len <= f.edge[s] /\ f.edge[s] <= st[b] /\ f.edge[s] \in Int /\ st[b] \in Int
        BY <2>0, <2>2, <3>1, <3>2, <1>0, <1>3, <1>4, <1>8, <1>19
      <4> QED
        BY <4>1, <4>2, <1>5
    <3>3. ASSUME NEW s \in signals[b], s \notin signals[c] PROVE g.edge[s] <= st[b]
      <4>1. g.edge[s] = f.edge[s]
        BY <2>0, <3>3, <1>6
      <4> QED
        BY <4>1, <3>1
    <3> QED
      BY <3>1, <3>2, <3>3
  <2> QED
    BY <2>1, <2>2
<1>20. ASSUME ~right PROVE PlacedLeft(g, st, ln)
  <2> SUFFICES ASSUME NEW b \in V \cup {c}
               PROVE  /\ st[b] >= 0
                      /\ tree[n].kind = "compressed" => st[b] = 0
                      /\ tree[n].kind \in Arranged =>
                           /\ \A s \in signals[b] : Ends(b, st, ln) <= g.edge[s]
                           /\ PlaysAfter(n, b) \subseteq V \cup {c}
    BY <1>6, <1>7 DEF PlacedLeft, n
  <2>0. signals[b] \subseteq Signals
    BY <1>2, Facts
  <2>1. CASE b = c
    <3>1. \A s \in signals[b] : g.edge[s] = st[c] + len
      BY <2>0, <2>1, <1>6, <1>20
    <3>2. st[c] >= 0 /\ (tree[n].kind = "compressed" => st[c] = 0)
      BY <1>0, <1>4, <1>12, <1>20
    <3>3. \A s \in signals[b] : Ends(c, st, ln) <= g.edge[s]
      BY <3>1, <1>5, <1>9
    <3> QED
      BY <3>2, <3>3, <2>1, <1>12, <1>20
  <2>2. CASE b \in V
    <3>1. /\ st[b] >= 0
          /\ tree[n].kind = "compressed" => st[b] = 0
          /\ tree[n].kind \in Arranged =>
               /\ \A s \in signals[b] : Ends(b, st, ln) <= f.edge[s]
               /\ PlaysAfter(n, b) \subseteq V
      BY <2>2, <1>8, <1>12, <1>20 DEF PlacedLeft, V, n
    <3>2. ASSUME tree[n].kind \in Arranged, NEW s \in signals[b] PROVE Ends(b, st, ln) <= g.edge[s]
      <4>1. CASE s \notin signals[c]
        <5>1. g.edge[s] = f.edge[s]
          BY <2>0, <4>1, <1>6
        <5> QED
          BY <5>1, <3>1, <3>2
      <4>2. CASE s \in signals[c]
        <5>1. g.edge[s] = st[c] + len
          BY <2>0, <4>2, <1>6, <1>20
        <5>2. Apart(n, b, c)
          BY <3>2, <4>2 DEF Apart
        <5>3. Ends(b, st, ln) <= st[c]
          BY <5>2, <2>2, <1>4, <1>8, <1>12, <1>20
        <5>4. Ends(b, st, ln) \in Int
          BY <2>2, <1>8 DEF Ends
        <5> QED
          BY <5>1, <5>3, <5>4, <1>5
      <4> QED
        BY <4>1, <4>2
    <3> QED
      BY <3>1, <3>2
  <2> QED
    BY <2>1, <2>2
<1>21. Placing(g, st, ln)
  <2>1. \A b \in V \cup {c} : ln[b] \in Nat
    BY <1>4, <1>8
  <2> QED
    BY <2>1, <1>6, <1>7, <1>18, <1>19, <1>20 DEF Placing, right, n
<1> QED
  BY <1>4, <1>5, <1>6, <1>7, <1>21 DEF g, c, n

-----------------------------------------------------------------------------
(* What a call asks of its next child.                                     *)

LEMMA MaxOfTwo ==
  ASSUME NEW a \in Int, NEW b \in Int
  PROVE  Max({a, b}) \in {a, b} /\ Max({a, b}) >= a /\ Max({a, b}) >= b
<1> DEFINE S == {a, b}
<1>1. S \in SUBSET Int /\ a \in S /\ b \in S /\ S # {}
  OBVIOUS
<1>2. IsFiniteSet(S)
  <2>1. IsFiniteSet({a}) /\ IsFiniteSet({b})
    BY FS_Singleton
  <2>2. S = {a} \cup {b}
    OBVIOUS
  <2> HIDE DEF S
  <2> QED
    BY <2>1, <2>2, FS_Union
<1> HIDE DEF S
<1>3. Max(S) \in S /\ \A k \in S : k <= Max(S)
  BY <1>1, <1>2, MaxOfFinite
<1>4. Max(S) \in S /\ Max(S) >= a /\ Max(S) >= b
  BY <1>1, <1>3
<1> QED
  BY <1>4 DEF S

LEMMA Earliest ==
  ASSUME Built, Typed, NEW c \in Nodes, Matches(c),
         Acquisitions(c) # << >>, absolute[Last(Acquisitions(c))] # None
  PROVE  /\ EarliestMatch(c) \in Nat /\ Divides(grid[c], EarliestMatch(c))
         /\ LET a == Last(Acquisitions(c))
            IN  \A s \in signals[c] : absolute[a] + length[a] + Latency[s] <= EarliestMatch(c)
<1> DEFINE a == Last(Acquisitions(c))
           end == absolute[a] + length[a]
           S == signals[c]
           f == [s \in S |-> ceil_to_grid(end + Latency[s], grid[c])]
           none == [y \in {} |-> 0]
           all == {0} \cup {f[s] : s \in S}
<1>1. a \in Nodes
  <2>1. Acquisitions(c) \in Seq(Nodes)
    BY DEF Typed, Acquisitions, Matches
  <2> QED
    BY <2>1 DEF Last
<1> HIDE DEF a
<1>2. end \in Int
  <2>1. absolute[a] \in Int /\ length[a] \in Int
    BY <1>1 DEF Typed, None
  <2> QED
    BY <2>1
<1>3. S \in SUBSET Signals /\ grid[c] \in Nat \ {0}
  BY Facts
<1>4. EarliestMatch(c) = Max(all)
  <2>1. {f[s] : s \in S} = {ceil_to_grid(end + Latency[s], grid[c]) : s \in S}
    OBVIOUS
  <2>2. EarliestMatch(c) = Max({0} \cup {ceil_to_grid(end + Latency[s], grid[c]) : s \in S})
    BY DEF EarliestMatch, a
  <2> QED
    BY <2>1, <2>2
<1> HIDE DEF end
<1>5. \A s \in S : f[s] \in Int /\ Divides(grid[c], f[s]) /\ end + Latency[s] <= f[s]
  <2> SUFFICES ASSUME NEW s \in S
               PROVE  LET v == ceil_to_grid(end + Latency[s], grid[c])
                      IN  v \in Int /\ Divides(grid[c], v) /\ end + Latency[s] <= v
    OBVIOUS
  <2>1. end + Latency[s] \in Int
    BY <1>2, <1>3, GridAssumption
  <2> QED
    BY <2>1, <1>3, Ceil DEF Divides
<1>6. IsFiniteSet(S) /\ IsFiniteSet({})
  BY <1>3, GridAssumption, FS_Subset, FS_EmptySet
<1> HIDE DEF S, f
<1>7. Bounded(S, f) /\ Bounded({}, none)
  BY <1>5, <1>6 DEF Bounded
<1>8. LET most == Max(Values(S, f, {}, none))
      IN  most \in Int /\ most >= 0 /\ most \in Values(S, f, {}, none) /\ \A s \in S : f[s] <= most
  BY <1>7, Largest
<1>9. all = Values(S, f, {}, none)
  <2>1. {none[y] : y \in {}} = {}
    OBVIOUS
  <2> QED
    BY <2>1 DEF Values
<1>10. \A v \in all : v = 0 \/ Divides(grid[c], v)
  BY <1>5
<1> HIDE DEF all
<1>11. Max(all) \in Int /\ Max(all) >= 0 /\ Max(all) \in all /\ \A s \in S : f[s] <= Max(all)
  BY <1>8, <1>9
<1>12. Divides(grid[c], Max(all))
  BY <1>3, <1>10, <1>11, DividesZero
<1>13. \A s \in S : end + Latency[s] <= Max(all)
  <2>1. \A s \in S : Latency[s] \in Int
    BY <1>3, GridAssumption DEF S
  <2> QED
    BY <2>1, <1>2, <1>5, <1>11
<1>14. \A s \in S : absolute[a] + length[a] + Latency[s] <= Max(all)
  BY <1>13 DEF end
<1> QED
  BY <1>4, <1>11, <1>12, <1>14 DEF a, S

LEMMA Asked ==
  ASSUME Built, Typed, NEW f \in FrameType, Progress(f), f.todo # << >>,
         Placing(f, start, length), ~Refused(f, Head(f.todo))
  PROVE  LET c == Head(f.todo)
             at == CalledAt(f, c)
         IN  /\ at \in Nat /\ Offered(f, c, at, start, length)
             /\ Matches(c) => at >= EarliestMatch(c)
             /\ StartsOnGrid(start) /\ Divides(grid[f.node], f.at) => Divides(Unit(f.node, c), at)
<1> DEFINE c == Head(f.todo)
           n == f.node
           V == Visited(f)
           at == CalledAt(f, c)
           P == ProposedStart(f, c)
           right == RightArranged(n)
<1>0. tree \in Experiments /\ n \in Nodes /\ f.at \in Nat /\ start \in [Nodes -> Int]
  BY DEF Built, FrameType, Typed
<1>1. /\ c \in Children(n) /\ c \notin V
      /\ \A b \in Children(n) :
           /\ right /\ Index(n, b) > Index(n, c) => b \in V
           /\ ~right => (Index(n, b) < Index(n, c) <=> b \in V)
  <2>1. [node |-> n, todo |-> Tail(f.todo)].node = n /\ [node |-> n, todo |-> Tail(f.todo)].todo = Tail(f.todo)
    OBVIOUS
  <2> QED
    BY <2>1, <1>0, Step
<1>2. c \in Nodes /\ signals[c] \subseteq Signals /\ V \subseteq Children(n) /\ V \subseteq Nodes
  <2>1. V \subseteq Children(n)
    BY DEF Visited
  <2> QED
    BY <2>1, <1>0, <1>1, Shape, Facts
<1>3. at = IF Matches(c) THEN Max({f.at + P, EarliestMatch(c)}) ELSE f.at + P
  BY DEF CalledAt
<1>4. /\ tree[n].kind = "unrolled" => P = IterationStart(n, c)
      /\ tree[n].kind \in Arranged /\ ~right => P = LeftStart(f, c)
      /\ right \/ tree[n].kind \notin Arranged \cup {"unrolled"} => P = 0
  BY DEF ProposedStart, RightArranged, Arranged
<1>5. ~Refused(f, c)
  OBVIOUS
<1>6. /\ \A b \in V : length[b] \in Nat
      /\ Spaced(n, V, start, length)
      /\ ~right => PlacedLeft(f, start, length)
  BY DEF Placing
<1> HIDE DEF c, n, V, at, P, right
<1>7. \A b \in Children(n) : Index(n, b) \in Int
  BY <1>0, Indices
<1>8. ~right /\ tree[n].kind \in Arranged => PlaysAfter(n, c) \subseteq V
  <2> SUFFICES ASSUME ~right, tree[n].kind \in Arranged, NEW name \in tree[c].after,
                      NEW b \in Named(n, name)
               PROVE  b \in V
    BY DEF PlaysAfter
  <2>1. PICK a \in Named(n, name) : ~(Index(n, a) >= Index(n, c))
    BY <1>5 DEF Refused, right, RightArranged, n
  <2>2. a \in Children(n) /\ b \in Children(n)
    BY DEF Named
  <2>3. a \in V
    BY <2>1, <2>2, <1>1, <1>7
  <2>4. a = b
    <3>1. name # ""
      BY <1>0, <1>2, NamesAssumption DEF Nodes
    <3>2. /\ tree[a].section = name /\ tree[a].use = 0
          /\ tree[b].section = name /\ tree[b].use = 0
      BY DEF Named
    <3> QED
      BY <1>0, <2>2, <3>1, <3>2, NamesAssumption DEF Nodes, Children
  <2> QED
    BY <2>3, <2>4
<1>9. right => PlaysBefore(n, c) \subseteq V
  <2> SUFFICES ASSUME right, NEW b \in PlaysBefore(n, c) PROVE b \in V
    OBVIOUS
  <2>1. ~(Index(n, b) <= Index(n, c))
    BY <1>5 DEF Refused, right, n
  <2>2. b \in Children(n)
    BY DEF PlaysBefore
  <2> QED
    BY <2>1, <2>2, <1>1, <1>7
<1>10. ASSUME ~right, tree[n].kind \in Arranged
       PROVE  /\ P \in Int /\ P >= 0 /\ Divides(grid[c], P)
              /\ \A b \in V : Apart(n, b, c) \/ Follows(n, b, c) => Ends(b, start, length) <= P
  <2>1. P = LeftStart(f, c)
    BY <1>4, <1>10
  <2>2. PlacedLeft(f, start, length)
    BY <1>6, <1>10
  <2>3. CASE tree[c].kind = "clear"
    <3>0. PICK p \in Nodes : \E i, j \in DOMAIN tree[p].children :
            i < j /\ tree[p].children[i] = tree[c].pulse /\ tree[p].children[j] = c
      BY <1>0, <1>2, <2>3, KindAssumption DEF Nodes
    <3>1. PICK i \in DOMAIN tree[p].children, j \in DOMAIN tree[p].children :
            i < j /\ tree[p].children[i] = tree[c].pulse /\ tree[p].children[j] = c
      BY <3>0
    <3>2. p = n
      <4>1. c \in Children(p)
        BY <3>1, <1>0, Indices
      <4> QED
        BY <4>1, <1>0, <1>1, Families
    <3>3. tree[c].pulse \in Children(n) /\ Index(n, tree[c].pulse) < Index(n, c)
      <4>1. \A k \in DOMAIN tree[n].children :
              tree[n].children[k] \in Children(n) /\ Index(n, tree[n].children[k]) = k
        BY <1>0, Indices
      <4>2. i \in DOMAIN tree[n].children /\ j \in DOMAIN tree[n].children
            /\ tree[n].children[i] = tree[c].pulse /\ tree[n].children[j] = c
        BY <3>1, <3>2
      <4> QED
        BY <4>1, <4>2, <3>1
    <3>4. tree[c].pulse \in V
      BY <3>3, <1>1, <1>10
    <3>5. start[tree[c].pulse] >= 0 /\ start[tree[c].pulse] \in Int
      BY <3>4, <2>2, <1>0, <1>2 DEF PlacedLeft, V
    <3>6. P = ceil_to_grid(start[tree[c].pulse], grid[c])
      BY <2>1, <2>3 DEF LeftStart
    <3>7. grid[c] \in Nat \ {0}
      BY <1>2, Facts
    <3>8. P \in Int /\ P >= 0 /\ Divides(grid[c], P)
      BY <3>5, <3>6, <3>7, Ceil DEF Divides
    <3>9. signals[c] = {} /\ tree[c].after = {}
      <4>1. tree[c].kind \in Leaves
        BY <2>3 DEF Leaves
      <4> QED
        BY <4>1, <1>0, <1>2, <2>3, Facts, KindAssumption DEF Nodes
    <3>10. \A b : ~Apart(n, b, c) /\ ~Follows(n, b, c)
      BY <3>9, <1>10 DEF Apart, Follows, PlaysAfter, Arranged
    <3> QED
      BY <3>8, <3>10
  <2>4. CASE tree[c].kind # "clear"
    <3>1. \A b \in PlaysAfter(n, c) : length[b] \in Nat
      BY <1>6, <1>8, <1>10
    <3>2. /\ P \in Int /\ P >= 0 /\ Divides(grid[c], P)
          /\ \A s \in signals[c] : f.edge[s] <= P
          /\ \A b \in PlaysAfter(n, c) : start[b] + length[b] <= P
      BY <2>1, <2>4, <3>1, <1>0, <1>1, LeftBound DEF n
    <3>3. ASSUME NEW b \in V, Follows(n, b, c) PROVE Ends(b, start, length) <= P
      BY <3>2, <3>3, <1>10 DEF Follows, Ends, Arranged
    <3>4. ASSUME NEW b \in V, Apart(n, b, c) PROVE Ends(b, start, length) <= P
      <4>1. PICK s \in signals[b] : s \in signals[c]
        BY <3>4 DEF Apart
      <4>2. Ends(b, start, length) <= f.edge[s]
        BY <2>2, <1>10 DEF PlacedLeft, V, n
      <4>3. f.edge[s] <= P /\ f.edge[s] \in Int
        BY <3>2, <4>1, <1>2 DEF FrameType
      <4>4. Ends(b, start, length) \in Int
        BY <1>0, <1>2, <1>6 DEF Ends
      <4> QED
        BY <3>2, <4>2, <4>3, <4>4
    <3> QED
      BY <3>2, <3>3, <3>4
  <2> QED
    BY <2>3, <2>4
<1>11. ASSUME tree[n].kind = "unrolled"
       PROVE  /\ P \in Int /\ P >= 0
              /\ \A b \in V : Follows(n, b, c) => Ends(b, start, length) <= P
              /\ StartsOnGrid(start) => Divides(grid[n], P)
  <2>0. ~right /\ PlacedLeft(f, start, length)
    BY <1>6, <1>11 DEF right, RightArranged, Arranged
  <2> DEFINE s == tree[n].children
             i == Index(n, c)
             last == s[i - 1]
  <2>1. i \in 1 .. Len(s) /\ Len(s) \in Nat /\ \A b \in Children(n) : Index(n, b) \in 1 .. Len(s)
    BY <1>0, <1>1, Indices
  <2>2. P = IF i = 1 THEN 0 ELSE start[last] + ceil_to_grid(length[last], grid[n])
    BY <1>4, <1>11 DEF IterationStart
  <2>3. CASE i = 1
    <3>1. \A b \in V : FALSE
      BY <2>0, <2>1, <2>3, <1>1, <1>2
    <3>2. Divides(grid[n], 0)
      BY <1>0, Facts, DividesZero
    <3> QED
      BY <2>2, <2>3, <3>1, <3>2
  <2>4. CASE i # 1
    <3>0. i - 1 \in 1 .. Len(s)
      BY <2>1, <2>4
    <3>1. last \in Children(n) /\ Index(n, last) = i - 1
      BY <3>0, <1>0, Indices
    <3> HIDE DEF last, s
    <3>2. last \in V
      BY <2>0, <2>1, <3>1, <1>1
    <3>3. start[last] \in Int /\ start[last] >= 0 /\ length[last] \in Nat
      BY <2>0, <3>2, <1>0, <1>2, <1>6 DEF PlacedLeft, V
    <3>4. grid[n] \in Nat \ {0}
      BY <1>0, Facts
    <3>5. ceil_to_grid(length[last], grid[n]) \in Int /\ ceil_to_grid(length[last], grid[n]) >= length[last]
      <4> DEFINE v == length[last]
                 g == grid[n]
      <4>1. v \in Int /\ g \in Nat \ {0}
        BY <3>3, <3>4
      <4> HIDE DEF v, g
      <4>2. ceil_to_grid(v, g) \in Int /\ v <= ceil_to_grid(v, g)
        BY <4>1, Ceil
      <4>3. ceil_to_grid(v, g) >= v
        BY <4>1, <4>2
      <4> QED
        BY <4>2, <4>3 DEF v, g
    <3>6. P \in Int /\ P >= 0 /\ P >= start[last] /\ P >= start[last] + length[last]
      BY <2>2, <2>4, <3>3, <3>5
    <3>7. ASSUME NEW b \in V, b # last PROVE Ends(b, start, length) <= P
      <4>1. Index(n, b) < i /\ Index(n, b) \in 1 .. Len(s)
        BY <2>0, <2>1, <1>1, <1>2
      <4>2. Index(n, b) # i - 1
        BY <3>1, <3>7, <1>0, <1>2, Indices
      <4>3. Index(n, b) < Index(n, last)
        BY <4>1, <4>2, <2>1, <3>1
      <4>4. Ends(b, start, length) <= start[last]
        BY <4>3, <3>2, <1>6, <1>11 DEF Follows, Spaced
      <4>5. Ends(b, start, length) \in Int
        BY <1>0, <1>2, <1>6 DEF Ends
      <4> QED
        BY <4>4, <4>5, <3>3, <3>6
    <3>8. ASSUME StartsOnGrid(start) PROVE Divides(grid[n], P)
      <4>1. Divides(grid[n], start[last])
        BY <3>1, <3>8, <1>0, <1>11 DEF StartsOnGrid, Unit
      <4> DEFINE g == grid[n]
                 v == length[last]
                 x == start[last]
                 y == ceil_to_grid(v, g)
      <4>2. P = x + y
        BY <2>2, <2>4
      <4>3. g \in Nat \ {0} /\ v \in Int /\ x \in Int /\ y \in Int /\ Divides(g, x)
        BY <4>1, <3>3, <3>4, <3>5
      <4> HIDE DEF g, v, x
      <4>4. Divides(g, y)
        BY <4>3, Ceil DEF Divides
      <4> HIDE DEF y
      <4>5. Divides(g, P)
        BY <4>2, <4>3, <4>4, DividesSums
      <4> QED
        BY <4>5 DEF g
    <3> QED
      BY <3>6, <3>7, <3>8 DEF Ends
  <2> QED
    BY <2>3, <2>4
<1>12. P \in Nat
  <2>1. CASE tree[n].kind \in Arranged /\ ~right
    BY <2>1, <1>10
  <2>2. CASE tree[n].kind = "unrolled"
    BY <2>2, <1>11
  <2>3. CASE right \/ tree[n].kind \notin Arranged \cup {"unrolled"}
    BY <2>3, <1>4
  <2> QED
    BY <2>1, <2>2, <2>3
<1>13. /\ at \in Nat /\ at >= f.at + P /\ (~Matches(c) => at = f.at + P)
       /\ Matches(c) => at >= EarliestMatch(c)
  <2>1. CASE ~Matches(c)
    BY <2>1, <1>0, <1>3, <1>12
  <2>2. CASE Matches(c)
    <3>1. Acquisitions(c) # << >> /\ absolute[Last(Acquisitions(c))] # None
      BY <2>2, <1>5 DEF Refused
    <3>2. EarliestMatch(c) \in Nat
      BY <2>2, <3>1, <1>2, Earliest
    <3>3. f.at + P \in Nat
      BY <1>0, <1>12
    <3> DEFINE a == f.at + P
               b == EarliestMatch(c)
    <3>4. at = Max({a, b})
      BY <2>2, <1>3
    <3>5. a \in Int /\ b \in Int /\ a \in Nat /\ b \in Nat
      BY <3>2, <3>3
    <3> HIDE DEF a, b
    <3>6. Max({a, b}) \in {a, b} /\ Max({a, b}) >= a /\ Max({a, b}) >= b
      BY <3>5, MaxOfTwo
    <3>7. at \in Nat /\ at >= a /\ at >= b
      BY <3>4, <3>5, <3>6
    <3> QED
      BY <2>2, <3>7 DEF a, b
  <2> QED
    BY <2>1, <2>2
<1>14. ASSUME ~right
       PROVE  /\ at >= f.at
              /\ tree[n].kind = "compressed" => at = f.at
              /\ \A b \in V : Apart(n, b, c) \/ Follows(n, b, c) => Ends(b, start, length) <= at - f.at
  <2>1. at >= f.at /\ at - f.at \in Int /\ P <= at - f.at
    BY <1>0, <1>12, <1>13
  <2>2. ASSUME tree[n].kind = "compressed" PROVE at = f.at
    <3>1. tree[c].kind = "iteration"
      BY <2>2, <1>0, <1>1, KindAssumption DEF Nodes, Children
    <3>2. ~Matches(c)
      BY <3>1 DEF Matches
    <3>3. P = 0
      BY <2>2, <1>4 DEF Arranged
    <3> QED
      BY <3>2, <3>3, <1>0, <1>13
  <2>3. ASSUME NEW b \in V, Apart(n, b, c) \/ Follows(n, b, c)
        PROVE  Ends(b, start, length) <= at - f.at
    <3>1. Ends(b, start, length) <= P
      <4>1. CASE tree[n].kind \in Arranged
        BY <4>1, <2>3, <1>10, <1>14
      <4>2. CASE tree[n].kind = "unrolled"
        BY <4>2, <2>3, <1>11 DEF Apart, Arranged
      <4> QED
        BY <4>1, <4>2, <2>3 DEF Apart, Follows
    <3>2. Ends(b, start, length) \in Int
      BY <1>0, <1>2, <1>6 DEF Ends
    <3> QED
      BY <2>1, <3>1, <3>2, <1>12
  <2> QED
    BY <2>1, <2>2, <2>3
<1>15. Offered(f, c, at, start, length)
  BY <1>8, <1>9, <1>14 DEF Offered, right, n, V
<1>16. ASSUME StartsOnGrid(start), Divides(grid[n], f.at) PROVE Divides(Unit(n, c), at)
  <2>1. Unit(n, c) \in Nat \ {0} /\ Divides(Unit(n, c), grid[n])
    BY <1>0, <1>1, Units
  <2>2. Divides(Unit(n, c), f.at)
    <3>1. grid[n] \in Int
      BY <1>0, Facts
    <3> QED
      BY <2>1, <3>1, <1>0, <1>16, DividesTransitive
  <2>3. Divides(Unit(n, c), P)
    <3>1. CASE tree[n].kind \in Arranged /\ ~right
      BY <3>1, <1>10 DEF Unit, Arranged
    <3>2. CASE tree[n].kind = "unrolled"
      BY <3>2, <1>11, <1>16 DEF Unit
    <3>3. CASE right \/ tree[n].kind \notin Arranged \cup {"unrolled"}
      BY <3>3, <1>4, <2>1, DividesZero
    <3> QED
      BY <3>1, <3>2, <3>3
  <2>4. Divides(Unit(n, c), f.at + P)
    <3> DEFINE u == Unit(n, c)
               a == f.at
    <3>1. u \in Int /\ a \in Int /\ P \in Int /\ Divides(u, a) /\ Divides(u, P)
      BY <2>1, <2>2, <2>3, <1>0, <1>12
    <3> HIDE DEF u, a
    <3>2. Divides(u, a + P)
      BY <3>1, DividesSums
    <3> QED
      BY <3>2 DEF u, a
  <2>5. CASE ~Matches(c)
    BY <2>4, <2>5, <1>3
  <2>6. CASE Matches(c)
    <3>1. Acquisitions(c) # << >> /\ absolute[Last(Acquisitions(c))] # None
      BY <2>6, <1>5 DEF Refused
    <3>2. EarliestMatch(c) \in Nat /\ Divides(grid[c], EarliestMatch(c))
      BY <2>6, <3>1, <1>2, Earliest
    <3>3. Unit(n, c) = grid[c]
      <4>1. tree[c].kind = "match"
        BY <2>6 DEF Matches
      <4>2. tree[n].kind # "unrolled"
        BY <4>1, <1>0, <1>1, KindAssumption DEF Nodes, Children
      <4> QED
        BY <4>2 DEF Unit
    <3> DEFINE a == f.at + P
               b == EarliestMatch(c)
    <3>4. at = Max({a, b})
      BY <2>6, <1>3
    <3>5. a \in Int /\ b \in Int /\ Divides(Unit(n, c), a) /\ Divides(Unit(n, c), b)
      BY <3>2, <3>3, <2>4, <1>0, <1>12
    <3> HIDE DEF a, b
    <3>6. Max({a, b}) \in {a, b}
      BY <3>5, MaxOfTwo
    <3> QED
      BY <3>4, <3>5, <3>6
  <2> QED
    BY <2>5, <2>6
<1> QED
  BY <1>13, <1>15, <1>16 DEF c, at, n

-----------------------------------------------------------------------------
(* The calls under way.                                                    *)

LEMMA NewHead ==
  ASSUME NEW S, NEW q \in Seq(S), q # << >>, NEW g \in S
  PROVE  LET r == <<g>> \o Tail(q)
         IN  /\ r \in Seq(S) /\ Len(r) = Len(q) /\ Len(q) \in Nat \ {0} /\ r # << >>
             /\ r[1] = g /\ \A i \in 2 .. Len(q) : r[i] = q[i]
OBVIOUS

Nested(q) ==
  /\ q \in Seq(FrameType)
  /\ \A i \in 1 .. Len(q) : Progress(q[i])
  /\ \A i \in 1 .. Len(q) - 1 : q[i + 1].todo # << >> /\ q[i].node = Head(q[i + 1].todo)

LEMMA Path ==
  ASSUME tree \in Experiments, NEW q, Nested(q), q # << >>, q[1].todo # << >>
  PROVE  LET x == Head(q[1].todo)
         IN  /\ \A i \in 1 .. Len(q) : /\ q[i].node \in Nodes /\ q[i].node \notin Below(x)
                                      /\ \A b \in Visited(q[i]) : b \notin Below(x)
             /\ Below(x) \cap Pending(q) = {}
             /\ x \in Children(q[1].node) /\ x \in Nodes
<1> DEFINE x == Head(q[1].todo)
           len == Len(q)
           Good(i) == q[i].todo # << >> /\ x \in Below(Head(q[i].todo))
           Bad == {i \in 1 .. len : ~Good(i)}
<1>1. len \in Nat /\ 1 \in 1 .. len /\ q \in [1 .. len -> FrameType]
  BY DEF Nested
<1>2. ASSUME NEW i \in 1 .. len
      PROVE  q[i].node \in Nodes /\ Progress(q[i])
  BY <1>1 DEF Nested, FrameType
<1>3. ASSUME NEW i \in 1 .. len, q[i].todo # << >>
      PROVE  LET h == Head(q[i].todo)
             IN  /\ h \in Children(q[i].node) /\ h \notin Visited(q[i])
                 /\ ToSet(Tail(q[i].todo)) \subseteq Children(q[i].node) \ {h}
  <2> DEFINE f == q[i]
             g == [node |-> f.node, todo |-> Tail(f.todo)]
  <2>1. g.node = f.node /\ g.todo = Tail(f.todo)
    OBVIOUS
  <2>2. f.node \in Nodes /\ Progress(f) /\ f.todo # << >>
    BY <1>2, <1>3
  <2> HIDE DEF f, g
  <2>3. Head(f.todo) \in Children(f.node) /\ Head(f.todo) \notin Visited(f) /\ Progress(g)
        /\ Head(f.todo) \notin ToSet(g.todo)
    BY <2>1, <2>2, Step
  <2>4. ToSet(g.todo) \subseteq Children(g.node)
    BY <2>1, <2>2, <2>3, Ahead
  <2> QED
    BY <2>1, <2>3, <2>4 DEF f
<1>4. Bad = {}
  <2> SUFFICES ASSUME Bad # {} PROVE FALSE
    OBVIOUS
  <2>1. PICK i \in Bad : \A k \in Bad : i <= k
    <3>1. Bad \in SUBSET Nat
      OBVIOUS
    <3> HIDE DEF Bad
    <3> QED
      BY <3>1, Least
  <2>2. i \in 1 .. len /\ ~Good(i)
    OBVIOUS
  <2>3. i # 1
    <3>1. x \in Children(q[1].node) /\ q[1].node \in Nodes
      BY <1>1, <1>2, <1>3
    <3>2. x \in Nodes
      BY <3>1, Shape
    <3> QED
      BY <3>2, <2>2, BelowWays
  <2>4. i - 1 \in 1 .. len /\ i - 1 \in 1 .. len - 1 /\ (i - 1) + 1 = i /\ ~(i <= i - 1)
    BY <2>2, <2>3, <1>1
  <2> DEFINE j == i - 1
  <2>5. j \notin Bad
    <3> HIDE DEF Bad
    <3> QED
      BY <2>1, <2>4
  <2>6. Good(j)
    BY <2>4, <2>5
  <2>7. q[j + 1].todo # << >> /\ q[j].node = Head(q[j + 1].todo)
    BY <2>4 DEF Nested
  <2>8. q[i].todo # << >> /\ q[j].node = Head(q[i].todo)
    BY <2>4, <2>7
  <2> HIDE DEF j
  <2>9. Head(q[j].todo) \in Children(q[j].node) /\ q[j].node \in Nodes
    BY <2>4, <2>6, <1>2, <1>3 DEF j
  <2>10. x \in Below(q[j].node)
    BY <2>6, <2>9, BelowWays
  <2> QED
    BY <2>2, <2>8, <2>10
<1>5. ASSUME NEW i \in 1 .. len PROVE Good(i)
  BY <1>4
<1>6. x \in Children(q[1].node) /\ x \in Nodes
  <2>1. x \in Children(q[1].node) /\ q[1].node \in Nodes
    BY <1>1, <1>2, <1>3
  <2> QED
    BY <2>1, Shape
<1> HIDE DEF x, len
<1>7. ASSUME NEW i \in 1 .. len, NEW b \in Children(q[i].node), b # Head(q[i].todo)
      PROVE  Below(b) \cap Below(x) = {}
  <2>1. Head(q[i].todo) \in Children(q[i].node) /\ q[i].node \in Nodes /\ x \in Below(Head(q[i].todo))
    BY <1>2, <1>3, <1>5
  <2>2. Below(b) \cap Below(Head(q[i].todo)) = {}
    BY <2>1, <1>7, Branches
  <2>3. Below(x) \subseteq Below(Head(q[i].todo))
    BY <2>1, Shape, BelowContains
  <2> QED
    BY <2>2, <2>3
<1>8. ASSUME NEW i \in 1 .. len PROVE q[i].node \notin Below(x)
  <2> DEFINE n == q[i].node
             h == Head(q[i].todo)
  <2>1. h \in Children(n) /\ n \in Nodes /\ x \in Below(h)
    BY <1>2, <1>3, <1>5
  <2> HIDE DEF n, h
  <2>2. h \in Nodes /\ n < h
    BY <2>1, Families
  <2>3. x >= h
    BY <2>1, <2>2, BelowIsLater
  <2> SUFFICES ASSUME n \in Below(x) PROVE FALSE
    BY DEF n
  <2>4. n >= x
    BY <1>6, BelowIsLater
  <2>5. n \in Int /\ h \in Int /\ x \in Int
    BY <1>6, <2>1, <2>2, Shape
  <2> QED
    BY <2>2, <2>3, <2>4, <2>5
<1>9. ASSUME NEW i \in 1 .. len, NEW b \in Visited(q[i]) PROVE b \notin Below(x)
  <2>1. b \in Children(q[i].node) /\ b # Head(q[i].todo)
    BY <1>3, <1>5 DEF Visited
  <2>2. Below(b) \cap Below(x) = {}
    BY <2>1, <1>7
  <2>3. b \in Below(b)
    BY <2>1, <1>2, Shape, BelowWays
  <2> QED
    BY <2>2, <2>3
<1>10. Below(x) \cap Pending(q) = {}
  <2> SUFFICES ASSUME NEW p \in Below(x), NEW i \in 1 .. len,
                      p = q[i].node \/ \E c \in ToSet(Tail(q[i].todo)) : p \in Below(c)
               PROVE  FALSE
    BY DEF Pending, len
  <2>1. CASE p = q[i].node
    BY <2>1, <1>8
  <2>2. CASE \E c \in ToSet(Tail(q[i].todo)) : p \in Below(c)
    <3>1. PICK c \in ToSet(Tail(q[i].todo)) : p \in Below(c)
      BY <2>2
    <3>2. c \in Children(q[i].node) /\ c # Head(q[i].todo)
      BY <1>3, <1>5
    <3> QED
      BY <3>1, <3>2, <1>7
  <2> QED
    BY <2>1, <2>2
<1> QED
  BY <1>2, <1>6, <1>8, <1>9, <1>10 DEF x, len

\* What is said of nodes depends on their starts and lengths only.
LEMMA SameSpaced ==
  ASSUME NEW n, NEW P, NEW st, NEW ln, NEW st2, NEW ln2, Same(P, st, ln, st2, ln2),
         Spaced(n, P, st, ln)
  PROVE  Spaced(n, P, st2, ln2)
<1>1. \A b \in P : st2[b] = st[b] /\ ln2[b] = ln[b]
  BY DEF Same
<1> QED
  BY <1>1 DEF Spaced, Disjoint, Ends

LEMMA SameFits ==
  ASSUME NEW p, NEW st, NEW ln, NEW st2, NEW ln2, Same(Children(p), st, ln, st2, ln2),
         ln2[p] = ln[p], Fits(p, st, ln)
  PROVE  Fits(p, st2, ln2)
<1>1. Same(Children(p), st, ln, st2, ln2) /\ ln2[p] = ln[p]
  OBVIOUS
<1>2. Spaced(p, Children(p), st2, ln2)
  BY <1>1, SameSpaced DEF Fits, Inside
<1>3. \A c \in Children(p) : st2[c] = st[c] /\ ln2[c] = ln[c]
  BY <1>1 DEF Same
<1>4. ln[p] \in Nat /\ \A c \in Children(p) : ln[c] \in Nat /\ st[c] >= 0 /\ Ends(c, st, ln) <= ln[p]
  BY DEF Fits, Inside
<1>5. \A c \in Children(p) : ln2[c] \in Nat /\ st2[c] >= 0 /\ Ends(c, st2, ln2) <= ln2[p]
  BY <1>1, <1>3, <1>4 DEF Ends
<1> QED
  BY <1>1, <1>2, <1>4, <1>5 DEF Fits, Inside

LEMMA SamePlacing ==
  ASSUME NEW f, NEW st, NEW ln, NEW st2, NEW ln2, Same(Visited(f), st, ln, st2, ln2)
  PROVE  /\ Placing(f, st, ln) => Placing(f, st2, ln2)
         /\ \A c, at : Offered(f, c, at, st, ln) => Offered(f, c, at, st2, ln2)
<1>1. \A b \in Visited(f) : st2[b] = st[b] /\ ln2[b] = ln[b] /\ Ends(b, st2, ln2) = Ends(b, st, ln)
  BY DEF Same, Ends
<1>2. ASSUME Placing(f, st, ln) PROVE Placing(f, st2, ln2)
  <2>1. Spaced(f.node, Visited(f), st2, ln2)
    BY <1>2, SameSpaced DEF Placing
  <2>2. PlacedRight(f, st, ln) => PlacedRight(f, st2, ln2)
    BY <1>1 DEF PlacedRight
  <2>3. PlacedLeft(f, st, ln) => PlacedLeft(f, st2, ln2)
    BY <1>1 DEF PlacedLeft
  <2> QED
    BY <1>1, <1>2, <2>1, <2>2, <2>3 DEF Placing
<1>3. ASSUME NEW c, NEW at, Offered(f, c, at, st, ln) PROVE Offered(f, c, at, st2, ln2)
  BY <1>1, <1>3 DEF Offered
<1> QED
  BY <1>2, <1>3

Fitted(S, st, ln) == \A p \in S : Fits(p, st, ln)
Elsewhere(x, st, ln) == Same(Nodes \ Below(x), start, length, st, ln)

\* The next child of the innermost call is timed and placed.
\* What is not timed yet stays so when a child has been placed.
LEMMA StillOpen ==
  ASSUME NEW q \in Seq(FrameType), q # << >>, NEW g \in FrameType,
         g.node = q[1].node, g.todo = Tail(q[1].todo)
  PROVE  Pending(q) \subseteq Open(<<g>> \o Tail(q))
<1> DEFINE r == <<g>> \o Tail(q)
<1>1. /\ Len(r) = Len(q) /\ Len(q) \in Nat \ {0}
      /\ r[1] = g /\ \A i \in 2 .. Len(q) : r[i] = q[i]
  BY NewHead
<1> HIDE DEF r
<1> SUFFICES ASSUME NEW p \in Nodes, NEW i \in 1 .. Len(q),
                    p = q[i].node \/ \E c \in ToSet(Tail(q[i].todo)) : p \in Below(c)
             PROVE  p \in Open(r)
  BY DEF Pending, r
<1>2. i = 1 \/ i \in 2 .. Len(q)
  BY <1>1
<1>3. i \in 1 .. Len(r) /\ r[i].node = q[i].node
  BY <1>1, <1>2
<1>4. (IF i = 1 THEN r[i].todo ELSE Tail(r[i].todo)) = Tail(q[i].todo)
  BY <1>1, <1>2
<1> QED
  BY <1>3, <1>4 DEF Open

LEMMA Finished ==
  ASSUME Built, start \in [Nodes -> Int], NEW q, Calling(q, start, length), q # << >>,
         NEW at \in Nat, Called(q[1], Head(q[1].todo), at, start, length), NEW len \in Nat,
         NEW st, NEW ln, Elsewhere(Head(q[1].todo), st, ln),
         st[Head(q[1].todo)] = Placed(q[1], Head(q[1].todo), at, len), ln[Head(q[1].todo)] = len,
         Fitted((Nodes \ Pending(q)) \ Below(Head(q[1].todo)), start, length),
         Fitted(Below(Head(q[1].todo)), st, ln)
  PROVE  LET r == << Advance(q[1], Head(q[1].todo), at, len) >> \o Tail(q)
         IN  /\ Calling(r, st, ln) /\ Fitted(Nodes \ Open(r), st, ln) /\ r # << >>
             /\ Placed(q[1], Head(q[1].todo), at, len) \in Int
<1> DEFINE x == Head(q[1].todo)
           g == Advance(q[1], x, at, len)
           r == <<g>> \o Tail(q)
<1>0. tree \in Experiments
  BY DEF Built
<1>1. /\ q \in Seq(FrameType) /\ Len(q) \in Nat \ {0}
      /\ \A i \in 1 .. Len(q) : q[i] \in FrameType /\ Progress(q[i]) /\ Placing(q[i], start, length)
      /\ \A i \in 1 .. Len(q) - 1 : Called(q[i + 1], q[i].node, q[i].at, start, length)
      /\ q[Len(q)].node = 1
  BY DEF Calling
<1>2. q[1].todo # << >> /\ Offered(q[1], x, at, start, length)
  BY DEF Called
<1>3. Nested(q)
  BY <1>1 DEF Nested, Called
<1>4. /\ \A i \in 1 .. Len(q) : /\ q[i].node \in Nodes /\ q[i].node \notin Below(x)
                               /\ \A b \in Visited(q[i]) : b \notin Below(x)
      /\ Below(x) \cap Pending(q) = {}
      /\ x \in Children(q[1].node) /\ x \in Nodes
  BY <1>0, <1>2, <1>3, Path
<1>5. Elsewhere(x, st, ln)
  OBVIOUS
<1>6. \A i \in 1 .. Len(q) : Same(Visited(q[i]), start, length, st, ln)
  <2> SUFFICES ASSUME NEW i \in 1 .. Len(q), NEW b \in Visited(q[i])
               PROVE  st[b] = start[b] /\ ln[b] = length[b]
    BY DEF Same
  <2>1. b \in Nodes /\ b \notin Below(x)
    BY <1>0, <1>4, Shape DEF Visited
  <2> QED
    BY <2>1, <1>5 DEF Elsewhere, Same
<1>7. /\ g \in FrameType /\ Progress(g) /\ Placing(g, st, ln)
      /\ g.node = q[1].node /\ g.at = q[1].at /\ g.todo = Tail(q[1].todo)
      /\ Placed(q[1], x, at, len) \in Int
  <2> DEFINE f == q[1]
  <2>1. f \in FrameType /\ Progress(f) /\ f.todo # << >> /\ Placing(f, start, length)
        /\ Offered(f, Head(f.todo), at, start, length) /\ Same(Visited(f), start, length, st, ln)
    BY <1>1, <1>2, <1>6
  <2>2. st[Head(f.todo)] = Placed(f, Head(f.todo), at, len) /\ ln[Head(f.todo)] = len
    OBVIOUS
  <2> HIDE DEF f
  <2>3. LET h == Advance(f, Head(f.todo), at, len)
        IN  /\ h \in FrameType /\ Progress(h) /\ Placing(h, st, ln)
            /\ h.node = f.node /\ h.at = f.at /\ h.todo = Tail(f.todo)
            /\ Placed(f, Head(f.todo), at, len) \in Int
    BY <2>1, <2>2, PlacedNext
  <2> QED
    BY <2>3 DEF f
<1> HIDE DEF x, g
<1>8. /\ r \in Seq(FrameType) /\ Len(r) = Len(q) /\ r # << >>
      /\ r[1] = g /\ \A i \in 2 .. Len(q) : r[i] = q[i]
  BY <1>1, <1>7, NewHead
<1> HIDE DEF r
<1>9. \A i \in 1 .. Len(r) : Progress(r[i]) /\ Placing(r[i], st, ln) /\ r[i].node = q[i].node
                             /\ r[i].at = q[i].at
  <2> SUFFICES ASSUME NEW i \in 1 .. Len(q)
               PROVE  Progress(r[i]) /\ Placing(r[i], st, ln) /\ r[i].node = q[i].node
                      /\ r[i].at = q[i].at
    BY <1>8
  <2>1. CASE i = 1
    BY <2>1, <1>7, <1>8
  <2>2. CASE i # 1
    <3>1. r[i] = q[i]
      BY <2>2, <1>1, <1>8
    <3>2. Placing(q[i], st, ln)
      BY <1>1, <1>6, SamePlacing
    <3> QED
      BY <3>1, <3>2, <1>1
  <2> QED
    BY <2>1, <2>2
<1>10. ASSUME NEW i \in 1 .. Len(r) - 1
       PROVE  Called(r[i + 1], r[i].node, r[i].at, st, ln)
  <2>1. i \in 1 .. Len(q) - 1 /\ i \in 1 .. Len(q) /\ i + 1 \in 1 .. Len(q) /\ i + 1 \in 2 .. Len(q)
        /\ i \in 1 .. Len(r)
    BY <1>1, <1>8
  <2>2. r[i + 1] = q[i + 1] /\ r[i].node = q[i].node /\ r[i].at = q[i].at
    BY <2>1, <1>8, <1>9
  <2>3. Called(q[i + 1], q[i].node, q[i].at, start, length)
    BY <2>1, <1>1
  <2>4. Offered(q[i + 1], q[i].node, q[i].at, st, ln)
    BY <2>1, <2>3, <1>6, SamePlacing DEF Called
  <2> QED
    BY <2>2, <2>3, <2>4 DEF Called
<1>11. r[Len(r)].node = 1
  BY <1>1, <1>8, <1>9
<1>12. Calling(r, st, ln)
  BY <1>8, <1>9, <1>10, <1>11 DEF Calling
<1>13. Pending(q) \subseteq Open(r)
  <2>1. g.node = q[1].node /\ g.todo = Tail(q[1].todo)
    BY <1>7
  <2> QED
    BY <2>1, <1>1, <1>7, StillOpen DEF r
<1>14. ASSUME NEW p \in Nodes \ Open(r) PROVE Fits(p, st, ln)
  <2>1. CASE p \in Below(x)
    BY <2>1 DEF Fitted, x
  <2>2. CASE p \notin Below(x)
    <3>1. p \notin Pending(q)
      BY <1>13
    <3>2. Fits(p, start, length)
      BY <3>1, <2>2 DEF Fitted, x
    <3>3. ASSUME NEW c \in Children(p) PROVE c \in Nodes /\ c \notin Below(x)
      <4>1. c \in Nodes /\ Parent(c) = p
        BY <1>0, Families
      <4>2. c # x
        <5>1. q[1].node \in Pending(q)
          BY <1>1, <1>4 DEF Pending
        <5>2. Parent(x) = q[1].node
          BY <1>0, <1>1, <1>4, Families
        <5> QED
          BY <3>1, <4>1, <5>1, <5>2
      <4> SUFFICES ASSUME c \in Below(x) PROVE FALSE
        BY <4>1
      <4>3. Parent(c) \in Below(x)
        BY <4>2, <1>0, <1>4, BelowIsLater
      <4> QED
        BY <4>1, <4>3, <2>2
    <3>4. Same(Children(p), start, length, st, ln) /\ ln[p] = length[p]
      BY <2>2, <3>3, <1>5 DEF Elsewhere, Same
    <3> QED
      BY <3>2, <3>4, SameFits
  <2> QED
    BY <2>1, <2>2
<1> QED
  BY <1>7, <1>8, <1>12, <1>14 DEF Fitted, r, g, x

-----------------------------------------------------------------------------
(* Positions.                                                              *)

PositionsAre(pos, n, at, st) ==
  pos = [m \in Below(n) |-> IF m = n THEN at ELSE pos[Parent(m)] + st[m]]

LEMMA PositionsExist ==
  ASSUME tree \in Experiments, NEW n \in Nodes, NEW at \in Int, NEW st \in [Nodes -> Int]
  PROVE  \E pos : PositionsAre(pos, n, at, st)
<1> DEFINE D == Below(n)
           value(f, m) == IF m = n THEN at ELSE f[Parent(m)] + st[m]
           F == [f \in [D -> Int] |-> [m \in D |-> value(f, m)]]
           K == Len(tree)
           r == [m \in D |-> m]
<1>1. D \subseteq Nodes /\ Nodes = 1 .. K /\ K \in Nat
  BY Shape, BelowIs
<1>2. r \in [D -> 0 .. K]
  BY <1>1
<1>3. ASSUME NEW m \in D, m # n PROVE Parent(m) \in D /\ r[Parent(m)] < r[m]
  <2>1. m # 1 /\ Parent(m) \in D /\ m \in Nodes
    BY <1>3, BelowIsLater
  <2>2. Parent(m) < m
    BY <2>1, Families
  <2> QED
    BY <2>1, <2>2
<1> HIDE DEF D, K, r
<1>4. ASSUME NEW f \in [D -> Int], NEW m \in D PROVE value(f, m) \in Int
  <2>1. CASE m = n
    BY <2>1
  <2>2. CASE m # n
    <3>1. f[Parent(m)] \in Int /\ st[m] \in Int
      BY <2>2, <1>1, <1>3
    <3> QED
      BY <3>1, <2>2
  <2> QED
    BY <2>1, <2>2
<1>5. ASSUME NEW f \in [D -> Int], NEW g \in [D -> Int], NEW m \in D,
             \A c \in D : r[c] < r[m] => f[c] = g[c]
      PROVE  value(f, m) = value(g, m)
  <2>1. CASE m = n
    BY <2>1
  <2>2. CASE m # n
    <3>1. f[Parent(m)] = g[Parent(m)]
      BY <2>2, <1>3, <1>5
    <3> QED
      BY <3>1, <2>2
  <2> QED
    BY <2>1, <2>2
<1> HIDE DEF value
<1>6. \A f \in [D -> Int] : F[f] = [m \in D |-> value(f, m)]
  OBVIOUS
<1>7. F \in [[D -> Int] -> [D -> Int]]
  BY <1>4
<1> HIDE DEF F
<1>8. WellFounded(D, Int, r, F)
  <2> SUFFICES ASSUME NEW f \in [D -> Int], NEW g \in [D -> Int], NEW m \in D,
                      \A c \in D : r[c] < r[m] => f[c] = g[c]
               PROVE  F[f][m] = F[g][m]
    BY DEF WellFounded
  <2>1. value(f, m) = value(g, m)
    BY <1>5
  <2>2. F[f][m] = value(f, m) /\ F[g][m] = value(g, m)
    BY <1>6
  <2> QED
    BY <2>1, <2>2
<1>9. Recursive(D, Int, K, r, F)
  <2>1. Int # {}
    <3>1. 0 \in Int
      OBVIOUS
    <3> QED
      BY <3>1
  <2> QED
    BY <2>1, <1>1, <1>2, <1>7, <1>8 DEF Recursive
<1>10. PICK f \in [D -> Int] : F[f] = f
  <2>1. FixedPoint(D, Int, F)
    BY <1>9, Recursion
  <2> QED
    BY <2>1 DEF FixedPoint
<1>11. f = [m \in D |-> value(f, m)]
  BY <1>6, <1>10
<1>12. PositionsAre(f, n, at, st)
  BY <1>11 DEF PositionsAre, D, value
<1> QED
  BY <1>12

LEMMA Positions ==
  ASSUME tree \in Experiments, NEW n \in Nodes, NEW at \in Int, NEW st \in [Nodes -> Int]
  PROVE  LET pos == PositionsFrom(n, at, st)
         IN  /\ pos \in [Below(n) -> Int] /\ pos[n] = at
             /\ \A m \in Below(n) \ {n} : /\ m \in Nodes /\ m # 1 /\ Parent(m) \in Below(n)
                                         /\ pos[m] = pos[Parent(m)] + st[m]
<1> DEFINE pos == PositionsFrom(n, at, st)
<1>1. PositionsAre(pos, n, at, st)
  <2>1. pos = CHOOSE p : PositionsAre(p, n, at, st)
    BY DEF PositionsFrom, PositionsAre
  <2>2. \E p : PositionsAre(p, n, at, st)
    BY PositionsExist
  <2> QED
    BY <2>1, <2>2
<1> HIDE DEF pos
<1>2. pos = [m \in Below(n) |-> IF m = n THEN at ELSE pos[Parent(m)] + st[m]]
  BY <1>1 DEF PositionsAre
<1>3. n \in Below(n) /\ Below(n) \subseteq Nodes
  BY BelowWays, BelowIs
<1>4. \A m \in Below(n) \ {n} : /\ m \in Nodes /\ m # 1 /\ Parent(m) \in Below(n)
                               /\ Parent(m) < m /\ Parent(m) \in Int /\ m \in Int
  <2> SUFFICES ASSUME NEW m \in Below(n) \ {n}
               PROVE  /\ m \in Nodes /\ m # 1 /\ Parent(m) \in Below(n)
                      /\ Parent(m) < m /\ Parent(m) \in Int /\ m \in Int
    OBVIOUS
  <2>1. m \in Nodes /\ m # 1 /\ Parent(m) \in Below(n)
    BY BelowIsLater
  <2> QED
    BY <2>1, Families, Shape
<1>5. pos[n] = at /\ \A m \in Below(n) \ {n} : pos[m] = pos[Parent(m)] + st[m]
  BY <1>2, <1>3
<1> DEFINE Bad == {m \in Below(n) : pos[m] \notin Int}
<1>6. Bad = {}
  <2> SUFFICES ASSUME Bad # {} PROVE FALSE
    OBVIOUS
  <2>1. PICK m \in Bad : \A k \in Bad : m <= k
    <3>1. Bad \in SUBSET Nat
      BY <1>3, Shape
    <3> HIDE DEF Bad
    <3> QED
      BY <3>1, Least
  <2>2. m # n
    BY <1>5
  <2>3. pos[Parent(m)] \in Int
    <3>1. Parent(m) \in Below(n) /\ ~(m <= Parent(m))
      BY <2>2, <1>4
    <3> QED
      BY <3>1, <2>1
  <2>4. st[m] \in Int
    BY <1>3
  <2> QED
    BY <2>2, <2>3, <2>4, <1>5
<1>7. pos \in [Below(n) -> Int]
  <2>1. \A m \in Below(n) : pos[m] \in Int
    BY <1>6
  <2>2. DOMAIN pos = Below(n) /\ pos = [m \in Below(n) |-> pos[m]]
    BY <1>2
  <2> QED
    BY <2>1, <2>2
<1> QED
  BY <1>4, <1>5, <1>7 DEF pos

\* If the nodes below n are at 0 or later, their positions are n's or later.
LEMMA LaterPositions ==
  ASSUME tree \in Experiments, NEW n \in Nodes, NEW at \in Nat, NEW st \in [Nodes -> Int],
         \A p \in Below(n) : \A c \in Children(p) : st[c] >= 0
  PROVE  \A m \in Below(n) : PositionsFrom(n, at, st)[m] \in Nat
<1> DEFINE pos == PositionsFrom(n, at, st)
<1>1. /\ pos \in [Below(n) -> Int] /\ pos[n] = at
      /\ \A m \in Below(n) \ {n} : /\ m \in Nodes /\ m # 1 /\ Parent(m) \in Below(n)
                                  /\ pos[m] = pos[Parent(m)] + st[m]
  BY Positions
<1> HIDE DEF pos
<1> DEFINE Bad == {m \in Below(n) : pos[m] \notin Nat}
<1>2. Bad = {}
  <2> SUFFICES ASSUME Bad # {} PROVE FALSE
    OBVIOUS
  <2>1. PICK m \in Bad : \A k \in Bad : m <= k
    <3>1. Bad \in SUBSET Nat
      BY BelowIs, Shape
    <3> HIDE DEF Bad
    <3> QED
      BY <3>1, Least
  <2>2. m # n
    BY <1>1
  <2>3. m \in Nodes /\ m # 1 /\ Parent(m) \in Below(n) /\ pos[m] = pos[Parent(m)] + st[m]
    BY <2>2, <1>1
  <2>4. Parent(m) \in Nodes /\ m \in Children(Parent(m)) /\ Parent(m) < m
    BY <2>3, Families
  <2>5. pos[Parent(m)] \in Nat
    <3>1. Parent(m) \in Int /\ m \in Int
      BY <2>3, <2>4, Shape
    <3>2. ~(m <= Parent(m))
      BY <3>1, <2>4
    <3> QED
      BY <3>2, <2>1, <2>3
  <2>6. st[m] \in Int /\ st[m] >= 0
    BY <2>3, <2>4
  <2> QED
    BY <2>3, <2>5, <2>6
<1> QED
  BY <1>2 DEF pos

LEMMA Fixed ==
  ASSUME tree \in Experiments, NEW n \in Nodes, NEW at \in Nat, NEW st \in [Nodes -> Int],
         \A p \in Below(n) : \A c \in Children(p) : st[c] >= 0,
         absolute \in [Nodes -> Nat \cup {None}]
  PROVE  FixedFrom(n, at, st) \in [Nodes -> Nat \cup {None}]
<1> DEFINE pos == PositionsFrom(n, at, st)
<1>2. \A m \in Below(n) : pos[m] \in Nat
  BY LaterPositions
<1>3. FixedFrom(n, at, st) =
        [m \in Nodes |-> IF m \in Below(n) /\ absolute[m] = None THEN pos[m] ELSE absolute[m]]
  BY DEF FixedFrom
<1> HIDE DEF pos
<1> QED
  BY <1>2, <1>3

-----------------------------------------------------------------------------
(* What does not change while the sections are timed.                      *)

LEMMA TreeStays ==
  ASSUME UNCHANGED built
  PROVE  /\ tree' = tree /\ signals' = signals /\ grid' = grid /\ loopGrid' = loopGrid
         /\ Nodes' = Nodes
         /\ \A n : Children(n)' = Children(n) /\ RightArranged(n)' = RightArranged(n)
         /\ \A n : Below(n)' = Below(n)
         /\ \A p, c : Index(p, c)' = Index(p, c)
         /\ \A p, c : PlaysAfter(p, c)' = PlaysAfter(p, c)
         /\ \A p, c : PlaysBefore(p, c)' = PlaysBefore(p, c)
<1>1. tree' = tree /\ signals' = signals /\ grid' = grid /\ loopGrid' = loopGrid
  BY DEF built
<1>2. Nodes' = Nodes
  BY <1>1 DEF Nodes
<1>3. ASSUME NEW n PROVE Children(n)' = Children(n) /\ RightArranged(n)' = RightArranged(n)
  BY <1>1 DEF Children, RightArranged
<1>4. ASSUME NEW n PROVE Below(n)' = Below(n)
  BY <1>1 DEF Below, Nodes, Children
<1>5. ASSUME NEW p, NEW c PROVE Index(p, c)' = Index(p, c)
  BY <1>1 DEF Index
<1>6. ASSUME NEW p, NEW c PROVE PlaysAfter(p, c)' = PlaysAfter(p, c)
  BY <1>1 DEF PlaysAfter, Named, Children
<1>7. ASSUME NEW p, NEW c PROVE PlaysBefore(p, c)' = PlaysBefore(p, c)
  BY <1>1 DEF PlaysBefore, PlaysAfter, Named, Children
<1> QED
  BY <1>1, <1>2, <1>3, <1>4, <1>5, <1>6, <1>7

LEMMA MeaningStays ==
  ASSUME UNCHANGED built
  PROVE  /\ \A n, b, c : Apart(n, b, c)' = Apart(n, b, c) /\ Follows(n, b, c)' = Follows(n, b, c)
         /\ \A n, P, st, ln : Spaced(n, P, st, ln)' = Spaced(n, P, st, ln)
         /\ \A n, st, ln : Fits(n, st, ln)' = Fits(n, st, ln)
<1>1. ASSUME NEW n, NEW b, NEW c
      PROVE  Apart(n, b, c)' = Apart(n, b, c) /\ Follows(n, b, c)' = Follows(n, b, c)
  BY TreeStays DEF Apart, Follows
<1>2. ASSUME NEW n, NEW P, NEW st, NEW ln PROVE Spaced(n, P, st, ln)' = Spaced(n, P, st, ln)
  BY <1>1 DEF Spaced
<1>3. ASSUME NEW n, NEW st, NEW ln PROVE Fits(n, st, ln)' = Fits(n, st, ln)
  BY <1>2, TreeStays DEF Fits, Inside
<1> QED
  BY <1>1, <1>2, <1>3

LEMMA CallsStay ==
  ASSUME UNCHANGED built
  PROVE  /\ FrameType' = FrameType
         /\ \A f : Visited(f)' = Visited(f) /\ Progress(f)' = Progress(f)
         /\ \A f, st, ln : Placing(f, st, ln)' = Placing(f, st, ln)
         /\ \A f, c, at, st, ln : Called(f, c, at, st, ln)' = Called(f, c, at, st, ln)
         /\ \A q : Open(q)' = Open(q)
<1>1. FrameType' = FrameType
  BY TreeStays DEF FrameType
<1>2. ASSUME NEW f PROVE Visited(f)' = Visited(f) /\ Progress(f)' = Progress(f)
  BY TreeStays DEF Visited, Progress, Order
<1>3. ASSUME NEW f, NEW st, NEW ln PROVE Placing(f, st, ln)' = Placing(f, st, ln)
  <2>1. PlacedRight(f, st, ln)' = PlacedRight(f, st, ln)
    BY <1>2, TreeStays DEF PlacedRight, Ends
  <2>2. PlacedLeft(f, st, ln)' = PlacedLeft(f, st, ln)
    BY <1>2, TreeStays DEF PlacedLeft, Ends
  <2> QED
    BY <1>2, <2>1, <2>2, TreeStays, MeaningStays DEF Placing
<1>4. ASSUME NEW f, NEW c, NEW at, NEW st, NEW ln
      PROVE  Called(f, c, at, st, ln)' = Called(f, c, at, st, ln)
  BY <1>2, TreeStays, MeaningStays DEF Called, Offered, Ends
<1>5. ASSUME NEW q PROVE Open(q)' = Open(q)
  BY TreeStays DEF Open
<1> QED
  BY <1>1, <1>2, <1>3, <1>4, <1>5

LEMMA CallingStays ==
  ASSUME UNCHANGED built
  PROVE  /\ \A q, st, ln : Calling(q, st, ln)' = Calling(q, st, ln)
         /\ \A S, st, ln : Fitted(S, st, ln)' = Fitted(S, st, ln)
<1>1. ASSUME NEW q, NEW st, NEW ln PROVE Calling(q, st, ln)' = Calling(q, st, ln)
  BY CallsStay DEF Calling
<1>2. ASSUME NEW S, NEW st, NEW ln PROVE Fitted(S, st, ln)' = Fitted(S, st, ln)
  BY MeaningStays DEF Fitted
<1> QED
  BY <1>1, <1>2

(* The invariant.                                                          *)
Inv == Built /\ Typed /\ Calls /\ Timed

NextTyped ==
  /\ start' \in [Nodes -> Int]
  /\ length' \in [Nodes -> Nat \cup {None}]
  /\ \A n \in Nodes : tree[n].kind \in {"play", "acquire", "group", "reset"} => length'[n] \in Nat
  /\ absolute' \in [Nodes -> Nat \cup {None}]
  /\ DOMAIN acquired' = DOMAIN acquired
  /\ \A h \in DOMAIN acquired : acquired'[h] \in Seq(Nodes)

\* A step that keeps the tree and leaves the calls in order.
LEMMA Continues ==
  ASSUME Inv, UNCHANGED built, NextTyped, outcome' \in {"running", "done", "refused"},
         Calling(stack', start', length'), Fitted(Nodes \ Open(stack'), start', length'),
         outcome' = "running" => stack' # << >>, outcome' = "done" => stack' = << >>
  PROVE  Inv'
<1>1. Built'
  BY TreeStays DEF Inv, Built
<1>2. Typed'
  <2>1. DOMAIN acquired = {tree[n].handle : n \in Nodes}
    BY DEF Inv, Typed
  <2> QED
    BY <2>1, TreeStays DEF NextTyped, Typed
<1>3. Calls'
  BY CallingStays DEF Calls
<1>4. Timed'
  <2>1. Fitted(Nodes \ Open(stack), start, length)'
    BY TreeStays, CallsStay, CallingStays
  <2> QED
    BY <2>1 DEF Timed, Fitted
<1> QED
  BY <1>1, <1>2, <1>3, <1>4 DEF Inv

-----------------------------------------------------------------------------
(* The steps.                                                              *)

LEMMA NewCall ==
  ASSUME tree \in Experiments, NEW n \in Nodes, tree[n].kind \notin Leaves, NEW at \in Nat,
         NEW mayChange \in BOOLEAN, NEW st, NEW ln
  PROVE  LET f == Call(n, at, mayChange)
         IN  /\ f \in FrameType /\ f.node = n /\ f.at = at
             /\ ToSet(f.todo) = Children(n) /\ Progress(f) /\ Placing(f, st, ln)
<1> DEFINE f == Call(n, at, mayChange)
           s == Order(n)
           e == [x \in Signals |-> 0]
<1>1. s \in Seq(Nodes) /\ ToSet(s) = Children(n)
  BY Orders
<1>2. f = [node |-> n, at |-> at, mayChange |-> mayChange, todo |-> s, edge |-> e]
  BY DEF Call, Order
<1>3. e \in [Signals -> Int]
  OBVIOUS
<1> HIDE DEF f, s, e
<1>4. /\ f \in FrameType /\ f.node = n /\ f.at = at /\ f.todo = s
  BY <1>1, <1>2, <1>3 DEF FrameType
<1>5. IsRest(s, s, 0)
  BY <1>1 DEF IsRest
<1>6. Progress(f)
  <2>1. 0 \in Nat
    OBVIOUS
  <2> QED
    BY <1>4, <1>5, <2>1 DEF Progress, s
<1>7. Visited(f) = {}
  BY <1>1, <1>4 DEF Visited
<1>8. Placing(f, st, ln)
  BY <1>7 DEF Placing, Spaced, PlacedRight, PlacedLeft
<1> QED
  BY <1>1, <1>4, <1>6, <1>8 DEF f

LEMMA Starts == Init => Inv /\ OnGrid
<1> SUFFICES ASSUME Init PROVE Inv /\ OnGrid
  OBVIOUS
<1>1. Built
  BY DEF Init, Built
<1>2. tree \in Experiments
  BY <1>1 DEF Built
<1> DEFINE f == Call(1, 0, FALSE)
<1>3. /\ start = [n \in Nodes |-> 0] /\ length = [n \in Nodes |-> tree[n].length]
      /\ absolute = [n \in Nodes |-> None]
      /\ acquired = [h \in {tree[n].handle : n \in Nodes} |-> << >>]
      /\ stack = <<f>> /\ outcome = "running"
  BY DEF Init, Nodes
<1>4. Typed
  <2>1. \A n \in Nodes : tree[n].length \in Nat \cup {None}
    BY <1>2, Shape DEF NodeType
  <2>2. \A n \in Nodes : tree[n].kind \in {"play", "acquire", "group", "reset"} => tree[n].length # None
    BY <1>2, KindAssumption DEF Nodes
  <2> QED
    BY <1>3, <2>1, <2>2 DEF Typed
<1>5. 1 \in Nodes /\ tree[1].kind \notin Leaves
  BY <1>2, Shape DEF Leaves
<1>6. /\ f \in FrameType /\ f.node = 1 /\ f.at = 0 /\ ToSet(f.todo) = Children(1)
      /\ Progress(f) /\ Placing(f, start, length)
  BY <1>2, <1>5, NewCall
<1> HIDE DEF f
<1>7. /\ stack \in Seq(FrameType) /\ Len(stack) = 1 /\ stack[1] = f /\ stack # << >>
  BY <1>3, <1>6
<1>8. Calls
  <2>1. \A i \in 1 .. Len(stack) : stack[i] = f
    BY <1>7
  <2>2. \A i \in 1 .. Len(stack) - 1 : FALSE
    BY <1>7
  <2>3. Calling(stack, start, length)
    BY <1>6, <1>7, <2>1, <2>2 DEF Calling
  <2> QED
    BY <2>3, <1>3, <1>7 DEF Calls
<1>9. \A p \in Nodes : p \in Open(stack)
  <2> SUFFICES ASSUME NEW p \in Nodes PROVE p \in Open(stack)
    OBVIOUS
  <2>1. p = 1 \/ \E c \in Children(1) : p \in Below(c)
    BY <1>2, <1>5, Everything, BelowWays
  <2>2. 1 \in 1 .. Len(stack)
    BY <1>7
  <2> QED
    BY <2>1, <2>2, <1>6, <1>7 DEF Open
<1>10. OnGrid
  <2>1. ASSUME NEW p \in Nodes, NEW c \in Children(p) PROVE Divides(Unit(p, c), start[c])
    <3>1. c \in Nodes /\ Unit(p, c) \in Int
      BY <1>1, <1>2, Shape, Units
    <3> QED
      BY <3>1, <1>3, DividesZero
  <2>2. Divides(grid[1], 0)
    BY <1>1, <1>5, Facts, DividesZero
  <2>3. AskedOnGrid(stack)
    BY <2>2, <1>6, <1>7 DEF AskedOnGrid
  <2> QED
    BY <2>1, <2>3, <1>9 DEF OnGrid, StartsOnGrid
<1> QED
  BY <1>1, <1>4, <1>8, <1>9, <1>10 DEF Inv, Timed

LEMMA Refusing ==
  ASSUME Inv, Refuse
  PROVE  Inv'
<1>1. UNCHANGED built /\ outcome' = "refused"
      /\ start' = start /\ length' = length /\ absolute' = absolute /\ acquired' = acquired
      /\ stack' = stack
  BY DEF Refuse
<1>2. NextTyped
  BY <1>1 DEF Inv, Typed, NextTyped
<1>3. Calling(stack', start', length')
  BY <1>1 DEF Inv, Calls
<1>4. Fitted(Nodes \ Open(stack'), start', length')
  BY <1>1 DEF Inv, Timed, Fitted
<1> QED
  BY <1>1, <1>2, <1>3, <1>4, Continues

LEMMA StackIs ==
  ASSUME Inv, stack # << >>
  PROVE  /\ stack \in Seq(FrameType) /\ Len(stack) \in Nat \ {0} /\ Top = stack[1] /\ Top \in FrameType
         /\ Progress(Top) /\ Placing(Top, start, length)
         /\ \A i \in 1 .. Len(stack) : stack[i] \in FrameType /\ stack[i].node \in Nodes
<1>1. Calling(stack, start, length)
  BY DEF Inv, Calls
<1>2. /\ stack \in Seq(FrameType) /\ Len(stack) \in Nat \ {0} /\ 1 \in 1 .. Len(stack)
      /\ Head(stack) = stack[1]
  BY <1>1 DEF Calling
<1>3. \A i \in 1 .. Len(stack) : stack[i] \in FrameType
  BY <1>2
<1>4. \A i \in 1 .. Len(stack) : Progress(stack[i]) /\ Placing(stack[i], start, length)
  BY <1>1 DEF Calling
<1> QED
  BY <1>2, <1>3, <1>4 DEF Top, FrameType

\* Nothing is closed when a child that has children is called.
LEMMA OpenBranch ==
  ASSUME tree \in Experiments, stack \in Seq(FrameType), stack # << >>, Top = stack[1],
         Top.node \in Nodes, Progress(Top), Top.todo # << >>,
         NEW c \in Nodes, c = Head(Top.todo),
         NEW g, g.node = c, ToSet(g.todo) = Children(c)
  PROVE  Open(stack) \subseteq Open(<<g>> \o stack)
<1> DEFINE q == <<g>> \o stack
<1>1. /\ Len(stack) \in Nat \ {0} /\ Len(q) = Len(stack) + 1 /\ q[1] = g
      /\ \A i \in 1 .. Len(stack) : q[i + 1] = stack[i]
  OBVIOUS
<1> HIDE DEF q
<1> SUFFICES ASSUME NEW p \in Nodes, NEW i \in 1 .. Len(stack),
                    \/ p = stack[i].node
                    \/ \E b \in ToSet(IF i = 1 THEN stack[i].todo ELSE Tail(stack[i].todo)) : p \in Below(b)
             PROVE  p \in Open(q)
  BY DEF Open, q
<1>2. i + 1 \in 1 .. Len(q) /\ i + 1 # 1 /\ q[i + 1] = stack[i]
  BY <1>1
<1>3. CASE p = stack[i].node \/ \E b \in ToSet(Tail(stack[i].todo)) : p \in Below(b)
  BY <1>2, <1>3 DEF Open
<1>4. CASE i = 1 /\ \E b \in ToSet(stack[i].todo) : p \in Below(b)
  <2>1. PICK b \in ToSet(stack[1].todo) : p \in Below(b)
    BY <1>4
  <2>2. ToSet(Top.todo) = ToSet(Tail(Top.todo)) \cup {c}
    <3> DEFINE f == Top
               h == [node |-> f.node, todo |-> Tail(f.todo)]
    <3>1. h.node = f.node /\ h.todo = Tail(f.todo)
      OBVIOUS
    <3>2. f.node \in Nodes /\ Progress(f) /\ f.todo # << >> /\ c = Head(f.todo)
      OBVIOUS
    <3> HIDE DEF f, h
    <3>3. ToSet(f.todo) = ToSet(Tail(f.todo)) \cup {c}
      BY <3>1, <3>2, Step
    <3> QED
      BY <3>3 DEF f
  <2>3. CASE b \in ToSet(Tail(Top.todo))
    BY <2>1, <2>3, <1>2, <1>4 DEF Open
  <2>4. CASE b = c
    <3>1. p = c \/ \E a \in Children(c) : p \in Below(a)
      BY <2>1, <2>4, BelowWays
    <3>2. 1 \in 1 .. Len(q) /\ q[1] = g
      BY <1>1
    <3> QED
      BY <3>1, <3>2 DEF Open
  <2> QED
    BY <2>1, <2>2, <2>3, <2>4
<1> QED
  BY <1>3, <1>4

LEMMA VisitsBranch ==
  ASSUME Inv, VisitBranch
  PROVE  Inv'
<1> DEFINE c == Next1
           at == CalledAt(Top, c)
           g == Call(c, at, MayChange(Top, c))
<1>0. tree \in Experiments /\ Built /\ Typed /\ Calling(stack, start, length)
  BY DEF Inv, Built, Calls
<1>1. /\ outcome = "running" /\ Top.todo # << >> /\ ~Refused(Top, c) /\ tree[c].kind \notin Leaves
      /\ stack' = <<g>> \o stack
      /\ UNCHANGED built /\ start' = start /\ length' = length
      /\ absolute' = absolute /\ acquired' = acquired /\ outcome' = outcome
  BY DEF VisitBranch, Visiting
<1>2. stack # << >>
  BY <1>1 DEF Inv, Calls
<1>3. /\ stack \in Seq(FrameType) /\ Len(stack) \in Nat \ {0} /\ Top = stack[1] /\ Top \in FrameType
      /\ Progress(Top) /\ Placing(Top, start, length) /\ Top.node \in Nodes
  BY <1>2, StackIs DEF FrameType
<1>4. c = Head(Top.todo)
  BY DEF Next1
<1>5. at \in Nat /\ Offered(Top, c, at, start, length)
  BY <1>0, <1>1, <1>3, <1>4, Asked
<1>6. c \in Children(Top.node) /\ c \in Nodes
  <2>1. [node |-> Top.node, todo |-> Tail(Top.todo)].node = Top.node
        /\ [node |-> Top.node, todo |-> Tail(Top.todo)].todo = Tail(Top.todo)
    OBVIOUS
  <2>2. c \in Children(Top.node)
    BY <2>1, <1>0, <1>1, <1>3, <1>4, Step
  <2> QED
    BY <2>2, <1>0, <1>3, Shape
<1>7. MayChange(Top, c) \in BOOLEAN
  <2>1. Top.mayChange \in BOOLEAN
    BY <1>3 DEF FrameType
  <2> QED
    BY <2>1 DEF MayChange
<1>8. /\ g \in FrameType /\ g.node = c /\ g.at = at
      /\ ToSet(g.todo) = Children(c) /\ Progress(g) /\ Placing(g, start, length)
  BY <1>0, <1>1, <1>5, <1>6, <1>7, NewCall
<1> DEFINE q == <<g>> \o stack
<1> HIDE DEF c, at, g
<1>9. /\ q \in Seq(FrameType) /\ Len(q) = Len(stack) + 1 /\ q # << >> /\ q[1] = g
      /\ \A i \in 1 .. Len(stack) : q[i + 1] = stack[i]
  BY <1>3, <1>8
<1> HIDE DEF q
<1>10. ASSUME NEW i \in 1 .. Len(q) PROVE i = 1 \/ (i - 1 \in 1 .. Len(stack) /\ q[i] = stack[i - 1])
  <2>1. CASE i = 1
    BY <2>1
  <2>2. CASE i # 1
    <3>1. i - 1 \in 1 .. Len(stack) /\ (i - 1) + 1 = i
      BY <2>2, <1>3, <1>9
    <3> QED
      BY <3>1, <1>9
  <2> QED
    BY <2>1, <2>2
<1>11. \A i \in 1 .. Len(q) : Progress(q[i]) /\ Placing(q[i], start, length)
  BY <1>0, <1>8, <1>9, <1>10 DEF Calling
<1>12. ASSUME NEW i \in 1 .. Len(q) - 1
       PROVE  Called(q[i + 1], q[i].node, q[i].at, start, length)
  <2>1. i \in 1 .. Len(stack) /\ i \in 1 .. Len(q) /\ q[i + 1] = stack[i]
    BY <1>3, <1>9
  <2>2. CASE i = 1
    BY <2>1, <2>2, <1>1, <1>3, <1>4, <1>5, <1>8, <1>9 DEF Called
  <2>3. CASE i # 1
    <3>1. i - 1 \in 1 .. Len(stack) - 1 /\ (i - 1) + 1 = i /\ q[i] = stack[i - 1]
      BY <2>1, <2>3, <1>3, <1>10
    <3>2. Called(stack[(i - 1) + 1], stack[i - 1].node, stack[i - 1].at, start, length)
      BY <3>1, <1>0 DEF Calling
    <3> QED
      BY <2>1, <3>1, <3>2
  <2> QED
    BY <2>2, <2>3
<1>13. q[Len(q)].node = 1
  <2>1. Len(stack) \in 1 .. Len(stack) /\ q[Len(stack) + 1] = stack[Len(stack)]
    BY <1>3, <1>9
  <2> QED
    BY <2>1, <1>0, <1>2, <1>9 DEF Calling
<1>14. Calling(q, start, length)
  BY <1>9, <1>11, <1>12, <1>13 DEF Calling
<1>15. Open(stack) \subseteq Open(q)
  BY <1>0, <1>1, <1>3, <1>4, <1>6, <1>8, OpenBranch DEF q
<1>16. Fitted(Nodes \ Open(q), start, length)
  BY <1>15 DEF Inv, Timed, Fitted
<1>17. NextTyped
  BY <1>0, <1>1 DEF Typed, NextTyped
<1>18. Calling(stack', start', length') /\ Fitted(Nodes \ Open(stack'), start', length')
       /\ stack' # << >>
  BY <1>1, <1>9, <1>14, <1>16 DEF q, g
<1> QED
  BY <1>1, <1>17, <1>18, Continues

LEMMA OpenNow ==
  ASSUME tree \in Experiments, NEW q, q[1].node \in Nodes, Progress(q[1]), q[1].todo # << >>
  PROVE  Open(q) \subseteq Pending(q) \cup Below(Head(q[1].todo))
<1> DEFINE f == q[1]
           g == [node |-> f.node, todo |-> Tail(f.todo)]
<1>1. g.node = f.node /\ g.todo = Tail(f.todo)
  OBVIOUS
<1>2. f.node \in Nodes /\ Progress(f) /\ f.todo # << >>
  OBVIOUS
<1>3. ToSet(f.todo) = ToSet(Tail(f.todo)) \cup {Head(f.todo)}
  <2> HIDE DEF f, g
  <2> QED
    BY <1>1, <1>2, Step
<1> SUFFICES ASSUME NEW p \in Nodes, NEW i \in 1 .. Len(q),
                    \/ p = q[i].node
                    \/ \E b \in ToSet(IF i = 1 THEN q[i].todo ELSE Tail(q[i].todo)) : p \in Below(b)
             PROVE  p \in Pending(q) \/ p \in Below(Head(f.todo))
  BY DEF Open
<1>4. CASE p = q[i].node \/ \E b \in ToSet(Tail(q[i].todo)) : p \in Below(b)
  BY <1>4 DEF Pending
<1>5. CASE i = 1 /\ \E b \in ToSet(q[i].todo) : p \in Below(b)
  <2>1. PICK b \in ToSet(f.todo) : p \in Below(b)
    BY <1>5
  <2>2. CASE b \in ToSet(Tail(f.todo))
    BY <2>1, <2>2, <1>5 DEF Pending
  <2>3. CASE b = Head(f.todo)
    BY <2>1, <2>3
  <2> QED
    BY <2>1, <2>2, <2>3, <1>3
<1> QED
  BY <1>4, <1>5

LEMMA VisitsLeaf ==
  ASSUME Inv, VisitLeaf
  PROVE  Inv'
<1> DEFINE c == Next1
           at == CalledAt(Top, c)
           len == LeafLength(c)
           place == Placed(Top, c, at, len)
           starts == [start EXCEPT ![c] = place]
           lengths == [length EXCEPT ![c] = len]
           q == << Advance(Top, c, at, len) >> \o Tail(stack)
<1>0. tree \in Experiments /\ Built /\ Typed /\ Calling(stack, start, length)
  BY DEF Inv, Built, Calls
<1>1. /\ outcome = "running" /\ Top.todo # << >> /\ ~Refused(Top, c) /\ tree[c].kind \in Leaves
      /\ length' = lengths /\ start' = starts /\ stack' = q
      /\ absolute' = IF MayChange(Top, c) THEN absolute ELSE [absolute EXCEPT ![c] = at]
      /\ acquired' = IF tree[c].kind \in {"acquire", "group"} /\ tree[c].handle # ""
                     THEN [acquired EXCEPT ![tree[c].handle] = Append(@, c)] ELSE acquired
      /\ UNCHANGED built /\ outcome' = outcome
  BY DEF VisitLeaf, Visiting
<1>2. stack # << >>
  BY <1>1 DEF Inv, Calls
<1>3. /\ stack \in Seq(FrameType) /\ Top = stack[1] /\ Top \in FrameType
      /\ Progress(Top) /\ Placing(Top, start, length) /\ Top.node \in Nodes
  BY <1>2, StackIs DEF FrameType
<1>4. c = Head(Top.todo)
  BY DEF Next1
<1>5. at \in Nat /\ Offered(Top, c, at, start, length)
  BY <1>0, <1>1, <1>3, <1>4, Asked
<1>6. c \in Children(Top.node) /\ c \in Nodes
  <2>1. [node |-> Top.node, todo |-> Tail(Top.todo)].node = Top.node
        /\ [node |-> Top.node, todo |-> Tail(Top.todo)].todo = Tail(Top.todo)
    OBVIOUS
  <2>2. c \in Children(Top.node)
    BY <2>1, <1>0, <1>1, <1>3, <1>4, Step
  <2> QED
    BY <2>2, <1>0, <1>3, Shape
<1>7. len \in Nat
  <2>1. CASE tree[c].kind \in {"reserve", "clear"}
    BY <2>1 DEF LeafLength
  <2>2. CASE tree[c].kind = "empty"
    BY <2>2, <1>0, <1>6, Facts DEF LeafLength
  <2>3. CASE tree[c].kind \in {"play", "acquire", "group", "reset"}
    BY <2>3, <1>0, <1>6 DEF LeafLength, Typed
  <2> QED
    BY <2>1, <2>2, <2>3, <1>1 DEF Leaves
<1>8. Children(c) = {} /\ Below(c) = {c}
  <2>1. tree[c].children = << >>
    BY <1>0, <1>1, <1>6, KindAssumption DEF Nodes
  <2>2. Children(c) = {}
    BY <2>1 DEF Children, ToSet
  <2> QED
    BY <2>2, <1>0, <1>6, BelowIs
<1>9. start \in [Nodes -> Int] /\ length \in [Nodes -> Nat \cup {None}]
  BY <1>0 DEF Typed
<1> HIDE DEF c, at, len, place
<1>10. starts[c] = place /\ lengths[c] = len /\ \A m \in Nodes \ {c} : starts[m] = start[m] /\ lengths[m] = length[m]
  BY <1>6, <1>9
<1> HIDE DEF starts, lengths
<1>11. Elsewhere(c, starts, lengths)
  BY <1>8, <1>10 DEF Elsewhere, Same
<1>12. Fitted(Below(c), starts, lengths)
  BY <1>7, <1>8, <1>10 DEF Fitted, Fits, Inside, Spaced
<1>13. Fitted((Nodes \ Pending(stack)) \ Below(c), start, length)
  <2>1. Open(stack) \subseteq Pending(stack) \cup Below(c)
    BY <1>0, <1>1, <1>3, <1>4, OpenNow
  <2> QED
    BY <2>1 DEF Inv, Timed, Fitted
<1>14. /\ Calling(q, starts, lengths) /\ Fitted(Nodes \ Open(q), starts, lengths) /\ q # << >>
       /\ place \in Int
  <2>1. Called(stack[1], c, at, start, length)
    BY <1>1, <1>3, <1>4, <1>5 DEF Called
  <2>2. starts[c] = Placed(stack[1], c, at, len) /\ lengths[c] = len
    BY <1>3, <1>10 DEF place
  <2>3. c = Head(stack[1].todo)
    BY <1>3, <1>4
  <2>4. LET r == << Advance(stack[1], c, at, len) >> \o Tail(stack)
        IN  /\ Calling(r, starts, lengths) /\ Fitted(Nodes \ Open(r), starts, lengths) /\ r # << >>
            /\ Placed(stack[1], c, at, len) \in Int
    BY <1>0, <1>2, <1>5, <1>7, <1>9, <1>11, <1>12, <1>13, <2>1, <2>2, <2>3, Finished
  <2> QED
    BY <2>4, <1>3 DEF place
<1>15. NextTyped
  <2>1. starts \in [Nodes -> Int] /\ lengths \in [Nodes -> Nat \cup {None}]
    BY <1>7, <1>9, <1>14 DEF starts, lengths
  <2>2. \A n \in Nodes : tree[n].kind \in {"play", "acquire", "group", "reset"} => lengths[n] \in Nat
    BY <1>0, <1>7, <1>10 DEF Typed
  <2>3. absolute' \in [Nodes -> Nat \cup {None}]
    BY <1>0, <1>1, <1>5 DEF Typed
  <2>4. DOMAIN acquired' = DOMAIN acquired
    BY <1>1
  <2>5. ASSUME NEW h \in DOMAIN acquired PROVE acquired'[h] \in Seq(Nodes)
    <3>1. acquired[h] \in Seq(Nodes)
      BY <1>0 DEF Typed
    <3>2. Append(acquired[h], c) \in Seq(Nodes)
      BY <3>1, <1>6
    <3>3. acquired'[h] = acquired[h] \/ acquired'[h] = Append(acquired[h], c)
      BY <1>1
    <3> QED
      BY <3>1, <3>2, <3>3
  <2> QED
    BY <2>1, <2>2, <2>3, <2>4, <2>5, <1>1 DEF NextTyped
<1>16. Calling(stack', start', length') /\ Fitted(Nodes \ Open(stack'), start', length') /\ stack' # << >>
  BY <1>1, <1>14
<1> QED
  BY <1>1, <1>15, <1>16, Continues

(* Returning.                                                              *)

\* What is after the first two is what is after the first of what is after the first.
LEMMA SubSeqTail ==
  ASSUME NEW S, NEW s \in Seq(S), Len(s) > 1
  PROVE  SubSeq(s, 3, Len(s)) = Tail(Tail(s))
<1>1. Len(s) \in Nat /\ s # << >>
  OBVIOUS
<1>2. Tail(s) = SubSeq(s, 2, Len(s))
  BY <1>1, TailIsSubSeq
<1>3. 2 \in 1 .. Len(s) /\ Len(s) \in 2 .. Len(s)
  BY <1>1
<1>4. Tail(SubSeq(s, 2, Len(s))) = SubSeq(s, 2 + 1, Len(s))
  BY <1>3, HeadTailOfSubSeq
<1> QED
  BY <1>2, <1>4

\* The innermost call has callers.
LEMMA Callers ==
  ASSUME Inv, stack # << >>, tree[Top.node].kind # "root", Top.todo = << >>
  PROVE  LET q == Tail(stack)
         IN  /\ Calling(q, start, length) /\ q # << >> /\ q[1] = stack[2] /\ q[1] \in FrameType
             /\ Called(q[1], Top.node, Top.at, start, length)
             /\ SubSeq(stack, 3, Len(stack)) = Tail(q)
             /\ Open(stack) \subseteq Pending(q) \cup {Top.node}
             /\ Top.node \in Children(q[1].node) /\ Parent(Top.node) = q[1].node
             /\ q[1].node \in Nodes
<1> DEFINE q == Tail(stack)
<1>0. tree \in Experiments /\ Calling(stack, start, length)
  BY DEF Inv, Built, Calls
<1>1. /\ stack \in Seq(FrameType) /\ Len(stack) \in Nat \ {0} /\ Top = stack[1] /\ Top \in FrameType
      /\ \A i \in 1 .. Len(stack) : stack[i] \in FrameType /\ stack[i].node \in Nodes
  BY StackIs
<1>2. Len(stack) \in Nat /\ Len(stack) > 1
  <2>1. stack[Len(stack)].node = 1
    BY <1>0 DEF Calling
  <2>2. Len(stack) # 1
    BY <2>1, <1>0, <1>1, Shape
  <2>3. Len(stack) \in Nat \ {0}
    BY <1>1
  <2> QED
    BY <2>2, <2>3
<1>3. /\ q \in Seq(FrameType) /\ Len(q) = Len(stack) - 1 /\ Len(q) \in Nat \ {0} /\ q # << >>
      /\ \A i \in 1 .. Len(q) : q[i] = stack[i + 1]
      /\ SubSeq(stack, 3, Len(stack)) = Tail(q)
  <2>1. stack \in Seq(FrameType)
    BY <1>1
  <2>2. q \in Seq(FrameType) /\ Len(q) = Len(stack) - 1 /\ \A i \in 1 .. Len(q) : q[i] = stack[i + 1]
    BY <2>1, <1>2
  <2>3. Len(q) \in Nat \ {0} /\ q # << >>
    <3>1. Len(q) \in Nat /\ Len(q) = Len(stack) - 1
      BY <2>2
    <3>2. Len(q) # 0
      BY <3>1, <1>2
    <3> HIDE DEF q
    <3> QED
      BY <3>1, <3>2
  <2>4. SubSeq(stack, 3, Len(stack)) = Tail(q)
    BY <2>1, <1>2, SubSeqTail
  <2> QED
    BY <2>2, <2>3, <2>4
<1> HIDE DEF q
<1>4. /\ 1 \in 1 .. Len(q) /\ q[1] = stack[2] /\ q[1] \in FrameType /\ q[1].node \in Nodes
  <2>1. 1 \in 1 .. Len(q) /\ 2 \in 1 .. Len(stack)
    BY <1>1, <1>2, <1>3
  <2>2. q[1] = stack[1 + 1]
    BY <2>1, <1>3
  <2>3. q[1] = stack[2]
    BY <2>2
  <2> QED
    BY <2>1, <2>3, <1>1
<1>5. Called(q[1], Top.node, Top.at, start, length)
  <2>1. 1 \in 1 .. Len(stack) - 1
    BY <1>2
  <2>2. Called(stack[1 + 1], stack[1].node, stack[1].at, start, length)
    BY <2>1, <1>0 DEF Calling
  <2>3. Called(stack[2], stack[1].node, stack[1].at, start, length)
    BY <2>2
  <2> QED
    BY <2>3, <1>1, <1>4
<1>6. Calling(q, start, length)
  <2>1. ASSUME NEW i \in 1 .. Len(q) PROVE i + 1 \in 1 .. Len(stack)
    BY <1>1, <1>3
  <2>2. \A i \in 1 .. Len(q) : Progress(q[i]) /\ Placing(q[i], start, length)
    BY <2>1, <1>0, <1>3 DEF Calling
  <2>3. ASSUME NEW i \in 1 .. Len(q) - 1
        PROVE  Called(q[i + 1], q[i].node, q[i].at, start, length)
    <3>1. i \in 1 .. Len(q) /\ i + 1 \in 1 .. Len(q) /\ i + 1 \in 1 .. Len(stack) - 1
      BY <1>1, <1>3
    <3>2. Called(stack[(i + 1) + 1], stack[i + 1].node, stack[i + 1].at, start, length)
      BY <3>1, <1>0 DEF Calling
    <3>3. q[i] = stack[i + 1] /\ q[i + 1] = stack[(i + 1) + 1]
      BY <3>1, <1>3
    <3> QED
      BY <3>2, <3>3
  <2>4. q[Len(q)].node = 1
    <3>1. Len(q) \in 1 .. Len(q) /\ Len(q) + 1 = Len(stack)
      BY <1>1, <1>3
    <3>2. q[Len(q)] = stack[Len(q) + 1]
      BY <3>1, <1>3
    <3>3. q[Len(q)] = stack[Len(stack)]
      BY <3>1, <3>2
    <3> QED
      BY <3>3, <1>0 DEF Calling
  <2> QED
    BY <2>2, <2>3, <2>4, <1>3 DEF Calling
<1>7. Open(stack) \subseteq Pending(q) \cup {Top.node}
  <2> SUFFICES ASSUME NEW p \in Nodes, NEW i \in 1 .. Len(stack),
                      \/ p = stack[i].node
                      \/ \E b \in ToSet(IF i = 1 THEN stack[i].todo ELSE Tail(stack[i].todo)) : p \in Below(b)
               PROVE  p \in Pending(q) \/ p = Top.node
    BY DEF Open
  <2>1. CASE i = 1
    <3>1. ToSet(<< >>) = {}
      BY DEF ToSet
    <3> QED
      BY <2>1, <3>1, <1>1
  <2>2. CASE i # 1
    <3>1. i - 1 \in 1 .. Len(q) /\ (i - 1) + 1 = i
      BY <2>2, <1>1, <1>3
    <3>2. q[i - 1] = stack[i]
      BY <3>1, <1>3
    <3> QED
      BY <2>2, <3>1, <3>2 DEF Pending
  <2> QED
    BY <2>1, <2>2
<1>8. Top.node \in Children(q[1].node) /\ Parent(Top.node) = q[1].node
  <2> DEFINE f == q[1]
             g == [node |-> f.node, todo |-> Tail(f.todo)]
  <2>1. g.node = f.node /\ g.todo = Tail(f.todo)
    OBVIOUS
  <2>2. f.node \in Nodes /\ Progress(f) /\ f.todo # << >> /\ Top.node = Head(f.todo)
    BY <1>4, <1>5, <1>6 DEF Calling, Called
  <2> HIDE DEF f, g
  <2>3. Top.node \in Children(f.node)
    BY <2>1, <2>2, <1>0, Step
  <2> QED
    BY <2>2, <2>3, <1>0, Families DEF f
<1> QED
  BY <1>3, <1>4, <1>5, <1>6, <1>7, <1>8 DEF q

\* The children of a right-aligned section move together.
LEMMA MovedInside ==
  ASSUME tree \in Experiments, NEW n \in Nodes, NEW st \in [Nodes -> Int],
         NEW ln, NEW size \in Int, Inside(n, st, ln, size), NEW by \in Nat
  PROVE  /\ Moved(st, n, by) \in [Nodes -> Int]
         /\ \A m \in Nodes \ Children(n) : Moved(st, n, by)[m] = st[m]
         /\ Inside(n, Moved(st, n, by), ln, size + by)
<1> DEFINE r == Moved(st, n, by)
<1>1. r = [m \in Nodes |-> IF m \in Children(n) /\ tree[n].right THEN st[m] + by ELSE st[m]]
  BY DEF Moved
<1>2. Children(n) \subseteq Nodes
  BY Shape
<1> HIDE DEF r
<1>3. r \in [Nodes -> Int] /\ \A m \in Nodes \ Children(n) : r[m] = st[m]
  BY <1>1
<1>4. \A c \in Children(n) : ln[c] \in Nat /\ st[c] >= 0 /\ st[c] + ln[c] <= size /\ st[c] \in Int
  BY <1>2 DEF Inside, Ends
<1>5. CASE tree[n].right
  <2>1. \A c \in Children(n) : r[c] = st[c] + by
    BY <1>1, <1>2, <1>5
  <2>2. \A c \in Children(n) : r[c] >= 0 /\ r[c] + ln[c] <= size + by
    BY <2>1, <1>4
  <2>3. ASSUME NEW b \in Children(n), NEW c \in Children(n)
        PROVE  Ends(b, st, ln) <= st[c] => Ends(b, r, ln) <= r[c]
    BY <2>1, <1>4 DEF Ends
  <2>4. Spaced(n, Children(n), r, ln)
    BY <2>3 DEF Inside, Spaced, Disjoint
  <2> QED
    BY <2>2, <2>4, <1>3, <1>4 DEF r, Inside, Ends
<1>6. CASE ~tree[n].right
  <2>1. \A c \in Children(n) : r[c] = st[c]
    BY <1>1, <1>2, <1>6
  <2>2. \A c \in Children(n) : r[c] >= 0 /\ r[c] + ln[c] <= size + by
    BY <2>1, <1>4
  <2>3. Spaced(n, Children(n), r, ln)
    BY <2>1, SameSpaced DEF Same, Inside
  <2> QED
    BY <2>2, <2>3, <1>3, <1>4 DEF r, Inside, Ends
<1> QED
  BY <1>5, <1>6

\* What is below the children does not depend on where they are.
LEMMA BelowStays ==
  ASSUME tree \in Experiments, NEW n \in Nodes, NEW st, NEW ln, NEW st2, NEW ln2,
         \A m \in Nodes \ Children(n) : m # n => st2[m] = st[m],
         \A m \in Nodes : m # n => ln2[m] = ln[m],
         Fitted(Below(n) \ {n}, st, ln)
  PROVE  Fitted(Below(n) \ {n}, st2, ln2)
<1> SUFFICES ASSUME NEW p \in Below(n) \ {n} PROVE Fits(p, st2, ln2)
  BY DEF Fitted
<1>1. p \in Nodes /\ p >= n /\ p # n /\ Fits(p, st, ln)
  BY BelowIsLater DEF Fitted
<1>2. ASSUME NEW c \in Children(p) PROVE c \in Nodes /\ c \notin Children(n) /\ c # n
  <2>1. c \in Nodes /\ Parent(c) = p /\ p < c
    BY <1>1, Families
  <2>2. c \in Nat /\ p \in Nat /\ n \in Nat
    BY <2>1, <1>1, Shape
  <2>3. c # n
    BY <2>1, <2>2, <1>1
  <2> QED
    BY <2>1, <2>3, <1>1, Families
<1>3. Same(Children(p), st, ln, st2, ln2)
  BY <1>2 DEF Same
<1> QED
  BY <1>1, <1>3, SameFits

Known(ln) ==
  \A n \in Nodes : tree[n].kind \in {"play", "acquire", "group", "reset"} => ln[n] \in Nat

\* What is below n is timed: with starts st, lengths ln and length len for n.
Timing(n, st, ln, len) ==
  /\ len \in Nat /\ st \in [Nodes -> Int] /\ ln \in [Nodes -> Nat \cup {None}] /\ Known(ln)
  /\ Elsewhere(n, st, ln)
  /\ Inside(n, st, ln, len)
  /\ Fitted(Below(n) \ {n}, st, ln)

\* All that is under n starts after it.
LEMMA NoneBefore ==
  ASSUME tree \in Experiments, NEW n \in Nodes, NEW st, NEW ln, NEW len, Timing(n, st, ln, len)
  PROVE  \A p \in Below(n) : \A c \in Children(p) : st[c] >= 0
BY DEF Timing, Fitted, Fits, Inside

\* What the caller sees when the call of n returns with length len, which the
\* caller makes final.
LEMMA Settled ==
  ASSUME Built, start \in [Nodes -> Int], length \in [Nodes -> Nat \cup {None}],
         NEW n \in Nodes, NEW st, NEW ln, NEW len, Timing(n, st, ln, len),
         NEW place \in Int, NEW final \in Nat, final >= len
  PROVE  LET r == Moved([st EXCEPT ![n] = place], n, final - len)
             l == [ln EXCEPT ![n] = final]
         IN  /\ r \in [Nodes -> Int] /\ l \in [Nodes -> Nat \cup {None}] /\ Known(l)
             /\ r[n] = place /\ l[n] = final
             /\ Elsewhere(n, r, l) /\ Fitted(Below(n), r, l)
<1> DEFINE placed == [st EXCEPT ![n] = place]
           r == Moved(placed, n, final - len)
           l == [ln EXCEPT ![n] = final]
<1>0. tree \in Experiments
  BY DEF Built
<1>1. /\ len \in Nat /\ st \in [Nodes -> Int] /\ ln \in [Nodes -> Nat \cup {None}] /\ Known(ln)
      /\ Elsewhere(n, st, ln) /\ Inside(n, st, ln, len) /\ Fitted(Below(n) \ {n}, st, ln)
  BY DEF Timing
<1>2. placed \in [Nodes -> Int] /\ placed[n] = place /\ \A m \in Nodes \ {n} : placed[m] = st[m]
  BY <1>1
<1>3. /\ l \in [Nodes -> Nat \cup {None}] /\ l[n] = final /\ \A m \in Nodes \ {n} : l[m] = ln[m]
  BY <1>1
<1>4. final - len \in Nat /\ len + (final - len) = final /\ len \in Int
  BY <1>1
<1>5. n \notin Children(n) /\ Children(n) \subseteq Nodes \ {n} /\ Children(n) \subseteq Below(n)
  <2>1. n \in Nat
    BY <1>0, Shape
  <2>2. \A c \in Children(n) : c \in Nodes /\ n < c
    BY <1>0, Families
  <2>3. \A c \in Children(n) : c # n
    BY <2>1, <2>2
  <2>4. Children(n) \subseteq Below(n)
    BY <1>0, BelowWays, BelowContains
  <2> QED
    BY <2>2, <2>3, <2>4
<1> HIDE DEF placed, l
<1>6. Inside(n, placed, l, len)
  <2>1. Same(Children(n), st, ln, placed, l)
    BY <1>2, <1>3, <1>5 DEF Same
  <2>2. Spaced(n, Children(n), placed, l)
    BY <2>1, <1>1, SameSpaced DEF Inside
  <2> QED
    BY <2>1, <2>2, <1>1 DEF Inside, Same, Ends
<1> DEFINE by == final - len
<1> HIDE DEF by
<1> DEFINE rr == Moved(placed, n, by)
<1>7. /\ rr \in [Nodes -> Int] /\ \A m \in Nodes \ Children(n) : rr[m] = placed[m]
      /\ Inside(n, rr, l, len + by)
  BY <1>0, <1>2, <1>4, <1>6, MovedInside DEF by
<1> HIDE DEF rr
<1>8. rr[n] = place
  BY <1>2, <1>5, <1>7
<1>9. Elsewhere(n, rr, l)
  <2> SUFFICES ASSUME NEW m \in Nodes \ Below(n) PROVE rr[m] = start[m] /\ l[m] = length[m]
    BY DEF Elsewhere, Same
  <2>1. m # n /\ m \notin Children(n)
    BY <1>0, <1>5, BelowWays
  <2> QED
    BY <2>1, <1>1, <1>2, <1>3, <1>7 DEF Elsewhere, Same
<1>10. Fitted(Below(n) \ {n}, rr, l)
  <2>1. \A m \in Nodes \ Children(n) : m # n => rr[m] = st[m]
    BY <1>2, <1>7
  <2>2. \A m \in Nodes : m # n => l[m] = ln[m]
    BY <1>3
  <2> QED
    BY <2>1, <2>2, <1>0, <1>1, BelowStays
<1>11. Fits(n, rr, l)
  BY <1>3, <1>4, <1>7 DEF Fits, by
<1>12. Fitted(Below(n), rr, l)
  BY <1>10, <1>11 DEF Fitted
<1>13. Known(l)
  BY <1>1, <1>3 DEF Known
<1> QED
  BY <1>3, <1>7, <1>8, <1>9, <1>12, <1>13 DEF rr, by, l, placed

\* How much longer an iteration becomes.
LEMMA AdjustedLength ==
  ASSUME Built, NEW n \in Nodes, NEW old \in Nat, NEW new \in Int, new >= old
  PROVE  /\ Adjusted(n, old, new) \in Nat /\ Adjusted(n, old, new) >= old
         /\ Adjusted(n, old, new) >= new
<1> DEFINE g == grid[n]
<1>1. g \in Nat \ {0}
  BY Facts
<1> HIDE DEF g
<1> DEFINE up == ceil_to_grid(new, g)
<1>2. up \in Int /\ new <= up
  BY <1>1, Ceil
<1>3. Adjusted(n, old, new) = IF new = old THEN old ELSE up
  BY DEF Adjusted, g
<1> HIDE DEF up
<1> QED
  BY <1>2, <1>3

LEMMA Returned ==
  ASSUME Inv, Top.todo = << >>, outcome = "running", tree[Top.node].kind # "root",
         NEW st, NEW ln, NEW len, Timing(Top.node, st, ln, len),
         tree[Parent(Top.node)].kind = "unrolled" =>
           IterationLength(Parent(Top.node), len) \in Int /\ IterationLength(Parent(Top.node), len) >= len,
         Return(len, st, ln)
  PROVE  Inv'
<1> DEFINE n == Top.node
           caller == stack[2]
           final == IF tree[caller.node].kind = "unrolled"
                    THEN Adjusted(n, len, IterationLength(caller.node, len)) ELSE len
           place == Placed(caller, n, Top.at, len)
           starts == Moved([st EXCEPT ![n] = place], n, final - len)
           lengths == [ln EXCEPT ![n] = final]
           q == Tail(stack)
           r == << Advance(caller, n, Top.at, final) >> \o Tail(q)
<1>0. tree \in Experiments /\ Built /\ Typed /\ Calling(stack, start, length) /\ stack # << >>
  BY DEF Inv, Built, Calls
<1>1. Top \in FrameType /\ n \in Nodes /\ Top.at \in Nat
  BY <1>0, StackIs DEF FrameType
<1>2. /\ absolute' = IF Top.mayChange THEN absolute ELSE FixedFrom(n, Top.at, st)
      /\ start' = starts /\ length' = lengths
      /\ stack' = << Advance(caller, n, Top.at, final) >> \o SubSeq(stack, 3, Len(stack))
      /\ UNCHANGED built /\ acquired' = acquired /\ outcome' = outcome
  BY DEF Return
<1>3. /\ Calling(q, start, length) /\ q # << >> /\ q[1] = caller /\ q[1] \in FrameType
      /\ Called(q[1], n, Top.at, start, length)
      /\ SubSeq(stack, 3, Len(stack)) = Tail(q)
      /\ Open(stack) \subseteq Pending(q) \cup {n}
      /\ n \in Children(caller.node) /\ Parent(n) = caller.node /\ caller.node \in Nodes
  BY <1>0, Callers
<1>4. start \in [Nodes -> Int] /\ length \in [Nodes -> Nat \cup {None}] /\ len \in Nat
  BY <1>0 DEF Typed, Timing
<1>5. final \in Nat /\ final >= len
  <2>1. CASE tree[caller.node].kind = "unrolled"
    <3> DEFINE new == IterationLength(caller.node, len)
    <3>1. new \in Int /\ new >= len
      BY <2>1, <1>3
    <3> HIDE DEF new
    <3>2. Adjusted(n, len, new) \in Nat /\ Adjusted(n, len, new) >= len
      BY <3>1, <1>0, <1>1, <1>4, AdjustedLength
    <3> QED
      BY <3>2, <2>1 DEF new
  <2>2. CASE tree[caller.node].kind # "unrolled"
    BY <2>2, <1>4
  <2> QED
    BY <2>1, <2>2
<1>6. Placed(caller, n, Top.at, final) = place
  <2>1. CASE tree[caller.node].kind = "unrolled"
    BY <2>1 DEF Placed, RightArranged, Arranged
  <2>2. CASE tree[caller.node].kind # "unrolled"
    BY <2>2
  <2> QED
    BY <2>1, <2>2
<1>7. n = Head(caller.todo) /\ caller.todo # << >> /\ Offered(caller, n, Top.at, start, length)
  BY <1>3 DEF Called
<1>8. place \in Int
  <2>1. Progress(q[1]) /\ Placing(q[1], start, length)
    <3>1. 1 \in 1 .. Len(q)
      BY <1>3 DEF Calling
    <3> QED
      BY <3>1, <1>3 DEF Calling
  <2>2. CASE RightArranged(caller.node)
    <3>1. RightStart(caller, n, len) \in Int
      BY <1>0, <1>3, <1>4, RightBound
    <3> QED
      BY <3>1, <2>2 DEF Placed
  <2>3. CASE ~RightArranged(caller.node)
    <3>1. caller.at \in Nat
      BY <1>3 DEF FrameType
    <3> QED
      BY <3>1, <2>3, <1>1 DEF Placed
  <2> QED
    BY <2>2, <2>3
<1> HIDE DEF n, place, final
<1>9. /\ starts \in [Nodes -> Int] /\ lengths \in [Nodes -> Nat \cup {None}] /\ Known(lengths)
      /\ starts[n] = place /\ lengths[n] = final
      /\ Elsewhere(n, starts, lengths) /\ Fitted(Below(n), starts, lengths)
  <2>1. Timing(n, st, ln, len)
    BY DEF n
  <2> QED
    BY <2>1, <1>0, <1>1, <1>4, <1>5, <1>8, Settled
<1> HIDE DEF starts, lengths
<1>10. Fitted((Nodes \ Pending(q)) \ Below(n), start, length)
  <2>1. n \in Below(n)
    BY <1>0, <1>1, BelowWays
  <2> QED
    BY <2>1, <1>3 DEF Inv, Timed, Fitted
<1> HIDE DEF q, caller
<1>11. /\ Calling(r, starts, lengths) /\ Fitted(Nodes \ Open(r), starts, lengths) /\ r # << >>
  <2>1. Called(q[1], Head(q[1].todo), Top.at, start, length) /\ n = Head(q[1].todo)
    BY <1>3, <1>7
  <2>2. starts[n] = Placed(q[1], n, Top.at, final) /\ lengths[n] = final
    BY <1>3, <1>6, <1>9
  <2> DEFINE at == Top.at
  <2>3. at \in Nat
    BY <1>1
  <2> HIDE DEF at
  <2>4. LET r0 == << Advance(q[1], n, at, final) >> \o Tail(q)
        IN  /\ Calling(r0, starts, lengths) /\ Fitted(Nodes \ Open(r0), starts, lengths) /\ r0 # << >>
            /\ Placed(q[1], n, at, final) \in Int
    <3>1. Called(q[1], Head(q[1].todo), at, start, length) /\ n = Head(q[1].todo)
      BY <2>1 DEF at
    <3>2. starts[n] = Placed(q[1], n, at, final) /\ lengths[n] = final
      BY <2>2 DEF at
    <3> QED
      BY <1>0, <1>3, <1>4, <1>5, <1>9, <1>10, <2>3, <3>1, <3>2, Finished
  <2> QED
    BY <2>4, <1>3 DEF at
<1>12. NextTyped
  <2>1. absolute \in [Nodes -> Nat \cup {None}]
    BY <1>0 DEF Typed
  <2>2. st \in [Nodes -> Int] /\ \A p \in Below(n) : \A c \in Children(p) : st[c] >= 0
    BY <1>0, <1>1, NoneBefore DEF Timing, n
  <2>3. FixedFrom(n, Top.at, st) \in [Nodes -> Nat \cup {None}]
    BY <2>1, <2>2, <1>0, <1>1, Fixed
  <2>4. absolute' \in [Nodes -> Nat \cup {None}]
    BY <2>1, <2>3, <1>2
  <2>5. \A h \in DOMAIN acquired : acquired[h] \in Seq(Nodes)
    BY <1>0 DEF Typed
  <2> QED
    BY <2>4, <2>5, <1>2, <1>9 DEF NextTyped, Known
<1>13. Calling(stack', start', length') /\ Fitted(Nodes \ Open(stack'), start', length') /\ stack' # << >>
  BY <1>2, <1>3, <1>11
<1> QED
  BY <1>2, <1>12, <1>13, Continues

(* Leaving.                                                                *)

LEMMA Content ==
  ASSUME Built, NEW n \in Nodes, NEW st, NEW ln,
         \A c \in Children(n) : ln[c] \in Nat /\ st[c] \in Int
  PROVE  LET size == ContentLength(n, st, ln)
         IN  /\ size \in Nat /\ Divides(grid[n], size)
             /\ \A c \in Children(n) : st[c] + ln[c] <= size
<1> DEFINE C == Children(n)
           e == [c \in C |-> st[c] + ln[c]]
           all == {0} \cup {st[c] + ln[c] : c \in C}
           g == grid[n]
<1>1. g \in Nat \ {0}
  BY Facts
<1>2. IsFiniteSet(C)
  BY FiniteChildren DEF Built
<1>3. \A c \in C : e[c] = st[c] + ln[c] /\ e[c] \in Int
  OBVIOUS
<1>4. {e[c] : c \in C} = {st[c] + ln[c] : c \in C}
  BY <1>3
<1> HIDE DEF C, e, g
<1>5. Bounded(C, e) /\ Bounded({}, e)
  BY <1>2, <1>3, FS_EmptySet DEF Bounded
<1>6. Values(C, e, {}, e) = all
  BY <1>4 DEF Values
<1>7. Max(all) \in Int /\ Max(all) >= 0 /\ \A c \in C : e[c] <= Max(all)
  BY <1>5, <1>6, Largest
<1> DEFINE top == Max(all)
           size == ceil_to_grid(top, g)
<1> HIDE DEF all
<1>8. top \in Int /\ top >= 0 /\ \A c \in C : e[c] <= top
  BY <1>7
<1> HIDE DEF top
<1>9. size \in Int /\ top <= size /\ Divides(g, size)
  BY <1>1, <1>8, Ceil DEF Divides
<1>10. ContentLength(n, st, ln) = size
  BY DEF ContentLength, size, top, all, C, g
<1> HIDE DEF size
<1>11. size \in Nat /\ \A c \in C : e[c] <= size
  BY <1>3, <1>8, <1>9
<1> QED
  BY <1>3, <1>9, <1>10, <1>11 DEF C, g

\* _calculate_length
LEMMA LongEnough ==
  ASSUME Built, NEW n \in Nodes, NEW content \in Nat, ~TooLong(n, content)
  PROVE  /\ LengthOf(n, content) \in Nat /\ LengthOf(n, content) >= content
         /\ Divides(grid[n], content) => Divides(grid[n], LengthOf(n, content))
<1> DEFINE g == grid[n]
           asked == tree[n].length
           up == ceil_to_grid(asked, g)
<1>1. g \in Nat \ {0}
  BY Facts
<1>2. asked \in Nat \cup {None}
  BY Shape DEF NodeType, Built
<1>3. CASE asked = None
  BY <1>3 DEF LengthOf
<1>4. CASE asked # None
  <2> HIDE DEF g, asked
  <2>1. asked \in Nat /\ asked \in Int
    BY <1>2, <1>4
  <2>2. up \in Int /\ Divides(g, up)
    BY <2>1, <1>1, Ceil DEF Divides
  <2>3. ~(up < content)
    BY <1>4 DEF TooLong, asked, g
  <2>4. LengthOf(n, content) = up
    BY <1>4 DEF LengthOf, asked, g
  <2> HIDE DEF up
  <2> QED
    BY <2>2, <2>3, <2>4 DEF g
<1> QED
  BY <1>3, <1>4

\* The end of a node moves to a later time.
LEMMA Extended ==
  ASSUME tree \in Experiments, NEW n \in Nodes, NEW st, NEW ln, NEW content,
         Timing(n, st, ln, content), NEW len \in Nat, len >= content
  PROVE  Timing(n, Moved(st, n, len - content), ln, len)
<1> DEFINE by == len - content
<1>1. /\ content \in Nat /\ st \in [Nodes -> Int] /\ ln \in [Nodes -> Nat \cup {None}] /\ Known(ln)
      /\ Elsewhere(n, st, ln) /\ Inside(n, st, ln, content) /\ Fitted(Below(n) \ {n}, st, ln)
  BY DEF Timing
<1>2. by \in Nat /\ content + by = len /\ content \in Int
  BY <1>1
<1> HIDE DEF by
<1> DEFINE r == Moved(st, n, by)
<1>3. /\ r \in [Nodes -> Int] /\ \A m \in Nodes \ Children(n) : r[m] = st[m]
      /\ Inside(n, r, ln, content + by)
  BY <1>1, <1>2, MovedInside
<1> HIDE DEF r
<1>4. Elsewhere(n, r, ln)
  <2> SUFFICES ASSUME NEW m \in Nodes \ Below(n) PROVE r[m] = start[m] /\ ln[m] = length[m]
    BY DEF Elsewhere, Same
  <2>1. m \notin Children(n)
    BY BelowWays, BelowContains
  <2> QED
    BY <2>1, <1>1, <1>3 DEF Elsewhere, Same
<1>5. Fitted(Below(n) \ {n}, r, ln)
  BY <1>1, <1>3, BelowStays
<1> QED
  BY <1>1, <1>2, <1>3, <1>4, <1>5 DEF Timing, r, by

\* The innermost call when all the children have been placed.
LEMMA AllPlaced ==
  ASSUME Inv, outcome = "running", Top.todo = << >>
  PROVE  /\ stack # << >> /\ Top.node \in Nodes /\ tree \in Experiments
         /\ start \in [Nodes -> Int] /\ length \in [Nodes -> Nat \cup {None}] /\ Known(length)
         /\ \A c \in Children(Top.node) : length[c] \in Nat
         /\ Spaced(Top.node, Children(Top.node), start, length)
         /\ ~RightArranged(Top.node) => \A c \in Children(Top.node) :
              start[c] >= 0 /\ (tree[Top.node].kind = "compressed" => start[c] = 0)
         /\ Fitted(Below(Top.node) \ {Top.node}, start, length)
         /\ \A p \in Below(Top.node) \ {Top.node} : p \notin Open(stack)
<1> DEFINE n == Top.node
<1>1. /\ stack # << >> /\ tree \in Experiments /\ Typed /\ Calling(stack, start, length)
  BY DEF Inv, Built, Calls
<1>2. /\ Top = stack[1] /\ Top \in FrameType /\ Progress(Top) /\ Placing(Top, start, length)
      /\ n \in Nodes
  BY <1>1, StackIs DEF FrameType
<1>3. Visited(Top) = Children(n)
  BY <1>1, <1>2, Ahead
<1>4. start \in [Nodes -> Int] /\ length \in [Nodes -> Nat \cup {None}] /\ Known(length)
  BY <1>1 DEF Typed, Known
<1>5. /\ \A c \in Children(n) : length[c] \in Nat
      /\ Spaced(n, Children(n), start, length)
  BY <1>2, <1>3 DEF Placing
<1>6. ~RightArranged(n) => \A c \in Children(n) :
        start[c] >= 0 /\ (tree[n].kind = "compressed" => start[c] = 0)
  BY <1>2, <1>3 DEF Placing, PlacedLeft
<1>7. \A p \in Below(n) \ {n} : p \notin Open(stack)
  <2>1. CASE tree[n].kind # "root"
    <3> DEFINE q == Tail(stack)
    <3>1. /\ Calling(q, start, length) /\ q # << >>
          /\ Called(q[1], n, Top.at, start, length)
          /\ Open(stack) \subseteq Pending(q) \cup {n}
      BY <2>1, <1>1, Callers
    <3> HIDE DEF q, n
    <3>2. n = Head(q[1].todo) /\ q[1].todo # << >>
      BY <3>1 DEF Called
    <3>3. Nested(q)
      BY <3>1 DEF Calling, Called, Nested
    <3>4. Below(n) \cap Pending(q) = {}
      BY <3>1, <3>2, <3>3, <1>1, Path
    <3> QED
      BY <3>1, <3>4
  <2>2. CASE tree[n].kind = "root"
    <3>1. Len(stack) = 1
      <4>1. n = 1
        BY <2>2, <1>1, <1>2, Shape
      <4>2. Len(stack) \in Nat \ {0}
        BY <1>1, StackIs
      <4>3. CASE Len(stack) # 1
        <5> DEFINE k == Len(stack)
        <5>1. k \in Nat \ {0} /\ k # 1
          BY <4>2, <4>3
        <5> HIDE DEF k
        <5>2. k \in Nat /\ k > 1
          BY <5>1
        <5>3. Len(stack) \in Nat /\ Len(stack) > 1
          BY <5>2 DEF k
        <5>4. 1 \in 1 .. Len(stack) - 1 /\ 2 \in 1 .. Len(stack)
          BY <5>3
        <5>5. Called(stack[1 + 1], stack[1].node, stack[1].at, start, length)
          BY <5>4, <1>1 DEF Calling
        <5>6. Progress(stack[2]) /\ stack[2].node \in Nodes
          BY <5>4, <1>1, StackIs DEF Calling
        <5> DEFINE f == stack[2]
                   g == [node |-> f.node, todo |-> Tail(f.todo)]
        <5>7. g.node = f.node /\ g.todo = Tail(f.todo)
          OBVIOUS
        <5>8. f.todo # << >> /\ n = Head(f.todo)
          <6>1. 1 + 1 = 2
            OBVIOUS
          <6> QED
            BY <5>5, <6>1, <1>2 DEF Called
        <5>9. f.node \in Nodes /\ Progress(f)
          BY <5>6
        <5> HIDE DEF f, g, n
        <5>10. n \in Children(f.node)
          BY <5>7, <5>8, <5>9, <1>1, Step
        <5> QED
          BY <5>9, <5>10, <4>1, <1>1, Families
      <4> QED
        BY <4>3
    <3>2. ToSet(<< >>) = {}
      BY DEF ToSet
    <3>3. \A i \in 1 .. Len(stack) : i = 1
      BY <3>1
    <3> QED
      BY <3>2, <3>3, <1>2 DEF Open
  <2> QED
    BY <2>1, <2>2
<1>8. Fitted(Below(n) \ {n}, start, length)
  <2>1. Below(n) \subseteq Nodes
    BY <1>1, <1>2, BelowIs
  <2> QED
    BY <2>1, <1>7 DEF Inv, Timed, Fitted
<1> QED
  BY <1>1, <1>2, <1>4, <1>5, <1>6, <1>7, <1>8

\* A loop never shortens an iteration.
LEMMA Iterated ==
  ASSUME Built, NEW p \in Nodes, NEW len \in Nat, ~TooSlow(p, len)
  PROVE  IterationLength(p, len) \in Int /\ IterationLength(p, len) >= len
<1> DEFINE g == grid[p]
           time == tree[p].time
<1>1. g \in Nat \ {0}
  BY Facts
<1>2. tree[p].mode \in {"FASTEST", "CONSTANT", "AUTO"} /\ time \in Int
  BY Shape DEF NodeType, Built, None
<1> HIDE DEF g, time
<1> DEFINE up == ceil_to_grid(len, g)
           rt == ceil_to_grid(time, g)
<1>3. up \in Int /\ up >= len
  <2>1. up \in Int /\ len <= up
    BY <1>1, Ceil
  <2> HIDE DEF up
  <2> QED
    BY <2>1
<1>4. rt \in Int
  BY <1>1, <1>2, Ceil
<1>5. CASE tree[p].mode = "FASTEST"
  BY <1>3, <1>5 DEF IterationLength, up, g
<1>6. CASE tree[p].mode = "CONSTANT"
  <2>1. IterationLength(p, len) = rt /\ ~(len > rt)
    BY <1>6 DEF IterationLength, RepetitionTime, TooSlow, g, time
  <2> HIDE DEF rt
  <2> QED
    BY <2>1, <1>4
<1>7. CASE tree[p].mode = "AUTO"
  BY <1>7 DEF IterationLength
<1> QED
  BY <1>2, <1>5, <1>6, <1>7

\* Only iterations are called by a loop that is unrolled.
LEMMA OnlyIterations ==
  ASSUME tree \in Experiments, NEW n \in Nodes, n # 1, tree[n].kind # "iteration"
  PROVE  tree[Parent(n)].kind # "unrolled"
<1>1. Parent(n) \in Nodes /\ n \in Children(Parent(n))
  BY Families
<1>2. tree[Parent(n)].kind = "unrolled" => \A c \in Children(Parent(n)) : tree[c].kind = "iteration"
  BY <1>1, KindAssumption DEF Nodes, Children
<1> QED
  BY <1>1, <1>2

\* Where a section begins, relative to where it was timed.
FirstOf(n) == IF RightArranged(n) /\ Children(n) # {}
              THEN floor_to_grid(Min({start[c] : c \in Children(n)}), grid[n]) ELSE 0

LEMMA First ==
  ASSUME Built, start \in [Nodes -> Int], NEW n \in Nodes,
         ~RightArranged(n) => \A c \in Children(n) : start[c] >= 0
  PROVE  /\ FirstOf(n) \in Int /\ Divides(grid[n], FirstOf(n))
         /\ \A c \in Children(n) : start[c] >= FirstOf(n)
<1> DEFINE C == Children(n)
           S == {start[c] : c \in C}
           F == [c \in C |-> start[c]]
           g == grid[n]
<1>1. g \in Nat \ {0} /\ tree \in Experiments /\ C \subseteq Nodes
  BY Facts, Shape DEF Built
<1>2. CASE RightArranged(n) /\ C # {}
  <2>1. S \in SUBSET Int /\ S # {}
    BY <1>1, <1>2
  <2>2. IsFiniteSet(S)
    <3>1. IsFiniteSet(C)
      BY <1>1, FiniteChildren
    <3>2. {F[x] : x \in C} = S
      OBVIOUS
    <3>3. DOMAIN F = C
      OBVIOUS
    <3> HIDE DEF F, C, S
    <3> QED
      BY <3>1, <3>2, <3>3, FiniteImage
  <2>3. \A c \in C : start[c] \in S /\ start[c] \in Int
    BY <1>1
  <2> HIDE DEF S, g
  <2> DEFINE least == Min(S)
  <2>4. least \in Int /\ \A c \in C : least <= start[c]
    BY <2>1, <2>2, <2>3, MinOfFinite
  <2> HIDE DEF least
  <2> DEFINE down == floor_to_grid(least, g)
  <2>5. down \in Int /\ down <= least /\ Divides(g, down)
    BY <1>1, <2>4, Floor DEF Divides
  <2>6. FirstOf(n) = down
    BY <1>2 DEF FirstOf, down, least, S, g
  <2> HIDE DEF down, C
  <2>7. \A c \in C : down <= start[c]
    BY <2>3, <2>4, <2>5
  <2> QED
    BY <2>3, <2>5, <2>6, <2>7 DEF C, g
<1>3. CASE ~RightArranged(n) \/ C = {}
  BY <1>1, <1>3, DividesZero DEF FirstOf
<1> QED
  BY <1>2, <1>3

LEMMA LeavesSection ==
  ASSUME Inv, LeaveSection
  PROVE  Inv'
<1> DEFINE n == Top.node
           C == Children(n)
           first == IF RightArranged(n) /\ C # {}
                    THEN floor_to_grid(Min({start[c] : c \in C}), grid[n]) ELSE 0
           arranged == [m \in Nodes |-> IF m \in C THEN start[m] - first ELSE start[m]]
           content == ContentLength(n, arranged, length)
           len == LengthOf(n, content)
           refused == \/ TooLong(n, content)
                      \/ tree[Parent(n)].kind = "unrolled" /\ TooSlow(Parent(n), len)
<1>1. /\ outcome = "running" /\ Top.todo = << >> /\ tree[n].kind \in Arranged \cup {"match"}
      /\ IF refused THEN Refuse ELSE Return(len, Moved(arranged, n, len - content), length)
  BY DEF LeaveSection, Leaving
<1>2. CASE refused
  BY <1>1, <1>2, Refusing
<1>3. CASE ~refused
  <2>0. Built
    BY DEF Inv
  <2>1. /\ n \in Nodes /\ tree \in Experiments
        /\ start \in [Nodes -> Int] /\ length \in [Nodes -> Nat \cup {None}] /\ Known(length)
        /\ \A c \in C : length[c] \in Nat
        /\ Spaced(n, C, start, length)
        /\ ~RightArranged(n) => \A c \in C : start[c] >= 0
        /\ Fitted(Below(n) \ {n}, start, length)
    BY <1>1, AllPlaced
  <2>2. C \subseteq Nodes /\ C \subseteq Below(n) /\ n \in Below(n)
    BY <2>1, Shape, BelowWays, BelowContains
  <2>3. first \in Int /\ \A c \in C : start[c] >= first
    BY <2>0, <2>1, First DEF FirstOf
  <2> HIDE DEF first
  <2>4. arranged \in [Nodes -> Int] /\ \A m \in Nodes \ C : arranged[m] = start[m]
    BY <2>1, <2>3
  <2>5. \A c \in C : arranged[c] = start[c] - first /\ arranged[c] >= 0 /\ arranged[c] \in Int /\ start[c] \in Int
    BY <2>1, <2>2, <2>3
  <2> HIDE DEF arranged
  <2>6. content \in Nat /\ \A c \in C : arranged[c] + length[c] <= content
    BY <2>0, <2>1, <2>5, Content
  <2> HIDE DEF content
  <2>7. Spaced(n, C, arranged, length)
    <3> HIDE DEF C, n
    <3>1. ASSUME NEW b \in C, NEW c \in C
          PROVE  Ends(b, start, length) <= start[c] => Ends(b, arranged, length) <= arranged[c]
      BY <2>1, <2>3, <2>5 DEF Ends
    <3> QED
      BY <3>1, <2>1 DEF Spaced, Disjoint
  <2>8. Inside(n, arranged, length, content)
    BY <2>1, <2>5, <2>6, <2>7 DEF Inside, Ends
  <2>9. Timing(n, arranged, length, content)
    <3>1. Elsewhere(n, arranged, length)
      BY <2>2, <2>4 DEF Elsewhere, Same
    <3>2. Fitted(Below(n) \ {n}, arranged, length)
      BY <2>1, <2>4, BelowStays
    <3> QED
      BY <3>1, <3>2, <2>1, <2>4, <2>6, <2>8 DEF Timing
  <2>10. len \in Nat /\ len >= content
    BY <1>3, <2>0, <2>1, <2>6, LongEnough
  <2> HIDE DEF len, C
  <2> DEFINE st == Moved(arranged, n, len - content)
  <2>11. Timing(n, st, length, len)
    BY <2>1, <2>9, <2>10, Extended
  <2>12. tree[n].kind # "root"
    BY <1>1 DEF Arranged
  <2>13. tree[Parent(n)].kind = "unrolled" =>
           IterationLength(Parent(n), len) \in Int /\ IterationLength(Parent(n), len) >= len
    <3>1. n # 1
      BY <2>1, <2>12, Shape
    <3>2. Parent(n) \in Nodes
      BY <3>1, <2>1, Families
    <3> QED
      BY <3>2, <1>3, <2>0, <2>10, Iterated
  <2>14. Return(len, st, length)
    BY <1>1, <1>3
  <2> HIDE DEF st
  <2> QED
    BY <1>1, <2>11, <2>12, <2>13, <2>14, Returned
<1> QED
  BY <1>2, <1>3

LEMMA Product ==
  ASSUME NEW a \in Nat, NEW k \in Nat
  PROVE  a * k \in Nat
OBVIOUS

\* Iterations of the same length, one after the other.
LEMMA OneAfterTheOther ==
  ASSUME NEW a \in Nat, NEW i \in Nat \ {0}, NEW j \in Nat \ {0}, i < j
  PROVE  a * (i - 1) + a <= a * (j - 1)
<1> DEFINE d == j - 1 - i
           k == i - 1
<1>1. d \in Nat /\ k \in Nat /\ j - 1 = k + 1 + d
  OBVIOUS
<1> HIDE DEF d, k
<1>2. a * d \in Nat /\ a * k \in Nat
  BY <1>1, Product
<1>3. a * (k + 1 + d) = a * k + a + a * d
  BY <1>1
<1>4. a * k + a <= a * (k + 1 + d)
  <2> DEFINE x == a * d
             y == a * k
             z == a * (k + 1 + d)
  <2>1. x \in Nat /\ y \in Nat /\ z = y + a + x
    BY <1>2, <1>3
  <2> HIDE DEF x, y, z
  <2>2. y + a <= z
    BY <2>1
  <2> QED
    BY <2>2 DEF y, z
<1> QED
  BY <1>1, <1>4 DEF k

\* All iterations of a loop become as long as the longest.
Equal(n, longest, st, ln) ==
  /\ ln = [m \in Nodes |-> IF m \in Children(n) THEN longest ELSE length[m]]
  /\ st = [m \in Nodes |->
             IF m \notin Below(n) \ {n} THEN start[m]
             ELSE IF m \in Children(n) THEN longest * (Index(n, m) - 1)
             ELSE IF Parent(m) \in Children(n) /\ tree[Parent(m)].right
                  THEN start[m] + longest - length[Parent(m)] ELSE start[m]]

LEMMA Equalized ==
  ASSUME Built, NEW n \in Nodes, tree[n].kind = "unrolled",
         start \in [Nodes -> Int], length \in [Nodes -> Nat \cup {None}], Known(length),
         Fitted(Below(n) \ {n}, start, length),
         NEW longest \in Nat, \A c \in Children(n) : length[c] \in Nat /\ length[c] <= longest,
         NEW st, NEW ln, Equal(n, longest, st, ln)
  PROVE  Timing(n, st, ln, ContentLength(n, st, ln))
<1> DEFINE C == Children(n)
           size == ContentLength(n, st, ln)
<1>0. tree \in Experiments
  BY DEF Built
<1>1. /\ C \subseteq Nodes /\ C \subseteq Below(n) /\ n \in Below(n) /\ n \notin C /\ Below(n) \subseteq Nodes
      /\ \A c \in C : Parent(c) = n
  <2>1. C \subseteq Nodes /\ C \subseteq Below(n) /\ n \in Below(n) /\ Below(n) \subseteq Nodes
    BY <1>0, Shape, BelowWays, BelowContains, BelowIs
  <2>2. \A c \in C : Parent(c) = n /\ n < c
    BY <1>0, Families
  <2>3. n \in Nat
    BY <1>0, Shape
  <2>4. n \notin C
    BY <2>2, <2>3
  <2> QED
    BY <2>1, <2>2, <2>4
<1>2. /\ \A c \in C : ln[c] = longest
      /\ \A m \in Nodes \ C : ln[m] = length[m]
      /\ ln \in [Nodes -> Nat \cup {None}]
  BY <1>1 DEF Equal
<1>3. \A c \in C : Index(n, c) \in Nat \ {0}
  <2>1. Len(tree[n].children) \in Nat /\ \A c \in C : Index(n, c) \in 1 .. Len(tree[n].children)
    BY <1>0, Indices
  <2> QED
    BY <2>1
<1>4. \A c \in C : st[c] = longest * (Index(n, c) - 1)
  BY <1>1 DEF Equal
<1>5. \A c \in C : st[c] \in Nat
  <2> SUFFICES ASSUME NEW c \in C PROVE st[c] \in Nat
    OBVIOUS
  <2> DEFINE k == Index(n, c) - 1
  <2>1. k \in Nat
    BY <1>3
  <2>2. st[c] = longest * k
    BY <1>4
  <2> HIDE DEF k
  <2> QED
    BY <2>1, <2>2, Product
<1>6. \A m \in Nodes \ C : m \notin Below(n) \/ Parent(m) \notin C => st[m] = start[m]
  BY DEF Equal
<1>7. \A m \in Nodes \ C : m \in Below(n) /\ m # n /\ Parent(m) \in C =>
        st[m] = IF tree[Parent(m)].right THEN start[m] + longest - length[Parent(m)] ELSE start[m]
  BY DEF Equal
<1>8. st[n] = start[n]
  BY DEF Equal
<1>9. st \in [Nodes -> Int]
  <2>1. DOMAIN st = Nodes /\ st = [m \in Nodes |-> st[m]]
    BY DEF Equal
  <2>2. ASSUME NEW m \in Nodes PROVE st[m] \in Int
    <3>1. CASE m \in C
      BY <3>1, <1>5
    <3>2. CASE m \notin C /\ (m \notin Below(n) \/ Parent(m) \notin C \/ m = n)
      BY <3>2, <1>6, <1>8
    <3>3. CASE m \notin C /\ m \in Below(n) /\ m # n /\ Parent(m) \in C
      <4>1. start[m] \in Int /\ length[Parent(m)] \in Nat
        BY <3>3
      <4> DEFINE x == start[m]
                 y == length[Parent(m)]
      <4>2. x + longest - y \in Int
        <5>1. x \in Int /\ y \in Nat
          BY <4>1
        <5> HIDE DEF x, y
        <5> QED
          BY <5>1
      <4> QED
        BY <4>1, <4>2, <3>3, <1>7
    <3> QED
      BY <3>1, <3>2, <3>3
  <2> QED
    BY <2>1, <2>2
<1>10. Known(ln)
  BY <1>1, <1>2 DEF Known
<1>11. \A c \in C : ln[c] \in Nat /\ st[c] \in Int
  BY <1>2, <1>5
<1>12. size \in Nat /\ \A c \in C : st[c] + ln[c] <= size
  BY <1>11, Content
<1>13. Spaced(n, C, st, ln)
  <2>1. ASSUME NEW b \in C, NEW c \in C, Index(n, b) < Index(n, c) PROVE st[b] + ln[b] <= st[c]
    BY <2>1, <1>2, <1>3, <1>4, OneAfterTheOther
  <2>2. \A b, c \in C : Follows(n, b, c) => Index(n, b) < Index(n, c)
    BY DEF Follows, Arranged
  <2>3. \A b, c \in C : ~Apart(n, b, c)
    BY DEF Apart, Arranged
  <2> QED
    BY <2>1, <2>2, <2>3 DEF Spaced, Ends
<1>14. Inside(n, st, ln, size)
  BY <1>5, <1>11, <1>12, <1>13 DEF Inside, Ends
<1>15. Elsewhere(n, st, ln)
  BY <1>1, <1>2, <1>6 DEF Elsewhere, Same
<1>16. ASSUME NEW p \in Below(n) \ {n} PROVE Fits(p, st, ln)
  <2>1. p \in Nodes /\ p # n /\ p >= n /\ Fits(p, start, length)
    BY <1>0, BelowIsLater DEF Fitted
  <2>2. ASSUME NEW d \in Children(p)
        PROVE  d \in Nodes \ C /\ d \in Below(n) /\ d # n /\ Parent(d) = p
    <3>1. d \in Nodes /\ Parent(d) = p /\ p < d
      BY <2>1, <1>0, Families
    <3>2. d \in Below(n)
      BY <1>0, BelowContains
    <3>3. d \in Nat /\ p \in Nat /\ n \in Nat
      BY <2>1, <3>1, <1>0, Shape
    <3> QED
      BY <2>1, <3>1, <3>2, <3>3, <1>1
  <2>3. CASE p \in C
    <3> DEFINE by == longest - length[p]
               r == Moved(start, p, by)
    <3>1. length[p] \in Nat /\ by \in Nat /\ length[p] + by = longest
      BY <2>3
    <3>2. Inside(p, start, length, length[p])
      BY <2>1 DEF Fits
    <3> HIDE DEF by
    <3>3. Inside(p, r, length, length[p] + by)
      BY <3>1, <3>2, <2>1, <1>0, MovedInside
    <3>4. \A d \in Children(p) : r[d] = IF tree[p].right THEN start[d] + by ELSE start[d]
      BY <2>2 DEF Moved
    <3> HIDE DEF r
    <3>5. \A d \in Children(p) : st[d] = r[d] /\ ln[d] = length[d]
      <4> SUFFICES ASSUME NEW d \in Children(p) PROVE st[d] = r[d] /\ ln[d] = length[d]
        OBVIOUS
      <4>1. d \in Nodes \ C /\ d \in Below(n) /\ d # n /\ Parent(d) = p
        BY <2>2
      <4>2. st[d] = IF tree[p].right THEN start[d] + longest - length[p] ELSE start[d]
        BY <4>1, <2>3, <1>7
      <4>3. start[d] + longest - length[p] = start[d] + by
        <5>1. start[d] \in Int
          BY <4>1
        <5> QED
          BY <5>1, <3>1 DEF by
      <4> QED
        BY <4>1, <4>2, <4>3, <3>4, <1>2
    <3>6. Spaced(p, Children(p), st, ln)
      BY <3>3, <3>5, SameSpaced DEF Inside, Same
    <3>7. Inside(p, st, ln, longest)
      BY <3>1, <3>3, <3>5, <3>6 DEF Inside, Ends
    <3> QED
      BY <3>7, <2>3, <1>2 DEF Fits
  <2>4. CASE p \notin C
    <3>1. Same(Children(p), start, length, st, ln)
      BY <2>2, <2>4, <1>2, <1>6 DEF Same
    <3>2. ln[p] = length[p]
      BY <2>1, <2>4, <1>2
    <3> QED
      BY <3>1, <3>2, <2>1, SameFits
  <2> QED
    BY <2>3, <2>4
<1>17. Fitted(Below(n) \ {n}, st, ln)
  BY <1>16 DEF Fitted
<1> QED
  BY <1>2, <1>9, <1>10, <1>12, <1>14, <1>15, <1>17 DEF Timing

\* The longest iteration, in steps of the loop's grid.
LEMMA LongestIteration ==
  ASSUME Built, NEW n \in Nodes, tree[n].kind = "unrolled",
         \A c \in Children(n) : length[c] \in Nat
  PROVE  LET longest == Max({0} \cup {ceil_to_grid(length[c], grid[n]) : c \in Children(n)})
         IN  /\ longest \in Nat /\ Divides(grid[n], longest)
             /\ \A c \in Children(n) : length[c] <= longest /\ Adjusted(c, length[c], longest) = longest
<1> DEFINE C == Children(n)
           g == grid[n]
           e == [c \in C |-> ceil_to_grid(length[c], g)]
           all == {0} \cup {ceil_to_grid(length[c], g) : c \in C}
<1>1. g \in Nat \ {0} /\ \A c \in C : grid[c] \in Nat \ {0} /\ Divides(grid[c], g) /\ c \in Nodes
  BY Facts, Shape DEF Built
<1>2. IsFiniteSet(C)
  BY FiniteChildren DEF Built
<1>3. \A c \in C : e[c] = ceil_to_grid(length[c], g)
  OBVIOUS
<1>4. ASSUME NEW c \in C
      PROVE  e[c] \in Int /\ e[c] >= 0 /\ length[c] <= e[c] /\ Divides(g, e[c])
  <2> DEFINE v == length[c]
  <2>1. v \in Int /\ v >= 0
    BY <1>1
  <2> HIDE DEF v, g, e, C
  <2>2. /\ ceil_to_grid(v, g) \in Int /\ v <= ceil_to_grid(v, g) /\ ceil_to_grid(v, g) >= 0
        /\ \E k \in Int : ceil_to_grid(v, g) = g * k
    BY <2>1, <1>1, Ceil
  <2>3. e[c] = ceil_to_grid(v, g)
    BY <1>3 DEF v
  <2> DEFINE u == ceil_to_grid(v, g)
  <2> HIDE DEF u
  <2>4. e[c] = u /\ u \in Int /\ v <= u /\ u >= 0 /\ Divides(g, u)
    BY <2>2, <2>3 DEF u, Divides
  <2> QED
    BY <2>1, <2>4 DEF v
<1>5. {e[c] : c \in C} = {ceil_to_grid(length[c], g) : c \in C}
  BY <1>3
<1> HIDE DEF C, e, g
<1>6. Bounded(C, e)
  BY <1>2, <1>4 DEF Bounded
<1>7. all = {0} \cup {e[c] : c \in C}
  BY <1>5
<1>8. all \in SUBSET Int /\ all # {} /\ IsFiniteSet(all)
  <2>1. IsFiniteSet({e[c] : c \in C})
    <3>1. DOMAIN e = C
      BY DEF e
    <3> QED
      BY <3>1, <1>2, FiniteImage
  <2>2. IsFiniteSet({0})
    BY FS_Singleton
  <2>3. IsFiniteSet({0} \cup {e[c] : c \in C})
    BY <2>1, <2>2, FS_Union
  <2>4. {0} \cup {e[c] : c \in C} \in SUBSET Int
    BY <1>4
  <2>5. IsFiniteSet(all)
    BY <2>3, <1>7
  <2>6. all \in SUBSET Int /\ all # {}
    BY <2>4, <1>7
  <2> QED
    BY <2>5, <2>6
<1> DEFINE longest == Max(all)
<1> HIDE DEF all
<1>9. longest \in all /\ \A k \in all : k <= longest
  BY <1>8, MaxOfFinite
<1> HIDE DEF longest
<1>10. longest \in Int /\ 0 \in all /\ \A c \in C : e[c] \in all
  BY <1>7, <1>8, <1>9
<1>11. longest \in Nat /\ \A c \in C : length[c] <= longest
  <2>1. longest >= 0
    BY <1>9, <1>10
  <2>2. longest \in Nat
    BY <2>1, <1>10
  <2> QED
    BY <2>2, <1>4, <1>9, <1>10 DEF C
<1>12. Divides(g, longest)
  <2>1. Divides(g, 0)
    <3>1. 0 = g * 0
      BY <1>1
    <3> QED
      BY <3>1 DEF Divides
  <2> QED
    BY <2>1, <1>4, <1>7, <1>9
<1>13. ASSUME NEW c \in C PROVE Adjusted(c, length[c], longest) = longest
  <2> DEFINE a == grid[c]
  <2>1. a \in Nat \ {0} /\ Divides(a, g)
    BY <1>1
  <2> HIDE DEF a
  <2>2. Divides(a, longest)
    <3>1. a \in Int /\ g \in Int /\ longest \in Int
      BY <2>1, <1>1, <1>10
    <3> QED
      BY <3>1, <2>1, <1>12, DividesTransitive
  <2>3. ceil_to_grid(longest, a) = longest
    BY <2>1, <2>2, <1>10, CeilOnGrid
  <2> QED
    BY <2>3 DEF Adjusted, a
<1> QED
  BY <1>11, <1>12, <1>13 DEF longest, all, C, g

LEMMA LeavesUnrolled ==
  ASSUME Inv, LeaveUnrolled
  PROVE  Inv'
<1> DEFINE n == Top.node
           C == Children(n)
           longest == Max({0} \cup {ceil_to_grid(length[c], grid[n]) : c \in C})
           auto == tree[n].mode = "AUTO"
           lengths == [m \in Nodes |-> IF auto /\ m \in C
                                       THEN Adjusted(m, length[m], longest) ELSE length[m]]
           starts == [m \in Nodes |->
                        IF ~auto \/ m \notin Below(n) \ {n} THEN start[m]
                        ELSE IF m \in C THEN longest * (Index(n, m) - 1)
                        ELSE IF Parent(m) \in C /\ tree[Parent(m)].right
                             THEN start[m] + lengths[Parent(m)] - length[Parent(m)] ELSE start[m]]
           content == ContentLength(n, starts, lengths)
           len == LengthOf(n, content)
<1>1. /\ outcome = "running" /\ Top.todo = << >> /\ tree[n].kind = "unrolled"
      /\ IF TooLong(n, content) THEN Refuse ELSE Return(len, Moved(starts, n, len - content), lengths)
  BY DEF LeaveUnrolled, Leaving
<1>2. CASE TooLong(n, content)
  BY <1>1, <1>2, Refusing
<1>3. CASE ~TooLong(n, content)
  <2>0. Built
    BY DEF Inv
  <2>1. /\ n \in Nodes /\ tree \in Experiments
        /\ start \in [Nodes -> Int] /\ length \in [Nodes -> Nat \cup {None}] /\ Known(length)
        /\ \A c \in C : length[c] \in Nat
        /\ Spaced(n, C, start, length)
        /\ \A c \in C : start[c] >= 0
        /\ Fitted(Below(n) \ {n}, start, length)
    <3>1. ~RightArranged(n)
      BY <1>1 DEF RightArranged, Arranged
    <3> QED
      BY <3>1, <1>1, AllPlaced
  <2>2. /\ longest \in Nat
        /\ \A c \in C : length[c] <= longest /\ Adjusted(c, length[c], longest) = longest
    BY <1>1, <2>0, <2>1, LongestIteration
  <2> HIDE DEF longest
  <2>3. C \subseteq Nodes
    BY <2>1, Shape
  <2>4. Timing(n, starts, lengths, content)
    <3>1. CASE auto
      <4>1. \A m \in Nodes : (auto /\ m \in C => Adjusted(m, length[m], longest) = longest)
        BY <2>2
      <4>2. lengths = [m \in Nodes |-> IF m \in C THEN longest ELSE length[m]]
        BY <4>1, <3>1
      <4> HIDE DEF lengths
      <4>3. \A m \in Nodes : m \in C => lengths[m] = longest
        BY <4>2
      <4>4. \A m \in Nodes : Parent(m) \in C => lengths[Parent(m)] = longest
        BY <4>3, <2>3
      <4>5. starts = [m \in Nodes |->
                        IF m \notin Below(n) \ {n} THEN start[m]
                        ELSE IF m \in C THEN longest * (Index(n, m) - 1)
                        ELSE IF Parent(m) \in C /\ tree[Parent(m)].right
                             THEN start[m] + longest - length[Parent(m)] ELSE start[m]]
        BY <4>4, <3>1
      <4> HIDE DEF starts
      <4>6. Equal(n, longest, starts, lengths)
        BY <4>2, <4>5 DEF Equal
      <4> QED
        BY <4>6, <1>1, <2>0, <2>1, <2>2, Equalized
    <3>2. CASE ~auto
      <4>1. lengths = length
        BY <3>2, <2>1
      <4>2. starts = start
        BY <3>2, <2>1
      <4> HIDE DEF lengths, starts
      <4>3. \A c \in C : length[c] \in Nat /\ start[c] \in Int
        BY <2>1, <2>3
      <4>4. content \in Nat /\ \A c \in C : start[c] + length[c] <= content
        BY <4>1, <4>2, <4>3, <2>0, <2>1, Content
      <4> HIDE DEF content
      <4>5. Inside(n, start, length, content)
        BY <4>4, <2>1 DEF Inside, Ends
      <4>6. Elsewhere(n, start, length)
        BY DEF Elsewhere, Same
      <4>7. Timing(n, start, length, content)
        BY <4>4, <4>5, <4>6, <2>1 DEF Timing
      <4> QED
        BY <4>1, <4>2, <4>7
    <3> QED
      BY <3>1, <3>2
  <2> HIDE DEF starts, lengths
  <2>5. content \in Nat
    BY <2>4 DEF Timing
  <2> HIDE DEF content
  <2>6. len \in Nat /\ len >= content
    BY <1>3, <2>0, <2>1, <2>5, LongEnough
  <2> HIDE DEF len, C
  <2> DEFINE st == Moved(starts, n, len - content)
  <2>7. Timing(n, st, lengths, len)
    BY <2>1, <2>4, <2>6, Extended
  <2>8. tree[n].kind # "root" /\ tree[n].kind # "iteration"
    BY <1>1
  <2>9. tree[Parent(n)].kind # "unrolled"
    BY <2>1, <2>8, Shape, OnlyIterations
  <2>10. Return(len, st, lengths)
    BY <1>1, <1>3
  <2> HIDE DEF st
  <2> QED
    BY <1>1, <2>7, <2>8, <2>9, <2>10, Returned
<1> QED
  BY <1>2, <1>3

\* The length of one repetition of a compressed loop.
LEMMA Repetition ==
  ASSUME Built, NEW n \in Nodes, tree[n].kind = "compressed", AutoHasNoTime,
         NEW c \in Children(n), length[c] \in Nat, ~TooSlow(n, length[c])
  PROVE  LET one == CompressedLength(n, length[c])
         IN  /\ one \in Nat /\ one >= length[c] /\ Adjusted(c, length[c], one) = one
             /\ Divides(Lcm(grid[n], loopGrid[n]), one)
<1> DEFINE len == length[c]
           time == tree[n].time
           g == grid[n]
           h == loopGrid[n]
           asked == IF time = None THEN len ELSE ceil_to_grid(time, g)
           both == Lcm(g, h)
           one == ceil_to_grid(asked, both)
<1>1. g \in Nat \ {0} /\ h \in Nat \ {0} /\ grid[c] \in Nat \ {0} /\ Divides(grid[c], g)
  BY Facts, Shape DEF Built
<1>2. tree[n].mode \in {"FASTEST", "CONSTANT", "AUTO"} /\ time \in Int
  BY Shape DEF NodeType, Built, None
<1>3. time # None => tree[n].mode = "CONSTANT"
  <2>1. tree[n].mode = "FASTEST" => time = None
    BY KindAssumption DEF Built, Nodes
  <2>2. tree[n].mode = "AUTO" => time = None
    BY DEF AutoHasNoTime, Built, Nodes
  <2> QED
    BY <2>1, <2>2, <1>2
<1>4. time # None => ~(len > ceil_to_grid(time, g))
  BY <1>3 DEF TooSlow, RepetitionTime
<1>5. CompressedLength(n, len) = one
  BY DEF CompressedLength, RepetitionTime
<1>6. len \in Nat
  OBVIOUS
<1> HIDE DEF len, time, g, h
<1>7. asked \in Int /\ asked >= len
  <2> DEFINE up == ceil_to_grid(time, g)
  <2>1. up \in Int
    BY <1>1, <1>2, Ceil
  <2> HIDE DEF up
  <2>2. time # None => up >= len
    BY <2>1, <1>4, <1>6 DEF up
  <2>3. asked = IF time = None THEN len ELSE up
    BY DEF up
  <2> HIDE DEF asked
  <2> QED
    BY <2>1, <2>2, <2>3, <1>6
<1>8. both \in Nat \ {0} /\ Divides(g, both)
  BY <1>1, LcmOfTwo
<1> HIDE DEF asked, both
<1>9. one \in Int /\ asked <= one /\ \E k \in Int : one = both * k
  BY <1>7, <1>8, Ceil
<1> HIDE DEF one
<1>10. one \in Nat /\ one >= len
  BY <1>6, <1>7, <1>9
<1>11. Adjusted(c, len, one) = one
  <2> DEFINE a == grid[c]
  <2>1. a \in Nat \ {0} /\ Divides(a, g)
    BY <1>1
  <2> HIDE DEF a
  <2>2. Divides(both, one)
    BY <1>9 DEF Divides
  <2>3. a \in Int /\ g \in Int /\ both \in Int /\ one \in Int
    BY <2>1, <1>1, <1>8, <1>9
  <2>4. Divides(a, both)
    BY <2>1, <2>3, <1>8, DividesTransitive
  <2>5. Divides(a, one)
    BY <2>2, <2>3, <2>4, DividesTransitive
  <2>6. ceil_to_grid(one, a) = one
    BY <2>1, <2>5, <1>9, CeilOnGrid
  <2> QED
    BY <2>6 DEF Adjusted, a
<1>12. Divides(both, one)
  BY <1>9 DEF Divides
<1> QED
  BY <1>5, <1>10, <1>11, <1>12 DEF len, both, g, h

\* One iteration, count times.
LEMMA Repeated ==
  ASSUME NEW a \in Nat, NEW k \in Nat, k > 1
  PROVE  a * k \in Nat /\ a <= a * k
<1> DEFINE d == k - 1
<1>1. d \in Nat /\ k = d + 1
  OBVIOUS
<1> HIDE DEF d
<1>2. a * d \in Nat
  BY <1>1, Product
<1>3. a * k = a * d + a
  BY <1>1
<1> DEFINE x == a * d
           y == a * k
<1>4. x \in Nat /\ y = x + a
  BY <1>2, <1>3
<1> HIDE DEF x, y
<1>5. y \in Nat /\ a <= y
  BY <1>4
<1> QED
  BY <1>5 DEF y

LEMMA LeavesCompressed ==
  ASSUME Inv, AutoHasNoTime, LeaveCompressed
  PROVE  Inv'
<1> DEFINE n == Top.node
           c == tree[n].children[1]
           one == CompressedLength(n, length[c])
           iteration == Adjusted(c, length[c], one)
           st == Moved(start, c, iteration - length[c])
           ln == [length EXCEPT ![c] = iteration]
           len == one * tree[n].count
<1>1. /\ outcome = "running" /\ Top.todo = << >> /\ tree[n].kind = "compressed"
      /\ IF TooSlow(n, length[c]) THEN Refuse ELSE Return(len, st, ln)
  BY DEF LeaveCompressed, Leaving
<1>2. CASE TooSlow(n, length[c])
  BY <1>1, <1>2, Refusing
<1>3. CASE ~TooSlow(n, length[c])
  <2>0. Built
    BY DEF Inv
  <2>1. /\ n \in Nodes /\ tree \in Experiments
        /\ start \in [Nodes -> Int] /\ length \in [Nodes -> Nat \cup {None}] /\ Known(length)
        /\ \A b \in Children(n) : length[b] \in Nat /\ start[b] = 0
        /\ Fitted(Below(n) \ {n}, start, length)
    <3>1. ~RightArranged(n)
      BY <1>1 DEF RightArranged, Arranged
    <3> QED
      BY <3>1, <1>1, AllPlaced
  <2>2. Children(n) = {c} /\ c \in Nodes /\ c # n /\ tree[n].count \in Nat /\ tree[n].count > 1
    <3>1. Len(tree[n].children) = 1 /\ tree[n].count > 1
      BY <1>1, <2>1, KindAssumption DEF Nodes
    <3>2. Children(n) = {tree[n].children[i] : i \in 1 .. 1}
      BY <3>1, <2>1, Indices
    <3>3. Children(n) = {c}
      BY <3>2
    <3>4. c \in Nodes /\ n < c /\ n \in Nat
      BY <3>3, <2>1, Shape
    <3>5. tree[n].count \in Nat
      BY <2>1, Shape DEF NodeType
    <3> HIDE DEF c, n
    <3>6. c # n
      BY <3>4
    <3> QED
      BY <3>1, <3>3, <3>4, <3>5, <3>6 DEF n
  <2> HIDE DEF c
  <2>3. length[c] \in Nat /\ start[c] = 0
    BY <2>1, <2>2
  <2>4. one \in Nat /\ one >= length[c] /\ iteration = one
    BY <1>1, <1>3, <2>0, <2>1, <2>2, <2>3, Repetition
  <2> HIDE DEF one, iteration
  <2>5. Below(n) = {n} \cup Below(c) /\ c \in Below(c) /\ Below(c) \subseteq Nodes
    <3>1. Below(n) = {n} \cup UNION {Below(b) : b \in Children(n)}
      BY <2>1, BelowIs
    <3>2. UNION {Below(b) : b \in {c}} = Below(c)
      OBVIOUS
    <3> QED
      BY <3>1, <3>2, <2>1, <2>2, BelowWays, BelowIs
  <2>6. Timing(c, start, length, length[c])
    <3>1. \A p \in Below(c) : p # n
      <4>1. \A p \in Below(c) : p >= c /\ p \in Nodes
        BY <2>1, <2>2, BelowIsLater
      <4>2. n < c /\ n \in Nat /\ c \in Nat
        BY <2>1, <2>2, Shape
      <4>3. \A p \in Nodes : p \in Nat
        BY <2>1, Shape
      <4> HIDE DEF n
      <4> QED
        BY <4>1, <4>2, <4>3
    <3>2. Fits(c, start, length) /\ Fitted(Below(c) \ {c}, start, length)
      BY <3>1, <2>1, <2>5 DEF Fitted
    <3> QED
      BY <3>2, <2>1, <2>3 DEF Timing, Fits, Elsewhere, Same
  <2>7. /\ st \in [Nodes -> Int] /\ ln \in [Nodes -> Nat \cup {None}] /\ Known(ln)
        /\ st[c] = 0 /\ ln[c] = iteration
        /\ Elsewhere(c, st, ln) /\ Fitted(Below(c), st, ln)
    <3>1. [start EXCEPT ![c] = 0] = start
      BY <2>1, <2>2, <2>3
    <3>2. LET r == Moved([start EXCEPT ![c] = 0], c, iteration - length[c])
              l == [length EXCEPT ![c] = iteration]
          IN  /\ r \in [Nodes -> Int] /\ l \in [Nodes -> Nat \cup {None}] /\ Known(l)
              /\ r[c] = 0 /\ l[c] = iteration
              /\ Elsewhere(c, r, l) /\ Fitted(Below(c), r, l)
      <4> DEFINE old == length[c]
                 place == 0
      <4>1. Timing(c, start, length, old) /\ place \in Int /\ iteration \in Nat /\ iteration >= old
        BY <2>4, <2>6
      <4> HIDE DEF old, place
      <4>2. LET r == Moved([start EXCEPT ![c] = place], c, iteration - old)
                l == [length EXCEPT ![c] = iteration]
            IN  /\ r \in [Nodes -> Int] /\ l \in [Nodes -> Nat \cup {None}] /\ Known(l)
                /\ r[c] = place /\ l[c] = iteration
                /\ Elsewhere(c, r, l) /\ Fitted(Below(c), r, l)
        BY <4>1, <2>0, <2>1, <2>2, Settled
      <4> QED
        BY <4>2 DEF old, place
    <3> QED
      BY <3>1, <3>2
  <2> HIDE DEF st, ln
  <2>8. len \in Nat /\ iteration <= len
    BY <2>2, <2>4, Repeated
  <2> HIDE DEF len
  <2>9. Inside(n, st, ln, len)
    <3>1. Spaced(n, Children(n), st, ln)
      BY <1>1, <2>2 DEF Spaced, Apart, Follows, Arranged
    <3> QED
      BY <3>1, <2>2, <2>4, <2>7, <2>8 DEF Inside, Ends
  <2>10. Timing(n, st, ln, len)
    <3>1. Elsewhere(n, st, ln)
      BY <2>5, <2>7 DEF Elsewhere, Same
    <3>2. Fitted(Below(n) \ {n}, st, ln)
      BY <2>5, <2>7 DEF Fitted
    <3> QED
      BY <3>1, <3>2, <2>7, <2>8, <2>9 DEF Timing
  <2>11. tree[n].kind # "root" /\ tree[n].kind # "iteration"
    BY <1>1
  <2>12. tree[Parent(n)].kind # "unrolled"
    BY <2>1, <2>11, Shape, OnlyIterations
  <2>13. Return(len, st, ln)
    BY <1>1, <1>3
  <2> QED
    BY <1>1, <2>10, <2>11, <2>12, <2>13, Returned
<1> QED
  BY <1>2, <1>3

LEMMA LeavesRoot ==
  ASSUME Inv, LeaveRoot
  PROVE  Inv'
<1> DEFINE C == Children(1)
           size == ContentLength(1, start, length)
           ln == [length EXCEPT ![1] = size]
<1>1. /\ outcome = "running" /\ Top.todo = << >> /\ tree[Top.node].kind = "root"
      /\ length' = ln /\ absolute' = FixedFrom(1, 0, start) /\ stack' = << >> /\ outcome' = "done"
      /\ UNCHANGED built /\ start' = start /\ acquired' = acquired
  BY DEF LeaveRoot, Leaving
<1>2. Built /\ tree \in Experiments /\ Typed
  BY DEF Inv, Built
<1>3. /\ Top.node = 1 /\ 1 \in Nodes
      /\ start \in [Nodes -> Int] /\ length \in [Nodes -> Nat \cup {None}] /\ Known(length)
      /\ \A c \in C : length[c] \in Nat
      /\ Spaced(1, C, start, length)
      /\ \A c \in C : start[c] >= 0
      /\ Fitted(Below(1) \ {1}, start, length)
  <2>1. Top.node \in Nodes /\ Top.node = 1
    BY <1>1, <1>2, AllPlaced, Shape
  <2>2. ~RightArranged(Top.node)
    BY <1>1 DEF RightArranged, Arranged
  <2> QED
    BY <2>1, <2>2, <1>1, AllPlaced
<1>4. Below(1) = Nodes /\ C \subseteq Nodes
  BY <1>2, <1>3, Everything, Shape
<1>5. size \in Nat /\ \A c \in C : start[c] + length[c] <= size
  <2>1. \A c \in C : length[c] \in Nat /\ start[c] \in Int
    BY <1>3, <1>4
  <2> QED
    BY <2>1, <1>2, <1>3, Content
<1> HIDE DEF size
<1>6. Timing(1, start, length, size)
  <2>1. Inside(1, start, length, size)
    BY <1>3, <1>5 DEF Inside, Ends
  <2> QED
    BY <2>1, <1>3, <1>5 DEF Timing, Elsewhere, Same
<1>7. FixedFrom(1, 0, start) \in [Nodes -> Nat \cup {None}]
  <2>1. absolute \in [Nodes -> Nat \cup {None}] /\ 0 \in Nat
    BY <1>2 DEF Typed
  <2> DEFINE at == 0
  <2>2. at \in Nat
    OBVIOUS
  <2> HIDE DEF at
  <2>3. FixedFrom(1, at, start) \in [Nodes -> Nat \cup {None}]
    BY <2>1, <2>2, <1>2, <1>3, <1>6, NoneBefore, Fixed
  <2> QED
    BY <2>3 DEF at
<1>8. ln \in [Nodes -> Nat \cup {None}] /\ ln[1] = size /\ \A m \in Nodes \ {1} : ln[m] = length[m]
  BY <1>3, <1>5
<1> HIDE DEF ln
<1>9. Fitted(Nodes, start, ln)
  <2>1. Fitted(Below(1) \ {1}, start, ln)
    BY <1>2, <1>3, <1>8, BelowStays
  <2>2. Same(C, start, length, start, ln)
    <3>1. 1 \notin C
      BY <1>2, <1>3, Families
    <3> QED
      BY <3>1, <1>4, <1>8 DEF Same
  <2>3. Fits(1, start, ln)
    <3>1. Inside(1, start, length, size)
      BY <1>6 DEF Timing
    <3>2. Spaced(1, C, start, ln)
      BY <3>1, <2>2, SameSpaced DEF Inside
    <3> QED
      BY <3>1, <3>2, <2>2, <1>5, <1>8 DEF Fits, Inside, Ends, Same
  <2> QED
    BY <2>1, <2>3, <1>4 DEF Fitted
<1>10. Calling(<< >>, start, ln)
  BY DEF Calling
<1>11. NextTyped
  <2>1. Known(ln)
    BY <1>3, <1>5, <1>8 DEF Known
  <2> QED
    BY <2>1, <1>1, <1>2, <1>3, <1>7, <1>8 DEF NextTyped, Typed, Known
<1>12. Calling(stack', start', length') /\ Fitted(Nodes \ Open(stack'), start', length')
  BY <1>1, <1>9, <1>10 DEF Fitted
<1> QED
  BY <1>1, <1>11, <1>12, Continues

LEMMA Stutters ==
  ASSUME Inv, UNCHANGED vars
  PROVE  Inv'
<1>1. UNCHANGED built /\ start' = start /\ length' = length /\ absolute' = absolute
      /\ acquired' = acquired /\ stack' = stack /\ outcome' = outcome
  BY DEF vars
<1>2. NextTyped
  BY <1>1 DEF Inv, Typed, NextTyped
<1>3. Calling(stack', start', length') /\ Fitted(Nodes \ Open(stack'), start', length')
  BY <1>1 DEF Inv, Calls, Timed, Fitted
<1>4. /\ outcome \in {"running", "done", "refused"}
      /\ outcome = "running" => stack # << >>
      /\ outcome = "done" => stack = << >>
  BY DEF Inv, Typed, Calls
<1> QED
  BY <1>1, <1>2, <1>3, <1>4, Continues

LEMMA Invariance ==
  ASSUME AutoHasNoTime
  PROVE  Spec => []Inv
<1>1. Init => Inv
  BY Starts
<1>2. Inv /\ [Next]_vars => Inv'
  <2> SUFFICES ASSUME Inv, [Next]_vars PROVE Inv'
    OBVIOUS
  <2>1. CASE RefuseChild
    BY <2>1, Refusing DEF RefuseChild
  <2>2. CASE VisitLeaf
    BY <2>2, VisitsLeaf
  <2>3. CASE VisitBranch
    BY <2>3, VisitsBranch
  <2>4. CASE LeaveSection
    BY <2>4, LeavesSection
  <2>5. CASE LeaveUnrolled
    BY <2>5, LeavesUnrolled
  <2>6. CASE LeaveCompressed
    BY <2>6, LeavesCompressed
  <2>7. CASE LeaveRoot
    BY <2>7, LeavesRoot
  <2>8. CASE UNCHANGED vars
    BY <2>8, Stutters
  <2> QED
    BY <2>1, <2>2, <2>3, <2>4, <2>5, <2>6, <2>7, <2>8 DEF Next
<1> QED
  BY <1>1, <1>2, PTL DEF Spec

-----------------------------------------------------------------------------
(* The grids are kept.                                                     *)

\* A step that keeps the tree and puts starts, lengths and calls on the grid.
LEMMA GridContinues ==
  ASSUME UNCHANGED built, StartsOnGrid(start'),
         \A p \in Nodes \ Open(stack') : Regular(p, length'), AskedOnGrid(stack')
  PROVE  OnGrid'
<1>1. ASSUME NEW p, NEW c PROVE Unit(p, c)' = Unit(p, c)
  BY TreeStays DEF Unit
<1>2. ASSUME NEW st PROVE StartsOnGrid(st)' = StartsOnGrid(st)
  BY <1>1, TreeStays DEF StartsOnGrid
<1>3. ASSUME NEW p, NEW ln PROVE Regular(p, ln)' = Regular(p, ln)
  BY TreeStays DEF Regular
<1>4. ASSUME NEW q PROVE AskedOnGrid(q)' = AskedOnGrid(q)
  BY <1>1, TreeStays DEF AskedOnGrid
<1>5. StartsOnGrid(start)' /\ AskedOnGrid(stack)'
  BY <1>2, <1>4
<1>6. \A p \in Nodes' \ Open(stack)' : Regular(p, length)'
  BY <1>3, TreeStays, CallsStay
<1> QED
  BY <1>5, <1>6 DEF OnGrid

\* The child that is visited.
LEMMA AskedChild ==
  ASSUME Inv, OnGrid, Visiting, ~Refused(Top, Next1)
  PROVE  LET c == Next1
             at == CalledAt(Top, c)
         IN  /\ stack # << >> /\ c = Head(Top.todo) /\ c \in Children(Top.node) /\ c \in Nodes
             /\ Divides(grid[Top.node], Top.at)
             /\ at \in Nat /\ Divides(Unit(Top.node, c), at) /\ Divides(grid[c], at)
<1> DEFINE c == Next1
           f == Top
           at == CalledAt(f, c)
<1>0. Built /\ tree \in Experiments /\ Typed /\ outcome = "running" /\ f.todo # << >> /\ stack # << >>
  BY DEF Inv, Built, Calls, Visiting
<1>1. /\ stack \in Seq(FrameType) /\ Len(stack) \in Nat \ {0} /\ f = stack[1] /\ f \in FrameType
      /\ Progress(f) /\ Placing(f, start, length) /\ f.node \in Nodes
  BY <1>0, StackIs DEF FrameType
<1>2. c = Head(f.todo)
  BY DEF Next1
<1>3. Divides(grid[f.node], f.at)
  <2>1. 1 \in 1 .. Len(stack)
    BY <1>1
  <2> QED
    BY <2>1, <1>1 DEF OnGrid, AskedOnGrid
<1>4. c \in Children(f.node) /\ c \in Nodes
  <2>1. [node |-> f.node, todo |-> Tail(f.todo)].node = f.node
        /\ [node |-> f.node, todo |-> Tail(f.todo)].todo = Tail(f.todo)
    OBVIOUS
  <2>2. c \in Children(f.node)
    BY <2>1, <1>0, <1>1, <1>2, Step
  <2> QED
    BY <2>2, <1>0, <1>1, Shape
<1>5. at \in Nat /\ Divides(Unit(f.node, c), at)
  <2>1. ~Refused(f, c) /\ StartsOnGrid(start)
    BY DEF OnGrid
  <2> HIDE DEF f, c, at
  <2>2. LET asked == CalledAt(f, Head(f.todo))
        IN  asked \in Nat /\ Divides(Unit(f.node, Head(f.todo)), asked)
    BY <2>1, <1>0, <1>1, <1>2, <1>3, Asked
  <2> QED
    BY <2>2, <1>2 DEF at
<1>6. Divides(grid[c], at)
  <2>1. Unit(f.node, c) \in Int /\ Divides(grid[c], Unit(f.node, c)) /\ grid[c] \in Int
    BY <1>0, <1>1, <1>4, Units, Facts
  <2> QED
    BY <2>1, <1>5, DividesTransitive
<1> QED
  BY <1>0, <1>2, <1>3, <1>4, <1>5, <1>6

LEMMA PlacedOnGrid ==
  ASSUME Built, start \in [Nodes -> Int], NEW f \in FrameType, NEW c \in Children(f.node),
         NEW at \in Nat, NEW len \in Nat, Divides(Unit(f.node, c), at), Divides(grid[f.node], f.at)
  PROVE  LET st == Placed(f, c, at, len)
         IN  st \in Int /\ Divides(Unit(f.node, c), st)
<1>1. f.node \in Nodes /\ f.at \in Nat
  BY DEF FrameType
<1>2. CASE RightArranged(f.node)
  <2>1. Unit(f.node, c) = grid[c]
    BY <1>2 DEF RightArranged, Unit, Arranged
  <2> QED
    BY <2>1, <1>2, RightBound DEF Placed
<1>3. CASE ~RightArranged(f.node)
  <2> DEFINE u == Unit(f.node, c)
  <2>1. u \in Int /\ Divides(u, grid[f.node]) /\ grid[f.node] \in Int /\ Divides(u, at)
    BY <1>1, Units, Facts
  <2> HIDE DEF u
  <2>2. Divides(u, f.at)
    BY <2>1, <1>1, DividesTransitive
  <2>3. Divides(u, at - f.at) /\ at - f.at \in Int
    BY <2>1, <2>2, <1>1, DividesSums
  <2> QED
    BY <2>3, <1>3 DEF Placed, u
<1> QED
  BY <1>2, <1>3

LEMMA CallersOnGrid ==
  ASSUME NEW q \in Seq(FrameType), q # << >>, AskedOnGrid(q), NEW g \in FrameType,
         g.node = q[1].node, g.at = q[1].at
  PROVE  AskedOnGrid(<<g>> \o Tail(q))
<1> DEFINE r == <<g>> \o Tail(q)
<1>1. /\ Len(r) = Len(q) /\ Len(q) \in Nat \ {0}
      /\ r[1] = g /\ \A i \in 2 .. Len(q) : r[i] = q[i]
  BY NewHead
<1> HIDE DEF r
<1>2. \A i \in 1 .. Len(q) : r[i].node = q[i].node /\ r[i].at = q[i].at
  <2> SUFFICES ASSUME NEW i \in 1 .. Len(q) PROVE r[i].node = q[i].node /\ r[i].at = q[i].at
    OBVIOUS
  <2>1. i = 1 \/ i \in 2 .. Len(q)
    BY <1>1
  <2> QED
    BY <2>1, <1>1
<1>3. \A i \in 1 .. Len(q) : i < Len(q) => i + 1 \in 1 .. Len(q)
  BY <1>1
<1> QED
  BY <1>1, <1>2, <1>3 DEF AskedOnGrid, r

LEMMA BranchOnGrid ==
  ASSUME Inv, OnGrid, VisitBranch
  PROVE  OnGrid'
<1> DEFINE c == Next1
           at == CalledAt(Top, c)
           g == Call(c, at, MayChange(Top, c))
           q == <<g>> \o stack
<1>1. /\ Visiting /\ Top.todo # << >> /\ ~Refused(Top, c) /\ tree[c].kind \notin Leaves
      /\ stack' = q
      /\ UNCHANGED built /\ start' = start /\ length' = length
  BY DEF VisitBranch, Visiting
<1>2. /\ stack # << >> /\ c = Head(Top.todo) /\ c \in Nodes
      /\ at \in Nat /\ Divides(Unit(Top.node, c), at) /\ Divides(grid[c], at)
  BY <1>1, AskedChild
<1>3. /\ stack \in Seq(FrameType) /\ Len(stack) \in Nat \ {0} /\ Top = stack[1]
      /\ Progress(Top) /\ Top.node \in Nodes
  BY <1>2, StackIs DEF FrameType
<1>4. tree \in Experiments /\ AskedOnGrid(stack) /\ StartsOnGrid(start)
  BY DEF Inv, Built, OnGrid
<1>5. MayChange(Top, c) \in BOOLEAN
  <2>1. Top.mayChange \in BOOLEAN
    BY <1>2, StackIs DEF FrameType
  <2> QED
    BY <2>1 DEF MayChange
<1>6. g \in FrameType /\ g.node = c /\ g.at = at /\ ToSet(g.todo) = Children(c)
  BY <1>1, <1>2, <1>4, <1>5, NewCall
<1> HIDE DEF c, at, g
<1>7. Open(stack) \subseteq Open(q)
  BY <1>1, <1>2, <1>3, <1>4, <1>6, OpenBranch
<1>8. /\ Len(q) = Len(stack) + 1 /\ q[1] = g
      /\ \A i \in 1 .. Len(stack) : q[i + 1] = stack[i]
  BY <1>3, <1>6
<1> HIDE DEF q
<1>9. ASSUME NEW i \in 1 .. Len(q)
      PROVE  /\ Divides(grid[q[i].node], q[i].at)
             /\ i < Len(q) => Divides(Unit(q[i + 1].node, q[i].node), q[i].at)
  <2>1. CASE i = 1
    <3>1. 1 \in 1 .. Len(stack) /\ q[1 + 1] = stack[1]
      BY <1>3, <1>8
    <3> QED
      BY <2>1, <3>1, <1>2, <1>3, <1>6, <1>8
  <2>2. CASE i # 1
    <3> DEFINE j == i - 1
    <3>1. j \in 1 .. Len(stack) /\ j + 1 = i /\ (i < Len(q) => j < Len(stack) /\ i \in 1 .. Len(stack))
      BY <2>2, <1>3, <1>8
    <3> HIDE DEF j
    <3>2. q[i] = stack[j] /\ (i < Len(q) => q[i + 1] = stack[j + 1])
      BY <3>1, <1>8
    <3> QED
      BY <3>1, <3>2, <1>4 DEF AskedOnGrid
  <2> QED
    BY <2>1, <2>2
<1>10. AskedOnGrid(q)
  BY <1>9 DEF AskedOnGrid
<1>11. \A p \in Nodes \ Open(q) : Regular(p, length)
  BY <1>7 DEF OnGrid
<1> QED
  BY <1>1, <1>4, <1>10, <1>11, GridContinues

LEMMA LeafOnGrid ==
  ASSUME Inv, OnGrid, VisitLeaf
  PROVE  OnGrid'
<1> DEFINE c == Next1
           f == Top
           at == CalledAt(f, c)
           len == LeafLength(c)
           place == Placed(f, c, at, len)
           g == Advance(f, c, at, len)
           q == <<g>> \o Tail(stack)
<1>1. /\ Visiting /\ f.todo # << >> /\ ~Refused(f, c) /\ tree[c].kind \in Leaves
      /\ length' = [length EXCEPT ![c] = len] /\ start' = [start EXCEPT ![c] = place]
      /\ stack' = q /\ UNCHANGED built
  BY DEF VisitLeaf, Visiting
<1>2. /\ stack # << >> /\ c = Head(f.todo) /\ c \in Children(f.node) /\ c \in Nodes
      /\ Divides(grid[f.node], f.at) /\ at \in Nat /\ Divides(Unit(f.node, c), at)
  BY <1>1, AskedChild
<1>3. /\ stack \in Seq(FrameType) /\ Len(stack) \in Nat \ {0} /\ f = stack[1] /\ f \in FrameType
      /\ Progress(f) /\ f.node \in Nodes
  BY <1>2, StackIs DEF FrameType
<1>4. Built /\ tree \in Experiments /\ Typed /\ AskedOnGrid(stack) /\ StartsOnGrid(start)
      /\ start \in [Nodes -> Int] /\ length \in [Nodes -> Nat \cup {None}]
  BY DEF Inv, Built, OnGrid, Typed
<1>5. len \in Nat
  <2>1. CASE tree[c].kind \in {"reserve", "clear"}
    BY <2>1 DEF LeafLength
  <2>2. CASE tree[c].kind = "empty"
    BY <2>2, <1>2, <1>4, Facts DEF LeafLength
  <2>3. CASE tree[c].kind \in {"play", "acquire", "group", "reset"}
    BY <2>3, <1>2, <1>4 DEF LeafLength, Typed
  <2> QED
    BY <2>1, <2>2, <2>3, <1>1 DEF Leaves
<1> HIDE DEF c, f, at, len
<1>6. place \in Int /\ Divides(Unit(f.node, c), place)
  BY <1>2, <1>3, <1>4, <1>5, PlacedOnGrid
<1>7. g \in FrameType /\ g.node = f.node /\ g.at = f.at /\ g.todo = Tail(f.todo)
  BY <1>1, <1>3, <1>4, <1>5, <1>6, Advanced
<1> HIDE DEF place, g
<1>8. AskedOnGrid(q)
  BY <1>2, <1>3, <1>4, <1>7, CallersOnGrid
<1>9. Pending(stack) \subseteq Open(q)
  BY <1>2, <1>3, <1>7, StillOpen
<1> HIDE DEF q
<1>10. StartsOnGrid(start')
  <2> SUFFICES ASSUME NEW p \in Nodes, NEW b \in Children(p) PROVE Divides(Unit(p, b), start'[b])
    BY DEF StartsOnGrid
  <2>1. b \in Nodes /\ Parent(b) = p /\ Parent(c) = f.node
    BY <1>2, <1>3, <1>4, Families
  <2>2. CASE b = c
    BY <2>1, <2>2, <1>1, <1>4, <1>6
  <2>3. CASE b # c
    BY <2>1, <2>3, <1>1, <1>4 DEF StartsOnGrid
  <2> QED
    BY <2>2, <2>3
<1>11. ASSUME NEW p \in Nodes \ Open(q) PROVE Regular(p, length')
  <2>1. CASE p = c
    BY <2>1, <1>1 DEF Regular, Leaves
  <2>2. CASE p # c
    <3>1. Below(c) = {c}
      <4>1. tree[c].children = << >>
        BY <1>1, <1>2, <1>4, KindAssumption DEF Nodes
      <4>2. Children(c) = {}
        BY <4>1 DEF Children, ToSet
      <4> QED
        BY <4>2, <1>2, <1>4, BelowIs
    <3>2. p \notin Open(stack) /\ p \notin Pending(stack)
      <4>1. Open(stack) \subseteq Pending(stack) \cup Below(c)
        BY <1>1, <1>2, <1>3, <1>4, OpenNow
      <4> QED
        BY <4>1, <3>1, <2>2, <1>9
    <3>3. Regular(p, length)
      BY <3>2 DEF OnGrid
    <3>4. c \notin Children(p)
      <4>1. f.node \in Pending(stack)
        <5>1. 1 \in 1 .. Len(stack)
          BY <1>3
        <5> QED
          BY <5>1, <1>3 DEF Pending
      <4> QED
        BY <4>1, <3>2, <1>2, <1>3, <1>4, Families
    <3>5. \A b \in Children(p) : length'[b] = length[b]
      BY <3>4, <1>1, <1>4, Shape
    <3> QED
      BY <3>3, <3>5, <2>2, <1>1, <1>4 DEF Regular
  <2> QED
    BY <2>1, <2>2
<1> QED
  BY <1>1, <1>8, <1>10, <1>11, GridContinues

LEMMA TailOnGrid ==
  ASSUME NEW q \in Seq(FrameType), q # << >>, AskedOnGrid(q)
  PROVE  AskedOnGrid(Tail(q))
<1> DEFINE r == Tail(q)
           k == Len(q)
<1>1. /\ k \in Nat \ {0} /\ Len(r) = k - 1
      /\ \A i \in 1 .. Len(r) : r[i] = q[i + 1]
  OBVIOUS
<1> HIDE DEF r
<1>2. \A i \in 1 .. k : Divides(grid[q[i].node], q[i].at)
                        /\ (i < k => Divides(Unit(q[i + 1].node, q[i].node), q[i].at))
  BY DEF AskedOnGrid
<1> HIDE DEF k
<1>3. ASSUME NEW i \in 1 .. Len(r)
      PROVE  /\ i + 1 \in 1 .. k /\ r[i] = q[i + 1]
             /\ i < Len(r) => i + 1 < k /\ r[i + 1] = q[(i + 1) + 1]
  <2>1. i + 1 \in 1 .. k /\ (i < Len(r) => i + 1 \in 1 .. Len(r) /\ i + 1 < k)
    BY <1>1
  <2> QED
    BY <2>1, <1>1
<1>4. ASSUME NEW i \in 1 .. Len(r)
      PROVE  /\ Divides(grid[r[i].node], r[i].at)
             /\ i < Len(r) => Divides(Unit(r[i + 1].node, r[i].node), r[i].at)
  BY <1>2, <1>3
<1> QED
  BY <1>4 DEF AskedOnGrid, r

\* The length an iteration gets from its loop.
LEMMA AdjustedOnGrid ==
  ASSUME Built, NEW n \in Nodes, NEW old \in Nat, NEW new \in Int, Divides(grid[n], old)
  PROVE  Divides(grid[n], Adjusted(n, old, new))
<1>1. grid[n] \in Nat \ {0}
  BY Facts
<1>2. Divides(grid[n], ceil_to_grid(new, grid[n]))
  BY <1>1, Ceil DEF Divides
<1> QED
  BY <1>2 DEF Adjusted

\* The children of a node move by a multiple of their grid.
LEMMA MovedOnGrid ==
  ASSUME Built, NEW n \in Nodes, NEW st \in [Nodes -> Int], StartsOnGrid(st),
         NEW by \in Int, by = 0 \/ Divides(grid[n], by)
  PROVE  StartsOnGrid(Moved(st, n, by))
<1> SUFFICES ASSUME NEW p \in Nodes, NEW b \in Children(p)
             PROVE  Divides(Unit(p, b), Moved(st, n, by)[b])
  BY DEF StartsOnGrid
<1>0. tree \in Experiments
  BY DEF Built
<1>1. b \in Nodes /\ Parent(b) = p
  BY <1>0, Families
<1>2. Moved(st, n, by)[b] = IF b \in Children(n) /\ tree[n].right THEN st[b] + by ELSE st[b]
  BY <1>1 DEF Moved
<1>3. Divides(Unit(p, b), st[b]) /\ st[b] \in Int
  BY <1>1 DEF StartsOnGrid
<1>4. ASSUME b \in Children(n) PROVE Divides(Unit(p, b), st[b] + by)
  <2>1. p = n
    BY <1>0, <1>1, <1>4, Families
  <2> DEFINE u == Unit(p, b)
  <2>2. u \in Int /\ Divides(u, grid[n]) /\ grid[n] \in Int
    BY <2>1, Units, Facts
  <2> HIDE DEF u
  <2>3. Divides(u, by)
    BY <2>2, DividesZero, DividesTransitive
  <2> QED
    BY <2>2, <2>3, <1>3, DividesSums DEF u
<1> QED
  BY <1>2, <1>3, <1>4

LEMMA ReturnedOnGrid ==
  ASSUME Inv, OnGrid, Top.todo = << >>, outcome = "running", tree[Top.node].kind # "root",
         NEW st \in [Nodes -> Int], NEW ln \in [Nodes -> Nat \cup {None}], NEW len \in Nat,
         StartsOnGrid(st), \A p \in Nodes \ Open(stack) : Regular(p, ln),
         Regular(Top.node, [ln EXCEPT ![Top.node] = len]),
         tree[Parent(Top.node)].kind = "unrolled" =>
           IterationLength(Parent(Top.node), len) \in Int /\ IterationLength(Parent(Top.node), len) >= len,
         Return(len, st, ln)
  PROVE  OnGrid'
<1> DEFINE n == Top.node
           at == Top.at
           caller == stack[2]
           final == IF tree[caller.node].kind = "unrolled"
                    THEN Adjusted(n, len, IterationLength(caller.node, len)) ELSE len
           place == Placed(caller, n, at, len)
           placed == [st EXCEPT ![n] = place]
           starts == Moved(placed, n, final - len)
           lengths == [ln EXCEPT ![n] = final]
           g == Advance(caller, n, at, final)
           q == Tail(stack)
           r == <<g>> \o Tail(q)
<1>0. /\ tree \in Experiments /\ Built /\ Calling(stack, start, length) /\ stack # << >>
      /\ start \in [Nodes -> Int] /\ AskedOnGrid(stack)
  BY DEF Inv, Built, Calls, Typed, OnGrid
<1>1. Top \in FrameType /\ n \in Nodes /\ at \in Nat /\ stack \in Seq(FrameType) /\ Top = stack[1]
  BY <1>0, StackIs DEF FrameType
<1>2. /\ start' = starts /\ length' = lengths
      /\ stack' = << Advance(caller, n, at, final) >> \o SubSeq(stack, 3, Len(stack))
      /\ UNCHANGED built
  BY DEF Return
<1>3. /\ q # << >> /\ q[1] = caller /\ caller \in FrameType
      /\ Called(caller, n, at, start, length)
      /\ SubSeq(stack, 3, Len(stack)) = Tail(q)
      /\ Open(stack) \subseteq Pending(q) \cup {n}
      /\ n \in Children(caller.node) /\ Parent(n) = caller.node /\ caller.node \in Nodes
  BY <1>0, Callers
<1>4. /\ q \in Seq(FrameType) /\ Len(stack) \in Nat /\ Len(stack) > 1 /\ 1 \in 1 .. Len(q)
      /\ caller.todo # << >>
  <2>1. q \in Seq(FrameType)
    BY <1>0, <1>1
  <2>2. Len(q) \in Nat /\ Len(stack) \in Nat /\ Len(q) = Len(stack) - 1 /\ Len(q) # 0
    BY <2>1, <1>0, <1>1, <1>3
  <2>3. Len(stack) > 1 /\ 1 \in 1 .. Len(q)
    <3> DEFINE k == Len(q)
    <3>1. k \in Nat /\ Len(stack) = k + 1 /\ k # 0
      BY <2>2
    <3> HIDE DEF k
    <3>2. Len(stack) > 1 /\ 1 \in 1 .. k
      BY <3>1
    <3> QED
      BY <3>2 DEF k
  <2> QED
    BY <2>1, <2>2, <2>3, <1>3 DEF Called
<1>5. Divides(Unit(caller.node, n), at) /\ AskedOnGrid(q) /\ Divides(grid[caller.node], caller.at)
  <2>1. AskedOnGrid(q)
    BY <1>0, <1>1, TailOnGrid
  <2>2. 1 \in 1 .. Len(stack) /\ 1 < Len(stack) /\ 1 + 1 = 2
    BY <1>4
  <2>3. Divides(Unit(caller.node, n), at)
    BY <2>2, <1>0, <1>1 DEF AskedOnGrid
  <2> QED
    BY <2>1, <2>3, <1>3, <1>4 DEF AskedOnGrid
<1>6. final \in Nat
  <2>1. CASE tree[caller.node].kind = "unrolled"
    <3> DEFINE new == IterationLength(caller.node, len)
    <3>1. new \in Int /\ new >= len
      BY <2>1, <1>3
    <3> HIDE DEF new
    <3>2. Adjusted(n, len, new) \in Nat
      BY <3>1, <1>0, <1>1, AdjustedLength
    <3> QED
      BY <3>2, <2>1 DEF new
  <2>2. CASE tree[caller.node].kind # "unrolled"
    BY <2>2
  <2> QED
    BY <2>1, <2>2
<1>7. tree[n].kind = "iteration" => Divides(grid[n], len) /\ Divides(grid[n], final)
  <2> SUFFICES ASSUME tree[n].kind = "iteration" PROVE Divides(grid[n], len) /\ Divides(grid[n], final)
    OBVIOUS
  <2>1. Divides(grid[n], len)
    BY <1>1 DEF Regular
  <2>2. CASE tree[caller.node].kind = "unrolled"
    <3> DEFINE new == IterationLength(caller.node, len)
    <3>1. new \in Int
      BY <2>2, <1>3
    <3> HIDE DEF new
    <3>2. Divides(grid[n], Adjusted(n, len, new))
      BY <3>1, <2>1, <1>0, <1>1, AdjustedOnGrid
    <3> QED
      BY <3>2, <2>1, <2>2 DEF new
  <2>3. CASE tree[caller.node].kind # "unrolled"
    BY <2>1, <2>3
  <2> QED
    BY <2>2, <2>3
<1>8. tree[n].kind # "iteration" => final = len
  <2> SUFFICES ASSUME tree[n].kind # "iteration" PROVE tree[caller.node].kind # "unrolled"
    OBVIOUS
  <2>1. n # 1
    BY <1>0, <1>1, Shape
  <2> QED
    BY <2>1, <1>0, <1>1, <1>3, OnlyIterations
<1>9. place \in Int /\ Divides(Unit(caller.node, n), place)
  BY <1>0, <1>1, <1>3, <1>5, PlacedOnGrid
<1>10. Placed(caller, n, at, final) = place
  BY DEF Placed, RightArranged, Arranged
<1>11. g \in FrameType /\ g.node = caller.node /\ g.at = caller.at /\ g.todo = Tail(caller.todo)
  BY <1>0, <1>3, <1>4, <1>6, <1>9, <1>10, Advanced
<1> HIDE DEF n, at, caller, final, place, g, q
<1>12. AskedOnGrid(r) /\ Pending(q) \subseteq Open(r)
  BY <1>3, <1>4, <1>5, <1>11, CallersOnGrid, StillOpen
<1> HIDE DEF r
<1>13. placed \in [Nodes -> Int] /\ StartsOnGrid(placed)
  <2>1. placed \in [Nodes -> Int] /\ placed[n] = place /\ \A m \in Nodes \ {n} : placed[m] = st[m]
    BY <1>1, <1>9
  <2> HIDE DEF placed
  <2>2. ASSUME NEW p \in Nodes, NEW b \in Children(p) PROVE Divides(Unit(p, b), placed[b])
    <3>1. b \in Nodes /\ Parent(b) = p
      BY <1>0, Families
    <3>2. CASE b = n
      BY <3>1, <3>2, <2>1, <1>3, <1>9
    <3>3. CASE b # n
      BY <3>1, <3>3, <2>1 DEF StartsOnGrid
    <3> QED
      BY <3>2, <3>3
  <2> QED
    BY <2>1, <2>2 DEF StartsOnGrid
<1> HIDE DEF placed
<1>14. StartsOnGrid(starts)
  <2> DEFINE by == final - len
  <2>1. by \in Int /\ (by = 0 \/ Divides(grid[n], by))
    <3>1. CASE tree[n].kind = "iteration"
      <4>1. grid[n] \in Int
        BY <1>0, <1>1, Facts
      <4> QED
        BY <4>1, <3>1, <1>6, <1>7, DividesSums
    <3>2. CASE tree[n].kind # "iteration"
      BY <3>2, <1>6, <1>8
    <3> QED
      BY <3>1, <3>2
  <2> HIDE DEF by
  <2>2. StartsOnGrid(Moved(placed, n, by))
    BY <2>1, <1>0, <1>1, <1>13, MovedOnGrid
  <2> QED
    BY <2>2 DEF by
<1> HIDE DEF starts
<1>15. lengths[n] = final /\ \A m \in Nodes \ {n} : lengths[m] = ln[m]
  BY <1>1
<1> HIDE DEF lengths
<1>16. ASSUME NEW p \in Nodes \ Open(r) PROVE Regular(p, lengths)
  <2>1. CASE p = n
    <3>1. \A b \in Children(n) : b \in Nodes \ {n}
      <4>1. \A b \in Children(n) : b \in Nodes /\ n < b
        BY <1>0, <1>1, Families
      <4>2. n \in Int
        BY <1>0, <1>1, Shape
      <4> QED
        BY <4>1, <4>2
    <3>2. \A b \in Children(n) : lengths[b] = ln[b] /\ [ln EXCEPT ![n] = len][b] = ln[b]
      BY <3>1, <1>15
    <3>3. Regular(n, [ln EXCEPT ![n] = len])
      BY DEF n
    <3>4. Regular(n, lengths)
      BY <3>2, <3>3, <1>7, <1>15 DEF Regular
    <3> QED
      BY <3>4, <2>1
  <2>2. CASE p # n
    <3>1. p \notin Pending(q)
      BY <1>12
    <3>2. p \notin Open(stack)
      BY <3>1, <2>2, <1>3
    <3>3. n \notin Children(p)
      <4>1. caller.node \in Pending(q)
        BY <1>3, <1>4 DEF Pending
      <4> QED
        BY <3>1, <4>1, <1>0, <1>3, Families
    <3>4. \A b \in Children(p) : lengths[b] = ln[b]
      <4>1. \A b \in Children(p) : b \in Nodes
        BY <1>0, Shape
      <4> QED
        BY <4>1, <3>3, <1>15
    <3>5. Regular(p, ln) /\ lengths[p] = ln[p]
      BY <3>2, <2>2, <1>15
    <3> QED
      BY <3>4, <3>5 DEF Regular
  <2> QED
    BY <2>1, <2>2
<1>17. stack' = r
  BY <1>2, <1>3 DEF r, g
<1> QED
  BY <1>2, <1>12, <1>14, <1>16, <1>17, GridContinues

LEMMA RefusedOnGrid ==
  ASSUME Inv, OnGrid, Refuse
  PROVE  OnGrid'
<1>1. UNCHANGED built /\ start' = start /\ length' = length /\ stack' = stack
  BY DEF Refuse
<1> QED
  BY <1>1, GridContinues DEF OnGrid

LEMMA SectionOnGrid ==
  ASSUME Inv, OnGrid, LeaveSection
  PROVE  OnGrid'
<1> DEFINE n == Top.node
           C == Children(n)
           first == FirstOf(n)
           arranged == [m \in Nodes |-> IF m \in C THEN start[m] - first ELSE start[m]]
           content == ContentLength(n, arranged, length)
           len == LengthOf(n, content)
           by == len - content
           st == Moved(arranged, n, by)
           refused == \/ TooLong(n, content)
                      \/ tree[Parent(n)].kind = "unrolled" /\ TooSlow(Parent(n), len)
<1>1. /\ outcome = "running" /\ Top.todo = << >> /\ tree[n].kind \in Arranged \cup {"match"}
      /\ IF refused THEN Refuse ELSE Return(len, st, length)
  BY DEF LeaveSection, Leaving, FirstOf
<1>2. CASE refused
  BY <1>1, <1>2, RefusedOnGrid
<1>3. CASE ~refused
  <2>0. Built /\ StartsOnGrid(start)
    BY DEF Inv, OnGrid
  <2>1. /\ n \in Nodes /\ tree \in Experiments
        /\ start \in [Nodes -> Int] /\ length \in [Nodes -> Nat \cup {None}]
        /\ \A c \in C : length[c] \in Nat
        /\ ~RightArranged(n) => \A c \in C : start[c] >= 0
    BY <1>1, AllPlaced
  <2>2. C \subseteq Nodes
    BY <2>1, Shape
  <2>3. first \in Int /\ Divides(grid[n], first)
    BY <2>0, <2>1, First
  <2> HIDE DEF first
  <2>4. arranged \in [Nodes -> Int]
    BY <2>1, <2>3
  <2>5. StartsOnGrid(arranged)
    <3> SUFFICES ASSUME NEW p \in Nodes, NEW b \in Children(p) PROVE Divides(Unit(p, b), arranged[b])
      BY DEF StartsOnGrid
    <3> DEFINE u == Unit(p, b)
    <3>1. b \in Nodes /\ Parent(b) = p /\ start[b] \in Int
      BY <2>1, Families
    <3>2. Divides(u, start[b]) /\ u \in Int /\ Divides(u, grid[p]) /\ grid[p] \in Int
      BY <2>0, Units, Facts DEF StartsOnGrid
    <3>3. CASE b \in C
      <4>1. p = n
        BY <3>1, <3>3, <2>1, Families
      <4> HIDE DEF u
      <4>2. Divides(u, first)
        BY <4>1, <3>2, <2>3, DividesTransitive
      <4>3. Divides(u, start[b] - first)
        BY <4>2, <3>1, <3>2, <2>3, DividesSums
      <4> QED
        BY <4>3, <3>1, <3>3 DEF u
    <3>4. CASE b \notin C
      BY <3>1, <3>2, <3>4
    <3> QED
      BY <3>3, <3>4
  <2>6. \A c \in C : arranged[c] \in Int
    BY <2>2, <2>4
  <2> HIDE DEF arranged
  <2>7. content \in Nat /\ Divides(grid[n], content)
    BY <2>0, <2>1, <2>6, Content
  <2> HIDE DEF content
  <2>8. len \in Nat /\ Divides(grid[n], len)
    BY <1>3, <2>0, <2>1, <2>7, LongEnough
  <2> HIDE DEF len
  <2>9. by \in Int /\ Divides(grid[n], by)
    <3> DEFINE g == grid[n]
    <3>1. g \in Int
      BY <2>0, <2>1, Facts
    <3>2. content \in Int /\ len \in Int /\ Divides(g, content) /\ Divides(g, len)
      BY <2>7, <2>8
    <3> HIDE DEF g
    <3>3. len - content \in Int /\ Divides(g, len - content)
      BY <3>1, <3>2, DividesSums
    <3> QED
      BY <3>3 DEF g
  <2> HIDE DEF by
  <2>10. st \in [Nodes -> Int] /\ StartsOnGrid(st)
    <3>1. st \in [Nodes -> Int]
      BY <2>4, <2>9 DEF Moved
    <3> QED
      BY <3>1, <2>0, <2>1, <2>4, <2>5, <2>9, MovedOnGrid
  <2> HIDE DEF st, C
  <2>11. Regular(n, [length EXCEPT ![n] = len])
    <3>1. tree[n].kind # "compressed"
      BY <1>1 DEF Arranged
    <3> QED
      BY <3>1, <2>1, <2>8 DEF Regular
  <2>12. \A p \in Nodes \ Open(stack) : Regular(p, length)
    BY DEF OnGrid
  <2>13. tree[n].kind # "root"
    BY <1>1 DEF Arranged
  <2>14. tree[Parent(n)].kind = "unrolled" =>
           IterationLength(Parent(n), len) \in Int /\ IterationLength(Parent(n), len) >= len
    <3>1. n # 1
      BY <2>1, <2>13, Shape
    <3>2. Parent(n) \in Nodes
      BY <3>1, <2>1, Families
    <3> QED
      BY <3>2, <1>3, <2>0, <2>8, Iterated
  <2>15. Return(len, st, length)
    BY <1>1, <1>3
  <2> QED
    BY <1>1, <2>1, <2>8, <2>10, <2>11, <2>12, <2>13, <2>14, <2>15, ReturnedOnGrid
<1> QED
  BY <1>2, <1>3

\* The iterations of an unrolled loop once their lengths are known.
LEMMA IterationsOnGrid ==
  ASSUME Inv, OnGrid, outcome = "running", Top.todo = << >>, tree[Top.node].kind = "unrolled"
  PROVE  \A c \in Children(Top.node) :
           /\ c \in Nodes /\ tree[c].kind = "iteration" /\ length[c] \in Nat
           /\ grid[c] \in Nat \ {0} /\ grid[Top.node] \in Nat \ {0}
           /\ Divides(grid[c], grid[Top.node]) /\ Divides(grid[c], length[c])
<1> DEFINE n == Top.node
<1> SUFFICES ASSUME NEW c \in Children(n)
             PROVE  /\ c \in Nodes /\ tree[c].kind = "iteration" /\ length[c] \in Nat
                    /\ grid[c] \in Nat \ {0} /\ grid[n] \in Nat \ {0}
                    /\ Divides(grid[c], grid[n]) /\ Divides(grid[c], length[c])
  OBVIOUS
<1>0. Built
  BY DEF Inv
<1>1. /\ n \in Nodes /\ tree \in Experiments
      /\ \A b \in Children(n) : length[b] \in Nat
      /\ \A p \in Below(n) \ {n} : p \notin Open(stack)
  BY AllPlaced
<1>2. c \in Nodes /\ n < c /\ c \in Below(n)
  BY <1>1, Families, BelowContains, BelowWays
<1>3. tree[c].kind = "iteration"
  BY <1>1, KindAssumption DEF Nodes, Children
<1>4. c \notin Open(stack)
  <2>1. n \in Int /\ c \in Int
    BY <1>1, <1>2, Shape
  <2>2. c # n
    BY <2>1, <1>2
  <2> QED
    BY <2>2, <1>1, <1>2
<1>5. Divides(grid[c], length[c])
  BY <1>2, <1>3, <1>4 DEF OnGrid, Regular
<1> QED
  BY <1>0, <1>1, <1>2, <1>3, <1>5, Facts

LEMMA DividesProduct ==
  ASSUME NEW a \in Int, NEW b \in Int, NEW k \in Int, Divides(a, b)
  PROVE  Divides(a, b * k) /\ b * k \in Int
<1>1. PICK l \in Int : b = a * l
  BY DEF Divides
<1>2. b * k = a * (l * k) /\ l * k \in Int
  BY <1>1
<1> QED
  BY <1>2 DEF Divides

LEMMA UnrolledOnGrid ==
  ASSUME Inv, OnGrid, LeaveUnrolled
  PROVE  OnGrid'
<1> DEFINE n == Top.node
           C == Children(n)
           longest == Max({0} \cup {ceil_to_grid(length[c], grid[n]) : c \in C})
           auto == tree[n].mode = "AUTO"
           lengths == [m \in Nodes |-> IF auto /\ m \in C
                                       THEN Adjusted(m, length[m], longest) ELSE length[m]]
           starts == [m \in Nodes |->
                        IF ~auto \/ m \notin Below(n) \ {n} THEN start[m]
                        ELSE IF m \in C THEN longest * (Index(n, m) - 1)
                        ELSE IF Parent(m) \in C /\ tree[Parent(m)].right
                             THEN start[m] + lengths[Parent(m)] - length[Parent(m)] ELSE start[m]]
           content == ContentLength(n, starts, lengths)
           len == LengthOf(n, content)
           by == len - content
           st == Moved(starts, n, by)
<1>1. /\ outcome = "running" /\ Top.todo = << >> /\ tree[n].kind = "unrolled"
      /\ IF TooLong(n, content) THEN Refuse ELSE Return(len, st, lengths)
  BY DEF LeaveUnrolled, Leaving
<1>2. CASE TooLong(n, content)
  BY <1>1, <1>2, RefusedOnGrid
<1>3. CASE ~TooLong(n, content)
  <2>0. Built /\ StartsOnGrid(start)
    BY DEF Inv, OnGrid
  <2>1. /\ n \in Nodes /\ tree \in Experiments
        /\ start \in [Nodes -> Int] /\ length \in [Nodes -> Nat \cup {None}]
    BY <1>1, AllPlaced
  <2>2. \A c \in C :
          /\ c \in Nodes /\ tree[c].kind = "iteration" /\ length[c] \in Nat
          /\ grid[c] \in Nat \ {0} /\ grid[n] \in Nat \ {0}
          /\ Divides(grid[c], grid[n]) /\ Divides(grid[c], length[c])
    BY <1>1, IterationsOnGrid
  <2>3. /\ longest \in Nat /\ Divides(grid[n], longest)
        /\ \A c \in C : Adjusted(c, length[c], longest) = longest
    BY <1>1, <2>0, <2>1, <2>2, LongestIteration
  <2> HIDE DEF longest
  <2>4. \A c \in C : Divides(grid[c], longest)
    <3> SUFFICES ASSUME NEW c \in C PROVE Divides(grid[c], longest)
      OBVIOUS
    <3>1. grid[c] \in Int /\ grid[n] \in Int /\ longest \in Int
      BY <2>2, <2>3
    <3> QED
      BY <3>1, <2>2, <2>3, DividesTransitive
  <2>5. \A m \in Nodes : lengths[m] = IF auto /\ m \in C THEN longest ELSE length[m]
    BY <2>3
  <2>6. lengths \in [Nodes -> Nat \cup {None}] /\ \A c \in C : lengths[c] \in Nat /\ Divides(grid[c], lengths[c])
    <3>1. \A m \in Nodes : lengths[m] \in Nat \cup {None}
      BY <2>1, <2>3, <2>5
    <3>2. \A c \in C : lengths[c] \in Nat /\ Divides(grid[c], lengths[c])
      BY <2>2, <2>3, <2>4, <2>5
    <3>3. lengths = [m \in Nodes |-> lengths[m]]
      OBVIOUS
    <3> HIDE DEF lengths
    <3> QED
      BY <3>1, <3>2, <3>3
  <2> HIDE DEF lengths
  <2>7. ASSUME NEW m \in Nodes
        PROVE  /\ starts[m] \in Int
               /\ \A p \in Nodes : m \in Children(p) => Divides(Unit(p, m), starts[m])
    <3>1. CASE ~auto \/ m \notin Below(n) \ {n}
      BY <3>1, <2>0, <2>1 DEF StartsOnGrid
    <3>2. CASE auto /\ m \in Below(n) \ {n} /\ m \in C
      <4> DEFINE k == Index(n, m) - 1
                 v == longest * k
      <4>1. k \in Int
        BY <3>2, <2>1, Indices
      <4>2. starts[m] = v
        BY <3>2
      <4> HIDE DEF k
      <4>3. v \in Int /\ Divides(grid[n], v)
        <5>1. longest \in Int /\ grid[n] \in Int
          BY <3>2, <2>2, <2>3
        <5> QED
          BY <5>1, <4>1, <2>3, DividesProduct
      <4> HIDE DEF v, starts
      <4>4. ASSUME NEW p \in Nodes, m \in Children(p) PROVE Divides(Unit(p, m), starts[m])
        <5>1. p = n
          BY <3>2, <4>4, <2>1, Families
        <5> QED
          BY <5>1, <4>2, <4>3, <1>1 DEF Unit
      <4> QED
        BY <4>2, <4>3, <4>4
    <3>3. CASE auto /\ m \in Below(n) \ {n} /\ m \notin C
      <4>1. CASE ~(Parent(m) \in C /\ tree[Parent(m)].right)
        BY <3>3, <4>1, <2>0, <2>1 DEF StartsOnGrid
      <4>2. CASE Parent(m) \in C /\ tree[Parent(m)].right
        <5> DEFINE a == start[m]
                   b == lengths[Parent(m)]
                   d == length[Parent(m)]
                   g == grid[Parent(m)]
                   e == a + b - d
        <5>1. starts[m] = e
          BY <3>3, <4>2
        <5>2. a \in Int /\ b \in Int /\ d \in Int /\ g \in Int /\ Divides(g, b) /\ Divides(g, d)
              /\ Parent(m) \in Nodes
          BY <4>2, <2>1, <2>2, <2>6
        <5> HIDE DEF starts
        <5>3. ASSUME NEW p \in Nodes, m \in Children(p) PROVE Divides(Unit(p, m), starts[m])
          <6> DEFINE u == Unit(p, m)
          <6>1. p = Parent(m)
            BY <5>3, <2>1, Families
          <6>2. u \in Int /\ Divides(u, g) /\ Divides(u, a)
            BY <5>3, <6>1, <2>0, Units DEF StartsOnGrid
          <6> HIDE DEF u, a, b, d, g
          <6>3. Divides(u, b) /\ Divides(u, d)
            BY <5>2, <6>2, DividesTransitive
          <6>4. Divides(u, b - d) /\ b - d \in Int
            BY <5>2, <6>2, <6>3, DividesSums
          <6>5. Divides(u, e)
            BY <5>2, <6>2, <6>3, <6>4, DividesSums
          <6> HIDE DEF e
          <6> QED
            BY <6>5, <5>1 DEF u
        <5> HIDE DEF a, b, d
        <5>4. e \in Int
          BY <5>2
        <5>5. starts[m] \in Int
          BY <5>1, <5>4
        <5> QED
          BY <5>3, <5>5
      <4> QED
        BY <4>1, <4>2
    <3> QED
      BY <3>1, <3>2, <3>3
  <2>8. starts \in [Nodes -> Int] /\ StartsOnGrid(starts)
    <3>1. starts = [m \in Nodes |-> starts[m]]
      OBVIOUS
    <3> HIDE DEF starts
    <3>2. starts \in [Nodes -> Int]
      BY <3>1, <2>7
    <3> QED
      BY <3>2, <2>1, <2>7, Shape DEF StartsOnGrid
  <2> HIDE DEF starts
  <2>9. content \in Nat /\ Divides(grid[n], content)
    <3>1. \A c \in C : lengths[c] \in Nat /\ starts[c] \in Int
      BY <2>2, <2>6, <2>8
    <3> QED
      BY <3>1, <2>0, <2>1, Content
  <2> HIDE DEF content
  <2>10. len \in Nat /\ Divides(grid[n], len)
    BY <1>3, <2>0, <2>1, <2>9, LongEnough
  <2> HIDE DEF len
  <2>11. by \in Int /\ Divides(grid[n], by)
    <3> DEFINE g == grid[n]
    <3>1. g \in Int
      BY <2>0, <2>1, Facts
    <3>2. content \in Int /\ len \in Int /\ Divides(g, content) /\ Divides(g, len)
      BY <2>9, <2>10
    <3> HIDE DEF g
    <3>3. len - content \in Int /\ Divides(g, len - content)
      BY <3>1, <3>2, DividesSums
    <3> QED
      BY <3>3 DEF g
  <2> HIDE DEF by
  <2>12. st \in [Nodes -> Int] /\ StartsOnGrid(st)
    <3>1. st \in [Nodes -> Int]
      BY <2>8, <2>11 DEF Moved
    <3> QED
      BY <3>1, <2>0, <2>1, <2>8, <2>11, MovedOnGrid
  <2> HIDE DEF st
  <2>13. Regular(n, [lengths EXCEPT ![n] = len])
    BY <1>1 DEF Regular
  <2>14. ASSUME NEW p \in Nodes \ Open(stack) PROVE Regular(p, lengths)
    <3>1. Regular(p, length)
      BY DEF OnGrid
    <3>2. CASE p \in C
      <4>1. tree[p].kind = "iteration"
        BY <3>2, <2>2
      <4> QED
        BY <4>1, <3>2, <2>6 DEF Regular
    <3>3. CASE p \notin C
      <4>1. lengths[p] = length[p]
        BY <3>3, <2>5
      <4>2. ASSUME tree[p].kind = "compressed", NEW b \in Children(p) PROVE lengths[b] = length[b]
        <5>1. b \in Nodes /\ Parent(b) = p
          BY <2>1, Families
        <5>2. b \notin C
          BY <5>1, <4>2, <1>1, <2>1, Families
        <5> QED
          BY <5>1, <5>2, <2>5
      <4> QED
        BY <4>1, <4>2, <3>1 DEF Regular
    <3> QED
      BY <3>2, <3>3
  <2>15. tree[n].kind # "root" /\ tree[n].kind # "iteration"
    BY <1>1
  <2>16. tree[Parent(n)].kind # "unrolled"
    BY <2>1, <2>15, Shape, OnlyIterations
  <2>17. Return(len, st, lengths)
    BY <1>1, <1>3
  <2> HIDE DEF C
  <2> QED
    BY <1>1, <2>6, <2>10, <2>12, <2>13, <2>14, <2>15, <2>16, <2>17, ReturnedOnGrid
<1> QED
  BY <1>2, <1>3

LEMMA CompressedOnGrid ==
  ASSUME Inv, OnGrid, AutoHasNoTime, LeaveCompressed
  PROVE  OnGrid'
<1> DEFINE n == Top.node
           c == tree[n].children[1]
           one == CompressedLength(n, length[c])
           iteration == Adjusted(c, length[c], one)
           by == iteration - length[c]
           st == Moved(start, c, by)
           ln == [length EXCEPT ![c] = iteration]
           len == one * tree[n].count
<1>1. /\ outcome = "running" /\ Top.todo = << >> /\ tree[n].kind = "compressed"
      /\ IF TooSlow(n, length[c]) THEN Refuse ELSE Return(len, st, ln)
  BY DEF LeaveCompressed, Leaving
<1>2. CASE TooSlow(n, length[c])
  BY <1>1, <1>2, RefusedOnGrid
<1>3. CASE ~TooSlow(n, length[c])
  <2>0. Built /\ StartsOnGrid(start)
    BY DEF Inv, OnGrid
  <2>1. /\ stack # << >> /\ n \in Nodes /\ tree \in Experiments
        /\ start \in [Nodes -> Int] /\ length \in [Nodes -> Nat \cup {None}]
        /\ \A b \in Children(n) : length[b] \in Nat
        /\ \A b \in Below(n) \ {n} : b \notin Open(stack)
    BY <1>1, AllPlaced
  <2>2. Children(n) = {c} /\ c \in Nodes /\ c # n /\ tree[n].count \in Nat /\ tree[n].count > 1
    <3>1. Len(tree[n].children) = 1 /\ tree[n].count > 1
      BY <1>1, <2>1, KindAssumption DEF Nodes
    <3>2. Children(n) = {tree[n].children[i] : i \in 1 .. 1}
      BY <3>1, <2>1, Indices
    <3>3. Children(n) = {c}
      BY <3>2
    <3>4. c \in Nodes /\ n < c /\ n \in Nat
      BY <3>3, <2>1, Shape
    <3>5. tree[n].count \in Nat
      BY <2>1, Shape DEF NodeType
    <3> HIDE DEF c, n
    <3>6. c # n
      BY <3>4
    <3> QED
      BY <3>1, <3>3, <3>4, <3>5, <3>6 DEF n
  <2> HIDE DEF c
  <2>3. tree[c].kind = "iteration"
    <3>1. c \in Children(n) /\ tree[n].kind = "compressed"
      BY <1>1, <2>2
    <3> HIDE DEF n
    <3> QED
      BY <3>1, <2>1, KindAssumption DEF Nodes, Children
  <2>4. length[c] \in Nat /\ Divides(grid[c], length[c])
    <3>1. c \in Below(n)
      BY <2>1, <2>2, BelowWays
    <3>2. c \notin Open(stack)
      BY <3>1, <2>1, <2>2
    <3>3. Regular(c, length)
      BY <3>2, <2>2 DEF OnGrid
    <3> QED
      BY <3>3, <2>1, <2>2, <2>3 DEF Regular
  <2>5. /\ one \in Nat /\ iteration = one
        /\ Divides(Lcm(grid[n], loopGrid[n]), one)
    BY <1>1, <1>3, <2>0, <2>1, <2>2, <2>4, Repetition
  <2> HIDE DEF one, iteration
  <2>6. Divides(grid[c], iteration)
    <3> DEFINE g == grid[n]
               h == loopGrid[n]
               both == Lcm(g, h)
               a == grid[c]
    <3>1. g \in Nat \ {0} /\ h \in Nat \ {0} /\ a \in Nat \ {0} /\ Divides(a, g)
      BY <2>0, <2>1, <2>2, Facts
    <3>2. Divides(both, one)
      BY <2>5
    <3> HIDE DEF g, h, a
    <3>3. both \in Nat \ {0} /\ Divides(g, both)
      BY <3>1, LcmOfTwo
    <3> HIDE DEF both
    <3>4. a \in Int /\ g \in Int /\ both \in Int /\ one \in Int
      BY <3>1, <3>3, <2>5
    <3>5. Divides(a, both)
      BY <3>1, <3>3, <3>4, DividesTransitive
    <3>6. Divides(a, one)
      BY <3>2, <3>4, <3>5, DividesTransitive
    <3> QED
      BY <3>6, <2>5 DEF a
  <2>7. by \in Int /\ Divides(grid[c], by)
    <3> DEFINE g == grid[c]
               l == length[c]
    <3>1. g \in Int
      BY <2>0, <2>2, Facts
    <3>2. iteration \in Int /\ l \in Int /\ Divides(g, iteration) /\ Divides(g, l)
      BY <2>4, <2>5, <2>6
    <3> HIDE DEF g, l
    <3>3. iteration - l \in Int /\ Divides(g, iteration - l)
      BY <3>1, <3>2, DividesSums
    <3> QED
      BY <3>3 DEF g, l
  <2> HIDE DEF by
  <2>8. st \in [Nodes -> Int] /\ StartsOnGrid(st)
    <3>1. st \in [Nodes -> Int]
      BY <2>1, <2>7 DEF Moved
    <3> QED
      BY <3>1, <2>0, <2>1, <2>2, <2>7, MovedOnGrid
  <2> HIDE DEF st
  <2>9. /\ ln \in [Nodes -> Nat \cup {None}] /\ ln[c] = iteration
        /\ \A m \in Nodes \ {c} : ln[m] = length[m]
    BY <2>1, <2>2, <2>5
  <2> HIDE DEF ln
  <2>10. len \in Nat
    BY <2>2, <2>5, Repeated
  <2> HIDE DEF len
  <2>11. Regular(n, [ln EXCEPT ![n] = len])
    <3>1. [ln EXCEPT ![n] = len][c] = one
      BY <2>1, <2>2, <2>5, <2>9
    <3> QED
      BY <3>1, <1>1, <2>2, <2>5 DEF Regular
  <2>12. n \in Open(stack)
    <3>1. Calling(stack, start, length)
      BY DEF Inv, Calls
    <3>2. Top = stack[1] /\ 1 \in 1 .. Len(stack)
      BY <3>1, <2>1, StackIs
    <3> QED
      BY <3>2, <2>1 DEF Open
  <2>13. ASSUME NEW p \in Nodes \ Open(stack) PROVE Regular(p, ln)
    <3>1. Regular(p, length)
      BY DEF OnGrid
    <3>2. CASE p = c
      BY <3>2, <2>3, <2>6, <2>9 DEF Regular
    <3>3. CASE p # c
      <4>1. ln[p] = length[p]
        BY <3>3, <2>9
      <4>2. ASSUME NEW b \in Children(p) PROVE ln[b] = length[b]
        <5>1. b \in Nodes /\ Parent(b) = p
          BY <2>1, Families
        <5>2. Parent(c) = n
          BY <2>1, <2>2, Families
        <5>3. b # c
          BY <5>1, <5>2, <2>12
        <5> QED
          BY <5>1, <5>3, <2>9
      <4> QED
        BY <4>1, <4>2, <3>1 DEF Regular
    <3> QED
      BY <3>2, <3>3
  <2>14. tree[n].kind # "root" /\ tree[n].kind # "iteration"
    BY <1>1
  <2>15. tree[Parent(n)].kind # "unrolled"
    BY <2>1, <2>14, Shape, OnlyIterations
  <2>16. Return(len, st, ln)
    BY <1>1, <1>3
  <2> QED
    BY <1>1, <2>8, <2>9, <2>10, <2>11, <2>13, <2>14, <2>15, <2>16, ReturnedOnGrid
<1> QED
  BY <1>2, <1>3

LEMMA RootOnGrid ==
  ASSUME Inv, OnGrid, LeaveRoot
  PROVE  OnGrid'
<1> DEFINE size == ContentLength(1, start, length)
           ln == [length EXCEPT ![1] = size]
<1>1. /\ outcome = "running" /\ Top.todo = << >> /\ tree[Top.node].kind = "root"
      /\ length' = ln /\ stack' = << >> /\ UNCHANGED built /\ start' = start
  BY DEF LeaveRoot, Leaving
<1>2. /\ Top.node = 1 /\ 1 \in Nodes /\ tree \in Experiments
      /\ length \in [Nodes -> Nat \cup {None}]
      /\ \A p \in Below(1) \ {1} : p \notin Open(stack)
  <2>1. Top.node \in Nodes /\ Top.node = 1 /\ tree \in Experiments
    BY <1>1, AllPlaced, Shape
  <2> QED
    BY <2>1, <1>1, AllPlaced
<1> HIDE DEF size
<1>3. \A m \in Nodes \ {1} : ln[m] = length[m]
  BY <1>2
<1> HIDE DEF ln
<1>4. ASSUME NEW p \in Nodes PROVE Regular(p, ln)
  <2>1. CASE p = 1
    <3>1. tree[p].kind = "root"
      BY <2>1, <1>2, Shape
    <3> QED
      BY <3>1 DEF Regular
  <2>2. CASE p # 1
    <3>1. Regular(p, length)
      BY <2>2, <1>2, Everything DEF OnGrid
    <3>2. \A b \in Children(p) : b \in Nodes \ {1}
      BY <1>2, Families
    <3> QED
      BY <3>1, <3>2, <2>2, <1>3 DEF Regular
  <2> QED
    BY <2>1, <2>2
<1>5. AskedOnGrid(<< >>)
  BY DEF AskedOnGrid
<1>6. StartsOnGrid(start)
  BY DEF OnGrid
<1>7. StartsOnGrid(start') /\ (\A p \in Nodes \ Open(stack') : Regular(p, length')) /\ AskedOnGrid(stack')
  BY <1>1, <1>4, <1>5, <1>6
<1> QED
  BY <1>1, <1>7, GridContinues

LEMMA GridInvariance ==
  ASSUME AutoHasNoTime
  PROVE  Spec => [](Inv /\ OnGrid)
<1>1. Init => Inv /\ OnGrid
  BY Starts
<1>2. Inv /\ OnGrid /\ [Next]_vars => OnGrid'
  <2> SUFFICES ASSUME Inv, OnGrid, [Next]_vars PROVE OnGrid'
    OBVIOUS
  <2>1. CASE RefuseChild
    BY <2>1, RefusedOnGrid DEF RefuseChild
  <2>2. CASE VisitLeaf
    BY <2>2, LeafOnGrid
  <2>3. CASE VisitBranch
    BY <2>3, BranchOnGrid
  <2>4. CASE LeaveSection
    BY <2>4, SectionOnGrid
  <2>5. CASE LeaveUnrolled
    BY <2>5, UnrolledOnGrid
  <2>6. CASE LeaveCompressed
    BY <2>6, CompressedOnGrid
  <2>7. CASE LeaveRoot
    BY <2>7, RootOnGrid
  <2>8. CASE UNCHANGED vars
    <3>1. UNCHANGED built /\ start' = start /\ length' = length /\ stack' = stack
      BY <2>8 DEF vars
    <3> QED
      BY <3>1, GridContinues DEF OnGrid
  <2> QED
    BY <2>1, <2>2, <2>3, <2>4, <2>5, <2>6, <2>7, <2>8 DEF Next
<1>3. Spec => []Inv
  BY Invariance
<1> QED
  BY <1>1, <1>2, <1>3, PTL DEF Spec

-----------------------------------------------------------------------------
(* The absolute starts the nodes are told.                                 *)

\* What holds for n and, with a node, for its children, holds below n.
LEMMA DownFrom ==
  ASSUME tree \in Experiments, NEW n \in Nodes, NEW S \in SUBSET Nodes, n \in S,
         \A p \in S \cap Below(n) : Children(p) \subseteq S
  PROVE  Below(n) \subseteq S
<1> DEFINE Bad == Below(n) \ S
<1>1. Below(n) \subseteq Nodes
  BY BelowIs
<1> SUFFICES ASSUME Bad # {} PROVE FALSE
  OBVIOUS
<1>2. PICK m \in Bad : \A k \in Bad : m <= k
  <2>1. Bad \in SUBSET Nat
    BY <1>1, Shape
  <2> HIDE DEF Bad
  <2> QED
    BY <2>1, Least
<1>3. m \in Nodes /\ m # 1 /\ Parent(m) \in Below(n)
  BY <1>2, BelowIsLater
<1>4. Parent(m) \in Nodes /\ m \in Children(Parent(m)) /\ Parent(m) < m
  BY <1>3, Families
<1>5. Parent(m) \in S
  <2>1. Parent(m) \in Int /\ m \in Int
    BY <1>3, <1>4, Shape
  <2>2. ~(m <= Parent(m))
    BY <2>1, <1>4
  <2> QED
    BY <2>2, <1>2, <1>3
<1> QED
  BY <1>2, <1>3, <1>4, <1>5

MovesChildren(n) == RightArranged(n) \/ (tree[n].kind = "unrolled" /\ tree[n].mode = "AUTO")

LEMMA MayMoveChild ==
  ASSUME tree \in Experiments, NEW n \in Nodes, NEW c \in Children(n)
  PROVE  MayMove(c) <=> MayMove(n) \/ MovesChildren(n)
<1>1. c \in Nodes /\ c # 1 /\ Parent(c) = n /\ n < c /\ n \in Int /\ c \in Int
  BY Families, Shape
<1>2. ASSUME NEW a \in Nodes PROVE c \in Below(a) \ {a} <=> (a = n \/ n \in Below(a) \ {a})
  <2>1. ASSUME c \in Below(a) \ {a} PROVE a = n \/ n \in Below(a) \ {a}
    BY <2>1, <1>1, BelowIsLater
  <2>2. ASSUME a = n PROVE c \in Below(a) \ {a}
    <3>1. c \in Below(c) /\ Below(c) \subseteq Below(n)
      BY <1>1, BelowWays
    <3> QED
      BY <3>1, <2>2, <1>1
  <2>3. ASSUME n \in Below(a) \ {a} PROVE c \in Below(a) \ {a}
    <3>1. Children(n) \subseteq Below(a) /\ n >= a /\ a \in Int
      BY <2>3, BelowContains, BelowIsLater, Shape
    <3> QED
      BY <3>1, <1>1
  <2> QED
    BY <2>1, <2>2, <2>3
<1> QED
  BY <1>2 DEF MayMove, MovesChildren

LEMMA RootStays ==
  ASSUME tree \in Experiments
  PROVE  ~MayMove(1)
<1> SUFFICES ASSUME NEW a \in Nodes, 1 \in Below(a) \ {a} PROVE FALSE
  BY DEF MayMove
<1>1. 1 >= a /\ a \in Nat /\ a >= 1
  BY BelowIsLater, Shape
<1> QED
  BY <1>1

\* Nothing is told below a node whose children have been told nothing.
LEMMA NothingTold ==
  ASSUME tree \in Experiments, NEW n \in Nodes, NEW ab,
         \A p \in Below(n) \ {n} : ab[p] = None => \A c \in Children(p) : ab[c] = None,
         \A c \in Children(n) : ab[c] = None
  PROVE  \A m \in Below(n) \ {n} : ab[m] = None
<1> DEFINE S == {m \in Nodes : m = n \/ ab[m] = None}
<1>1. ASSUME NEW p \in S \cap Below(n) PROVE Children(p) \subseteq S
  <2>1. \A c \in Children(p) : c \in Nodes
    BY Shape
  <2>2. CASE p = n
    BY <2>1, <2>2
  <2>3. CASE p # n
    BY <2>1, <2>3
  <2> QED
    BY <2>2, <2>3
<1>2. Below(n) \subseteq S
  <2>1. S \in SUBSET Nodes /\ n \in S
    OBVIOUS
  <2> HIDE DEF S
  <2> QED
    BY <1>1, <2>1, DownFrom
<1> QED
  BY <1>2

\* Fixing the start of n tells all that is below it where they are.
LEMMA FixedBelow ==
  ASSUME tree \in Experiments, NEW n \in Nodes, NEW at \in Nat, NEW st \in [Nodes -> Int],
         \A p \in Below(n) : \A c \in Children(p) : st[c] >= 0,
         absolute \in [Nodes -> Nat \cup {None}], absolute[n] = None,
         \A c \in Children(n) : absolute[c] # None => absolute[c] = at + st[c],
         \A p \in Below(n) \ {n} : \A c \in Children(p) :
           absolute[c] # None => absolute[p] # None /\ absolute[c] = absolute[p] + st[c]
  PROVE  LET ab == FixedFrom(n, at, st)
         IN  /\ ab[n] = at
             /\ \A p \in Below(n) : ToldBelow(p, st, ab)
             /\ \A m \in Nodes \ Below(n) : ab[m] = absolute[m]
<1> DEFINE pos == PositionsFrom(n, at, st)
           ab == FixedFrom(n, at, st)
           S == {m \in Nodes : m \in Below(n) /\ absolute[m] # None => absolute[m] = pos[m]}
<1>1. /\ pos \in [Below(n) -> Int] /\ pos[n] = at
      /\ \A m \in Below(n) \ {n} : /\ m \in Nodes /\ m # 1 /\ Parent(m) \in Below(n)
                                  /\ pos[m] = pos[Parent(m)] + st[m]
  BY Positions
<1>2. ab = [m \in Nodes |-> IF m \in Below(n) /\ absolute[m] = None THEN pos[m] ELSE absolute[m]]
  BY DEF FixedFrom
<1>3. \A m \in Below(n) : pos[m] \in Nat
  BY LaterPositions
<1> HIDE DEF pos, ab
<1>4. ASSUME NEW p \in Below(n), NEW c \in Children(p)
      PROVE  c \in Nodes /\ c \in Below(n) /\ pos[c] = pos[p] + st[c]
  <2>1. p \in Nodes /\ p >= n /\ p \in Int /\ n \in Int
    BY BelowIsLater, Shape
  <2>2. c \in Nodes /\ Parent(c) = p /\ p < c /\ c \in Int
    BY <2>1, Families, Shape
  <2>3. c \in Below(n)
    BY BelowContains
  <2>4. c # n
    BY <2>1, <2>2
  <2> QED
    BY <2>2, <2>3, <2>4, <1>1
<1>5. ASSUME NEW p \in S \cap Below(n) PROVE Children(p) \subseteq S
  <2> SUFFICES ASSUME NEW c \in Children(p), absolute[c] # None PROVE absolute[c] = pos[c]
    BY <1>4
  <2>1. pos[c] = pos[p] + st[c]
    BY <1>4
  <2>2. CASE p = n
    BY <2>1, <2>2, <1>1
  <2>3. CASE p # n
    BY <2>1, <2>3
  <2> QED
    BY <2>2, <2>3
<1>6. Below(n) \subseteq S
  <2>1. S \in SUBSET Nodes /\ n \in S
    OBVIOUS
  <2> HIDE DEF S
  <2> QED
    BY <1>5, <2>1, DownFrom
<1>7. \A m \in Below(n) : ab[m] = pos[m]
  BY <1>2, <1>6
<1>8. ASSUME NEW p \in Below(n) PROVE ToldBelow(p, st, ab)
  BY <1>3, <1>4, <1>7 DEF ToldBelow, None
<1>9. n \in Below(n)
  BY BelowWays
<1> QED
  BY <1>1, <1>2, <1>7, <1>8, <1>9 DEF ab

LEMMA WereOpen ==
  ASSUME NEW q \in Seq(FrameType), q # << >>
  PROVE  /\ Pending(Tail(q)) \subseteq Open(q) /\ q[1].node \in Open(q)
         /\ q[1].todo # << >> => Pending(q) \subseteq Open(q)
<1> DEFINE r == Tail(q)
           k == Len(q)
<1>1. /\ k \in Nat \ {0} /\ Len(r) = k - 1
      /\ \A i \in 1 .. Len(r) : r[i] = q[i + 1]
  OBVIOUS
<1>2. q[1] \in FrameType /\ q[1].node \in Nodes /\ q[1].todo \in Seq(Nodes)
  <2>1. q[1] \in FrameType
    BY <1>1
  <2> QED
    BY <2>1 DEF FrameType
<1> HIDE DEF r, k
<1>3. q[1].node \in Open(q)
  BY <1>1, <1>2 DEF Open, k
<1>4. ASSUME NEW p \in Pending(r) PROVE p \in Open(q)
  <2>1. p \in Nodes
    BY DEF Pending
  <2>2. PICK i \in 1 .. Len(r) : p = r[i].node \/ \E c \in ToSet(Tail(r[i].todo)) : p \in Below(c)
    BY DEF Pending
  <2>3. i + 1 \in 1 .. k /\ i + 1 # 1 /\ r[i] = q[i + 1]
    BY <1>1, <2>2
  <2> QED
    BY <2>1, <2>2, <2>3 DEF Open, k
<1>5. ASSUME q[1].todo # << >>, NEW p \in Pending(q) PROVE p \in Open(q)
  <2>1. p \in Nodes
    BY DEF Pending
  <2>2. PICK i \in 1 .. k : p = q[i].node \/ \E c \in ToSet(Tail(q[i].todo)) : p \in Below(c)
    BY DEF Pending, k
  <2>3. ToSet(Tail(q[1].todo)) \subseteq ToSet(q[1].todo)
    <3> DEFINE t == q[1].todo
    <3>1. t \in Seq(Nodes) /\ t # << >>
      BY <1>2, <1>5
    <3> HIDE DEF t
    <3>2. \A j \in DOMAIN Tail(t) : j + 1 \in DOMAIN t /\ Tail(t)[j] = t[j + 1]
      BY <3>1
    <3> QED
      BY <3>2 DEF ToSet, t
  <2> QED
    BY <2>1, <2>2, <2>3 DEF Open, k
<1> QED
  BY <1>3, <1>4, <1>5 DEF r

\* After the next child of q has been timed, only what was pending is open.
LEMMA OnlyPending ==
  ASSUME NEW q \in Seq(FrameType), q # << >>, NEW g \in FrameType,
         g.node = q[1].node, g.todo = Tail(q[1].todo)
  PROVE  Open(<<g>> \o Tail(q)) \subseteq Pending(q)
<1> DEFINE r == <<g>> \o Tail(q)
<1>1. /\ Len(r) = Len(q) /\ Len(q) \in Nat \ {0}
      /\ r[1] = g /\ \A i \in 2 .. Len(q) : r[i] = q[i]
  BY NewHead
<1> HIDE DEF r
<1> SUFFICES ASSUME NEW p \in Nodes, NEW i \in 1 .. Len(q),
                    \/ p = r[i].node
                    \/ \E c \in ToSet(IF i = 1 THEN r[i].todo ELSE Tail(r[i].todo)) : p \in Below(c)
             PROVE  p \in Pending(q)
  BY <1>1 DEF Open, r
<1>2. i = 1 \/ i \in 2 .. Len(q)
  BY <1>1
<1>3. r[i].node = q[i].node /\ (IF i = 1 THEN r[i].todo ELSE Tail(r[i].todo)) = Tail(q[i].todo)
  BY <1>1, <1>2
<1> QED
  BY <1>3 DEF Pending

LEMMA OpenBranchOnly ==
  ASSUME tree \in Experiments, stack \in Seq(FrameType), stack # << >>, Top = stack[1],
         Top.node \in Nodes, Progress(Top), Top.todo # << >>,
         NEW c \in Nodes, c = Head(Top.todo),
         NEW g, g.node = c, ToSet(g.todo) = Children(c)
  PROVE  Open(<<g>> \o stack) \subseteq Open(stack)
<1> DEFINE q == <<g>> \o stack
<1>1. /\ Len(stack) \in Nat \ {0} /\ Len(q) = Len(stack) + 1 /\ q[1] = g
      /\ \A i \in 1 .. Len(stack) : q[i + 1] = stack[i]
  OBVIOUS
<1>2. stack[1].todo \in Seq(Nodes)
  <2>1. stack[1] \in FrameType
    BY <1>1
  <2> QED
    BY <2>1 DEF FrameType
<1>3. Pending(stack) \subseteq Open(stack)
  BY WereOpen
<1>4. c \in ToSet(stack[1].todo)
  BY <1>2 DEF ToSet
<1> HIDE DEF q
<1>5. Below(c) \subseteq Open(stack)
  <2>1. Below(c) \subseteq Nodes
    BY BelowIs
  <2> QED
    BY <2>1, <1>1, <1>4 DEF Open
<1> SUFFICES ASSUME NEW p \in Nodes, NEW i \in 1 .. Len(q),
                    \/ p = q[i].node
                    \/ \E b \in ToSet(IF i = 1 THEN q[i].todo ELSE Tail(q[i].todo)) : p \in Below(b)
             PROVE  p \in Open(stack)
  BY DEF Open, q
<1>6. CASE i = 1
  <2>1. p = c \/ \E b \in Children(c) : p \in Below(b)
    BY <1>1, <1>6
  <2> QED
    BY <2>1, <1>5, BelowWays
<1>7. CASE i # 1
  <2> DEFINE j == i - 1
  <2>1. j \in 1 .. Len(stack) /\ i = j + 1
    BY <1>1, <1>7
  <2> HIDE DEF j
  <2>2. q[i] = stack[j]
    BY <2>1, <1>1
  <2>3. p \in Pending(stack)
    BY <2>1, <2>2, <1>7 DEF Pending
  <2> QED
    BY <2>3, <1>3
<1> QED
  BY <1>6, <1>7

\* The calls q, after the next child has been timed: what they told still holds,
\* with starts st and absolute starts ab.
LEMMA ToldNext ==
  ASSUME tree \in Experiments, NEW q, Nested(q), q # << >>, q[1].todo # << >>,
         NEW st, NEW ab,
         \A m \in Nodes \ Below(Head(q[1].todo)) : st[m] = start[m] /\ ab[m] = absolute[m],
         \A i \in 1 .. Len(q) : ToldCall(q[i], start, absolute),
         \A p \in (Nodes \ Pending(q)) \ Below(Head(q[1].todo)) : ToldBelow(p, start, absolute),
         \A p \in Pending(q) : absolute[p] = None,
         \A p \in Below(Head(q[1].todo)) : ToldBelow(p, st, ab),
         ab[Head(q[1].todo)] = IF MayMove(Head(q[1].todo)) THEN None
                               ELSE q[1].at + st[Head(q[1].todo)],
         NEW g \in FrameType, g.node = q[1].node, g.at = q[1].at, g.mayChange = q[1].mayChange,
         g.todo = Tail(q[1].todo)
  PROVE  ToldBy(<<g>> \o Tail(q), st, ab)
<1> DEFINE x == Head(q[1].todo)
           r == <<g>> \o Tail(q)
<1>1. /\ q \in Seq(FrameType) /\ \A i \in 1 .. Len(q) : Progress(q[i])
  BY DEF Nested
<1>2. /\ \A i \in 1 .. Len(q) : /\ q[i].node \in Nodes /\ q[i].node \notin Below(x)
                              /\ \A b \in Visited(q[i]) : b \notin Below(x)
      /\ Below(x) \cap Pending(q) = {}
      /\ x \in Children(q[1].node) /\ x \in Nodes
  BY Path
<1>3. /\ Len(r) = Len(q) /\ Len(q) \in Nat \ {0}
      /\ r[1] = g /\ \A i \in 2 .. Len(q) : r[i] = q[i]
  BY <1>1, NewHead
<1>4. Open(r) = Pending(q)
  BY <1>1, OnlyPending, StillOpen
<1>5. Visited(g) = Visited(q[1]) \cup {x}
  <2> DEFINE f == q[1]
  <2>1. f.node \in Nodes /\ Progress(f) /\ f.todo # << >> /\ g.node = f.node /\ g.todo = Tail(f.todo)
    BY <1>1, <1>2, <1>3
  <2> HIDE DEF f
  <2>2. Visited(g) = Visited(f) \cup {Head(f.todo)}
    BY <2>1, Step
  <2> QED
    BY <2>2 DEF f
<1>6. Below(x) \subseteq Nodes
  BY <1>2, BelowIs
<1> HIDE DEF x, r
<1>7. ASSUME NEW i \in 1 .. Len(q), NEW b \in Visited(q[i])
      PROVE  ab[b] = IF MayMove(b) THEN None ELSE q[i].at + st[b]
  <2>1. b \in Nodes \ Below(x)
    <3>1. b \in Children(q[i].node)
      BY DEF Visited
    <3> QED
      BY <3>1, <1>2, Shape
  <2> QED
    BY <2>1 DEF ToldCall, x
<1>8. ASSUME NEW i \in 1 .. Len(q) PROVE ToldCall(r[i], st, ab)
  <2>0. (q[i].mayChange <=> MayMove(q[i].node)) /\ (q[i].node = 1 => q[i].at = 0)
    BY DEF ToldCall
  <2>1. CASE i = 1
    <3>1. \A b \in Visited(g) : ab[b] = IF MayMove(b) THEN None ELSE g.at + st[b]
      BY <2>1, <1>3, <1>5, <1>7 DEF x
    <3> QED
      BY <3>1, <2>0, <2>1, <1>3 DEF ToldCall
  <2>2. CASE i # 1
    <3>1. r[i] = q[i]
      BY <2>2, <1>3
    <3> QED
      BY <3>1, <2>0, <1>7 DEF ToldCall
  <2> QED
    BY <2>1, <2>2
<1>9. ASSUME NEW p \in Nodes \ Pending(q) PROVE ToldBelow(p, st, ab)
  <2>1. CASE p \in Below(x)
    BY <2>1 DEF x
  <2>2. CASE p \notin Below(x)
    <3>1. p # q[1].node
      <4>1. 1 \in 1 .. Len(q)
        BY <1>3
      <4> QED
        BY <4>1, <1>2 DEF Pending
    <3>2. ASSUME NEW c \in Children(p) PROVE c \in Nodes \ Below(x)
      <4>1. c \in Nodes /\ Parent(c) = p
        BY Families
      <4>2. ASSUME c \in Below(x) PROVE FALSE
        <5>1. c = x \/ p \in Below(x)
          BY <4>1, <4>2, <1>2, BelowIsLater
        <5>2. Parent(x) = q[1].node
          BY <1>2, <1>3, Families
        <5> QED
          BY <5>1, <5>2, <4>1, <2>2, <3>1
      <4> QED
        BY <4>1, <4>2
    <3>3. ToldBelow(p, start, absolute)
      BY <2>2 DEF x
    <3> QED
      BY <3>2, <3>3, <2>2 DEF ToldBelow, x
  <2> QED
    BY <2>1, <2>2
<1>10. \A p \in Pending(q) : ab[p] = None
  <2>1. Pending(q) \subseteq Nodes
    BY DEF Pending
  <2> QED
    BY <2>1, <1>2 DEF x
<1> QED
  BY <1>3, <1>4, <1>8, <1>9, <1>10 DEF ToldBy, r

LEMMA CallingIsNested ==
  ASSUME NEW q, NEW st, NEW ln, Calling(q, st, ln)
  PROVE  Nested(q)
BY DEF Calling, Called, Nested

LEMMA ToldContinues ==
  ASSUME UNCHANGED built, ToldBy(stack', start', absolute'),
         outcome' = "done" => absolute'[1] = 0
  PROVE  Told'
<1>1. ASSUME NEW n PROVE MayMove(n)' = MayMove(n)
  BY TreeStays DEF MayMove
<1>2. ASSUME NEW f, NEW st, NEW ab PROVE ToldCall(f, st, ab)' = ToldCall(f, st, ab)
  BY <1>1, CallsStay DEF ToldCall
<1>3. ASSUME NEW p, NEW st, NEW ab PROVE ToldBelow(p, st, ab)' = ToldBelow(p, st, ab)
  BY TreeStays DEF ToldBelow
<1>4. ASSUME NEW q, NEW st, NEW ab PROVE ToldBy(q, st, ab)' = ToldBy(q, st, ab)
  BY <1>2, <1>3, TreeStays, CallsStay DEF ToldBy
<1> QED
  BY <1>4 DEF Told, Done

LEMMA ToldAtFirst == Init => Told
<1> SUFFICES ASSUME Init PROVE Told
  OBVIOUS
<1>1. tree \in Experiments /\ Inv
  BY Starts DEF Inv, Built
<1> DEFINE f == Call(1, 0, FALSE)
<1>2. absolute = [n \in Nodes |-> None] /\ stack = <<f>> /\ outcome = "running"
  BY DEF Init, Nodes
<1>3. 1 \in Nodes /\ tree[1].kind \notin Leaves
  BY <1>1, Shape DEF Leaves
<1>4. f.node = 1 /\ f.at = 0 /\ ToSet(f.todo) = Children(1) /\ f.mayChange = FALSE
  <2>1. f.node = 1 /\ f.at = 0 /\ ToSet(f.todo) = Children(1)
    BY <1>1, <1>3, NewCall
  <2> QED
    BY <2>1 DEF Call
<1> HIDE DEF f
<1>5. ToldCall(f, start, absolute)
  BY <1>1, <1>4, RootStays DEF ToldCall, Visited
<1>6. \A i \in 1 .. Len(stack) : stack[i] = f
  BY <1>2
<1>7. \A p \in Nodes : \A c \in Children(p) : c \in Nodes
  BY <1>1, Shape
<1>8. Open(stack) \subseteq Nodes
  BY DEF Open
<1> QED
  BY <1>2, <1>5, <1>6, <1>7, <1>8 DEF Told, ToldBy, ToldBelow, Done

LEMMA RefusedTold ==
  ASSUME Told, Refuse
  PROVE  Told'
<1>1. /\ UNCHANGED built /\ start' = start /\ absolute' = absolute /\ stack' = stack
      /\ outcome' = "refused"
  BY DEF Refuse
<1> QED
  BY <1>1, ToldContinues DEF Told

\* The child that is visited, and what is known of the innermost call.
LEMMA ToldChild ==
  ASSUME Inv, Told, Visiting, ~Refused(Top, Next1)
  PROVE  LET c == Next1
             at == CalledAt(Top, c)
         IN  /\ stack # << >> /\ stack \in Seq(FrameType) /\ Len(stack) \in Nat \ {0} /\ Top = stack[1]
             /\ Top \in FrameType /\ Top.node \in Nodes /\ Progress(Top) /\ Top.todo # << >>
             /\ c = Head(Top.todo) /\ c \in Children(Top.node) /\ c \in Nodes \ {1} /\ at \in Nat
             /\ MayChange(Top, c) <=> MayMove(c)
             /\ absolute[c] = None
             /\ tree \in Experiments /\ Built
<1> DEFINE c == Next1
           f == Top
           at == CalledAt(f, c)
<1>0. Built /\ tree \in Experiments /\ Typed /\ outcome = "running" /\ f.todo # << >> /\ stack # << >>
  BY DEF Inv, Built, Calls, Visiting
<1>1. /\ stack \in Seq(FrameType) /\ Len(stack) \in Nat \ {0} /\ f = stack[1] /\ f \in FrameType
      /\ Progress(f) /\ Placing(f, start, length) /\ f.node \in Nodes
  BY <1>0, StackIs DEF FrameType
<1>2. c = Head(f.todo)
  BY DEF Next1
<1>3. c \in Children(f.node) /\ c \in Nodes \ {1}
  <2>1. [node |-> f.node, todo |-> Tail(f.todo)].node = f.node
        /\ [node |-> f.node, todo |-> Tail(f.todo)].todo = Tail(f.todo)
    OBVIOUS
  <2>2. c \in Children(f.node)
    BY <2>1, <1>0, <1>1, <1>2, Step
  <2> QED
    BY <2>2, <1>0, <1>1, Families
<1>4. at \in Nat
  BY <1>0, <1>1, <1>2, Asked
<1>5. 1 \in 1 .. Len(stack)
  BY <1>1
<1>6. MayChange(f, c) <=> MayMove(c)
  <2>1. f.mayChange <=> MayMove(f.node)
    BY <1>1, <1>5 DEF Told, ToldBy, ToldCall
  <2>2. MayMove(c) <=> MayMove(f.node) \/ MovesChildren(f.node)
    BY <1>0, <1>1, <1>3, MayMoveChild
  <2> QED
    BY <2>1, <2>2 DEF MayChange, MovesChildren
<1>7. absolute[c] = None
  <2>1. c \in ToSet(f.todo)
    <3>1. f.todo \in Seq(Nodes)
      BY <1>1 DEF FrameType
    <3> QED
      BY <3>1, <1>0, <1>2 DEF ToSet
  <2>2. c \in Below(c)
    BY <1>0, <1>3, BelowWays
  <2>3. c \in Open(stack)
    BY <2>1, <2>2, <1>1, <1>3, <1>5 DEF Open
  <2> QED
    BY <2>3 DEF Told, ToldBy
<1> QED
  BY <1>0, <1>1, <1>2, <1>3, <1>4, <1>6, <1>7

LEMMA BranchTold ==
  ASSUME Inv, Told, VisitBranch
  PROVE  Told'
<1> DEFINE c == Next1
           at == CalledAt(Top, c)
           mc == MayChange(Top, c)
           g == Call(c, at, mc)
           q == <<g>> \o stack
<1>1. /\ Visiting /\ ~Refused(Top, c) /\ tree[c].kind \notin Leaves
      /\ stack' = q /\ outcome' = outcome /\ outcome = "running"
      /\ UNCHANGED built /\ start' = start /\ absolute' = absolute
  BY DEF VisitBranch, Visiting
<1>2. /\ stack # << >> /\ stack \in Seq(FrameType) /\ Len(stack) \in Nat \ {0} /\ Top = stack[1]
      /\ Top \in FrameType /\ Top.node \in Nodes /\ Progress(Top) /\ Top.todo # << >>
      /\ c = Head(Top.todo) /\ c \in Nodes \ {1} /\ at \in Nat
      /\ mc <=> MayMove(c)
      /\ tree \in Experiments
  BY <1>1, ToldChild
<1>3. mc \in BOOLEAN
  BY <1>2 DEF MayChange, FrameType
<1>4. g \in FrameType /\ g.node = c /\ ToSet(g.todo) = Children(c) /\ g.mayChange = mc
  <2>1. g \in FrameType /\ g.node = c /\ ToSet(g.todo) = Children(c)
    BY <1>1, <1>2, <1>3, NewCall
  <2> QED
    BY <2>1 DEF Call
<1> HIDE DEF c, at, mc, g
<1>5. Open(stack) = Open(q)
  BY <1>2, <1>4, OpenBranch, OpenBranchOnly
<1>6. /\ Len(q) = Len(stack) + 1 /\ q[1] = g
      /\ \A i \in 1 .. Len(stack) : q[i + 1] = stack[i]
  BY <1>2, <1>4
<1> HIDE DEF q
<1>7. ASSUME NEW i \in 1 .. Len(q) PROVE ToldCall(q[i], start, absolute)
  <2>1. CASE i = 1
    BY <2>1, <1>2, <1>4, <1>6 DEF ToldCall, Visited
  <2>2. CASE i # 1
    <3> DEFINE j == i - 1
    <3>1. j \in 1 .. Len(stack) /\ j + 1 = i
      BY <2>2, <1>2, <1>6
    <3> HIDE DEF j
    <3>2. q[i] = stack[j]
      BY <3>1, <1>6
    <3> QED
      BY <3>1, <3>2 DEF Told, ToldBy
  <2> QED
    BY <2>1, <2>2
<1>8. ToldBy(q, start, absolute)
  BY <1>5, <1>7 DEF Told, ToldBy
<1> QED
  BY <1>1, <1>8, ToldContinues

LEMMA LeafTold ==
  ASSUME Inv, Told, VisitLeaf
  PROVE  Told'
<1> DEFINE c == Next1
           f == Top
           at == CalledAt(f, c)
           len == LeafLength(c)
           place == Placed(f, c, at, len)
           g == Advance(f, c, at, len)
<1>1. /\ Visiting /\ ~Refused(f, c) /\ tree[c].kind \in Leaves
      /\ start' = [start EXCEPT ![c] = place]
      /\ absolute' = IF MayChange(f, c) THEN absolute ELSE [absolute EXCEPT ![c] = at]
      /\ stack' = <<g>> \o Tail(stack) /\ UNCHANGED built /\ outcome' = outcome /\ outcome = "running"
  BY DEF VisitLeaf, Visiting
<1>2. /\ stack # << >> /\ stack \in Seq(FrameType) /\ Len(stack) \in Nat \ {0} /\ f = stack[1]
      /\ f \in FrameType /\ f.node \in Nodes /\ Progress(f) /\ f.todo # << >>
      /\ c = Head(f.todo) /\ c \in Children(f.node) /\ c \in Nodes /\ at \in Nat
      /\ MayChange(f, c) <=> MayMove(c)
      /\ absolute[c] = None
      /\ tree \in Experiments /\ Built
  BY <1>1, ToldChild
<1>3. Typed /\ Calling(stack, start, length) /\ ToldBy(stack, start, absolute)
      /\ start \in [Nodes -> Int] /\ absolute \in [Nodes -> Nat \cup {None}]
  BY DEF Inv, Calls, Told, Typed
<1>4. len \in Nat
  <2>1. CASE tree[c].kind \in {"reserve", "clear"}
    BY <2>1 DEF LeafLength
  <2>2. CASE tree[c].kind = "empty"
    BY <2>2, <1>2, Facts DEF LeafLength
  <2>3. CASE tree[c].kind \in {"play", "acquire", "group", "reset"}
    BY <2>3, <1>2, <1>3 DEF LeafLength, Typed
  <2> QED
    BY <2>1, <2>2, <2>3, <1>1 DEF Leaves
<1> HIDE DEF c, f, at, len
<1>5. f.at \in Nat
  BY <1>2 DEF FrameType
<1>6. place \in Int /\ (~RightArranged(f.node) => place = at - f.at)
  <2>1. CASE RightArranged(f.node)
    <3>1. RightStart(f, c, len) \in Int
      BY <1>2, <1>3, <1>4, RightBound
    <3> QED
      BY <3>1, <2>1 DEF Placed
  <2>2. CASE ~RightArranged(f.node)
    BY <2>2, <1>2, <1>5 DEF Placed
  <2> QED
    BY <2>1, <2>2
<1>7. g \in FrameType /\ g.node = f.node /\ g.at = f.at /\ g.todo = Tail(f.todo)
      /\ g.mayChange = f.mayChange
  BY <1>2, <1>4, <1>6, Advanced
<1> HIDE DEF place, g
<1>8. start'[c] = place /\ \A m \in Nodes \ {c} : start'[m] = start[m]
  BY <1>1, <1>2, <1>3
<1>9. /\ absolute'[c] = IF MayMove(c) THEN None ELSE f.at + start'[c]
      /\ \A m \in Nodes \ {c} : absolute'[m] = absolute[m]
  <2>1. CASE MayMove(c)
    BY <2>1, <1>1, <1>2
  <2>2. CASE ~MayMove(c)
    <3>1. ~RightArranged(f.node)
      BY <2>2, <1>2, MayMoveChild DEF MovesChildren
    <3>2. absolute'[c] = at /\ \A m \in Nodes \ {c} : absolute'[m] = absolute[m]
      BY <2>2, <1>1, <1>2, <1>3
    <3>3. f.at + (at - f.at) = at
      BY <1>2, <1>5
    <3> QED
      BY <2>2, <3>1, <3>2, <3>3, <1>6, <1>8
  <2> QED
    BY <2>1, <2>2
<1>10. Below(c) = {c} /\ Children(c) = {}
  <2>1. tree[c].children = << >>
    BY <1>1, <1>2, KindAssumption DEF Nodes
  <2>2. Children(c) = {}
    BY <2>1 DEF Children, ToSet
  <2> QED
    BY <2>2, <1>2, BelowIs
<1>11. Open(stack) \subseteq Pending(stack) \cup {c} /\ Pending(stack) \subseteq Open(stack)
  BY <1>2, <1>10, OpenNow, WereOpen
<1>12. ToldBelow(c, start', absolute')
  BY <1>10 DEF ToldBelow
<1> DEFINE q == stack
           st == start'
           ab == absolute'
<1>13. /\ Nested(q) /\ q # << >> /\ q[1] = f /\ Head(q[1].todo) = c /\ q[1].todo # << >>
       /\ \A m \in Nodes \ Below(c) : st[m] = start[m] /\ ab[m] = absolute[m]
       /\ \A i \in 1 .. Len(q) : ToldCall(q[i], start, absolute)
       /\ \A p \in (Nodes \ Pending(q)) \ Below(c) : ToldBelow(p, start, absolute)
       /\ \A p \in Pending(q) : absolute[p] = None
       /\ \A p \in Below(c) : ToldBelow(p, st, ab)
       /\ ab[c] = IF MayMove(c) THEN None ELSE f.at + st[c]
  BY <1>2, <1>3, <1>8, <1>9, <1>10, <1>11, <1>12, CallingIsNested DEF ToldBy
<1> HIDE DEF q, st, ab
<1>14. ToldBy(<<g>> \o Tail(q), st, ab)
  BY <1>2, <1>7, <1>13, ToldNext
<1> QED
  BY <1>1, <1>14, ToldContinues DEF q, st, ab

\* The call of n returns: what is below it is where it was told to be, or is told now.
LEMMA ReturnedTold ==
  ASSUME Inv, Inv', Told, Top.todo = << >>, outcome = "running", tree[Top.node].kind # "root",
         NEW st \in [Nodes -> Int], NEW ln, NEW len \in Nat,
         \A m \in Nodes : m \notin Below(Top.node) \/ (m # Top.node /\ absolute[m] # None)
                            => st[m] = start[m],
         tree[Parent(Top.node)].kind = "unrolled" =>
           LET new == IterationLength(Parent(Top.node), len)
           IN  /\ new \in Int /\ new >= len
               /\ tree[Top.node].right /\ ~MayMove(Top.node) => Adjusted(Top.node, len, new) = len,
         Return(len, st, ln)
  PROVE  Told'
<1> DEFINE n == Top.node
           at == Top.at
           caller == stack[2]
           final == IF tree[caller.node].kind = "unrolled"
                    THEN Adjusted(n, len, IterationLength(caller.node, len)) ELSE len
           place == Placed(caller, n, at, len)
           placed == [st EXCEPT ![n] = place]
           starts == Moved(placed, n, final - len)
           g == Advance(caller, n, at, final)
           q == Tail(stack)
<1>0. /\ tree \in Experiments /\ Built /\ Calling(stack, start, length) /\ stack # << >>
      /\ start \in [Nodes -> Int] /\ absolute \in [Nodes -> Nat \cup {None}]
      /\ ToldBy(stack, start, absolute)
  BY DEF Inv, Built, Calls, Typed, Told
<1>1. /\ Top \in FrameType /\ n \in Nodes /\ at \in Nat /\ stack \in Seq(FrameType) /\ Top = stack[1]
      /\ Len(stack) \in Nat \ {0} /\ 1 \in 1 .. Len(stack) /\ Visited(Top) = Children(n)
  <2>1. Top \in FrameType /\ n \in Nodes /\ stack \in Seq(FrameType) /\ Top = stack[1]
        /\ Progress(Top) /\ Len(stack) \in Nat \ {0}
    BY <1>0, StackIs DEF FrameType
  <2>2. Visited(Top) = Children(n)
    BY <2>1, <1>0, Ahead
  <2> QED
    BY <2>1, <2>2 DEF FrameType
<1>2. /\ start' = starts
      /\ absolute' = IF Top.mayChange THEN absolute ELSE FixedFrom(n, at, st)
      /\ stack' = << g >> \o SubSeq(stack, 3, Len(stack))
      /\ UNCHANGED built /\ outcome' = outcome
  BY DEF Return
<1>3. /\ Calling(q, start, length) /\ q # << >> /\ q[1] = caller /\ caller \in FrameType
      /\ Called(caller, n, at, start, length)
      /\ SubSeq(stack, 3, Len(stack)) = Tail(q)
      /\ Open(stack) \subseteq Pending(q) \cup {n}
      /\ n \in Children(caller.node) /\ Parent(n) = caller.node /\ caller.node \in Nodes
  BY <1>0, Callers
<1>4. /\ Nested(q) /\ q \in Seq(FrameType) /\ caller.todo # << >> /\ n = Head(caller.todo)
      /\ caller.at \in Nat
  BY <1>3, CallingIsNested DEF Called, Nested, FrameType
<1>5. /\ final \in Nat
      /\ tree[n].right /\ ~MayMove(n) => final = len
  <2>1. CASE tree[caller.node].kind = "unrolled"
    <3> DEFINE new == IterationLength(caller.node, len)
    <3>1. new \in Int /\ new >= len /\ (tree[n].right /\ ~MayMove(n) => Adjusted(n, len, new) = len)
      BY <2>1, <1>3
    <3> HIDE DEF new
    <3>2. Adjusted(n, len, new) \in Nat
      BY <3>1, <1>0, <1>1, AdjustedLength
    <3> QED
      BY <3>1, <3>2, <2>1 DEF new
  <2>2. CASE tree[caller.node].kind # "unrolled"
    BY <2>2
  <2> QED
    BY <2>1, <2>2
<1>6. place \in Int /\ (~RightArranged(caller.node) => place = at - caller.at)
  <2>1. CASE RightArranged(caller.node)
    <3>1. RightStart(caller, n, len) \in Int
      BY <1>0, <1>3, RightBound
    <3> QED
      BY <3>1, <2>1 DEF Placed
  <2>2. CASE ~RightArranged(caller.node)
    BY <2>2, <1>1, <1>4 DEF Placed
  <2> QED
    BY <2>1, <2>2
<1>7. Placed(caller, n, at, final) = place
  BY DEF Placed, RightArranged, Arranged
<1>8. /\ g \in FrameType /\ g.node = caller.node /\ g.at = caller.at /\ g.todo = Tail(caller.todo)
      /\ g.mayChange = caller.mayChange
  BY <1>0, <1>3, <1>4, <1>5, <1>6, <1>7, Advanced
<1>9. stack' = <<g>> \o Tail(q) /\ Pending(q) \subseteq Open(stack) /\ n \in Open(stack)
      /\ Open(stack') \subseteq Pending(q)
  <2>1. stack' = <<g>> \o Tail(q)
    BY <1>2, <1>3
  <2>2. Pending(q) \subseteq Open(stack) /\ n \in Open(stack)
    BY <1>0, <1>1, WereOpen
  <2>3. Open(<<g>> \o Tail(q)) \subseteq Pending(q)
    <3> HIDE DEF q, g, caller
    <3> QED
      BY <1>3, <1>4, <1>8, OnlyPending
  <2> QED
    BY <2>1, <2>2, <2>3
<1>10. n \in Below(n) /\ Below(n) \subseteq Nodes /\ Below(n) \cap Pending(q) = {}
       /\ \A c \in Children(n) : c \in Below(n) /\ c # n
  <2>1. \A c \in Children(n) : c \in Nodes /\ n < c /\ c \in Below(c) /\ Below(c) \subseteq Below(n)
    BY <1>0, <1>1, Families, BelowWays
  <2>2. \A c \in Children(n) : c # n
    <3>1. n \in Int
      BY <1>0, <1>1, Shape
    <3> QED
      BY <2>1, <3>1
  <2>3. Below(n) \cap Pending(q) = {}
    <3>1. q[1].todo # << >> /\ Head(q[1].todo) = n
      BY <1>3, <1>4
    <3> HIDE DEF q, n
    <3> QED
      BY <3>1, <1>0, <1>3, <1>4, Path
  <2> QED
    BY <2>1, <2>2, <2>3, <1>0, <1>1, BelowIs, BelowWays
<1>11. Top.mayChange <=> MayMove(n)
  BY <1>0, <1>1 DEF ToldBy, ToldCall
<1>12. \A p \in Below(n) \ {n} : ToldBelow(p, start, absolute)
  BY <1>0, <1>3, <1>10 DEF ToldBy
<1>13. \A c \in Children(n) : absolute[c] = IF MayMove(c) THEN None ELSE at + start[c]
  BY <1>0, <1>1 DEF ToldBy, ToldCall
<1>14. absolute[n] = None /\ \A p \in Pending(q) : absolute[p] = None
  BY <1>0, <1>9 DEF ToldBy
<1> HIDE DEF n, at, caller, final, place, g, q
<1>15. placed \in [Nodes -> Int] /\ placed[n] = place /\ \A m \in Nodes \ {n} : placed[m] = st[m]
  BY <1>1, <1>6
<1> HIDE DEF placed
<1>16. starts = [m \in Nodes |-> IF m \in Children(n) /\ tree[n].right
                                 THEN placed[m] + (final - len) ELSE placed[m]]
  BY DEF Moved
<1>17. /\ starts[n] = place
       /\ ~MayMove(n) => \A m \in Nodes \ {n} : starts[m] = st[m]
       /\ \A m \in Nodes \ Below(n) : starts[m] = start[m]
  <2>1. starts[n] = place
    BY <1>1, <1>10, <1>15, <1>16
  <2>2. ASSUME ~MayMove(n), NEW m \in Nodes \ {n} PROVE starts[m] = st[m]
    <3>1. st[m] \in Int /\ placed[m] = st[m] /\ len \in Nat
      BY <1>15, <2>2
    <3>2. CASE tree[n].right
      <4>1. final - len = 0
        BY <3>2, <2>2, <1>5
      <4> QED
        BY <4>1, <3>1, <1>16
    <3>3. CASE ~tree[n].right
      BY <3>1, <3>3, <1>16
    <3> QED
      BY <3>2, <3>3
  <2>3. ASSUME NEW m \in Nodes \ Below(n) PROVE starts[m] = start[m]
    <3>1. m # n /\ m \notin Children(n)
      BY <1>10
    <3>2. placed[m] = st[m] /\ st[m] = start[m]
      BY <3>1, <1>15 DEF n
    <3> QED
      BY <3>1, <3>2, <1>16
  <2> QED
    BY <2>1, <2>2, <2>3
<1> HIDE DEF starts
<1>18. ASSUME MayMove(n)
       PROVE  absolute' = absolute /\ \A p \in Below(n) : ToldBelow(p, start', absolute')
  <2>1. absolute' = absolute
    BY <1>2, <1>11, <1>18
  <2>2. \A c \in Children(n) : absolute[c] = None
    <3>1. \A c \in Children(n) : MayMove(c)
      BY <1>0, <1>1, <1>18, MayMoveChild
    <3> QED
      BY <3>1, <1>0, <1>1, <1>13
  <2>3. \A m \in Below(n) : absolute[m] = None
    <3>1. tree \in Experiments /\ n \in Nodes
      BY <1>0, <1>1
    <3> DEFINE ab == absolute
    <3>2. /\ \A p \in Below(n) \ {n} : ab[p] = None => \A c \in Children(p) : ab[c] = None
          /\ \A c \in Children(n) : ab[c] = None
      BY <2>2, <1>12 DEF ToldBelow
    <3> HIDE DEF ab
    <3>3. \A m \in Below(n) \ {n} : ab[m] = None
      BY <3>1, <3>2, NothingTold
    <3> QED
      BY <3>3, <1>14 DEF ab
  <2>4. ASSUME NEW p \in Below(n) PROVE ToldBelow(p, start', absolute')
    <3>1. Children(p) \subseteq Below(n)
      BY <1>0, <1>1, BelowContains
    <3> QED
      BY <3>1, <2>1, <2>3 DEF ToldBelow
  <2> QED
    BY <2>1, <2>4
<1>19. ASSUME ~MayMove(n)
       PROVE  /\ \A p \in Below(n) : ToldBelow(p, start', absolute')
              /\ absolute'[n] = caller.at + start'[n]
              /\ \A m \in Nodes \ Below(n) : absolute'[m] = absolute[m]
  <2> DEFINE ab == FixedFrom(n, at, st)
  <2>1. absolute' = ab
    BY <1>2, <1>11, <1>19
  <2>2. ASSUME NEW p \in Below(n), NEW c \in Children(p)
        PROVE  c \in Below(n) /\ c \in Nodes \ {n} /\ start'[c] = st[c]
    <3>1. p \in Nodes /\ p >= n /\ p \in Int /\ n \in Int
      BY <1>0, <1>1, BelowIsLater, Shape
    <3>2. c \in Nodes /\ p < c /\ c \in Int /\ c \in Below(n)
      BY <3>1, <1>0, <1>1, Families, Shape, BelowContains
    <3>3. c # n
      BY <3>1, <3>2
    <3> QED
      BY <3>2, <3>3, <1>2, <1>17, <1>19
  <2>3. ASSUME NEW p \in Below(n), NEW c \in Children(p) PROVE st[c] >= 0
    <3>1. p \in Nodes \ Open(stack')
      BY <1>9, <1>10
    <3>2. Fits(p, start', length')
      <4>1. \A x \in Nodes' \ Open(stack)' : Fits(x, start, length)'
        BY DEF Inv, Timed
      <4> QED
        BY <4>1, <3>1, <1>2, TreeStays, CallsStay, MeaningStays
    <3>3. start'[c] >= 0
      BY <3>2 DEF Fits, Inside
    <3> QED
      BY <3>3, <2>2
  <2>4. ASSUME NEW c \in Children(n), absolute[c] # None PROVE absolute[c] = at + st[c]
    <3>1. st[c] = start[c]
      BY <2>2, <2>4, <1>10 DEF n
    <3> QED
      BY <3>1, <2>4, <1>13
  <2>5. ASSUME NEW p \in Below(n) \ {n}, NEW c \in Children(p), absolute[c] # None
        PROVE  absolute[p] # None /\ absolute[c] = absolute[p] + st[c]
    <3>1. st[c] = start[c]
      BY <2>2, <2>5 DEF n
    <3> QED
      BY <3>1, <2>5, <1>12 DEF ToldBelow
  <2>6. /\ ab[n] = at
        /\ \A p \in Below(n) : ToldBelow(p, st, ab)
        /\ \A m \in Nodes \ Below(n) : ab[m] = absolute[m]
    BY <2>3, <2>4, <2>5, <1>0, <1>1, <1>14, FixedBelow
  <2> HIDE DEF ab
  <2>7. ASSUME NEW p \in Below(n) PROVE ToldBelow(p, start', absolute')
    BY <2>1, <2>2, <2>6 DEF ToldBelow
  <2>8. absolute'[n] = caller.at + start'[n]
    <3>1. ~RightArranged(caller.node)
      BY <1>0, <1>3, <1>19, MayMoveChild DEF MovesChildren
    <3>2. caller.at + (at - caller.at) = at
      BY <1>1, <1>4
    <3> QED
      BY <3>1, <3>2, <2>1, <2>6, <1>2, <1>6, <1>17
  <2> QED
    BY <2>1, <2>6, <2>7, <2>8
<1> DEFINE s1 == start'
           ab == absolute'
<1>20. /\ q[1] = caller /\ q[1].todo # << >> /\ Head(q[1].todo) = n /\ q # << >> /\ Nested(q)
       /\ \A m \in Nodes \ Below(n) : s1[m] = start[m] /\ ab[m] = absolute[m]
       /\ \A p \in Below(n) : ToldBelow(p, s1, ab)
       /\ ab[n] = IF MayMove(n) THEN None ELSE caller.at + s1[n]
       /\ \A p \in Pending(q) : absolute[p] = None
  BY <1>2, <1>3, <1>4, <1>14, <1>17, <1>18, <1>19
<1>21. /\ \A i \in 1 .. Len(q) : ToldCall(q[i], start, absolute)
       /\ \A p \in (Nodes \ Pending(q)) \ Below(n) : ToldBelow(p, start, absolute)
  <2>1. \A i \in 1 .. Len(q) : i + 1 \in 1 .. Len(stack) /\ q[i] = stack[i + 1]
    BY <1>0, <1>1 DEF q
  <2>2. \A p \in (Nodes \ Pending(q)) \ Below(n) : p \notin Open(stack)
    BY <1>3, <1>10
  <2> QED
    BY <2>1, <2>2, <1>0 DEF ToldBy
<1> HIDE DEF s1, ab
<1>22. ToldBy(<<g>> \o Tail(q), s1, ab)
  BY <1>0, <1>8, <1>20, <1>21, ToldNext
<1> QED
  BY <1>2, <1>9, <1>22, ToldContinues DEF s1, ab

\* What has been told below n will not move with n.
LEMMA ToldUnder ==
  ASSUME Inv, Told, outcome = "running", Top.todo = << >>,
         NEW m \in Below(Top.node), m # Top.node, absolute[m] # None
  PROVE  ~MayMove(Top.node) /\ ~MovesChildren(Top.node)
<1> DEFINE n == Top.node
           ab == absolute
<1>1. /\ stack # << >> /\ n \in Nodes /\ tree \in Experiments
      /\ \A p \in Below(n) \ {n} : p \notin Open(stack)
  BY AllPlaced
<1>2. Top = stack[1] /\ 1 \in 1 .. Len(stack) /\ Visited(Top) = Children(n)
  <2>1. Top = stack[1] /\ Progress(Top) /\ Len(stack) \in Nat \ {0}
    BY <1>1, StackIs
  <2> QED
    BY <2>1, <1>1, Ahead
<1> SUFFICES ASSUME MayMove(n) \/ MovesChildren(n) PROVE FALSE
  OBVIOUS
<1>3. \A c \in Children(n) : MayMove(c)
  BY <1>1, MayMoveChild
<1>4. \A c \in Children(n) : ab[c] = None
  BY <1>2, <1>3 DEF Told, ToldBy, ToldCall
<1>5. \A p \in Below(n) \ {n} : ab[p] = None => \A c \in Children(p) : ab[c] = None
  <2>1. Below(n) \subseteq Nodes
    BY <1>1, BelowIs
  <2> QED
    BY <2>1, <1>1 DEF Told, ToldBy, ToldBelow
<1>6. ab[m] # None /\ m \in Below(n) \ {n}
  OBVIOUS
<1> HIDE DEF ab, n
<1>7. \A k \in Below(n) \ {n} : ab[k] = None
  BY <1>1, <1>4, <1>5, NothingTold
<1> QED
  BY <1>6, <1>7

\* An iteration whose loop asks no time of it and is on its grid stays as long as it is.
LEMMA NotExtended ==
  ASSUME Built, NothingMovesLate, NEW n \in Nodes, n # 1, tree[Parent(n)].kind = "unrolled",
         tree[n].right, ~MayMove(n), NEW len \in Nat, Divides(grid[n], len)
  PROVE  Adjusted(n, len, IterationLength(Parent(n), len)) = len
<1> DEFINE p == Parent(n)
           g == grid[p]
           h == grid[n]
<1>1. tree \in Experiments /\ p \in Nodes /\ n \in Children(p)
  BY Families DEF Built
<1>2. g \in Nat \ {0} /\ h \in Nat \ {0}
  BY <1>1, Facts
<1>3. tree[n].kind = "iteration"
  BY <1>1, KindAssumption DEF Nodes, Children
<1>4. tree[p].time = None /\ h % g = 0
  <2>1. ~MayGrow(n)
    BY DEF NothingMovesLate
  <2> QED
    BY <2>1, <1>3 DEF MayGrow
<1>5. tree[p].mode \in {"FASTEST", "AUTO"}
  <2>1. tree[p].mode \in {"FASTEST", "CONSTANT", "AUTO"}
    BY <1>1, Shape DEF NodeType
  <2> HIDE DEF p
  <2>2. tree[p].mode # "CONSTANT"
    BY <1>1, <1>4, KindAssumption DEF Nodes
  <2> QED
    BY <2>1, <2>2
<1>6. ceil_to_grid(len, g) = len
  <2>1. Divides(h, len)
    OBVIOUS
  <2> HIDE DEF g, h
  <2>2. Divides(g, h)
    BY <1>2, <1>4, Divisible
  <2>3. Divides(g, len)
    BY <2>1, <2>2, <1>2, DividesTransitive
  <2> QED
    BY <2>3, <1>2, CeilOnGrid
<1>7. IterationLength(p, len) = len
  BY <1>5, <1>6 DEF IterationLength
<1> QED
  BY <1>7 DEF Adjusted

LEMMA SectionTold ==
  ASSUME Inv, Inv', NothingMovesLate, Told, LeaveSection
  PROVE  Told'
<1> DEFINE n == Top.node
           C == Children(n)
           first == FirstOf(n)
           arranged == [m \in Nodes |-> IF m \in C THEN start[m] - first ELSE start[m]]
           content == ContentLength(n, arranged, length)
           len == LengthOf(n, content)
           by == len - content
           st == Moved(arranged, n, by)
           refused == \/ TooLong(n, content)
                      \/ tree[Parent(n)].kind = "unrolled" /\ TooSlow(Parent(n), len)
<1>1. /\ outcome = "running" /\ Top.todo = << >> /\ tree[n].kind \in Arranged \cup {"match"}
      /\ IF refused THEN Refuse ELSE Return(len, st, length)
  BY DEF LeaveSection, Leaving, FirstOf
<1>2. CASE refused
  BY <1>1, <1>2, RefusedTold
<1>3. CASE ~refused
  <2>0. Built
    BY DEF Inv
  <2>1. /\ n \in Nodes /\ tree \in Experiments
        /\ start \in [Nodes -> Int] /\ length \in [Nodes -> Nat \cup {None}]
        /\ \A c \in C : length[c] \in Nat
        /\ ~RightArranged(n) => \A c \in C : start[c] >= 0
    BY <1>1, AllPlaced
  <2>2. C \subseteq Nodes
    BY <2>1, Shape
  <2>3. first \in Int /\ (~RightArranged(n) => first = 0)
    BY <2>0, <2>1, First DEF FirstOf
  <2> HIDE DEF first
  <2>4. arranged \in [Nodes -> Int] /\ \A m \in Nodes :
          (m \notin C \/ ~RightArranged(n)) => arranged[m] = start[m]
    BY <2>1, <2>3
  <2>5. \A c \in C : arranged[c] \in Int
    BY <2>2, <2>4
  <2> HIDE DEF arranged
  <2>6. content \in Nat /\ Divides(grid[n], content)
    BY <2>0, <2>1, <2>5, Content
  <2> HIDE DEF content
  <2>7. len \in Nat /\ Divides(grid[n], len)
    BY <1>3, <2>0, <2>1, <2>6, LongEnough
  <2>8. tree[n].length = None => len = content
    BY DEF LengthOf
  <2> HIDE DEF len
  <2>9. by \in Int /\ (len = content => by = 0)
    BY <2>6, <2>7
  <2> HIDE DEF by
  <2>10. st \in [Nodes -> Int]
    BY <2>4, <2>9 DEF Moved
  <2>11. ASSUME NEW m \in Nodes, m \notin Below(n) \/ (m # n /\ absolute[m] # None)
         PROVE  st[m] = start[m]
    <3>1. st[m] = IF m \in C /\ tree[n].right THEN arranged[m] + by ELSE arranged[m]
      BY DEF Moved
    <3>2. CASE m \notin C
      BY <3>1, <3>2, <2>4
    <3>3. CASE m \in C
      <4>1. m \in Below(n)
        BY <3>3, <2>1, BelowWays, BelowContains
      <4>2. ~MayMove(n) /\ ~MovesChildren(n)
        BY <4>1, <2>11, <1>1, ToldUnder
      <4>3. arranged[m] = start[m] /\ start[m] \in Int
        BY <4>2, <2>1, <2>4 DEF MovesChildren
      <4>4. tree[n].right => by = 0
        <5>1. tree[n].right => ~MayGrow(n) /\ tree[n].kind = "match"
          BY <4>2, <2>1, <1>1 DEF NothingMovesLate, MovesChildren, RightArranged
        <5> QED
          BY <5>1, <2>8, <2>9 DEF MayGrow
      <4> QED
        BY <4>3, <4>4, <3>1
    <3> QED
      BY <3>2, <3>3
  <2>12. tree[n].kind # "root" /\ n # 1
    BY <1>1, <2>1, Shape DEF Arranged
  <2>13. tree[Parent(n)].kind = "unrolled" =>
           LET new == IterationLength(Parent(n), len)
           IN  /\ new \in Int /\ new >= len
               /\ tree[n].right /\ ~MayMove(n) => Adjusted(n, len, new) = len
    <3>1. Parent(n) \in Nodes
      BY <2>12, <2>1, Families
    <3>2. tree[Parent(n)].kind = "unrolled" =>
            IterationLength(Parent(n), len) \in Int /\ IterationLength(Parent(n), len) >= len
      BY <3>1, <1>3, <2>0, <2>7, Iterated
    <3>3. tree[Parent(n)].kind = "unrolled" /\ tree[n].right /\ ~MayMove(n) =>
            Adjusted(n, len, IterationLength(Parent(n), len)) = len
      BY <2>0, <2>1, <2>7, <2>12, NotExtended
    <3> QED
      BY <3>2, <3>3
  <2>14. Return(len, st, length)
    BY <1>1, <1>3
  <2> HIDE DEF st, C
  <2> QED
    BY <1>1, <2>7, <2>10, <2>11, <2>12, <2>13, <2>14, ReturnedTold
<1> QED
  BY <1>2, <1>3

LEMMA UnrolledTold ==
  ASSUME Inv, Inv', OnGrid, NothingMovesLate, Told, LeaveUnrolled
  PROVE  Told'
<1> DEFINE n == Top.node
           C == Children(n)
           longest == Max({0} \cup {ceil_to_grid(length[c], grid[n]) : c \in C})
           auto == tree[n].mode = "AUTO"
           lengths == [m \in Nodes |-> IF auto /\ m \in C
                                       THEN Adjusted(m, length[m], longest) ELSE length[m]]
           starts == [m \in Nodes |->
                        IF ~auto \/ m \notin Below(n) \ {n} THEN start[m]
                        ELSE IF m \in C THEN longest * (Index(n, m) - 1)
                        ELSE IF Parent(m) \in C /\ tree[Parent(m)].right
                             THEN start[m] + lengths[Parent(m)] - length[Parent(m)] ELSE start[m]]
           content == ContentLength(n, starts, lengths)
           len == LengthOf(n, content)
           by == len - content
           st == Moved(starts, n, by)
<1>1. /\ outcome = "running" /\ Top.todo = << >> /\ tree[n].kind = "unrolled"
      /\ IF TooLong(n, content) THEN Refuse ELSE Return(len, st, lengths)
  BY DEF LeaveUnrolled, Leaving
<1>2. CASE TooLong(n, content)
  BY <1>1, <1>2, RefusedTold
<1>3. CASE ~TooLong(n, content)
  <2>0. Built
    BY DEF Inv
  <2>1. /\ n \in Nodes /\ tree \in Experiments
        /\ start \in [Nodes -> Int] /\ length \in [Nodes -> Nat \cup {None}]
    BY <1>1, AllPlaced
  <2>2. \A c \in C :
          /\ c \in Nodes /\ tree[c].kind = "iteration" /\ length[c] \in Nat
          /\ grid[c] \in Nat \ {0} /\ grid[n] \in Nat \ {0}
          /\ Divides(grid[c], grid[n]) /\ Divides(grid[c], length[c])
    BY <1>1, IterationsOnGrid
  <2>3. longest \in Nat /\ \A c \in C : Adjusted(c, length[c], longest) = longest
    BY <1>1, <2>0, <2>1, <2>2, LongestIteration
  <2> HIDE DEF longest
  <2>4. \A m \in Nodes : lengths[m] = IF auto /\ m \in C THEN longest ELSE length[m]
    BY <2>3
  <2>5. \A c \in C : lengths[c] \in Nat
    BY <2>2, <2>3, <2>4
  <2> HIDE DEF lengths
  <2>6. ASSUME NEW m \in Nodes PROVE starts[m] \in Int
    <3>1. CASE ~auto \/ m \notin Below(n) \ {n}
      BY <3>1, <2>1
    <3>2. CASE auto /\ m \in Below(n) \ {n} /\ m \in C
      <4> DEFINE k == Index(n, m) - 1
      <4>1. k \in Int
        BY <3>2, <2>1, Indices
      <4>2. starts[m] = longest * k
        BY <3>2
      <4> HIDE DEF k, starts
      <4> QED
        BY <4>1, <4>2, <2>3
    <3>3. CASE auto /\ m \in Below(n) \ {n} /\ m \notin C
      <4>1. CASE ~(Parent(m) \in C /\ tree[Parent(m)].right)
        BY <3>3, <4>1, <2>1
      <4>2. CASE Parent(m) \in C /\ tree[Parent(m)].right
        <5>1. start[m] \in Int /\ lengths[Parent(m)] \in Int /\ length[Parent(m)] \in Int
          BY <4>2, <2>1, <2>2, <2>5
        <5>2. starts[m] = start[m] + lengths[Parent(m)] - length[Parent(m)]
          BY <3>3, <4>2
        <5> HIDE DEF starts
        <5> QED
          BY <5>1, <5>2
      <4> QED
        BY <4>1, <4>2
    <3> QED
      BY <3>1, <3>2, <3>3
  <2>7. \A m \in Nodes : (~auto \/ m \notin Below(n) \ {n}) => starts[m] = start[m]
    OBVIOUS
  <2>8. starts \in [Nodes -> Int]
    <3>1. starts = [m \in Nodes |-> starts[m]]
      OBVIOUS
    <3> HIDE DEF starts
    <3> QED
      BY <3>1, <2>6
  <2> HIDE DEF starts
  <2>9. content \in Nat
    <3>1. \A c \in C : lengths[c] \in Nat /\ starts[c] \in Int
      BY <2>2, <2>5, <2>8
    <3> QED
      BY <3>1, <2>0, <2>1, Content
  <2> HIDE DEF content
  <2>10. len \in Nat /\ (tree[n].length = None => len = content)
    BY <1>3, <2>0, <2>1, <2>9, LongEnough DEF LengthOf
  <2> HIDE DEF len
  <2>11. by \in Int /\ (len = content => by = 0)
    BY <2>9, <2>10
  <2> HIDE DEF by
  <2>12. st \in [Nodes -> Int]
    BY <2>8, <2>11 DEF Moved
  <2>13. ASSUME NEW m \in Nodes, m \notin Below(n) \/ (m # n /\ absolute[m] # None)
         PROVE  st[m] = start[m]
    <3>1. st[m] = IF m \in C /\ tree[n].right THEN starts[m] + by ELSE starts[m]
      BY DEF Moved
    <3>2. CASE m \notin Below(n)
      <4>1. m \notin C
        BY <3>2, <2>1, BelowWays, BelowContains
      <4> QED
        BY <4>1, <3>1, <3>2, <2>7
    <3>3. CASE m \in Below(n)
      <4>1. ~MayMove(n) /\ ~MovesChildren(n)
        BY <3>3, <2>13, <1>1, ToldUnder, BelowWays, <2>1
      <4>2. starts[m] = start[m] /\ start[m] \in Int
        BY <4>1, <1>1, <2>1, <2>7 DEF MovesChildren
      <4>3. tree[n].right => by = 0
        <5>1. tree[n].right => ~MayGrow(n)
          BY <4>1, <2>1 DEF NothingMovesLate
        <5> QED
          BY <5>1, <1>1, <2>10, <2>11 DEF MayGrow
      <4> QED
        BY <4>2, <4>3, <3>1
    <3> QED
      BY <3>2, <3>3
  <2>14. tree[n].kind # "root" /\ tree[Parent(n)].kind # "unrolled"
    <3>1. tree[n].kind # "root" /\ tree[n].kind # "iteration"
      BY <1>1
    <3> QED
      BY <3>1, <2>1, Shape, OnlyIterations
  <2>15. Return(len, st, lengths)
    BY <1>1, <1>3
  <2> HIDE DEF st, C
  <2> QED
    BY <1>1, <2>10, <2>12, <2>13, <2>14, <2>15, ReturnedTold
<1> QED
  BY <1>2, <1>3

LEMMA CompressedTold ==
  ASSUME Inv, Inv', OnGrid, AutoHasNoTime, NothingMovesLate, Told, LeaveCompressed
  PROVE  Told'
<1> DEFINE n == Top.node
           c == tree[n].children[1]
           one == CompressedLength(n, length[c])
           iteration == Adjusted(c, length[c], one)
           by == iteration - length[c]
           st == Moved(start, c, by)
           ln == [length EXCEPT ![c] = iteration]
           len == one * tree[n].count
<1>1. /\ outcome = "running" /\ Top.todo = << >> /\ tree[n].kind = "compressed"
      /\ IF TooSlow(n, length[c]) THEN Refuse ELSE Return(len, st, ln)
  BY DEF LeaveCompressed, Leaving
<1>2. CASE TooSlow(n, length[c])
  BY <1>1, <1>2, RefusedTold
<1>3. CASE ~TooSlow(n, length[c])
  <2>0. Built
    BY DEF Inv
  <2>1. /\ n \in Nodes /\ tree \in Experiments
        /\ start \in [Nodes -> Int] /\ length \in [Nodes -> Nat \cup {None}]
        /\ \A b \in Children(n) : length[b] \in Nat
        /\ \A b \in Below(n) \ {n} : b \notin Open(stack)
    BY <1>1, AllPlaced
  <2>2. Children(n) = {c} /\ c \in Nodes /\ c # n /\ tree[n].count \in Nat
    <3>1. Len(tree[n].children) = 1
      BY <1>1, <2>1, KindAssumption DEF Nodes
    <3>2. Children(n) = {tree[n].children[i] : i \in 1 .. 1}
      BY <3>1, <2>1, Indices
    <3>3. Children(n) = {c}
      BY <3>2
    <3>4. c \in Nodes /\ n < c /\ n \in Nat
      BY <3>3, <2>1, Shape
    <3>5. tree[n].count \in Nat
      BY <2>1, Shape DEF NodeType
    <3> HIDE DEF c, n
    <3>6. c # n
      BY <3>4
    <3> QED
      BY <3>3, <3>4, <3>5, <3>6 DEF n
  <2> HIDE DEF c
  <2>3. tree[c].kind = "iteration" /\ Parent(c) = n
    <3>1. c \in Children(n) /\ tree[n].kind = "compressed" /\ n \in Nodes
      BY <1>1, <2>1, <2>2
    <3> HIDE DEF n
    <3>2. tree[c].kind = "iteration"
      BY <3>1, <2>1, KindAssumption DEF Nodes, Children
    <3> QED
      BY <3>1, <3>2, <2>1, Families
  <2>4. length[c] \in Nat /\ Divides(grid[c], length[c])
    <3>1. c \in Below(n)
      BY <2>1, <2>2, BelowWays
    <3>2. c \notin Open(stack)
      BY <3>1, <2>1, <2>2
    <3>3. Regular(c, length)
      BY <3>2, <2>2 DEF OnGrid
    <3> QED
      BY <3>3, <2>1, <2>2, <2>3 DEF Regular
  <2>5. one \in Nat /\ iteration = one
    BY <1>1, <1>3, <2>0, <2>1, <2>2, <2>4, Repetition
  <2>6. tree[c].right /\ ~MayMove(c) => one = length[c]
    <3> SUFFICES ASSUME tree[c].right, ~MayMove(c) PROVE one = length[c]
      OBVIOUS
    <3> DEFINE g == grid[n]
               h == loopGrid[n]
               both == Lcm(g, h)
               a == grid[c]
               l == length[c]
    <3>1. ~MayGrow(c)
      BY <2>2 DEF NothingMovesLate
    <3>2. tree[n].time = None /\ a % both = 0
      BY <3>1, <1>1, <2>3 DEF MayGrow
    <3>3. g \in Nat \ {0} /\ h \in Nat \ {0} /\ a \in Nat \ {0} /\ l \in Nat /\ Divides(a, l)
      BY <2>0, <2>1, <2>2, <2>4, Facts
    <3>4. one = ceil_to_grid(l, both)
      BY <3>2 DEF CompressedLength
    <3> HIDE DEF g, h, a, l, one
    <3>5. both \in Nat \ {0}
      BY <3>3, LcmOfTwo
    <3> HIDE DEF both
    <3>6. Divides(both, a)
      BY <3>2, <3>3, <3>5, Divisible
    <3>7. Divides(both, l)
      BY <3>3, <3>5, <3>6, DividesTransitive
    <3> QED
      BY <3>3, <3>4, <3>5, <3>7, CeilOnGrid DEF l
  <2> HIDE DEF one, iteration
  <2>7. by \in Int /\ (one = length[c] => by = 0)
    BY <2>4, <2>5
  <2> HIDE DEF by
  <2>8. st \in [Nodes -> Int]
    BY <2>1, <2>7 DEF Moved
  <2>9. ASSUME NEW m \in Nodes, m \notin Below(n) \/ (m # n /\ absolute[m] # None)
        PROVE  st[m] = start[m]
    <3>1. st[m] = (IF m \in Children(c) /\ tree[c].right THEN start[m] + by ELSE start[m])
          /\ start[m] \in Int
      BY <2>1 DEF Moved
    <3>2. CASE m \in Children(c) /\ tree[c].right
      <4>1. m \in Below(n)
        <5>1. c \in Below(n)
          BY <2>1, <2>2, BelowWays
        <5> QED
          BY <5>1, <3>2, <2>1, BelowContains
      <4>2. ~MayMove(n) /\ ~MovesChildren(n)
        BY <4>1, <2>9, <1>1, ToldUnder
      <4>3. ~MayMove(c)
        BY <4>2, <2>1, <2>2, MayMoveChild
      <4>4. by = 0
        BY <4>3, <3>2, <2>6, <2>7
      <4> QED
        BY <4>4, <3>1
    <3>3. CASE ~(m \in Children(c) /\ tree[c].right)
      BY <3>1, <3>3
    <3> QED
      BY <3>2, <3>3
  <2>10. len \in Nat
    BY <2>2, <2>5, Product
  <2> HIDE DEF len
  <2>11. tree[n].kind # "root" /\ tree[Parent(n)].kind # "unrolled"
    <3>1. tree[n].kind # "root" /\ tree[n].kind # "iteration"
      BY <1>1
    <3> QED
      BY <3>1, <2>1, Shape, OnlyIterations
  <2>12. Return(len, st, ln)
    BY <1>1, <1>3
  <2> HIDE DEF st, ln
  <2> QED
    BY <1>1, <2>8, <2>9, <2>10, <2>11, <2>12, ReturnedTold
<1> QED
  BY <1>2, <1>3

LEMMA RootTold ==
  ASSUME Inv, Inv', Told, LeaveRoot
  PROVE  Told'
<1> DEFINE at == 0
           ab == FixedFrom(1, at, start)
<1>1. /\ outcome = "running" /\ Top.todo = << >> /\ tree[Top.node].kind = "root"
      /\ absolute' = ab /\ stack' = << >> /\ UNCHANGED built /\ start' = start
  BY DEF LeaveRoot, Leaving
<1>2. /\ Top.node = 1 /\ 1 \in Nodes /\ tree \in Experiments /\ stack # << >>
      /\ start \in [Nodes -> Int]
      /\ \A p \in Below(1) \ {1} : p \notin Open(stack)
  <2>1. Top.node \in Nodes /\ Top.node = 1 /\ tree \in Experiments
    BY <1>1, AllPlaced, Shape
  <2> QED
    BY <2>1, <1>1, AllPlaced
<1>3. /\ stack \in Seq(FrameType) /\ Top = stack[1] /\ 1 \in 1 .. Len(stack)
      /\ Visited(Top) = Children(1)
  <2>1. stack \in Seq(FrameType) /\ Top = stack[1] /\ Progress(Top) /\ Len(stack) \in Nat \ {0}
    BY <1>2, StackIs
  <2>2. Visited(Top) = Children(1)
    BY <2>1, <1>1, <1>2, Ahead
  <2> QED
    BY <2>1, <2>2
<1>4. Below(1) = Nodes
  BY <1>2, Everything
<1>5. /\ at \in Nat
      /\ absolute \in [Nodes -> Nat \cup {None}] /\ absolute[1] = None
      /\ \A c \in Children(1) : absolute[c] # None => absolute[c] = at + start[c]
  <2>1. 1 \in Open(stack)
    BY <1>2, <1>3, WereOpen
  <2>2. absolute \in [Nodes -> Nat \cup {None}] /\ ToldCall(Top, start, absolute)
    BY <1>3 DEF Inv, Typed, Told, ToldBy
  <2> QED
    BY <2>1, <2>2, <1>2, <1>3 DEF Told, ToldBy, ToldCall
<1>6. \A p \in Below(1) \ {1} : \A c \in Children(p) :
        absolute[c] # None => absolute[p] # None /\ absolute[c] = absolute[p] + start[c]
  BY <1>2, <1>4 DEF Told, ToldBy, ToldBelow
<1>7. Open(<< >>) = {}
  BY DEF Open
<1>8. \A p \in Below(1) : \A c \in Children(p) : start[c] >= 0
  <2> SUFFICES ASSUME NEW p \in Nodes, NEW c \in Children(p) PROVE start[c] >= 0
    BY <1>4
  <2>1. Fits(p, start', length')
    <3>1. \A x \in Nodes' \ Open(stack)' : Fits(x, start, length)'
      BY DEF Inv, Timed
    <3>2. p \notin Open(stack')
      BY <1>1, <1>7
    <3> QED
      BY <3>1, <3>2, <1>1, TreeStays, CallsStay, MeaningStays
  <2> QED
    BY <2>1, <1>1 DEF Fits, Inside
<1> HIDE DEF at
<1>9. ab[1] = at /\ \A p \in Nodes : ToldBelow(p, start, ab)
  BY <1>2, <1>4, <1>5, <1>6, <1>8, FixedBelow
<1> HIDE DEF ab
<1>10. ToldBy(<< >>, start, ab)
  BY <1>7, <1>9 DEF ToldBy
<1> QED
  BY <1>1, <1>9, <1>10, ToldContinues DEF at

LEMMA LateStays ==
  ASSUME UNCHANGED built
  PROVE  NothingMovesLate' = NothingMovesLate
<1>1. ASSUME NEW n PROVE MayMove(n)' = MayMove(n)
  BY TreeStays DEF MayMove
<1>2. ASSUME NEW n PROVE Parent(n)' = Parent(n)
  BY TreeStays DEF Parent
<1>3. ASSUME NEW n PROVE MayGrow(n)' = MayGrow(n)
  BY <1>2, TreeStays DEF MayGrow
<1> QED
  BY <1>1, <1>3, TreeStays DEF NothingMovesLate

LEMMA TreeIsKept ==
  ASSUME [Next]_vars
  PROVE  UNCHANGED built
BY DEF Next, vars, RefuseChild, Refuse, VisitLeaf, VisitBranch, LeaveSection, LeaveUnrolled,
       LeaveCompressed, LeaveRoot, Return

LEMMA ToldInvariance ==
  ASSUME AutoHasNoTime
  PROVE  Spec => [](Inv /\ (NothingMovesLate => Told))
<1>1. Init => (NothingMovesLate => Told)
  BY ToldAtFirst
<1>2. Inv /\ Inv' /\ OnGrid /\ (NothingMovesLate => Told) /\ [Next]_vars => (NothingMovesLate => Told)'
  <2> SUFFICES ASSUME Inv, Inv', OnGrid, NothingMovesLate => Told, [Next]_vars, NothingMovesLate'
               PROVE  Told'
    OBVIOUS
  <2>0. NothingMovesLate /\ Told
    BY TreeIsKept, LateStays
  <2>1. CASE RefuseChild
    BY <2>0, <2>1, RefusedTold DEF RefuseChild
  <2>2. CASE VisitLeaf
    BY <2>0, <2>2, LeafTold
  <2>3. CASE VisitBranch
    BY <2>0, <2>3, BranchTold
  <2>4. CASE LeaveSection
    BY <2>0, <2>4, SectionTold
  <2>5. CASE LeaveUnrolled
    BY <2>0, <2>5, UnrolledTold
  <2>6. CASE LeaveCompressed
    BY <2>0, <2>6, CompressedTold
  <2>7. CASE LeaveRoot
    BY <2>0, <2>7, RootTold
  <2>8. CASE UNCHANGED vars
    <3>1. UNCHANGED built /\ start' = start /\ absolute' = absolute /\ stack' = stack
          /\ outcome' = outcome
      BY <2>8 DEF vars
    <3> QED
      BY <3>1, <2>0, ToldContinues DEF Told, Done
  <2> QED
    BY <2>1, <2>2, <2>3, <2>4, <2>5, <2>6, <2>7, <2>8 DEF Next
<1>3. Spec => [](Inv /\ OnGrid)
  BY GridInvariance
<1> QED
  BY <1>1, <1>2, <1>3, PTL DEF Spec

LEMMA WaitingContinues ==
  ASSUME UNCHANGED built, Noted(acquired'), WaitingBy(stack', length', absolute', acquired')
  PROVE  Waiting'
<1>1. ASSUME NEW n PROVE MayMove(n)' = MayMove(n) /\ Matches(n)' = Matches(n)
  BY TreeStays DEF MayMove, Matches
<1>2. ASSUME NEW n, NEW at, NEW ln, NEW ab, NEW aq
      PROVE  Waits(n, at, ln, ab, aq)' = Waits(n, at, ln, ab, aq)
  BY TreeStays DEF Waits
<1>3. ASSUME NEW n, NEW q PROVE Precedes(n, q)' = Precedes(n, q)
  BY TreeStays DEF Precedes, Coming
<1>4. ASSUME NEW q, NEW ln, NEW ab, NEW aq
      PROVE  /\ \A f : WaitingCall(f, q, ln, ab, aq)' = WaitingCall(f, q, ln, ab, aq)
             /\ \A n : WaitingTimed(n, q, ln, ab, aq)' = WaitingTimed(n, q, ln, ab, aq)
  BY <1>1, <1>2, <1>3 DEF WaitingCall, WaitingTimed
<1>5. ASSUME NEW q, NEW ln, NEW ab, NEW aq
      PROVE  WaitingBy(q, ln, ab, aq)' = WaitingBy(q, ln, ab, aq)
  BY <1>4, TreeStays, CallsStay DEF WaitingBy
<1>6. ASSUME NEW aq PROVE Noted(aq)' = Noted(aq)
  BY TreeStays DEF Noted
<1> QED
  BY <1>5, <1>6 DEF Waiting

\* Acquisitions that are noted later are after n, and what has been settled stays.
LEMMA WaitsOn ==
  ASSUME NEW n \in Nodes, NEW q, Precedes(n, q), NEW at, NEW ln, NEW ab, NEW aq,
         Waits(n, at, length, absolute, acquired),
         \A a \in Nodes : tree[a].kind \in Leaves /\ absolute[a] # None
                            => ab[a] = absolute[a] /\ ln[a] = length[a],
         acquired[tree[n].handle] \in Seq(Nodes),
         \/ aq[tree[n].handle] = acquired[tree[n].handle]
         \/ \E c \in Coming(q) : aq[tree[n].handle] = Append(acquired[tree[n].handle], c)
  PROVE  Waits(n, at, ln, ab, aq)
<1> DEFINE old == acquired[tree[n].handle]
           new == aq[tree[n].handle]
<1>1. PICK k \in 1 .. Len(old) :
        /\ old[k] \in Nodes /\ tree[old[k]].kind \in Leaves
        /\ absolute[old[k]] \in Nat /\ length[old[k]] \in Nat
        /\ \A s \in signals[n] : absolute[old[k]] + length[old[k]] + Latency[s] <= at
        /\ \A l \in 1 .. Len(old) : l > k => old[l] > n
  BY DEF Waits
<1>2. old \in Seq(Nodes) /\ (new = old \/ \E c \in Coming(q) : new = Append(old, c))
  OBVIOUS
<1> HIDE DEF old, new
<1>3. k \in 1 .. Len(new) /\ new[k] = old[k]
      /\ \A l \in 1 .. Len(new) : new[l] \in Coming(q) \/ (l \in 1 .. Len(old) /\ new[l] = old[l])
  <2>1. CASE new = old
    BY <2>1
  <2>2. ASSUME NEW c \in Coming(q), new = Append(old, c)
        PROVE  k \in 1 .. Len(new) /\ new[k] = old[k]
               /\ \A l \in 1 .. Len(new) : new[l] \in Coming(q) \/ (l \in 1 .. Len(old) /\ new[l] = old[l])
    <3>1. Len(old) \in Nat /\ Len(new) = Len(old) + 1
      BY <1>2, <2>2
    <3>2. new[Len(old) + 1] = c /\ \A l \in 1 .. Len(old) : new[l] = old[l]
      BY <1>2, <2>2
    <3>3. k \in 1 .. Len(new) /\ new[k] = old[k]
      BY <3>1, <3>2
    <3>4. ASSUME NEW l \in 1 .. Len(new)
          PROVE  new[l] \in Coming(q) \/ (l \in 1 .. Len(old) /\ new[l] = old[l])
      <4>1. l \in 1 .. Len(old) \/ l = Len(old) + 1
        BY <3>1
      <4> QED
        BY <2>2, <3>2, <4>1
    <3> QED
      BY <3>3, <3>4
  <2> QED
    BY <1>2, <2>1, <2>2
<1>4. absolute[old[k]] # None
  BY <1>1 DEF None
<1>5. ab[old[k]] = absolute[old[k]] /\ ln[old[k]] = length[old[k]]
  BY <1>1, <1>4
<1>6. \A l \in 1 .. Len(new) : l > k => new[l] > n
  BY <1>1, <1>3 DEF Precedes
<1> QED
  BY <1>1, <1>3, <1>5, <1>6 DEF Waits, new

\* From the calls q to the calls r: what has been visited stays so, and a match that
\* is visited now waits.
LEMMA WaitingNext ==
  ASSUME tree \in Experiments, Typed, NEW q, NEW r, NEW ln, NEW ab, NEW aq,
         WaitingBy(q, length, absolute, acquired), Coming(r) \subseteq Coming(q),
         \A i \in 1 .. Len(r) : r[i].node \in Nodes /\ Matches(r[i].node) =>
           \/ \E j \in 1 .. Len(q) : q[j].node = r[i].node /\ q[j].at = r[i].at
           \/ WaitingCall(r[i], r, ln, ab, aq),
         \A i \in 1 .. Len(r) : r[i].node \in Nodes,
         \A n \in Nodes \ Open(r) : Matches(n) =>
           \/ n \notin Open(q) /\ (absolute[n] # None => ab[n] = absolute[n])
           \/ ab[n] # None /\ \E j \in 1 .. Len(q) : q[j].node = n /\ q[j].at = ab[n],
         \A a \in Nodes : tree[a].kind \in Leaves /\ absolute[a] # None
                            => ab[a] = absolute[a] /\ ln[a] = length[a],
         \A h \in DOMAIN acquired :
           aq[h] = acquired[h] \/ \E c \in Coming(q) : aq[h] = Append(acquired[h], c)
  PROVE  WaitingBy(r, ln, ab, aq)
<1>1. ASSUME NEW n \in Nodes, NEW at, Waits(n, at, length, absolute, acquired), Precedes(n, q)
      PROVE  Waits(n, at, ln, ab, aq) /\ Precedes(n, r)
  <2>1. tree[n].handle \in DOMAIN acquired /\ acquired[tree[n].handle] \in Seq(Nodes)
    BY DEF Typed
  <2>2. Waits(n, at, ln, ab, aq)
    BY <1>1, <2>1, WaitsOn
  <2> QED
    BY <1>1, <2>2 DEF Precedes
<1>2. ASSUME NEW i \in 1 .. Len(r) PROVE WaitingCall(r[i], r, ln, ab, aq)
  <2> SUFFICES ASSUME NEW j \in 1 .. Len(q), q[j].node = r[i].node, q[j].at = r[i].at,
                      Matches(r[i].node)
               PROVE  WaitingCall(r[i], r, ln, ab, aq)
    BY DEF WaitingCall
  <2>1. /\ ~MayMove(r[i].node) /\ Waits(r[i].node, r[i].at, length, absolute, acquired)
        /\ Precedes(r[i].node, q)
    BY DEF WaitingBy, WaitingCall
  <2> QED
    BY <2>1, <1>1 DEF WaitingCall
<1>3. ASSUME NEW n \in Nodes \ Open(r) PROVE WaitingTimed(n, r, ln, ab, aq)
  <2> SUFFICES ASSUME Matches(n) PROVE WaitingTimed(n, r, ln, ab, aq)
    BY DEF WaitingTimed
  <2>1. ab[n] # None /\ Waits(n, ab[n], length, absolute, acquired) /\ Precedes(n, q)
    <3>1. CASE n \notin Open(q) /\ (absolute[n] # None => ab[n] = absolute[n])
      BY <3>1 DEF WaitingBy, WaitingTimed
    <3>2. ASSUME ab[n] # None, NEW j \in 1 .. Len(q), q[j].node = n, q[j].at = ab[n]
          PROVE  ab[n] # None /\ Waits(n, ab[n], length, absolute, acquired) /\ Precedes(n, q)
      BY <3>2 DEF WaitingBy, WaitingCall
    <3> QED
      BY <3>1, <3>2
  <2> QED
    BY <2>1, <1>1 DEF WaitingTimed
<1> QED
  BY <1>2, <1>3 DEF WaitingBy

LEMMA ComingNext ==
  ASSUME NEW q \in Seq(FrameType), q # << >>, q[1].todo # << >>,
         NEW g \in FrameType, g.todo = Tail(q[1].todo)
  PROVE  Coming(<<g>> \o Tail(q)) \subseteq Coming(q)
<1> DEFINE r == <<g>> \o Tail(q)
<1>1. /\ Len(r) = Len(q) /\ Len(q) \in Nat \ {0}
      /\ r[1] = g /\ \A i \in 2 .. Len(q) : r[i] = q[i]
  BY NewHead
<1> HIDE DEF r
<1>2. ToSet(Tail(q[1].todo)) \subseteq ToSet(q[1].todo)
  <2> DEFINE t == q[1].todo
  <2>1. t \in Seq(Nodes) /\ t # << >>
    <3>1. q[1] \in FrameType
      BY <1>1
    <3> QED
      BY <3>1 DEF FrameType
  <2> HIDE DEF t
  <2>2. \A j \in DOMAIN Tail(t) : j + 1 \in DOMAIN t /\ Tail(t)[j] = t[j + 1]
    BY <2>1
  <2> QED
    BY <2>2 DEF ToSet, t
<1> SUFFICES ASSUME NEW p \in Nodes, NEW i \in 1 .. Len(q),
                    NEW c \in ToSet(IF i = 1 THEN r[i].todo ELSE Tail(r[i].todo)), p \in Below(c)
             PROVE  p \in Coming(q)
  BY <1>1 DEF Coming, r
<1>3. i = 1 \/ i \in 2 .. Len(q)
  BY <1>1
<1>4. c \in ToSet(IF i = 1 THEN q[i].todo ELSE Tail(q[i].todo))
  BY <1>1, <1>2, <1>3
<1> QED
  BY <1>4 DEF Coming

\* After a return.
LEMMA ComingReturn ==
  ASSUME NEW q \in Seq(FrameType), q # << >>, Tail(q) # << >>, NEW g \in FrameType,
         g.todo = Tail(q[2].todo)
  PROVE  Coming(<<g>> \o Tail(Tail(q))) \subseteq Coming(q)
<1> DEFINE s == Tail(q)
           r == <<g>> \o Tail(s)
<1>1. s \in Seq(FrameType) /\ Len(q) \in Nat \ {0} /\ Len(s) = Len(q) - 1
      /\ \A i \in 1 .. Len(s) : s[i] = q[i + 1]
  OBVIOUS
<1> HIDE DEF s
<1>2. /\ Len(r) = Len(s) /\ Len(s) \in Nat \ {0} /\ r[1] = g
      /\ \A i \in 2 .. Len(s) : r[i] = s[i]
  BY <1>1, NewHead DEF s
<1> HIDE DEF r
<1> SUFFICES ASSUME NEW p \in Nodes, NEW i \in 1 .. Len(s),
                    NEW c \in ToSet(IF i = 1 THEN r[i].todo ELSE Tail(r[i].todo)), p \in Below(c)
             PROVE  p \in Coming(q)
  BY <1>2 DEF Coming, r, s
<1>3. i = 1 \/ i \in 2 .. Len(s)
  BY <1>2
<1>4. i + 1 \in 1 .. Len(q) /\ i + 1 # 1 /\ c \in ToSet(Tail(q[i + 1].todo))
  <2>1. i + 1 \in 1 .. Len(q) /\ i + 1 # 1
    BY <1>1, <1>2
  <2>2. CASE i = 1
    BY <2>1, <2>2, <1>2
  <2>3. CASE i # 1
    BY <2>1, <2>3, <1>1, <1>2, <1>3
  <2> QED
    BY <2>1, <2>2, <2>3
<1> QED
  BY <1>4 DEF Coming

LEMMA ComingBranch ==
  ASSUME tree \in Experiments, NEW q \in Seq(FrameType), q # << >>, q[1].todo # << >>,
         NEW g \in FrameType, g.node = Head(q[1].todo), ToSet(g.todo) = Children(g.node)
  PROVE  /\ g.node \in Coming(q)
         /\ Coming(<<g>> \o q) \subseteq Coming(q)
         /\ \A m \in Coming(<<g>> \o q) :
              \/ \E c \in Children(g.node) : m \in Below(c)
              \/ \E i \in 1 .. Len(q) : \E b \in ToSet(Tail(q[i].todo)) : m \in Below(b)
<1> DEFINE r == <<g>> \o q
           n == g.node
<1>1. /\ Len(q) \in Nat \ {0} /\ Len(r) = Len(q) + 1 /\ r[1] = g
      /\ \A i \in 1 .. Len(q) : r[i + 1] = q[i] /\ q[i] \in FrameType
  OBVIOUS
<1> HIDE DEF r
<1>2. n \in Nodes /\ n \in ToSet(q[1].todo) /\ ToSet(Tail(q[1].todo)) \subseteq ToSet(q[1].todo)
  <2> DEFINE t == q[1].todo
  <2>1. t \in Seq(Nodes) /\ t # << >>
    BY <1>1 DEF FrameType
  <2>2. n = Head(t) /\ n \in Nodes
    BY <2>1 DEF FrameType
  <2> HIDE DEF t, n
  <2>3. \A j \in DOMAIN Tail(t) : j + 1 \in DOMAIN t /\ Tail(t)[j] = t[j + 1]
    BY <2>1
  <2>4. n \in ToSet(t)
    BY <2>1, <2>2 DEF ToSet
  <2>5. ToSet(Tail(t)) \subseteq ToSet(t)
    BY <2>3 DEF ToSet
  <2> QED
    BY <2>2, <2>4, <2>5 DEF t
<1>3. Below(n) \subseteq Coming(q) /\ n \in Below(n)
  <2>1. Below(n) \subseteq Nodes /\ n \in Below(n)
    BY <1>2, BelowIs, BelowWays
  <2>2. 1 \in 1 .. Len(q)
    BY <1>1
  <2> QED
    BY <2>1, <2>2, <1>2 DEF Coming
<1>4. ASSUME NEW m \in Coming(r)
      PROVE  /\ m \in Coming(q)
             /\ \/ \E c \in Children(n) : m \in Below(c)
                \/ \E i \in 1 .. Len(q) : \E b \in ToSet(Tail(q[i].todo)) : m \in Below(b)
  <2>0. PICK i \in 1 .. Len(r) :
          \E c \in ToSet(IF i = 1 THEN r[i].todo ELSE Tail(r[i].todo)) : m \in Below(c)
    BY DEF Coming
  <2>1. PICK c \in ToSet(IF i = 1 THEN r[i].todo ELSE Tail(r[i].todo)) : m \in Below(c) /\ m \in Nodes
    BY <2>0 DEF Coming
  <2>2. CASE i = 1
    <3>1. c \in Children(n)
      BY <2>1, <2>2, <1>1
    <3>2. Below(c) \subseteq Below(n)
      BY <3>1, <1>2, BelowWays
    <3> QED
      BY <2>1, <3>1, <3>2, <1>3
  <2>3. CASE i # 1
    <3> DEFINE j == i - 1
    <3>1. j \in 1 .. Len(q) /\ i = j + 1
      BY <2>1, <2>3, <1>1
    <3> HIDE DEF j
    <3>2. c \in ToSet(Tail(q[j].todo))
      BY <2>1, <2>3, <3>1, <1>1
    <3>3. c \in ToSet(IF j = 1 THEN q[j].todo ELSE Tail(q[j].todo))
      BY <3>2, <1>2
    <3> QED
      BY <2>1, <3>1, <3>2, <3>3 DEF Coming
  <2> QED
    BY <2>2, <2>3
<1> QED
  BY <1>3, <1>4 DEF r, n

\* Everything in a child is before the next child.
LEMMA Numbered ==
  ASSUME tree \in Experiments, NEW p \in Nodes, NEW a \in Children(p), NEW b \in Children(p),
         Index(p, a) < Index(p, b), NEW m \in Below(a)
  PROVE  m < b
<1> DEFINE i == Index(p, a)
           j == Index(p, b)
           S == {k \in Nodes : k < b}
<1>1. /\ i \in DOMAIN tree[p].children /\ j \in DOMAIN tree[p].children /\ i < j
      /\ tree[p].children[i] = a /\ tree[p].children[j] = b
      /\ a \in Nodes /\ b \in Nodes /\ a \in Int /\ b \in Int
  BY Indices, Shape
<1> HIDE DEF i, j
<1>2. /\ a < b
      /\ \A k \in Nodes : a <= k /\ k < b => \A c \in Children(k) : c < b
  BY <1>1, NumberingAssumption DEF Nodes, Children
<1>3. a \in S /\ S \in SUBSET Nodes
  BY <1>1, <1>2
<1>4. ASSUME NEW k \in S \cap Below(a) PROVE Children(k) \subseteq S
  <2>1. k \in Nodes /\ k >= a /\ k < b /\ k \in Int
    BY <1>1, BelowIsLater, Shape
  <2>2. a <= k
    BY <2>1, <1>1
  <2>3. \A c \in Children(k) : c \in Nodes
    BY <2>1, Shape
  <2> QED
    BY <2>1, <2>2, <2>3, <1>2
<1> HIDE DEF S
<1>5. Below(a) \subseteq S
  BY <1>1, <1>3, <1>4, DownFrom
<1> QED
  BY <1>5 DEF S

\* Nothing around the child x that is visited is right-aligned: what is still to come
\* is after x.
LEMMA ComesLater ==
  ASSUME tree \in Experiments, NEW q, Nested(q), q # << >>, q[1].todo # << >>,
         ~MayMove(Head(q[1].todo))
  PROVE  \A i \in 1 .. Len(q) : \A b \in ToSet(Tail(q[i].todo)) : \A m \in Below(b) :
           Head(q[1].todo) < m
<1> DEFINE x == Head(q[1].todo)
           Good(i) == q[i].todo # << >> /\ x \in Below(Head(q[i].todo))
           Bad == {i \in 1 .. Len(q) : ~Good(i)}
<1>1. /\ Len(q) \in Nat /\ 1 \in 1 .. Len(q)
      /\ \A i \in 1 .. Len(q) : q[i] \in FrameType /\ q[i].node \in Nodes /\ Progress(q[i])
  <2>1. Len(q) \in Nat /\ 1 \in 1 .. Len(q) /\ \A i \in 1 .. Len(q) : q[i] \in FrameType /\ Progress(q[i])
    BY DEF Nested
  <2> QED
    BY <2>1 DEF FrameType
<1>2. ASSUME NEW i \in 1 .. Len(q), q[i].todo # << >>
      PROVE  LET f == q[i]
                 h == Head(f.todo)
             IN  /\ h \in Children(f.node) /\ h \in Nodes
                 /\ \A b \in ToSet(Tail(f.todo)) :
                      /\ b \in Children(f.node)
                      /\ ~RightArranged(f.node) => Index(f.node, h) < Index(f.node, b)
  <2> DEFINE f == q[i]
             h == Head(f.todo)
             g == [node |-> f.node, todo |-> Tail(f.todo)]
  <2>1. f.node \in Nodes /\ Progress(f) /\ f.todo # << >> /\ g.node = f.node /\ g.todo = Tail(f.todo)
    BY <1>1, <1>2
  <2> HIDE DEF f, g
  <2>2. /\ h \in Children(f.node) /\ Progress(g) /\ Visited(g) = Visited(f) \cup {h}
        /\ \A b \in Children(f.node) :
             ~RightArranged(f.node) => (Index(f.node, b) < Index(f.node, h) <=> b \in Visited(f))
    BY <2>1, Step
  <2>3. ToSet(g.todo) \subseteq Children(f.node)
    BY <2>1, <2>2, Ahead
  <2>4. ASSUME NEW b \in ToSet(Tail(f.todo)), ~RightArranged(f.node)
        PROVE  Index(f.node, h) < Index(f.node, b)
    <3>1. b \in Children(f.node) /\ b \notin Visited(g)
      BY <2>1, <2>3, <2>4 DEF Visited
    <3>2. ~(Index(f.node, b) < Index(f.node, h)) /\ b # h
      BY <2>2, <2>4, <3>1
    <3>3. /\ Index(f.node, b) \in Int /\ tree[f.node].children[Index(f.node, b)] = b
          /\ Index(f.node, h) \in Int /\ tree[f.node].children[Index(f.node, h)] = h
      BY <2>1, <2>2, <3>1, Indices
    <3>4. Index(f.node, b) # Index(f.node, h)
      BY <3>2, <3>3
    <3> QED
      BY <3>2, <3>3, <3>4
  <2>5. h \in Nodes
    BY <2>1, <2>2, Shape
  <2> QED
    BY <2>1, <2>2, <2>3, <2>4, <2>5 DEF f
<1>3. Bad = {}
  <2> SUFFICES ASSUME Bad # {} PROVE FALSE
    OBVIOUS
  <2>1. PICK i \in Bad : \A k \in Bad : i <= k
    <3>1. Bad \in SUBSET Nat
      OBVIOUS
    <3> HIDE DEF Bad
    <3> QED
      BY <3>1, Least
  <2>2. i \in 1 .. Len(q) /\ ~Good(i)
    OBVIOUS
  <2>3. i # 1
    <3>1. x \in Nodes
      BY <1>1, <1>2
    <3> QED
      BY <3>1, <2>2, BelowWays
  <2> DEFINE j == i - 1
  <2>4. j \in 1 .. Len(q) /\ j \in 1 .. Len(q) - 1 /\ j + 1 = i /\ ~(i <= j)
    BY <2>2, <2>3, <1>1
  <2>5. j \notin Bad
    <3> HIDE DEF Bad, j
    <3> QED
      BY <2>1, <2>4
  <2>6. Good(j)
    BY <2>4, <2>5
  <2>7. q[j + 1].todo # << >> /\ q[j].node = Head(q[j + 1].todo)
    BY <2>4 DEF Nested
  <2>8. q[i].todo # << >> /\ q[j].node = Head(q[i].todo)
    BY <2>4, <2>7
  <2> HIDE DEF j
  <2>9. Head(q[j].todo) \in Children(q[j].node) /\ q[j].node \in Nodes
    BY <2>4, <2>6, <1>1, <1>2
  <2>10. x \in Below(q[j].node)
    BY <2>6, <2>9, BelowWays
  <2> QED
    BY <2>2, <2>8, <2>10
<1> SUFFICES ASSUME NEW i \in 1 .. Len(q), NEW b \in ToSet(Tail(q[i].todo)), NEW m \in Below(b)
             PROVE  x < m
  OBVIOUS
<1>4. Good(i)
  BY <1>3
<1> DEFINE n == q[i].node
           h == Head(q[i].todo)
<1>5. /\ n \in Nodes /\ h \in Children(n) /\ h \in Nodes /\ b \in Children(n) /\ x \in Below(h)
      /\ ~RightArranged(n) => Index(n, h) < Index(n, b)
  BY <1>1, <1>2, <1>4
<1>6. x \in Nodes /\ ~MayMove(x)
  BY <1>1, <1>2, <1>4, BelowIsLater
<1> HIDE DEF n, h, x
<1>7. x \in Below(n) \ {n}
  <2>1. x >= h /\ n < h /\ n \in Int /\ h \in Int /\ x \in Int
    BY <1>5, <1>6, BelowIsLater, Families, Shape
  <2>2. Below(h) \subseteq Below(n)
    BY <1>5, BelowWays
  <2> QED
    BY <2>1, <2>2, <1>5
<1>8. ~RightArranged(n)
  BY <1>5, <1>6, <1>7 DEF MayMove
<1>9. x < b
  BY <1>5, <1>8, Numbered
<1>10. b \in Nodes /\ m >= b /\ m \in Nodes
  <2>1. b \in Nodes
    BY <1>5, Shape
  <2> QED
    BY <2>1, BelowIsLater
<1>11. b \in Int /\ m \in Int /\ x \in Int
  BY <1>6, <1>10, Shape
<1> QED
  BY <1>9, <1>10, <1>11

LEMMA WaitingAtFirst == Init => Waiting
<1> SUFFICES ASSUME Init PROVE Waiting
  OBVIOUS
<1>1. tree \in Experiments
  BY Starts DEF Inv, Built
<1> DEFINE f == Call(1, 0, FALSE)
<1>2. stack = <<f>> /\ \A h \in DOMAIN acquired : acquired[h] = << >>
  BY DEF Init
<1>3. 1 \in Nodes /\ tree[1].kind = "root" /\ tree[1].kind \notin Leaves
  BY <1>1, Shape DEF Leaves
<1>4. f.node = 1 /\ ToSet(f.todo) = Children(1)
  BY <1>1, <1>3, NewCall
<1> HIDE DEF f
<1>5. \A i \in 1 .. Len(stack) : stack[i] = f
  BY <1>2
<1>6. WaitingCall(f, stack, length, absolute, acquired)
  BY <1>3, <1>4 DEF WaitingCall, Matches
<1>7. Open(stack) = Nodes
  <2>1. Below(1) = Nodes /\ Below(1) = {1} \cup UNION {Below(c) : c \in Children(1)}
    BY <1>1, <1>3, Everything, BelowIs
  <2>2. 1 \in 1 .. Len(stack) /\ stack[1] = f
    BY <1>2
  <2>3. ASSUME NEW p \in Nodes PROVE p \in Open(stack)
    <3>1. p = 1 \/ \E c \in Children(1) : p \in Below(c)
      BY <2>1
    <3> QED
      BY <3>1, <2>2, <1>4 DEF Open
  <2> QED
    BY <2>3 DEF Open
<1>8. Noted(acquired)
  BY <1>2 DEF Noted
<1> QED
  BY <1>5, <1>6, <1>7, <1>8 DEF Waiting, WaitingBy

LEMMA RefusedWaiting ==
  ASSUME Waiting, Refuse
  PROVE  Waiting'
<1>1. /\ UNCHANGED built /\ length' = length /\ absolute' = absolute /\ stack' = stack
      /\ acquired' = acquired
  BY DEF Refuse
<1> QED
  BY <1>1, WaitingContinues DEF Waiting

LEMMA BranchWaiting ==
  ASSUME Inv, Told, Waiting, VisitBranch
  PROVE  Waiting'
<1> DEFINE c == Next1
           at == CalledAt(Top, c)
           mc == MayChange(Top, c)
           g == Call(c, at, mc)
           q == stack
           r == <<g>> \o stack
<1>1. /\ Visiting /\ ~Refused(Top, c) /\ tree[c].kind \notin Leaves
      /\ stack' = r /\ outcome = "running"
      /\ UNCHANGED built /\ length' = length /\ absolute' = absolute /\ acquired' = acquired
  BY DEF VisitBranch, Visiting
<1>2. /\ stack # << >> /\ stack \in Seq(FrameType) /\ Len(stack) \in Nat \ {0} /\ Top = stack[1]
      /\ Top \in FrameType /\ Top.node \in Nodes /\ Progress(Top) /\ Top.todo # << >>
      /\ c = Head(Top.todo) /\ c \in Nodes \ {1} /\ at \in Nat
      /\ mc <=> MayMove(c)
      /\ tree \in Experiments /\ Built
  BY <1>1, ToldChild
<1>3. mc \in BOOLEAN
  BY <1>2 DEF MayChange, FrameType
<1>4. g \in FrameType /\ g.node = c /\ g.at = at /\ ToSet(g.todo) = Children(c)
  <2>1. g \in FrameType /\ g.node = c /\ ToSet(g.todo) = Children(c)
    BY <1>1, <1>2, <1>3, NewCall
  <2> QED
    BY <2>1 DEF Call
<1>5. Typed /\ Nested(stack) /\ Noted(acquired) /\ WaitingBy(stack, length, absolute, acquired)
  <2>1. Calling(stack, start, length)
    BY DEF Inv, Calls
  <2> QED
    BY <2>1, CallingIsNested DEF Inv, Waiting
<1>6. Matches(c) => /\ ~mc /\ at >= EarliestMatch(c)
                    /\ Acquisitions(c) # << >> /\ absolute[Last(Acquisitions(c))] # None
  <2>1. Matches(c) => ~mc /\ Acquisitions(c) # << >> /\ absolute[Last(Acquisitions(c))] # None
    BY <1>1 DEF Refused
  <2>2. Placing(Top, start, length)
    BY <1>2, StackIs
  <2>3. Matches(c) => at >= EarliestMatch(c)
    BY <1>1, <1>2, <1>5, <2>2, Asked
  <2> QED
    BY <2>1, <2>3
<1>7. Coming(r) \subseteq Coming(q)
      /\ \A m \in Coming(r) : \/ \E b \in Children(c) : m \in Below(b)
                              \/ \E i \in 1 .. Len(q) : \E b \in ToSet(Tail(q[i].todo)) : m \in Below(b)
  BY <1>2, <1>4, ComingBranch
<1>8. Len(r) = Len(q) + 1 /\ r[1] = g /\ \A i \in 1 .. Len(q) : r[i + 1] = q[i]
  BY <1>2, <1>4
<1>9. Open(q) \subseteq Open(r)
  BY <1>2, <1>4, OpenBranch
<1> HIDE DEF c, at, mc, g, r
<1>10. ASSUME Matches(c) PROVE Waits(c, at, length, absolute, acquired)
  <2> DEFINE noted == acquired[tree[c].handle]
             k == Len(noted)
             a == noted[k]
  <2>1. tree[c].handle \in DOMAIN acquired /\ noted \in Seq(Nodes) /\ noted = Acquisitions(c)
    BY <1>2, <1>5 DEF Typed, Acquisitions
  <2>2. k \in 1 .. Len(noted) /\ Last(noted) = a
    BY <2>1, <1>6, <1>10 DEF Last
  <2>3. a \in Nodes /\ tree[a].kind \in {"acquire", "group"}
    BY <2>1, <2>2, <1>5 DEF Noted
  <2>4. absolute[a] \in Nat /\ length[a] \in Nat
    BY <2>1, <2>2, <2>3, <1>5, <1>6, <1>10 DEF Typed
  <2>5. \A s \in signals[c] : absolute[a] + length[a] + Latency[s] <= EarliestMatch(c)
    BY <2>1, <2>2, <1>2, <1>5, <1>6, <1>10, Earliest
  <2>6. \A s \in signals[c] : Latency[s] \in Nat
    BY <1>2, Facts, GridAssumption
  <2>7. EarliestMatch(c) \in Nat
    BY <1>2, <1>5, <1>6, <1>10, Earliest
  <2> HIDE DEF a, k, noted
  <2>8. \A s \in signals[c] : absolute[a] + length[a] + Latency[s] <= at
    BY <2>4, <2>5, <2>6, <2>7, <1>2, <1>6, <1>10
  <2>9. tree[a].kind \in Leaves
    BY <2>3 DEF Leaves
  <2>10. \A l \in 1 .. Len(noted) : ~(l > k)
    BY <2>1 DEF k
  <2> QED
    BY <2>2, <2>3, <2>4, <2>8, <2>9, <2>10 DEF Waits, noted, a
<1>11. ASSUME Matches(c) PROVE Precedes(c, r)
  <2> SUFFICES ASSUME NEW m \in Coming(r) PROVE c < m
    BY DEF Precedes
  <2>1. CASE \E b \in Children(c) : m \in Below(b)
    <3>1. PICK b \in Children(c) : m \in Below(b)
      BY <2>1
    <3>2. b \in Nodes /\ c < b
      BY <1>2, Families
    <3>3. m >= b /\ m \in Nodes
      BY <3>1, <3>2, <1>2, BelowIsLater
    <3>4. c \in Int /\ b \in Int /\ m \in Int
      BY <3>2, <3>3, <1>2, Shape
    <3> QED
      BY <3>2, <3>3, <3>4
  <2>2. CASE \E i \in 1 .. Len(q) : \E b \in ToSet(Tail(q[i].todo)) : m \in Below(b)
    <3>1. ~MayMove(c) /\ q[1].todo # << >> /\ c = Head(q[1].todo)
      BY <1>2, <1>6, <1>11
    <3> QED
      BY <2>2, <3>1, <1>2, <1>5, ComesLater
  <2> QED
    BY <2>1, <2>2, <1>7
<1>12. WaitingCall(g, r, length, absolute, acquired)
  BY <1>2, <1>4, <1>6, <1>10, <1>11 DEF WaitingCall
<1>13. ASSUME NEW i \in 1 .. Len(r)
       PROVE  /\ r[i].node \in Nodes
              /\ \/ \E j \in 1 .. Len(q) : q[j].node = r[i].node /\ q[j].at = r[i].at
                 \/ WaitingCall(r[i], r, length, absolute, acquired)
  <2>1. CASE i = 1
    BY <2>1, <1>2, <1>4, <1>8, <1>12
  <2>2. CASE i # 1
    <3> DEFINE j == i - 1
    <3>1. j \in 1 .. Len(q) /\ i = j + 1
      BY <2>2, <1>2, <1>8
    <3> HIDE DEF j
    <3>2. r[i] = q[j] /\ q[j] \in FrameType
      BY <3>1, <1>2, <1>8
    <3>3. q[j].node \in Nodes
      BY <3>2 DEF FrameType
    <3> QED
      BY <3>1, <3>2, <3>3
  <2> QED
    BY <2>1, <2>2
<1>14. WaitingBy(r, length, absolute, acquired)
  <2>1. \A n \in Nodes \ Open(r) : Matches(n) =>
          n \notin Open(q) /\ (absolute[n] # None => absolute[n] = absolute[n])
    BY <1>9
  <2> DEFINE ln == length
             ab == absolute
             aq == acquired
  <2>2. \A h \in DOMAIN acquired : aq[h] = acquired[h]
    OBVIOUS
  <2>3. \A a \in Nodes : tree[a].kind \in Leaves /\ absolute[a] # None
                           => ab[a] = absolute[a] /\ ln[a] = length[a]
    OBVIOUS
  <2>4. WaitingBy(q, length, absolute, acquired)
    BY <1>5
  <2> HIDE DEF q, ln, ab, aq
  <2>5. WaitingBy(r, ln, ab, aq)
    BY <2>1, <2>2, <2>3, <2>4, <1>2, <1>5, <1>7, <1>13, WaitingNext DEF ln, ab, aq
  <2> QED
    BY <2>5 DEF ln, ab, aq
<1> QED
  BY <1>1, <1>5, <1>14, WaitingContinues

LEMMA LeafWaiting ==
  ASSUME Inv, Told, Waiting, VisitLeaf
  PROVE  Waiting'
<1> DEFINE c == Next1
           at == CalledAt(Top, c)
           len == LeafLength(c)
           place == Placed(Top, c, at, len)
           g == Advance(Top, c, at, len)
           q == stack
           r == <<g>> \o Tail(stack)
<1>1. /\ Visiting /\ ~Refused(Top, c) /\ tree[c].kind \in Leaves
      /\ length' = [length EXCEPT ![c] = len]
      /\ absolute' = IF MayChange(Top, c) THEN absolute ELSE [absolute EXCEPT ![c] = at]
      /\ acquired' = IF tree[c].kind \in {"acquire", "group"} /\ tree[c].handle # ""
                     THEN [acquired EXCEPT ![tree[c].handle] = Append(@, c)] ELSE acquired
      /\ stack' = r /\ UNCHANGED built
  BY DEF VisitLeaf
<1>2. /\ stack # << >> /\ stack \in Seq(FrameType) /\ Len(stack) \in Nat \ {0} /\ Top = stack[1]
      /\ Top \in FrameType /\ Top.node \in Nodes /\ Progress(Top) /\ Top.todo # << >>
      /\ c = Head(Top.todo) /\ c \in Children(Top.node) /\ c \in Nodes /\ at \in Nat
      /\ absolute[c] = None
      /\ tree \in Experiments /\ Built
  BY <1>1, ToldChild
<1>3. /\ Typed /\ Noted(acquired) /\ WaitingBy(q, length, absolute, acquired)
      /\ start \in [Nodes -> Int]
      /\ length \in [Nodes -> Nat \cup {None}] /\ absolute \in [Nodes -> Nat \cup {None}]
      /\ DOMAIN acquired = {tree[n].handle : n \in Nodes}
      /\ \A h \in DOMAIN acquired : acquired[h] \in Seq(Nodes)
  BY DEF Inv, Waiting, Typed
<1>4. len \in Nat
  <2>1. CASE tree[c].kind \in {"reserve", "clear"}
    BY <2>1 DEF LeafLength
  <2>2. CASE tree[c].kind = "empty"
    BY <2>2, <1>2, Facts DEF LeafLength
  <2>3. CASE tree[c].kind \in {"play", "acquire", "group", "reset"}
    BY <2>3, <1>2, <1>3 DEF LeafLength, Typed
  <2> QED
    BY <2>1, <2>2, <2>3, <1>1 DEF Leaves
<1> HIDE DEF c, at, len
<1>5. place \in Int
  <2> DEFINE f == Top
  <2>1. f \in FrameType /\ c \in Children(f.node)
    BY <1>2
  <2>2. f.at \in Nat
    BY <1>2 DEF FrameType
  <2> HIDE DEF f
  <2>3. RightStart(f, c, len) \in Int
    BY <2>1, <1>2, <1>3, <1>4, RightBound
  <2>4. Placed(f, c, at, len) \in Int
    BY <2>2, <2>3, <1>2 DEF Placed
  <2> QED
    BY <2>4 DEF f
<1>6. g \in FrameType /\ g.node = Top.node /\ g.at = Top.at /\ g.todo = Tail(Top.todo)
  BY <1>2, <1>4, <1>5, Advanced
<1> HIDE DEF place, g
<1>7. /\ Len(r) = Len(q) /\ r[1] = g /\ \A i \in 2 .. Len(q) : r[i] = q[i]
  BY <1>2, <1>6, NewHead
<1>8. Coming(r) \subseteq Coming(q)
  BY <1>2, <1>6, ComingNext
<1>9. c \in Coming(q) /\ Below(c) = {c}
  <2>1. tree[c].children = << >>
    BY <1>1, <1>2, KindAssumption DEF Nodes
  <2>2. Children(c) = {}
    BY <2>1 DEF Children, ToSet
  <2>3. Below(c) = {c}
    BY <2>2, <1>2, BelowIs
  <2>4. c \in ToSet(Top.todo)
    <3>1. Top.todo \in Seq(Nodes)
      BY <1>2 DEF FrameType
    <3> QED
      BY <3>1, <1>2 DEF ToSet
  <2>5. 1 \in 1 .. Len(q) /\ c \in Below(c)
    BY <1>2, <2>3
  <2> QED
    BY <2>3, <2>4, <2>5, <1>2 DEF Coming
<1>10. Open(q) \subseteq Open(r) \cup {c}
  <2>1. Open(q) \subseteq Pending(q) \cup {c}
    BY <1>2, <1>9, OpenNow
  <2>2. Pending(q) \subseteq Open(r)
    BY <1>2, <1>6, StillOpen
  <2> QED
    BY <2>1, <2>2
<1> DEFINE ln == length'
           ab == absolute'
           aq == acquired'
<1>11. \A m \in Nodes \ {c} : ln[m] = length[m] /\ ab[m] = absolute[m]
  BY <1>1, <1>2, <1>3
<1>12. ~Matches(c)
  BY <1>1 DEF Matches, Leaves
<1>13. \A h \in DOMAIN acquired : aq[h] = acquired[h]
         \/ (aq[h] = Append(acquired[h], c) /\ tree[c].kind \in {"acquire", "group"})
  BY <1>1
<1>14. DOMAIN aq = DOMAIN acquired
  BY <1>1
<1> HIDE DEF q, r
<1>15. ASSUME NEW i \in 1 .. Len(r)
       PROVE  r[i].node \in Nodes /\ \E j \in 1 .. Len(q) : q[j].node = r[i].node /\ q[j].at = r[i].at
  <2>1. i \in 1 .. Len(q) /\ q[i].node = r[i].node /\ q[i].at = r[i].at
    <3>1. CASE i = 1
      BY <3>1, <1>2, <1>6, <1>7 DEF q
    <3>2. CASE i # 1
      <4>1. i \in 2 .. Len(q)
        BY <3>2, <1>2, <1>7 DEF q
      <4> QED
        BY <4>1, <1>7
    <3> QED
      BY <3>1, <3>2
  <2>2. q[i] \in FrameType
    BY <2>1, <1>2 DEF q
  <2>3. q[i].node \in Nodes
    BY <2>2 DEF FrameType
  <2> QED
    BY <2>1, <2>3
<1>16. \A n \in Nodes \ Open(r) : Matches(n) =>
         \/ n \notin Open(q) /\ (absolute[n] # None => ab[n] = absolute[n])
         \/ ab[n] # None /\ \E j \in 1 .. Len(q) : q[j].node = n /\ q[j].at = ab[n]
  BY <1>10, <1>11, <1>12
<1>17. Noted(aq)
  <2> SUFFICES ASSUME NEW h \in DOMAIN acquired, NEW k \in 1 .. Len(aq[h])
               PROVE  aq[h][k] \in Nodes /\ tree[aq[h][k]].kind \in {"acquire", "group"}
    BY <1>14 DEF Noted
  <2> DEFINE old == acquired[h]
             new == aq[h]
  <2>1. old \in Seq(Nodes) /\ (new = old \/ (new = Append(old, c) /\ tree[c].kind \in {"acquire", "group"}))
    BY <1>3, <1>13
  <2>2. \A l \in 1 .. Len(old) : old[l] \in Nodes /\ tree[old[l]].kind \in {"acquire", "group"}
    BY <1>3 DEF Noted
  <2>3. k \in 1 .. Len(new)
    OBVIOUS
  <2> HIDE DEF old, new
  <2>4. CASE new = old
    BY <2>2, <2>3, <2>4 DEF new
  <2>5. CASE new = Append(old, c) /\ tree[c].kind \in {"acquire", "group"}
    <3>1. new[k] = c \/ (k \in 1 .. Len(old) /\ new[k] = old[k])
      BY <2>1, <2>3, <2>5
    <3> QED
      BY <3>1, <2>2, <2>5, <1>2 DEF new
  <2> QED
    BY <2>1, <2>4, <2>5
<1> HIDE DEF ln, ab, aq
<1>18. WaitingBy(r, ln, ab, aq)
  <2>1. \A a \in Nodes : tree[a].kind \in Leaves /\ absolute[a] # None
                           => ab[a] = absolute[a] /\ ln[a] = length[a]
    BY <1>2, <1>11
  <2>2. \A h \in DOMAIN acquired :
          aq[h] = acquired[h] \/ \E b \in Coming(q) : aq[h] = Append(acquired[h], b)
    BY <1>9, <1>13
  <2>3. /\ tree \in Experiments /\ Typed /\ WaitingBy(q, length, absolute, acquired)
        /\ Coming(r) \subseteq Coming(q)
    BY <1>2, <1>3, <1>8
  <2>4. \A i \in 1 .. Len(r) : r[i].node \in Nodes
    BY <1>15
  <2>5. \A i \in 1 .. Len(r) : r[i].node \in Nodes /\ Matches(r[i].node) =>
          \/ \E j \in 1 .. Len(q) : q[j].node = r[i].node /\ q[j].at = r[i].at
          \/ WaitingCall(r[i], r, ln, ab, aq)
    BY <1>15
  <2> QED
    BY <2>1, <2>2, <2>3, <2>4, <2>5, <1>16, WaitingNext
<1> QED
  BY <1>1, <1>17, <1>18, WaitingContinues DEF r, ln, ab, aq

\* What returns, if it is a match, starts where it was called.
LEMMA ReturnedWaiting ==
  ASSUME Inv, Told, Waiting, Top.todo = << >>, outcome = "running", tree[Top.node].kind # "root",
         NEW st \in [Nodes -> Int], NEW len \in Nat, NEW ln \in [Nodes -> Nat \cup {None}],
         \A a \in Nodes : tree[a].kind \in Leaves => ln[a] = length[a],
         tree[Parent(Top.node)].kind = "unrolled" =>
           Adjusted(Top.node, len, IterationLength(Parent(Top.node), len)) \in Nat,
         Return(len, st, ln)
  PROVE  Waiting'
<1> DEFINE n == Top.node
           at == Top.at
           caller == stack[2]
           final == IF tree[caller.node].kind = "unrolled"
                    THEN Adjusted(n, len, IterationLength(caller.node, len)) ELSE len
           place == Placed(caller, n, at, final)
           g == Advance(caller, n, at, final)
           s == Tail(stack)
           q == stack
           r == <<g>> \o Tail(s)
<1>0. /\ tree \in Experiments /\ Built /\ Typed /\ Calling(stack, start, length) /\ stack # << >>
      /\ start \in [Nodes -> Int] /\ absolute \in [Nodes -> Nat \cup {None}]
      /\ length \in [Nodes -> Nat \cup {None}]
      /\ ToldBy(stack, start, absolute)
      /\ Noted(acquired) /\ WaitingBy(q, length, absolute, acquired)
  BY DEF Inv, Built, Calls, Typed, Told, Waiting
<1>1. /\ Top \in FrameType /\ n \in Nodes /\ at \in Nat /\ stack \in Seq(FrameType) /\ Top = stack[1]
      /\ Len(stack) \in Nat \ {0} /\ 1 \in 1 .. Len(stack)
      /\ Progress(Top)
  <2>1. Top \in FrameType /\ stack \in Seq(FrameType) /\ Top = stack[1]
        /\ Progress(Top) /\ Len(stack) \in Nat \ {0}
    BY <1>0, StackIs
  <2> QED
    BY <2>1 DEF FrameType
<1>2. /\ absolute' = IF Top.mayChange THEN absolute ELSE FixedFrom(n, at, st)
      /\ length' = [ln EXCEPT ![n] = final]
      /\ stack' = << g >> \o SubSeq(stack, 3, Len(stack))
      /\ UNCHANGED built /\ acquired' = acquired
  BY DEF Return
<1>3. /\ Calling(s, start, length) /\ s # << >> /\ s[1] = caller /\ caller \in FrameType
      /\ Called(caller, n, at, start, length)
      /\ SubSeq(stack, 3, Len(stack)) = Tail(s)
      /\ Open(stack) \subseteq Pending(s) \cup {n}
      /\ Parent(n) = caller.node /\ caller.node \in Nodes /\ n \in Children(caller.node)
  BY <1>0, Callers
<1>4. s \in Seq(FrameType) /\ caller.todo # << >> /\ n = Head(caller.todo) /\ caller.at \in Nat
  BY <1>3 DEF Called, Calling, FrameType
<1>5. final \in Nat
  BY <1>3
<1>6. place \in Int
  <2>1. RightArranged(caller.node) => RightStart(caller, n, final) \in Int
    BY <1>0, <1>3, <1>5, RightBound
  <2> QED
    BY <2>1, <1>1, <1>4 DEF Placed
<1> HIDE DEF final
<1>7. /\ g \in FrameType /\ g.node = caller.node /\ g.at = caller.at /\ g.todo = Tail(caller.todo)
  BY <1>0, <1>3, <1>4, <1>5, <1>6, Advanced
<1> HIDE DEF n, at, caller, place, g
<1>8. Len(s) = Len(stack) - 1 /\ \A i \in 1 .. Len(s) : s[i] = stack[i + 1]
  BY <1>0, <1>1
<1>9. stack' = r /\ Coming(r) \subseteq Coming(q)
  <2>1. g.todo = Tail(q[2].todo)
    BY <1>7 DEF caller
  <2>2. Coming(<<g>> \o Tail(Tail(q))) \subseteq Coming(q)
    BY <2>1, <1>0, <1>1, <1>3, <1>7, ComingReturn
  <2> QED
    BY <2>2, <1>2, <1>3
<1> HIDE DEF s
<1>10. /\ Len(r) = Len(s) /\ Len(s) \in Nat \ {0} /\ r[1] = g
       /\ \A i \in 2 .. Len(s) : r[i] = s[i]
  BY <1>3, <1>4, <1>7, NewHead
<1>11. Open(q) \subseteq Open(r) \cup {n}
  <2>1. Pending(s) \subseteq Open(r)
    BY <1>3, <1>4, <1>7, StillOpen
  <2> QED
    BY <2>1, <1>3
<1> HIDE DEF q, r
<1>12. ASSUME NEW i \in 1 .. Len(r)
       PROVE  r[i].node \in Nodes /\ \E j \in 1 .. Len(q) : q[j].node = r[i].node /\ q[j].at = r[i].at
  <2>1. s[i].node = r[i].node /\ s[i].at = r[i].at /\ i \in 1 .. Len(s)
    <3>1. CASE i = 1
      BY <3>1, <1>3, <1>7, <1>10
    <3>2. CASE i # 1
      <4>1. i \in 2 .. Len(s)
        BY <3>2, <1>10
      <4> QED
        BY <4>1, <1>10
    <3> QED
      BY <3>1, <3>2
  <2>2. s[i] = q[i + 1] /\ i + 1 \in 1 .. Len(q)
    BY <2>1, <1>1, <1>8 DEF q
  <2>3. s[i] \in FrameType
    BY <2>1, <1>4
  <2>4. s[i].node \in Nodes
    BY <2>3 DEF FrameType
  <2> QED
    BY <2>1, <2>2, <2>4
<1> DEFINE l1 == length'
           ab == absolute'
           aq == acquired'
<1>13. \A m \in Nodes : absolute[m] # None => ab[m] = absolute[m]
  BY <1>2 DEF FixedFrom
<1>14. ASSUME Matches(n)
       PROVE  ab[n] # None /\ \E j \in 1 .. Len(q) : q[j].node = n /\ q[j].at = ab[n]
  <2>1. ~MayMove(n) /\ (Top.mayChange <=> MayMove(n))
    BY <1>0, <1>1, <1>14 DEF WaitingBy, WaitingCall, ToldBy, ToldCall, n, q
  <2>2. absolute[n] = None
    BY <1>0, <1>1, WereOpen DEF ToldBy, n
  <2>3. PositionsFrom(n, at, st)[n] = at /\ n \in Below(n)
    BY <1>0, <1>1, Positions, BelowWays
  <2>4. ab[n] = at
    BY <2>1, <2>2, <2>3, <1>1, <1>2 DEF FixedFrom
  <2>5. at # None
    BY <1>1 DEF None
  <2> QED
    BY <2>4, <2>5, <1>1 DEF q, n, at
<1>15. \A a \in Nodes : tree[a].kind \in Leaves => l1[a] = length[a]
  <2>1. tree[n].kind \notin Leaves
    BY <1>1 DEF Progress, n
  <2> QED
    BY <2>1, <1>2
<1> HIDE DEF l1, ab, aq
<1>16. WaitingBy(r, l1, ab, aq)
  <2>1. \A h \in DOMAIN acquired : aq[h] = acquired[h]
    BY <1>2 DEF aq
  <2>2. \A m \in Nodes \ Open(r) : Matches(m) =>
          \/ m \notin Open(q) /\ (absolute[m] # None => ab[m] = absolute[m])
          \/ ab[m] # None /\ \E j \in 1 .. Len(q) : q[j].node = m /\ q[j].at = ab[m]
    BY <1>11, <1>13, <1>14
  <2>3. \A a \in Nodes : tree[a].kind \in Leaves /\ absolute[a] # None
                           => ab[a] = absolute[a] /\ l1[a] = length[a]
    BY <1>13, <1>15
  <2> QED
    BY <2>1, <2>2, <2>3, <1>0, <1>9, <1>12, WaitingNext
<1> QED
  BY <1>0, <1>2, <1>9, <1>16, WaitingContinues DEF r, l1, ab, aq

LEMMA SectionWaiting ==
  ASSUME Inv, Told, Waiting, LeaveSection
  PROVE  Waiting'
<1> DEFINE n == Top.node
           C == Children(n)
           first == FirstOf(n)
           arranged == [m \in Nodes |-> IF m \in C THEN start[m] - first ELSE start[m]]
           content == ContentLength(n, arranged, length)
           len == LengthOf(n, content)
           by == len - content
           st == Moved(arranged, n, by)
           refused == \/ TooLong(n, content)
                      \/ tree[Parent(n)].kind = "unrolled" /\ TooSlow(Parent(n), len)
<1>1. /\ outcome = "running" /\ Top.todo = << >> /\ tree[n].kind \in Arranged \cup {"match"}
      /\ IF refused THEN Refuse ELSE Return(len, st, length)
  BY DEF LeaveSection, Leaving, FirstOf
<1>2. CASE refused
  BY <1>1, <1>2, RefusedWaiting
<1>3. CASE ~refused
  <2>0. Built
    BY DEF Inv
  <2>1. /\ n \in Nodes /\ tree \in Experiments
        /\ start \in [Nodes -> Int] /\ length \in [Nodes -> Nat \cup {None}]
        /\ \A c \in C : length[c] \in Nat
    BY <1>1, AllPlaced
  <2>2. C \subseteq Nodes
    BY <2>1, Shape
  <2>3. first \in Int
    BY <2>0, <2>1, First DEF FirstOf
  <2> HIDE DEF first
  <2>4. arranged \in [Nodes -> Int]
    BY <2>1, <2>3
  <2>5. \A c \in C : arranged[c] \in Int
    BY <2>2, <2>4
  <2> HIDE DEF arranged
  <2>6. content \in Nat
    BY <2>0, <2>1, <2>5, Content
  <2> HIDE DEF content
  <2>7. len \in Nat
    BY <1>3, <2>0, <2>1, <2>6, LongEnough
  <2>8. tree[n].kind # "root" /\ n # 1 /\ Parent(n) \in Nodes
    <3>1. tree[n].kind # "root"
      BY <1>1 DEF Arranged
    <3> QED
      BY <3>1, <2>1, Shape, Families
  <2>9. tree[Parent(n)].kind = "unrolled" =>
          Adjusted(n, len, IterationLength(Parent(n), len)) \in Nat
    <3> SUFFICES ASSUME tree[Parent(n)].kind = "unrolled"
                 PROVE  Adjusted(n, len, IterationLength(Parent(n), len)) \in Nat
      OBVIOUS
    <3> DEFINE l == len
               new == IterationLength(Parent(n), l)
    <3>1. ~TooSlow(Parent(n), l) /\ l \in Nat
      BY <1>3, <2>7
    <3> HIDE DEF l
    <3>2. new \in Int /\ new >= l
      BY <3>1, <2>0, <2>8, Iterated
    <3>3. grid[n] \in Nat \ {0}
      BY <2>0, <2>1, Facts
    <3> HIDE DEF new
    <3>4. Adjusted(n, l, new) \in Nat
      BY <3>1, <3>2, <3>3, Ceil DEF Adjusted
    <3> QED
      BY <3>4 DEF new, l
  <2> HIDE DEF len
  <2>10. by \in Int
    BY <2>6, <2>7
  <2> HIDE DEF by
  <2>11. st \in [Nodes -> Int]
    BY <2>4, <2>10 DEF Moved
  <2>12. Return(len, st, length)
    BY <1>1, <1>3
  <2> HIDE DEF st, C
  <2> QED
    BY <1>1, <2>1, <2>7, <2>8, <2>9, <2>11, <2>12, ReturnedWaiting
<1> QED
  BY <1>2, <1>3

LEMMA UnrolledWaiting ==
  ASSUME Inv, OnGrid, Told, Waiting, LeaveUnrolled
  PROVE  Waiting'
<1> DEFINE n == Top.node
           C == Children(n)
           longest == Max({0} \cup {ceil_to_grid(length[c], grid[n]) : c \in C})
           auto == tree[n].mode = "AUTO"
           lengths == [m \in Nodes |-> IF auto /\ m \in C
                                       THEN Adjusted(m, length[m], longest) ELSE length[m]]
           starts == [m \in Nodes |->
                        IF ~auto \/ m \notin Below(n) \ {n} THEN start[m]
                        ELSE IF m \in C THEN longest * (Index(n, m) - 1)
                        ELSE IF Parent(m) \in C /\ tree[Parent(m)].right
                             THEN start[m] + lengths[Parent(m)] - length[Parent(m)] ELSE start[m]]
           content == ContentLength(n, starts, lengths)
           len == LengthOf(n, content)
           by == len - content
           st == Moved(starts, n, by)
<1>1. /\ outcome = "running" /\ Top.todo = << >> /\ tree[n].kind = "unrolled"
      /\ IF TooLong(n, content) THEN Refuse ELSE Return(len, st, lengths)
  BY DEF LeaveUnrolled, Leaving
<1>2. CASE TooLong(n, content)
  BY <1>1, <1>2, RefusedWaiting
<1>3. CASE ~TooLong(n, content)
  <2>0. Built
    BY DEF Inv
  <2>1. /\ n \in Nodes /\ tree \in Experiments
        /\ start \in [Nodes -> Int] /\ length \in [Nodes -> Nat \cup {None}]
    BY <1>1, AllPlaced
  <2>2. \A c \in C :
          /\ c \in Nodes /\ tree[c].kind = "iteration" /\ length[c] \in Nat
          /\ grid[c] \in Nat \ {0} /\ grid[n] \in Nat \ {0}
          /\ Divides(grid[c], grid[n]) /\ Divides(grid[c], length[c])
    BY <1>1, IterationsOnGrid
  <2>3. longest \in Nat /\ \A c \in C : Adjusted(c, length[c], longest) = longest
    BY <1>1, <2>0, <2>1, <2>2, LongestIteration
  <2> HIDE DEF longest
  <2>4. \A m \in Nodes : lengths[m] = IF auto /\ m \in C THEN longest ELSE length[m]
    BY <2>3
  <2>5. /\ lengths \in [Nodes -> Nat \cup {None}] /\ \A c \in C : lengths[c] \in Nat
        /\ \A a \in Nodes : tree[a].kind \in Leaves => lengths[a] = length[a]
    <3>1. \A c \in C : lengths[c] \in Nat
      BY <2>2, <2>3, <2>4
    <3>2. \A a \in Nodes : tree[a].kind \in Leaves => lengths[a] = length[a]
      BY <2>2, <2>4 DEF Leaves
    <3>3. lengths = [m \in Nodes |-> lengths[m]]
      OBVIOUS
    <3> HIDE DEF lengths
    <3>4. \A m \in Nodes : lengths[m] \in Nat \cup {None}
      BY <2>1, <2>3, <2>4
    <3> QED
      BY <3>1, <3>2, <3>3, <3>4
  <2> HIDE DEF lengths
  <2>6. ASSUME NEW m \in Nodes PROVE starts[m] \in Int
    <3>1. CASE ~auto \/ m \notin Below(n) \ {n}
      BY <3>1, <2>1
    <3>2. CASE auto /\ m \in Below(n) \ {n} /\ m \in C
      <4> DEFINE k == Index(n, m) - 1
      <4>1. k \in Int
        BY <3>2, <2>1, Indices
      <4>2. starts[m] = longest * k
        BY <3>2
      <4> HIDE DEF k, starts
      <4> QED
        BY <4>1, <4>2, <2>3
    <3>3. CASE auto /\ m \in Below(n) \ {n} /\ m \notin C
      <4>1. CASE ~(Parent(m) \in C /\ tree[Parent(m)].right)
        BY <3>3, <4>1, <2>1
      <4>2. CASE Parent(m) \in C /\ tree[Parent(m)].right
        <5>1. start[m] \in Int /\ lengths[Parent(m)] \in Int /\ length[Parent(m)] \in Int
          BY <4>2, <2>1, <2>2, <2>5
        <5>2. starts[m] = start[m] + lengths[Parent(m)] - length[Parent(m)]
          BY <3>3, <4>2
        <5> HIDE DEF starts
        <5> QED
          BY <5>1, <5>2
      <4> QED
        BY <4>1, <4>2
    <3> QED
      BY <3>1, <3>2, <3>3
  <2>7. starts \in [Nodes -> Int]
    <3>1. starts = [m \in Nodes |-> starts[m]]
      OBVIOUS
    <3> HIDE DEF starts
    <3> QED
      BY <3>1, <2>6
  <2> HIDE DEF starts
  <2>8. content \in Nat
    <3>1. \A c \in C : lengths[c] \in Nat /\ starts[c] \in Int
      BY <2>2, <2>5, <2>7
    <3> QED
      BY <3>1, <2>0, <2>1, Content
  <2> HIDE DEF content
  <2>9. len \in Nat
    BY <1>3, <2>0, <2>1, <2>8, LongEnough
  <2> HIDE DEF len
  <2>10. by \in Int
    BY <2>8, <2>9
  <2> HIDE DEF by
  <2>11. st \in [Nodes -> Int]
    BY <2>7, <2>10 DEF Moved
  <2>12. tree[n].kind # "root" /\ tree[Parent(n)].kind # "unrolled"
    <3>1. tree[n].kind # "root" /\ tree[n].kind # "iteration"
      BY <1>1
    <3> QED
      BY <3>1, <2>1, Shape, OnlyIterations
  <2>13. Return(len, st, lengths)
    BY <1>1, <1>3
  <2> HIDE DEF st, C
  <2> QED
    BY <1>1, <2>5, <2>9, <2>11, <2>12, <2>13, ReturnedWaiting
<1> QED
  BY <1>2, <1>3

LEMMA CompressedWaiting ==
  ASSUME Inv, OnGrid, AutoHasNoTime, Told, Waiting, LeaveCompressed
  PROVE  Waiting'
<1> DEFINE n == Top.node
           c == tree[n].children[1]
           one == CompressedLength(n, length[c])
           iteration == Adjusted(c, length[c], one)
           by == iteration - length[c]
           st == Moved(start, c, by)
           ln == [length EXCEPT ![c] = iteration]
           len == one * tree[n].count
<1>1. /\ outcome = "running" /\ Top.todo = << >> /\ tree[n].kind = "compressed"
      /\ IF TooSlow(n, length[c]) THEN Refuse ELSE Return(len, st, ln)
  BY DEF LeaveCompressed, Leaving
<1>2. CASE TooSlow(n, length[c])
  BY <1>1, <1>2, RefusedWaiting
<1>3. CASE ~TooSlow(n, length[c])
  <2>0. Built
    BY DEF Inv
  <2>1. /\ n \in Nodes /\ tree \in Experiments
        /\ start \in [Nodes -> Int] /\ length \in [Nodes -> Nat \cup {None}]
        /\ \A b \in Below(n) \ {n} : b \notin Open(stack)
    BY <1>1, AllPlaced
  <2>2. Children(n) = {c} /\ c \in Nodes /\ c # n /\ tree[n].count \in Nat
    <3>1. Len(tree[n].children) = 1
      BY <1>1, <2>1, KindAssumption DEF Nodes
    <3>2. Children(n) = {tree[n].children[i] : i \in 1 .. 1}
      BY <3>1, <2>1, Indices
    <3>3. Children(n) = {c}
      BY <3>2
    <3>4. c \in Nodes /\ n < c /\ n \in Nat
      BY <3>3, <2>1, Shape
    <3>5. tree[n].count \in Nat
      BY <2>1, Shape DEF NodeType
    <3> HIDE DEF c, n
    <3>6. c # n
      BY <3>4
    <3> QED
      BY <3>3, <3>4, <3>5, <3>6 DEF n
  <2> HIDE DEF c
  <2>3. tree[c].kind = "iteration"
    <3>1. c \in Children(n) /\ tree[n].kind = "compressed" /\ n \in Nodes
      BY <1>1, <2>1, <2>2
    <3> HIDE DEF n
    <3> QED
      BY <3>1, <2>1, KindAssumption DEF Nodes, Children
  <2>4. length[c] \in Nat /\ Divides(grid[c], length[c])
    <3>1. c \in Below(n)
      BY <2>1, <2>2, BelowWays
    <3>2. c \notin Open(stack)
      BY <3>1, <2>1, <2>2
    <3>3. Regular(c, length)
      BY <3>2, <2>2 DEF OnGrid
    <3>4. length[c] \in Nat
      BY <1>1, <2>2, AllPlaced
    <3> QED
      BY <3>3, <3>4, <2>1, <2>2, <2>3 DEF Regular
  <2>5. one \in Nat /\ iteration = one
    BY <1>1, <1>3, <2>0, <2>1, <2>2, <2>4, Repetition
  <2> HIDE DEF one, iteration
  <2>6. by \in Int
    BY <2>4, <2>5
  <2> HIDE DEF by
  <2>7. st \in [Nodes -> Int]
    BY <2>1, <2>6 DEF Moved
  <2>8. /\ ln \in [Nodes -> Nat \cup {None}]
        /\ \A a \in Nodes : tree[a].kind \in Leaves => ln[a] = length[a]
    <3>1. ln \in [Nodes -> Nat \cup {None}]
      BY <2>1, <2>5
    <3>2. \A a \in Nodes : tree[a].kind \in Leaves => a # c
      BY <2>3 DEF Leaves
    <3>3. \A a \in Nodes : a # c => ln[a] = length[a]
      BY <2>1
    <3> QED
      BY <3>1, <3>2, <3>3
  <2>9. len \in Nat
    BY <2>2, <2>5, Product
  <2> HIDE DEF len
  <2>10. tree[n].kind # "root" /\ tree[Parent(n)].kind # "unrolled"
    <3>1. tree[n].kind # "root" /\ tree[n].kind # "iteration"
      BY <1>1
    <3> QED
      BY <3>1, <2>1, Shape, OnlyIterations
  <2>11. Return(len, st, ln)
    BY <1>1, <1>3
  <2> HIDE DEF st, ln
  <2> QED
    BY <1>1, <2>7, <2>8, <2>9, <2>10, <2>11, ReturnedWaiting
<1> QED
  BY <1>2, <1>3

LEMMA RootWaiting ==
  ASSUME Inv, Waiting, LeaveRoot
  PROVE  Waiting'
<1> DEFINE at == 0
           ab == FixedFrom(1, at, start)
           ln == [length EXCEPT ![1] = ContentLength(1, start, length)]
           q == stack
           r == << >>
<1>1. /\ outcome = "running" /\ Top.todo = << >> /\ tree[Top.node].kind = "root"
      /\ absolute' = ab /\ length' = ln /\ stack' = r /\ UNCHANGED built /\ acquired' = acquired
  BY DEF LeaveRoot, Leaving
<1>2. /\ 1 \in Nodes /\ tree[1].kind = "root" /\ tree \in Experiments /\ Typed
      /\ length \in [Nodes -> Nat \cup {None}]
      /\ \A p \in Below(1) \ {1} : p \notin Open(q)
      /\ Noted(acquired) /\ WaitingBy(q, length, absolute, acquired)
  <2>1. Top.node \in Nodes /\ Top.node = 1 /\ tree \in Experiments
        /\ length \in [Nodes -> Nat \cup {None}]
    BY <1>1, AllPlaced, Shape
  <2> QED
    BY <2>1, <1>1, AllPlaced DEF Inv, Waiting
<1>3. Below(1) = Nodes
  BY <1>2, Everything
<1>4. Coming(r) \subseteq Coming(q) /\ Len(r) = 0
  BY DEF Coming
<1>5. \A n \in Nodes \ Open(r) : Matches(n) =>
        \/ n \notin Open(q) /\ (absolute[n] # None => ab[n] = absolute[n])
        \/ ab[n] # None /\ \E j \in 1 .. Len(q) : q[j].node = n /\ q[j].at = ab[n]
  <2>1. \A n \in Nodes : Matches(n) => n # 1
    BY <1>2 DEF Matches
  <2>2. \A n \in Nodes : absolute[n] # None => ab[n] = absolute[n]
    BY DEF FixedFrom
  <2> QED
    BY <2>1, <2>2, <1>2, <1>3
<1>6. \A a \in Nodes : tree[a].kind \in Leaves /\ absolute[a] # None
                         => ab[a] = absolute[a] /\ ln[a] = length[a]
  <2>1. \A a \in Nodes : tree[a].kind \in Leaves => a # 1
    BY <1>2 DEF Leaves
  <2>2. \A a \in Nodes : a # 1 => ln[a] = length[a]
    BY <1>2
  <2>3. \A a \in Nodes : absolute[a] # None => ab[a] = absolute[a]
    BY DEF FixedFrom
  <2> QED
    BY <2>1, <2>2, <2>3
<1> DEFINE aq == acquired
<1>7. WaitingBy(q, length, absolute, acquired)
  BY <1>2
<1>8. \A h \in DOMAIN acquired :
        aq[h] = acquired[h] \/ \E c \in Coming(q) : aq[h] = Append(acquired[h], c)
  OBVIOUS
<1> HIDE DEF q, r, ab, ln, aq
<1>9. /\ \A i \in 1 .. Len(r) : r[i].node \in Nodes
      /\ \A i \in 1 .. Len(r) : r[i].node \in Nodes /\ Matches(r[i].node) =>
           \/ \E j \in 1 .. Len(q) : q[j].node = r[i].node /\ q[j].at = r[i].at
           \/ WaitingCall(r[i], r, ln, ab, aq)
  BY <1>4
<1>10. WaitingBy(r, ln, ab, aq)
  <2>1. tree \in Experiments /\ Typed /\ Coming(r) \subseteq Coming(q)
    BY <1>2, <1>4
  <2> QED
    BY <2>1, <1>5, <1>6, <1>7, <1>8, <1>9, WaitingNext
<1> QED
  BY <1>1, <1>2, <1>10, WaitingContinues DEF aq

LEMMA WaitingInvariance ==
  ASSUME AutoHasNoTime
  PROVE  Spec => [](Inv /\ (NothingMovesLate => Told /\ Waiting))
<1>1. Init => Waiting
  BY WaitingAtFirst
<1>2. /\ Inv /\ Inv' /\ OnGrid /\ (NothingMovesLate => Told) /\ (NothingMovesLate => Waiting)
      /\ [Next]_vars
      => (NothingMovesLate => Waiting)'
  <2> SUFFICES ASSUME Inv, OnGrid, NothingMovesLate => Told, NothingMovesLate => Waiting,
                      [Next]_vars, NothingMovesLate'
               PROVE  Waiting'
    OBVIOUS
  <2>0. Told /\ Waiting
    BY TreeIsKept, LateStays
  <2>1. CASE RefuseChild
    BY <2>0, <2>1, RefusedWaiting DEF RefuseChild
  <2>2. CASE VisitLeaf
    BY <2>0, <2>2, LeafWaiting
  <2>3. CASE VisitBranch
    BY <2>0, <2>3, BranchWaiting
  <2>4. CASE LeaveSection
    BY <2>0, <2>4, SectionWaiting
  <2>5. CASE LeaveUnrolled
    BY <2>0, <2>5, UnrolledWaiting
  <2>6. CASE LeaveCompressed
    BY <2>0, <2>6, CompressedWaiting
  <2>7. CASE LeaveRoot
    BY <2>0, <2>7, RootWaiting
  <2>8. CASE UNCHANGED vars
    <3>1. UNCHANGED built /\ length' = length /\ absolute' = absolute /\ stack' = stack
          /\ acquired' = acquired
      BY <2>8 DEF vars
    <3> QED
      BY <3>1, <2>0, WaitingContinues DEF Waiting
  <2> QED
    BY <2>1, <2>2, <2>3, <2>4, <2>5, <2>6, <2>7, <2>8 DEF Next
<1>3. Spec => [](Inv /\ OnGrid)
  BY GridInvariance
<1>4. Spec => [](Inv /\ (NothingMovesLate => Told))
  BY ToldInvariance
<1> QED
  BY <1>1, <1>2, <1>3, <1>4, PTL DEF Spec

-----------------------------------------------------------------------------
(* The theorems.                                                           *)

\* Every variable has its type in every state, with times that are never
\* negative for what starts in absolute terms: no step of calculate_timing
\* shrinks an interval or moves a child in front of its section.
THEOREM TypeCorrect ==
  ASSUME AutoHasNoTime
  PROVE  Spec => []TypeOK
<1>1. Inv => TypeOK
  <2> SUFFICES ASSUME Inv PROVE TypeOK
    OBVIOUS
  <2>1. Built /\ Typed /\ Calling(stack, start, length) /\ tree \in Experiments
    BY DEF Inv, Built, Calls
  <2>2. tree \in Seq(NodeType)
    BY <2>1, TreeAssumption
  <2>3. /\ signals \in [Nodes -> SUBSET Signals]
        /\ grid \in [Nodes -> Nat \ {0}] /\ loopGrid \in [Nodes -> Nat \ {0}]
    BY <2>1, Facts
  <2>4. stack \in Seq(FrameType)
    BY <2>1 DEF Calling
  <2>5. ASSUME NEW i \in DOMAIN stack PROVE stack[i] \in FrameType
    BY <2>4
  <2> QED
    BY <2>1, <2>2, <2>3, <2>5 DEF Typed, TypeOK, FrameType
<1>2. Spec => []Inv
  BY Invariance
<1> QED
  BY <1>1, <1>2, PTL

\* When the schedule is finished, every node fits.
LEMMA FinishedSchedule ==
  ASSUME Inv, Done
  PROVE  /\ tree \in Experiments /\ Built
         /\ \A n \in Nodes : Fits(n, start, length)
         /\ start \in [Nodes -> Int] /\ length \in [Nodes -> Nat]
         /\ Position \in [Nodes -> Int] /\ Position[1] = 0
         /\ \A n \in Nodes \ {1} :
              /\ Parent(n) \in Nodes /\ n \in Children(Parent(n))
              /\ Position[n] = Position[Parent(n)] + start[n]
<1>1. tree \in Experiments /\ Built /\ start \in [Nodes -> Int] /\ length \in [Nodes -> Nat \cup {None}]
  BY DEF Inv, Built, Typed
<1>2. Open(stack) = {}
  BY DEF Inv, Calls, Done, Open
<1>3. \A n \in Nodes : Fits(n, start, length)
  BY <1>2 DEF Inv, Timed
<1>4. length \in [Nodes -> Nat]
  BY <1>1, <1>3 DEF Fits
<1>5. Below(1) = Nodes /\ 1 \in Nodes
  BY <1>1, Everything, Shape
<1> DEFINE at == 0
<1>6. at \in Int
  OBVIOUS
<1> HIDE DEF at
<1>7. LET pos == PositionsFrom(1, at, start)
      IN  /\ pos \in [Below(1) -> Int] /\ pos[1] = at
          /\ \A m \in Below(1) \ {1} : /\ m \in Nodes /\ m # 1 /\ Parent(m) \in Below(1)
                                      /\ pos[m] = pos[Parent(m)] + start[m]
  BY <1>1, <1>5, <1>6, Positions
<1>8. /\ Position \in [Nodes -> Int] /\ Position[1] = 0
      /\ \A n \in Nodes \ {1} : Position[n] = Position[Parent(n)] + start[n]
  BY <1>5, <1>7 DEF Position, at
<1> QED
  BY <1>1, <1>3, <1>4, <1>8, Families

\* A node, with all that is below it, is inside the nodes around it.
LEMMA Within ==
  ASSUME Inv, Done, NEW n \in Nodes, NEW m \in Below(n)
  PROVE  /\ m \in Nodes /\ Position[n] <= Position[m] /\ End(m) <= End(n)
         /\ End(m) \in Int /\ End(n) \in Int
<1> DEFINE P == Position
           S == {k \in Nodes : \A b \in Below(k) : P[k] <= P[b] /\ P[b] + length[b] <= P[k] + length[k]}
<1>1. /\ tree \in Experiments
      /\ \A k \in Nodes : Fits(k, start, length)
      /\ start \in [Nodes -> Int] /\ length \in [Nodes -> Nat]
      /\ P \in [Nodes -> Int]
      /\ \A k \in Nodes \ {1} : P[k] = P[Parent(k)] + start[k]
  BY FinishedSchedule
<1> HIDE DEF P
<1>2. ASSUME NEW k \in Nodes, Children(k) \subseteq S PROVE k \in S
  <2> SUFFICES ASSUME NEW b \in Below(k)
               PROVE  P[k] <= P[b] /\ P[b] + length[b] <= P[k] + length[k]
    OBVIOUS
  <2>0. b \in Nodes
    BY <1>1, BelowIsLater
  <2>1. CASE b = k
    BY <2>1, <1>1
  <2>2. CASE b # k
    <3>1. PICK c \in Children(k) : b \in Below(c)
      BY <2>2, <1>1, BelowWays
    <3>2. c \in Nodes \ {1} /\ Parent(c) = k
      BY <1>1, Families
    <3>3. start[c] >= 0 /\ start[c] + length[c] <= length[k] /\ P[c] = P[k] + start[c]
      BY <3>2, <1>1 DEF Fits, Inside, Ends
    <3>4. P[c] <= P[b] /\ P[b] + length[b] <= P[c] + length[c]
      BY <3>1, <1>2
    <3>5. /\ P[c] \in Int /\ P[b] \in Int /\ P[k] \in Int /\ start[c] \in Int
          /\ length[c] \in Nat /\ length[b] \in Nat /\ length[k] \in Nat
      BY <2>0, <3>2, <1>1
    <3> QED
      BY <3>3, <3>4, <3>5
  <2> QED
    BY <2>1, <2>2
<1>3. S = Nodes
  <2>1. S \in SUBSET Nodes
    OBVIOUS
  <2>2. \A k \in Nodes : Children(k) \subseteq S => k \in S
    BY <1>2
  <2> HIDE DEF S
  <2> QED
    BY <2>1, <2>2, <1>1, Upward
<1>4. m \in Nodes
  BY <1>1, BelowIsLater
<1>5. P[n] <= P[m] /\ P[m] + length[m] <= P[n] + length[n]
  BY <1>3
<1>6. End(m) = P[m] + length[m] /\ End(n) = P[n] + length[n]
  BY DEF End, P
<1>7. P[m] + length[m] \in Int /\ P[n] + length[n] \in Int
  BY <1>1, <1>4
<1> QED
  BY <1>4, <1>5, <1>6, <1>7 DEF P

\* Nothing reaches out of its section, whatever alignment, repetition times,
\* rounding and feedback have moved and extended (interval_schedule.py,
\* section_schedule.py, loop_schedule.py: calculate_timing and adjust_length).
THEOREM Containment ==
  ASSUME AutoHasNoTime
  PROVE  Spec => []Contained
<1>1. Inv => Contained
  <2> SUFFICES ASSUME Inv, Done, NEW n \in Nodes \ {1}
               PROVE  Position[Parent(n)] <= Position[n] /\ End(n) <= End(Parent(n))
    BY DEF Contained
  <2>1. Parent(n) \in Nodes /\ n \in Children(Parent(n)) /\ n \in Nodes /\ tree \in Experiments
    BY FinishedSchedule
  <2>2. n \in Below(Parent(n))
    BY <2>1, BelowWays
  <2> QED
    BY <2>1, <2>2, Within
<1>2. Spec => []Inv
  BY Invariance
<1> QED
  BY <1>1, <1>2, PTL

\* What has signals has them for the nodes around it.
LEMMA SignalsBelow ==
  ASSUME Built, NEW n \in Nodes, NEW m \in Below(n)
  PROVE  signals[m] \subseteq signals[n]
<1> DEFINE S == {k \in Nodes : \A b \in Below(k) : signals[b] \subseteq signals[k]}
<1>1. tree \in Experiments /\ \A k \in Nodes : \A c \in Children(k) : signals[c] \subseteq signals[k]
  BY Facts DEF Built
<1>2. ASSUME NEW k \in Nodes, Children(k) \subseteq S PROVE k \in S
  <2> SUFFICES ASSUME NEW b \in Below(k) PROVE signals[b] \subseteq signals[k]
    OBVIOUS
  <2>1. b = k \/ \E c \in Children(k) : b \in Below(c)
    BY <1>1, BelowWays
  <2> QED
    BY <2>1, <1>1, <1>2
<1>3. S = Nodes
  <2>1. S \in SUBSET Nodes
    OBVIOUS
  <2>2. \A k \in Nodes : Children(k) \subseteq S => k \in S
    BY <1>2
  <2> HIDE DEF S
  <2> QED
    BY <2>1, <2>2, <1>1, Upward
<1> QED
  BY <1>3

\* The grid of a node is a multiple of the grids of what is in it.
LEMMA GridsBelow ==
  ASSUME Built, NEW n \in Nodes, NEW m \in Below(n)
  PROVE  Divides(grid[m], grid[n])
<1> DEFINE S == {k \in Nodes : \A b \in Below(k) : Divides(grid[b], grid[k])}
<1>1. /\ tree \in Experiments /\ \A k \in Nodes : grid[k] \in Int
      /\ \A k \in Nodes : \A c \in Children(k) : c \in Nodes /\ Divides(grid[c], grid[k])
  BY Facts, Shape DEF Built
<1>2. ASSUME NEW k \in Nodes, Children(k) \subseteq S PROVE k \in S
  <2> SUFFICES ASSUME NEW b \in Below(k) PROVE Divides(grid[b], grid[k])
    OBVIOUS
  <2>1. CASE b = k
    BY <2>1, <1>1, DividesItself
  <2>2. CASE b # k
    <3>1. PICK c \in Children(k) : b \in Below(c)
      BY <2>2, <1>1, BelowWays
    <3>2. b \in Nodes /\ c \in Nodes /\ Divides(grid[b], grid[c]) /\ Divides(grid[c], grid[k])
      BY <3>1, <1>1, <1>2, BelowIsLater
    <3>3. grid[b] \in Int /\ grid[c] \in Int /\ grid[k] \in Int
      BY <3>2, <1>1
    <3> QED
      BY <3>2, <3>3, DividesTransitive
  <2> QED
    BY <2>1, <2>2
<1>3. S = Nodes
  <2>1. S \in SUBSET Nodes
    OBVIOUS
  <2>2. \A k \in Nodes : Children(k) \subseteq S => k \in S
    BY <1>2
  <2> HIDE DEF S
  <2> QED
    BY <2>1, <2>2, <1>1, Upward
<1> QED
  BY <1>3

\* The events that have to be on the cycles of their sequencers.
OnCycles(n) ==
  \/ tree[n].kind \in {"match", "iteration"}
  \/ tree[n].trigger
  \/ \E c \in Children(n) : tree[c].kind = "acquire"
  \/ tree[n].kind \in Arranged /\ Cardinality({SampleGrid[s] : s \in signals[n]}) > 1

\* The grid of an event is one of its signals' samples or cycles.
LEMMA SignalGrids ==
  ASSUME Built, NEW n \in Nodes \ {1}, NEW s \in signals[n]
  PROVE  /\ SampleGrid[s] \in Nat \ {0} /\ SequencerGrid[s] \in Nat \ {0}
         /\ tree[n].kind \in Leaves => Divides(SampleGrid[s], grid[n])
         /\ OnCycles(n) => Divides(SequencerGrid[s], grid[n])
<1> DEFINE below == {grid[c] : c \in Children(n)}
           sample == {SampleGrid[r] : r \in signals[n]}
           sequencer == {SequencerGrid[r] : r \in signals[n]}
           asked == SectionGrids(tree, n, signals[n])
           a == SampleGrid[s]
           b == SequencerGrid[s]
           g == grid[n]
<1>1. /\ tree \in Experiments /\ signals[n] \in SUBSET Signals /\ g \in Nat \ {0}
      /\ tree[n].kind # "clear" /\ tree[n].kind # "root"
      /\ \A c \in Children(n) : grid[c] \in Nat \ {0}
  BY Facts, Shape DEF Built
<1>2. s \in Signals /\ a \in Nat \ {0} /\ b \in Nat \ {0}
  BY <1>1, GridAssumption
<1>3. Numbers(below) /\ Numbers(sample) /\ Numbers(sequencer) /\ Numbers(asked)
  BY <1>1, FiniteChildren, NumbersOf, GridsOfSignals, SectionNumbers
<1>4. a \in sample /\ b \in sequencer
  OBVIOUS
<1>5. g =
        CASE tree[n].kind \in {"play", "acquire", "group", "reserve"} -> LcmOf(sample)
          [] tree[n].kind = "clear" -> LcmOf({SequencerGrid[r] : r \in signals[tree[n].pulse]})
          [] tree[n].kind = "reset" -> tree[n].align
          [] tree[n].kind = "empty" -> LcmOf(sequencer)
          [] tree[n].kind = "match" -> LcmOf(sequencer \cup below)
          [] tree[n].kind = "root" -> LcmOf(below)
          [] OTHER -> LcmOf(asked \cup below)
  <2>1. grid[n] = GridFrom(n, grid, signals)
    BY Facts DEF GridsAre
  <2> QED
    BY <2>1 DEF GridFrom
<1>6. Divides(a, b)
  <2>1. b % a = 0
    BY <1>2, RateAssumption
  <2> QED
    BY <2>1, <1>2, Divisible
<1>7. Divides(b, SystemGrid) /\ SystemGrid \in Nat \ {0}
  <2> DEFINE all == {SequencerGrid[r] : r \in Signals}
  <2>1. Numbers(all) /\ b \in all
    <3>1. Signals \in SUBSET Signals
      OBVIOUS
    <3> QED
      BY <3>1, <1>2, GridsOfSignals
  <2> HIDE DEF all, b
  <2>2. Divides(b, LcmOf(all)) /\ LcmOf(all) \in Nat \ {0}
    BY <2>1, LcmOfNumbers
  <2> QED
    BY <2>2 DEF SystemGrid, all
<1>8. tree[n].kind \in {"iteration", "reset"} => Divides(b, tree[n].align) /\ tree[n].align \in Nat \ {0}
  <2> SUFFICES ASSUME tree[n].kind \in {"iteration", "reset"}
               PROVE  Divides(b, tree[n].align) /\ tree[n].align \in Nat \ {0}
    OBVIOUS
  <2>1. tree[n].align % SystemGrid = 0
    BY <1>1, RateAssumption DEF Nodes
  <2>2. tree[n].align \in Nat \ {0}
    BY <1>1, Shape DEF NodeType
  <2>3. Divides(SystemGrid, tree[n].align)
    BY <2>1, <2>2, <1>7, Divisible
  <2>4. b \in Int /\ SystemGrid \in Int /\ tree[n].align \in Int
    BY <2>2, <1>2, <1>7
  <2> HIDE DEF b
  <2> QED
    BY <2>2, <2>3, <2>4, <1>7, DividesTransitive
<1> HIDE DEF below, sample, sequencer, asked, a, b, g
<1>9. ASSUME tree[n].kind \in Leaves PROVE Divides(a, g)
  <2>1. CASE tree[n].kind \in {"play", "acquire", "group", "reserve"}
    <3>1. g = LcmOf(sample)
      BY <2>1, <1>5
    <3> QED
      BY <3>1, <1>3, <1>4, LcmOfNumbers
  <2>2. CASE tree[n].kind \in {"reset", "empty"}
    <3>1. Divides(b, g)
      <4>1. CASE tree[n].kind = "reset"
        <5>1. g = tree[n].align
          BY <4>1, <1>5
        <5> QED
          BY <5>1, <4>1, <1>8
      <4>2. CASE tree[n].kind = "empty"
        <5>1. g = LcmOf(sequencer)
          BY <4>2, <1>5
        <5> QED
          BY <5>1, <1>3, <1>4, LcmOfNumbers
      <4> QED
        BY <4>1, <4>2, <2>2
    <3>2. a \in Int /\ b \in Int /\ g \in Int
      BY <1>1, <1>2
    <3> QED
      BY <3>1, <3>2, <1>6, DividesTransitive
  <2> QED
    BY <2>1, <2>2, <1>1, <1>9 DEF Leaves
<1>10. ASSUME OnCycles(n) PROVE Divides(b, g)
  <2>1. tree[n].kind \notin Leaves
    <3>1. tree[n].trigger => tree[n].kind \notin Leaves
      BY <1>1, RateAssumption DEF Nodes
    <3>2. (\E c \in Children(n) : tree[c].kind = "acquire") => tree[n].kind \notin Leaves
      <4> SUFFICES ASSUME NEW c \in Children(n) PROVE tree[n].kind \notin Leaves
        OBVIOUS
      <4>1. tree[n].children # << >>
        BY DEF Children, ToSet
      <4> QED
        BY <4>1, <1>1, KindAssumption DEF Nodes
    <3>3. tree[n].kind \in {"match", "iteration"} \cup Arranged => tree[n].kind \notin Leaves
      BY DEF Leaves, Arranged
    <3> QED
      BY <3>1, <3>2, <3>3, <1>10 DEF OnCycles
  <2>2. CASE tree[n].kind = "match"
    <3>1. g = LcmOf(sequencer \cup below)
      BY <2>2, <1>5
    <3>2. Numbers(sequencer \cup below) /\ b \in sequencer \cup below
      BY <1>3, <1>4, NumbersTogether
    <3> QED
      BY <3>1, <3>2, LcmOfNumbers
  <2>3. CASE tree[n].kind # "match"
    <3>1. g = LcmOf(asked \cup below)
      BY <2>1, <2>3, <1>1, <1>5 DEF Leaves
    <3>2. Numbers(asked \cup below)
      BY <1>3, NumbersTogether
    <3>3. CASE tree[n].kind = "iteration"
      <4>1. tree[n].align \in asked \cup below
        BY DEF asked, SectionGrids
      <4>2. Divides(tree[n].align, g)
        BY <4>1, <3>1, <3>2, LcmOfNumbers
      <4>3. Divides(b, tree[n].align) /\ b \in Int /\ tree[n].align \in Int /\ g \in Int
        BY <3>3, <1>1, <1>2, <1>8
      <4> QED
        BY <4>2, <4>3, DividesTransitive
    <3>4. CASE tree[n].kind # "iteration"
      <4>1. sequencer \subseteq asked
        BY <3>4, <2>3, <1>10 DEF OnCycles, SectionGrids, sequencer, asked, Children
      <4> QED
        BY <4>1, <3>1, <3>2, <1>4, LcmOfNumbers
    <3> QED
      BY <3>3, <3>4
  <2> QED
    BY <2>2, <2>3
<1> QED
  BY <1>2, <1>9, <1>10 DEF a, b, g

\* In a finished schedule every node is on its grid, and so is each repetition of
\* the loops around it.
LEMMA PositionsOnGrid ==
  ASSUME Inv, OnGrid, Done, NEW n \in Nodes
  PROVE  Position[n] \in Int /\ Divides(grid[n], Position[n])
<1> DEFINE P == Position
           S == {k \in Nodes : Divides(grid[k], P[k])}
<1>1. /\ tree \in Experiments /\ Built /\ 1 \in Nodes
      /\ start \in [Nodes -> Int] /\ P \in [Nodes -> Int] /\ P[1] = 0
      /\ \A k \in Nodes \ {1} : P[k] = P[Parent(k)] + start[k]
  BY FinishedSchedule, Shape
<1> HIDE DEF P
<1>2. \A k \in Nodes : grid[k] \in Int
  BY <1>1, Facts
<1>3. 1 \in S
  BY <1>1, <1>2, DividesZero
<1>4. ASSUME NEW k \in S, NEW c \in Children(k) PROVE c \in S
  <2>1. k \in Nodes /\ Divides(grid[k], P[k])
    OBVIOUS
  <2>2. c \in Nodes \ {1} /\ Parent(c) = k
    BY <2>1, <1>1, Families
  <2> DEFINE u == Unit(k, c)
             a == grid[c]
             g == grid[k]
             x == P[k]
             y == start[c]
  <2>3. /\ a \in Int /\ g \in Int /\ u \in Int /\ x \in Int /\ y \in Int
        /\ Divides(a, g) /\ Divides(g, x) /\ Divides(a, u) /\ Divides(u, y)
    BY <2>1, <2>2, <1>1, <1>2, Facts, Units DEF OnGrid, StartsOnGrid
  <2>4. P[c] = x + y
    BY <2>2, <1>1
  <2> HIDE DEF u, a, g, x, y
  <2>5. Divides(a, x) /\ Divides(a, y)
    BY <2>3, DividesTransitive
  <2>6. Divides(a, x + y)
    BY <2>3, <2>5, DividesSums
  <2> QED
    BY <2>2, <2>4, <2>6 DEF a
<1>5. S = Nodes
  <2>1. S \in SUBSET Nodes
    OBVIOUS
  <2>2. \A k \in S : Children(k) \subseteq S
    BY <1>4
  <2> HIDE DEF S
  <2> QED
    BY <2>1, <2>2, <1>1, <1>3, Downward
<1> QED
  BY <1>1, <1>5 DEF P

LEMMA RepetitionsOnGrid ==
  ASSUME Inv, OnGrid, Done, NEW i \in Nodes \ {1}, tree[Parent(i)].kind = "compressed",
         NEW n \in Below(i)
  PROVE  n \in Nodes \ {1} /\ length[i] \in Int /\ Divides(grid[n], length[i])
<1> DEFINE p == Parent(i)
<1>1. /\ tree \in Experiments /\ Built /\ length \in [Nodes -> Nat]
      /\ p \in Nodes /\ i \in Children(p)
  BY FinishedSchedule
<1>2. n \in Nodes /\ n \in Below(p) /\ n # 1
  BY <1>1, BelowIsLater, BelowContains, BelowWays
<1>3. Open(stack) = {}
  BY DEF Inv, Calls, Done, Open
<1>4. Divides(Lcm(grid[p], loopGrid[p]), length[i])
  BY <1>1, <1>3 DEF OnGrid, Regular
<1> DEFINE a == grid[n]
           g == grid[p]
           h == loopGrid[p]
           both == Lcm(g, h)
           l == length[i]
<1>5. g \in Nat \ {0} /\ h \in Nat \ {0} /\ a \in Nat \ {0} /\ Divides(a, g) /\ l \in Int
  BY <1>1, <1>2, Facts, GridsBelow
<1>6. Divides(both, l)
  BY <1>4
<1> HIDE DEF a, g, h, l
<1>7. both \in Nat \ {0} /\ Divides(g, both)
  BY <1>5, LcmOfTwo
<1> HIDE DEF both
<1>8. a \in Int /\ g \in Int /\ both \in Int
  BY <1>5, <1>7
<1>9. Divides(a, both)
  BY <1>5, <1>7, <1>8, DividesTransitive
<1>10. Divides(a, l)
  BY <1>5, <1>6, <1>8, <1>9, DividesTransitive
<1> QED
  BY <1>2, <1>5, <1>10 DEF a, l

\* Two nodes, neither in the other, are in different children of some node.
LEMMA Apart2 ==
  ASSUME tree \in Experiments, NEW m \in Nodes, NEW n \in Nodes, m \notin Below(n), n \notin Below(m)
  PROVE  \E p \in Nodes : \E a, b \in Children(p) : a # b /\ m \in Below(a) /\ n \in Below(b)
<1> DEFINE S == {p \in Nodes : m \in Below(p) /\ n \in Below(p)}
<1>1. Len(tree) \in Nat /\ Nodes = 1 .. Len(tree) /\ 1 \in Nodes /\ Below(1) = Nodes
  BY Shape, Everything
<1>2. S \in SUBSET (0 .. Len(tree)) /\ S # {}
  BY <1>1
<1> HIDE DEF S
<1>3. PICK p \in S : \A k \in S : k <= p
  BY <1>1, <1>2, Greatest
<1>4. p \in Nodes /\ m \in Below(p) /\ n \in Below(p)
  BY <1>3 DEF S
<1>5. p # m /\ p # n
  BY <1>4
<1>6. PICK a \in Children(p) : m \in Below(a)
  BY <1>4, <1>5, BelowWays
<1>7. PICK b \in Children(p) : n \in Below(b)
  BY <1>4, <1>5, BelowWays
<1>8. a # b
  <2> SUFFICES ASSUME a = b PROVE FALSE
    OBVIOUS
  <2>1. a \in Nodes /\ p < a
    BY <1>4, Families
  <2>2. a \in S
    BY <2>1, <1>6, <1>7 DEF S
  <2>3. a <= p /\ a \in Nat /\ p \in Nat
    BY <2>1, <2>2, <1>1, <1>3, <1>4
  <2> QED
    BY <2>1, <2>3
<1> QED
  BY <1>4, <1>6, <1>7, <1>8

\* Two pulses or acquisitions on one signal do not overlap, wherever in the tree
\* they are, unless they are in different branches of a match: the children of a
\* section are disjoint where they share a signal, those of a loop always are,
\* and what is below them stays inside (section_schedule.py 38-222,
\* loop_schedule.py 29-105).
THEOREM Exclusion ==
  ASSUME AutoHasNoTime, OneAtTheTop
  PROVE  Spec => []NoOverlap
<1>1. Inv => NoOverlap
  <2> SUFFICES ASSUME Inv, Done, NEW m \in Nodes, NEW n \in Nodes, m < n,
                      tree[m].kind \in Leaves, tree[n].kind \in Leaves,
                      signals[m] \cap signals[n] # {}, ~Alternatives(m, n)
               PROVE  End(m) <= Position[n] \/ End(n) <= Position[m]
    BY DEF NoOverlap
  <2> DEFINE P == Position
  <2>1. /\ tree \in Experiments /\ Built
        /\ \A k \in Nodes : Fits(k, start, length)
        /\ start \in [Nodes -> Int] /\ length \in [Nodes -> Nat]
        /\ P \in [Nodes -> Int]
        /\ \A k \in Nodes \ {1} : P[k] = P[Parent(k)] + start[k]
    BY FinishedSchedule
  <2>2. ASSUME NEW k \in Nodes, tree[k].kind \in Leaves PROVE Children(k) = {} /\ Below(k) = {k}
    <3>1. tree[k].children = << >>
      BY <2>1, <2>2, KindAssumption DEF Nodes
    <3>2. Children(k) = {}
      BY <3>1 DEF Children, ToSet
    <3> QED
      BY <3>2, <2>1, BelowIs
  <2>3. m # n
    <3>1. m \in Nat /\ n \in Nat
      BY <2>1, Shape
    <3> QED
      BY <3>1
  <2>4. m \notin Below(n) /\ n \notin Below(m)
    BY <2>2, <2>3
  <2>5. PICK p \in Nodes : \E a, b \in Children(p) : a # b /\ m \in Below(a) /\ n \in Below(b)
    BY <2>1, <2>4, Apart2
  <2>6. PICK a \in Children(p), b \in Children(p) : a # b /\ m \in Below(a) /\ n \in Below(b)
    BY <2>5
  <2>7. a \in Nodes \ {1} /\ b \in Nodes \ {1} /\ Parent(a) = p /\ Parent(b) = p
    BY <2>1, Families
  <2>8. Disjoint(a, b, start, length)
    <3>0. Spaced(p, Children(p), start, length)
      BY <2>1 DEF Fits, Inside
    <3>1. tree[p].kind \in Kinds
      BY <2>1, Shape DEF NodeType
    <3>2. CASE tree[p].kind \in Leaves
      BY <3>2, <2>2
    <3>3. CASE tree[p].kind \in Arranged
      <4>1. signals[m] \subseteq signals[a] /\ signals[n] \subseteq signals[b]
        BY <2>1, <2>6, <2>7, SignalsBelow
      <4>2. Apart(p, a, b)
        BY <4>1, <3>3 DEF Apart
      <4> QED
        BY <4>2, <3>0, <2>6 DEF Spaced
    <3>4. CASE tree[p].kind = "unrolled"
      <4> DEFINE s == tree[p].children
      <4>1. Index(p, a) \in Nat /\ Index(p, b) \in Nat /\ Index(p, a) # Index(p, b)
        <5>1. /\ Len(s) \in Nat
              /\ Index(p, a) \in 1 .. Len(s) /\ s[Index(p, a)] = a
              /\ Index(p, b) \in 1 .. Len(s) /\ s[Index(p, b)] = b
          BY <2>1, Indices
        <5> QED
          BY <5>1, <2>6
      <4>2. Follows(p, a, b) \/ Follows(p, b, a)
        BY <4>1, <3>4 DEF Follows
      <4> QED
        BY <4>2, <3>0 DEF Spaced, Disjoint
    <3>5. CASE tree[p].kind = "compressed" \/ tree[p].kind = "root"
      <4>1. Len(tree[p].children) <= 1
        <5>1. CASE tree[p].kind = "compressed"
          <6>1. Len(tree[p].children) = 1
            BY <5>1, <2>1, KindAssumption DEF Nodes
          <6> QED
            BY <6>1
        <5>2. CASE tree[p].kind = "root"
          <6>1. p = 1
            BY <5>2, <2>1, Shape
          <6>2. Len(tree[1].children) <= 1
            BY <2>1 DEF OneAtTheTop
          <6> QED
            BY <6>1, <6>2
        <5> QED
          BY <5>1, <5>2, <3>5
      <4>2. Len(tree[p].children) \in Nat
            /\ \A c \in Children(p) : Index(p, c) \in 1 .. Len(tree[p].children)
                                     /\ tree[p].children[Index(p, c)] = c
        BY <2>1, Indices
      <4>3. \A c \in Children(p) : Index(p, c) = 1
        BY <4>1, <4>2
      <4> QED
        BY <4>2, <4>3, <2>6
    <3>6. CASE tree[p].kind = "match"
      BY <3>6, <2>6 DEF Alternatives
    <3> QED
      BY <3>1, <3>2, <3>3, <3>4, <3>5, <3>6 DEF Kinds
  <2>9. P[a] = P[p] + start[a] /\ P[b] = P[p] + start[b]
    BY <2>1, <2>7
  <2>10. /\ P[a] <= P[m] /\ End(m) <= End(a) /\ P[b] <= P[n] /\ End(n) <= End(b)
         /\ End(m) \in Int /\ End(n) \in Int
    BY <2>6, <2>7, Within
  <2>11. End(a) = P[a] + length[a] /\ End(b) = P[b] + length[b]
    BY DEF End
  <2>12. /\ P[a] \in Int /\ P[b] \in Int /\ P[p] \in Int /\ P[m] \in Int /\ P[n] \in Int
         /\ start[a] \in Int /\ start[b] \in Int /\ length[a] \in Nat /\ length[b] \in Nat
    BY <2>1, <2>7
  <2>13. start[a] + length[a] <= start[b] \/ start[b] + length[b] <= start[a]
    BY <2>8 DEF Disjoint, Ends
  <2>14. End(a) <= P[b] \/ End(b) <= P[a]
    <3> HIDE DEF P
    <3> QED
      BY <2>9, <2>11, <2>12, <2>13
  <2>15. End(a) \in Int /\ End(b) \in Int
    <3> HIDE DEF P
    <3> QED
      BY <2>11, <2>12
  <2> HIDE DEF P
  <2>16. End(m) <= P[n] \/ End(n) <= P[m]
    BY <2>10, <2>12, <2>14, <2>15
  <2> QED
    BY <2>16 DEF P
<1>2. Spec => []Inv
  BY Invariance
<1> QED
  BY <1>1, <1>2, PTL

\* A section begins after the sections it plays after, in left- and in
\* right-aligned sections (section.py:68).
THEOREM OrderOfPlay ==
  ASSUME AutoHasNoTime, OrderIsHeeded
  PROVE  Spec => []PlayAfterKept
<1>1. Inv => PlayAfterKept
  <2> SUFFICES ASSUME Inv, Done, NEW b \in Nodes, NEW c \in Nodes, b # 1, c # 1,
                      Parent(b) = Parent(c), tree[b].section \in tree[c].after
               PROVE  End(b) <= Position[c]
    BY DEF PlayAfterKept
  <2> DEFINE P == Position
             p == Parent(b)
  <2>1. /\ tree \in Experiments
        /\ \A k \in Nodes : Fits(k, start, length)
        /\ start \in [Nodes -> Int] /\ length \in [Nodes -> Nat]
        /\ P \in [Nodes -> Int]
        /\ p \in Nodes /\ b \in Children(p) /\ c \in Children(p)
        /\ P[b] = P[p] + start[b] /\ P[c] = P[p] + start[c]
    BY FinishedSchedule
  <2> HIDE DEF p
  <2>2. tree[p].kind \in Arranged /\ tree[b].use = 0
    BY <2>1 DEF OrderIsHeeded, Nodes, Children
  <2>3. b \in PlaysAfter(p, c)
    BY <2>1, <2>2 DEF PlaysAfter, Named
  <2>4. Follows(p, b, c)
    BY <2>2, <2>3 DEF Follows
  <2>5. start[b] + length[b] <= start[c]
    BY <2>1, <2>4 DEF Fits, Inside, Spaced, Ends
  <2>6. /\ P[b] \in Int /\ P[c] \in Int /\ P[p] \in Int
        /\ start[b] \in Int /\ start[c] \in Int /\ length[b] \in Nat
    BY <2>1
  <2>7. End(b) = P[b] + length[b]
    BY DEF End
  <2> HIDE DEF P
  <2>8. P[b] + length[b] <= P[c]
    BY <2>1, <2>5, <2>6
  <2> QED
    BY <2>7, <2>8 DEF P
<1>2. Spec => []Inv
  BY Invariance
<1> QED
  BY <1>1, <1>2, PTL

\* In every repetition of the loops around it, an event starts where no rounding
\* is needed: pulses on the samples of their signals, and sections that trigger,
\* acquire, match or mix sample rates on the cycles of their sequencers, however
\* alignment, repetition times and feedback have moved them (scheduler.py 637,
\* section_schedule.py 38-222, loop_schedule.py 29-105).
THEOREM HardwareGrid ==
  ASSUME AutoHasNoTime
  PROVE  Spec => []OnHardwareGrid
<1>1. Inv /\ OnGrid => OnHardwareGrid
  <2> SUFFICES ASSUME Inv, OnGrid, Done, NEW n \in Nodes, NEW s \in signals[n],
                      NEW t \in {Position[n]} \cup
                                {length[i] : i \in {j \in Nodes \ {1} :
                                   tree[Parent(j)].kind = "compressed" /\ n \in Below(j)}}
               PROVE  /\ tree[n].kind \in Leaves => t % SampleGrid[s] = 0
                      /\ OnCycles(n) => t % SequencerGrid[s] = 0
    BY DEF OnHardwareGrid, OnCycles
  <2>1. Built /\ tree \in Experiments /\ Position[1] = 0 /\ 1 \in Nodes
    BY FinishedSchedule, Shape
  <2>2. t \in Int /\ Divides(grid[n], t) /\ (n = 1 => t = 0)
    <3>1. CASE t = Position[n]
      BY <3>1, <2>1, PositionsOnGrid
    <3>2. ASSUME NEW i \in Nodes \ {1}, tree[Parent(i)].kind = "compressed", n \in Below(i),
                 t = length[i]
          PROVE  t \in Int /\ Divides(grid[n], t) /\ (n = 1 => t = 0)
      BY <3>2, RepetitionsOnGrid
    <3> QED
      BY <3>1, <3>2
  <2>3. s \in Signals /\ SampleGrid[s] \in Nat \ {0} /\ SequencerGrid[s] \in Nat \ {0}
        /\ grid[n] \in Int
    BY <2>1, Facts, GridAssumption
  <2> DEFINE a == SampleGrid[s]
             b == SequencerGrid[s]
  <2>4. /\ tree[n].kind \in Leaves => Divides(a, t)
        /\ OnCycles(n) => Divides(b, t)
    <3>1. CASE n = 1
      BY <3>1, <2>2, <2>3, DividesZero
    <3>2. CASE n # 1
      <4>1. /\ tree[n].kind \in Leaves => Divides(a, grid[n])
            /\ OnCycles(n) => Divides(b, grid[n])
        BY <3>2, <2>1, SignalGrids
      <4>2. a \in Int /\ b \in Int
        BY <2>3
      <4> HIDE DEF a, b
      <4> QED
        BY <4>1, <4>2, <2>2, <2>3, DividesTransitive
    <3> QED
      BY <3>1, <3>2
  <2> QED
    BY <2>2, <2>3, <2>4, Divisible
<1>2. Spec => [](Inv /\ OnGrid)
  BY GridInvariance
<1> QED
  BY <1>1, <1>2, PTL

LEMMA ToldIsActual ==
  ASSUME Inv, Told, Done
  PROVE  absolute = Position
<1> DEFINE S == {m \in Nodes : absolute[m] = Position[m] /\ Position[m] \in Nat}
<1>1. /\ tree \in Experiments
      /\ \A n \in Nodes : Fits(n, start, length)
      /\ start \in [Nodes -> Int]
      /\ Position \in [Nodes -> Int] /\ Position[1] = 0
      /\ \A n \in Nodes \ {1} :
           /\ Parent(n) \in Nodes /\ n \in Children(Parent(n))
           /\ Position[n] = Position[Parent(n)] + start[n]
  BY FinishedSchedule
<1>2. absolute \in [Nodes -> Nat \cup {None}] /\ absolute[1] = 0
  BY DEF Inv, Typed, Told
<1>3. \A p \in Nodes : ToldBelow(p, start, absolute)
  <2>1. Open(stack) = {}
    BY DEF Inv, Calls, Done, Open
  <2> QED
    BY <2>1 DEF Told, ToldBy
<1>4. 1 \in Nodes
  BY <1>1, Shape
<1> HIDE DEF Position
<1>5. ASSUME NEW p \in S PROVE Children(p) \subseteq S
  <2> SUFFICES ASSUME NEW c \in Children(p) PROVE c \in S
    OBVIOUS
  <2>1. c \in Nodes \ {1} /\ Parent(c) = p
    BY <1>1, Families
  <2>2. start[c] >= 0 /\ start[c] \in Int
    BY <2>1, <1>1 DEF Fits, Inside
  <2>3. absolute[c] = absolute[p] + start[c]
    BY <1>3 DEF ToldBelow, None
  <2>4. Position[c] = Position[p] + start[c]
    BY <2>1, <1>1
  <2> QED
    BY <2>1, <2>2, <2>3, <2>4
<1>6. S = Nodes
  <2>1. S \in SUBSET Nodes /\ 1 \in S
    BY <1>1, <1>2, <1>4
  <2> HIDE DEF S
  <2> QED
    BY <2>1, <1>1, <1>5, Downward
<1> QED
  BY <1>1, <1>2, <1>6

\* The absolute start a node was told before its surroundings were timed is where
\* it is in the finished schedule, unless a right-aligned node there was extended
\* after it (section_schedule.py 141-222, loop_schedule.py 29-105,
\* interval_schedule.py 74).
THEOREM ToldTheTruth ==
  ASSUME AutoHasNoTime
  PROVE  Spec => [](NothingMovesLate => AbsoluteIsActual)
<1>1. Inv /\ Told => AbsoluteIsActual
  BY ToldIsActual DEF AbsoluteIsActual
<1>2. Spec => [](Inv /\ (NothingMovesLate => Told))
  BY ToldInvariance
<1> QED
  BY <1>1, <1>2, PTL

\* The grid feedback asks of the loops around a node is a multiple of those asked below.
LEMMA LoopGridsBelow ==
  ASSUME Built, NEW n \in Nodes, NEW m \in Below(n)
  PROVE  Divides(tree[m].loopGrid, loopGrid[n])
<1> DEFINE S == {k \in Nodes : \A b \in Below(k) : Divides(tree[b].loopGrid, loopGrid[k])}
<1>1. /\ tree \in Experiments /\ loopGrid \in [Nodes -> Nat \ {0}] /\ LoopGridsAre(loopGrid)
  BY LoopGridsOfNodes DEF Built
<1>2. \A k \in Nodes : /\ tree[k].loopGrid \in Nat \ {0} /\ loopGrid[k] \in Nat \ {0}
                       /\ \A c \in Children(k) : c \in Nodes
  BY <1>1, Shape DEF NodeType
<1>3. ASSUME NEW k \in Nodes
      PROVE  /\ Divides(tree[k].loopGrid, loopGrid[k])
             /\ \A c \in Children(k) : Divides(loopGrid[c], loopGrid[k])
  <2> DEFINE G == {tree[k].loopGrid} \cup {loopGrid[c] : c \in Children(k)}
  <2>1. loopGrid[k] = LcmOf(G)
    BY <1>1 DEF LoopGridsAre, LoopGridFrom
  <2>2. Numbers({loopGrid[c] : c \in Children(k)}) /\ Numbers({tree[k].loopGrid})
    BY <1>1, <1>2, FiniteChildren, NumbersOf, NumbersTogether
  <2>3. Numbers(G)
    BY <2>2, NumbersTogether
  <2>4. tree[k].loopGrid \in G /\ \A c \in Children(k) : loopGrid[c] \in G
    OBVIOUS
  <2> HIDE DEF G
  <2>5. \A g \in G : Divides(g, LcmOf(G))
    BY <2>3, LcmOfNumbers
  <2> QED
    BY <2>1, <2>4, <2>5
<1>4. ASSUME NEW k \in Nodes, Children(k) \subseteq S PROVE k \in S
  <2> SUFFICES ASSUME NEW b \in Below(k) PROVE Divides(tree[b].loopGrid, loopGrid[k])
    OBVIOUS
  <2>1. CASE b = k
    BY <2>1, <1>3
  <2>2. CASE b # k
    <3>1. PICK c \in Children(k) : b \in Below(c)
      BY <2>2, <1>1, BelowWays
    <3>2. b \in Nodes /\ c \in Nodes /\ Divides(tree[b].loopGrid, loopGrid[c])
          /\ Divides(loopGrid[c], loopGrid[k])
      BY <3>1, <1>1, <1>2, <1>3, <1>4, BelowIsLater
    <3>3. tree[b].loopGrid \in Int /\ loopGrid[c] \in Int /\ loopGrid[k] \in Int
      BY <3>2, <1>2
    <3> QED
      BY <3>2, <3>3, DividesTransitive
  <2> QED
    BY <2>1, <2>2
<1>5. S = Nodes
  <2>1. S \in SUBSET Nodes
    OBVIOUS
  <2>2. \A k \in Nodes : Children(k) \subseteq S => k \in S
    BY <1>4
  <2> HIDE DEF S
  <2> QED
    BY <2>1, <2>2, <1>1, Upward
<1> QED
  BY <1>5

\* An iteration that is repeated is on the grid the feedback in it asks for.
LEMMA FeedbackRepeats ==
  ASSUME Inv, OnGrid, Done, NEW i \in Nodes \ {1}, tree[Parent(i)].kind = "compressed",
         NEW n \in Below(i)
  PROVE  length[i] % tree[n].loopGrid = 0
<1> DEFINE p == Parent(i)
           a == tree[n].loopGrid
           g == grid[p]
           h == loopGrid[p]
           both == Lcm(g, h)
           l == length[i]
<1>1. /\ tree \in Experiments /\ Built /\ length \in [Nodes -> Nat]
      /\ p \in Nodes /\ i \in Children(p)
  BY FinishedSchedule
<1>2. n \in Nodes /\ n \in Below(p)
  BY <1>1, BelowIsLater, BelowContains, BelowWays
<1>3. Divides(both, l)
  <2>1. Open(stack) = {}
    BY DEF Inv, Calls, Done, Open
  <2> QED
    BY <2>1, <1>1 DEF OnGrid, Regular
<1>4. g \in Nat \ {0} /\ h \in Nat \ {0} /\ a \in Nat \ {0} /\ Divides(a, h) /\ l \in Int
  <2>1. a \in Nat \ {0}
    BY <1>1, <1>2, Shape DEF NodeType
  <2> QED
    BY <2>1, <1>1, <1>2, Facts, LoopGridsBelow
<1> HIDE DEF a, g, h, l
<1>5. both \in Nat \ {0} /\ Divides(h, both)
  BY <1>4, LcmOfTwo
<1> HIDE DEF both
<1>6. Divides(a, both)
  BY <1>4, <1>5, DividesTransitive
<1>7. Divides(a, l)
  BY <1>3, <1>4, <1>5, <1>6, DividesTransitive
<1>8. l % a = 0
  BY <1>4, <1>7, Divisible
<1> QED
  BY <1>8 DEF a, l

\* A match section starts when the data of the acquisitions it depends on can have
\* reached its signals: it waits for the last one visited, the others end no later,
\* those still to come are after it in the program, and it stays where it was told.
\* In a compressed loop every repetition is on the grid the feedback needs
\* (match_schedule.py 61-229, loop_schedule.py 52-105).
THEOREM FeedbackArrives ==
  ASSUME AutoHasNoTime
  PROVE  Spec => [](NothingMovesLate /\ AcquiresInOrder => MatchWaitsForData)
<1>1. Inv /\ OnGrid /\ Told /\ Waiting /\ AcquiresInOrder => MatchWaitsForData
  <2> SUFFICES ASSUME Inv, OnGrid, Told, Waiting, AcquiresInOrder, Done, NEW n \in Nodes, Matches(n)
               PROVE  /\ \A a \in ToSet(Acquisitions(n)), s \in signals[n] :
                           a < n => Position[n] >= End(a) + Latency[s]
                      /\ \A j \in Nodes \ {1} :
                           (tree[Parent(j)].kind = "compressed" /\ n \in Below(j))
                             => length[j] % tree[n].loopGrid = 0
    BY DEF MatchWaitsForData
  <2>1. /\ tree \in Experiments /\ Built /\ length \in [Nodes -> Nat]
        /\ Position \in [Nodes -> Int] /\ absolute = Position
    BY FinishedSchedule, ToldIsActual
  <2>2. Waits(n, Position[n], length, Position, acquired)
    <3>1. Open(stack) = {}
      BY DEF Inv, Calls, Done, Open
    <3>2. WaitingTimed(n, stack, length, absolute, acquired)
      BY <3>1 DEF Waiting, WaitingBy
    <3> QED
      BY <3>2, <2>1 DEF WaitingTimed
  <2> DEFINE noted == Acquisitions(n)
             P == Position
  <2>3. noted \in Seq(Nodes) /\ noted = acquired[tree[n].handle]
    BY DEF Inv, Typed, Acquisitions
  <2>4. PICK k \in 1 .. Len(noted) :
          /\ noted[k] \in Nodes
          /\ \A s \in signals[n] : P[noted[k]] + length[noted[k]] + Latency[s] <= P[n]
          /\ \A l \in 1 .. Len(noted) : l > k => noted[l] > n
    BY <2>2, <2>3 DEF Waits
  <2>5. \A i, j \in DOMAIN noted : i < j => End(noted[i]) <= End(noted[j])
    BY DEF AcquiresInOrder
  <2>6. \A m \in Nodes : m \in Int
    BY <2>1, Shape
  <2> HIDE DEF noted, P
  <2>7. ASSUME NEW a \in ToSet(noted), NEW s \in signals[n], a < n
        PROVE  P[n] >= End(a) + Latency[s]
    <3>1. PICK i \in DOMAIN noted : noted[i] = a
      BY DEF ToSet
    <3>2. i \in 1 .. Len(noted) /\ a \in Nodes /\ a \in Int /\ n \in Int
      BY <2>3, <2>6, <3>1
    <3>3. ~(i > k)
      BY <2>4, <2>7, <3>1, <3>2
    <3>4. i < k \/ i = k
      BY <3>2, <3>3
    <3>5. k \in DOMAIN noted
      BY <2>3
    <3>6. End(a) <= End(noted[k]) \/ a = noted[k]
      BY <2>5, <3>1, <3>4, <3>5
    <3> DEFINE e == End(a)
               d == P[noted[k]] + length[noted[k]]
    <3>7. End(noted[k]) = d /\ d \in Int /\ e \in Int
      <4>1. \A m \in Nodes : End(m) = P[m] + length[m]
        BY DEF End, P
      <4>2. \A m \in Nodes : P[m] \in Int /\ length[m] \in Int
        BY <2>1 DEF P
      <4>3. noted[k] \in Nodes /\ a \in Nodes
        BY <2>4, <3>2
      <4> QED
        BY <4>1, <4>2, <4>3
    <3>8. d + Latency[s] <= P[n] /\ Latency[s] \in Int /\ P[n] \in Int
      BY <2>1, <2>4, Facts, GridAssumption DEF P
    <3>9. e <= d
      BY <3>6, <3>7
    <3> HIDE DEF e, d
    <3>10. P[n] >= e + Latency[s]
      BY <3>7, <3>8, <3>9
    <3> QED
      BY <3>10 DEF e
  <2>8. \A j \in Nodes \ {1} : (tree[Parent(j)].kind = "compressed" /\ n \in Below(j))
          => length[j] % tree[n].loopGrid = 0
    BY FeedbackRepeats
  <2> QED
    BY <2>7, <2>8 DEF noted, P
<1>2. Spec => [](Inv /\ OnGrid)
  BY GridInvariance
<1>3. Spec => [](Inv /\ (NothingMovesLate => Told /\ Waiting))
  BY WaitingInvariance
<1> QED
  BY <1>1, <1>2, <1>3, PTL

=============================================================================
