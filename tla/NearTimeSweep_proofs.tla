------------------------ MODULE NearTimeSweep_proofs -------------------------
(***************************************************************************)
(* Proofs about the walk over the near-time loops, what is set in each     *)
(* step and what is there at the end, for any experiments, attributes,     *)
(* nodes, AWGs and numbers of attempts.                                    *)
(*                                                                         *)
(* Stack says that the loops entered are the loops around the next         *)
(* statement; Tracking that the parameters whose statements have been      *)
(* passed have the values at the indices of these loops; Following that    *)
(* attributes and nodes lag behind only by what is still noted.            *)
(*                                                                         *)
(* Matched says that the runner's indices are those of the loops entered,  *)
(* and Ordered that the steps begun are the points the walk has passed.    *)
(* The lemmas after that are about one shot: its events are in the list of *)
(* acquires in the order of time, and the vector of a signal has an entry  *)
(* for every place of the arrays it fills.  Accounted adds up results and  *)
(* reports: what is over is complete or has failed MaxTries times.  The    *)
(* values a result gets from a vector are in the order of its places, so   *)
(* each has the rank of its own.                                           *)
(***************************************************************************)
EXTENDS NearTimeSweep, SequenceTheorems, DataLemmas, TLAPS

(* A loop in near time whose body position i is in, its end included.       *)
Open(c, i, j) == j \in DOMAIN c /\ c[j].op = "for" /\ j < i /\ i <= c[j].end

Entries == [at : Nat, index : Nat]
Stack(c, i, ls) ==
  /\ i \in 1 .. Len(c) + 1
  /\ ls \in Seq(Entries)
  /\ \A k \in 1 .. Len(ls) : Open(c, i, ls[k].at) /\ ls[k].index < c[ls[k].at].count
  /\ \A j, k \in 1 .. Len(ls) : j < k => ls[j].at < ls[k].at
  /\ \A j \in DOMAIN c : Open(c, i, j) => \E k \in 1 .. Len(ls) : ls[k].at = j
  /\ \A r \in DOMAIN c : c[r].op = "rt" => ~(r < i /\ i <= c[r].end)
Walking ==
  /\ code \in Programs
  /\ Stack(code, at, loops)
  /\ phase \in {"walk", "execute", "read", "done", "aborted", "raised"}
  /\ Running => at \in DOMAIN code /\ code[at].op = "rt"

-----------------------------------------------------------------------------
(* The structure of the experiment.                                        *)

(* Positions and ends of loops are in the program.                          *)
LEMMA Structure ==
  ASSUME NEW c \in Programs
  PROVE  /\ Len(c) \in Nat /\ DOMAIN c = 1 .. Len(c)
         /\ \A j \in DOMAIN c : c[j].op \in {"for", "rt"} =>
              /\ c[j].count \in Nat \ {0}
              /\ c[j].end \in Nat /\ j < c[j].end /\ c[j].end <= Len(c)
              /\ c[c[j].end].op = "end"
         /\ \A i \in DOMAIN c : c[i].op = "end" =>
              \E j \in DOMAIN c : c[j].op \in {"for", "rt"} /\ c[j].end = i
         /\ \A j, k \in DOMAIN c :
              (c[j].op \in {"for", "rt"} /\ c[k].op \in {"for", "rt"}) =>
                /\ (j < k /\ k < c[j].end) => c[k].end < c[j].end
                /\ c[j].end = c[k].end => j = k
         /\ \A j, k \in DOMAIN c : (c[j].op = "rt" /\ c[k].op = "rt") => j = k
<1>1. c \in Seq(Range(c))
  BY ProgramsAssumption
<1>2. Len(c) \in Nat /\ DOMAIN c = 1 .. Len(c)
  BY <1>1
<1>3. LoopsOf(c) = {j \in DOMAIN c : c[j].op \in {"for", "rt"}}
  BY DEF LoopsOf
<1>4. \A j, k \in DOMAIN c : (c[j].op = "rt" /\ c[k].op = "rt") => j = k
  BY <1>3, ProgramsAssumption
<1>5. \A j \in LoopsOf(c) : /\ c[j].count \in Nat \ {0}
                              /\ c[j].end \in (j + 1) .. Len(c) /\ c[c[j].end].op = "end"
  BY ProgramsAssumption
<1>6. \A j \in DOMAIN c : c[j].op \in {"for", "rt"} =>
        /\ c[j].count \in Nat \ {0}
        /\ c[j].end \in Nat /\ j < c[j].end /\ c[j].end <= Len(c)
        /\ c[c[j].end].op = "end"
  BY <1>2, <1>3, <1>5
<1>7. /\ \A i \in DOMAIN c : c[i].op = "end" => \E j \in LoopsOf(c) : c[j].end = i
      /\ \A j, k \in LoopsOf(c) : (j < k /\ k < c[j].end) => c[k].end < c[j].end
      /\ \A j, k \in LoopsOf(c) : c[j].end = c[k].end => j = k
  BY ProgramsAssumption
<1> QED
  BY <1>2, <1>3, <1>4, <1>6, <1>7

(* The parts of a stack that are left when its last element is taken away,  *)
(* replaced, or one is put on top.                                          *)
LEMMA FrontOf ==
  ASSUME NEW S, NEW s \in Seq(S), s # << >>
  PROVE  /\ Front(s) \in Seq(S) /\ Len(Front(s)) = Len(s) - 1 /\ Len(s) \in Nat \ {0}
         /\ \A k \in 1 .. Len(s) - 1 : Front(s)[k] = s[k]
         /\ Last(s) = s[Len(s)] /\ Last(s) \in S
<1>1. Len(s) \in Nat \ {0} /\ \A k \in 1 .. Len(s) : s[k] \in S
  OBVIOUS
<1>2. Front(s) = SubSeq(s, 1, Len(s) - 1) /\ Last(s) = s[Len(s)]
  BY DEF Front, Last
<1>3. /\ SubSeq(s, 1, Len(s) - 1) \in Seq(S)
      /\ Len(SubSeq(s, 1, Len(s) - 1)) = IF 1 <= Len(s) - 1 THEN Len(s) - 1 - 1 + 1 ELSE 0
      /\ \A k \in 1 .. Len(s) - 1 - 1 + 1 : SubSeq(s, 1, Len(s) - 1)[k] = s[1 + k - 1]
  <2>1. 1 \in Int /\ Len(s) - 1 \in Int /\ \A k \in 1 .. Len(s) - 1 : s[k] \in S
    BY <1>1
  <2> HIDE <1>1
  <2> QED
    BY <2>1, SubSeqProperties
<1>4. Len(s) - 1 - 1 + 1 = Len(s) - 1
  BY <1>1
<1>5. /\ Len(SubSeq(s, 1, Len(s) - 1)) = Len(s) - 1
      /\ \A k \in 1 .. Len(s) - 1 : SubSeq(s, 1, Len(s) - 1)[k] = s[k]
  BY <1>1, <1>3, <1>4
<1> QED
  BY <1>1, <1>2, <1>3, <1>5

LEMMA AppendOf ==
  ASSUME NEW S, NEW s \in Seq(S), NEW e \in S
  PROVE  /\ Append(s, e) \in Seq(S) /\ Len(Append(s, e)) = Len(s) + 1
         /\ \A k \in 1 .. Len(s) : Append(s, e)[k] = s[k]
         /\ Append(s, e)[Len(s) + 1] = e
OBVIOUS

(* The innermost loop is the one whose end is reached.                      *)
LEMMA TopEnds ==
  ASSUME NEW c \in Programs, NEW i \in DOMAIN c, NEW ls, Stack(c, i, ls), c[i].op = "end"
  PROVE  /\ ls # << >> /\ Len(ls) \in Nat \ {0}
         /\ c[ls[Len(ls)].at].end = i
<1>1. PICK j \in DOMAIN c : c[j].op \in {"for", "rt"} /\ c[j].end = i
  BY Structure
<1>2. Open(c, i, j)
  BY <1>1, Structure DEF Stack, Open
<1>3. PICK k \in 1 .. Len(ls) : ls[k].at = j
  BY <1>2 DEF Stack
<1>4. Len(ls) \in Nat \ {0} /\ ls # << >>
  BY <1>3 DEF Stack
<1>5. CASE k = Len(ls)
  BY <1>1, <1>3, <1>4, <1>5
<1>6. CASE k # Len(ls)
  <2> DEFINE m == ls[Len(ls)].at
  <2>1. Open(c, i, m) /\ j < m
    BY <1>3, <1>4, <1>6 DEF Stack
  <2>2. c[m].end < c[j].end
    BY <2>1, <1>1, Structure DEF Open
  <2> QED
    BY <2>1, <2>2, <1>1, Structure DEF Open
<1> QED
  BY <1>5, <1>6

(* After a statement that is no loop and no end the same loops are open.    *)
LEMMA NextStatement ==
  ASSUME NEW c \in Programs, NEW i \in DOMAIN c, NEW ls, Stack(c, i, ls),
         c[i].op \notin {"for", "rt", "end"}
  PROVE  Stack(c, i + 1, ls)
<1>1. \A j \in DOMAIN c : Open(c, i + 1, j) <=> Open(c, i, j)
  BY Structure DEF Open
<1>2. \A r \in DOMAIN c : c[r].op = "rt" => ~(r < i + 1 /\ i + 1 <= c[r].end)
  BY Structure DEF Stack
<1>3. \A k \in 1 .. Len(ls) : Open(c, i + 1, ls[k].at)
  BY <1>1 DEF Stack, Open
<1>4. i + 1 \in 1 .. Len(c) + 1
  BY Structure
<1> QED
  BY <1>1, <1>2, <1>3, <1>4 DEF Stack

(* Behind the real-time loop the same loops are open as before it.          *)
LEMMA AfterRealTime ==
  ASSUME NEW c \in Programs, NEW i \in DOMAIN c, NEW ls, Stack(c, i, ls),
         c[i].op = "rt"
  PROVE  Stack(c, c[i].end + 1, ls)
<1> DEFINE n == c[i].end + 1
<1>1. \A j \in DOMAIN c : Open(c, n, j) <=> Open(c, i, j)
  BY Structure DEF Open
<1>2. \A r \in DOMAIN c : c[r].op = "rt" => ~(r < n /\ n <= c[r].end)
  BY Structure DEF Stack
<1>3. \A k \in 1 .. Len(ls) : Open(c, n, ls[k].at)
  BY <1>1 DEF Stack, Open
<1>4. n \in 1 .. Len(c) + 1
  BY Structure
<1> QED
  BY <1>1, <1>2, <1>3, <1>4 DEF Stack

(* The loop that is entered is on top of the stack.                         *)
LEMMA EnterLoopStack ==
  ASSUME NEW c \in Programs, NEW i \in DOMAIN c, NEW ls, Stack(c, i, ls),
         c[i].op = "for", NEW l \in Entries, l.at = i, l.index = 0
  PROVE  Stack(c, i + 1, Append(ls, l))
<1> DEFINE new == Append(ls, l)
<1>1. /\ new \in Seq(Entries) /\ Len(new) = Len(ls) + 1 /\ Len(ls) \in Nat
      /\ \A k \in 1 .. Len(ls) : new[k] = ls[k]
      /\ new[Len(ls) + 1] = l
  BY AppendOf DEF Stack
<1> HIDE DEF new
<1>2. \A j \in DOMAIN c : Open(c, i + 1, j) <=> (Open(c, i, j) \/ j = i)
  BY Structure DEF Open
<1>3. \A k \in 1 .. Len(new) : Open(c, i + 1, new[k].at) /\ new[k].index < c[new[k].at].count
  <2> SUFFICES ASSUME NEW k \in 1 .. Len(new)
               PROVE  Open(c, i + 1, new[k].at) /\ new[k].index < c[new[k].at].count
    OBVIOUS
  <2>1. CASE k <= Len(ls)
    BY <1>1, <1>2, <2>1 DEF Stack, Open
  <2>2. CASE k = Len(ls) + 1
    BY <1>1, <1>2, <2>2, Structure DEF Open
  <2> QED
    BY <1>1, <2>1, <2>2
<1>4. \A j, k \in 1 .. Len(new) : j < k => new[j].at < new[k].at
  <2> SUFFICES ASSUME NEW j \in 1 .. Len(new), NEW k \in 1 .. Len(new), j < k
               PROVE  new[j].at < new[k].at
    OBVIOUS
  <2>1. j \in 1 .. Len(ls) /\ new[j] = ls[j]
    BY <1>1
  <2>2. CASE k <= Len(ls)
    BY <1>1, <2>1, <2>2 DEF Stack
  <2>3. CASE k = Len(ls) + 1
    BY <1>1, <2>1, <2>3 DEF Stack, Open
  <2> QED
    BY <1>1, <2>2, <2>3
<1>5. \A j \in DOMAIN c : Open(c, i + 1, j) => \E k \in 1 .. Len(new) : new[k].at = j
  <2> SUFFICES ASSUME NEW j \in DOMAIN c, Open(c, i + 1, j)
               PROVE  \E k \in 1 .. Len(new) : new[k].at = j
    OBVIOUS
  <2>1. CASE j = i
    BY <1>1, <2>1
  <2>2. CASE Open(c, i, j)
    <3>1. PICK k \in 1 .. Len(ls) : ls[k].at = j
      BY <2>2 DEF Stack
    <3> QED
      BY <1>1, <3>1
  <2> QED
    BY <1>2, <2>1, <2>2
<1>6. \A r \in DOMAIN c : c[r].op = "rt" => ~(r < i + 1 /\ i + 1 <= c[r].end)
  BY Structure DEF Stack
<1>7. i + 1 \in 1 .. Len(c) + 1
  BY Structure
<1> QED
  BY <1>1, <1>3, <1>4, <1>5, <1>6, <1>7 DEF Stack, new

(* Another iteration: the loops around it are the same.                     *)
LEMMA NextIterationStack ==
  ASSUME NEW c \in Programs, NEW i \in DOMAIN c, NEW ls, Stack(c, i, ls),
         c[i].op = "end",
         NEW l \in Entries, l.at = Last(ls).at, l.index < c[l.at].count
  PROVE  /\ Stack(c, l.at + 1, Append(Front(ls), l))
         /\ l.at < i /\ c[l.at].op = "for"
         /\ Len(Append(Front(ls), l)) = Len(ls)
         /\ \A k \in 1 .. Len(ls) - 1 : Append(Front(ls), l)[k] = ls[k] /\ ls[k].at < l.at
         /\ Append(Front(ls), l)[Len(ls)] = l
<1> DEFINE n == Len(ls)
           new == Append(Front(ls), l)
           j == l.at
<1>1. /\ ls # << >> /\ ls \in Seq(Entries)
      /\ c[ls[n].at].end = i /\ n \in Nat \ {0}
  <2> HIDE DEF new, j
  <2>1. ls \in Seq(Entries)
    BY DEF Stack
  <2> QED
    BY <2>1, TopEnds
<1>2. /\ Front(ls) \in Seq(Entries) /\ Len(Front(ls)) = n - 1
      /\ \A k \in 1 .. n - 1 : Front(ls)[k] = ls[k]
      /\ Last(ls) = ls[n]
  BY <1>1, FrontOf
<1>3. /\ new \in Seq(Entries) /\ Len(new) = n - 1 + 1
      /\ \A k \in 1 .. n - 1 : new[k] = Front(ls)[k]
      /\ new[n - 1 + 1] = l
  BY <1>2, AppendOf
<1> HIDE DEF new
<1>4. /\ Len(new) = n /\ new[n] = l
      /\ \A k \in 1 .. n - 1 : new[k] = ls[k]
      /\ \A k \in 1 .. n : new[k].at = ls[k].at
  BY <1>1, <1>2, <1>3
<1>5. Open(c, i, j) /\ c[j].end = i
  BY <1>1, <1>2 DEF Stack
<1>6. \A k \in 1 .. n - 1 : ls[k].at < j
  BY <1>1, <1>2 DEF Stack
<1>7. \A m \in DOMAIN c : Open(c, i, m) => m <= j
  <2> SUFFICES ASSUME NEW m \in DOMAIN c, Open(c, i, m) PROVE m <= j
    OBVIOUS
  <2>1. PICK k \in 1 .. n : ls[k].at = m
    BY DEF Stack
  <2>2. CASE k = n
    BY <1>2, <2>1, <2>2, Structure
  <2>3. CASE k # n
    BY <1>1, <1>5, <1>6, <2>1, <2>3, Structure DEF Open
  <2> QED
    BY <2>2, <2>3
<1> HIDE DEF j
<1>8. \A m \in DOMAIN c : Open(c, j + 1, m) <=> Open(c, i, m)
  BY <1>5, <1>7, Structure DEF Open
<1>9. \A k \in 1 .. n : Open(c, j + 1, new[k].at) /\ new[k].index < c[new[k].at].count
  <2> SUFFICES ASSUME NEW k \in 1 .. n
               PROVE  Open(c, j + 1, new[k].at) /\ new[k].index < c[new[k].at].count
    OBVIOUS
  <2>1. Open(c, j + 1, new[k].at)
    BY <1>4, <1>8 DEF Stack, Open
  <2>2. CASE k = n
    BY <1>4, <2>1, <2>2
  <2>3. CASE k # n
    BY <1>1, <1>4, <2>1, <2>3 DEF Stack
  <2> QED
    BY <2>1, <2>2, <2>3
<1>10. \A m, k \in 1 .. n : m < k => new[m].at < new[k].at
  BY <1>4 DEF Stack
<1>11. \A m \in DOMAIN c : Open(c, j + 1, m) => \E k \in 1 .. n : new[k].at = m
  BY <1>4, <1>8 DEF Stack
<1>12. \A r \in DOMAIN c : c[r].op = "rt" => ~(r < j + 1 /\ j + 1 <= c[r].end)
  <2> SUFFICES ASSUME NEW r \in DOMAIN c, c[r].op = "rt", r < j + 1, j + 1 <= c[r].end
               PROVE  FALSE
    OBVIOUS
  <2>1. j \in DOMAIN c /\ c[j].op = "for" /\ j < i /\ c[j].end = i
    BY <1>5 DEF Open
  <2>2. r # j
    BY <2>1
  <2>3. r < j /\ j < c[r].end
    BY <2>1, <2>2, Structure
  <2>4. i < c[r].end /\ r < i
    BY <2>1, <2>3, Structure
  <2> QED
    BY <2>4, Structure DEF Stack
<1>13. j + 1 \in 1 .. Len(c) + 1
  BY <1>5, Structure DEF Open
<1>14. Stack(c, j + 1, new)
  BY <1>3, <1>4, <1>9, <1>10, <1>11, <1>12, <1>13 DEF Stack
<1> QED
  BY <1>4, <1>5, <1>6, <1>14 DEF new, j, Open

(* The loop is left: only it is closed.                                     *)
LEMMA LeaveLoopStack ==
  ASSUME NEW c \in Programs, NEW i \in DOMAIN c, NEW ls, Stack(c, i, ls),
         c[i].op = "end"
  PROVE  /\ Stack(c, i + 1, Front(ls))
         /\ Len(Front(ls)) = Len(ls) - 1
         /\ \A k \in 1 .. Len(ls) - 1 : Front(ls)[k] = ls[k]
<1> DEFINE n == Len(ls)
           j == ls[n].at
           new == Front(ls)
<1>1. /\ ls # << >> /\ ls \in Seq(Entries)
      /\ c[j].end = i /\ n \in Nat \ {0}
  BY TopEnds DEF Stack
<1>2. /\ new \in Seq(Entries) /\ Len(new) = n - 1
      /\ \A k \in 1 .. n - 1 : new[k] = ls[k]
  BY <1>1, FrontOf
<1> HIDE DEF new
<1>3. Open(c, i, j)
  BY <1>1 DEF Stack
<1>4. \A m \in DOMAIN c : Open(c, i + 1, m) <=> (Open(c, i, m) /\ m # j)
  BY <1>1, <1>3, Structure DEF Open
<1>5. \A k \in 1 .. n - 1 : ls[k].at < j /\ Open(c, i, ls[k].at)
  BY <1>1 DEF Stack
<1>6. \A k \in 1 .. n - 1 : Open(c, i + 1, new[k].at) /\ new[k].index < c[new[k].at].count
  <2> SUFFICES ASSUME NEW k \in 1 .. n - 1
               PROVE  Open(c, i + 1, new[k].at) /\ new[k].index < c[new[k].at].count
    OBVIOUS
  <2>1. ls[k].at # j /\ ls[k].at \in DOMAIN c
    BY <1>3, <1>5, Structure DEF Open
  <2> QED
    BY <1>1, <1>2, <1>4, <1>5, <2>1 DEF Stack
<1>7. \A r \in DOMAIN c : c[r].op = "rt" => ~(r < i + 1 /\ i + 1 <= c[r].end)
  BY Structure DEF Stack
<1>8. i + 1 \in 1 .. Len(c) + 1
  BY Structure
<1>9. \A m, k \in 1 .. n - 1 : m < k => new[m].at < new[k].at
  BY <1>1, <1>2 DEF Stack
<1>10. \A m \in DOMAIN c : Open(c, i + 1, m) => \E k \in 1 .. n - 1 : new[k].at = m
  <2> SUFFICES ASSUME NEW m \in DOMAIN c, Open(c, i + 1, m)
               PROVE  \E k \in 1 .. n - 1 : new[k].at = m
    OBVIOUS
  <2>1. PICK k \in 1 .. n : ls[k].at = m
    BY <1>4 DEF Stack
  <2>2. k # n
    BY <1>4, <2>1
  <2> QED
    BY <1>1, <1>2, <2>1, <2>2
<1> QED
  BY <1>2, <1>6, <1>7, <1>8, <1>9, <1>10 DEF Stack, new

-----------------------------------------------------------------------------
(* The walk.                                                               *)

LEMMA InitWalks ==
  Init => Walking
<1> SUFFICES ASSUME Init PROVE Walking
  OBVIOUS
<1>1. code \in Programs /\ at = 1 /\ loops = << >> /\ phase = "walk"
  BY DEF Init
<1>2. Len(code) \in Nat /\ DOMAIN code = 1 .. Len(code)
  BY <1>1, Structure
<1>3. Stack(code, 1, << >>)
  BY <1>2 DEF Stack, Open
<1> QED
  BY <1>1, <1>3 DEF Walking, Running

(* What the end of an iteration does to position and stack.                 *)
LEMMA Iterates ==
  ASSUME Walking, LoopEnds
  PROVE  /\ code' = code /\ Stack(code, at', loops')
         /\ Len(loops) \in Nat /\ at \in DOMAIN code
         /\ \/ /\ at' = at + 1 /\ Len(loops') = Len(loops) - 1
               /\ \A k \in 1 .. Len(loops') : loops'[k] = loops[k]
            \/ \E j \in DOMAIN code :
                 /\ at' = j + 1 /\ j < at /\ code[j].op = "for"
                 /\ Len(loops') = Len(loops) /\ loops'[Len(loops)].at = j
                 /\ \A k \in 1 .. Len(loops) - 1 : loops'[k] = loops[k]
<1> DEFINE l == [Last(loops) EXCEPT !.index = @ + 1]
<1>1. /\ code \in Programs /\ at \in DOMAIN code /\ code[at].op = "end"
      /\ Stack(code, at, loops) /\ code' = code
  BY DEF Walking, LoopEnds, Statement, recipe
<1>2. loops \in Seq(Entries) /\ loops # << >> /\ Len(loops) \in Nat
  BY <1>1, TopEnds DEF Stack
<1>3. Last(loops) \in Entries /\ Last(loops) = loops[Len(loops)]
  BY <1>2, FrontOf
<1>4. l \in Entries /\ l.at = Last(loops).at
  BY <1>3 DEF Entries
<1>5. CASE l.index < code[l.at].count
  <2>1. loops' = Append(Front(loops), l) /\ at' = l.at + 1
    BY <1>5 DEF LoopEnds
  <2> HIDE DEF l
  <2>2. /\ Stack(code, l.at + 1, Append(Front(loops), l))
        /\ l.at < at /\ code[l.at].op = "for"
        /\ Len(Append(Front(loops), l)) = Len(loops)
        /\ \A k \in 1 .. Len(loops) - 1 :
             Append(Front(loops), l)[k] = loops[k] /\ loops[k].at < l.at
        /\ Append(Front(loops), l)[Len(loops)] = l
    BY <1>1, <1>4, <1>5, NextIterationStack
  <2>3. l.at \in DOMAIN code
    <3>1. Len(loops) \in 1 .. Len(loops)
      BY <1>2
    <3> QED
      BY <1>1, <1>3, <1>4, <3>1 DEF Stack, Open
  <2> QED
    BY <1>1, <1>2, <2>1, <2>2, <2>3
<1>6. CASE ~(l.index < code[l.at].count)
  <2>1. loops' = Front(loops) /\ at' = at + 1
    BY <1>6 DEF LoopEnds
  <2>2. /\ Stack(code, at + 1, Front(loops)) /\ Len(Front(loops)) = Len(loops) - 1
        /\ \A k \in 1 .. Len(loops) - 1 : Front(loops)[k] = loops[k]
    BY <1>1, LeaveLoopStack
  <2> QED
    BY <1>1, <1>2, <2>1, <2>2
<1> QED
  BY <1>5, <1>6

LEMMA StepWalks ==
  Walking /\ [Next]_vars => Walking'
<1> SUFFICES ASSUME Walking, [Next]_vars PROVE Walking'
  OBVIOUS
<1>1. code \in Programs /\ Stack(code, at, loops) /\ DOMAIN code = 1 .. Len(code)
  BY Structure DEF Walking
<1>2. CASE EnterLoop
  <2> DEFINE l == [at |-> at, index |-> 0]
  <2>1. /\ code' = code /\ phase' = "walk" /\ at' = at + 1 /\ loops' = Append(loops, l)
        /\ at \in DOMAIN code /\ code[at].op = "for"
    BY <1>2 DEF EnterLoop, Statement, recipe
  <2>2. l \in Entries /\ l.at = at /\ l.index = 0
    BY <1>1, <2>1 DEF Entries
  <2> HIDE DEF l
  <2>3. Stack(code, at + 1, Append(loops, l))
    BY <1>1, <2>1, <2>2, EnterLoopStack
  <2> QED
    BY <1>1, <2>1, <2>3 DEF Walking, Running
<1>3. CASE LoopEnds
  <2>1. phase' = "walk"
    BY <1>3 DEF LoopEnds, Statement
  <2> QED
    BY <1>1, <1>3, <2>1, Iterates DEF Walking, Running
<1>4. CASE SetParam \/ SetNode \/ ReplacePulse \/ Callback
  <2>1. /\ code' = code /\ loops' = loops /\ at \in DOMAIN code
        /\ code[at].op \notin {"for", "rt", "end"}
        /\ phase' \in {"walk", "aborted", "raised"}
        /\ at' = at \/ at' = at + 1
    BY <1>4 DEF SetParam, SetNode, ReplacePulse, Callback, Statement, recipe, walker
  <2>2. Stack(code, at + 1, loops)
    BY <1>1, <2>1, NextStatement
  <2> QED
    BY <1>1, <2>1, <2>2 DEF Walking, Running
<1>5. CASE SkipChunk \/ StepIsRead \/ (AttemptFails /\ ~(try < MaxTries))
  <2>1. /\ code' = code /\ loops' = loops /\ at' = code[at].end + 1 /\ phase' = "walk"
        /\ at \in DOMAIN code /\ code[at].op = "rt"
    BY <1>5 DEF SkipChunk, StepIsRead, AttemptFails, Leave, Statement, recipe, Walking, Running
  <2>2. Stack(code, code[at].end + 1, loops)
    BY <1>1, <2>1, AfterRealTime
  <2> QED
    BY <1>1, <2>1, <2>2 DEF Walking, Running
<1>6. CASE PrepareStep
  BY <1>1, <1>6 DEF PrepareStep, Statement, recipe, walker, Walking, Running
<1>7. CASE StepRaises \/ StepExecuted \/ ReadAwg \/ ReadRaises \/ Finish
  BY <1>1, <1>7 DEF StepRaises, StepExecuted, ReadAwg, ReadRaises, Finish, recipe, walker,
                    Walking, Running
<1>8. CASE AttemptFails /\ try < MaxTries
  BY <1>1, <1>8 DEF AttemptFails, recipe, Walking, Running
<1>9. CASE UNCHANGED vars
  BY <1>1, <1>9 DEF vars, recipe, walker, Walking, Running
<1> QED
  BY <1>2, <1>3, <1>4, <1>5, <1>6, <1>7, <1>8, <1>9 DEF Next, AttemptFails

-----------------------------------------------------------------------------
(* The nodes the program sets.                                             *)

Asked == [node : Nodes, value : Int]

(* What was asked of a node last is the last set of it that waits, or, when *)
(* none does, what the node has.                                            *)
Waiting ==
  /\ userSet \in Seq(Asked)
  /\ wanted \in [Nodes -> Values]
  /\ \A k \in 1 .. Len(userSet) : wanted[userSet[k].node] # None
  /\ \A n \in Nodes : wanted[n] # None =>
       \/ \E k \in 1 .. Len(userSet) :
            /\ userSet[k].node = n /\ userSet[k].value = wanted[n]
            /\ \A j \in 1 .. Len(userSet) : k < j => userSet[j].node # n
       \/ /\ \A k \in 1 .. Len(userSet) : userSet[k].node # n
          /\ Keys[n] = << >> => node[n] = wanted[n]
  /\ Running => userSet = << >>

LEMMA InitWaits ==
  Init => Waiting
<1> SUFFICES ASSUME Init PROVE Waiting
  OBVIOUS
<1>1. userSet = << >> /\ wanted = [n \in Nodes |-> None] /\ phase = "walk"
  BY DEF Init
<1>2. wanted \in [Nodes -> Values] /\ \A n \in Nodes : wanted[n] = None
  BY <1>1 DEF Values
<1> QED
  BY <1>1, <1>2 DEF Waiting, Running

(* The batch of the user has the last set of each node.                     *)
LEMMA LastIsDelivered ==
  ASSUME Waiting, NEW n \in Nodes, Keys[n] = << >>, wanted[n] # None
  PROVE  Delivered[n] = wanted[n]
<1> DEFINE sets == {k \in DOMAIN userSet : userSet[k].node = n}
<1>1. n \notin Swept(Updated)
  BY DEF Swept
<1>2. Delivered[n] = LastSet(n)
  BY <1>1 DEF Delivered
<1>3. userSet \in Seq(Asked) /\ DOMAIN userSet = 1 .. Len(userSet) /\ Len(userSet) \in Nat
  BY DEF Waiting
<1>4. CASE sets = {}
  BY <1>2, <1>3, <1>4 DEF LastSet, Waiting
<1>5. CASE sets # {}
  <2>1. PICK k \in sets : /\ userSet[k].value = wanted[n]
                          /\ \A j \in sets : j <= k
    BY <1>3, <1>5 DEF Waiting
  <2> DEFINE m == CHOOSE x \in sets : \A j \in sets : j <= x
  <2>2. m \in sets /\ \A j \in sets : j <= m
    BY <2>1
  <2>3. m = k
    BY <1>3, <2>1, <2>2
  <2>4. LastSet(n) = userSet[m].value
    BY <1>5 DEF LastSet
  <2> QED
    BY <1>2, <2>1, <2>3, <2>4
<1> QED
  BY <1>4, <1>5

LEMMA StepWaits ==
  Walking /\ Waiting /\ [Next]_vars => Waiting'
<1> SUFFICES ASSUME Walking, Waiting, [Next]_vars PROVE Waiting'
  OBVIOUS
<1>1. CASE SetNode
  <2> DEFINE m == code[at].node
             v == code[at].value
             e == [node |-> m, value |-> v]
  <2>1. /\ userSet' = Append(userSet, e) /\ wanted' = [wanted EXCEPT ![m] = v]
        /\ node' = node /\ phase' = "walk" /\ at \in DOMAIN code /\ code[at].op = "set"
    BY <1>1 DEF SetNode, Statement
  <2>2. m \in Nodes /\ v \in Int /\ v # None
    BY <2>1, SetsAssumption, NoneAssumption DEF Walking
  <2>3. e \in Asked /\ e.node = m /\ e.value = v
    BY <2>2 DEF Asked
  <2> HIDE DEF m, v, e
  <2>4. /\ userSet' \in Seq(Asked) /\ Len(userSet') = Len(userSet) + 1
        /\ \A k \in 1 .. Len(userSet) : userSet'[k] = userSet[k]
        /\ userSet'[Len(userSet) + 1] = e /\ Len(userSet) \in Nat
    BY <2>1, <2>3, AppendOf DEF Waiting
  <2>5. /\ wanted' \in [Nodes -> Values] /\ wanted'[m] = v
        /\ \A n \in Nodes : n # m => wanted'[n] = wanted[n]
    BY <2>1, <2>2 DEF Waiting, Values
  <2>6. \A k \in 1 .. Len(userSet') : wanted'[userSet'[k].node] # None
    <3> SUFFICES ASSUME NEW k \in 1 .. Len(userSet') PROVE wanted'[userSet'[k].node] # None
      OBVIOUS
    <3>1. CASE k <= Len(userSet)
      <4>0. k \in 1 .. Len(userSet) /\ userSet \in Seq(Asked)
        BY <2>4, <3>1 DEF Waiting
      <4>1. userSet[k] \in Asked
        BY <4>0
      <4>2. userSet[k].node \in Nodes
        BY <4>1 DEF Asked
      <4> QED
        BY <2>2, <2>4, <2>5, <4>0, <4>2 DEF Waiting
    <3>2. CASE k = Len(userSet) + 1
      BY <2>2, <2>3, <2>4, <2>5, <3>2
    <3> QED
      BY <2>4, <3>1, <3>2
  <2>7. ASSUME NEW n \in Nodes, wanted'[n] # None
        PROVE  \/ \E k \in 1 .. Len(userSet') :
                    /\ userSet'[k].node = n /\ userSet'[k].value = wanted'[n]
                    /\ \A j \in 1 .. Len(userSet') : k < j => userSet'[j].node # n
               \/ /\ \A k \in 1 .. Len(userSet') : userSet'[k].node # n
                  /\ Keys[n] = << >> => node'[n] = wanted'[n]
    <3>1. CASE n = m
      <4>1. Len(userSet) + 1 \in 1 .. Len(userSet')
        BY <2>4
      <4> QED
        BY <2>3, <2>4, <2>5, <3>1, <4>1
    <3>2. CASE n # m
      <4>1. wanted'[n] = wanted[n]
        BY <2>5, <3>2
      <4>2. userSet'[Len(userSet) + 1].node # n
        BY <2>3, <2>4, <3>2
      <4>3. CASE \E k \in 1 .. Len(userSet) :
                   /\ userSet[k].node = n /\ userSet[k].value = wanted[n]
                   /\ \A j \in 1 .. Len(userSet) : k < j => userSet[j].node # n
        BY <2>4, <4>1, <4>2, <4>3
      <4>4. CASE /\ \A k \in 1 .. Len(userSet) : userSet[k].node # n
                 /\ Keys[n] = << >> => node[n] = wanted[n]
        BY <2>1, <2>4, <4>1, <4>2, <4>4
      <4> QED
        BY <2>7, <4>1, <4>3, <4>4 DEF Waiting
    <3> QED
      BY <3>1, <3>2
  <2> QED
    BY <2>1, <2>4, <2>5, <2>6, <2>7 DEF Waiting, Running
<1>2. CASE PrepareStep
  <2>1. userSet' = << >> /\ wanted' = wanted /\ node' = Delivered
    BY <1>2 DEF PrepareStep
  <2>2. \A n \in Nodes : (Keys[n] = << >> /\ wanted[n] # None) => node'[n] = wanted[n]
    BY <2>1, LastIsDelivered
  <2> QED
    BY <2>1, <2>2 DEF Waiting
<1>3. CASE EnterLoop \/ LoopEnds \/ SetParam \/ ReplacePulse \/ Callback \/ SkipChunk \/ StepRaises
           \/ StepExecuted \/ ReadAwg \/ ReadRaises \/ StepIsRead \/ AttemptFails
           \/ Finish \/ UNCHANGED vars
  <2>1. userSet' = userSet /\ wanted' = wanted /\ node' = node /\ (Running' => Running)
    BY <1>3 DEF EnterLoop, LoopEnds, SetParam, ReplacePulse, Callback, SkipChunk, StepRaises,
                StepExecuted, ReadAwg, ReadRaises, StepIsRead, AttemptFails, Finish,
                vars, trackers, Statement, Leave, Running
  <2> QED
    BY <2>1 DEF Waiting
<1> QED
  BY <1>1, <1>2, <1>3 DEF Next

(* While a step is executed, each node the program sets itself has the      *)
(* value that was asked for last, whatever the experiment, however its      *)
(* loops are nested and however often steps fail.                           *)
THEOREM UserSets ==
  Spec => []UserSetsAreInForce
<1>1. Init => Walking /\ Waiting
  BY InitWalks, InitWaits
<1>2. Walking /\ Waiting /\ [Next]_vars => Walking' /\ Waiting'
  BY StepWalks, StepWaits
<1>3. Walking /\ Waiting => UserSetsAreInForce
  <2> SUFFICES ASSUME Waiting, Running, NEW n \in Nodes, Keys[n] = << >>, wanted[n] # None
               PROVE  node[n] = wanted[n]
    BY DEF UserSetsAreInForce
  <2>1. userSet = << >>
    BY DEF Waiting
  <2> QED
    BY <2>1 DEF Waiting
<1> QED
  BY <1>1, <1>2, <1>3, PTL DEF Spec

-----------------------------------------------------------------------------
(* The parameters of the sweeps.                                           *)

(* A parameter whose statement has been passed has its value at the index   *)
(* of the loop it stands in, if that loop is open.                          *)
Tracking ==
  /\ DOMAIN params = Params
  /\ \A p \in Params : Setters(p) = {} => params[p] = None
  /\ \A i \in DOMAIN code : code[i].op = "param" /\ i < at /\ code[i].name \in Params =>
       \A k \in 1 .. Len(loops) :
         loops[k].at = Innermost(i) => params[code[i].name] = ValueAt(code[i], loops[k].index)

(* The loop a parameter stands in is in near time, around the real-time     *)
(* loop too, and on top of the stack at the parameter's statement.          *)
LEMMA SweepLoop ==
  ASSUME Walking, NEW i \in DOMAIN code, code[i].op = "param"
  PROVE  /\ Innermost(i) \in DOMAIN code /\ code[Innermost(i)].op = "for"
         /\ Innermost(i) < i /\ i < code[Innermost(i)].end
         /\ \A r \in DOMAIN code : code[r].op = "rt" =>
              i < r /\ Innermost(i) < r /\ r < code[Innermost(i)].end
         /\ at = i => Len(loops) \in 1 .. Len(loops) /\ loops[Len(loops)].at = Innermost(i)
<1>1. code \in Programs
  BY DEF Walking
<1>2. /\ Len(code) \in Nat /\ DOMAIN code = 1 .. Len(code)
      /\ LoopsOf(code) = {j \in DOMAIN code : Loop(j)}
      /\ \A j \in DOMAIN code : Loop(j) => code[j].end \in Nat
  BY <1>1, Structure DEF LoopsOf, Loop
<1>3. PICK j \in LoopsOf(code) :
        /\ j < i /\ i < code[j].end
        /\ \A k \in LoopsOf(code) : (k < i /\ i < code[k].end) => k <= j
  BY <1>1, SweepsAssumption
<1>4. j \in LoopsAround(i) /\ \A k \in LoopsAround(i) : k <= j
  BY <1>2, <1>3 DEF LoopsAround
<1> DEFINE m == Innermost(i)
<1>5. m \in LoopsAround(i) /\ \A k \in LoopsAround(i) : k <= m
  BY <1>4 DEF Innermost
<1> HIDE DEF m
<1>6. m \in DOMAIN code /\ Loop(m) /\ m < i /\ i < code[m].end
  BY <1>5 DEF LoopsAround
<1>7. \A r \in DOMAIN code : code[r].op = "rt" => i < r /\ r < code[m].end
  <2> SUFFICES ASSUME NEW r \in DOMAIN code, code[r].op = "rt"
               PROVE  i < r /\ r < code[m].end
    OBVIOUS
  <2>1. m \in LoopsOf(code) /\ r \in LoopsOf(code)
    BY <1>2, <1>6 DEF Loop
  <2> QED
    BY <1>1, <1>6, <2>1, SweepsAssumption
<1>8. code[m].op = "for"
  BY <1>2, <1>6, <1>7 DEF Loop
<1>9. \A r \in DOMAIN code : code[r].op = "rt" => m < r
  BY <1>2, <1>6, <1>7
<1>10. ASSUME at = i
       PROVE  Len(loops) \in 1 .. Len(loops) /\ loops[Len(loops)].at = m
  <2>1. Stack(code, i, loops)
    BY <1>10 DEF Walking
  <2>2. Open(code, i, m)
    BY <1>2, <1>6, <1>8 DEF Open
  <2>3. PICK k \in 1 .. Len(loops) : loops[k].at = m
    BY <1>6, <2>1, <2>2 DEF Stack
  <2>4. Len(loops) \in 1 .. Len(loops)
    BY <2>1, <2>3 DEF Stack
  <2> DEFINE t == loops[Len(loops)].at
  <2>5. Open(code, i, t) /\ (k # Len(loops) => m < t)
    BY <2>1, <2>3, <2>4 DEF Stack
  <2>6. code[code[t].end].op = "end"
    BY <1>1, <2>5, Structure DEF Open
  <2>7. t \in LoopsAround(i)
    BY <1>2, <2>5, <2>6 DEF LoopsAround, Open, Loop
  <2>8. t <= m
    BY <1>5, <2>7
  <2>9. m \in Nat /\ t \in Nat
    BY <1>2, <1>6, <2>5 DEF Open
  <2>10. k = Len(loops)
    BY <2>5, <2>8, <2>9
  <2> QED
    BY <2>3, <2>4, <2>10
<1> QED
  BY <1>6, <1>7, <1>8, <1>9, <1>10 DEF m

(* Innermost is about the program only.                                     *)
LEMMA SameProgram ==
  ASSUME code' = code
  PROVE  /\ \A i : Innermost(i)' = Innermost(i)
         /\ \A p : Setters(p)' = Setters(p)
<1>1. \A i : LoopsAround(i)' = LoopsAround(i)
  BY DEF LoopsAround, Loop
<1> QED
  BY <1>1 DEF Innermost, Setters

LEMMA InitTracks ==
  Init => Tracking
<1> SUFFICES ASSUME Init PROVE Tracking
  OBVIOUS
<1>1. params = [p \in Params |-> None] /\ loops = << >>
  BY DEF Init
<1> QED
  BY <1>1 DEF Tracking

LEMMA StepTracks ==
  Walking /\ Tracking /\ [Next]_vars => Tracking'
<1> SUFFICES ASSUME Walking, Tracking, [Next]_vars PROVE Tracking'
  OBVIOUS
<1>1. /\ code \in Programs /\ Stack(code, at, loops)
      /\ DOMAIN code = 1 .. Len(code) /\ Len(code) \in Nat
      /\ Len(loops) \in Nat /\ at \in Nat
  BY Structure DEF Walking, Stack
<1>2. code' = code
  BY DEF Next, vars, recipe, EnterLoop, LoopEnds, SetParam, SetNode, ReplacePulse, Callback,
         SkipChunk, PrepareStep, StepRaises, StepExecuted, ReadAwg, ReadRaises, StepIsRead,
         AttemptFails, Finish
<1>3. /\ \A i : Innermost(i)' = Innermost(i)
      /\ \A p : Setters(p)' = Setters(p)
  BY <1>2, SameProgram
\* What is left to show when no parameter is set.
<1>4. ASSUME params' = params,
             \A i \in DOMAIN code : code[i].op = "param" /\ i < at' =>
               \A k \in 1 .. Len(loops') : loops'[k].at = Innermost(i) =>
                 i < at /\ k \in 1 .. Len(loops) /\ loops'[k] = loops[k]
      PROVE  Tracking'
  <2>1. \A i \in DOMAIN code' : code'[i].op = "param" /\ i < at' /\ code'[i].name \in Params =>
          \A k \in 1 .. Len(loops') : loops'[k].at = Innermost(i)' =>
            params'[code'[i].name] = ValueAt(code'[i], loops'[k].index)
    BY <1>2, <1>3, <1>4 DEF Tracking
  <2> QED
    BY <1>3, <1>4, <2>1 DEF Tracking
<1>5. CASE EnterLoop
  <2> DEFINE l == [at |-> at, index |-> 0]
  <2>1. /\ loops' = Append(loops, l) /\ at' = at + 1 /\ params' = params
        /\ at \in DOMAIN code /\ code[at].op = "for"
    BY <1>5 DEF EnterLoop, Statement, trackers
  <2>2. /\ Len(loops') = Len(loops) + 1 /\ loops'[Len(loops) + 1] = l
        /\ \A k \in 1 .. Len(loops) : loops'[k] = loops[k]
    <3>1. l \in Entries /\ loops \in Seq(Entries)
      BY <1>1 DEF Entries, Stack
    <3> HIDE DEF l
    <3> QED
      BY <2>1, <3>1, AppendOf
  <2>3. ASSUME NEW i \in DOMAIN code, code[i].op = "param", i < at',
               NEW k \in 1 .. Len(loops'), loops'[k].at = Innermost(i)
        PROVE  i < at /\ k \in 1 .. Len(loops) /\ loops'[k] = loops[k]
    <3>1. i < at
      BY <1>1, <2>1, <2>3
    <3>2. Innermost(i) < i
      BY <2>3, SweepLoop
    <3>3. Innermost(i) # at
      BY <1>1, <3>1, <3>2, <2>3, SweepLoop
    <3>4. k # Len(loops) + 1
      BY <2>2, <2>3, <3>3
    <3> QED
      BY <1>1, <2>2, <3>1, <3>4
  <2> QED
    BY <1>4, <2>1, <2>3
<1>6. CASE LoopEnds
  <2>1. params' = params /\ code[at].op = "end"
    BY <1>6 DEF LoopEnds, trackers, Statement
  <2>2. CASE /\ at' = at + 1 /\ Len(loops') = Len(loops) - 1
             /\ \A k \in 1 .. Len(loops') : loops'[k] = loops[k]
    <3>1. \A i \in DOMAIN code : code[i].op = "param" /\ i < at' => i < at
      BY <1>1, <2>1, <2>2
    <3>2. \A k \in 1 .. Len(loops') : k \in 1 .. Len(loops) /\ loops'[k] = loops[k]
      BY <1>1, <2>2
    <3> QED
      BY <1>4, <2>1, <3>1, <3>2
  <2>3. ASSUME NEW j \in DOMAIN code, at' = j + 1, j < at, code[j].op = "for",
               Len(loops') = Len(loops), loops'[Len(loops)].at = j,
               \A k \in 1 .. Len(loops) - 1 : loops'[k] = loops[k]
        PROVE  Tracking'
    <3>1. ASSUME NEW i \in DOMAIN code, code[i].op = "param", i < at',
                 NEW k \in 1 .. Len(loops'), loops'[k].at = Innermost(i)
          PROVE  i < at /\ k \in 1 .. Len(loops) /\ loops'[k] = loops[k]
      <4>1. i < j
        BY <1>1, <2>3, <3>1
      <4>2. Innermost(i) < i /\ Innermost(i) \in DOMAIN code
        BY <3>1, SweepLoop
      <4>3. Innermost(i) # j
        BY <1>1, <4>1, <4>2
      <4>4. k # Len(loops)
        BY <2>3, <3>1, <4>3
      <4> QED
        BY <1>1, <2>3, <4>1, <4>4
    <3> QED
      BY <1>4, <2>1, <3>1
  <2> QED
    BY <1>6, <2>2, <2>3, Iterates
<1>7. CASE SetParam
  <2> DEFINE q == code[at].name
             v == ValueAt(code[at], Last(loops).index)
  <2>1. /\ params' = [params EXCEPT ![q] = v] /\ loops' = loops /\ at' = at + 1
        /\ at \in DOMAIN code /\ code[at].op = "param"
    BY <1>7 DEF SetParam, Statement
  <2>2. Last(loops) = loops[Len(loops)]
    BY DEF Last
  <2>3. /\ DOMAIN params' = Params
        /\ q \in Params => params'[q] = v
        /\ \A p \in Params : p # q => params'[p] = params[p]
    BY <2>1 DEF Tracking
  <2>4. \A p \in Params : Setters(p) = {} => params'[p] = None
    BY <2>1, <2>3 DEF Tracking, Setters
  <2>5. ASSUME NEW i \in DOMAIN code, code[i].op = "param", i < at + 1,
               code[i].name \in Params, NEW k \in 1 .. Len(loops),
               loops[k].at = Innermost(i)
        PROVE  params'[code[i].name] = ValueAt(code[i], loops[k].index)
    <3>1. CASE i = at
      <4>1. Len(loops) \in 1 .. Len(loops) /\ loops[Len(loops)].at = Innermost(i)
        BY <2>5, <3>1, SweepLoop
      <4>2. k = Len(loops)
        <5>1. Innermost(i) \in Nat
          BY <1>1, <2>5, SweepLoop
        <5> QED
          BY <1>1, <2>5, <4>1, <5>1 DEF Stack
      <4> QED
        BY <2>2, <2>3, <2>5, <3>1, <4>2
    <3>2. CASE i # at
      <4>1. code[i].name # q
        BY <1>1, <2>1, <2>5, <3>2, SweepsAssumption
      <4>2. i < at
        BY <1>1, <2>5, <3>2
      <4> QED
        BY <2>3, <2>5, <4>1, <4>2 DEF Tracking
    <3> QED
      BY <3>1, <3>2
  <2>6. \A i \in DOMAIN code' : code'[i].op = "param" /\ i < at' /\ code'[i].name \in Params =>
          \A k \in 1 .. Len(loops') : loops'[k].at = Innermost(i)' =>
            params'[code'[i].name] = ValueAt(code'[i], loops'[k].index)
    BY <1>2, <1>3, <2>1, <2>5
  <2> QED
    BY <1>3, <2>3, <2>4, <2>6 DEF Tracking
<1>8. CASE SetNode \/ ReplacePulse \/ Callback
  <2>1. /\ params' = params /\ loops' = loops /\ at' \in {at, at + 1}
        /\ at \in DOMAIN code /\ code[at].op # "param"
    BY <1>8 DEF SetNode, ReplacePulse, Callback, Statement, trackers, walker
  <2>2. \A i \in DOMAIN code : code[i].op = "param" /\ i < at' => i < at
    BY <1>1, <2>1
  <2> QED
    BY <1>4, <2>1, <2>2
<1>9. CASE SkipChunk \/ StepIsRead \/ AttemptFails
  <2>1. /\ params' = params /\ loops' = loops /\ at \in DOMAIN code /\ code[at].op = "rt"
    BY <1>9 DEF SkipChunk, StepIsRead, AttemptFails, Statement, trackers, Walking, Running
  <2>2. \A i \in DOMAIN code : code[i].op = "param" => i < at
    BY <2>1, SweepLoop
  <2> QED
    BY <1>4, <2>1, <2>2
<1>10. CASE PrepareStep \/ StepRaises \/ StepExecuted \/ ReadAwg \/ ReadRaises
            \/ Finish \/ UNCHANGED vars
  <2>1. params' = params /\ loops' = loops /\ at' = at
    BY <1>10 DEF PrepareStep, StepRaises, StepExecuted, ReadAwg, ReadRaises, Finish,
                 vars, trackers, walker
  <2> QED
    BY <1>4, <2>1
<1> QED
  BY <1>5, <1>6, <1>7, <1>8, <1>9, <1>10 DEF Next

-----------------------------------------------------------------------------
(* The attributes, and the nodes computed from them.                       *)

(* Attributes have the values of their parameters but for those noted; a    *)
(* node has what its attributes say, or one of them is marked as updated.   *)
Following ==
  /\ DOMAIN node = Nodes
  /\ None \notin updates
  /\ DOMAIN attrs = DOMAIN Attributes
  /\ \A a \in DOMAIN Attributes :
       /\ Attributes[a].param = None => attrs[a].value = Attributes[a].value
       /\ (Attributes[a].param # None /\ Attributes[a].param \notin updates) =>
            attrs[a].value = params[Attributes[a].param]
  /\ \A n \in Nodes :
       (Keys[n] # << >> /\ wanted[n] = None /\ attrs[Keys[n][1]].value # None) =>
         \/ \E k \in DOMAIN Keys[n] : attrs[Keys[n][k]].updated
         \/ node[n] = ValueOf(attrs, n)
  /\ Running => /\ updates = {}
                /\ \A a \in DOMAIN Attributes : ~ attrs[a].updated

LEMMA ParamsOfAttributes ==
  ASSUME NEW a \in DOMAIN Attributes, Attributes[a].param # None
  PROVE  Attributes[a].param \in Params
BY DEF Params

(* The attributes of a node are attributes, the first one if there are any. *)
LEMMA KeysAreAttributes ==
  ASSUME NEW n \in Nodes
  PROVE  /\ \A k \in DOMAIN Keys[n] : Keys[n][k] \in DOMAIN Attributes
         /\ Keys[n] # << >> => 1 \in DOMAIN Keys[n]
<1>1. Keys[n] \in Seq(DOMAIN Attributes)
  BY AttributesAssumption
<1> QED
  BY <1>1

LEMMA InitFollows ==
  Init => Following
<1> SUFFICES ASSUME Init PROVE Following
  OBVIOUS
<1>1. /\ node = [n \in Nodes |-> None] /\ updates = {} /\ phase = "walk"
      /\ params = [p \in Params |-> None]
      /\ attrs = [a \in DOMAIN Attributes |->
                    [value |-> Attributes[a].value, updated |-> Attributes[a].value # None]]
  BY DEF Init
<1>2. ASSUME NEW a \in DOMAIN Attributes, Attributes[a].param # None
      PROVE  attrs[a].value = params[Attributes[a].param]
  <2>1. Attributes[a].value = None
    BY <1>2, AttributesAssumption
  <2> QED
    BY <1>1, <1>2, <2>1, ParamsOfAttributes
<1>3. ASSUME NEW n \in Nodes, Keys[n] # << >>, attrs[Keys[n][1]].value # None
      PROVE  \E k \in DOMAIN Keys[n] : attrs[Keys[n][k]].updated
  BY <1>1, <1>3, KeysAreAttributes
<1> QED
  BY <1>1, <1>2, <1>3 DEF Following, Running

(* What is computed for a node depends on the values of its attributes.     *)
LEMMA SameValue ==
  ASSUME NEW as, NEW bs, NEW n \in Nodes,
         \A k \in DOMAIN Keys[n] : as[Keys[n][k]].value = bs[Keys[n][k]].value
  PROVE  ValueOf(as, n) = ValueOf(bs, n)
<1>1. [k \in DOMAIN Keys[n] |-> as[Keys[n][k]].value]
        = [k \in DOMAIN Keys[n] |-> bs[Keys[n][k]].value]
  OBVIOUS
<1> QED
  BY <1>1 DEF ValueOf

(* After a step has been prepared nothing is noted any more.                *)
LEMMA PrepareFollows ==
  ASSUME Waiting, Following, PrepareStep
  PROVE  Following'
<1>1. /\ node' = Delivered /\ updates' = {} /\ params' = params /\ wanted' = wanted
      /\ attrs' = [a \in DOMAIN Attributes |-> [value |-> Updated[a].value, updated |-> FALSE]]
  BY DEF PrepareStep
<1>2. ASSUME NEW a \in DOMAIN Attributes
      PROVE  /\ Attributes[a].param \in updates =>
                  /\ Updated[a].value = params[Attributes[a].param]
                  /\ Updated[a].updated
                  /\ attrs'[a].value = params[Attributes[a].param]
             /\ Attributes[a].param \notin updates =>
                  Updated[a] = attrs[a]
  BY <1>1 DEF Updated
<1>3. ASSUME NEW a \in DOMAIN Attributes
      PROVE  attrs'[a].value = Updated[a].value /\ ~ attrs'[a].updated
  BY <1>1
<1>4. ASSUME NEW a \in DOMAIN Attributes
      PROVE  /\ Attributes[a].param = None => attrs'[a].value = Attributes[a].value
             /\ Attributes[a].param # None => attrs'[a].value = params'[Attributes[a].param]
  <2>1. attrs'[a].value = Updated[a].value
    BY <1>3
  <2>2. CASE Attributes[a].param \in updates
    BY <1>1, <1>2, <2>1, <2>2 DEF Following
  <2>3. CASE Attributes[a].param \notin updates
    BY <1>1, <1>2, <2>1, <2>3 DEF Following
  <2> QED
    BY <2>2, <2>3
<1>5. ASSUME NEW n \in Nodes, Keys[n] # << >>, wanted[n] = None,
             attrs'[Keys[n][1]].value # None
      PROVE  node'[n] = ValueOf(attrs', n)
  <2>1. /\ \A k \in DOMAIN Keys[n] : Keys[n][k] \in DOMAIN Attributes
        /\ 1 \in DOMAIN Keys[n]
    BY <1>5, KeysAreAttributes
  <2>2. ValueOf(attrs', n) = ValueOf(Updated, n)
    BY <1>3, <2>1, SameValue
  <2>3. CASE n \in Swept(Updated)
    BY <1>1, <2>2, <2>3 DEF Delivered
  <2>4. CASE n \notin Swept(Updated)
    <3>1. Updated[Keys[n][1]].value # None
      BY <1>3, <1>5, <2>1
    <3>2. \A k \in DOMAIN Keys[n] : ~ Updated[Keys[n][k]].updated
      BY <2>4, <3>1 DEF Swept
    <3>3. \A k \in DOMAIN Keys[n] : Updated[Keys[n][k]] = attrs[Keys[n][k]]
      BY <1>2, <2>1, <3>2
    <3>4. node[n] = ValueOf(attrs, n)
      BY <1>5, <2>1, <3>1, <3>2, <3>3 DEF Following
    <3>5. ValueOf(Updated, n) = ValueOf(attrs, n)
      BY <3>3, SameValue
    <3>6. {k \in DOMAIN userSet : userSet[k].node = n} = {}
      BY <1>5 DEF Waiting
    <3>7. Delivered[n] = node[n]
      BY <2>4, <3>6 DEF Delivered, LastSet
    <3> QED
      BY <1>1, <2>2, <3>4, <3>5, <3>7
  <2> QED
    BY <2>3, <2>4
<1>6. DOMAIN node' = Nodes /\ DOMAIN attrs' = DOMAIN Attributes
  BY <1>1 DEF Delivered
<1> QED
  BY <1>1, <1>3, <1>4, <1>5, <1>6 DEF Following

LEMMA StepFollows ==
  Walking /\ Waiting /\ Tracking /\ Following /\ [Next]_vars => Following'
<1> SUFFICES ASSUME Walking, Waiting, Tracking, Following, [Next]_vars PROVE Following'
  OBVIOUS
<1>1. CASE SetParam
  <2> DEFINE q == code[at].name
             v == ValueAt(code[at], Last(loops).index)
  <2>1. /\ params' = [params EXCEPT ![q] = v] /\ updates' = updates \cup {q}
        /\ attrs' = attrs /\ node' = node /\ wanted' = wanted /\ phase' = "walk"
        /\ at \in DOMAIN code /\ code[at].op = "param"
    BY <1>1 DEF SetParam, Statement
  <2>2. q # None
    BY <2>1, SweepsAssumption DEF Walking
  <2> HIDE DEF q, v
  <2>3. ASSUME NEW a \in DOMAIN Attributes, Attributes[a].param # None,
               Attributes[a].param \notin updates'
        PROVE  attrs'[a].value = params'[Attributes[a].param]
    BY <2>1, <2>3, ParamsOfAttributes DEF Following, Tracking
  <2>4. \A n \in Nodes : ValueOf(attrs', n) = ValueOf(attrs, n)
    BY <2>1, SameValue
  <2> QED
    BY <2>1, <2>2, <2>3, <2>4 DEF Following, Running
<1>2. CASE SetNode
  <2> DEFINE m == code[at].node
             v == code[at].value
  <2>1. /\ wanted' = [wanted EXCEPT ![m] = v] /\ params' = params /\ updates' = updates
        /\ attrs' = attrs /\ node' = node /\ phase' = "walk"
        /\ at \in DOMAIN code /\ code[at].op = "set"
    BY <1>2 DEF SetNode, Statement
  <2>2. v # None /\ m \in Nodes
    BY <2>1, SetsAssumption, NoneAssumption DEF Walking
  <2> HIDE DEF m, v
  <2>3. \A n \in Nodes : wanted'[n] = None => wanted[n] = None
    BY <2>1, <2>2 DEF Waiting
  <2>4. \A n \in Nodes : ValueOf(attrs', n) = ValueOf(attrs, n)
    BY <2>1, SameValue
  <2> QED
    BY <2>1, <2>3, <2>4 DEF Following, Running
<1>3. CASE PrepareStep
  BY <1>3, PrepareFollows
<1>4. CASE EnterLoop \/ LoopEnds \/ ReplacePulse \/ Callback \/ SkipChunk \/ StepRaises
           \/ StepExecuted \/ ReadAwg \/ ReadRaises \/ StepIsRead \/ AttemptFails
           \/ Finish \/ UNCHANGED vars
  <2>1. /\ params' = params /\ updates' = updates /\ attrs' = attrs /\ node' = node
        /\ wanted' = wanted /\ (Running' => Running)
    BY <1>4 DEF EnterLoop, LoopEnds, ReplacePulse, Callback, SkipChunk, StepRaises, StepExecuted,
                ReadAwg, ReadRaises, StepIsRead, AttemptFails, Finish, vars, trackers,
                Statement, Leave, Running
  <2>2. \A n \in Nodes : ValueOf(attrs', n) = ValueOf(attrs, n)
    BY <2>1, SameValue
  <2> QED
    BY <2>1, <2>2 DEF Following
<1> QED
  BY <1>1, <1>2, <1>3, <1>4 DEF Next

(* At the real-time loop every parameter of the experiment has the value of *)
(* the point the sweeps are at.                                             *)
LEMMA ParamsAreCurrent ==
  ASSUME Walking, Tracking, Running, NEW p \in Params
  PROVE  params[p] = Current(p)
<1>1. CASE Setters(p) = {}
  BY <1>1 DEF Tracking, Current
<1>2. CASE Setters(p) # {}
  <2> DEFINE i == CHOOSE i \in Setters(p) : TRUE
             j == Innermost(i)
  <2>1. i \in DOMAIN code /\ code[i].op = "param" /\ code[i].name = p
    BY <1>2 DEF Setters
  <2>2. Current(p) = At(i)
    BY <1>2 DEF Current
  <2> HIDE DEF i
  <2>3. at \in DOMAIN code /\ code[at].op = "rt"
    BY DEF Walking
  <2>4. /\ i < at /\ j \in DOMAIN code /\ code[j].op = "for"
        /\ j < at /\ at < code[j].end
    BY <2>1, <2>3, SweepLoop
  <2>5. code[j].end \in Nat /\ at \in Nat
    BY <2>3, <2>4, Structure DEF Walking
  <2>6. Open(code, at, j)
    BY <2>4, <2>5 DEF Open
  <2>7. \E k \in 1 .. Len(loops) : loops[k].at = j
    BY <2>4, <2>6 DEF Walking, Stack
  <2>8. DOMAIN loops = 1 .. Len(loops)
    BY DEF Walking, Stack
  <2> DEFINE k == CHOOSE k \in DOMAIN loops : loops[k].at = Innermost(i)
  <2>9. k \in 1 .. Len(loops) /\ loops[k].at = Innermost(i)
    BY <2>7, <2>8
  <2>10. At(i) = ValueAt(code[i], loops[k].index)
    BY DEF At
  <2> HIDE DEF k
  <2> QED
    BY <2>1, <2>2, <2>4, <2>9, <2>10 DEF Tracking
<1> QED
  BY <1>1, <1>2

LEMMA CurrentNodes ==
  Walking /\ Tracking /\ Following => SweptNodesAreCurrent
<1> SUFFICES ASSUME Walking, Tracking, Following, Running,
                    NEW n \in Nodes, Keys[n] # << >>, wanted[n] = None,
                    AttributeNow(Keys[n][1]) # None
             PROVE  node[n] = Total([k \in DOMAIN Keys[n] |-> AttributeNow(Keys[n][k])])
  BY DEF SweptNodesAreCurrent
<1>1. \A a \in DOMAIN Attributes : attrs[a].value = AttributeNow(a)
  BY ParamsAreCurrent, ParamsOfAttributes DEF Following, AttributeNow
<1>2. /\ \A k \in DOMAIN Keys[n] : Keys[n][k] \in DOMAIN Attributes
      /\ 1 \in DOMAIN Keys[n]
  BY KeysAreAttributes
<1>3. node[n] = ValueOf(attrs, n)
  BY <1>1, <1>2 DEF Following
<1>4. [k \in DOMAIN Keys[n] |-> attrs[Keys[n][k]].value]
        = [k \in DOMAIN Keys[n] |-> AttributeNow(Keys[n][k])]
  BY <1>1, <1>2
<1> QED
  BY <1>3, <1>4 DEF ValueOf

(* While a step is executed, each node that is computed from swept and      *)
(* fixed attributes has the value of the point the sweeps are at, whatever  *)
(* the experiment, although only changes are set and attempts may fail.     *)
THEOREM SweptNodes ==
  Spec => []SweptNodesAreCurrent
<1>1. Init => Walking /\ Waiting /\ Tracking /\ Following
  BY InitWalks, InitWaits, InitTracks, InitFollows
<1>2. Walking /\ Waiting /\ Tracking /\ Following /\ [Next]_vars
        => Walking' /\ Waiting' /\ Tracking' /\ Following'
  BY StepWalks, StepWaits, StepTracks, StepFollows
<1>3. Walking /\ Tracking /\ Following => SweptNodesAreCurrent
  BY CurrentNodes
<1> QED
  BY <1>1, <1>2, <1>3, PTL DEF Spec

-----------------------------------------------------------------------------
(* Typing.                                                                 *)

(* What the other invariants do not say of the types.                       *)
Typed ==
  /\ chunk \in Nat
  /\ params \in [Params -> Values]
  /\ \A a \in DOMAIN Attributes : attrs[a].value \in Values /\ attrs[a].updated \in BOOLEAN
  /\ DOMAIN loaded = Generators /\ DOMAIN memory = Generators
  /\ DOMAIN replaced = Generators /\ DOMAIN sent = Generators
  /\ DOMAIN waves \subseteq MappedWaves
  /\ \A w \in DOMAIN waves : waves[w] \in [PulsesIn[w] -> Values]
  /\ try \in 0 .. MaxTries /\ toRead \in 0 .. Len(AwgOrder) + 1
  /\ \A h \in Handles : DOMAIN data[h] = Cells(h)
  /\ DOMAIN last = Handles

(* The experiment does not change, and nothing computed from it.            *)
LEMMA SameCode ==
  [Next]_vars => code' = code /\ acquires' = acquires
BY DEF Next, vars, recipe, EnterLoop, LoopEnds, SetParam, SetNode, ReplacePulse, Callback,
       SkipChunk, PrepareStep, StepRaises, StepExecuted, ReadAwg, ReadRaises, StepIsRead,
       AttemptFails, Finish

LEMMA SameResults ==
  ASSUME code' = code
  PROVE  /\ Handles' = Handles /\ \A h : Cells(h)' = Cells(h)
         /\ RtAt' = RtAt /\ NtAxes' = NtAxes /\ NtSteps' = NtSteps
         /\ \A h : Size(h)' = Size(h) /\ AcquiresOf(h)' = AcquiresOf(h) /\ RtShape(h)' = RtShape(h)
<1>1. \A i : LoopsAround(i)' = LoopsAround(i)
  BY DEF LoopsAround, Loop
<1>2. \A j : HasAxis(j)' = HasAxis(j)
  BY DEF HasAxis
<1>3. \A i : {j \in LoopsAround(i) : HasAxis(j)}' = {j \in LoopsAround(i) : HasAxis(j)}
  BY <1>1, <1>2
<1>4. \A i : Axes(i)' = Axes(i)
  BY <1>3 DEF Axes
<1>5. RtAt' = RtAt
  BY DEF RtAt
<1>6. \A i : HandlesAt(i)' = HandlesAt(i)
  BY DEF HandlesAt, Acquires
<1>7. \A h : AcquiresOf(h)' = AcquiresOf(h)
  BY <1>6 DEF AcquiresOf
<1>8. \A i : BaseShape(i)' = BaseShape(i)
  BY <1>4 DEF BaseShape
<1>9. \A h : Shape(h)' = Shape(h)
  <2> SUFFICES ASSUME NEW h PROVE Shape(h)' = Shape(h)
    OBVIOUS
  <2>1. AcquiresOf(h)' = AcquiresOf(h)
    BY <1>7
  <2>2. (CHOOSE i \in AcquiresOf(h) : TRUE)' = CHOOSE i \in AcquiresOf(h) : TRUE
    BY <2>1
  <2>3. BaseShape(CHOOSE i \in AcquiresOf(h) : TRUE)'
          = BaseShape(CHOOSE i \in AcquiresOf(h) : TRUE)
    BY <1>8, <2>2
  <2> QED
    BY <2>1, <2>3 DEF Shape
<1>10. NtAxes' = NtAxes
  BY <1>4, <1>5 DEF NtAxes
<1>11. \A h : RtShape(h)' = RtShape(h) /\ Size(h)' = Size(h)
  BY <1>9, <1>10 DEF Size, RtShape
<1>12. NtSteps' = NtSteps
  BY <1>10 DEF NtSteps, Indices
<1>13. \A h : Cells(h)' = Cells(h)
  BY <1>11, <1>12 DEF Cells
<1>14. Handles' = Handles
  BY <1>6 DEF Handles
<1> QED
  BY <1>5, <1>7, <1>10, <1>11, <1>12, <1>13, <1>14

LEMMA SameWaves ==
  ASSUME code' = code
  PROVE  /\ WaveTables' = WaveTables /\ Generators' = Generators
         /\ MappedWaves' = MappedWaves /\ \A p : PulseMap(p)' = PulseMap(p)
<1>1. WaveTables' = WaveTables
  BY DEF WaveTables, RtAt
<1>2. Generators' = Generators /\ MappedWaves' = MappedWaves
  BY <1>1 DEF Generators, MappedWaves
<1> QED
  BY <1>1, <1>2 DEF PulseMap

(* The calls of replace_pulse put an integer in a pulse of some waves.      *)
LEMMA EditedType ==
  ASSUME Typed, NEW p, NEW v \in Int
  PROVE  /\ DOMAIN Edited(waves, p, v) \subseteq MappedWaves
         /\ \A w \in DOMAIN Edited(waves, p, v) :
              Edited(waves, p, v)[w] \in [PulsesIn[w] -> Values]
<1>1. DOMAIN Edited(waves, p, v) = DOMAIN waves \cup PulseMap(p)
  BY DEF Edited
<1>2. ASSUME NEW w \in DOMAIN waves \cup PulseMap(p)
      PROVE  Edited(waves, p, v)[w] \in [PulsesIn[w] -> Values]
  <2> DEFINE before == IF w \in DOMAIN waves THEN waves[w] ELSE Compiled(w)
  <2>1. before \in [PulsesIn[w] -> Values]
    BY DEF Typed, Compiled, Values
  <2>2. Edited(waves, p, v)[w]
          = IF w \in PulseMap(p) THEN [before EXCEPT ![p] = v] ELSE before
    BY DEF Edited
  <2> HIDE DEF before
  <2> QED
    BY <2>1, <2>2 DEF Values
<1> QED
  BY <1>1, <1>2 DEF Typed, PulseMap

LEMMA InitTyped ==
  Init => Typed
<1> SUFFICES ASSUME Init PROVE Typed
  OBVIOUS
<1>1. /\ params \in [Params -> Values]
      /\ \A a \in DOMAIN Attributes : attrs[a].value \in Values /\ attrs[a].updated \in BOOLEAN
  BY AttributesAssumption DEF Init, Values
<1>2. DOMAIN waves = {}
  BY DEF Init
<1>3. 0 \in 0 .. MaxTries /\ 0 \in 0 .. Len(AwgOrder) + 1
  BY TriesAssumption, AwgsAssumption
<1>4. /\ DOMAIN loaded = Generators /\ DOMAIN memory = Generators
      /\ DOMAIN replaced = Generators /\ DOMAIN sent = Generators
      /\ DOMAIN last = Handles /\ \A h \in Handles : DOMAIN data[h] = Cells(h)
      /\ try = 0 /\ toRead = 0 /\ chunk = 0
  BY DEF Init, NoNodes
<1> QED
  BY <1>1, <1>2, <1>3, <1>4 DEF Typed

LEMMA StepTyped ==
  Walking /\ Following /\ Typed /\ [Next]_vars => Typed'
<1> SUFFICES ASSUME Walking, Following, Typed, [Next]_vars PROVE Typed'
  OBVIOUS
<1>1. code' = code
  BY SameCode
<1>2. /\ Handles' = Handles /\ \A h : Cells(h)' = Cells(h)
      /\ Generators' = Generators /\ MappedWaves' = MappedWaves
  BY <1>1, SameResults, SameWaves
<1>3. chunk' \in Nat
  <2>1. CASE EnterLoop
    BY <2>1 DEF EnterLoop, Entered, Typed
  <2>2. CASE LoopEnds
    <3>1. code[at].op = "end" /\ at \in DOMAIN code
      BY <2>2 DEF LoopEnds, Statement
    <3>2. loops # << >> /\ loops \in Seq(Entries)
      BY <3>1, TopEnds DEF Walking, Stack
    <3>3. Last(loops) \in Entries
      BY <3>2, FrontOf
    <3>4. [Last(loops) EXCEPT !.index = @ + 1].index \in Nat
      BY <3>3 DEF Entries
    <3> QED
      BY <2>2, <3>4 DEF LoopEnds, Entered, Typed
  <2>3. CASE ~EnterLoop /\ ~LoopEnds
    BY <2>3 DEF Typed, Next, vars, walker, SetParam, SetNode, ReplacePulse, Callback,
                SkipChunk, PrepareStep, StepRaises, StepExecuted, ReadAwg, ReadRaises,
                StepIsRead, AttemptFails, Finish
  <2> QED
    BY <2>1, <2>2, <2>3
<1>4. params' \in [Params -> Values]
  <2>1. CASE SetParam
    <3>1. at \in DOMAIN code /\ code[at].op = "param"
      BY <2>1 DEF SetParam, Statement
    <3>2. code[at].values \in Seq(Int) /\ code[at].values # << >>
      BY <3>1, SweepsAssumption DEF Walking
    <3>3. loops \in Seq(Entries) /\ Len(loops) \in 1 .. Len(loops)
      BY <3>1, SweepLoop DEF Walking, Stack
    <3>4. Last(loops).index \in Nat
      <4>1. loops # << >>
        BY <3>3
      <4>2. Last(loops) \in Entries
        BY <3>3, <4>1, FrontOf
      <4> QED
        BY <4>2 DEF Entries
    <3>5. ValueAt(code[at], Last(loops).index) \in Int
      BY <3>2, <3>4 DEF ValueAt
    <3> QED
      BY <2>1, <3>5 DEF SetParam, Typed, Values
  <2>2. CASE ~SetParam
    BY <2>2 DEF Typed, Next, vars, trackers, EnterLoop, LoopEnds, SetNode, ReplacePulse,
                Callback, SkipChunk, PrepareStep, StepRaises, StepExecuted, ReadAwg,
                ReadRaises, StepIsRead, AttemptFails, Finish
  <2> QED
    BY <2>1, <2>2
<1>5. \A a \in DOMAIN Attributes : attrs'[a].value \in Values /\ attrs'[a].updated \in BOOLEAN
  <2>1. CASE PrepareStep
    <3>1. attrs' = [a \in DOMAIN Attributes |->
                      [value |-> Updated[a].value, updated |-> FALSE]]
      BY <2>1 DEF PrepareStep
    <3>2. ASSUME NEW a \in DOMAIN Attributes
          PROVE  Updated[a].value \in Values
      <4>1. Attributes[a].param \in updates => Attributes[a].param \in Params
        BY ParamsOfAttributes DEF Following
      <4> QED
        BY <4>1 DEF Updated, Typed
    <3>3. ASSUME NEW a \in DOMAIN Attributes
          PROVE  attrs'[a].value = Updated[a].value /\ attrs'[a].updated = FALSE
      BY <3>1
    <3> QED
      BY <3>2, <3>3
  <2>2. CASE ~PrepareStep
    BY <2>2 DEF Typed, Next, vars, trackers, EnterLoop, LoopEnds, SetParam, SetNode,
                ReplacePulse, Callback, SkipChunk, StepRaises, StepExecuted, ReadAwg,
                ReadRaises, StepIsRead, AttemptFails, Finish
  <2> QED
    BY <2>1, <2>2
<1>6. /\ DOMAIN loaded' = Generators /\ DOMAIN memory' = Generators
      /\ DOMAIN replaced' = Generators /\ DOMAIN sent' = Generators
  BY DEF Typed, Next, vars, pulses, EnterLoop, LoopEnds, SetParam, SetNode, ReplacePulse,
         Callback, SkipChunk, PrepareStep, StepRaises, StepExecuted, ReadAwg, ReadRaises,
         StepIsRead, AttemptFails, Finish, Written, WaveNodes, NoNodes
<1>7. /\ DOMAIN waves' \subseteq MappedWaves
      /\ \A w \in DOMAIN waves' : waves'[w] \in [PulsesIn[w] -> Values]
  <2>1. CASE ReplacePulse
    <3>1. PICK r \in code[at].replaces : waves' = Edited(waves, r.pulse, r.value)
      BY <2>1 DEF ReplacePulse
    <3>2. r.value \in Int
      BY <2>1, <3>1, CallsAssumption DEF Walking, ReplacePulse, Statement
    <3> QED
      BY <3>1, <3>2, EditedType
  <2>2. CASE ~ReplacePulse
    BY <2>2 DEF Typed, Next, vars, pulses, EnterLoop, LoopEnds, SetParam, SetNode,
                Callback, SkipChunk, PrepareStep, StepRaises, StepExecuted, ReadAwg,
                ReadRaises, StepIsRead, AttemptFails, Finish
  <2> QED
    BY <2>1, <2>2
<1>8. try' \in 0 .. MaxTries /\ toRead' \in 0 .. Len(AwgOrder) + 1
  <2>1. MaxTries \in Nat \ {0} /\ Len(AwgOrder) \in Nat
    BY TriesAssumption, AwgsAssumption
  <2>2. try \in 0 .. MaxTries /\ toRead \in 0 .. Len(AwgOrder) + 1
    BY DEF Typed
  <2> QED
    BY <2>1, <2>2 DEF Next, vars, EnterLoop, LoopEnds, SetParam, SetNode, ReplacePulse,
         Callback, SkipChunk, PrepareStep, StepRaises, StepExecuted, ReadAwg, ReadRaises,
         StepIsRead, AttemptFails, Finish, Leave
<1>9. (\A h \in Handles : DOMAIN data'[h] = Cells(h)) /\ DOMAIN last' = Handles
  <2>1. ASSUME NEW awg, NEW signals, NEW step
        PROVE  /\ \A h \in Handles : DOMAIN Stored(awg, signals, step)[h] = Cells(h)
               /\ DOMAIN Marked(awg, signals, step) = Handles
    <3>1. \A h \in Handles : DOMAIN data[h] = Cells(h)
      BY DEF Typed
    <3> QED
      BY <3>1 DEF Stored, Marked
  <2>2. CASE ReadAwg
    BY <2>1, <2>2 DEF ReadAwg
  <2>3. CASE ReadRaises
    <3>1. PICK signals \in SUBSET SignalsOf[AwgOrder[toRead]] :
            /\ data' = Stored(AwgOrder[toRead], signals, NtStep)
            /\ last' = Marked(AwgOrder[toRead], signals, NtStep)
      BY <2>3 DEF ReadRaises
    <3> QED
      BY <2>1, <3>1
  <2>4. CASE ~ReadAwg /\ ~ReadRaises
    BY <2>4 DEF Typed, Next, vars, results, EnterLoop, LoopEnds, SetParam, SetNode,
                ReplacePulse, Callback, SkipChunk, PrepareStep, StepRaises, StepExecuted,
                StepIsRead, AttemptFails, Finish
  <2> QED
    BY <2>2, <2>3, <2>4
<1> QED
  BY <1>2, <1>3, <1>4, <1>5, <1>6, <1>7, <1>8, <1>9 DEF Typed

(* The variables have their types, whatever the experiment.                 *)
THEOREM TypeCorrect ==
  Spec => []TypeOK
<1>1. Init => Walking /\ Waiting /\ Tracking /\ Following /\ Typed
  BY InitWalks, InitWaits, InitTracks, InitFollows, InitTyped
<1>2. Walking /\ Waiting /\ Tracking /\ Following /\ Typed /\ [Next]_vars
        => Walking' /\ Waiting' /\ Tracking' /\ Following' /\ Typed'
  BY StepWalks, StepWaits, StepTracks, StepFollows, StepTyped
<1>3. Walking /\ Waiting /\ Following /\ Typed => TypeOK
  <2> SUFFICES ASSUME Walking, Waiting, Following, Typed PROVE TypeOK
    OBVIOUS
  <2>1. code \in Programs /\ at \in 1 .. Len(code) + 1
    BY DEF Walking, Stack
  <2>2. \A k \in DOMAIN loops : /\ loops[k].at \in DOMAIN code /\ Loop(loops[k].at)
                                /\ loops[k].index \in 0 .. code[loops[k].at].count - 1
    <3> SUFFICES ASSUME NEW k \in DOMAIN loops
                 PROVE  /\ loops[k].at \in DOMAIN code /\ Loop(loops[k].at)
                        /\ loops[k].index \in 0 .. code[loops[k].at].count - 1
      OBVIOUS
    <3>1. k \in 1 .. Len(loops) /\ loops[k] \in Entries
      BY DEF Walking, Stack
    <3>2. Open(code, at, loops[k].at) /\ loops[k].index < code[loops[k].at].count
      BY <3>1 DEF Walking, Stack
    <3>3. code[loops[k].at].count \in Nat
      BY <2>1, <3>2, Structure DEF Open
    <3> QED
      BY <3>1, <3>2, <3>3 DEF Open, Loop, Entries
  <2>3. \A k \in DOMAIN userSet : userSet[k].node \in Nodes
    <3> SUFFICES ASSUME NEW k \in DOMAIN userSet PROVE userSet[k].node \in Nodes
      OBVIOUS
    <3>1. userSet[k] \in Asked
      BY DEF Waiting
    <3> QED
      BY <3>1 DEF Asked
  <2> QED
    BY <2>1, <2>2, <2>3 DEF Walking, Waiting, Following, Typed, TypeOK
<1> QED
  BY <1>1, <1>2, <1>3, PTL DEF Spec

-----------------------------------------------------------------------------
(* Replaced pulses.                                                        *)

(* The places at which an AWG has one wave that may be edited, in all its   *)
(* programs.                                                                *)
Place(g, i, w) ==
  /\ w \in MappedWaves
  /\ \E k \in DOMAIN WaveTables :
       /\ WaveTables[k].awg = g /\ i \in DOMAIN WaveTables[k].waves
       /\ WaveTables[k].waves[i] = w
  /\ \A k \in DOMAIN WaveTables :
       (/\ WaveTables[k].awg = g /\ i \in DOMAIN WaveTables[k].waves
        /\ WaveTables[k].waves[i] # w) => WaveTables[k].waves[i] \notin MappedWaves

(* The edited waves hold what was asked for last; a wave is edited when any *)
(* of its pulses is.                                                        *)
Content ==
  /\ \E S : executed \in Seq(S)
  /\ DOMAIN asked = Pulses
  /\ \A p \in Pulses :
       /\ asked[p].before \in Int /\ asked[p].before <= Len(executed)
       /\ Running => asked[p].before < Len(executed)
  /\ \A w \in MappedWaves : \A p \in PulsesIn[w] :
       IF w \in DOMAIN waves THEN waves[w][p] = asked[p].value
                             ELSE asked[p].value = None /\ asked[p].before = -1

(* What is to be written, and what a step has written, are these waves; the *)
(* waves of the pulses asked for since the last step are to be written.     *)
Noted ==
  \A g \in Generators : \A i \in Nat : \A w \in MappedWaves : Place(g, i, w) =>
    /\ i \in DOMAIN replaced[g] => w \in DOMAIN waves /\ replaced[g][i] = waves[w]
    /\ (Running /\ i \in DOMAIN sent[g]) => w \in DOMAIN waves /\ sent[g][i] = waves[w]
    /\ \A p \in PulsesIn[w] : asked[p].before = Len(executed) => i \in DOMAIN replaced[g]

Shown(g, i, p) ==
  IF asked[p].before >= loaded[g].before
  THEN memory[g][i][p] = asked[p].value
  ELSE memory[g][i][p] \in {None, asked[p].value}

(* The waves of the loaded program, but for pulses that wait to be written. *)
InMemory ==
  /\ \A g \in Generators : DOMAIN memory[g] # {} =>
       /\ loaded[g].table \in DOMAIN WaveTables /\ WaveTables[loaded[g].table].awg = g
       /\ DOMAIN memory[g] = DOMAIN WaveTables[loaded[g].table].waves
  /\ \A g \in Generators : \A i \in DOMAIN memory[g] :
       LET w == WaveTables[loaded[g].table].waves[i]
       IN  Place(g, i, w) =>
             \A p \in PulsesIn[w] : Shown(g, i, p) \/ asked[p].before = Len(executed)


(* The wave tables of the experiment.                                       *)
LEMMA Tables ==
  ASSUME Walking
  PROVE  /\ DOMAIN WaveTables = 1 .. Len(WaveTables) /\ Len(WaveTables) \in Nat
         /\ \A j, k \in DOMAIN WaveTables :
              /\ WaveTables[k].waves \in Seq(DOMAIN PulsesIn)
              /\ WaveTables[j].awg = WaveTables[k].awg =>
                   Len(WaveTables[j].waves) = Len(WaveTables[k].waves)
<1>1. code \in Programs
  BY DEF Walking
<1>2. PICK j \in LoopsOf(code) : \A k \in LoopsOf(code) : code[k].op = "rt" <=> k = j
  BY <1>1, ProgramsAssumption
<1>3. j \in DOMAIN code /\ code[j].op = "rt"
  BY <1>2 DEF LoopsOf
<1>4. RtAt \in DOMAIN code /\ code[RtAt].op = "rt"
  BY <1>3 DEF RtAt
<1>5. WaveTables \in Seq(Range(WaveTables))
  BY <1>1, <1>4, WavesAssumption DEF WaveTables
<1>6. \A i, k \in DOMAIN WaveTables :
        /\ WaveTables[k].waves \in Seq(DOMAIN PulsesIn)
        /\ WaveTables[i].awg = WaveTables[k].awg =>
             Len(WaveTables[i].waves) = Len(WaveTables[k].waves)
  BY <1>1, <1>4, WavesAssumption DEF WaveTables
<1> QED
  BY <1>5, <1>6

(* The waves that may be edited are waves, and their pulses pulses.         *)
LEMMA MappedAreWaves ==
  ASSUME Walking, NEW w \in MappedWaves
  PROVE  w \in DOMAIN PulsesIn /\ PulsesIn[w] \subseteq Pulses
<1>1. PICK k \in DOMAIN WaveTables : w \in Range(WaveTables[k].waves)
  BY DEF MappedWaves
<1>2. WaveTables[k].waves \in Seq(DOMAIN PulsesIn)
  BY Tables
<1>3. w \in DOMAIN PulsesIn
  BY <1>1, <1>2 DEF Range
<1> QED
  BY <1>3 DEF Pulses, Range

(* At such a place the replacement of a pulse puts the edited wave.         *)
LEMMA PlaceOfPulse ==
  ASSUME Walking, NEW g, NEW i, NEW w, Place(g, i, w), NEW p
  PROVE  /\ i \in Targets(g, p) <=> p \in PulsesIn[w]
         /\ i \in Targets(g, p) => WaveFor(g, i, p) = w
<1> DEFINE T == TablesWith(g, i, p)
<1>1. \A k \in T : WaveTables[k].waves[i] = w /\ p \in PulsesIn[w]
  BY DEF TablesWith, Place, PulseMap
<1>2. p \in PulsesIn[w] => T # {}
  BY DEF TablesWith, Place, PulseMap
<1>3. \A k \in T : i \in UNION {DOMAIN WaveTables[j].waves : j \in DOMAIN WaveTables}
  BY DEF TablesWith
<1>4. i \in Targets(g, p) <=> T # {}
  BY <1>3 DEF Targets
<1>5. ASSUME T # {} PROVE WaveFor(g, i, p) = w
  <2>1. DOMAIN WaveTables = 1 .. Len(WaveTables) /\ Len(WaveTables) \in Nat
    BY Tables
  <2>2. T \in SUBSET (0 .. Len(WaveTables))
    BY <2>1 DEF TablesWith
  <2> HIDE DEF T
  <2>3. \E k \in T : \A j \in T : j <= k
    BY <1>5, <2>1, <2>2, Greatest
  <2> DEFINE k == CHOOSE k \in T : \A j \in T : j <= k
  <2>4. k \in T
    BY <2>3
  <2>5. WaveFor(g, i, p) = WaveTables[k].waves[i]
    BY DEF WaveFor, T
  <2> QED
    BY <1>1, <2>4, <2>5
<1> QED
  BY <1>1, <1>2, <1>4, <1>5

LEMMA InitPulses ==
  Init => Content /\ Noted /\ InMemory
<1> SUFFICES ASSUME Init PROVE Content /\ Noted /\ InMemory
  OBVIOUS
<1>1. /\ asked = [p \in Pulses |-> [value |-> None, before |-> -1]]
      /\ executed = << >> /\ waves = << >> /\ phase = "walk"
      /\ replaced = [g \in Generators |-> << >>]
      /\ memory = [g \in Generators |-> << >>]
  BY DEF Init, NoNodes
<1>2. executed \in Seq({}) /\ Len(executed) = 0
  BY <1>1
<1>3. \A p \in Pulses : asked[p].value = None /\ asked[p].before = -1
  BY <1>1
<1>4. Walking
  BY InitWalks
<1>5. \A w \in MappedWaves : PulsesIn[w] \subseteq Pulses
  BY <1>4, MappedAreWaves
<1>6. DOMAIN waves = {} /\ ~Running
  BY <1>1 DEF Running
<1>7. Content
  BY <1>1, <1>2, <1>3, <1>5, <1>6 DEF Content
<1>8. \A p \in Pulses : asked[p].before # Len(executed)
  BY <1>2, <1>3
<1>9. \A g \in Generators : DOMAIN replaced[g] = {} /\ DOMAIN memory[g] = {} /\ memory[g] = << >>
  BY <1>1
<1>10. Noted
  BY <1>5, <1>6, <1>8, <1>9 DEF Noted
<1>11. InMemory
  BY <1>9 DEF InMemory
<1> QED
  BY <1>7, <1>10, <1>11

(* A replacement: the edited waves, their nodes, and nothing in memory yet. *)
LEMMA ReplaceKeeps ==
  ASSUME Walking, Typed, Content, Noted, InMemory, ReplacePulse
  PROVE  Content' /\ Noted' /\ InMemory'
<1>1. /\ code' = code /\ executed' = executed /\ memory' = memory /\ loaded' = loaded
      /\ phase = "walk" /\ phase' = "walk" /\ sent' = sent
      /\ at \in DOMAIN code /\ code[at].op = "call"
  BY DEF ReplacePulse, Statement, recipe
<1>2. PICK r \in code[at].replaces :
        /\ waves' = Edited(waves, r.pulse, r.value)
        /\ replaced' = WaveNodes(Edited(waves, r.pulse, r.value), r.pulse)
        /\ asked' = [asked EXCEPT ![r.pulse] = [value |-> r.value, before |-> Len(executed)]]
  BY DEF ReplacePulse
<1> DEFINE p == r.pulse
           v == r.value
<1>3. p \in Pulses /\ v \in Int
  BY <1>1, <1>2, CallsAssumption DEF Walking, Pulses
<1> HIDE DEF p, v
<1>4. /\ WaveTables' = WaveTables /\ Generators' = Generators /\ MappedWaves' = MappedWaves
      /\ ~Running /\ ~Running'
  BY <1>1, SameWaves DEF Running
<1>5. \A g, i, w : Place(g, i, w)' <=> Place(g, i, w)
  BY <1>4 DEF Place
<1>6. PICK S : executed \in Seq(S)
  BY DEF Content
<1>7. Len(executed) \in Nat
  BY <1>6
<1>8. /\ DOMAIN asked' = Pulses
      /\ asked'[p].value = v /\ asked'[p].before = Len(executed)
      /\ \A q \in Pulses : q # p => asked'[q] = asked[q]
  BY <1>2, <1>3 DEF Content, p, v
<1>9. /\ DOMAIN waves' = DOMAIN waves \cup PulseMap(p)
      /\ \A w \in DOMAIN waves : w \notin PulseMap(p) => waves'[w] = waves[w]
  BY <1>2 DEF Edited, p, v
<1>10. ASSUME NEW w \in PulseMap(p), NEW q \in PulsesIn[w]
       PROVE  waves'[w][q] = asked'[q].value
  <2> DEFINE before == IF w \in DOMAIN waves THEN waves[w] ELSE Compiled(w)
  <2>1. waves'[w] = [before EXCEPT ![p] = v]
    BY <1>2 DEF Edited, p, v
  <2>2. w \in MappedWaves /\ q \in Pulses
    BY MappedAreWaves DEF PulseMap
  <2>3. DOMAIN before = PulsesIn[w]
    BY DEF Typed, Compiled
  <2>4. before[q] = asked[q].value
    BY <2>2 DEF Content, Compiled
  <2> HIDE DEF before
  <2>5. CASE q = p
    BY <1>8, <2>1, <2>3, <2>5
  <2>6. CASE q # p
    BY <1>8, <2>1, <2>2, <2>3, <2>4, <2>6
  <2> QED
    BY <2>5, <2>6
<1>11. Content'
  <2>1. \A q \in Pulses : asked'[q].before \in Int /\ asked'[q].before <= Len(executed)
    <3> SUFFICES ASSUME NEW q \in Pulses
                 PROVE  asked'[q].before \in Int /\ asked'[q].before <= Len(executed)
      OBVIOUS
    <3>1. CASE q = p
      BY <1>7, <1>8, <3>1
    <3>2. CASE q # p
      <4>1. asked[q].before \in Int /\ asked[q].before <= Len(executed)
        BY DEF Content
      <4>2. asked'[q] = asked[q]
        BY <1>8, <3>2
      <4> QED
        BY <4>1, <4>2
    <3> QED
      BY <3>1, <3>2
  <2>2. ASSUME NEW w \in MappedWaves, NEW q \in PulsesIn[w]
        PROVE  IF w \in DOMAIN waves' THEN waves'[w][q] = asked'[q].value
                                      ELSE asked'[q].value = None /\ asked'[q].before = -1
    <3>1. CASE w \in PulseMap(p)
      BY <1>9, <1>10, <3>1
    <3>2. CASE w \notin PulseMap(p)
      <4>1. q # p /\ q \in Pulses
        BY <3>2, MappedAreWaves DEF PulseMap
      <4> QED
        BY <1>8, <1>9, <3>2, <4>1 DEF Content
    <3> QED
      BY <3>1, <3>2
  <2> QED
    BY <1>1, <1>4, <1>6, <1>8, <2>1, <2>2 DEF Content
<1>12. Noted'
  <2> SUFFICES ASSUME NEW g \in Generators, NEW i \in Nat, NEW w \in MappedWaves, Place(g, i, w)
               PROVE  /\ i \in DOMAIN replaced'[g] =>
                           w \in DOMAIN waves' /\ replaced'[g][i] = waves'[w]
                      /\ \A q \in PulsesIn[w] :
                           asked'[q].before = Len(executed) => i \in DOMAIN replaced'[g]
    BY <1>1, <1>4, <1>5 DEF Noted
  <2>1. /\ DOMAIN replaced'[g] = DOMAIN replaced[g] \cup Targets(g, p)
        /\ i \in Targets(g, p) => replaced'[g][i] = waves'[WaveFor(g, i, p)]
        /\ i \in DOMAIN replaced[g] \ Targets(g, p) => replaced'[g][i] = replaced[g][i]
    BY <1>2 DEF WaveNodes, p, v
  <2>2. /\ i \in Targets(g, p) <=> w \in PulseMap(p)
        /\ i \in Targets(g, p) => WaveFor(g, i, p) = w
    BY PlaceOfPulse DEF PulseMap
  <2>3. i \in DOMAIN replaced[g] => w \in DOMAIN waves /\ replaced[g][i] = waves[w]
    BY DEF Noted
  <2>4. i \in DOMAIN replaced'[g] => w \in DOMAIN waves' /\ replaced'[g][i] = waves'[w]
    BY <1>9, <2>1, <2>2, <2>3
  <2>5. ASSUME NEW q \in PulsesIn[w], asked'[q].before = Len(executed)
        PROVE  i \in DOMAIN replaced'[g]
    <3>1. CASE q = p
      BY <2>1, <2>2, <3>1 DEF PulseMap
    <3>2. CASE q # p
      <4>1. q \in Pulses
        BY MappedAreWaves
      <4>2. asked[q].before = Len(executed)
        BY <1>8, <2>5, <3>2, <4>1
      <4>3. i \in DOMAIN replaced[g]
        BY <4>2 DEF Noted
      <4> QED
        BY <2>1, <4>3
    <3> QED
      BY <3>1, <3>2
  <2> QED
    BY <2>4, <2>5
<1>13. InMemory'
  <2>1. ASSUME NEW g \in Generators, NEW i \in DOMAIN memory[g],
               NEW w, w = WaveTables[loaded[g].table].waves[i], Place(g, i, w),
               NEW q \in PulsesIn[w]
        PROVE  Shown(g, i, q)' \/ asked'[q].before = Len(executed)
    <3>1. CASE q = p
      BY <1>8, <3>1
    <3>2. CASE q # p
      <4>1. q \in Pulses
        BY <2>1, MappedAreWaves DEF Place
      <4>2. asked'[q] = asked[q]
        BY <1>8, <3>2, <4>1
      <4>3. Shown(g, i, q) \/ asked[q].before = Len(executed)
        BY <2>1 DEF InMemory
      <4> QED
        BY <1>1, <4>2, <4>3 DEF Shown
    <3> QED
      BY <3>1, <3>2
  <2> QED
    BY <1>1, <1>4, <1>5, <2>1 DEF InMemory
<1> QED
  BY <1>11, <1>12, <1>13

(* A step: the waves of the programs it uploads, and what was noted.        *)
LEMMA PrepareKeeps ==
  ASSUME Walking, Typed, Content, Noted, InMemory, PrepareStep
  PROVE  Content' /\ Noted' /\ InMemory'
<1>1. /\ code' = code /\ waves' = waves /\ asked' = asked
      /\ executed' = Append(executed, NtStep)
      /\ memory' = Written(Uploaded(NtStep), replaced)
      /\ sent' = replaced /\ replaced' = NoNodes /\ phase = "walk"
  BY DEF PrepareStep, Statement, recipe
<1>2. /\ WaveTables' = WaveTables /\ Generators' = Generators /\ MappedWaves' = MappedWaves
  BY <1>1, SameWaves
<1>3. \A g, i, w : Place(g, i, w)' <=> Place(g, i, w)
  BY <1>2 DEF Place
<1>4. PICK S : executed \in Seq(S)
  BY DEF Content
<1>5. /\ Len(executed) \in Nat /\ executed' \in Seq(S \cup {NtStep})
      /\ Len(executed') = Len(executed) + 1
  <2>1. executed \in Seq(S \cup {NtStep}) /\ NtStep \in S \cup {NtStep}
    BY <1>4
  <2> QED
    BY <1>1, <2>1
<1>6. \A p \in Pulses : asked[p].before \in Int /\ asked[p].before <= Len(executed)
  BY DEF Content
<1>7. Content'
  <2>1. \A p \in Pulses : /\ asked'[p].before \in Int /\ asked'[p].before <= Len(executed')
                          /\ asked'[p].before < Len(executed')
    BY <1>1, <1>5, <1>6
  <2>2. \E T : executed' \in Seq(T)
    BY <1>5
  <2> QED
    BY <1>1, <1>2, <2>1, <2>2 DEF Content
<1>8. Noted'
  <2> SUFFICES ASSUME NEW g \in Generators, NEW i \in Nat, NEW w \in MappedWaves, Place(g, i, w)
               PROVE  /\ i \notin DOMAIN replaced'[g]
                      /\ i \in DOMAIN sent'[g] => w \in DOMAIN waves' /\ sent'[g][i] = waves'[w]
                      /\ \A p \in PulsesIn[w] : asked'[p].before # Len(executed')
    BY <1>2, <1>3 DEF Noted
  <2>1. i \notin DOMAIN replaced'[g]
    BY <1>1 DEF NoNodes
  <2>2. i \in DOMAIN replaced[g] => w \in DOMAIN waves /\ replaced[g][i] = waves[w]
    BY DEF Noted
  <2>3. \A p \in PulsesIn[w] : p \in Pulses
    BY MappedAreWaves
  <2> QED
    BY <1>1, <1>5, <1>6, <2>1, <2>2, <2>3
<1>9. ASSUME NEW g \in Generators
      PROVE  /\ TableOf(g, NtStep) = {} =>
                  /\ loaded'[g] = loaded[g]
                  /\ DOMAIN memory'[g] = DOMAIN memory[g]
                  /\ \A i \in DOMAIN memory[g] :
                       memory'[g][i] = IF i \in DOMAIN replaced[g] THEN replaced[g][i]
                                                                  ELSE memory[g][i]
             /\ TableOf(g, NtStep) # {} =>
                  /\ loaded'[g].table \in DOMAIN WaveTables
                  /\ WaveTables[loaded'[g].table].awg = g
                  /\ loaded'[g].before = Len(executed)
                  /\ DOMAIN memory'[g] = DOMAIN WaveTables[loaded'[g].table].waves
                  /\ \A i \in DOMAIN memory'[g] :
                       memory'[g][i] = IF i \in DOMAIN replaced[g] THEN replaced[g][i]
                                       ELSE Compiled(WaveTables[loaded'[g].table].waves[i])
  <2>1. loaded'[g] = IF TableOf(g, NtStep) = {} THEN loaded[g]
                     ELSE [table |-> CHOOSE k \in TableOf(g, NtStep) : TRUE,
                           before |-> Len(executed)]
    BY DEF PrepareStep
  <2>2. \A mem : Written(mem, replaced)[g] =
          [i \in DOMAIN mem[g] |-> IF i \in DOMAIN replaced[g] THEN replaced[g][i]
                                                               ELSE mem[g][i]]
    BY DEF Written
  <2>3. CASE TableOf(g, NtStep) = {}
    <3>1. Uploaded(NtStep)[g] = memory[g]
      BY <2>3 DEF Uploaded
    <3>2. memory'[g] = [i \in DOMAIN memory[g] |-> IF i \in DOMAIN replaced[g] THEN replaced[g][i]
                                                                             ELSE memory[g][i]]
      BY <1>1, <2>2, <3>1
    <3>3. loaded'[g] = loaded[g]
      BY <2>1, <2>3
    <3> QED
      BY <2>3, <3>2, <3>3
  <2>4. CASE TableOf(g, NtStep) # {}
    <3> DEFINE k == CHOOSE k \in TableOf(g, NtStep) : TRUE
               ws == WaveTables[k].waves
    <3>1. k \in DOMAIN WaveTables /\ WaveTables[k].awg = g
      BY <2>4 DEF TableOf
    <3>2. Uploaded(NtStep)[g] = [i \in DOMAIN ws |-> Compiled(ws[i])]
      BY <2>4 DEF Uploaded
    <3>3. loaded'[g].table = k /\ loaded'[g].before = Len(executed)
      BY <2>1, <2>4
    <3> HIDE DEF k
    <3>4. memory'[g] = [i \in DOMAIN ws |-> IF i \in DOMAIN replaced[g] THEN replaced[g][i]
                                                                       ELSE Compiled(ws[i])]
      BY <1>1, <2>2, <3>2
    <3> QED
      BY <2>4, <3>1, <3>3, <3>4
  <2> QED
    BY <2>3, <2>4
<1>10. ASSUME NEW g \in Generators, NEW i \in DOMAIN memory'[g],
              NEW w, w = WaveTables[loaded'[g].table].waves[i], Place(g, i, w),
              NEW p \in PulsesIn[w]
       PROVE  Shown(g, i, p)'
  <2>1. w \in MappedWaves /\ p \in Pulses
    BY <1>10, MappedAreWaves DEF Place
  <2>2. i \in Nat
    <3>1. PICK k \in DOMAIN WaveTables : i \in DOMAIN WaveTables[k].waves
      BY <1>10 DEF Place
    <3>2. WaveTables[k].waves \in Seq(DOMAIN PulsesIn)
      BY Tables
    <3> QED
      BY <3>1, <3>2
  <2>3. CASE i \in DOMAIN replaced[g]
    <3>1. w \in DOMAIN waves /\ replaced[g][i] = waves[w]
      BY <1>10, <2>1, <2>2, <2>3 DEF Noted
    <3>2. memory'[g][i][p] = asked[p].value
      <4>1. memory'[g][i] = replaced[g][i]
        BY <1>9, <2>3
      <4> QED
        BY <2>1, <3>1, <4>1 DEF Content
    <3> QED
      BY <1>1, <3>2 DEF Shown
  <2>4. CASE i \notin DOMAIN replaced[g]
    <3>1. asked[p].before # Len(executed)
      BY <1>10, <2>1, <2>2, <2>4 DEF Noted
    <3>2. CASE TableOf(g, NtStep) = {}
      <4>1. /\ loaded'[g] = loaded[g] /\ i \in DOMAIN memory[g]
            /\ memory'[g][i] = memory[g][i]
        BY <1>9, <2>4, <3>2
      <4>2. Shown(g, i, p)
        BY <1>10, <3>1, <4>1 DEF InMemory
      <4> QED
        BY <1>1, <4>1, <4>2 DEF Shown
    <3>3. CASE TableOf(g, NtStep) # {}
      <4>1. memory'[g][i] = Compiled(w) /\ loaded'[g].before = Len(executed)
        BY <1>9, <1>10, <2>4, <3>3
      <4>2. memory'[g][i][p] = None
        BY <4>1 DEF Compiled
      <4>3. ~(asked[p].before >= Len(executed))
        BY <1>5, <1>6, <2>1, <3>1
      <4> QED
        BY <1>1, <4>1, <4>2, <4>3 DEF Shown
    <3> QED
      BY <3>2, <3>3
  <2> QED
    BY <2>3, <2>4
<1>11. ASSUME NEW g \in Generators, DOMAIN memory'[g] # {}
       PROVE  /\ loaded'[g].table \in DOMAIN WaveTables
              /\ WaveTables[loaded'[g].table].awg = g
              /\ DOMAIN memory'[g] = DOMAIN WaveTables[loaded'[g].table].waves
  <2>1. CASE TableOf(g, NtStep) = {}
    <3>1. DOMAIN memory'[g] = DOMAIN memory[g] /\ loaded'[g] = loaded[g]
      BY <1>9, <2>1
    <3>2. /\ loaded[g].table \in DOMAIN WaveTables /\ WaveTables[loaded[g].table].awg = g
          /\ DOMAIN memory[g] = DOMAIN WaveTables[loaded[g].table].waves
      BY <1>11, <3>1 DEF InMemory
    <3> QED
      BY <3>1, <3>2
  <2>2. CASE TableOf(g, NtStep) # {}
    BY <1>9, <2>2
  <2> QED
    BY <2>1, <2>2
<1>12. InMemory'
  BY <1>2, <1>3, <1>10, <1>11 DEF InMemory
<1> QED
  BY <1>7, <1>8, <1>12

(* Another attempt writes the waves of the step again.                      *)
LEMMA AttemptKeeps ==
  ASSUME Walking, Typed, Content, Noted, InMemory, AttemptFails
  PROVE  InMemory'
<1>1. /\ code' = code /\ waves' = waves /\ asked' = asked /\ executed' = executed
      /\ loaded' = loaded /\ Running
      /\ memory' = memory \/ memory' = Written(memory, sent)
  BY DEF AttemptFails, recipe, Running
<1>2. WaveTables' = WaveTables /\ Generators' = Generators /\ MappedWaves' = MappedWaves
  BY <1>1, SameWaves
<1>3. \A g, i, w : Place(g, i, w)' <=> Place(g, i, w)
  BY <1>2 DEF Place
<1>4. CASE memory' = memory
  <2>1. \A g, i, p : Shown(g, i, p)' <=> Shown(g, i, p)
    BY <1>1, <1>4 DEF Shown
  <2> QED
    BY <1>1, <1>2, <1>3, <1>4, <2>1 DEF InMemory
<1>5. CASE memory' = Written(memory, sent)
  <2>1. ASSUME NEW g \in Generators
        PROVE  memory'[g] = [i \in DOMAIN memory[g] |->
                               IF i \in DOMAIN sent[g] THEN sent[g][i] ELSE memory[g][i]]
    BY <1>5 DEF Written
  <2>2. ASSUME NEW g \in Generators, NEW i \in DOMAIN memory[g],
               NEW w, w = WaveTables[loaded[g].table].waves[i], Place(g, i, w),
               NEW p \in PulsesIn[w]
        PROVE  Shown(g, i, p)' \/ asked'[p].before = Len(executed')
    <3>1. w \in MappedWaves
      BY <2>2 DEF Place
    <3>2. i \in Nat
      <4>1. PICK k \in DOMAIN WaveTables : i \in DOMAIN WaveTables[k].waves
        BY <2>2 DEF Place
      <4>2. WaveTables[k].waves \in Seq(DOMAIN PulsesIn)
        BY Tables
      <4> QED
        BY <4>1, <4>2
    <3>3. CASE i \in DOMAIN sent[g]
      <4>1. w \in DOMAIN waves /\ sent[g][i] = waves[w]
        BY <1>1, <2>2, <3>1, <3>2, <3>3 DEF Noted
      <4>2. memory'[g][i] = waves[w]
        BY <2>1, <3>3, <4>1
      <4>3. memory'[g][i][p] = asked[p].value
        BY <3>1, <4>1, <4>2 DEF Content
      <4> QED
        BY <1>1, <4>3 DEF Shown
    <3>4. CASE i \notin DOMAIN sent[g]
      <4>1. memory'[g][i] = memory[g][i]
        BY <2>1, <3>4
      <4>2. Shown(g, i, p) \/ asked[p].before = Len(executed)
        BY <2>2 DEF InMemory
      <4> QED
        BY <1>1, <4>1, <4>2 DEF Shown
    <3> QED
      BY <3>3, <3>4
  <2>3. \A g \in Generators : DOMAIN memory'[g] = DOMAIN memory[g]
    BY <2>1
  <2>4. \A g \in Generators : DOMAIN memory'[g] # {} =>
          /\ loaded'[g].table \in DOMAIN WaveTables /\ WaveTables[loaded'[g].table].awg = g
          /\ DOMAIN memory'[g] = DOMAIN WaveTables[loaded'[g].table].waves
    BY <1>1, <2>3 DEF InMemory
  <2> QED
    BY <1>1, <1>2, <1>3, <2>2, <2>3, <2>4 DEF InMemory
<1> QED
  BY <1>1, <1>4, <1>5

LEMMA StepPulses ==
  Walking /\ Typed /\ Content /\ Noted /\ InMemory /\ [Next]_vars
    => Content' /\ Noted' /\ InMemory'
<1> SUFFICES ASSUME Walking, Typed, Content, Noted, InMemory, [Next]_vars
             PROVE  Content' /\ Noted' /\ InMemory'
  OBVIOUS
<1>1. CASE ReplacePulse
  BY <1>1, ReplaceKeeps
<1>2. CASE PrepareStep
  BY <1>2, PrepareKeeps
<1>3. CASE EnterLoop \/ LoopEnds \/ SetParam \/ SetNode \/ Callback \/ SkipChunk
           \/ StepRaises \/ StepExecuted \/ ReadAwg \/ ReadRaises \/ StepIsRead
           \/ AttemptFails \/ Finish \/ UNCHANGED vars
  <2>1. /\ code' = code /\ waves' = waves /\ asked' = asked /\ executed' = executed
        /\ loaded' = loaded /\ replaced' = replaced /\ sent' = sent /\ (Running' => Running)
        /\ memory' = memory \/ AttemptFails
    BY <1>3 DEF EnterLoop, LoopEnds, SetParam, SetNode, Callback, SkipChunk, StepRaises,
                StepExecuted, ReadAwg, ReadRaises, StepIsRead, AttemptFails, Finish, vars,
                recipe, pulses, Statement, Leave, Running
  <2>2. WaveTables' = WaveTables /\ Generators' = Generators /\ MappedWaves' = MappedWaves
    BY <2>1, SameWaves
  <2>3. \A g, i, w : Place(g, i, w)' <=> Place(g, i, w)
    BY <2>2 DEF Place
  <2>4. Content'
    BY <2>1, <2>2 DEF Content
  <2>5. Noted'
    BY <2>1, <2>2, <2>3 DEF Noted
  <2>6. CASE memory' = memory
    <3>1. \A g, i, p : Shown(g, i, p)' <=> Shown(g, i, p)
      BY <2>1, <2>6 DEF Shown
    <3>2. InMemory'
      BY <2>1, <2>2, <2>3, <2>6, <3>1 DEF InMemory
    <3> QED
      BY <2>4, <2>5, <3>2
  <2>7. CASE AttemptFails
    BY <2>4, <2>5, <2>7, AttemptKeeps
  <2> QED
    BY <2>1, <2>6, <2>7
<1> QED
  BY <1>1, <1>2, <1>3 DEF Next

(* While a step is executed, each pulse at a place with one editable wave   *)
(* is what was asked for since its AWG got the program, whatever else was   *)
(* replaced, uploaded or tried again; and never older than the last call.   *)
THEOREM Replacements ==
  Spec => []PulsesAreReplaced
<1>1. Init => Walking /\ Waiting /\ Tracking /\ Following /\ Typed
                /\ Content /\ Noted /\ InMemory
  BY InitWalks, InitWaits, InitTracks, InitFollows, InitTyped, InitPulses
<1>2. Walking /\ Waiting /\ Tracking /\ Following /\ Typed /\ Content /\ Noted /\ InMemory
        /\ [Next]_vars
        => Walking' /\ Waiting' /\ Tracking' /\ Following' /\ Typed'
             /\ Content' /\ Noted' /\ InMemory'
  BY StepWalks, StepWaits, StepTracks, StepFollows, StepTyped, StepPulses
<1>3. Walking /\ Content /\ InMemory => PulsesAreReplaced
  <2> SUFFICES ASSUME Walking, Content, InMemory, Running,
                      NEW g \in Generators, NEW i \in DOMAIN memory[g],
                      NEW w, w = WaveTables[loaded[g].table].waves[i],
                      w \in MappedWaves, OnlyWaveAt(g, i), NEW p \in PulsesIn[w]
               PROVE  Shown(g, i, p)
    BY DEF PulsesAreReplaced, Shown
  <2>1. DOMAIN memory[g] # {}
    OBVIOUS
  <2>2. /\ loaded[g].table \in DOMAIN WaveTables /\ WaveTables[loaded[g].table].awg = g
        /\ i \in DOMAIN WaveTables[loaded[g].table].waves
    BY <2>1 DEF InMemory
  <2>3. Place(g, i, w)
    BY <2>2 DEF Place, OnlyWaveAt
  <2>4. asked[p].before < Len(executed) /\ asked[p].before \in Int
    BY MappedAreWaves DEF Content
  <2>5. \E S : executed \in Seq(S)
    BY DEF Content
  <2>6. asked[p].before # Len(executed)
    BY <2>4, <2>5
  <2> QED
    BY <2>3, <2>6 DEF InMemory
<1> QED
  BY <1>1, <1>2, <1>3, PTL DEF Spec


-----------------------------------------------------------------------------
(* Loops by position.                                                      *)

LEMMA SortedIs ==
  ASSUME NEW S \in SUBSET Int, IsFiniteSet(S)
  PROVE  /\ Cardinality(S) \in Nat
         /\ Sorted(S) \in Seq(S) /\ Len(Sorted(S)) = Cardinality(S)
         /\ DOMAIN Sorted(S) = 1 .. Cardinality(S)
         /\ \A k \in 1 .. Cardinality(S) :
              Sorted(S)[k] \in S /\ Cardinality(UpTo(S, Sorted(S)[k])) = k
         /\ \A j, k \in 1 .. Cardinality(S) : j < k => Sorted(S)[j] < Sorted(S)[k]
         /\ \A j \in S : /\ Cardinality(UpTo(S, j)) \in 1 .. Cardinality(S)
                         /\ Sorted(S)[Cardinality(UpTo(S, j))] = j
<1> DEFINE n == Cardinality(S)
           rank(j) == Cardinality(UpTo(S, j))
<1>1. /\ n \in Nat
      /\ \A j \in S : rank(j) \in 1 .. n
      /\ \A i, j \in S : i < j => rank(i) < rank(j)
      /\ \A k \in 1 .. n : \E j \in S : rank(j) = k
  BY Ranks
<1>2. Sorted(S) = [k \in 1 .. n |-> CHOOSE j \in S : rank(j) = k]
  BY DEF Sorted, UpTo
<1> HIDE DEF n, rank
<1>3. ASSUME NEW k \in 1 .. n PROVE Sorted(S)[k] \in S /\ rank(Sorted(S)[k]) = k
  BY <1>1, <1>2
<1>4. ASSUME NEW i \in S, NEW j \in S, rank(i) = rank(j) PROVE i = j
  <2>1. ~(i < j) /\ ~(j < i)
    BY <1>1, <1>4
  <2>2. i \in Int /\ j \in Int
    OBVIOUS
  <2> QED
    BY <2>1, <2>2
<1>5. ASSUME NEW j \in S PROVE rank(j) \in 1 .. n /\ Sorted(S)[rank(j)] = j
  BY <1>1, <1>3, <1>4
<1>6. ASSUME NEW j \in 1 .. n, NEW k \in 1 .. n, j < k PROVE Sorted(S)[j] < Sorted(S)[k]
  <2>1. Sorted(S)[j] \in Int /\ Sorted(S)[k] \in Int
    BY <1>3
  <2>2. ~(Sorted(S)[k] < Sorted(S)[j]) /\ Sorted(S)[k] # Sorted(S)[j]
    <3>1. /\ Sorted(S)[j] \in S /\ rank(Sorted(S)[j]) = j
          /\ Sorted(S)[k] \in S /\ rank(Sorted(S)[k]) = k
      BY <1>3
    <3>2. Sorted(S)[k] < Sorted(S)[j] => k < j
      BY <1>1, <3>1
    <3>3. Sorted(S)[k] = Sorted(S)[j] => k = j
      BY <3>1
    <3> QED
      BY <1>6, <3>2, <3>3
  <2> QED
    BY <2>1, <2>2
<1>7. Sorted(S) \in [1 .. n -> S]
  BY <1>2, <1>3
<1>8. Sorted(S) \in Seq(S) /\ Len(Sorted(S)) = n /\ DOMAIN Sorted(S) = 1 .. n
  BY <1>1, <1>7, SeqByElements
<1> QED
  BY <1>1, <1>3, <1>5, <1>6, <1>8 DEF n, rank

(* The axes of near time are the loops around the real-time loop but the    *)
(* one over chunks, from the outermost to the innermost.                    *)
IsAxis(j) ==
  /\ j \in DOMAIN code /\ code[j].op = "for" /\ code[j].kind # "pipeline"
  /\ j < RtAt /\ RtAt < code[j].end
AxisSet == {j \in LoopsAround(RtAt) : HasAxis(j)}

LEMMA RealTime ==
  ASSUME code \in Programs
  PROVE  /\ RtAt \in DOMAIN code /\ code[RtAt].op = "rt"
         /\ \A r \in DOMAIN code : code[r].op = "rt" => r = RtAt
         /\ RtAt \in Nat /\ code[RtAt].end \in Nat
         /\ RtAt < code[RtAt].end /\ code[RtAt].end <= Len(code)
<1>1. PICK r \in LoopsOf(code) : \A k \in LoopsOf(code) : code[k].op = "rt" <=> k = r
  BY ProgramsAssumption
<1>2. r \in DOMAIN code /\ code[r].op = "rt"
  BY <1>1 DEF LoopsOf
<1>3. RtAt \in DOMAIN code /\ code[RtAt].op = "rt"
  BY <1>2 DEF RtAt
<1> QED
  BY <1>3, Structure

\* The loop over chunks is directly around the real-time loop.
LEMMA ChunkLoop ==
  ASSUME code \in Programs, NEW j \in DOMAIN code, code[j].op = "for",
         code[j].kind = "pipeline"
  PROVE  RtAt = j + 1 /\ code[j].end = code[RtAt].end + 1
<1>1. j \in LoopsOf(code)
  BY DEF LoopsOf
<1>2. code[j + 1].op = "rt" /\ code[j].end = code[j + 1].end + 1
  BY <1>1, AroundAssumption
<1>3. j + 1 \in DOMAIN code
  BY Structure
<1> QED
  BY <1>2, <1>3, RealTime

LEMMA AxesAre ==
  ASSUME code \in Programs
  PROVE  /\ AxisSet \in SUBSET Int /\ IsFiniteSet(AxisSet) /\ NtAxes = Sorted(AxisSet)
         /\ \A j : j \in AxisSet <=> IsAxis(j)
<1>1. DOMAIN code = 1 .. Len(code) /\ Len(code) \in Nat
  BY Structure
<1>2. AxisSet \in SUBSET (1 .. Len(code))
  BY <1>1 DEF AxisSet, LoopsAround
<1>3. IsFiniteSet(AxisSet)
  <2>1. IsFiniteSet(1 .. Len(code))
    BY <1>1, FS_Interval
  <2> QED
    BY <1>2, <2>1, FS_Subset
<1>4. NtAxes = Sorted(AxisSet)
  BY DEF NtAxes, Axes, AxisSet
<1>5. ASSUME NEW j PROVE j \in AxisSet <=> IsAxis(j)
  <2>1. j \in LoopsAround(RtAt) <=> /\ j \in DOMAIN code /\ code[j].op \in {"for", "rt"}
                                    /\ j < RtAt /\ RtAt < code[j].end
    BY DEF LoopsAround, Loop
  <2>2. ASSUME j \in DOMAIN code, j < RtAt PROVE code[j].op # "rt"
    BY <2>2, RealTime, <1>1
  <2>3. ASSUME j \in DOMAIN code, code[j].op = "for", j < RtAt, RtAt < code[j].end
        PROVE  code[j].kind # "average"
    <3>1. j \in LoopsOf(code) /\ RtAt \in LoopsOf(code) /\ code[RtAt].op = "rt"
      BY <2>3, RealTime DEF LoopsOf
    <3> QED
      BY <2>3, <3>1, AroundAssumption
  <2>4. ASSUME code[j].kind # "average" PROVE HasAxis(j) <=> code[j].kind # "pipeline"
    BY <2>4 DEF HasAxis
  <2> QED
    BY <2>1, <2>2, <2>3, <2>4 DEF AxisSet, IsAxis
<1> QED
  BY <1>1, <1>2, <1>3, <1>4, <1>5

LEMMA NtAxesAre ==
  ASSUME code \in Programs
  PROVE  /\ Len(NtAxes) \in Nat /\ DOMAIN NtAxes = 1 .. Len(NtAxes)
         /\ \A m \in 1 .. Len(NtAxes) : IsAxis(NtAxes[m]) /\ NtAxes[m] \in Nat
         /\ \A l, m \in 1 .. Len(NtAxes) : l < m => NtAxes[l] < NtAxes[m]
         /\ \A j : IsAxis(j) => \E m \in 1 .. Len(NtAxes) : NtAxes[m] = j
<1>1. /\ AxisSet \in SUBSET Int /\ IsFiniteSet(AxisSet) /\ NtAxes = Sorted(AxisSet)
      /\ \A j : j \in AxisSet <=> IsAxis(j)
  BY AxesAre
<1>2. \A j \in DOMAIN code : j \in Nat
  BY Structure
<1>3. \A j : IsAxis(j) => j \in Nat
  BY <1>2 DEF IsAxis
<1>4. /\ Cardinality(AxisSet) \in Nat
      /\ Len(NtAxes) = Cardinality(AxisSet)
      /\ DOMAIN NtAxes = 1 .. Cardinality(AxisSet)
      /\ \A k \in 1 .. Cardinality(AxisSet) : NtAxes[k] \in AxisSet
      /\ \A j, k \in 1 .. Cardinality(AxisSet) : j < k => NtAxes[j] < NtAxes[k]
      /\ \A j \in AxisSet : \E k \in 1 .. Cardinality(AxisSet) : NtAxes[k] = j
  BY <1>1, SortedIs
<1> QED
  BY <1>1, <1>3, <1>4

(* An axis that is open stands on the stack where it stands among the axes. *)
LEMMA AxisOnStack ==
  ASSUME code \in Programs, NEW i, NEW ls, Stack(code, i, ls),
         NEW m \in 1 .. Len(NtAxes), Open(code, i, NtAxes[m])
  PROVE  m \in 1 .. Len(ls) /\ ls[m].at = NtAxes[m]
<1> DEFINE a == NtAxes[m]
<1>1. /\ AxisSet \in SUBSET Int /\ IsFiniteSet(AxisSet) /\ NtAxes = Sorted(AxisSet)
      /\ \A j : j \in AxisSet <=> IsAxis(j)
  BY AxesAre
<1>2. IsAxis(a) /\ Cardinality(UpTo(AxisSet, a)) = m
  BY <1>1, SortedIs, NtAxesAre
<1>3. PICK k \in 1 .. Len(ls) : ls[k].at = a
  BY <1>2 DEF Stack, IsAxis
<1>4. /\ \A j \in 1 .. Len(ls) : Open(code, i, ls[j].at)
      /\ \A j, l \in 1 .. Len(ls) : j < l => ls[j].at < ls[l].at
      /\ Len(ls) \in Nat
  BY DEF Stack
<1>5. ASSUME NEW j \in 1 .. k PROVE IsAxis(ls[j].at) /\ ls[j].at <= a
  <2> DEFINE b == ls[j].at
  <2>1. j \in 1 .. Len(ls) /\ (j = k \/ j < k)
    BY <1>4
  <2>2. CASE j = k
    BY <1>2, <1>3, <2>2, NtAxesAre
  <2>3. CASE j < k
    <3>1. Open(code, i, b) /\ b < a
      BY <1>3, <1>4, <2>1, <2>3
    <3>2. b \in DOMAIN code /\ code[b].op = "for" /\ i <= code[b].end /\ b < i /\ a < i
      BY <3>1 DEF Open
    <3>3. a \in DOMAIN code /\ code[a].op = "for" /\ a < RtAt /\ RtAt < code[a].end
      BY <1>2 DEF IsAxis
    <3>4. i \in Nat /\ a \in Nat /\ b \in Nat /\ RtAt \in Nat
      BY <3>2, <3>3, Structure, RealTime DEF Stack
    <3>5. code[a].end < code[b].end
      BY <3>1, <3>2, <3>3, <3>4, Structure
    <3>6. b < RtAt /\ RtAt < code[b].end
      BY <3>1, <3>2, <3>3, <3>4, <3>5, Structure
    <3>7. code[b].kind # "pipeline"
      <4> SUFFICES ASSUME code[b].kind = "pipeline" PROVE FALSE
        OBVIOUS
      <4>1. RtAt = b + 1
        BY <3>2, ChunkLoop
      <4> QED
        BY <3>1, <3>3, <3>4, <4>1
    <3> QED
      BY <3>1, <3>2, <3>4, <3>6, <3>7 DEF IsAxis
  <2> QED
    BY <2>1, <2>2, <2>3
<1>6. ASSUME NEW j \in AxisSet, j <= a PROVE \E l \in 1 .. k : ls[l].at = j
  <2>1. IsAxis(j)
    BY <1>1
  <2>2. j \in DOMAIN code /\ code[j].op = "for" /\ j < RtAt /\ RtAt < code[j].end
    BY <2>1 DEF IsAxis
  <2>3. a \in DOMAIN code /\ code[a].op = "for" /\ a < RtAt /\ RtAt < code[a].end
    BY <1>2 DEF IsAxis
  <2>4. a < i /\ i <= code[a].end
    BY DEF Open
  <2>5. i \in Nat /\ a \in Nat /\ j \in Nat /\ RtAt \in Nat
    BY <2>2, <2>3, Structure, RealTime DEF Stack
  <2>6. code[j].end \in Nat /\ (j = a \/ code[a].end < code[j].end)
    BY <1>6, <2>2, <2>3, <2>5, Structure
  <2>7. Open(code, i, j)
    BY <1>6, <2>2, <2>3, <2>4, <2>5, <2>6, Structure DEF Open
  <2>8. PICK l \in 1 .. Len(ls) : ls[l].at = j
    BY <2>2, <2>7 DEF Stack
  <2>9. ~(k < l)
    BY <1>3, <1>4, <1>6, <2>5, <2>8
  <2>10. l \in 1 .. k
    BY <1>4, <2>9
  <2> QED
    BY <2>8, <2>10
<1>7. Cardinality(UpTo(AxisSet, a)) = k
  <2> DEFINE f == [j \in 1 .. k |-> ls[j].at]
  <2>1. \A j \in 1 .. k : f[j] \in AxisSet /\ f[j] <= a
    BY <1>1, <1>5
  <2>2. \A j, l \in 1 .. k : j < l => f[j] < f[l]
    BY <1>4
  <2>3. a \in AxisSet /\ k \in Nat
    BY <1>1, <1>2
  <2>4. \A j \in AxisSet : j <= a => \E l \in 1 .. k : f[l] = j
    BY <1>6
  <2>5. AxisSet \in SUBSET Int /\ IsFiniteSet(AxisSet)
    BY <1>1
  <2>6. /\ \A j \in 1 .. k : f[j] \in AxisSet
        /\ \A j \in 1 .. k : f[j] <= a
    BY <2>1
  <2> HIDE DEF f, a
  <2> QED
    BY <2>2, <2>3, <2>4, <2>5, <2>6, RankBySequence
<1> QED
  BY <1>2, <1>3, <1>7

-----------------------------------------------------------------------------
(* The order of the steps.                                                 *)

(* The points of the near-time loops the walk has behind it: those that     *)
(* share the indices of some axes with it and, of the next axis, have an    *)
(* index the walk is past; or, if they share all, those whose shot was      *)
(* taken.                                                                   *)
Shared(i, ls, x, m) ==
  \A l \in 1 .. m - 1 : Open(code, i, NtAxes[l]) /\ x[l] = ls[l].index
LeftAt(i, ls, x, m) ==
  /\ Shared(i, ls, x, m)
  /\ \/ code[NtAxes[m]].end < i
     \/ Open(code, i, NtAxes[m]) /\ x[m] < ls[m].index
Left(i, ls, x) == \E m \in 1 .. Len(NtAxes) : LeftAt(i, ls, x, m)
Here(i, ls, x) == Shared(i, ls, x, Len(NtAxes) + 1)

Chunked(ls) == \E k \in 1 .. Len(ls) : code[ls[k].at].kind = "pipeline"
Taken(i, ls, ch, run) == code[RtAt].end < i \/ run \/ (ch > 0 /\ Chunked(ls))
Passed(i, ls, ch, run, x) == Left(i, ls, x) \/ (Here(i, ls, x) /\ Taken(i, ls, ch, run))

SameAxes(i, ls, i2, ls2) ==
  \A m \in 1 .. Len(NtAxes) :
    /\ Open(code, i2, NtAxes[m]) <=> Open(code, i, NtAxes[m])
    /\ code[NtAxes[m]].end < i2 <=> code[NtAxes[m]].end < i
    /\ Open(code, i, NtAxes[m]) => ls2[m].index = ls[m].index

LEMMA SameLeft ==
  ASSUME code \in Programs,
         NEW i, NEW ls, NEW i2, NEW ls2, SameAxes(i, ls, i2, ls2), NEW x
  PROVE  /\ Left(i2, ls2, x) <=> Left(i, ls, x)
         /\ Here(i2, ls2, x) <=> Here(i, ls, x)
<1>0. Len(NtAxes) \in Nat
  BY NtAxesAre
<1>1. ASSUME NEW m \in 1 .. Len(NtAxes) + 1
      PROVE  Shared(i2, ls2, x, m) <=> Shared(i, ls, x, m)
  <2>1. \A l \in 1 .. m - 1 : l \in 1 .. Len(NtAxes)
    BY <1>0
  <2> QED
    BY <2>1 DEF Shared, SameAxes
<1>2. ASSUME NEW m \in 1 .. Len(NtAxes)
      PROVE  LeftAt(i2, ls2, x, m) <=> LeftAt(i, ls, x, m)
  BY <1>0, <1>1 DEF LeftAt, SameAxes
<1>3. Here(i2, ls2, x) <=> Here(i, ls, x)
  BY <1>0, <1>1 DEF Here
<1> QED
  BY <1>2, <1>3 DEF Left

LEMMA SamePassed ==
  ASSUME code \in Programs,
         NEW i, NEW ls, NEW i2, NEW ls2, SameAxes(i, ls, i2, ls2),
         NEW ch, NEW run, NEW ch2, NEW run2,
         Taken(i2, ls2, ch2, run2) <=> Taken(i, ls, ch, run),
         NEW x
  PROVE  Passed(i2, ls2, ch2, run2, x) <=> Passed(i, ls, ch, run, x)
<1>1. (Left(i2, ls2, x) <=> Left(i, ls, x)) /\ (Here(i2, ls2, x) <=> Here(i, ls, x))
  BY SameLeft
<1> QED
  BY <1>1 DEF Passed

(* Inside the loop over chunks there is nothing but the real-time loop.     *)
LEMMA ChunkOpen ==
  ASSUME code \in Programs, NEW i, NEW ls, Stack(code, i, ls),
         NEW k \in 1 .. Len(ls), code[ls[k].at].kind = "pipeline"
  PROVE  /\ RtAt = ls[k].at + 1 /\ code[ls[k].at].end = code[RtAt].end + 1
         /\ i = RtAt \/ i = code[RtAt].end + 1
         /\ k = Len(ls)
<1> DEFINE j == ls[k].at
<1>1. Open(code, i, j) /\ Len(ls) \in Nat /\ i \in Nat
  BY Structure DEF Stack
<1>2. j \in DOMAIN code /\ code[j].op = "for" /\ j < i /\ i <= code[j].end /\ j \in Nat
  BY <1>1, Structure DEF Open
<1>3. RtAt = j + 1 /\ code[j].end = code[RtAt].end + 1
  BY <1>2, ChunkLoop
<1>4. RtAt \in DOMAIN code /\ code[RtAt].op = "rt" /\ code[RtAt].end \in Nat
  BY RealTime
<1>5. ~(RtAt < i /\ i <= code[RtAt].end)
  BY <1>4 DEF Stack
<1>6. i = RtAt \/ i = code[RtAt].end + 1
  BY <1>1, <1>2, <1>3, <1>4, <1>5
<1>7. ASSUME k # Len(ls) PROVE FALSE
  <2> DEFINE b == ls[Len(ls)].at
  <2>1. j < b /\ Open(code, i, b)
    BY <1>1, <1>7 DEF Stack
  <2>2. b \in DOMAIN code /\ code[b].op = "for" /\ b < i /\ i <= code[b].end /\ b \in Nat
    BY <2>1, Structure DEF Open
  <2>3. b # RtAt
    BY <1>4, <2>2
  <2>4. RtAt < b /\ b <= code[RtAt].end
    BY <1>2, <1>3, <1>4, <1>6, <2>1, <2>2, <2>3
  <2>5. b # code[RtAt].end
    BY <1>4, <2>2, Structure
  <2>6. code[b].end < code[RtAt].end
    BY <1>4, <2>2, <2>4, <2>5, Structure
  <2> QED
    BY <1>1, <1>4, <2>2, <2>4, <2>6, <1>6, Structure
<1> QED
  BY <1>3, <1>6, <1>7

(* An axis ends behind the real-time loop, and outer axes end later.        *)
LEMMA AxisEnds ==
  ASSUME code \in Programs, NEW m \in 1 .. Len(NtAxes)
  PROVE  LET a == NtAxes[m]
         IN  /\ a \in DOMAIN code /\ code[a].op = "for" /\ code[a].kind # "pipeline"
             /\ a \in Nat /\ code[a].end \in Nat /\ code[code[a].end].op = "end"
             /\ a < RtAt /\ code[RtAt].end < code[a].end /\ code[a].end <= Len(code)
             /\ \A l \in 1 .. Len(NtAxes) :
                  l < m => NtAxes[l] < a /\ code[a].end < code[NtAxes[l]].end
<1> DEFINE a == NtAxes[m]
<1>1. IsAxis(a) /\ a \in Nat
  BY NtAxesAre
<1>2. a \in DOMAIN code /\ code[a].op = "for" /\ code[a].kind # "pipeline"
      /\ a < RtAt /\ RtAt < code[a].end
  BY <1>1 DEF IsAxis
<1>3. code[a].end \in Nat /\ code[code[a].end].op = "end" /\ code[a].end <= Len(code)
  BY <1>2, Structure
<1>4. code[RtAt].end < code[a].end
  BY <1>2, RealTime, Structure
<1>5. ASSUME NEW l \in 1 .. Len(NtAxes), l < m
      PROVE  NtAxes[l] < a /\ code[a].end < code[NtAxes[l]].end
  <2>1. IsAxis(NtAxes[l]) /\ NtAxes[l] \in Nat /\ NtAxes[l] < a
    BY <1>5, NtAxesAre
  <2>2. /\ NtAxes[l] \in DOMAIN code /\ code[NtAxes[l]].op = "for"
        /\ RtAt < code[NtAxes[l]].end
    BY <2>1 DEF IsAxis
  <2>3. a < code[NtAxes[l]].end
    BY <1>1, <1>2, <2>2, RealTime, Structure
  <2> QED
    BY <1>2, <2>1, <2>2, <2>3, Structure
<1> QED
  BY <1>1, <1>2, <1>3, <1>4, <1>5

LEMMA StatementPassed ==
  ASSUME code \in Programs, NEW i \in DOMAIN code, NEW ls, Stack(code, i, ls),
         code[i].op \notin {"for", "rt", "end"}, NEW ch, NEW x
  PROVE  Passed(i + 1, ls, ch, FALSE, x) <=> Passed(i, ls, ch, FALSE, x)
<1>1. i \in Nat
  BY Structure
<1>2. SameAxes(i, ls, i + 1, ls)
  <2> SUFFICES ASSUME NEW m \in 1 .. Len(NtAxes)
               PROVE  /\ Open(code, i + 1, NtAxes[m]) <=> Open(code, i, NtAxes[m])
                      /\ code[NtAxes[m]].end < i + 1 <=> code[NtAxes[m]].end < i
    BY DEF SameAxes
  <2> DEFINE a == NtAxes[m]
  <2>1. /\ a \in DOMAIN code /\ code[a].op = "for" /\ a \in Nat /\ code[a].end \in Nat
        /\ code[code[a].end].op = "end"
    BY AxisEnds
  <2>2. a # i /\ code[a].end # i
    BY <2>1
  <2> QED
    BY <1>1, <2>1, <2>2 DEF Open
<1>3. Taken(i + 1, ls, ch, FALSE) <=> Taken(i, ls, ch, FALSE)
  <2>1. code[RtAt].end \in Nat /\ code[RtAt].end # i
    BY RealTime, Structure
  <2> QED
    BY <1>1, <2>1 DEF Taken
<1> QED
  BY <1>2, <1>3, SamePassed

(* The real-time loop is behind the walk when its shot was taken, or is     *)
(* none of this chunk.                                                      *)
LEMMA RealTimePassed ==
  ASSUME code \in Programs, NEW i \in DOMAIN code, NEW ls, Stack(code, i, ls),
         code[i].op = "rt", NEW ch, NEW run, Taken(i, ls, ch, run), NEW x
  PROVE  Passed(code[i].end + 1, ls, ch, FALSE, x) <=> Passed(i, ls, ch, run, x)
<1>1. i = RtAt /\ i \in Nat /\ code[i].end \in Nat /\ i < code[i].end
  BY RealTime
<1>2. SameAxes(i, ls, code[i].end + 1, ls)
  <2> SUFFICES ASSUME NEW m \in 1 .. Len(NtAxes)
               PROVE  /\ Open(code, code[i].end + 1, NtAxes[m]) <=> Open(code, i, NtAxes[m])
                      /\ code[NtAxes[m]].end < code[i].end + 1 <=> code[NtAxes[m]].end < i
    BY DEF SameAxes
  <2> DEFINE a == NtAxes[m]
  <2>1. /\ a \in DOMAIN code /\ code[a].op = "for" /\ a \in Nat /\ code[a].end \in Nat
        /\ a < RtAt /\ code[RtAt].end < code[a].end
    BY AxisEnds
  <2> QED
    BY <1>1, <2>1 DEF Open
<1>3. Taken(code[i].end + 1, ls, ch, FALSE)
  BY <1>1 DEF Taken
<1> QED
  BY <1>2, <1>3, SamePassed

(* A loop is entered: none of its points have been passed.                  *)
LEMMA EnterPassed ==
  ASSUME code \in Programs, NEW i \in DOMAIN code, NEW ls, Stack(code, i, ls),
         code[i].op = "for", NEW ls2, Stack(code, i + 1, ls2),
         Len(ls2) = Len(ls) + 1, \A k \in 1 .. Len(ls) : ls2[k] = ls[k],
         ls2[Len(ls) + 1].at = i, ls2[Len(ls) + 1].index = 0,
         NEW ch, NEW ch2, ch2 = IF code[i].kind = "pipeline" THEN 0 ELSE ch,
         NEW x, \A m \in 1 .. Len(NtAxes) : x[m] \in Nat
  PROVE  Passed(i + 1, ls2, ch2, FALSE, x) <=> Passed(i, ls, ch, FALSE, x)
<1> DEFINE n == Len(NtAxes)
<1>1. i \in Nat /\ n \in Nat /\ Len(ls) \in Nat /\ code[RtAt].end \in Nat /\ RtAt \in Nat
  BY Structure, NtAxesAre, RealTime DEF Stack
\* Loops but this one are as they were.
<1>2. ASSUME NEW l \in 1 .. n, NtAxes[l] # i
      PROVE  /\ Open(code, i + 1, NtAxes[l]) <=> Open(code, i, NtAxes[l])
             /\ code[NtAxes[l]].end < i + 1 <=> code[NtAxes[l]].end < i
             /\ Open(code, i, NtAxes[l]) => ls2[l].index = ls[l].index
  <2> DEFINE a == NtAxes[l]
  <2>1. /\ a \in DOMAIN code /\ code[a].op = "for" /\ a \in Nat /\ code[a].end \in Nat
        /\ code[code[a].end].op = "end"
    BY AxisEnds
  <2>2. a # i /\ code[a].end # i
    BY <1>2, <2>1
  <2>3. ASSUME Open(code, i, a) PROVE ls2[l].index = ls[l].index
    BY <2>3, AxisOnStack
  <2> QED
    BY <1>1, <2>1, <2>2, <2>3 DEF Open
\* No loop over chunks is open here, and an entered one is at its first.
<1>3. ~Chunked(ls)
  <2> SUFFICES ASSUME NEW k \in 1 .. Len(ls), code[ls[k].at].kind = "pipeline"
               PROVE  FALSE
    BY DEF Chunked
  <2>1. i = RtAt \/ i = code[RtAt].end + 1
    BY ChunkOpen
  <2>2. Stack(code, i, ls) /\ ls[k].at < i /\ i <= code[ls[k].at].end
    BY DEF Stack, Open
  <2>3. code[ls[k].at].end = code[RtAt].end + 1
    BY ChunkOpen
  <2>4. code[code[ls[k].at].end].op = "end"
    BY Structure DEF Stack, Open
  <2> QED
    BY <2>1, <2>3, <2>4, RealTime
<1>4. ~(ch2 > 0 /\ Chunked(ls2))
  <2> SUFFICES ASSUME NEW k \in 1 .. Len(ls2), code[ls2[k].at].kind = "pipeline"
               PROVE  ~(ch2 > 0)
    BY DEF Chunked
  <2>1. k = Len(ls) + 1
    <3>1. ~(k \in 1 .. Len(ls))
      BY <1>3 DEF Chunked
    <3> QED
      BY <1>1, <3>1
  <2> QED
    BY <2>1
<1>5. Taken(i + 1, ls2, ch2, FALSE) <=> Taken(i, ls, ch, FALSE)
  <2>1. code[RtAt].end # i
    BY RealTime, Structure
  <2> QED
    BY <1>1, <1>3, <1>4, <2>1 DEF Taken
<1>6. CASE \A m \in 1 .. n : NtAxes[m] # i
  <2>1. SameAxes(i, ls, i + 1, ls2)
    BY <1>2, <1>6 DEF SameAxes
  <2>2. Left(i + 1, ls2, x) <=> Left(i, ls, x)
    BY <2>1, SameLeft
  <2>3. Here(i + 1, ls2, x) <=> Here(i, ls, x)
    BY <2>1, SameLeft
  <2> QED
    BY <1>5, <2>2, <2>3, Zenon DEF Passed
<1>7. ASSUME NEW m \in 1 .. n, NtAxes[m] = i
      PROVE  Passed(i + 1, ls2, ch2, FALSE, x) <=> Passed(i, ls, ch, FALSE, x)
  <2>0. i < RtAt /\ i < code[i].end /\ code[i].end \in Nat /\ code[RtAt].end < code[i].end
    BY <1>7, AxisEnds, Structure
  <2>1. ~Open(code, i, i) /\ Open(code, i + 1, i)
    BY <1>1, <2>0 DEF Open
  <2>2. ls2[m].index = 0
    <3>1. m \in 1 .. Len(ls2) /\ ls2[m].at = i
      BY <1>7, <2>1, AxisOnStack
    <3>2. ~(m \in 1 .. Len(ls))
      <4> SUFFICES ASSUME m \in 1 .. Len(ls) PROVE FALSE
        OBVIOUS
      <4>1. ls[m].at = i
        BY <3>1
      <4> QED
        BY <2>1, <4>1 DEF Stack
    <3> QED
      BY <1>1, <3>1, <3>2
  <2>3. ASSUME NEW l \in 1 .. n, l < m
        PROVE  LeftAt(i + 1, ls2, x, l) <=> LeftAt(i, ls, x, l)
    <3>1. \A k \in 1 .. l : k \in 1 .. n /\ NtAxes[k] # i
      <4> SUFFICES ASSUME NEW k \in 1 .. l PROVE k \in 1 .. n /\ NtAxes[k] # i
        OBVIOUS
      <4>1. k \in 1 .. n /\ k < m
        BY <1>1, <2>3
      <4> QED
        BY <1>1, <1>7, <4>1, NtAxesAre
    <3>2. \A k \in 1 .. l :
            /\ Open(code, i + 1, NtAxes[k]) <=> Open(code, i, NtAxes[k])
            /\ code[NtAxes[k]].end < i + 1 <=> code[NtAxes[k]].end < i
            /\ Open(code, i, NtAxes[k]) => ls2[k].index = ls[k].index
      BY <1>2, <3>1
    <3>3. \A k \in 1 .. l - 1 : k \in 1 .. l
      BY <1>1
    <3>4. Shared(i + 1, ls2, x, l) <=> Shared(i, ls, x, l)
      BY <3>2, <3>3 DEF Shared
    <3>5. l \in 1 .. l
      BY <1>1
    <3> QED
      BY <3>2, <3>4, <3>5 DEF LeftAt
  <2>4. ASSUME NEW l \in 1 .. n, ~(l < m) PROVE ~LeftAt(i, ls, x, l)
    <3>1. CASE l = m
      BY <1>1, <1>7, <2>0, <2>1, <3>1 DEF LeftAt
    <3>2. CASE l # m
      <4>1. m \in 1 .. l - 1
        BY <1>1, <2>4, <3>2
      <4>2. ~Shared(i, ls, x, l)
        BY <1>7, <2>1, <4>1 DEF Shared
      <4> QED
        BY <4>2 DEF LeftAt
    <3> QED
      BY <3>1, <3>2
  <2>5. ASSUME NEW l \in 1 .. n, ~(l < m) PROVE ~LeftAt(i + 1, ls2, x, l)
    <3>1. ~(code[NtAxes[l]].end < i + 1)
      <4>1. /\ NtAxes[l] \in Nat /\ i <= NtAxes[l] /\ code[NtAxes[l]].end \in Nat
            /\ code[RtAt].end < code[NtAxes[l]].end
        BY <1>1, <1>7, <2>5, AxisEnds, NtAxesAre
      <4> QED
        BY <1>1, <2>0, <4>1, RealTime
    <3>2. ~(Open(code, i + 1, NtAxes[l]) /\ x[l] < ls2[l].index)
      <4>1. CASE l = m
        BY <2>2, <4>1
      <4>2. CASE l # m
        <5>1. i < NtAxes[l] /\ NtAxes[l] \in Nat
          BY <1>1, <1>7, <2>5, <4>2, NtAxesAre
        <5> QED
          BY <1>1, <5>1 DEF Open
      <4> QED
        BY <4>1, <4>2
    <3> QED
      BY <3>1, <3>2 DEF LeftAt
  <2>6. ~Taken(i + 1, ls2, ch2, FALSE)
    BY <1>1, <1>4, <2>0, RealTime DEF Taken
  <2>7. \A l \in 1 .. n : LeftAt(i + 1, ls2, x, l) <=> LeftAt(i, ls, x, l)
    BY <2>3, <2>4, <2>5
  <2>8. Left(i + 1, ls2, x) <=> Left(i, ls, x)
    BY <2>7, Zenon DEF Left
  <2>9. ~Taken(i, ls, ch, FALSE)
    BY <1>5, <2>6
  <2> QED
    BY <2>6, <2>8, <2>9, Zenon DEF Passed
<1> QED
  BY <1>6, <1>7

(* The end of an iteration of an axis: what has its index has been passed.  *)
PassedUpTo(i, ls, x, m) ==
  \/ \E l \in 1 .. m - 1 : LeftAt(i, ls, x, l)
  \/ Shared(i, ls, x, m) /\ x[m] <= ls[m].index

LEMMA IterationPassed ==
  ASSUME code \in Programs, NEW i \in DOMAIN code, NEW ls, Stack(code, i, ls),
         NEW m \in 1 .. Len(NtAxes), code[NtAxes[m]].end = i, NEW ch,
         NEW x, \A l \in 1 .. Len(NtAxes) : x[l] \in Nat
  PROVE  Passed(i, ls, ch, FALSE, x) <=> PassedUpTo(i, ls, x, m)
<1> DEFINE n == Len(NtAxes)
           a == NtAxes[m]
<1>1. /\ n \in Nat /\ i \in Nat /\ a \in Nat /\ a < i /\ RtAt \in Nat
      /\ code[RtAt].end < i /\ code[RtAt].end \in Nat
      /\ a \in DOMAIN code /\ code[a].op = "for"
  BY NtAxesAre, AxisEnds, RealTime, Structure
<1>2. Open(code, i, a)
  BY <1>1 DEF Open
<1>3. m \in 1 .. Len(ls) /\ ls[m].index \in Nat
  <2>1. m \in 1 .. Len(ls) /\ ls \in Seq(Entries)
    BY <1>2, AxisOnStack DEF Stack
  <2>2. ls[m] \in Entries
    BY <2>1
  <2> QED
    BY <2>1, <2>2 DEF Entries
<1>4. Taken(i, ls, ch, FALSE)
  BY <1>1 DEF Taken
\* What is inside of this axis is behind the walk.
<1>5. ASSUME NEW l \in 1 .. n, m < l PROVE code[NtAxes[l]].end < i
  BY <1>5, AxisEnds
<1>6. ASSUME NEW l \in 1 .. n + 1, m < l, Shared(i, ls, x, l)
      PROVE  Shared(i, ls, x, m) /\ x[m] = ls[m].index
  <2>1. \A k \in 1 .. m - 1 : k \in 1 .. l - 1
    BY <1>1, <1>6
  <2>2. m \in 1 .. l - 1
    BY <1>1, <1>6
  <2> QED
    BY <1>6, <2>1, <2>2 DEF Shared
<1>7. ASSUME Passed(i, ls, ch, FALSE, x) PROVE PassedUpTo(i, ls, x, m)
  <2>1. CASE Here(i, ls, x)
    <3>1. n + 1 \in 1 .. n + 1 /\ m < n + 1
      BY <1>1
    <3>2. Shared(i, ls, x, m) /\ x[m] = ls[m].index
      BY <1>6, <2>1, <3>1 DEF Here
    <3> QED
      BY <1>3, <3>2 DEF PassedUpTo
  <2>2. ASSUME NEW l \in 1 .. n, LeftAt(i, ls, x, l) PROVE PassedUpTo(i, ls, x, m)
    <3>1. CASE l < m
      <4>1. l \in 1 .. m - 1
        BY <1>1, <3>1
      <4> QED
        BY <2>2, <4>1 DEF PassedUpTo
    <3>2. CASE l = m
      <4>1. Shared(i, ls, x, m) /\ x[m] < ls[m].index
        BY <1>1, <2>2, <3>2 DEF LeftAt
      <4>2. x[m] <= ls[m].index
        BY <1>3, <4>1
      <4> QED
        BY <4>1, <4>2 DEF PassedUpTo
    <3>3. CASE m < l
      <4>1. l \in 1 .. n + 1 /\ Shared(i, ls, x, l)
        BY <1>1, <2>2 DEF LeftAt
      <4>2. Shared(i, ls, x, m) /\ x[m] = ls[m].index
        BY <1>6, <3>3, <4>1
      <4> QED
        BY <1>3, <4>2 DEF PassedUpTo
    <3> QED
      BY <3>1, <3>2, <3>3
  <2> QED
    BY <1>7, <2>1, <2>2 DEF Passed, Left
<1>8. ASSUME PassedUpTo(i, ls, x, m) PROVE Passed(i, ls, ch, FALSE, x)
  <2>1. CASE \E l \in 1 .. m - 1 : LeftAt(i, ls, x, l)
    <3>1. \A l \in 1 .. m - 1 : l \in 1 .. n
      BY <1>1
    <3> QED
      BY <2>1, <3>1 DEF Passed, Left
  <2>2. CASE Shared(i, ls, x, m) /\ x[m] < ls[m].index
    BY <1>2, <2>2 DEF Passed, Left, LeftAt
  <2>3. CASE Shared(i, ls, x, m) /\ x[m] = ls[m].index
    <3>1. Shared(i, ls, x, m + 1)
      <4> SUFFICES ASSUME NEW k \in 1 .. (m + 1) - 1
                   PROVE  Open(code, i, NtAxes[k]) /\ x[k] = ls[k].index
        BY DEF Shared
      <4>1. k = m \/ k \in 1 .. m - 1
        BY <1>1
      <4> QED
        BY <1>2, <2>3, <4>1 DEF Shared
    <3>2. CASE m = n
      BY <1>4, <3>1, <3>2 DEF Passed, Here
    <3>3. CASE m # n
      <4>1. m + 1 \in 1 .. n /\ m < m + 1
        BY <1>1, <3>3
      <4> QED
        BY <1>5, <3>1, <4>1 DEF Passed, Left, LeftAt
    <3> QED
      BY <3>2, <3>3
  <2>4. x[m] <= ls[m].index => x[m] < ls[m].index \/ x[m] = ls[m].index
    BY <1>3
  <2> QED
    BY <1>8, <2>1, <2>2, <2>3, <2>4 DEF PassedUpTo
<1> QED
  BY <1>7, <1>8

(* What the end of a loop finds on the stack.                               *)
LEMMA LoopAtEnd ==
  ASSUME code \in Programs, NEW i \in DOMAIN code, NEW ls, Stack(code, i, ls),
         code[i].op = "end"
  PROVE  LET j == ls[Len(ls)].at
         IN  /\ Len(ls) \in Nat \ {0} /\ i \in Nat
             /\ j \in DOMAIN code /\ code[j].op = "for" /\ j \in Nat /\ j < i
             /\ code[j].end = i /\ code[j].count \in Nat \ {0}
             /\ ls[Len(ls)].index \in Nat /\ ls[Len(ls)].index < code[j].count
             /\ code[RtAt].end # i
             /\ Chunked(ls) <=> code[j].kind = "pipeline"
<1> DEFINE j == ls[Len(ls)].at
<1>1. Len(ls) \in Nat \ {0} /\ code[j].end = i
  BY TopEnds
<1>2. Open(code, i, j) /\ ls[Len(ls)].index < code[j].count /\ ls \in Seq(Entries)
  BY <1>1 DEF Stack
<1>3. ls[Len(ls)] \in Entries
  BY <1>1, <1>2
<1>4. ls[Len(ls)].index \in Nat
  BY <1>3 DEF Entries
<1>5. j \in DOMAIN code /\ code[j].op = "for" /\ j < i
  BY <1>2 DEF Open
<1>6. j \in Nat /\ i \in Nat /\ code[j].count \in Nat \ {0}
  BY <1>5, Structure
<1>7. code[RtAt].end # i
  <2>1. RtAt \in DOMAIN code /\ code[RtAt].op = "rt"
    BY RealTime
  <2> QED
    BY <1>1, <1>5, <2>1, Structure
<1>8. ASSUME Chunked(ls) PROVE code[j].kind = "pipeline"
  <2>1. PICK k \in 1 .. Len(ls) : code[ls[k].at].kind = "pipeline"
    BY <1>8 DEF Chunked
  <2>2. k = Len(ls)
    BY <2>1, ChunkOpen
  <2> QED
    BY <2>1, <2>2
<1>9. ASSUME code[j].kind = "pipeline" PROVE Chunked(ls)
  <2>1. Len(ls) \in 1 .. Len(ls)
    BY <1>1
  <2> QED
    BY <1>9, <2>1 DEF Chunked
<1> QED
  BY <1>1, <1>2, <1>4, <1>5, <1>6, <1>7, <1>8, <1>9

(* Axes up to one that are open or ended alike.                             *)
SameUpTo(i, ls, i2, ls2, l) ==
  \A m \in 1 .. l :
    /\ Open(code, i2, NtAxes[m]) <=> Open(code, i, NtAxes[m])
    /\ code[NtAxes[m]].end < i2 <=> code[NtAxes[m]].end < i
    /\ Open(code, i, NtAxes[m]) => ls2[m].index = ls[m].index

LEMMA SameLeftAt ==
  ASSUME NEW i, NEW ls, NEW i2, NEW ls2, NEW x, NEW l \in Nat,
         SameUpTo(i, ls, i2, ls2, l)
  PROVE  /\ Shared(i2, ls2, x, l + 1) <=> Shared(i, ls, x, l + 1)
         /\ \A m \in 1 .. l : LeftAt(i2, ls2, x, m) <=> LeftAt(i, ls, x, m)
<1>1. ASSUME NEW m \in 1 .. l + 1
      PROVE  Shared(i2, ls2, x, m) <=> Shared(i, ls, x, m)
  <2>1. \A k \in 1 .. m - 1 : k \in 1 .. l
    OBVIOUS
  <2> QED
    BY <2>1 DEF Shared, SameUpTo
<1>2. ASSUME NEW m \in 1 .. l
      PROVE  LeftAt(i2, ls2, x, m) <=> LeftAt(i, ls, x, m)
  <2>1. m \in 1 .. l + 1
    OBVIOUS
  <2>2. Shared(i2, ls2, x, m) <=> Shared(i, ls, x, m)
    BY <1>1, <2>1
  <2> QED
    BY <2>2 DEF LeftAt, SameUpTo
<1>3. l + 1 \in 1 .. l + 1
  OBVIOUS
<1> QED
  BY <1>1, <1>2, <1>3

(* A loop is left: all its points have been passed.                         *)
LEMMA LeavePassed ==
  ASSUME code \in Programs, NEW i \in DOMAIN code, NEW ls, Stack(code, i, ls),
         code[i].op = "end", NEW ls2, Stack(code, i + 1, ls2),
         Len(ls2) = Len(ls) - 1, \A k \in 1 .. Len(ls2) : ls2[k] = ls[k],
         ls[Len(ls)].index + 1 >= code[ls[Len(ls)].at].count,
         NEW ch,
         NEW x, \A m \in 1 .. Len(NtAxes) : x[m] \in Nat /\ x[m] < code[NtAxes[m]].count
  PROVE  Passed(i + 1, ls2, ch, FALSE, x) <=> Passed(i, ls, ch, FALSE, x)
<1> DEFINE n == Len(NtAxes)
           j == ls[Len(ls)].at
<1>1. /\ Len(ls) \in Nat \ {0} /\ i \in Nat
      /\ j \in DOMAIN code /\ code[j].op = "for" /\ j \in Nat /\ j < i
      /\ code[j].end = i /\ code[j].count \in Nat \ {0}
      /\ ls[Len(ls)].index \in Nat /\ ls[Len(ls)].index < code[j].count
      /\ code[RtAt].end # i
      /\ Chunked(ls) <=> code[j].kind = "pipeline"
  BY LoopAtEnd
<1>2. n \in Nat /\ code[RtAt].end \in Nat
  BY NtAxesAre, RealTime
\* Loops but this one are as they were.
<1>3. ASSUME NEW l \in 1 .. n, NtAxes[l] # j
      PROVE  /\ Open(code, i + 1, NtAxes[l]) <=> Open(code, i, NtAxes[l])
             /\ code[NtAxes[l]].end < i + 1 <=> code[NtAxes[l]].end < i
             /\ Open(code, i, NtAxes[l]) => ls2[l].index = ls[l].index
  <2> DEFINE a == NtAxes[l]
  <2>1. a \in DOMAIN code /\ code[a].op = "for" /\ a \in Nat /\ code[a].end \in Nat
    BY AxisEnds
  <2>2. code[a].end # i /\ a # i
    BY <1>1, <1>3, <2>1, Structure
  <2>3. ASSUME Open(code, i, a) PROVE ls2[l].index = ls[l].index
    <3>1. l \in 1 .. Len(ls) /\ ls[l].at = a
      BY <2>3, AxisOnStack
    <3>2. l # Len(ls)
      BY <1>3, <3>1
    <3>3. l \in 1 .. Len(ls2)
      BY <1>1, <3>1, <3>2
    <3> QED
      BY <3>3
  <2> QED
    BY <1>1, <2>1, <2>2, <2>3 DEF Open
<1>4. CASE \A m \in 1 .. n : NtAxes[m] # j
  <2>1. SameAxes(i, ls, i + 1, ls2)
    BY <1>3, <1>4 DEF SameAxes
  <2>2. Left(i + 1, ls2, x) <=> Left(i, ls, x)
    BY <2>1, SameLeft
  <2>3. Here(i + 1, ls2, x) <=> Here(i, ls, x)
    BY <2>1, SameLeft
  <2>4. Chunked(ls2) => Chunked(ls)
    <3>1. \A k \in 1 .. Len(ls2) : k \in 1 .. Len(ls)
      BY <1>1
    <3> QED
      BY <3>1 DEF Chunked
  <2>5. Chunked(ls) => code[RtAt].end < i
    BY <1>1, <1>2, ChunkLoop
  <2>6. Taken(i + 1, ls2, ch, FALSE) <=> Taken(i, ls, ch, FALSE)
    BY <1>1, <1>2, <2>4, <2>5 DEF Taken
  <2> QED
    BY <2>2, <2>3, <2>6, Zenon DEF Passed
<1>5. ASSUME NEW m \in 1 .. n, NtAxes[m] = j
      PROVE  Passed(i + 1, ls2, ch, FALSE, x) <=> Passed(i, ls, ch, FALSE, x)
  <2>1. Passed(i, ls, ch, FALSE, x) <=> PassedUpTo(i, ls, x, m)
    <3>1. code[NtAxes[m]].end = i
      BY <1>1, <1>5
    <3>2. \A l \in 1 .. Len(NtAxes) : x[l] \in Nat
      OBVIOUS
    <3> QED
      BY <3>1, <3>2, IterationPassed
  <2>2. ~Open(code, i + 1, j) /\ Open(code, i, j)
    BY <1>1 DEF Open
  <2>3. m = Len(ls)
    <3>1. m \in 1 .. Len(ls) /\ ls[m].at = j
      BY <1>5, <2>2, AxisOnStack
    <3>2. Len(ls) \in 1 .. Len(ls)
      BY <1>1
    <3>3. m < Len(ls) => ls[m].at < j
      BY <3>1, <3>2 DEF Stack
    <3> QED
      BY <1>1, <3>1, <3>3
  <2>4. x[m] <= ls[m].index
    BY <1>1, <1>5, <2>3
  <2>5. SameUpTo(i, ls, i + 1, ls2, m - 1)
    <3>1. \A l \in 1 .. m - 1 : l \in 1 .. n /\ NtAxes[l] # j
      <4> SUFFICES ASSUME NEW l \in 1 .. m - 1 PROVE l \in 1 .. n /\ NtAxes[l] # j
        OBVIOUS
      <4>1. l \in 1 .. n /\ l < m
        BY <1>2
      <4> QED
        BY <1>1, <1>5, <4>1, NtAxesAre
    <3> QED
      BY <1>3, <3>1 DEF SameUpTo
  <2>6. m - 1 \in Nat /\ (m - 1) + 1 = m
    BY <1>2
  <2>7. /\ Shared(i + 1, ls2, x, m) <=> Shared(i, ls, x, m)
        /\ \A l \in 1 .. m - 1 : LeftAt(i + 1, ls2, x, l) <=> LeftAt(i, ls, x, l)
    <3>1. /\ Shared(i + 1, ls2, x, (m - 1) + 1) <=> Shared(i, ls, x, (m - 1) + 1)
          /\ \A l \in 1 .. m - 1 : LeftAt(i + 1, ls2, x, l) <=> LeftAt(i, ls, x, l)
      BY <2>5, <2>6, SameLeftAt
    <3> QED
      BY <2>6, <3>1
  <2>8. LeftAt(i + 1, ls2, x, m) <=> Shared(i, ls, x, m)
    BY <1>1, <1>5, <2>7 DEF LeftAt
  <2>9. ASSUME NEW l \in 1 .. n + 1, m < l PROVE ~Shared(i + 1, ls2, x, l)
    <3>1. m \in 1 .. l - 1
      BY <1>2, <2>9
    <3> QED
      BY <1>5, <2>2, <3>1 DEF Shared
  <2>10. ~Here(i + 1, ls2, x)
    <3>1. n + 1 \in 1 .. n + 1 /\ m < n + 1
      BY <1>2
    <3> QED
      BY <2>9, <3>1 DEF Here
  <2>11. Left(i + 1, ls2, x) <=> PassedUpTo(i, ls, x, m)
    <3>1. ASSUME NEW l \in 1 .. n, LeftAt(i + 1, ls2, x, l) PROVE PassedUpTo(i, ls, x, m)
      <4>1. CASE l < m
        <5>1. l \in 1 .. m - 1
          BY <1>2, <4>1
        <5> QED
          BY <2>7, <3>1, <5>1 DEF PassedUpTo
      <4>2. CASE l = m
        BY <2>4, <2>8, <3>1, <4>2 DEF PassedUpTo
      <4>3. CASE m < l
        <5>1. l \in 1 .. n + 1 /\ Shared(i + 1, ls2, x, l)
          BY <1>2, <3>1 DEF LeftAt
        <5> QED
          BY <2>9, <4>3, <5>1
      <4> QED
        BY <4>1, <4>2, <4>3
    <3>2. ASSUME PassedUpTo(i, ls, x, m) PROVE Left(i + 1, ls2, x)
      <4>1. \A l \in 1 .. m - 1 : l \in 1 .. n
        BY <1>2
      <4> QED
        BY <2>7, <2>8, <3>2, <4>1 DEF PassedUpTo, Left
    <3> QED
      BY <3>1, <3>2 DEF Left
  <2> QED
    BY <2>1, <2>10, <2>11, Zenon DEF Passed
<1> QED
  BY <1>4, <1>5

(* The next iteration of a loop: the index it had has been passed.          *)
LEMMA NextPassed ==
  ASSUME code \in Programs, NEW i \in DOMAIN code, NEW ls, Stack(code, i, ls),
         code[i].op = "end",
         NEW i2, i2 = ls[Len(ls)].at + 1, NEW ls2, Stack(code, i2, ls2),
         Len(ls2) = Len(ls), \A k \in 1 .. Len(ls) - 1 : ls2[k] = ls[k],
         ls2[Len(ls)].at = ls[Len(ls)].at,
         ls2[Len(ls)].index = ls[Len(ls)].index + 1,
         NEW ch, NEW ch2,
         ch2 = IF code[ls[Len(ls)].at].kind = "pipeline"
               THEN ls[Len(ls)].index + 1 ELSE ch,
         NEW x, \A m \in 1 .. Len(NtAxes) : x[m] \in Nat
  PROVE  Passed(i2, ls2, ch2, FALSE, x) <=> Passed(i, ls, ch, FALSE, x)
<1> DEFINE j == ls[Len(ls)].at
<1>0. /\ i2 = j + 1 /\ Stack(code, j + 1, ls2) /\ ls2[Len(ls)].at = j
      /\ ch2 = IF code[j].kind = "pipeline" THEN ls[Len(ls)].index + 1 ELSE ch
  OBVIOUS
<1> SUFFICES Passed(j + 1, ls2, ch2, FALSE, x) <=> Passed(i, ls, ch, FALSE, x)
  OBVIOUS
<1> DEFINE n == Len(NtAxes)
<1>1. /\ Len(ls) \in Nat \ {0} /\ i \in Nat
      /\ j \in DOMAIN code /\ code[j].op = "for" /\ j \in Nat /\ j < i
      /\ code[j].end = i /\ code[j].count \in Nat \ {0}
      /\ ls[Len(ls)].index \in Nat /\ ls[Len(ls)].index < code[j].count
      /\ code[RtAt].end # i
      /\ Chunked(ls) <=> code[j].kind = "pipeline"
  BY LoopAtEnd
<1>2. n \in Nat /\ code[RtAt].end \in Nat /\ RtAt \in Nat /\ RtAt < code[RtAt].end
      /\ RtAt \in DOMAIN code /\ code[RtAt].op = "rt"
  BY NtAxesAre, RealTime
<1>3. Chunked(ls2) <=> Chunked(ls)
  <2>1. \A k \in 1 .. Len(ls) : ls2[k].at = ls[k].at
    <3> SUFFICES ASSUME NEW k \in 1 .. Len(ls) PROVE ls2[k].at = ls[k].at
      OBVIOUS
    <3>1. k = Len(ls) \/ k \in 1 .. Len(ls) - 1
      BY <1>1
    <3> QED
      BY <3>1
  <2> QED
    BY <2>1 DEF Chunked
\* Loops around this one are as they were.
<1>4. ASSUME NEW l \in 1 .. n, NtAxes[l] < j, j < code[NtAxes[l]].end
      PROVE  /\ Open(code, j + 1, NtAxes[l]) /\ Open(code, i, NtAxes[l])
             /\ ~(code[NtAxes[l]].end < j + 1) /\ ~(code[NtAxes[l]].end < i)
             /\ ls2[l].index = ls[l].index
  <2> DEFINE a == NtAxes[l]
  <2>1. a \in DOMAIN code /\ code[a].op = "for" /\ a \in Nat /\ code[a].end \in Nat
    BY AxisEnds
  <2>2. i < code[a].end
    BY <1>1, <1>4, <2>1, Structure
  <2>3. Open(code, j + 1, a) /\ Open(code, i, a)
    BY <1>1, <1>4, <2>1, <2>2 DEF Open
  <2>4. ls2[l].index = ls[l].index
    <3>1. l \in 1 .. Len(ls) /\ ls[l].at = a
      BY <2>3, AxisOnStack
    <3>2. l # Len(ls)
      BY <1>1, <1>4, <3>1, <2>1
    <3>3. l \in 1 .. Len(ls) - 1
      BY <1>1, <3>1, <3>2
    <3> QED
      BY <3>3
  <2> QED
    BY <1>1, <1>4, <2>1, <2>2, <2>3, <2>4
<1>5. CASE code[j].kind = "pipeline"
  <2>1. RtAt = j + 1 /\ i = code[RtAt].end + 1
    BY <1>1, <1>5, ChunkLoop
  <2>2. SameAxes(i, ls, j + 1, ls2)
    <3> SUFFICES ASSUME NEW l \in 1 .. n
                 PROVE  NtAxes[l] < j /\ j < code[NtAxes[l]].end
      BY <1>4 DEF SameAxes
    <3>1. /\ NtAxes[l] \in DOMAIN code /\ NtAxes[l] \in Nat /\ code[NtAxes[l]].end \in Nat
          /\ code[NtAxes[l]].kind # "pipeline"
          /\ NtAxes[l] < RtAt /\ code[RtAt].end < code[NtAxes[l]].end
      BY AxisEnds
    <3>2. NtAxes[l] # j
      BY <1>5, <3>1
    <3> QED
      BY <1>1, <1>2, <2>1, <3>1, <3>2
  <2>3. Left(j + 1, ls2, x) <=> Left(i, ls, x)
    BY <2>2, SameLeft
  <2>4. Here(j + 1, ls2, x) <=> Here(i, ls, x)
    BY <2>2, SameLeft
  <2>5. Taken(i, ls, ch, FALSE)
    BY <1>2, <2>1 DEF Taken
  <2>6. Taken(j + 1, ls2, ch2, FALSE)
    <3>1. ch2 > 0
      BY <1>1, <1>5
    <3> QED
      BY <1>1, <1>3, <1>5, <3>1 DEF Taken
  <2> QED
    BY <2>3, <2>4, <2>5, <2>6, Zenon DEF Passed
<1>6. CASE code[j].kind # "pipeline" /\ \A m \in 1 .. n : NtAxes[m] # j
  <2>1. ~(j < RtAt /\ RtAt < code[j].end)
    <3> SUFFICES ASSUME j < RtAt, RtAt < code[j].end PROVE FALSE
      OBVIOUS
    <3>1. IsAxis(j)
      BY <1>1, <1>6 DEF IsAxis
    <3> QED
      BY <1>6, <3>1, NtAxesAre
  <2>2. code[RtAt].end < j + 1 <=> code[RtAt].end < i
    <3>1. ~(RtAt < i /\ i <= code[RtAt].end)
      BY <1>2 DEF Stack
    <3>2. RtAt # j /\ RtAt # i
      BY <1>1, <1>2
    <3>3. RtAt < j => code[RtAt].end < i
      BY <1>1, <1>2, <3>1
    <3>4. RtAt < j => code[RtAt].end < j
      <4> SUFFICES ASSUME RtAt < j, ~(code[RtAt].end < j) PROVE FALSE
        OBVIOUS
      <4>1. code[RtAt].end # j
        BY <1>1, <1>2, Structure
      <4>2. code[j].end < code[RtAt].end
        BY <1>1, <1>2, <4>1, Structure
      <4> QED
        BY <1>1, <1>2, <3>3, <4>2
    <3> QED
      BY <1>1, <1>2, <2>1, <3>2, <3>3, <3>4
  <2>3. SameAxes(i, ls, j + 1, ls2)
    <3> SUFFICES ASSUME NEW l \in 1 .. n
                 PROVE  /\ Open(code, j + 1, NtAxes[l]) <=> Open(code, i, NtAxes[l])
                        /\ code[NtAxes[l]].end < j + 1 <=> code[NtAxes[l]].end < i
                        /\ Open(code, i, NtAxes[l]) => ls2[l].index = ls[l].index
      BY DEF SameAxes
    <3> DEFINE a == NtAxes[l]
    <3>1. /\ a \in DOMAIN code /\ code[a].op = "for" /\ a \in Nat /\ code[a].end \in Nat
          /\ a < RtAt /\ code[RtAt].end < code[a].end /\ code[code[a].end].op = "end"
      BY AxisEnds
    <3>2. a # j /\ a # i /\ code[a].end # j
      BY <1>1, <1>6, <3>1, Structure
    <3>3. CASE a < j
      <4>1. CASE j < code[a].end
        BY <1>4, <3>3, <4>1
      <4>2. CASE ~(j < code[a].end)
        <5>1. code[a].end < j
          BY <1>1, <3>1, <3>2, <4>2
        <5> QED
          BY <1>1, <3>1, <5>1 DEF Open
      <4> QED
        BY <4>1, <4>2
    <3>4. CASE j < a
      <4>1. ~(a < i)
        <5> SUFFICES ASSUME a < i PROVE FALSE
          OBVIOUS
        <5>1. code[a].end < i
          BY <1>1, <3>1, <3>4, Structure
        <5> QED
          BY <1>1, <1>2, <2>1, <3>1, <3>4, <5>1
      <4>2. i < a /\ a < code[a].end
        BY <1>1, <3>1, <3>2, <4>1, Structure
      <4> QED
        BY <1>1, <3>1, <3>4, <4>2 DEF Open
    <3> QED
      BY <1>1, <3>1, <3>2, <3>3, <3>4
  <2>4. Left(j + 1, ls2, x) <=> Left(i, ls, x)
    BY <2>3, SameLeft
  <2>5. Here(j + 1, ls2, x) <=> Here(i, ls, x)
    BY <2>3, SameLeft
  <2>6. Taken(j + 1, ls2, ch2, FALSE) <=> Taken(i, ls, ch, FALSE)
    BY <1>1, <1>3, <1>6, <2>2 DEF Taken
  <2> QED
    BY <2>4, <2>5, <2>6, Zenon DEF Passed
<1>7. ASSUME NEW m \in 1 .. n, NtAxes[m] = j
      PROVE  Passed(j + 1, ls2, ch2, FALSE, x) <=> Passed(i, ls, ch, FALSE, x)
  <2>1. Passed(i, ls, ch, FALSE, x) <=> PassedUpTo(i, ls, x, m)
    <3>1. code[NtAxes[m]].end = i
      BY <1>1, <1>7
    <3> QED
      BY <3>1, IterationPassed
  <2>2. Open(code, j + 1, j) /\ ~(code[j].end < j + 1) /\ j < RtAt
        /\ code[j].kind # "pipeline"
    BY <1>1, <1>7, AxisEnds DEF Open
  <2>3. m = Len(ls)
    <3>1. m \in 1 .. Len(ls2) /\ ls2[m].at = j
      BY <1>7, <2>2, AxisOnStack
    <3>2. Len(ls) \in 1 .. Len(ls2)
      BY <1>1
    <3>3. m < Len(ls) => ls2[m].at < j
      BY <3>1, <3>2 DEF Stack
    <3> QED
      BY <1>1, <3>1, <3>3
  <2>4. x[m] < ls2[m].index <=> x[m] <= ls[m].index
    BY <1>1, <2>3
  <2>5. SameUpTo(i, ls, j + 1, ls2, m - 1)
    <3> SUFFICES ASSUME NEW l \in 1 .. m - 1
                 PROVE  l \in 1 .. n /\ NtAxes[l] < j /\ j < code[NtAxes[l]].end
      BY <1>4 DEF SameUpTo
    <3>1. l \in 1 .. n /\ l < m
      BY <1>2
    <3>2. NtAxes[l] < j /\ code[j].end < code[NtAxes[l]].end
      BY <1>7, <3>1, AxisEnds
    <3>3. code[NtAxes[l]].end \in Nat
      BY <3>1, AxisEnds
    <3> QED
      BY <1>1, <3>1, <3>2, <3>3
  <2>6. m - 1 \in Nat /\ (m - 1) + 1 = m
    BY <1>2
  <2>7. /\ Shared(j + 1, ls2, x, m) <=> Shared(i, ls, x, m)
        /\ \A l \in 1 .. m - 1 : LeftAt(j + 1, ls2, x, l) <=> LeftAt(i, ls, x, l)
    <3> DEFINE q == m - 1
    <3>1. q \in Nat /\ q + 1 = m /\ SameUpTo(i, ls, j + 1, ls2, q)
      BY <2>5, <2>6
    <3> HIDE DEF q
    <3>2. Shared(j + 1, ls2, x, q + 1) <=> Shared(i, ls, x, q + 1)
      BY <3>1, SameLeftAt
    <3>3. \A l \in 1 .. q : LeftAt(j + 1, ls2, x, l) <=> LeftAt(i, ls, x, l)
      BY <3>1, SameLeftAt
    <3> QED
      BY <3>1, <3>2, <3>3 DEF q
  <2>8. LeftAt(j + 1, ls2, x, m) <=> (Shared(i, ls, x, m) /\ x[m] <= ls[m].index)
    BY <1>7, <2>2, <2>4, <2>7 DEF LeftAt
\* The axes in this one are ahead.
  <2>9. ASSUME NEW l \in 1 .. n, m < l PROVE ~LeftAt(j + 1, ls2, x, l)
    <3>1. NtAxes[l] \in Nat /\ j < NtAxes[l] /\ code[NtAxes[l]].end \in Nat
      BY <1>2, <1>7, <2>9, NtAxesAre, AxisEnds
    <3>2. code[RtAt].end < code[NtAxes[l]].end
      BY AxisEnds
    <3>3. ~(code[NtAxes[l]].end < j + 1)
      <4>1. j \in Nat /\ RtAt \in Nat /\ code[RtAt].end \in Nat
        BY <1>1, <1>2
      <4>2. j < RtAt /\ RtAt < code[RtAt].end
        BY <1>2, <2>2
      <4> QED
        BY <3>1, <3>2, <4>1, <4>2
    <3>4. ~Open(code, j + 1, NtAxes[l])
      BY <1>1, <3>1 DEF Open
    <3> QED
      BY <3>3, <3>4 DEF LeftAt
  <2>10. ~Taken(j + 1, ls2, ch2, FALSE)
    BY <1>1, <1>2, <1>3, <2>2 DEF Taken
  <2>11. Left(j + 1, ls2, x) <=> PassedUpTo(i, ls, x, m)
    <3>1. ASSUME NEW l \in 1 .. n, LeftAt(j + 1, ls2, x, l) PROVE PassedUpTo(i, ls, x, m)
      <4>1. CASE l < m
        <5>1. l \in 1 .. m - 1
          BY <1>2, <4>1
        <5> QED
          BY <2>7, <3>1, <5>1 DEF PassedUpTo
      <4>2. CASE l = m
        BY <2>8, <3>1, <4>2 DEF PassedUpTo
      <4>3. CASE m < l
        BY <2>9, <3>1, <4>3
      <4> QED
        BY <4>1, <4>2, <4>3
    <3>2. ASSUME PassedUpTo(i, ls, x, m) PROVE Left(j + 1, ls2, x)
      <4>1. \A l \in 1 .. m - 1 : l \in 1 .. n
        BY <1>2
      <4> QED
        BY <2>7, <2>8, <3>2, <4>1 DEF PassedUpTo, Left
    <3> QED
      BY <3>1, <3>2 DEF Left
  <2> QED
    BY <2>1, <2>10, <2>11, Zenon DEF Passed
<1> QED
  BY <1>5, <1>6, <1>7

(* The indices of the near-time loops are those on the stack.               *)
Matching(ix, ch, ls) ==
  /\ ix \in Seq(Nat)
  /\ Len(ix) = IF Chunked(ls) THEN Len(ls) - 1 ELSE Len(ls)
  /\ \A k \in 1 .. Len(ix) : code[ls[k].at].kind # "pipeline" /\ ix[k] = ls[k].index
  /\ ch \in Nat
  /\ \A k \in 1 .. Len(ls) : code[ls[k].at].kind = "pipeline" => ch = ls[k].index
  /\ ch > 0 => \E j \in DOMAIN code : code[j].op = "for" /\ code[j].kind = "pipeline"
Matched == Matching(indices, chunk, loops)

\* A loop is put on top of loops that all have an index.
LEMMA PushMatches ==
  ASSUME NEW ls \in Seq(Entries), NEW outer \in Seq(Nat), Len(outer) = Len(ls),
         \A k \in 1 .. Len(ls) : code[ls[k].at].kind # "pipeline" /\ outer[k] = ls[k].index,
         NEW l \in Entries, l.at \in DOMAIN code, code[l.at].op = "for",
         NEW ch \in Nat,
         ch > 0 => \E j \in DOMAIN code : code[j].op = "for" /\ code[j].kind = "pipeline",
         NEW ix, NEW ch2,
         IF Indexed(l) THEN ix = Append(outer, l.index) /\ ch2 = ch
                       ELSE ix = outer /\ ch2 = l.index
  PROVE  Matching(ix, ch2, Append(ls, l))
<1> DEFINE new == Append(ls, l)
<1>1. /\ Len(new) = Len(ls) + 1 /\ Len(ls) \in Nat
      /\ \A k \in 1 .. Len(ls) : new[k] = ls[k]
      /\ new[Len(ls) + 1] = l
  BY AppendOf
<1> HIDE DEF new
<1>2. l.index \in Nat
  BY DEF Entries
<1>3. \A k \in 1 .. Len(new) : k = Len(ls) + 1 \/ k \in 1 .. Len(ls)
  BY <1>1
<1>4. CASE code[l.at].kind = "pipeline"
  <2>1. ix = outer /\ ch2 = l.index
    BY <1>4 DEF Indexed
  <2>2. Len(ls) + 1 \in 1 .. Len(new)
    BY <1>1
  <2>3. Chunked(new)
    BY <1>1, <1>4, <2>2 DEF Chunked
  <2>4. \A k \in 1 .. Len(new) : code[new[k].at].kind = "pipeline" => ch2 = new[k].index
    BY <1>1, <1>3, <2>1
  <2>5. Len(ix) = Len(new) - 1
    BY <1>1, <2>1
  <2>6. \A k \in 1 .. Len(ix) : code[new[k].at].kind # "pipeline" /\ ix[k] = new[k].index
    BY <1>1, <2>1
  <2> QED
    BY <1>2, <1>4, <2>1, <2>3, <2>4, <2>5, <2>6 DEF Matching, new
<1>5. CASE code[l.at].kind # "pipeline"
  <2>1. ix = Append(outer, l.index) /\ ch2 = ch
    BY <1>5 DEF Indexed
  <2>2. /\ ix \in Seq(Nat) /\ Len(ix) = Len(outer) + 1
        /\ \A k \in 1 .. Len(outer) : ix[k] = outer[k]
        /\ ix[Len(outer) + 1] = l.index
    BY <1>2, <2>1, AppendOf
  <2>3. \A k \in 1 .. Len(new) : code[new[k].at].kind # "pipeline"
    BY <1>1, <1>3, <1>5
  <2>4. ~Chunked(new) /\ Len(ix) = Len(new)
    BY <1>1, <2>2, <2>3 DEF Chunked
  <2>5. \A k \in 1 .. Len(ix) : ix[k] = new[k].index
    BY <1>1, <1>3, <2>2, <2>4
  <2> QED
    BY <2>1, <2>2, <2>3, <2>4, <2>5 DEF Matching, new
<1> QED
  BY <1>4, <1>5

\* At the beginning of a loop no loop over chunks is open.
LEMMA NoChunkOpen ==
  ASSUME code \in Programs, NEW i \in DOMAIN code, NEW ls, Stack(code, i, ls),
         code[i].op = "for"
  PROVE  \A k \in 1 .. Len(ls) : code[ls[k].at].kind # "pipeline"
<1> SUFFICES ASSUME NEW k \in 1 .. Len(ls), code[ls[k].at].kind = "pipeline"
             PROVE  FALSE
  OBVIOUS
<1>1. i = RtAt \/ i = code[RtAt].end + 1
  BY ChunkOpen
<1>2. code[ls[k].at].end = code[RtAt].end + 1
  BY ChunkOpen
<1>3. code[code[ls[k].at].end].op = "end"
  BY Structure DEF Stack, Open
<1> QED
  BY <1>1, <1>2, <1>3, RealTime

LEMMA InitMatches ==
  Init => Matched
<1> SUFFICES ASSUME Init PROVE Matched
  OBVIOUS
<1>1. loops = << >> /\ indices = << >> /\ chunk = 0
  BY DEF Init
<1>2. ~Chunked(loops)
  BY <1>1 DEF Chunked
<1> QED
  BY <1>1, <1>2 DEF Matched, Matching

\* What is left of the indices when the innermost loop is taken away.
LEMMA ExitMatches ==
  ASSUME Walking, Matched, at \in DOMAIN code, code[at].op = "end"
  PROVE  /\ Exited \in Seq(Nat) /\ Len(Exited) = Len(loops) - 1
         /\ Front(loops) \in Seq(Entries) /\ Len(Front(loops)) = Len(loops) - 1
         /\ \A k \in 1 .. Len(Front(loops)) :
              /\ code[Front(loops)[k].at].kind # "pipeline"
              /\ Exited[k] = Front(loops)[k].index
<1>1. code \in Programs /\ Stack(code, at, loops)
  BY DEF Walking
<1>2. /\ Len(loops) \in Nat \ {0}
      /\ Chunked(loops) <=> code[loops[Len(loops)].at].kind = "pipeline"
  BY <1>1, LoopAtEnd
<1>3. loops \in Seq(Entries) /\ loops # << >>
  BY <1>1, <1>2 DEF Stack
<1>4. /\ Front(loops) \in Seq(Entries) /\ Len(Front(loops)) = Len(loops) - 1
      /\ \A k \in 1 .. Len(loops) - 1 : Front(loops)[k] = loops[k]
      /\ Last(loops) = loops[Len(loops)]
  BY <1>3, FrontOf
<1>5. /\ indices \in Seq(Nat)
      /\ Len(indices) = IF Chunked(loops) THEN Len(loops) - 1 ELSE Len(loops)
      /\ \A k \in 1 .. Len(indices) :
           code[loops[k].at].kind # "pipeline" /\ indices[k] = loops[k].index
  BY DEF Matched, Matching
<1>6. /\ Exited \in Seq(Nat) /\ Len(Exited) = Len(loops) - 1
      /\ \A k \in 1 .. Len(loops) - 1 : Exited[k] = indices[k]
  <2>1. CASE Chunked(loops)
    BY <1>2, <1>4, <1>5, <2>1 DEF Exited, Indexed
  <2>2. CASE ~Chunked(loops)
    <3>1. Len(indices) = Len(loops) /\ indices # << >>
      BY <1>2, <1>5, <2>2
    <3>2. /\ Front(indices) \in Seq(Nat) /\ Len(Front(indices)) = Len(indices) - 1
          /\ \A k \in 1 .. Len(indices) - 1 : Front(indices)[k] = indices[k]
      BY <1>5, <3>1, FrontOf
    <3>3. Exited = Front(indices)
      BY <1>2, <1>4, <2>2 DEF Exited, Indexed
    <3> QED
      BY <3>1, <3>2, <3>3
  <2> QED
    BY <2>1, <2>2
<1>7. \A k \in 1 .. Len(loops) - 1 : k \in 1 .. Len(indices)
  BY <1>2, <1>5
<1> QED
  BY <1>4, <1>5, <1>6, <1>7

LEMMA StepMatches ==
  Walking /\ Matched /\ [Next]_vars => Matched'
<1> SUFFICES ASSUME Walking, Matched, [Next]_vars PROVE Matched'
  OBVIOUS
<1>1. code' = code
  BY SameCode
<1>2. code \in Programs /\ Stack(code, at, loops) /\ loops \in Seq(Entries)
  BY DEF Walking, Stack
<1>3. SUFFICES Matching(indices', chunk', loops')
  BY <1>1 DEF Matched, Matching, Chunked
<1>4. /\ indices \in Seq(Nat) /\ chunk \in Nat
      /\ chunk > 0 => \E j \in DOMAIN code : code[j].op = "for" /\ code[j].kind = "pipeline"
  BY DEF Matched, Matching
<1>5. CASE EnterLoop
  <2> DEFINE l == [at |-> at, index |-> 0]
  <2>1. /\ at \in DOMAIN code /\ code[at].op = "for"
        /\ loops' = Append(loops, l)
        /\ IF Indexed(l) THEN indices' = Append(indices, l.index) /\ chunk' = chunk
                         ELSE indices' = indices /\ chunk' = l.index
    BY <1>5 DEF EnterLoop, Statement, Entered
  <2>2. l \in Entries /\ l.at = at
    BY <1>2, <2>1, Structure DEF Entries
  <2> HIDE DEF l
  <2>3. \A k \in 1 .. Len(loops) : code[loops[k].at].kind # "pipeline"
    BY <1>2, <2>1, NoChunkOpen
  <2>4. Len(indices) = Len(loops) /\ \A k \in 1 .. Len(loops) : indices[k] = loops[k].index
    <3>1. ~Chunked(loops)
      BY <2>3 DEF Chunked
    <3> QED
      BY <3>1 DEF Matched, Matching
  <2>5. \A k \in 1 .. Len(loops) :
          code[loops[k].at].kind # "pipeline" /\ indices[k] = loops[k].index
    BY <2>3, <2>4
  <2>6. l.at \in DOMAIN code /\ code[l.at].op = "for"
    BY <2>1, <2>2
  <2>7. Matching(indices', chunk', Append(loops, l))
    BY <1>2, <1>4, <2>1, <2>2, <2>4, <2>5, <2>6, PushMatches
  <2> QED
    BY <2>1, <2>7
<1>6. CASE LoopEnds
  <2> DEFINE l == [Last(loops) EXCEPT !.index = @ + 1]
  <2>1. at \in DOMAIN code /\ code[at].op = "end"
    BY <1>6 DEF LoopEnds, Statement
  <2>2. /\ Exited \in Seq(Nat) /\ Len(Exited) = Len(loops) - 1
        /\ Front(loops) \in Seq(Entries) /\ Len(Front(loops)) = Len(loops) - 1
        /\ \A k \in 1 .. Len(Front(loops)) :
             /\ code[Front(loops)[k].at].kind # "pipeline"
             /\ Exited[k] = Front(loops)[k].index
    BY <2>1, ExitMatches
  <2>3. CASE l.index < code[l.at].count
    <3>1. /\ loops' = Append(Front(loops), l)
          /\ IF Indexed(l) THEN indices' = Append(Exited, l.index) /\ chunk' = chunk
                           ELSE indices' = Exited /\ chunk' = l.index
      BY <1>6, <2>3 DEF LoopEnds, Entered
    <3>2. l \in Entries /\ l.at \in DOMAIN code /\ code[l.at].op = "for"
      <4>1. loops # << >> /\ Len(loops) \in Nat \ {0}
        BY <1>2, <2>1, TopEnds
      <4>2. Last(loops) \in Entries /\ Last(loops) = loops[Len(loops)]
        BY <1>2, <4>1, FrontOf
      <4>3. l \in Entries /\ l.at = Last(loops).at
        BY <4>2 DEF Entries
      <4>4. Open(code, at, loops[Len(loops)].at)
        BY <4>1 DEF Walking, Stack
      <4> QED
        BY <4>2, <4>3, <4>4 DEF Open
    <3> HIDE DEF l
    <3>3. Len(Exited) = Len(Front(loops))
      BY <2>2
    <3> DEFINE outer == Exited
               ls == Front(loops)
    <3>4. /\ ls \in Seq(Entries) /\ outer \in Seq(Nat) /\ Len(outer) = Len(ls)
          /\ \A k \in 1 .. Len(ls) :
               code[ls[k].at].kind # "pipeline" /\ outer[k] = ls[k].index
          /\ IF Indexed(l) THEN indices' = Append(outer, l.index) /\ chunk' = chunk
                           ELSE indices' = outer /\ chunk' = l.index
      BY <2>2, <3>1, <3>3
    <3> HIDE DEF outer, ls
    <3>5. Matching(indices', chunk', Append(ls, l))
      BY <1>4, <3>2, <3>4, PushMatches
    <3> QED
      BY <3>1, <3>5 DEF ls
  <2>4. CASE ~(l.index < code[l.at].count)
    <3>1. loops' = Front(loops) /\ indices' = Exited /\ chunk' = chunk
      BY <1>6, <2>4 DEF LoopEnds
    <3>2. ~Chunked(loops')
      BY <2>2, <3>1 DEF Chunked
    <3>3. Len(indices') = Len(loops')
      BY <2>2, <3>1
    <3>4. \A k \in 1 .. Len(loops') :
            code[loops'[k].at].kind # "pipeline" /\ indices'[k] = loops'[k].index
      BY <2>2, <3>1
    <3> QED
      BY <1>4, <2>2, <3>1, <3>2, <3>3, <3>4 DEF Matching
  <2> QED
    BY <2>3, <2>4
<1>7. CASE ~EnterLoop /\ ~LoopEnds
  <2>1. indices' = indices /\ chunk' = chunk /\ loops' = loops
    BY <1>7 DEF Next, vars, walker, SetParam, SetNode, ReplacePulse, Callback,
       SkipChunk, PrepareStep, StepRaises, StepExecuted, ReadAwg, ReadRaises, StepIsRead,
       AttemptFails, Finish
  <2> QED
    BY <2>1 DEF Matched
<1> QED
  BY <1>5, <1>6, <1>7

(* The points of the near-time loops.                                       *)
LEMMA StepsAre ==
  ASSUME code \in Programs
  PROVE  /\ \A x \in NtSteps : DOMAIN x = 1 .. Len(NtAxes)
         /\ \A x \in NtSteps : \A m \in 1 .. Len(NtAxes) :
              x[m] \in Nat /\ x[m] < code[NtAxes[m]].count
         /\ \A x, y \in NtSteps : (\A m \in 1 .. Len(NtAxes) : x[m] = y[m]) => x = y
         /\ \A x \in Seq(Nat) :
              /\ Len(x) = Len(NtAxes)
              /\ \A m \in 1 .. Len(NtAxes) : x[m] < code[NtAxes[m]].count
              => x \in NtSteps
<1> DEFINE range == UNION {0 .. code[NtAxes[k]].count - 1 : k \in DOMAIN NtAxes}
<1>1. DOMAIN NtAxes = 1 .. Len(NtAxes)
  BY NtAxesAre
<1>2. ASSUME NEW m \in 1 .. Len(NtAxes) PROVE code[NtAxes[m]].count \in Nat \ {0}
  <2>1. NtAxes[m] \in DOMAIN code /\ code[NtAxes[m]].op = "for"
    BY AxisEnds
  <2> QED
    BY <2>1, Structure
<1>3. \A x : x \in NtSteps <=> /\ x \in [1 .. Len(NtAxes) -> range]
                               /\ \A k \in 1 .. Len(NtAxes) : x[k] < code[NtAxes[k]].count
  <2> DEFINE dims == [k \in DOMAIN NtAxes |-> code[NtAxes[k]].count]
             D == DOMAIN NtAxes
  <2>1. DOMAIN dims = D /\ \A k \in D : dims[k] = code[NtAxes[k]].count
    OBVIOUS
  <2>2. NtSteps = Tuples(dims)
    BY DEF NtSteps, Indices
  <2> HIDE DEF dims
  <2>3. {0 .. dims[k] - 1 : k \in D} = {0 .. code[NtAxes[k]].count - 1 : k \in D}
    BY <2>1
  <2>4. Tuples(dims) = {x \in [D -> range] : \A k \in D : x[k] < dims[k]}
    BY <2>1, <2>3 DEF Tuples
  <2>5. \A x : x \in NtSteps <=> x \in [D -> range] /\ \A k \in D : x[k] < code[NtAxes[k]].count
    BY <2>1, <2>2, <2>4
  <2> QED
    BY <1>1, <2>5
<1>4. range \in SUBSET Nat
  <2> SUFFICES ASSUME NEW k \in DOMAIN NtAxes, NEW v \in 0 .. code[NtAxes[k]].count - 1
               PROVE  v \in Nat
    OBVIOUS
  <2> QED
    BY <1>1, <1>2
<1>5. ASSUME NEW k \in 1 .. Len(NtAxes), NEW v \in Nat, v < code[NtAxes[k]].count
      PROVE  v \in range
  <2>1. v \in 0 .. code[NtAxes[k]].count - 1
    BY <1>2, <1>5
  <2> QED
    BY <1>1, <2>1
<1> HIDE DEF range
<1>6. ASSUME NEW x \in NtSteps, NEW m \in 1 .. Len(NtAxes)
      PROVE  x[m] \in Nat /\ x[m] < code[NtAxes[m]].count
  BY <1>3, <1>4
<1>7. ASSUME NEW x \in NtSteps, NEW y \in NtSteps, \A m \in 1 .. Len(NtAxes) : x[m] = y[m]
      PROVE  x = y
  <2>1. x \in [1 .. Len(NtAxes) -> range] /\ y \in [1 .. Len(NtAxes) -> range]
    BY <1>3
  <2> QED
    BY <1>7, <2>1
<1>8. ASSUME NEW x \in Seq(Nat), Len(x) = Len(NtAxes),
             \A m \in 1 .. Len(NtAxes) : x[m] < code[NtAxes[m]].count
      PROVE  x \in NtSteps
  <2>1. x \in [1 .. Len(NtAxes) -> Nat]
    BY <1>8
  <2>2. \A m \in 1 .. Len(NtAxes) : x[m] \in range
    BY <1>5, <1>8, <2>1
  <2>3. x \in [1 .. Len(NtAxes) -> range]
    BY <2>1, <2>2
  <2> QED
    BY <1>3, <1>8, <2>3
<1>9. \A x \in NtSteps : DOMAIN x = 1 .. Len(NtAxes)
  BY <1>3
<1> QED
  BY <1>6, <1>7, <1>8, <1>9

(* At the real-time loop all axes are open, and the indices are the point   *)
(* the walk is at.                                                          *)
LEMMA AtRealTime ==
  ASSUME Walking, Matched, at \in DOMAIN code, code[at].op = "rt"
  PROVE  /\ at = RtAt /\ indices \in NtSteps
         /\ \A m \in 1 .. Len(NtAxes) :
              Open(code, at, NtAxes[m]) /\ loops[m].index = indices[m]
<1> DEFINE n == Len(NtAxes)
<1>1. code \in Programs /\ Stack(code, at, loops)
  BY DEF Walking
<1>2. at = RtAt /\ at \in Nat /\ n \in Nat
  BY <1>1, RealTime, NtAxesAre
<1>3. /\ indices \in Seq(Nat) /\ Len(indices) \in Nat
      /\ Len(indices) = IF Chunked(loops) THEN Len(loops) - 1 ELSE Len(loops)
      /\ \A k \in 1 .. Len(indices) :
           code[loops[k].at].kind # "pipeline" /\ indices[k] = loops[k].index
  BY DEF Matched, Matching
<1>4. /\ Len(loops) \in Nat
      /\ \A k \in 1 .. Len(loops) :
           Open(code, at, loops[k].at) /\ loops[k].index < code[loops[k].at].count
      /\ \A j, k \in 1 .. Len(loops) : j < k => loops[j].at < loops[k].at
  BY <1>1 DEF Stack
<1>5. ASSUME NEW m \in 1 .. n
      PROVE  /\ Open(code, at, NtAxes[m]) /\ m \in 1 .. Len(indices)
             /\ loops[m].at = NtAxes[m]
  <2>1. /\ NtAxes[m] \in DOMAIN code /\ code[NtAxes[m]].op = "for" /\ NtAxes[m] \in Nat
        /\ code[NtAxes[m]].end \in Nat /\ code[NtAxes[m]].kind # "pipeline"
        /\ NtAxes[m] < RtAt /\ code[RtAt].end < code[NtAxes[m]].end
    BY <1>1, AxisEnds
  <2>2. Open(code, at, NtAxes[m])
    BY <1>1, <1>2, <2>1, RealTime DEF Open
  <2>3. m \in 1 .. Len(loops) /\ loops[m].at = NtAxes[m]
    BY <1>1, <2>2, AxisOnStack
  <2>4. ASSUME Chunked(loops) PROVE m # Len(loops)
    <3>1. PICK k \in 1 .. Len(loops) : code[loops[k].at].kind = "pipeline"
      BY <2>4 DEF Chunked
    <3>2. k = Len(loops)
      BY <1>1, <3>1, ChunkOpen
    <3> QED
      BY <2>1, <2>3, <3>1, <3>2
  <2> QED
    BY <1>3, <1>4, <2>2, <2>3, <2>4
<1>6. ASSUME NEW k \in 1 .. Len(indices) PROVE k <= n
  <2>1. k \in 1 .. Len(loops) /\ code[loops[k].at].kind # "pipeline"
    BY <1>3, <1>4
  <2>2. IsAxis(loops[k].at)
    <3>1. Open(code, at, loops[k].at)
      BY <1>4, <2>1
    <3>2. /\ loops[k].at \in DOMAIN code /\ code[loops[k].at].op = "for"
          /\ loops[k].at < at /\ at <= code[loops[k].at].end
      BY <3>1 DEF Open
    <3>3. at # code[loops[k].at].end
      BY <1>1, <3>2, Structure
    <3> QED
      BY <1>1, <1>2, <2>1, <3>2, <3>3, Structure DEF IsAxis
  <2>3. PICK m \in 1 .. n : NtAxes[m] = loops[k].at
    BY <1>1, <2>2, NtAxesAre
  <2>4. m \in 1 .. Len(loops) /\ loops[m].at = loops[k].at
    BY <1>3, <1>4, <1>5, <2>3
  <2>5. loops[k].at \in Nat
    BY <1>1, <2>3, NtAxesAre
  <2>6. ~(m < k) /\ ~(k < m)
    BY <1>4, <2>1, <2>4, <2>5
  <2> QED
    BY <1>2, <2>4, <2>1, <2>6
<1>7. Len(indices) = n
  <2>1. n > 0 => n \in 1 .. Len(indices)
    BY <1>2, <1>5
  <2>2. Len(indices) > 0 => Len(indices) <= n
    BY <1>3, <1>6
  <2> QED
    BY <1>2, <1>3, <2>1, <2>2
<1>8. ASSUME NEW m \in 1 .. n
      PROVE  /\ Open(code, at, NtAxes[m]) /\ loops[m].index = indices[m]
             /\ indices[m] < code[NtAxes[m]].count
  <2>1. m \in 1 .. Len(indices) /\ m \in 1 .. Len(loops) /\ loops[m].at = NtAxes[m]
    BY <1>3, <1>4, <1>5
  <2> QED
    BY <1>3, <1>4, <1>5, <2>1
<1>9. indices \in NtSteps
  BY <1>1, <1>3, <1>7, <1>8, StepsAre
<1> QED
  BY <1>2, <1>8, <1>9

\* What is behind it there comes before that point.
LEMMA HereIs ==
  ASSUME Walking, Matched, at \in DOMAIN code, code[at].op = "rt", NEW x \in NtSteps
  PROVE  /\ Here(at, loops, x) <=> x = indices
         /\ Left(at, loops, x) => Precedes(x, indices)
<1>1. code \in Programs
  BY DEF Walking
<1>2. /\ at = RtAt /\ indices \in NtSteps
      /\ \A m \in 1 .. Len(NtAxes) :
           Open(code, at, NtAxes[m]) /\ loops[m].index = indices[m]
  BY AtRealTime
<1>3. Len(NtAxes) \in Nat /\ DOMAIN NtAxes = 1 .. Len(NtAxes)
  BY <1>1, NtAxesAre
<1>4. Here(at, loops, x) <=> \A m \in 1 .. Len(NtAxes) : x[m] = indices[m]
  <2>1. (Len(NtAxes) + 1) - 1 = Len(NtAxes)
    BY <1>3
  <2> QED
    BY <1>2, <2>1 DEF Here, Shared
<1>5. Here(at, loops, x) <=> x = indices
  BY <1>1, <1>2, <1>4, StepsAre
<1>6. ASSUME NEW m \in 1 .. Len(NtAxes), LeftAt(at, loops, x, m)
      PROVE  Precedes(x, indices)
  <2>1. \A l \in 1 .. m - 1 : l \in 1 .. Len(NtAxes)
    BY <1>3
  <2>2. \A l \in 1 .. (m - 1) : x[l] = indices[l]
    BY <1>2, <1>6, <2>1 DEF LeftAt, Shared
  <2>3. ~(code[NtAxes[m]].end < at)
    <3>1. at <= code[NtAxes[m]].end
      BY <1>2 DEF Open
    <3>2. at \in Nat /\ code[NtAxes[m]].end \in Nat
      BY <1>1, <1>2, RealTime, AxisEnds
    <3> QED
      BY <3>1, <3>2
  <2>4. x[m] < indices[m]
    BY <1>2, <1>6, <2>3 DEF LeftAt
  <2>5. m \in DOMAIN x \cap DOMAIN indices
    BY <1>1, <1>2, StepsAre
  <2> QED
    BY <2>2, <2>4, <2>5 DEF Precedes
<1> QED
  BY <1>5, <1>6 DEF Left

(* The steps that were begun are those the walk has behind it, in order.    *)
Ordered ==
  /\ executed \in Seq(NtSteps)
  /\ \A j, k \in 1 .. Len(executed) : j < k => Precedes(executed[j], executed[k])
  /\ phase \in {"walk", "execute", "read", "done"} =>
       \A x \in NtSteps :
         (\E k \in 1 .. Len(executed) : executed[k] = x)
           <=> Passed(at, loops, chunk, Running, x)
  /\ phase = "done" => at \notin DOMAIN code

LEMMA InitOrdered ==
  Init => Ordered
<1> SUFFICES ASSUME Init PROVE Ordered
  OBVIOUS
<1>1. /\ code \in Programs /\ at = 1 /\ loops = << >> /\ chunk = 0
      /\ executed = << >> /\ phase = "walk"
  BY DEF Init
<1>2. ASSUME NEW x \in NtSteps PROVE ~Passed(at, loops, chunk, Running, x)
  <2>1. ~Taken(at, loops, chunk, Running)
    <3>1. RtAt \in Nat /\ RtAt # 0 /\ code[RtAt].end \in Nat /\ RtAt < code[RtAt].end
      BY <1>1, RealTime, Structure
    <3> QED
      BY <1>1, <3>1 DEF Taken, Running
  <2>2. ASSUME NEW m \in 1 .. Len(NtAxes) PROVE ~LeftAt(at, loops, x, m)
    <3>1. /\ NtAxes[m] \in DOMAIN code /\ NtAxes[m] \in Nat /\ code[NtAxes[m]].end \in Nat
          /\ code[NtAxes[m]].op = "for"
      BY <1>1, AxisEnds
    <3>2. NtAxes[m] >= 1 /\ NtAxes[m] < code[NtAxes[m]].end
      BY <1>1, <3>1, Structure
    <3>3. ~Open(code, at, NtAxes[m]) /\ ~(code[NtAxes[m]].end < at)
      BY <1>1, <3>1, <3>2 DEF Open
    <3> QED
      BY <3>3 DEF LeftAt
  <2> QED
    BY <2>1, <2>2 DEF Passed, Left
<1> QED
  BY <1>1, <1>2 DEF Ordered

\* Whether a step is executed at the moment.
LEMMA PassedNow ==
  ASSUME NEW i, NEW ls, NEW ch, NEW x, NEW run
  PROVE  /\ ~run => (Passed(i, ls, ch, run, x) <=> Passed(i, ls, ch, FALSE, x))
         /\ run => (Passed(i, ls, ch, run, x) <=> Passed(i, ls, ch, TRUE, x))
BY Zenon DEF Passed, Taken

\* A shot is begun: it is the next in order, and then it is taken.
LEMMA PrepareOrders ==
  ASSUME Walking, Matched, Ordered, PrepareStep
  PROVE  /\ executed' \in Seq(NtSteps)
         /\ \A j, k \in 1 .. Len(executed') : j < k => Precedes(executed'[j], executed'[k])
         /\ \A x \in NtSteps :
              (\E k \in 1 .. Len(executed') : executed'[k] = x)
                <=> Passed(at, loops, chunk, TRUE, x)
<1>1. /\ at \in DOMAIN code /\ code[at].op = "rt" /\ phase = "walk" /\ chunk = 0
      /\ executed' = Append(executed, indices)
  BY DEF PrepareStep, Statement, NtStep
<1>2. code \in Programs /\ at = RtAt /\ indices \in NtSteps
  BY <1>1, AtRealTime DEF Walking
<1>3. /\ executed \in Seq(NtSteps) /\ Len(executed) \in Nat
      /\ \A j, k \in 1 .. Len(executed) : j < k => Precedes(executed[j], executed[k])
      /\ \A x \in NtSteps : (\E k \in 1 .. Len(executed) : executed[k] = x)
                              <=> Passed(at, loops, chunk, Running, x)
  BY <1>1 DEF Ordered
<1>4. /\ executed' \in Seq(NtSteps) /\ Len(executed') = Len(executed) + 1
      /\ \A k \in 1 .. Len(executed) : executed'[k] = executed[k]
      /\ executed'[Len(executed) + 1] = indices
  BY <1>1, <1>2, <1>3, AppendOf
<1>5. ~Taken(at, loops, chunk, Running)
  <2>1. code[RtAt].end \in Nat /\ RtAt \in Nat /\ RtAt < code[RtAt].end
    BY <1>2, RealTime
  <2> QED
    BY <1>1, <1>2, <2>1 DEF Taken, Running
<1>6. Taken(at, loops, chunk, TRUE)
  BY DEF Taken
<1>7. ASSUME NEW x \in NtSteps
      PROVE  (\E k \in 1 .. Len(executed) : executed[k] = x) <=> Left(at, loops, x)
  BY <1>3, <1>5 DEF Passed
<1>8. ASSUME NEW k \in 1 .. Len(executed) PROVE Precedes(executed[k], indices)
  <2>1. executed[k] \in NtSteps
    BY <1>3
  <2>2. Left(at, loops, executed[k])
    BY <1>7, <2>1
  <2> QED
    BY <1>1, <2>1, <2>2, HereIs
<1>9. \A k \in 1 .. Len(executed') : k = Len(executed) + 1 \/ k \in 1 .. Len(executed)
  BY <1>3, <1>4
<1>10. ASSUME NEW j \in 1 .. Len(executed'), NEW k \in 1 .. Len(executed'), j < k
       PROVE  Precedes(executed'[j], executed'[k])
  <2>1. j \in 1 .. Len(executed)
    BY <1>3, <1>4, <1>10
  <2> QED
    BY <1>3, <1>4, <1>8, <1>9, <1>10, <2>1
<1>11. ASSUME NEW x \in NtSteps
       PROVE  (\E k \in 1 .. Len(executed') : executed'[k] = x)
                <=> Passed(at, loops, chunk, TRUE, x)
  <2>1. (\E k \in 1 .. Len(executed') : executed'[k] = x)
          <=> (\E k \in 1 .. Len(executed) : executed[k] = x) \/ x = indices
    <3>1. \A k \in 1 .. Len(executed) : k \in 1 .. Len(executed')
      BY <1>3, <1>4
    <3>2. Len(executed) + 1 \in 1 .. Len(executed')
      BY <1>3, <1>4
    <3> QED
      BY <1>4, <1>9, <3>1, <3>2
  <2>2. Here(at, loops, x) <=> x = indices
    BY <1>1, HereIs
  <2> QED
    BY <1>6, <1>7, <2>1, <2>2, Zenon DEF Passed
<1> QED
  BY <1>4, <1>10, <1>11

LEMMA StepOrdered ==
  Walking /\ Matched /\ Ordered /\ [Next]_vars => Ordered'
<1> SUFFICES ASSUME Walking, Matched, Ordered, [Next]_vars PROVE Ordered'
  OBVIOUS
<1>1. /\ code \in Programs /\ code' = code /\ Stack(code, at, loops)
      /\ Stack(code, at', loops')
  <2>1. Walking'
    BY StepWalks
  <2> QED
    BY <2>1, SameCode DEF Walking
<1>2. NtSteps' = NtSteps /\ NtAxes' = NtAxes /\ RtAt' = RtAt
  BY <1>1, SameResults
<1>4. /\ executed \in Seq(NtSteps)
      /\ \A j, k \in 1 .. Len(executed) : j < k => Precedes(executed[j], executed[k])
      /\ phase \in {"walk", "execute", "read", "done"} =>
           \A x \in NtSteps : (\E k \in 1 .. Len(executed) : executed[k] = x)
                                <=> Passed(at, loops, chunk, Running, x)
  BY DEF Ordered
<1>5. ASSUME NEW x \in NtSteps PROVE \A m \in 1 .. Len(NtAxes) :
              x[m] \in Nat /\ x[m] < code[NtAxes[m]].count
  BY <1>1, StepsAre
\* The program is the same, and so are the axes.
<1>6. ASSUME executed' \in Seq(NtSteps),
             \A j, k \in 1 .. Len(executed') :
               j < k => Precedes(executed'[j], executed'[k]),
             phase' \in {"walk", "execute", "read", "done"} =>
               \A x \in NtSteps :
                 (\E k \in 1 .. Len(executed') : executed'[k] = x)
                   <=> Passed(at', loops', chunk', Running', x),
             phase' = "done" => at' \notin DOMAIN code
      PROVE  Ordered'
  <2>1. ASSUME NEW x \in NtSteps
        PROVE  Passed(at, loops, chunk, Running, x)'
                 <=> Passed(at', loops', chunk', Running', x)
    BY <1>1, <1>2 DEF Passed, Left, LeftAt, Here, Shared, Taken, Chunked, Open
  <2>2. (phase' \in {"walk", "execute", "read", "done"} =>
          \A x \in NtSteps :
            (\E k \in 1 .. Len(executed') : executed'[k] = x)
              <=> Passed(at, loops, chunk, Running, x)')
    BY <1>6, <2>1
  <2>3. executed' \in Seq(NtSteps')
    BY <1>2, <1>6
  <2>4. \A j, k \in 1 .. Len(executed') :
          j < k => Precedes(executed[j], executed[k])'
    <3>1. \A j, k \in 1 .. Len(executed') :
            Precedes(executed[j], executed[k])' <=> Precedes(executed'[j], executed'[k])
      BY <1>2 DEF Precedes
    <3> QED
      BY <1>6, <3>1
  <2> QED
    BY <1>1, <1>2, <1>6, <2>2, <2>3, <2>4 DEF Ordered
<1>7. ASSUME executed' = executed,
             phase' \in {"walk", "execute", "read", "done"} =>
               /\ phase \in {"walk", "execute", "read", "done"}
               /\ \A x \in NtSteps : Passed(at', loops', chunk', Running', x)
                                       <=> Passed(at, loops, chunk, Running, x),
             phase' = "done" => at' \notin DOMAIN code
      PROVE  Ordered'
  BY <1>4, <1>6, <1>7
<1>8. CASE PrepareStep
  <2>1. /\ executed' \in Seq(NtSteps)
        /\ \A j, k \in 1 .. Len(executed') : j < k => Precedes(executed'[j], executed'[k])
        /\ \A x \in NtSteps : (\E k \in 1 .. Len(executed') : executed'[k] = x)
                                <=> Passed(at, loops, chunk, TRUE, x)
    BY <1>8, PrepareOrders
  <2>2. at' = at /\ loops' = loops /\ chunk' = chunk /\ phase' = "execute"
    BY <1>8 DEF PrepareStep, walker
  <2>3. \A x \in NtSteps : Passed(at', loops', chunk', Running', x)
                             <=> Passed(at, loops, chunk, TRUE, x)
    <3>1. Running'
      BY <2>2 DEF Running
    <3> QED
      BY <2>2, <3>1, PassedNow
  <2> QED
    BY <1>6, <2>1, <2>2, <2>3
<1>9. CASE EnterLoop
  <2> DEFINE l == [at |-> at, index |-> 0]
  <2>1. /\ at \in DOMAIN code /\ code[at].op = "for" /\ phase = "walk" /\ phase' = "walk"
        /\ at' = at + 1 /\ loops' = Append(loops, l) /\ executed' = executed
        /\ chunk' = IF code[at].kind = "pipeline" THEN 0 ELSE chunk
    BY <1>9 DEF EnterLoop, Statement, Entered, Indexed
  <2>2. l \in Entries /\ l.at = at /\ l.index = 0
    BY <1>1, <2>1, Structure DEF Entries
  <2> HIDE DEF l
  <2>3. /\ Len(loops') = Len(loops) + 1
        /\ \A k \in 1 .. Len(loops) : loops'[k] = loops[k]
        /\ loops'[Len(loops) + 1].at = at /\ loops'[Len(loops) + 1].index = 0
    <3>1. loops \in Seq(Entries)
      BY <1>1 DEF Stack
    <3> QED
      BY <2>1, <2>2, <3>1, AppendOf
  <2>4. ASSUME NEW x \in NtSteps
        PROVE  Passed(at + 1, loops', chunk', FALSE, x) <=> Passed(at, loops, chunk, FALSE, x)
    <3>1. \A m \in 1 .. Len(NtAxes) : x[m] \in Nat
      BY <1>5
    <3>2. Stack(code, at + 1, loops')
      BY <1>1, <2>1
    <3> QED
      BY <1>1, <2>1, <2>3, <3>1, <3>2, EnterPassed
  <2>5. ~Running /\ ~Running'
    BY <2>1 DEF Running
  <2>6. \A x \in NtSteps : Passed(at', loops', chunk', Running', x)
                             <=> Passed(at, loops, chunk, Running, x)
    BY <2>1, <2>4, <2>5, PassedNow
  <2> QED
    BY <1>7, <2>1, <2>6
<1>10. CASE LoopEnds
  <2> DEFINE l == [Last(loops) EXCEPT !.index = @ + 1]
             n == Len(loops)
             j == loops[n].at
  <2>1. /\ at \in DOMAIN code /\ code[at].op = "end" /\ phase = "walk" /\ phase' = "walk"
        /\ executed' = executed
    BY <1>10 DEF LoopEnds, Statement
  <2>2. loops # << >> /\ n \in Nat \ {0} /\ loops \in Seq(Entries)
    BY <1>1, <2>1, TopEnds DEF Stack
  <2>3. Last(loops) = loops[n] /\ Last(loops) \in Entries
    BY <2>2, FrontOf
  <2>4. l \in Entries /\ l.at = j /\ l.index = loops[n].index + 1
    BY <2>3 DEF Entries
  <2>5. ~Running /\ ~Running'
    BY <2>1 DEF Running
  <2>6. CASE l.index < code[l.at].count
    <3>1. /\ loops' = Append(Front(loops), l) /\ at' = l.at + 1
          /\ chunk' = IF code[l.at].kind = "pipeline" THEN l.index ELSE chunk
      BY <1>10, <2>6 DEF LoopEnds, Entered, Indexed
    <3> HIDE DEF l
    <3>2. /\ Len(Append(Front(loops), l)) = Len(loops)
          /\ \A k \in 1 .. Len(loops) - 1 : Append(Front(loops), l)[k] = loops[k]
          /\ Append(Front(loops), l)[Len(loops)] = l
      BY <1>1, <2>1, <2>3, <2>4, <2>6, NextIterationStack
    <3> HIDE DEF n, j
    <3>3. j = loops[Len(loops)].at /\ n = Len(loops)
      BY DEF j, n
    <3>4. /\ Len(loops') = Len(loops)
          /\ \A k \in 1 .. Len(loops) - 1 : loops'[k] = loops[k]
          /\ loops'[Len(loops)].at = j
          /\ loops'[Len(loops)].index = loops[Len(loops)].index + 1
          /\ chunk' = IF code[j].kind = "pipeline" THEN loops[Len(loops)].index + 1 ELSE chunk
          /\ Stack(code, j + 1, loops') /\ at' = j + 1
      BY <1>1, <2>4, <3>1, <3>2, <3>3
    <3>5. ASSUME NEW x \in NtSteps
          PROVE  Passed(at', loops', chunk', FALSE, x)
                   <=> Passed(at, loops, chunk, FALSE, x)
      <4>1. \A m \in 1 .. Len(NtAxes) : x[m] \in Nat
        BY <1>5
      <4>2. /\ code \in Programs /\ at \in DOMAIN code /\ Stack(code, at, loops)
            /\ code[at].op = "end" /\ Stack(code, at', loops')
        BY <1>1, <2>1
      <4>3. /\ at' = loops[Len(loops)].at + 1
            /\ loops'[Len(loops)].at = loops[Len(loops)].at
            /\ chunk' = IF code[loops[Len(loops)].at].kind = "pipeline"
                        THEN loops[Len(loops)].index + 1 ELSE chunk
        BY <3>3, <3>4
      <4> QED
        BY <3>4, <4>1, <4>2, <4>3, NextPassed
    <3>6. \A x \in NtSteps : Passed(at', loops', chunk', Running', x)
                               <=> Passed(at, loops, chunk, Running, x)
      BY <2>5, <3>4, <3>5, PassedNow
    <3> QED
      BY <1>7, <2>1, <3>6
  <2>7. CASE ~(l.index < code[l.at].count)
    <3>1. loops' = Front(loops) /\ at' = at + 1 /\ chunk' = chunk
      BY <1>10, <2>7 DEF LoopEnds
    <3>2. /\ Len(loops') = Len(loops) - 1
          /\ \A k \in 1 .. Len(loops') : loops'[k] = loops[k]
      BY <1>1, <2>1, <3>1, LeaveLoopStack
    <3>3. loops[Len(loops)].index + 1 >= code[loops[Len(loops)].at].count
      <4>1. /\ loops[Len(loops)].index \in Nat
            /\ code[loops[Len(loops)].at].count \in Nat \ {0}
        BY <1>1, <2>1, LoopAtEnd
      <4> QED
        BY <2>4, <2>7, <4>1
    <3>4. Stack(code, at + 1, loops')
      BY <1>1, <3>1
    <3> HIDE DEF l, n, j
    <3>5. ASSUME NEW x \in NtSteps
          PROVE  Passed(at + 1, loops', chunk, FALSE, x) <=> Passed(at, loops, chunk, FALSE, x)
      BY <1>1, <1>5, <2>1, <3>2, <3>3, <3>4, LeavePassed
    <3>6. \A x \in NtSteps : Passed(at', loops', chunk', Running', x)
                               <=> Passed(at, loops, chunk, Running, x)
      BY <2>5, <3>1, <3>5, PassedNow
    <3> QED
      BY <1>7, <2>1, <3>6
  <2> QED
    BY <2>6, <2>7
<1>11. CASE SetParam \/ SetNode \/ ReplacePulse \/ Callback
  <2>1. /\ loops' = loops /\ chunk' = chunk /\ executed' = executed /\ at \in DOMAIN code
        /\ code[at].op \notin {"for", "rt", "end"} /\ phase = "walk"
        /\ phase' \in {"aborted", "raised"} \/ (phase' = "walk" /\ at' \in {at, at + 1})
    BY <1>11 DEF SetParam, SetNode, ReplacePulse, Callback, Statement, walker
  <2>2. ASSUME NEW x \in NtSteps
        PROVE  Passed(at + 1, loops, chunk, FALSE, x) <=> Passed(at, loops, chunk, FALSE, x)
    BY <1>1, <2>1, StatementPassed
  <2>3. ~Running /\ ~Running'
    BY <2>1 DEF Running
  <2>4. phase' = "walk" =>
          \A x \in NtSteps : Passed(at', loops', chunk', Running', x)
                               <=> Passed(at, loops, chunk, Running, x)
    BY <2>1, <2>2, <2>3, PassedNow
  <2> QED
    BY <1>7, <2>1, <2>4
<1>12. CASE SkipChunk \/ StepIsRead \/ (AttemptFails /\ ~(try < MaxTries))
  <2>1. /\ loops' = loops /\ chunk' = chunk /\ executed' = executed /\ at \in DOMAIN code
        /\ code[at].op = "rt" /\ phase \in {"walk", "execute", "read"} /\ phase' = "walk"
        /\ at' = code[at].end + 1
        /\ Running \/ chunk > 0
    BY <1>12 DEF SkipChunk, StepIsRead, AttemptFails, Leave, Statement, Walking, Running
  <2>2. Taken(at, loops, chunk, Running)
    <3>1. CASE Running
      BY <3>1 DEF Taken
    <3>2. CASE chunk > 0
      <4>1. PICK j \in DOMAIN code : code[j].op = "for" /\ code[j].kind = "pipeline"
        BY <3>2 DEF Matched, Matching
      <4>2. RtAt = j + 1 /\ code[j].end = code[RtAt].end + 1
        BY <1>1, <4>1, ChunkLoop
      <4>3. Open(code, at, j)
        BY <1>1, <2>1, <4>1, <4>2, RealTime, Structure DEF Open
      <4>4. Chunked(loops)
        BY <1>1, <4>1, <4>3 DEF Stack, Chunked
      <4> QED
        BY <3>2, <4>4 DEF Taken
    <3> QED
      BY <2>1, <3>1, <3>2
  <2>3. ASSUME NEW x \in NtSteps
        PROVE  Passed(code[at].end + 1, loops, chunk, FALSE, x)
                 <=> Passed(at, loops, chunk, Running, x)
    BY <1>1, <2>1, <2>2, RealTimePassed
  <2>4. ~Running'
    BY <2>1 DEF Running
  <2>5. \A x \in NtSteps : Passed(at', loops', chunk', Running', x)
                             <=> Passed(at, loops, chunk, Running, x)
    BY <2>1, <2>3, <2>4, PassedNow
  <2> QED
    BY <1>7, <2>1, <2>5
<1>13. CASE StepRaises \/ ReadRaises
  <2>1. executed' = executed /\ phase' = "raised"
    BY <1>13 DEF StepRaises, ReadRaises
  <2> QED
    BY <1>7, <2>1
<1>14. CASE \/ StepExecuted \/ ReadAwg \/ (AttemptFails /\ try < MaxTries) \/ Finish
            \/ UNCHANGED vars
  <2>1. /\ executed' = executed /\ at' = at /\ loops' = loops /\ chunk' = chunk
        /\ Running' <=> Running
        /\ phase' \in {"walk", "execute", "read", "done"} =>
             phase \in {"walk", "execute", "read", "done"}
        /\ phase' = "done" => at' \notin DOMAIN code
    BY <1>14 DEF StepExecuted, ReadAwg, AttemptFails, Finish, Running, walker, vars, Ordered
  <2>2. \A x \in NtSteps : Passed(at', loops', chunk', Running', x)
                             <=> Passed(at, loops, chunk, Running, x)
    BY <2>1, Zenon DEF Passed, Taken
  <2> QED
    BY <1>7, <2>1, <2>2
<1> QED
  BY <1>8, <1>9, <1>10, <1>11, <1>12, <1>13, <1>14 DEF Next, AttemptFails

LEMMA EndsInOrder ==
  Walking /\ Ordered => (phase = "done" => StepsInOrder)
<1> SUFFICES ASSUME Walking, Ordered, phase = "done" PROVE StepsInOrder
  OBVIOUS
<1>1. code \in Programs /\ at \in 1 .. Len(code) + 1 /\ at \notin DOMAIN code
  BY DEF Walking, Stack, Ordered
<1>2. at = Len(code) + 1 /\ Len(code) \in Nat
  BY <1>1, Structure
<1>3. executed \in Seq(NtSteps) /\ DOMAIN executed = 1 .. Len(executed)
  BY DEF Ordered
<1>4. ASSUME NEW x \in NtSteps PROVE Passed(at, loops, chunk, Running, x)
  <2>1. Len(NtAxes) \in Nat
    BY <1>1, NtAxesAre
  <2>2. CASE Len(NtAxes) = 0
    <3>1. Here(at, loops, x)
      BY <2>2 DEF Here, Shared
    <3>2. code[RtAt].end < at
      BY <1>1, <1>2, RealTime
    <3> QED
      BY <3>1, <3>2 DEF Passed, Taken
  <2>3. CASE Len(NtAxes) # 0
    <3>1. 1 \in 1 .. Len(NtAxes)
      BY <2>1, <2>3
    <3>2. code[NtAxes[1]].end \in Nat /\ code[NtAxes[1]].end <= Len(code)
      BY <1>1, <3>1, AxisEnds
    <3>3. code[NtAxes[1]].end < at
      BY <1>2, <3>2
    <3>4. Shared(at, loops, x, 1)
      BY DEF Shared
    <3> QED
      BY <3>1, <3>3, <3>4 DEF Passed, Left, LeftAt
  <2> QED
    BY <2>2, <2>3
<1>5. \A x \in NtSteps : \E k \in 1 .. Len(executed) : executed[k] = x
  BY <1>4 DEF Ordered
<1>6. \A k \in 1 .. Len(executed) : executed[k] \in NtSteps
  BY <1>3
<1>7. {executed[k] : k \in DOMAIN executed} = NtSteps
  BY <1>3, <1>5, <1>6
<1> QED
  BY <1>3, <1>7 DEF Ordered, StepsInOrder

(* An experiment that ends by itself has executed every point of the        *)
(* near-time loops once, in the order of the loops (NearTimeRunner and      *)
(* rt_entry_handler).                                                       *)
THEOREM StepOrder ==
  Spec => [](phase = "done" => StepsInOrder)
<1>1. Init => Walking /\ Matched /\ Ordered
  BY InitWalks, InitMatches, InitOrdered
<1>2. Walking /\ Matched /\ Ordered /\ [Next]_vars => Walking' /\ Matched' /\ Ordered'
  BY StepWalks, StepMatches, StepOrdered
<1>3. Walking /\ Ordered => (phase = "done" => StepsInOrder)
  BY EndsInOrder
<1> QED
  BY <1>1, <1>2, <1>3, PTL DEF Spec

-----------------------------------------------------------------------------
(* The indices of an array of n dimensions.                                 *)
LEMMA TuplesAre ==
  ASSUME NEW n \in Nat, NEW dims, DOMAIN dims = 1 .. n, \A k \in 1 .. n : dims[k] \in Nat
  PROVE  /\ IsFiniteSet(Tuples(dims))
         /\ \A x \in Tuples(dims) :
              /\ x \in Seq(Nat) /\ Len(x) = n
              /\ \A k \in 1 .. n : x[k] \in Nat /\ x[k] < dims[k]
         /\ \A x \in Seq(Nat) :
              Len(x) = n /\ (\A k \in 1 .. n : x[k] < dims[k]) => x \in Tuples(dims)
<1> DEFINE range == UNION {0 .. dims[k] - 1 : k \in 1 .. n}
<1>1. Tuples(dims) = {x \in [1 .. n -> range] : \A k \in 1 .. n : x[k] < dims[k]}
  BY DEF Tuples
<1>2. range \in SUBSET Nat
  <2> SUFFICES ASSUME NEW k \in 1 .. n, NEW v \in 0 .. dims[k] - 1 PROVE v \in Nat
    OBVIOUS
  <2> QED
    OBVIOUS
<1>3. ASSUME NEW k \in 1 .. n, NEW v \in Nat, v < dims[k] PROVE v \in range
  <2>1. v \in 0 .. dims[k] - 1
    BY <1>3
  <2> QED
    BY <2>1
<1>4. IsFiniteSet(range)
  <2> DEFINE part == [k \in 1 .. n |-> 0 .. dims[k] - 1]
  <2>1. IsFiniteSet({part[k] : k \in 1 .. n})
    <3>1. IsFiniteSet(1 .. n) /\ DOMAIN part = 1 .. n
      BY FS_Interval
    <3> HIDE DEF part
    <3> QED
      BY <3>1, FiniteImage
  <2>2. \A T \in {part[k] : k \in 1 .. n} : IsFiniteSet(T)
    <3> SUFFICES ASSUME NEW k \in 1 .. n PROVE IsFiniteSet(0 .. dims[k] - 1)
      OBVIOUS
    <3>1. 0 \in Int /\ dims[k] - 1 \in Int
      OBVIOUS
    <3> QED
      BY <3>1, FS_Interval
  <2>3. range = UNION {part[k] : k \in 1 .. n}
    OBVIOUS
  <2> HIDE DEF part, range
  <2> QED
    BY <2>1, <2>2, <2>3, FS_UNION
<1> HIDE DEF range
<1>5. IsFiniteSet(Tuples(dims))
  <2>1. IsFiniteSet([1 .. n -> range])
    <3>1. IsFiniteSet(1 .. n)
      BY FS_Interval
    <3> DEFINE D == 1 .. n
    <3> HIDE DEF D
    <3>2. IsFiniteSet([D -> range])
      BY <1>4, <3>1, FiniteFunctions DEF D
    <3> QED
      BY <3>2 DEF D
  <2>2. Tuples(dims) \in SUBSET [1 .. n -> range]
    BY <1>1
  <2> QED
    BY <2>1, <2>2, FS_Subset
<1>6. ASSUME NEW x \in Tuples(dims)
      PROVE  /\ x \in Seq(Nat) /\ Len(x) = n
             /\ \A k \in 1 .. n : x[k] \in Nat /\ x[k] < dims[k]
  <2>1. x \in [1 .. n -> Nat] /\ \A k \in 1 .. n : x[k] < dims[k]
    BY <1>1, <1>2
  <2> QED
    BY <2>1, SeqByElements
<1>7. ASSUME NEW x \in Seq(Nat), Len(x) = n, \A k \in 1 .. n : x[k] < dims[k]
      PROVE  x \in Tuples(dims)
  <2>1. x \in [1 .. n -> Nat]
    BY <1>7
  <2>2. \A k \in 1 .. n : x[k] \in range
    BY <1>3, <1>7, <2>1
  <2>3. x \in [1 .. n -> range]
    BY <2>1, <2>2
  <2> QED
    BY <1>1, <1>7, <2>3
<1> QED
  BY <1>5, <1>6, <1>7

(* The sweeps in real time around a statement.                              *)
Inner(i) == {j \in LoopsAround(i) : j > RtAt}

LEMMA SweepsAre ==
  ASSUME code \in Programs, NEW i
  PROVE  /\ Inner(i) \in SUBSET Int /\ IsFiniteSet(Inner(i)) /\ Sweeps(i) = Sorted(Inner(i))
         /\ Len(Sweeps(i)) \in Nat /\ DOMAIN Sweeps(i) = 1 .. Len(Sweeps(i))
         /\ \A k \in 1 .. Len(Sweeps(i)) :
              /\ Sweeps(i)[k] \in DOMAIN code /\ Loop(Sweeps(i)[k]) /\ Sweeps(i)[k] \in Nat
              /\ code[Sweeps(i)[k]].count \in Nat \ {0}
<1>1. DOMAIN code = 1 .. Len(code) /\ Len(code) \in Nat
  BY Structure
<1>2. Inner(i) \in SUBSET (1 .. Len(code)) /\ \A j \in Inner(i) : Loop(j) /\ j \in DOMAIN code
  BY <1>1 DEF Inner, LoopsAround
<1>3. IsFiniteSet(Inner(i)) /\ Inner(i) \in SUBSET Int
  <2>1. IsFiniteSet(1 .. Len(code))
    BY <1>1, FS_Interval
  <2> QED
    BY <1>2, <2>1, FS_Subset
<1>4. Sweeps(i) = Sorted(Inner(i))
  BY DEF Sweeps, Inner
<1>5. /\ Cardinality(Inner(i)) \in Nat
      /\ Len(Sorted(Inner(i))) = Cardinality(Inner(i))
      /\ DOMAIN Sorted(Inner(i)) = 1 .. Cardinality(Inner(i))
      /\ \A k \in 1 .. Cardinality(Inner(i)) : Sorted(Inner(i))[k] \in Inner(i)
  BY <1>3, SortedIs
<1>6. \A j \in Inner(i) : j \in DOMAIN code /\ Loop(j) /\ j \in Nat /\ code[j].count \in Nat \ {0}
  BY <1>1, <1>2, Structure DEF Loop
<1> QED
  BY <1>3, <1>4, <1>5, <1>6

\* The indices they run through.
LEMMA IndicesAre ==
  ASSUME code \in Programs, NEW i
  PROVE  /\ IsFiniteSet(Indices(Sweeps(i)))
         /\ \A x \in Indices(Sweeps(i)) :
              /\ x \in Seq(Nat) /\ Len(x) = Len(Sweeps(i))
              /\ \A k \in 1 .. Len(Sweeps(i)) : x[k] \in Nat /\ x[k] < code[Sweeps(i)[k]].count
         /\ \A x \in Seq(Nat) :
              /\ Len(x) = Len(Sweeps(i))
              /\ \A k \in 1 .. Len(Sweeps(i)) : x[k] < code[Sweeps(i)[k]].count
              => x \in Indices(Sweeps(i))
<1> DEFINE n == Len(Sweeps(i))
           dims == [k \in DOMAIN Sweeps(i) |-> code[Sweeps(i)[k]].count]
<1>1. n \in Nat /\ DOMAIN Sweeps(i) = 1 .. n
      /\ \A k \in 1 .. n : code[Sweeps(i)[k]].count \in Nat \ {0}
  BY SweepsAre
<1>2. DOMAIN dims = 1 .. n /\ \A k \in 1 .. n : dims[k] = code[Sweeps(i)[k]].count
  BY <1>1
<1>3. Indices(Sweeps(i)) = Tuples(dims)
  BY DEF Indices
<1> HIDE DEF dims, n
<1>4. \A k \in 1 .. n : dims[k] \in Nat
  BY <1>1, <1>2
<1>5. /\ IsFiniteSet(Tuples(dims))
      /\ \A x \in Tuples(dims) :
           /\ x \in Seq(Nat) /\ Len(x) = n
           /\ \A k \in 1 .. n : x[k] \in Nat /\ x[k] < dims[k]
      /\ \A x \in Seq(Nat) :
           Len(x) = n /\ (\A k \in 1 .. n : x[k] < dims[k]) => x \in Tuples(dims)
  BY <1>1, <1>2, <1>4, TuplesAre
<1>6. IsFiniteSet(Indices(Sweeps(i)))
  BY <1>3, <1>5
<1>7. \A x \in Indices(Sweeps(i)) :
        /\ x \in Seq(Nat) /\ Len(x) = n
        /\ \A k \in 1 .. n : x[k] \in Nat /\ x[k] < code[Sweeps(i)[k]].count
  BY <1>2, <1>3, <1>5
<1>8. \A x \in Seq(Nat) :
        /\ Len(x) = n
        /\ \A k \in 1 .. n : x[k] < code[Sweeps(i)[k]].count
        => x \in Indices(Sweeps(i))
  BY <1>2, <1>3, <1>5
<1> QED
  BY <1>6, <1>7, <1>8 DEF n

-----------------------------------------------------------------------------
(* The order of the events of a shot.                                      *)

AcquireAt(i) == i \in DOMAIN code /\ code[i].op = "acquire"

LEMMA EventsAre ==
  ASSUME code \in Programs
  PROVE  /\ IsFiniteSet(Events)
         /\ \A e \in Events : /\ AcquireAt(e.stmt) /\ e.stmt \in Nat
                              /\ e.index \in Indices(Sweeps(e.stmt))
                              /\ e = [stmt |-> e.stmt, index |-> e.index]
                              /\ e \in [stmt : Nat, index : Seq(Nat)]
         /\ \A i : AcquireAt(i) =>
              \A x \in Indices(Sweeps(i)) : [stmt |-> i, index |-> x] \in Events
<1> DEFINE at_ == {j \in DOMAIN code : code[j].op = "acquire"}
           of == [i \in at_ |-> EventsOf(i)]
<1>1. DOMAIN code = 1 .. Len(code) /\ Len(code) \in Nat
  BY Structure
<1>2. IsFiniteSet(at_) /\ at_ \in SUBSET Nat
  <2>1. IsFiniteSet(1 .. Len(code))
    BY <1>1, FS_Interval
  <2>2. at_ \in SUBSET (1 .. Len(code))
    BY <1>1
  <2> QED
    BY <1>1, <2>1, <2>2, FS_Subset
<1>3. \A i \in at_ : IsFiniteSet(EventsOf(i))
  <2> SUFFICES ASSUME NEW i \in at_ PROVE IsFiniteSet(EventsOf(i))
    OBVIOUS
  <2> DEFINE D == Indices(Sweeps(i))
             event == [x \in D |-> [stmt |-> i, index |-> x]]
  <2>1. IsFiniteSet(D)
    BY IndicesAre
  <2>2. EventsOf(i) = {event[x] : x \in D}
    BY DEF EventsOf
  <2>3. DOMAIN event = D
    OBVIOUS
  <2> HIDE DEF event, D
  <2> QED
    BY <2>1, <2>2, <2>3, FiniteImage
<1>4. IsFiniteSet(Events)
  <2>1. IsFiniteSet({of[i] : i \in at_})
    <3>1. DOMAIN of = at_
      OBVIOUS
    <3> HIDE DEF of, at_
    <3> QED
      BY <1>2, <3>1, FiniteImage
  <2>2. \A T \in {of[i] : i \in at_} : IsFiniteSet(T)
    BY <1>3
  <2>3. Events = UNION {of[i] : i \in at_}
    BY DEF Events
  <2> HIDE DEF of, at_
  <2> QED
    BY <2>1, <2>2, <2>3, FS_UNION
<1>5. ASSUME NEW e \in Events
      PROVE  /\ AcquireAt(e.stmt) /\ e.stmt \in Nat
             /\ e.index \in Indices(Sweeps(e.stmt))
             /\ e = [stmt |-> e.stmt, index |-> e.index]
             /\ e \in [stmt : Nat, index : Seq(Nat)]
  <2>1. PICK i \in at_ : e \in EventsOf(i)
    BY DEF Events
  <2>2. PICK x \in Indices(Sweeps(i)) : e = [stmt |-> i, index |-> x]
    BY <2>1 DEF EventsOf
  <2>3. x \in Seq(Nat) /\ i \in Nat
    BY <1>2, IndicesAre
  <2> QED
    BY <2>2, <2>3 DEF AcquireAt
<1>6. ASSUME NEW i, AcquireAt(i), NEW x \in Indices(Sweeps(i))
      PROVE  [stmt |-> i, index |-> x] \in Events
  <2>1. [stmt |-> i, index |-> x] \in EventsOf(i) /\ i \in at_
    BY <1>6 DEF EventsOf, AcquireAt
  <2> QED
    BY <2>1 DEF Events
<1> QED
  BY <1>4, <1>5, <1>6

LEMMA PositionIs ==
  ASSUME code \in Programs, NEW e \in Events
  PROVE  LET s == Sweeps(e.stmt)
             p == Position(e)
             w == Len(s)
         IN  /\ w \in Nat /\ DOMAIN p = 1 .. 2 * w + 1
             /\ \A k \in 1 .. 2 * w + 1 : p[k] \in Int
             /\ p[2 * w + 1] = e.stmt
             /\ \A m \in 1 .. w : p[2 * m - 1] = s[m] /\ p[2 * m] = e.index[m]
<1> DEFINE s == Sweeps(e.stmt)
           p == Position(e)
           w == Len(s)
<1>1. /\ w \in Nat
      /\ \A k \in 1 .. w : s[k] \in Nat
  BY SweepsAre
<1>2. e.stmt \in Nat /\ e.index \in Indices(Sweeps(e.stmt))
  BY EventsAre
<1>3. \A k \in 1 .. w : e.index[k] \in Nat
  BY <1>2, IndicesAre
<1>4. p = [k \in 1 .. 2 * w + 1 |->
             IF k = 2 * w + 1 THEN e.stmt
             ELSE IF k % 2 = 1 THEN s[(k + 1) \div 2] ELSE e.index[k \div 2]]
  BY DEF Position
<1> HIDE DEF s, p, w
<1>5. 2 * w + 1 \in 1 .. 2 * w + 1
  BY <1>1
<1>6. ASSUME NEW m \in 1 .. w PROVE p[2 * m - 1] = s[m] /\ p[2 * m] = e.index[m]
  <2>1. 2 * m - 1 \in 1 .. 2 * w + 1 /\ 2 * m - 1 # 2 * w + 1
    BY <1>1
  <2>2. 2 * m \in 1 .. 2 * w + 1 /\ 2 * m # 2 * w + 1
    BY <1>1
  <2>3. (2 * m - 1) % 2 = 1 /\ ((2 * m - 1) + 1) \div 2 = m
    BY <1>1
  <2>4. (2 * m) % 2 # 1 /\ (2 * m) \div 2 = m
    BY <1>1
  <2>5. p[2 * m - 1] = s[((2 * m - 1) + 1) \div 2]
    BY <1>4, <2>1, <2>3
  <2>6. p[2 * m] = e.index[(2 * m) \div 2]
    BY <1>4, <2>2, <2>4
  <2> QED
    BY <2>3, <2>4, <2>5, <2>6
<1>7. ASSUME NEW k \in 1 .. 2 * w + 1 PROVE p[k] \in Int
  <2>1. CASE k = 2 * w + 1
    BY <1>2, <1>4, <2>1
  <2>2. CASE k # 2 * w + 1 /\ k % 2 = 1
    <3>1. (k + 1) \div 2 \in 1 .. w
      BY <1>1, <2>2
    <3> QED
      BY <1>1, <1>4, <2>2, <3>1
  <2>3. CASE k # 2 * w + 1 /\ k % 2 # 1
    <3>1. k \div 2 \in 1 .. w
      BY <1>1, <2>3
    <3>2. e.index[k \div 2] \in Nat
      BY <1>3, <3>1
    <3>3. p[k] = e.index[k \div 2]
      BY <1>4, <2>3
    <3> QED
      BY <3>2, <3>3
  <2> QED
    BY <2>1, <2>2, <2>3
<1>8. DOMAIN p = 1 .. 2 * w + 1 /\ p[2 * w + 1] = e.stmt
  BY <1>4, <1>5
<1> QED
  BY <1>1, <1>6, <1>7, <1>8 DEF s, p, w

\* Of two events that agree wherever both have a position none is longer.
LEMMA NoLongerPosition ==
  ASSUME code \in Programs, NEW e \in Events, NEW f \in Events,
         \A k \in DOMAIN Position(e) \cap DOMAIN Position(f) : Position(e)[k] = Position(f)[k]
  PROVE  ~(Len(Sweeps(e.stmt)) < Len(Sweeps(f.stmt)))
<1> DEFINE v == Len(Sweeps(e.stmt))
           w == Len(Sweeps(f.stmt))
           p == Position(e)
           q == Position(f)
           n == 2 * v + 1
           m == v + 1
<1> SUFFICES ASSUME v < w PROVE FALSE
  OBVIOUS
<1>1. v \in Nat /\ DOMAIN p = 1 .. 2 * v + 1 /\ p[2 * v + 1] = e.stmt
  BY PositionIs
<1>2. /\ w \in Nat /\ DOMAIN q = 1 .. 2 * w + 1
      /\ \A k \in 1 .. w : q[2 * k - 1] = Sweeps(f.stmt)[k]
  BY PositionIs
<1>3. \A k \in 1 .. w : Loop(Sweeps(f.stmt)[k])
  BY SweepsAre
<1> HIDE DEF v, w, p, q
<1>4. n \in DOMAIN p \cap DOMAIN q
  BY <1>1, <1>2
<1>5. m \in 1 .. w /\ 2 * m - 1 = n
  BY <1>1, <1>2
<1>6. q[n] = Sweeps(f.stmt)[m]
  BY <1>2, <1>5
<1>7. e.stmt = Sweeps(f.stmt)[m]
  BY <1>1, <1>4, <1>6 DEF p, q
<1>8. Loop(e.stmt)
  BY <1>3, <1>5, <1>7
<1> QED
  BY <1>8, EventsAre DEF AcquireAt, Loop

LEMMA SamePosition ==
  ASSUME code \in Programs, NEW e \in Events, NEW f \in Events,
         \A k \in DOMAIN Position(e) \cap DOMAIN Position(f) : Position(e)[k] = Position(f)[k]
  PROVE  e = f
<1> DEFINE v == Len(Sweeps(e.stmt))
           w == Len(Sweeps(f.stmt))
           p == Position(e)
           q == Position(f)
<1>1. /\ v \in Nat /\ DOMAIN p = 1 .. 2 * v + 1 /\ p[2 * v + 1] = e.stmt
      /\ \A m \in 1 .. v : p[2 * m] = e.index[m]
  BY PositionIs
<1>2. /\ w \in Nat /\ DOMAIN q = 1 .. 2 * w + 1 /\ q[2 * w + 1] = f.stmt
      /\ \A m \in 1 .. w : q[2 * m] = f.index[m]
  BY PositionIs
<1>3. v = w
  <2>1. \A k \in DOMAIN Position(f) \cap DOMAIN Position(e) : Position(f)[k] = Position(e)[k]
    OBVIOUS
  <2>2. ~(v < w) /\ ~(w < v)
    BY <2>1, NoLongerPosition
  <2> QED
    BY <1>1, <1>2, <2>2
<1>4. \A k \in DOMAIN p \cap DOMAIN q : p[k] = q[k]
  OBVIOUS
<1> HIDE DEF p, q
<1>5. \A k \in 1 .. 2 * v + 1 : p[k] = q[k]
  BY <1>1, <1>2, <1>3, <1>4
<1>6. e.stmt = f.stmt
  <2>1. 2 * v + 1 \in 1 .. 2 * v + 1
    BY <1>1
  <2> QED
    BY <1>1, <1>2, <1>3, <1>5, <2>1
<1>7. \A m \in 1 .. v : e.index[m] = f.index[m]
  <2> SUFFICES ASSUME NEW m \in 1 .. v PROVE e.index[m] = f.index[m]
    OBVIOUS
  <2>1. 2 * m \in 1 .. 2 * v + 1
    BY <1>1
  <2> QED
    BY <1>1, <1>2, <1>3, <1>5, <2>1
<1>8. /\ e.index \in Seq(Nat) /\ Len(e.index) = v
      /\ f.index \in Seq(Nat) /\ Len(f.index) = v
  BY <1>6, EventsAre, IndicesAre
<1>9. e.index = f.index
  BY <1>7, <1>8, SameSequences
<1> QED
  BY <1>6, <1>9, EventsAre

\* Events are totally ordered.
EventOrder == {d \in Events \X Events : Before(d[1], d[2])}

LEMMA EventsOrdered ==
  ASSUME code \in Programs
  PROVE  StrictOrder(EventOrder, Events)
<1>1. \A e, f \in Events : <<e, f>> \in EventOrder <=> Before(e, f)
  BY DEF EventOrder
<1>2. ASSUME NEW e \in Events
      PROVE  /\ \E n \in Nat : DOMAIN Position(e) = 1 .. n
             /\ \A k \in DOMAIN Position(e) : Position(e)[k] \in Int
  <2> DEFINE w == Len(Sweeps(e.stmt))
  <2>1. /\ w \in Nat /\ DOMAIN Position(e) = 1 .. 2 * w + 1
        /\ \A k \in 1 .. 2 * w + 1 : Position(e)[k] \in Int
    BY PositionIs
  <2>2. 2 * w + 1 \in Nat
    BY <2>1
  <2> QED
    BY <2>1, <2>2
<1>3. ASSUME NEW e \in Events PROVE ~Before(e, e)
  BY <1>2 DEF Before, Precedes
<1>4. ASSUME NEW e \in Events, NEW f \in Events, NEW g \in Events, Before(e, f), Before(f, g)
      PROVE  Before(e, g)
  <2> DEFINE p == Position(e)
             q == Position(f)
             r == Position(g)
  <2>1. PICK i \in DOMAIN p \cap DOMAIN q : p[i] < q[i] /\ \A j \in 1 .. (i - 1) : p[j] = q[j]
    BY <1>4 DEF Before, Precedes
  <2>2. PICK k \in DOMAIN q \cap DOMAIN r : q[k] < r[k] /\ \A j \in 1 .. (k - 1) : q[j] = r[j]
    BY <1>4 DEF Before, Precedes
  <2>3. PICK a \in Nat, b \in Nat, d \in Nat :
          DOMAIN p = 1 .. a /\ DOMAIN q = 1 .. b /\ DOMAIN r = 1 .. d
    BY <1>2
  <2>4. /\ \A j \in DOMAIN p : p[j] \in Int
        /\ \A j \in DOMAIN q : q[j] \in Int
        /\ \A j \in DOMAIN r : r[j] \in Int
    BY <1>2
  <2> HIDE DEF p, q, r
  <2>5. CASE i <= k
    <3>1. i \in DOMAIN p \cap DOMAIN r /\ \A j \in 1 .. (i - 1) : j \in 1 .. (k - 1)
      BY <2>3, <2>5
    <3>2. p[i] < r[i]
      <4>1. p[i] \in Int /\ q[i] \in Int /\ r[i] \in Int
        BY <2>4, <3>1
      <4>2. q[i] <= r[i]
        <5>1. CASE i = k
          BY <2>2, <2>4, <5>1
        <5>2. CASE i # k
          <6>1. i \in 1 .. (k - 1)
            BY <2>3, <2>5, <5>2
          <6> QED
            BY <2>2, <4>1, <6>1
        <5> QED
          BY <5>1, <5>2
      <4> QED
        BY <2>1, <4>1, <4>2
    <3>3. \A j \in 1 .. (i - 1) : p[j] = r[j]
      BY <2>1, <2>2, <3>1
    <3> QED
      BY <3>1, <3>2, <3>3 DEF Before, Precedes, p, r
  <2>6. CASE k < i
    <3>1. k \in DOMAIN p \cap DOMAIN r /\ k \in 1 .. (i - 1)
          /\ \A j \in 1 .. (k - 1) : j \in 1 .. (i - 1)
      BY <2>3, <2>6
    <3>2. p[k] = q[k]
      BY <2>1, <3>1
    <3>3. p[k] < r[k]
      BY <2>2, <3>2
    <3>4. \A j \in 1 .. (k - 1) : p[j] = r[j]
      BY <2>1, <2>2, <3>1
    <3> QED
      BY <3>1, <3>3, <3>4 DEF Before, Precedes, p, r
  <2>7. i <= k \/ k < i
    BY <2>3
  <2> QED
    BY <2>5, <2>6, <2>7
<1>5. ASSUME NEW e \in Events, NEW f \in Events, e # f PROVE Before(e, f) \/ Before(f, e)
  <2> DEFINE p == Position(e)
             q == Position(f)
             differ == {k \in DOMAIN p \cap DOMAIN q : p[k] # q[k]}
  <2>1. differ # {}
    BY <1>5, SamePosition
  <2>2. differ \in SUBSET Nat
    BY <1>2
  <2>3. PICK k \in differ : \A j \in differ : k <= j
    <3> HIDE DEF differ
    <3> QED
      BY <2>1, <2>2, Least
  <2>4. p[k] \in Int /\ q[k] \in Int /\ k \in DOMAIN p \cap DOMAIN q /\ p[k] # q[k]
    BY <1>2
  <2>5. ASSUME NEW j \in 1 .. (k - 1) PROVE p[j] = q[j]
    <3>1. PICK a \in Nat, b \in Nat : DOMAIN p = 1 .. a /\ DOMAIN q = 1 .. b
      BY <1>2
    <3> HIDE DEF p, q
    <3>2. k \in Nat /\ j \in DOMAIN p \cap DOMAIN q /\ ~(k <= j)
      BY <3>1, <2>4
    <3>3. j \notin differ
      BY <2>3, <3>2
    <3> QED
      BY <3>2, <3>3
  <2>6. p[k] < q[k] \/ q[k] < p[k]
    BY <2>4
  <2> QED
    BY <2>4, <2>5, <2>6 DEF Before, Precedes
<1> QED
  BY <1>1, <1>3, <1>4, <1>5 DEF StrictOrder

(* The list of simultaneous acquires has each event of a shot.              *)
LEMMA AllAcquired ==
  ASSUME code \in Programs
  PROVE  LET n == Cardinality(Events)
         IN  /\ n \in Nat /\ DOMAIN SimultaneousAcquires = 1 .. n
             /\ \A k \in 1 .. n : SimultaneousAcquires[k] \in Events
             /\ \A e \in Events : \E k \in 1 .. n : SimultaneousAcquires[k] = e
<1> DEFINE n == Cardinality(Events)
           rank(e) == Cardinality(UpToEvent(e))
<1>1. ASSUME NEW e \in Events PROVE UpToEvent(e) = UpToIn(EventOrder, Events, e)
  BY DEF UpToEvent, UpToIn, EventOrder
<1>2. IsFiniteSet(Events) /\ StrictOrder(EventOrder, Events)
  BY EventsAre, EventsOrdered
<1>3. /\ n \in Nat
      /\ \A y \in Events : Cardinality(UpToIn(EventOrder, Events, y)) \in 1 .. n
      /\ \A k \in 1 .. n : \E y \in Events : Cardinality(UpToIn(EventOrder, Events, y)) = k
      /\ \A x, y \in Events :
           Cardinality(UpToIn(EventOrder, Events, x)) = Cardinality(UpToIn(EventOrder, Events, y))
             => x = y
  BY <1>2, RanksIn
<1>4. /\ \A e \in Events : rank(e) \in 1 .. n
      /\ \A k \in 1 .. n : \E e \in Events : rank(e) = k
      /\ \A e, f \in Events : rank(e) = rank(f) => e = f
  BY <1>1, <1>3
<1>5. SimultaneousAcquires = [k \in 1 .. n |-> CHOOSE e \in Events : rank(e) = k]
  BY DEF SimultaneousAcquires
<1> HIDE DEF n, rank
<1>6. ASSUME NEW k \in 1 .. n
      PROVE  SimultaneousAcquires[k] \in Events /\ rank(SimultaneousAcquires[k]) = k
  BY <1>4, <1>5
<1>7. \A e \in Events : SimultaneousAcquires[rank(e)] = e
  BY <1>4, <1>6
<1> QED
  BY <1>3, <1>4, <1>5, <1>6, <1>7 DEF n

-----------------------------------------------------------------------------
(* The shapes of results.                                                  *)

(* Of two sets one below the other, first the one and then the other.       *)
LEMMA SortedUnion ==
  ASSUME NEW A \in SUBSET Int, NEW B \in SUBSET Int, IsFiniteSet(A), IsFiniteSet(B),
         \A x \in A : \A y \in B : x < y
  PROVE  /\ IsFiniteSet(A \cup B)
         /\ Cardinality(A \cup B) = Cardinality(A) + Cardinality(B)
         /\ \A k \in 1 .. Cardinality(A) : Sorted(A \cup B)[k] = Sorted(A)[k]
         /\ \A k \in 1 .. Cardinality(B) : Sorted(A \cup B)[Cardinality(A) + k] = Sorted(B)[k]
<1> DEFINE U == A \cup B
           a == Cardinality(A)
           b == Cardinality(B)
<1>1. a \in Nat /\ b \in Nat
  BY FS_CardinalityType
<1>2. \A x \in A : x \notin B
  OBVIOUS
<1>3. IsFiniteSet(U) /\ Cardinality(U) = a + b
  <2>1. A \cap B = {}
    BY <1>2
  <2>2. Cardinality(A \cap B) = 0
    BY <2>1, FS_EmptySet
  <2> QED
    BY <1>1, <2>2, FS_Union
<1>4. U \in SUBSET Int
  OBVIOUS
<1>5. \A x \in U : Sorted(U)[Cardinality(UpTo(U, x))] = x
  <2> HIDE DEF U
  <2> QED
    BY <1>3, <1>4, SortedIs
<1>6. /\ \A k \in 1 .. a : Sorted(A)[k] \in A /\ Cardinality(UpTo(A, Sorted(A)[k])) = k
      /\ \A k \in 1 .. b : Sorted(B)[k] \in B /\ Cardinality(UpTo(B, Sorted(B)[k])) = k
  BY SortedIs
<1>7. ASSUME NEW k \in 1 .. a PROVE Sorted(U)[k] = Sorted(A)[k]
  <2> DEFINE x == Sorted(A)[k]
  <2>1. x \in A /\ Cardinality(UpTo(A, x)) = k /\ x \in U
    BY <1>6
  <2> HIDE DEF x
  <2>2. UpTo(U, x) = UpTo(A, x)
    <3>1. \A y \in B : ~(y <= x)
      BY <2>1
    <3> QED
      BY <3>1 DEF UpTo
  <2> QED
    BY <1>5, <2>1, <2>2 DEF x
<1>8. ASSUME NEW k \in 1 .. b PROVE Sorted(U)[a + k] = Sorted(B)[k]
  <2> DEFINE x == Sorted(B)[k]
             T == UpTo(B, x)
  <2>1. x \in B /\ Cardinality(T) = k /\ x \in U
    BY <1>6
  <2> HIDE DEF x
  <2>2. UpTo(U, x) = A \cup T
    <3>1. \A y \in A : y <= x
      BY <2>1
    <3> QED
      BY <3>1 DEF UpTo
  <2>3. A \cap T = {} /\ T \in SUBSET B
    BY <1>2 DEF UpTo
  <2>4. IsFiniteSet(T)
    BY <2>3, FS_Subset
  <2> HIDE DEF T
  <2>5. Cardinality(A \cap T) = 0
    BY <2>3, FS_EmptySet
  <2>6. Cardinality(A \cup T) = a + k
    <3>1. Cardinality(A \cup T) = Cardinality(A) + Cardinality(T) - Cardinality(A \cap T)
      BY <2>4, FS_Union
    <3> QED
      BY <1>1, <2>1, <2>5, <3>1
  <2>7. Sorted(U)[Cardinality(UpTo(U, x))] = x
    BY <1>5, <2>1
  <2> QED
    BY <2>2, <2>6, <2>7 DEF x
<1> QED
  BY <1>3, <1>7, <1>8

(* An acquire is in the real-time loop.                                     *)
LEMMA AcquireInside ==
  ASSUME code \in Programs, NEW i, AcquireAt(i)
  PROVE  i \in Nat /\ RtAt < i /\ i < code[RtAt].end
<1>1. PICK r \in LoopsOf(code) : code[r].op = "rt" /\ r < i /\ i < code[r].end
  BY AcquiresAssumption DEF AcquireAt
<1>2. r = RtAt
  BY <1>1, RealTime DEF LoopsOf
<1> QED
  BY <1>1, <1>2, Structure DEF AcquireAt

\* The axis of the shots, if each is kept.
Shots == IF code[RtAt].singleShot THEN {RtAt} ELSE {}
ShotAxes == IF code[RtAt].singleShot THEN 1 ELSE 0

LEMMA LoopsWithAxis ==
  ASSUME code \in Programs, NEW i, AcquireAt(i)
  PROVE  {j \in LoopsAround(i) : HasAxis(j)} = (AxisSet \cup Shots) \cup Inner(i)
<1>1. /\ i \in Nat /\ RtAt < i /\ i < code[RtAt].end
      /\ RtAt \in DOMAIN code /\ code[RtAt].op = "rt"
      /\ RtAt \in Nat /\ code[RtAt].end \in Nat
  BY AcquireInside, RealTime
<1>2. ASSUME NEW j \in DOMAIN code, Loop(j)
      PROVE  j \in Nat /\ code[j].end \in Nat /\ j \in LoopsOf(code)
  BY <1>2, Structure DEF Loop, LoopsOf
<1>3. ASSUME NEW j \in DOMAIN code, Loop(j), j < RtAt
      PROVE  j \in LoopsAround(i) <=> j \in LoopsAround(RtAt)
  <2>1. j \in Nat /\ code[j].end \in Nat
    BY <1>2, <1>3
  <2>2. RtAt < code[j].end => code[RtAt].end < code[j].end
    BY <1>1, <1>3, <2>1, Structure DEF Loop
  <2>3. i < code[j].end <=> RtAt < code[j].end
    BY <1>1, <2>1, <2>2
  <2> QED
    BY <1>1, <1>3, <2>1, <2>3 DEF LoopsAround
<1>4. RtAt \in LoopsAround(i) /\ (HasAxis(RtAt) <=> RtAt \in Shots)
  <2>1. RtAt \in LoopsOf(code)
    BY <1>1 DEF LoopsOf
  <2>2. code[RtAt].kind = "average"
    BY <1>1, <2>1, AroundAssumption
  <2> QED
    BY <1>1, <2>2 DEF LoopsAround, Loop, HasAxis, Shots
<1>5. ASSUME NEW j \in DOMAIN code, Loop(j), j > RtAt PROVE HasAxis(j)
  <2>1. j \in LoopsOf(code) /\ j \in Nat
    BY <1>2, <1>5
  <2>2. code[j].op = "for"
    <3>1. code[j].op = "rt" => j = RtAt
      BY RealTime
    <3> QED
      BY <1>1, <1>5, <2>1, <3>1 DEF Loop
  <2>3. code[j].kind # "average"
    BY <2>1, <2>2, AroundAssumption
  <2>4. code[j].kind # "pipeline"
    <3>1. code[j].kind = "pipeline" => RtAt = j + 1
      BY <2>2, ChunkLoop
    <3> QED
      BY <1>1, <1>5, <2>1, <3>1
  <2> QED
    BY <2>3, <2>4 DEF HasAxis
<1>6. ASSUME NEW j \in AxisSet PROVE j \in DOMAIN code /\ Loop(j) /\ j < RtAt
  BY DEF AxisSet, LoopsAround
<1>7. ASSUME NEW j \in LoopsAround(i), HasAxis(j)
      PROVE  j \in (AxisSet \cup Shots) \cup Inner(i)
  <2>1. j \in DOMAIN code /\ Loop(j)
    BY DEF LoopsAround
  <2>2. j < RtAt \/ j = RtAt \/ j > RtAt
    BY <1>1, <1>2, <2>1
  <2>3. CASE j < RtAt
    BY <1>3, <1>7, <2>1, <2>3 DEF AxisSet
  <2>4. CASE j = RtAt
    BY <1>4, <1>7, <2>4
  <2>5. CASE j > RtAt
    BY <2>5 DEF Inner
  <2> QED
    BY <2>2, <2>3, <2>4, <2>5
<1>8. ASSUME NEW j \in AxisSet PROVE j \in LoopsAround(i) /\ HasAxis(j)
  BY <1>3, <1>6, <1>8 DEF AxisSet
<1>9. ASSUME NEW j \in Shots PROVE j \in LoopsAround(i) /\ HasAxis(j)
  <2>1. j = RtAt
    BY DEF Shots
  <2> QED
    BY <1>4, <2>1, <1>9
<1>10. ASSUME NEW j \in Inner(i) PROVE j \in LoopsAround(i) /\ HasAxis(j)
  BY <1>5 DEF Inner, LoopsAround
<1> QED
  BY <1>7, <1>8, <1>9, <1>10

LEMMA SeqWithin ==
  ASSUME NEW S, NEW T, S \in SUBSET T, NEW s \in Seq(S)
  PROVE  s \in Seq(T)
OBVIOUS

(* The axes of an acquire: those of near time, the shots, then its sweeps.  *)
LEMMA AxesOfAcquire ==
  ASSUME code \in Programs, NEW i, AcquireAt(i)
  PROVE  LET m == Len(NtAxes)
             w == Len(Sweeps(i))
         IN  /\ m \in Nat /\ w \in Nat
             /\ Axes(i) \in Seq(Int) /\ Len(Axes(i)) = (m + ShotAxes) + w
             /\ DOMAIN Axes(i) = 1 .. ((m + ShotAxes) + w)
             /\ \A k \in 1 .. ((m + ShotAxes) + w) : code[Axes(i)[k]].count \in Nat \ {0}
             /\ ShotAxes = 1 => Axes(i)[m + 1] = RtAt
             /\ \A k \in 1 .. w : Axes(i)[(m + ShotAxes) + k] = Sweeps(i)[k]
<1> DEFINE m == Len(NtAxes)
           w == Len(Sweeps(i))
           A == AxisSet
           B == Shots
           C == Inner(i)
           AB == A \cup B
           U == AB \cup C
<1>1. A \in SUBSET Int /\ IsFiniteSet(A) /\ NtAxes = Sorted(A) /\ \A j \in A : j < RtAt
  BY AxesAre DEF IsAxis
<1>2. C \in SUBSET Int /\ IsFiniteSet(C) /\ Sweeps(i) = Sorted(C) /\ \A j \in C : j > RtAt
  BY SweepsAre DEF Inner
<1>3. RtAt \in Nat /\ RtAt \in DOMAIN code /\ Loop(RtAt)
  BY RealTime DEF Loop
<1>4. B \in SUBSET Int /\ IsFiniteSet(B) /\ Cardinality(B) = ShotAxes /\ \A j \in B : j = RtAt
  <2>1. CASE code[RtAt].singleShot
    <3>1. B = {RtAt} /\ ShotAxes = 1
      BY <2>1 DEF Shots, ShotAxes
    <3>2. IsFiniteSet({RtAt}) /\ Cardinality({RtAt}) = 1
      BY FS_Singleton
    <3> QED
      BY <1>3, <3>1, <3>2
  <2>2. CASE ~code[RtAt].singleShot
    <3>1. B = {} /\ ShotAxes = 0
      BY <2>2 DEF Shots, ShotAxes
    <3> QED
      BY <3>1, FS_EmptySet
  <2> QED
    BY <2>1, <2>2
<1>5. Axes(i) = Sorted(U)
  BY LoopsWithAxis DEF Axes
<1>6. /\ Cardinality(A) \in Nat /\ Len(Sorted(A)) = Cardinality(A)
  BY <1>1, SortedIs
<1>7. /\ Cardinality(C) \in Nat /\ Len(Sorted(C)) = Cardinality(C)
  BY <1>2, SortedIs
<1>8. /\ Cardinality(B) \in Nat
      /\ \A k \in 1 .. Cardinality(B) : Sorted(B)[k] \in B
  BY <1>4, SortedIs
<1>9. \A j \in U : j \in DOMAIN code /\ Loop(j)
  BY <1>3, <1>4 DEF AxisSet, LoopsAround, Inner
<1>10. m = Cardinality(A) /\ w = Cardinality(C)
  BY <1>1, <1>2, <1>6, <1>7
<1> HIDE DEF m, w, A, B, C
<1>11. \A x \in A : \A y \in B : x < y
  BY <1>1, <1>4
<1>12. /\ IsFiniteSet(AB) /\ Cardinality(AB) = Cardinality(A) + Cardinality(B)
       /\ \A k \in 1 .. Cardinality(B) : Sorted(AB)[Cardinality(A) + k] = Sorted(B)[k]
  BY <1>1, <1>4, <1>11, SortedUnion
<1>13. AB \in SUBSET Int /\ \A x \in AB : \A y \in C : x < y
  <2>1. ASSUME NEW x \in AB PROVE x \in Int /\ x <= RtAt
    BY <1>1, <1>3, <1>4
  <2> QED
    BY <1>2, <1>3, <2>1
<1> HIDE DEF AB
<1>14. /\ IsFiniteSet(U) /\ Cardinality(U) = Cardinality(AB) + Cardinality(C)
       /\ \A k \in 1 .. Cardinality(AB) : Sorted(U)[k] = Sorted(AB)[k]
       /\ \A k \in 1 .. Cardinality(C) : Sorted(U)[Cardinality(AB) + k] = Sorted(C)[k]
  BY <1>2, <1>12, <1>13, SortedUnion
<1>15. U \in SUBSET Int
  BY <1>2, <1>13
<1> HIDE DEF U
<1>16. /\ Sorted(U) \in Seq(U) /\ Len(Sorted(U)) = Cardinality(U)
       /\ DOMAIN Sorted(U) = 1 .. Cardinality(U)
       /\ \A k \in 1 .. Cardinality(U) : Sorted(U)[k] \in U
  BY <1>14, <1>15, SortedIs
<1>17. ShotAxes \in Nat /\ m \in Nat /\ w \in Nat
  BY <1>4, <1>6, <1>7, <1>8, <1>10
<1>18. Cardinality(AB) = m + ShotAxes /\ Cardinality(U) = (m + ShotAxes) + w
  BY <1>4, <1>10, <1>12, <1>14
<1>19. /\ Axes(i) \in Seq(Int) /\ Len(Axes(i)) = (m + ShotAxes) + w
       /\ DOMAIN Axes(i) = 1 .. ((m + ShotAxes) + w)
  <2>1. Sorted(U) \in Seq(Int)
    BY <1>15, <1>16, SeqWithin
  <2> QED
    BY <1>5, <1>16, <1>18, <2>1
<1>20. ASSUME NEW k \in 1 .. ((m + ShotAxes) + w) PROVE code[Axes(i)[k]].count \in Nat \ {0}
  <2>1. Axes(i)[k] \in U
    BY <1>5, <1>16, <1>18
  <2>2. Axes(i)[k] \in DOMAIN code /\ Loop(Axes(i)[k])
    BY <1>9, <2>1
  <2> QED
    BY <2>2, Structure DEF Loop
<1>21. ASSUME ShotAxes = 1 PROVE Axes(i)[m + 1] = RtAt
  <2>1. 1 \in 1 .. Cardinality(B)
    BY <1>4, <1>21
  <2>2. Sorted(B)[1] = RtAt
    BY <1>4, <1>8, <2>1
  <2>3. Sorted(AB)[m + 1] = RtAt
    BY <1>10, <1>12, <2>1, <2>2
  <2>4. m + 1 \in 1 .. Cardinality(AB)
    BY <1>17, <1>18, <1>21
  <2> QED
    BY <1>5, <1>14, <2>3, <2>4
<1>22. ASSUME NEW k \in 1 .. w PROVE Axes(i)[(m + ShotAxes) + k] = Sweeps(i)[k]
  <2>1. Sorted(U)[Cardinality(AB) + k] = Sorted(C)[k]
    BY <1>10, <1>14
  <2> QED
    BY <1>2, <1>5, <1>18, <2>1
<1> QED
  BY <1>17, <1>19, <1>20, <1>21, <1>22 DEF m, w

\* A handle is that of some acquires, each on the same signal.
LEMMA AcquiresOfAre ==
  ASSUME code \in Programs, NEW h \in Handles
  PROVE  /\ AcquiresOf(h) \in SUBSET Int /\ IsFiniteSet(AcquiresOf(h)) /\ AcquiresOf(h) # {}
         /\ Cardinality(AcquiresOf(h)) \in Nat \ {0}
         /\ \A i \in AcquiresOf(h) : AcquireAt(i)
         /\ \E s \in Signals : \A i \in AcquiresOf(h) :
              /\ s \in DOMAIN Acquires(i) /\ Acquires(i)[s] = h
              /\ \A t \in DOMAIN Acquires(i) : Acquires(i)[t] = h => t = s
<1>1. DOMAIN code = 1 .. Len(code) /\ Len(code) \in Nat
  BY Structure
<1>2. AcquiresOf(h) \in SUBSET (1 .. Len(code))
  BY <1>1 DEF AcquiresOf
<1>3. IsFiniteSet(AcquiresOf(h))
  <2>1. IsFiniteSet(1 .. Len(code))
    BY <1>1, FS_Interval
  <2> QED
    BY <1>2, <2>1, FS_Subset
<1>4. AcquiresOf(h) # {}
  BY DEF Handles, AcquiresOf
<1>5. Cardinality(AcquiresOf(h)) \in Nat \ {0}
  BY <1>3, <1>4, FS_CardinalityType, FS_EmptySet
<1>6. ASSUME NEW i \in AcquiresOf(h)
      PROVE  /\ AcquireAt(i) /\ Acquires(i) = code[i].handles
             /\ \E s \in DOMAIN Acquires(i) : Acquires(i)[s] = h
  <2>1. PICK s \in DOMAIN Acquires(i) : Acquires(i)[s] = h
    BY DEF AcquiresOf, HandlesAt
  <2>2. code[i].op = "acquire"
    BY <2>1 DEF Acquires
  <2> QED
    BY <2>1, <2>2 DEF AcquiresOf, AcquireAt, Acquires
<1>7. PICK j \in AcquiresOf(h) : TRUE
  BY <1>4
<1>8. PICK s \in DOMAIN Acquires(j) : Acquires(j)[s] = h
  BY <1>6
<1>9. ASSUME NEW i \in AcquiresOf(h), NEW t \in DOMAIN Acquires(i), Acquires(i)[t] = h
      PROVE  t = s
  <2>1. i \in {k \in DOMAIN code : code[k].op = "acquire"}
        /\ j \in {k \in DOMAIN code : code[k].op = "acquire"}
    BY <1>6 DEF AcquireAt
  <2>2. Acquires(i) = code[i].handles /\ Acquires(j) = code[j].handles
    BY <1>6
  <2>3. code[i].handles[t] = code[j].handles[s]
        /\ t \in DOMAIN code[i].handles /\ s \in DOMAIN code[j].handles
    BY <1>8, <1>9, <2>2
  <2> QED
    BY <2>1, <2>3, AcquiresAssumption
<1>10. s \in Signals
  <2>1. j \in {k \in DOMAIN code : code[k].op = "acquire"} /\ s \in DOMAIN code[j].handles
    BY <1>6, <1>8 DEF AcquireAt
  <2> QED
    BY <2>1, AcquiresAssumption
<1>11. ASSUME NEW i \in AcquiresOf(h)
       PROVE  /\ s \in DOMAIN Acquires(i) /\ Acquires(i)[s] = h
              /\ \A t \in DOMAIN Acquires(i) : Acquires(i)[t] = h => t = s
  BY <1>6, <1>9
<1> QED
  BY <1>1, <1>2, <1>3, <1>4, <1>5, <1>6, <1>10, <1>11

\* All its acquires have one shape, whose part in real time is the shots, the
\* sweeps in real time and which acquire of the handle it is.
LEMMA RtShapeIs ==
  ASSUME code \in Programs, ShapesAgree, NEW h \in Handles, NEW i \in AcquiresOf(h)
  PROVE  LET n == Cardinality(AcquiresOf(h))
             w == Len(Sweeps(i))
             d == RtShape(h)
             more == IF n > 1 THEN 1 ELSE 0
         IN  /\ Len(d) = (ShotAxes + w) + more /\ DOMAIN d = 1 .. ((ShotAxes + w) + more)
             /\ \A k \in 1 .. ((ShotAxes + w) + more) : d[k] \in Nat
             /\ Len(Shape(h)) = Len(NtAxes) + Len(d)
             /\ ShotAxes = 1 => d[1] = code[RtAt].count
             /\ \A k \in 1 .. w : d[ShotAxes + k] = code[Sweeps(i)[k]].count
             /\ n > 1 => d[(ShotAxes + w) + 1] = n
<1> DEFINE n == Cardinality(AcquiresOf(h))
           w == Len(Sweeps(i))
           d == RtShape(h)
           more == IF n > 1 THEN 1 ELSE 0
           m == Len(NtAxes)
           a == ShotAxes
           base == BaseShape(i)
           s == Shape(h)
<1>1. n \in Nat \ {0} /\ AcquireAt(i)
  BY AcquiresOfAre
<1>2. /\ m \in Nat /\ w \in Nat
      /\ DOMAIN Axes(i) = 1 .. ((m + a) + w)
      /\ \A k \in 1 .. ((m + a) + w) : code[Axes(i)[k]].count \in Nat \ {0}
      /\ a = 1 => Axes(i)[m + 1] = RtAt
      /\ \A k \in 1 .. w : Axes(i)[(m + a) + k] = Sweeps(i)[k]
  BY <1>1, AxesOfAcquire
<1>3. a \in 0 .. 1
  BY DEF ShotAxes
<1>4. BaseShape(CHOOSE j \in AcquiresOf(h) : TRUE) = base
  BY DEF ShapesAgree
<1>5. s = IF n > 1 THEN Append(base, n) ELSE base
  BY <1>4 DEF Shape
<1>6. base = [k \in 1 .. ((m + a) + w) |-> code[Axes(i)[k]].count]
  BY <1>2 DEF BaseShape
<1>7. d = SubSeq(s, m + 1, Len(s))
  BY DEF RtShape
<1> HIDE DEF n, w, d, m, a, base, s
<1> DEFINE l == (m + a) + w
<1>8. l \in Nat
  BY <1>2, <1>3
<1>9. base \in [1 .. l -> Nat] /\ \A k \in 1 .. l : base[k] = code[Axes(i)[k]].count
  BY <1>2, <1>6
<1> HIDE DEF l
<1>10. base \in Seq(Nat) /\ Len(base) = l /\ DOMAIN base = 1 .. l
  BY <1>8, <1>9, SeqByElements
<1>11. /\ s \in Seq(Nat) /\ Len(s) = l + more
       /\ \A k \in 1 .. l : s[k] = code[Axes(i)[k]].count
       /\ n > 1 => s[l + 1] = n
  <2>1. CASE n > 1
    <3>1. n \in Nat
      BY <1>1
    <3>2. /\ Append(base, n) \in Seq(Nat) /\ Len(Append(base, n)) = Len(base) + 1
          /\ \A k \in 1 .. Len(base) : Append(base, n)[k] = base[k]
          /\ Append(base, n)[Len(base) + 1] = n
      BY <1>10, <3>1, AppendOf
    <3> QED
      BY <1>5, <1>9, <1>10, <2>1, <3>2
  <2>2. CASE ~(n > 1)
    BY <1>5, <1>8, <1>9, <1>10, <2>2
  <2> QED
    BY <2>1, <2>2
<1>12. more \in 0 .. 1 /\ (n > 1 => more = 1) /\ (more = 1 => n > 1)
  OBVIOUS
<1> HIDE DEF more
<1>13. Len(s) - m = (a + w) + more /\ m \in 0 .. Len(s) /\ l = (m + a) + w
  BY <1>2, <1>3, <1>11, <1>12 DEF l
<1>14. /\ Len(d) = Len(s) - m /\ DOMAIN d = 1 .. (Len(s) - m) /\ d \in Seq(Nat)
       /\ \A k \in 1 .. (Len(s) - m) : d[k] = s[m + k]
  <2>1. LET t == SubSeq(s, m + 1, Len(s))
        IN  /\ t \in Seq(Nat) /\ Len(t) = Len(s) - m /\ DOMAIN t = 1 .. (Len(s) - m)
            /\ \A k \in 1 .. (Len(s) - m) : t[k] = s[m + k]
    BY <1>11, <1>13, SuffixElements
  <2> QED
    BY <1>7, <2>1
<1>15. Len(d) = (a + w) + more /\ DOMAIN d = 1 .. ((a + w) + more)
  BY <1>13, <1>14
<1>16. \A k \in 1 .. ((a + w) + more) : d[k] \in Nat /\ d[k] = s[m + k]
  BY <1>13, <1>14
<1>17. ASSUME a = 1 PROVE d[1] = code[RtAt].count
  <2>1. 1 \in 1 .. ((a + w) + more) /\ m + 1 \in 1 .. l
    BY <1>2, <1>12, <1>13, <1>17
  <2> QED
    BY <1>2, <1>11, <1>16, <1>17, <2>1
<1>18. ASSUME NEW k \in 1 .. w PROVE d[a + k] = code[Sweeps(i)[k]].count
  <2> DEFINE q == a + k
  <2>1. q \in 1 .. ((a + w) + more) /\ (m + a) + k \in 1 .. l /\ m + q = (m + a) + k
    BY <1>2, <1>3, <1>12, <1>13
  <2> HIDE DEF q
  <2>2. d[q] = s[m + q]
    BY <1>16, <2>1
  <2>3. s[(m + a) + k] = code[Axes(i)[(m + a) + k]].count
    BY <1>11, <2>1
  <2>4. Axes(i)[(m + a) + k] = Sweeps(i)[k]
    BY <1>2
  <2> QED
    BY <2>1, <2>2, <2>3, <2>4 DEF q
<1>19. ASSUME n > 1 PROVE d[(a + w) + 1] = n
  <2> DEFINE q == (a + w) + 1
  <2>1. q \in 1 .. ((a + w) + more) /\ m + q = l + 1
    BY <1>2, <1>3, <1>12, <1>13, <1>19
  <2> HIDE DEF q
  <2>2. d[q] = s[m + q]
    BY <1>16, <2>1
  <2> QED
    BY <1>11, <1>19, <2>1, <2>2 DEF q
<1>20. Len(s) = m + Len(d)
  BY <1>2, <1>11, <1>13, <1>14
<1> QED
  BY <1>15, <1>16, <1>17, <1>18, <1>19, <1>20 DEF n, w, d, more, m, a, s

-----------------------------------------------------------------------------
(* What a result has room for and what the instrument delivers.            *)

\* The loops each value of a result in real time belongs to, and the shot.
ShotOf(x) == IF ShotAxes = 1 THEN x[1] ELSE 0
StmtOf(h, x) ==
  Sorted(AcquiresOf(h))[IF Cardinality(AcquiresOf(h)) > 1 THEN x[Len(x)] + 1 ELSE 1]
EventOf(h, x) ==
  [stmt |-> StmtOf(h, x),
   index |-> [k \in 1 .. Len(Sweeps(StmtOf(h, x))) |-> x[ShotAxes + k]]]

LEMMA RepeatsAre ==
  ASSUME code \in Programs
  PROVE  Repeats \in Nat \ {0}
<1>1. code[RtAt].count \in Nat \ {0}
  BY RealTime, Structure
<1> QED
  BY <1>1 DEF Repeats

(* Each place of the array belongs to an event of a shot, and no two to the *)
(* same.                                                                    *)
LEMMA CellEvent ==
  ASSUME code \in Programs, ShapesAgree, NEW h \in Handles, NEW x \in Tuples(RtShape(h))
  PROVE  /\ ShotOf(x) \in 0 .. Repeats - 1
         /\ StmtOf(h, x) \in AcquiresOf(h) /\ EventOf(h, x) \in Events
<1> DEFINE c == Cardinality(AcquiresOf(h))
           d == RtShape(h)
           i == StmtOf(h, x)
           w == Len(Sweeps(i))
           more == IF c > 1 THEN 1 ELSE 0
           a == ShotAxes
           e == EventOf(h, x)
<1>1. /\ AcquiresOf(h) \in SUBSET Int /\ IsFiniteSet(AcquiresOf(h)) /\ c \in Nat \ {0}
      /\ \A j \in AcquiresOf(h) : AcquireAt(j)
      /\ AcquiresOf(h) # {}
  BY AcquiresOfAre
<1>2. a \in 0 .. 1
  BY DEF ShotAxes
<1>3. \A j \in AcquiresOf(h) :
        /\ Len(Sweeps(j)) \in Nat
        /\ Len(d) = (a + Len(Sweeps(j))) + more
        /\ DOMAIN d = 1 .. ((a + Len(Sweeps(j))) + more)
        /\ \A k \in 1 .. ((a + Len(Sweeps(j))) + more) : d[k] \in Nat
        /\ a = 1 => d[1] = code[RtAt].count
        /\ \A k \in 1 .. Len(Sweeps(j)) : d[a + k] = code[Sweeps(j)[k]].count
        /\ c > 1 => d[(a + Len(Sweeps(j))) + 1] = c
  BY RtShapeIs, SweepsAre
<1>4. PICK j0 \in AcquiresOf(h) : TRUE
  BY <1>1
<1> HIDE DEF c, d, more, a
<1>5. more \in 0 .. 1 /\ (c > 1 => more = 1) /\ (c <= 1 => more = 0)
  BY <1>1 DEF more
<1>6. /\ Len(d) \in Nat /\ DOMAIN d = 1 .. Len(d) /\ \A k \in 1 .. Len(d) : d[k] \in Nat
  BY <1>2, <1>3, <1>4, <1>5
<1>7. /\ x \in Seq(Nat) /\ Len(x) = Len(d)
      /\ \A k \in 1 .. Len(d) : x[k] \in Nat /\ x[k] < d[k]
  BY <1>6, TuplesAre DEF d
<1>8. i \in AcquiresOf(h)
  <2>1. /\ DOMAIN Sorted(AcquiresOf(h)) = 1 .. c
        /\ \A k \in 1 .. c : Sorted(AcquiresOf(h))[k] \in AcquiresOf(h)
    BY <1>1, SortedIs DEF c
  <2>2. CASE c > 1
    <3>1. x[Len(x)] \in Nat /\ x[Len(x)] < c
      <4>1. d[Len(d)] = c /\ Len(d) \in 1 .. Len(d)
        BY <1>2, <1>3, <1>4, <1>5, <2>2
      <4> QED
        BY <1>7, <4>1
    <3>2. x[Len(x)] + 1 \in 1 .. c
      BY <1>1, <3>1
    <3> QED
      BY <2>1, <2>2, <3>2 DEF StmtOf, c
  <2>3. CASE ~(c > 1)
    <3>1. 1 \in 1 .. c
      BY <1>1
    <3> QED
      BY <2>1, <2>3, <3>1 DEF StmtOf, c
  <2> QED
    BY <2>2, <2>3
<1> HIDE DEF i
<1>9. ShotOf(x) \in 0 .. Repeats - 1
  <2>1. CASE code[RtAt].singleShot
    <3>1. a = 1 /\ Repeats = code[RtAt].count /\ ShotOf(x) = x[1]
      BY <2>1 DEF a, ShotAxes, Repeats, ShotOf
    <3>2. d[1] = code[RtAt].count /\ 1 \in 1 .. Len(d)
      BY <1>3, <1>4, <1>5, <3>1
    <3>3. x[1] \in Nat /\ x[1] < Repeats
      BY <1>7, <3>1, <3>2
    <3>4. Repeats \in Nat
      BY RepeatsAre
    <3> QED
      BY <3>1, <3>3, <3>4
  <2>2. CASE ~code[RtAt].singleShot
    <3>1. Repeats = 1 /\ ShotOf(x) = 0
      BY <2>2 DEF Repeats, ShotOf, ShotAxes
    <3> QED
      BY <3>1
  <2> QED
    BY <2>1, <2>2
<1>10. e.index \in Indices(Sweeps(i))
  <2> DEFINE y == [k \in 1 .. w |-> x[a + k]]
  <2>1. e.index = y
    BY DEF EventOf, i, a
  <2>2. w \in Nat /\ Len(d) = (a + w) + more
        /\ \A k \in 1 .. w : d[a + k] = code[Sweeps(i)[k]].count
    BY <1>3, <1>8
  <2> HIDE DEF w
  <2>3. ASSUME NEW k \in 1 .. w PROVE x[a + k] \in Nat /\ x[a + k] < code[Sweeps(i)[k]].count
    <3>1. a + k \in 1 .. Len(d)
      BY <1>2, <1>5, <2>2
    <3> QED
      BY <1>7, <2>2, <3>1
  <2>4. y \in [1 .. w -> Nat]
    BY <2>3
  <2>5. y \in Seq(Nat) /\ Len(y) = w
    BY <2>2, <2>4, SeqByElements
  <2>6. \A k \in 1 .. w : y[k] < code[Sweeps(i)[k]].count
    BY <2>3
  <2> HIDE DEF y
  <2>7. y \in Indices(Sweeps(i))
    BY <2>5, <2>6, IndicesAre DEF w
  <2> QED
    BY <2>1, <2>7
<1>11. e \in Events
  <2>1. e = [stmt |-> i, index |-> e.index]
    BY DEF EventOf, i
  <2>2. AcquireAt(i)
    BY <1>1, <1>8
  <2> HIDE DEF e
  <2>3. [stmt |-> i, index |-> e.index] \in Events
    BY <1>10, <2>2, EventsAre
  <2> QED
    BY <2>1, <2>3
<1> QED
  BY <1>8, <1>9, <1>11 DEF i, e

LEMMA CellEventOnce ==
  ASSUME code \in Programs, ShapesAgree, NEW h \in Handles,
         NEW x \in Tuples(RtShape(h)), NEW y \in Tuples(RtShape(h)),
         ShotOf(x) = ShotOf(y), EventOf(h, x) = EventOf(h, y)
  PROVE  x = y
<1> DEFINE c == Cardinality(AcquiresOf(h))
           d == RtShape(h)
           i == StmtOf(h, x)
           w == Len(Sweeps(i))
           more == IF c > 1 THEN 1 ELSE 0
           a == ShotAxes
           A == AcquiresOf(h)
<1>1. /\ A \in SUBSET Int /\ IsFiniteSet(A) /\ c \in Nat \ {0}
  BY AcquiresOfAre
<1>2. a \in 0 .. 1
  BY DEF ShotAxes
<1>3. i \in A /\ StmtOf(h, y) = i
  <2>1. i = EventOf(h, x).stmt /\ StmtOf(h, y) = EventOf(h, y).stmt
    BY DEF EventOf
  <2> QED
    BY <2>1, CellEvent
<1>4. /\ w \in Nat /\ Len(d) = (a + w) + more /\ DOMAIN d = 1 .. ((a + w) + more)
      /\ \A k \in 1 .. ((a + w) + more) : d[k] \in Nat
      /\ c > 1 => d[(a + w) + 1] = c
  BY <1>3, RtShapeIs, SweepsAre
<1> HIDE DEF d, more
<1>5. more \in 0 .. 1 /\ (c > 1 => more = 1) /\ (c <= 1 => more = 0)
  BY <1>1 DEF more
<1>6. /\ Len(d) \in Nat /\ DOMAIN d = 1 .. Len(d) /\ \A k \in 1 .. Len(d) : d[k] \in Nat
  BY <1>2, <1>4, <1>5
<1>7. /\ x \in Seq(Nat) /\ Len(x) = Len(d)
      /\ y \in Seq(Nat) /\ Len(y) = Len(d)
      /\ \A k \in 1 .. Len(d) : x[k] \in Nat /\ x[k] < d[k] /\ y[k] \in Nat /\ y[k] < d[k]
  BY <1>6, TuplesAre DEF d
<1>8. ASSUME a = 1 PROVE x[1] = y[1]
  BY <1>8 DEF ShotOf
<1>9. ASSUME NEW k \in 1 .. w PROVE x[a + k] = y[a + k]
  <2>1. /\ EventOf(h, x).index = [j \in 1 .. w |-> x[a + j]]
        /\ EventOf(h, y).index = [j \in 1 .. w |-> y[a + j]]
    BY <1>3 DEF EventOf
  <2>2. [j \in 1 .. w |-> x[a + j]] = [j \in 1 .. w |-> y[a + j]]
    BY <2>1
  <2> HIDE DEF w, a
  <2>3. [j \in 1 .. w |-> x[a + j]][k] = [j \in 1 .. w |-> y[a + j]][k]
    BY <2>2
  <2> QED
    BY <2>3
<1>10. ASSUME c > 1 PROVE x[Len(d)] = y[Len(d)]
  <2> DEFINE p == x[Len(d)]
             q == y[Len(d)]
  <2>1. d[Len(d)] = c /\ Len(d) \in 1 .. Len(d)
    BY <1>2, <1>4, <1>5, <1>10
  <2>2. p \in Nat /\ p < c /\ q \in Nat /\ q < c
    BY <1>7, <2>1
  <2>3. Sorted(A)[p + 1] = i /\ Sorted(A)[q + 1] = i
    BY <1>3, <1>7, <1>10 DEF StmtOf
  <2>4. \A k \in 1 .. c : Sorted(A)[k] \in A /\ Cardinality(UpTo(A, Sorted(A)[k])) = k
    BY <1>1, SortedIs
  <2> HIDE DEF p, q, c, i
  <2>5. p + 1 \in 1 .. c /\ q + 1 \in 1 .. c
    BY <1>1, <2>2
  <2>6. Cardinality(UpTo(A, i)) = p + 1 /\ Cardinality(UpTo(A, i)) = q + 1
    BY <2>3, <2>4, <2>5
  <2>7. p = q
    BY <2>2, <2>6
  <2> QED
    BY <2>7 DEF p, q
<1>11. ASSUME NEW k \in 1 .. Len(d) PROVE x[k] = y[k]
  <2> HIDE DEF a, w, c
  <2>1. CASE k <= a
    <3>1. a = 1 /\ k = 1
      BY <1>2, <1>6, <2>1
    <3> QED
      BY <1>8, <3>1
  <2>2. CASE a < k /\ k <= a + w
    <3>1. k - a \in 1 .. w /\ a + (k - a) = k
      BY <1>2, <1>4, <1>6, <2>2
    <3>2. x[a + (k - a)] = y[a + (k - a)]
      BY <1>9, <3>1
    <3> QED
      BY <3>1, <3>2
  <2>3. CASE a + w < k
    <3>1. k = Len(d) /\ more = 1
      BY <1>2, <1>4, <1>5, <1>6, <2>3
    <3>2. c > 1
      BY <1>1, <1>5, <3>1
    <3> QED
      BY <1>10, <3>1, <3>2
  <2>4. k <= a \/ (a < k /\ k <= a + w) \/ a + w < k
    BY <1>2, <1>4, <1>6
  <2> QED
    BY <2>1, <2>2, <2>3, <2>4
<1> QED
  BY <1>7, <1>11, SameSequences

\* The map of an AWG has each event the AWG takes part in.
LEMMA MapIs ==
  ASSUME code \in Programs, acquires = SimultaneousAcquires, NEW awg, NEW s
  PROVE  LET map == ResultMap(awg, s)
         IN  /\ map = AcquiresAt(PlacesOf(awg))
             /\ Len(map) \in Nat /\ DOMAIN map = 1 .. Len(map)
             /\ \A k \in 1 .. Len(map) : map[k] \in Events
             /\ \A e \in Events : DOMAIN Acquires(e.stmt) \cap SignalsOf[awg] # {} =>
                  \E k \in 1 .. Len(map) : map[k] = e
<1> DEFINE map == ResultMap(awg, s)
           P == PlacesOf(awg)
           n == Cardinality(P)
           N == Cardinality(Events)
<1>1. /\ N \in Nat /\ DOMAIN acquires = 1 .. N
      /\ \A k \in 1 .. N : acquires[k] \in Events
      /\ \A e \in Events : \E k \in 1 .. N : acquires[k] = e
  BY AllAcquired
<1>2. map = AcquiresAt(P)
  BY DEF ResultMap
<1>3. P \in SUBSET (1 .. N)
  BY <1>1 DEF PlacesOf
<1>4. IsFiniteSet(P) /\ P \in SUBSET Int
  <2>1. IsFiniteSet(1 .. N)
    BY <1>1, FS_Interval
  <2> HIDE DEF P, N
  <2>2. IsFiniteSet(P)
    BY <1>3, <2>1, FS_Subset
  <2>3. P \in SUBSET Int
    BY <1>3
  <2> QED
    BY <2>2, <2>3
<1>5. ASSUME NEW k \in 1 .. N, DOMAIN Acquires(acquires[k].stmt) \cap SignalsOf[awg] # {}
      PROVE  k \in P
  BY <1>1, <1>5 DEF PlacesOf
<1> HIDE DEF P, N
<1>6. /\ n \in Nat
      /\ \A k \in 1 .. n : Sorted(P)[k] \in P
      /\ \A j \in P : \E k \in 1 .. n : Sorted(P)[k] = j
  BY <1>4, SortedIs
<1>7. map = [k \in 1 .. n |-> acquires[Sorted(P)[k]]]
  BY <1>2 DEF AcquiresAt
<1> HIDE DEF map, n
<1>8. \A k \in 1 .. n : acquires[Sorted(P)[k]] \in Events
  BY <1>1, <1>3, <1>6
<1>9. map \in [1 .. n -> Events]
  BY <1>7, <1>8
<1>10. Len(map) = n /\ DOMAIN map = 1 .. n
  BY <1>6, <1>9, SeqByElements
<1>11. ASSUME NEW e \in Events, DOMAIN Acquires(e.stmt) \cap SignalsOf[awg] # {}
       PROVE  \E k \in 1 .. n : map[k] = e
  <2>1. PICK j \in 1 .. N : acquires[j] = e
    BY <1>1
  <2>2. j \in P
    BY <1>5, <1>11, <2>1
  <2>3. PICK k \in 1 .. n : Sorted(P)[k] = j
    BY <1>6, <2>2
  <2> QED
    BY <1>7, <2>1, <2>3
<1>12. \A k \in 1 .. n : map[k] \in Events
  BY <1>9
<1> QED
  BY <1>2, <1>6, <1>10, <1>11, <1>12 DEF map, P

\* A signal of an AWG all acquires of a handle are on.
On(awg, s, h) ==
  /\ s \in SignalsOf[awg]
  /\ \A i \in AcquiresOf(h) : s \in DOMAIN Acquires(i) /\ Acquires(i)[s] = h

HitSet(awg, s, h) ==
  {k \in 1 .. Len(ResultMap(awg, s)) * Repeats :
     HandleOf(ResultMap(awg, s)[((k - 1) % Len(ResultMap(awg, s))) + 1], s) = h}

(* The vector has an entry for each place of the array.                     *)
LEMMA EnoughHits ==
  ASSUME code \in Programs, acquires = SimultaneousAcquires, ShapesAgree,
         NEW h \in Handles, NEW awg, NEW s, On(awg, s, h)
  PROVE  /\ IsFiniteSet(HitSet(awg, s, h)) /\ IsFiniteSet(Tuples(RtShape(h)))
         /\ Size(h) <= Cardinality(HitSet(awg, s, h))
<1> DEFINE map == ResultMap(awg, s)
           n == Len(map)
           R == Repeats
           T == Tuples(RtShape(h))
           H == HitSet(awg, s, h)
           placeOf(x) == CHOOSE k \in 1 .. n : map[k] = EventOf(h, x)
           f == [x \in T |-> ShotOf(x) * n + placeOf(x)]
<1>1. /\ n \in Nat
      /\ \A e \in Events : DOMAIN Acquires(e.stmt) \cap SignalsOf[awg] # {} =>
           \E k \in 1 .. n : map[k] = e
  BY MapIs
<1>2. R \in Nat \ {0}
  BY RepeatsAre
<1>3. ASSUME NEW x \in T
      PROVE  /\ placeOf(x) \in 1 .. n /\ map[placeOf(x)] = EventOf(h, x)
             /\ HandleOf(EventOf(h, x), s) = h
             /\ ShotOf(x) \in 0 .. R - 1
  <2>1. /\ ShotOf(x) \in 0 .. R - 1 /\ StmtOf(h, x) \in AcquiresOf(h)
        /\ EventOf(h, x) \in Events /\ EventOf(h, x).stmt = StmtOf(h, x)
    BY CellEvent DEF EventOf
  <2>2. s \in DOMAIN Acquires(StmtOf(h, x)) /\ Acquires(StmtOf(h, x))[s] = h /\ s \in SignalsOf[awg]
    BY <2>1 DEF On
  <2>3. \E k \in 1 .. n : map[k] = EventOf(h, x)
    <3>1. DOMAIN Acquires(EventOf(h, x).stmt) \cap SignalsOf[awg] # {}
      BY <2>1, <2>2
    <3> QED
      BY <1>1, <2>1, <3>1
  <2>4. HandleOf(EventOf(h, x), s) = h
    BY <2>1, <2>2 DEF HandleOf
  <2> HIDE DEF map, n, T
  <2> QED
    BY <2>1, <2>3, <2>4
<1> HIDE DEF placeOf
<1>4. ASSUME NEW x \in T
      PROVE  /\ ShotOf(x) * n + placeOf(x) \in 1 .. n * R
             /\ ((ShotOf(x) * n + placeOf(x)) - 1) % n = placeOf(x) - 1
             /\ ((ShotOf(x) * n + placeOf(x)) - 1) \div n = ShotOf(x)
  <2> HIDE DEF n, R, T
  <2> QED
    BY <1>1, <1>2, <1>3, Rows
<1>5. ASSUME NEW x \in T PROVE f[x] \in H
  <2> DEFINE k == ShotOf(x) * n + placeOf(x)
  <2>1. k \in 1 .. n * R /\ (k - 1) % n = placeOf(x) - 1 /\ placeOf(x) \in 1 .. n
    BY <1>3, <1>4
  <2> HIDE DEF k, n, R
  <2>2. ((k - 1) % n) + 1 = placeOf(x)
    BY <2>1
  <2>3. HandleOf(map[((k - 1) % n) + 1], s) = h
    BY <1>3, <2>2
  <2>4. k \in H
    BY <2>1, <2>3 DEF HitSet, n, R
  <2> QED
    BY <2>4 DEF k, n
<1>6. ASSUME NEW x \in T, NEW y \in T, f[x] = f[y] PROVE x = y
  <2>1. ShotOf(x) * n + placeOf(x) = ShotOf(y) * n + placeOf(y)
    BY <1>6
  <2>2. placeOf(x) - 1 = placeOf(y) - 1 /\ ShotOf(x) = ShotOf(y)
    BY <1>4, <2>1
  <2>3. placeOf(x) \in 1 .. n /\ placeOf(y) \in 1 .. n
    BY <1>3
  <2>4. placeOf(x) = placeOf(y)
    <3> HIDE DEF n
    <3> QED
      BY <1>1, <2>2, <2>3
  <2>5. EventOf(h, x) = EventOf(h, y)
    BY <1>3, <2>4
  <2> QED
    BY <2>2, <2>5, CellEventOnce
<1>7. f \in [T -> H]
  <2> HIDE DEF H
  <2> QED
    BY <1>5
<1> HIDE DEF f, T, H
<1>8. f \in Injection(T, H)
  BY <1>6, <1>7, Zenon DEF Injection, IsInjective
<1>9. IsFiniteSet(H)
  <2>1. n * R \in Nat
    BY <1>1, <1>2
  <2>2. IsFiniteSet(1 .. n * R)
    BY <2>1, FS_Interval
  <2>3. H \in SUBSET (1 .. n * R)
    BY DEF H, HitSet
  <2> QED
    BY <2>2, <2>3, FS_Subset
<1>10. IsFiniteSet(T) /\ Cardinality(T) <= Cardinality(H)
  BY <1>8, <1>9, FS_Injection
<1> QED
  BY <1>9, <1>10 DEF T, H, Size

\* An array of no dimensions has one place.
LEMMA SinglePlace ==
  ASSUME NEW d, DOMAIN d = {}
  PROVE  IsFiniteSet(Tuples(d)) => Cardinality(Tuples(d)) <= 1
<1> SUFFICES ASSUME IsFiniteSet(Tuples(d)) PROVE Cardinality(Tuples(d)) <= 1
  OBVIOUS
<1>1. \A x, y \in Tuples(d) : x = y
  BY DEF Tuples
<1> DEFINE T == Tuples(d)
<1> HIDE DEF T
<1>2. \A x, y \in T : x = y
  BY <1>1 DEF T
<1>3. CASE T = {}
  BY <1>3, FS_EmptySet DEF T
<1>4. CASE T # {}
  <2>1. PICK x \in T : TRUE
    BY <1>4
  <2>2. T = {x}
    BY <1>2, <2>1
  <2>3. Cardinality({x}) = 1
    BY FS_Singleton
  <2> QED
    BY <2>2, <2>3 DEF T
<1> QED
  BY <1>3, <1>4

LEMMA RawIs ==
  ASSUME code \in Programs, acquires = SimultaneousAcquires, NEW awg, NEW s,
         NEW step \in Seq(Nat),
         NEW k \in 1 .. Len(ResultMap(awg, s)) * Repeats
  PROVE  Raw(awg, step)[k] \in Measured
<1> DEFINE events == AcquiresAt(PlacesOf(awg))
           n == Len(events)
<1>1. /\ n \in Nat /\ events = ResultMap(awg, s)
      /\ \A j \in 1 .. n : events[j] \in Events
  BY MapIs
<1>2. Repeats \in Nat \ {0}
  BY RepeatsAre
<1>3. k \in 1 .. n * Repeats
  BY <1>1
<1>4. Raw(awg, step) =
        [j \in 1 .. n * Repeats |->
           [step |-> step, shot |-> (j - 1) \div n, event |-> events[((j - 1) % n) + 1]]]
  BY DEF Raw
<1> HIDE DEF n, events
<1>5. Raw(awg, step)[k] =
        [step |-> step, shot |-> (k - 1) \div n, event |-> events[((k - 1) % n) + 1]]
  BY <1>3, <1>4
<1>6. n > 0
  <2>1. n = 0 => n * Repeats = 0
    BY <1>2
  <2>2. n * Repeats \in Nat
    BY <1>1, <1>2
  <2> QED
    BY <1>1, <1>3, <2>1, <2>2
<1>7. k - 1 \in Nat
  <2>1. n * Repeats \in Nat
    BY <1>1, <1>2
  <2> QED
    BY <1>3, <2>1
<1>8. (k - 1) \div n \in Nat /\ ((k - 1) % n) + 1 \in 1 .. n
  BY <1>1, <1>6, <1>7
<1>9. events[((k - 1) % n) + 1] \in [stmt : Nat, index : Seq(Nat)]
  <2>1. events[((k - 1) % n) + 1] \in Events
    BY <1>1, <1>8
  <2> QED
    BY <2>1, EventsAre
<1> QED
  BY <1>5, <1>8, <1>9 DEF Measured

(* What the vector of one signal gives for a near-time point fills it.      *)
LEMMA Fills ==
  ASSUME code \in Programs, acquires = SimultaneousAcquires, ShapesAgree,
         NEW h \in Handles, NEW awg, NEW s, On(awg, s, h),
         NEW step \in Seq(Nat), Len(step) = Len(NtAxes), NEW k \in 1 .. Size(h)
  PROVE  /\ <<step, k>> \in DOMAIN Placed(awg, s, h, step)
         /\ Placed(awg, s, h, step)[<<step, k>>] # None
<1> DEFINE H == HitSet(awg, s, h)
           hits == Hits(awg, s, h)
           d == RtShape(h)
           N == Len(ResultMap(awg, s)) * Repeats
           only == IF Len(Shape(h)) = Len(step) THEN {1} ELSE DOMAIN hits
<1>1. IsFiniteSet(H) /\ IsFiniteSet(Tuples(d)) /\ Size(h) <= Cardinality(H)
  BY EnoughHits
<1>2. N \in Nat
  <2>1. Len(ResultMap(awg, s)) \in Nat
    BY MapIs
  <2>2. Repeats \in Nat \ {0}
    BY RepeatsAre
  <2> HIDE <1>1
  <2> QED
    BY <2>1, <2>2
<1>3. H \in SUBSET (1 .. N) /\ H \in SUBSET Int
  BY <1>2 DEF HitSet
<1>4. hits = Sorted(H)
  BY DEF Hits, HitSet
<1> HIDE DEF H, hits, N
<1>5. /\ Cardinality(H) \in Nat /\ DOMAIN hits = 1 .. Cardinality(H)
      /\ \A j \in 1 .. Cardinality(H) : hits[j] \in H
  BY <1>1, <1>3, <1>4, SortedIs
<1>6. Size(h) \in Nat
  BY <1>1, FS_CardinalityType DEF Size
<1>7. k \in DOMAIN hits /\ hits[k] \in 1 .. N
  <2> DEFINE n == Cardinality(H)
             m == Size(h)
  <2>1. n \in Nat /\ m \in Nat /\ m <= n /\ k \in 1 .. m
    BY <1>1, <1>5, <1>6
  <2> HIDE DEF n, m
  <2>2. k \in 1 .. n
    BY <2>1
  <2> QED
    BY <1>3, <1>5, <2>2 DEF n
<1>8. k \in only
  <2>1. CASE Len(Shape(h)) = Len(step)
    <3>1. PICK i \in AcquiresOf(h) : TRUE
      BY AcquiresOfAre
    <3>2. Len(d) \in Nat /\ DOMAIN d = 1 .. Len(d) /\ Len(Shape(h)) = Len(NtAxes) + Len(d)
      <4>1. LET n == Cardinality(AcquiresOf(h))
                w == Len(Sweeps(i))
                more == IF n > 1 THEN 1 ELSE 0
            IN  /\ Len(d) = (ShotAxes + w) + more /\ DOMAIN d = 1 .. ((ShotAxes + w) + more)
                /\ Len(Shape(h)) = Len(NtAxes) + Len(d)
        BY <3>1, RtShapeIs
      <4>2. Len(Sweeps(i)) \in Nat
        BY SweepsAre
      <4>3. ShotAxes \in Nat
        BY DEF ShotAxes
      <4> HIDE DEF d
      <4> QED
        BY <4>1, <4>2, <4>3
    <3>3. Len(NtAxes) \in Nat
      BY NtAxesAre
    <3>4. Len(d) = 0
      BY <2>1, <3>2, <3>3
    <3>5. DOMAIN d = {}
      BY <3>2, <3>4
    <3>6. Size(h) <= 1
      BY <1>1, <3>5, SinglePlace DEF Size
    <3>7. k = 1
      BY <1>6, <3>6
    <3> QED
      BY <2>1, <3>7
  <2>2. CASE Len(Shape(h)) # Len(step)
    BY <1>7, <2>2
  <2> QED
    BY <2>1, <2>2
<1>9. Placed(awg, s, h, step) =
        [c \in {<<step, j>> : j \in only} |-> Raw(awg, step)[hits[c[2]]]]
  BY DEF Placed, hits
<1> HIDE DEF only
<1>10. /\ <<step, k>> \in DOMAIN Placed(awg, s, h, step)
       /\ Placed(awg, s, h, step)[<<step, k>>] = Raw(awg, step)[hits[k]]
  BY <1>8, <1>9
<1>11. Raw(awg, step)[hits[k]] \in Measured
  <2> DEFINE j == hits[k]
  <2>1. j \in 1 .. Len(ResultMap(awg, s)) * Repeats
    BY <1>7 DEF N
  <2> HIDE DEF j
  <2>2. Raw(awg, step)[j] \in Measured
    BY <2>1, RawIs
  <2> QED
    BY <2>2 DEF j
<1> QED
  BY <1>10, <1>11, NoneAssumption

-----------------------------------------------------------------------------
(* Storing the vectors of some signals of an AWG.                          *)

Listed == acquires = SimultaneousAcquires /\ ShapesAgree

\* Where a handle of an AWG is, its map has it.
LEMMA FromSignal ==
  ASSUME code \in Programs, Listed, NEW h \in Handles, NEW awg, NEW s \in SignalsOf[awg]
  PROVE  (\E k \in DOMAIN ResultMap(awg, s) : HandleOf(ResultMap(awg, s)[k], s) = h)
           <=> On(awg, s, h)
<1> DEFINE map == ResultMap(awg, s)
<1>1. /\ Len(map) \in Nat /\ DOMAIN map = 1 .. Len(map)
      /\ \A k \in 1 .. Len(map) : map[k] \in Events
      /\ \A e \in Events : DOMAIN Acquires(e.stmt) \cap SignalsOf[awg] # {} =>
           \E k \in 1 .. Len(map) : map[k] = e
  BY MapIs DEF Listed
<1>2. PICK i \in AcquiresOf(h) : AcquireAt(i)
  BY AcquiresOfAre
<1>3. PICK t \in Signals : \A j \in AcquiresOf(h) :
        /\ t \in DOMAIN Acquires(j) /\ Acquires(j)[t] = h
        /\ \A u \in DOMAIN Acquires(j) : Acquires(j)[u] = h => u = t
  BY AcquiresOfAre
<1>4. h # None
  <2>1. i \in {k \in DOMAIN code : code[k].op = "acquire"}
    BY <1>2 DEF AcquireAt
  <2>2. t \in DOMAIN code[i].handles /\ code[i].handles[t] = h
    BY <1>2, <1>3 DEF AcquireAt, Acquires
  <2> QED
    BY <2>1, <2>2, AcquiresAssumption
<1> HIDE DEF map
<1>5. ASSUME NEW k \in DOMAIN map, HandleOf(map[k], s) = h PROVE On(awg, s, h)
  <2> DEFINE j == map[k].stmt
  <2>1. AcquireAt(j)
    BY <1>1, EventsAre
  <2>2. s \in DOMAIN Acquires(j) /\ Acquires(j)[s] = h
    BY <1>4, <1>5 DEF HandleOf
  <2>3. j \in AcquiresOf(h)
    BY <2>1, <2>2 DEF AcquiresOf, HandlesAt, AcquireAt
  <2>4. s = t
    BY <1>3, <2>2, <2>3
  <2> QED
    BY <1>3, <2>4 DEF On
<1>6. ASSUME On(awg, s, h) PROVE \E k \in DOMAIN map : HandleOf(map[k], s) = h
  <2> DEFINE w == Len(Sweeps(i))
             x == [k \in 1 .. w |-> 0]
             e == [stmt |-> i, index |-> x]
  <2>1. w \in Nat /\ \A k \in 1 .. w : code[Sweeps(i)[k]].count \in Nat \ {0}
    BY SweepsAre
  <2> HIDE DEF w
  <2>2. x \in [1 .. w -> Nat] /\ \A k \in 1 .. w : x[k] = 0
    OBVIOUS
  <2> HIDE DEF x
  <2>3. x \in Seq(Nat) /\ Len(x) = w
    BY <2>1, <2>2, SeqByElements
  <2>4. \A k \in 1 .. w : x[k] < code[Sweeps(i)[k]].count
    BY <2>1, <2>2
  <2>5. x \in Indices(Sweeps(i))
    BY <2>3, <2>4, IndicesAre DEF w
  <2>6. e \in Events
    BY <1>2, <2>5, EventsAre
  <2>7. s \in DOMAIN Acquires(e.stmt) /\ Acquires(e.stmt)[s] = h
    BY <1>2, <1>6 DEF On
  <2>8. DOMAIN Acquires(e.stmt) \cap SignalsOf[awg] # {}
    BY <2>7
  <2> HIDE DEF e
  <2>9. PICK k \in 1 .. Len(map) : map[k] = e
    BY <1>1, <2>6, <2>8
  <2>10. HandleOf(map[k], s) = h
    BY <2>7, <2>9 DEF HandleOf
  <2> QED
    BY <1>1, <2>9, <2>10
<1> QED
  BY <1>5, <1>6 DEF map

\* So are the results that are marked.
LEMMA MarkedSignal ==
  ASSUME code \in Programs, NEW h \in Handles, NEW awg, NEW s \in SignalsOf[awg]
  PROVE  (\E i \in AcquiresOf(h) : HandleOf([stmt |-> i], s) = h) <=> On(awg, s, h)
<1>1. PICK i \in AcquiresOf(h) : AcquireAt(i)
  BY AcquiresOfAre
<1>2. PICK t \in Signals : \A j \in AcquiresOf(h) :
        /\ t \in DOMAIN Acquires(j) /\ Acquires(j)[t] = h
        /\ \A u \in DOMAIN Acquires(j) : Acquires(j)[u] = h => u = t
  BY AcquiresOfAre
<1>3. h # None
  <2>1. i \in {k \in DOMAIN code : code[k].op = "acquire"}
    BY <1>1 DEF AcquireAt
  <2>2. t \in DOMAIN code[i].handles /\ code[i].handles[t] = h
    BY <1>1, <1>2 DEF AcquireAt, Acquires
  <2> QED
    BY <2>1, <2>2, AcquiresAssumption
<1>4. \A j : HandleOf([stmt |-> j], s) = IF s \in DOMAIN Acquires(j) THEN Acquires(j)[s] ELSE None
  BY DEF HandleOf
<1>5. ASSUME NEW j \in AcquiresOf(h), HandleOf([stmt |-> j], s) = h PROVE On(awg, s, h)
  <2>1. s \in DOMAIN Acquires(j) /\ Acquires(j)[s] = h
    BY <1>3, <1>4, <1>5
  <2>2. s = t
    BY <1>2, <2>1
  <2> QED
    BY <1>2, <2>2 DEF On
<1>6. ASSUME On(awg, s, h) PROVE HandleOf([stmt |-> i], s) = h
  BY <1>1, <1>4, <1>6 DEF On
<1> QED
  BY <1>5, <1>6

(* A vector that is stored fills the point of its handle; nothing that was  *)
(* there gets lost, and other handles are left alone.                       *)
LEMMA StoringAll ==
  ASSUME code \in Programs, Listed, NEW h \in Handles, NEW awg,
         NEW signals \in SUBSET SignalsOf[awg],
         NEW step \in Seq(Nat), Len(step) = Len(NtAxes), step \in NtSteps,
         \E s \in signals : On(awg, s, h)
  PROVE  /\ \A k \in 1 .. Size(h) : Stored(awg, signals, step)[h][<<step, k>>] # None
         /\ \A c \in Cells(h) :
              Stored(awg, signals, step)[h][c] = None => data[h][c] = None
<1> DEFINE from == {s \in signals : \E k \in DOMAIN ResultMap(awg, s) :
                                      HandleOf(ResultMap(awg, s)[k], s) = h}
           u == CHOOSE s \in from : TRUE
           new == Placed(awg, u, h, step)
           st == Stored(awg, signals, step)[h]
<1>1. from = {s \in signals : On(awg, s, h)}
  BY FromSignal
<1>2. st = IF from = {} THEN data[h]
           ELSE [c \in Cells(h) |-> IF c \in DOMAIN new THEN new[c] ELSE data[h][c]]
  BY DEF Stored
<1> HIDE DEF from, st
<1>3. from # {}
  BY <1>1
<1>4. u \in from
  BY <1>3
<1>5. On(awg, u, h)
  BY <1>1, <1>4
<1> HIDE DEF u
<1>6. \A k \in 1 .. Size(h) : <<step, k>> \in DOMAIN new /\ new[<<step, k>>] # None
  BY <1>5, Fills DEF Listed
<1>7. ASSUME NEW c \in DOMAIN new PROVE c[1] = step
  BY DEF Placed
<1>8. st = [c \in Cells(h) |-> IF c \in DOMAIN new THEN new[c] ELSE data[h][c]]
  BY <1>2, <1>3
<1> HIDE DEF new
<1>9. ASSUME NEW c \in Cells(h), st[c] = None PROVE data[h][c] = None
  <2>1. c = <<c[1], c[2]>> /\ c[2] \in 1 .. Size(h)
    BY DEF Cells
  <2>2. CASE c \in DOMAIN new
    <3>1. c = <<step, c[2]>>
      BY <1>7, <2>1, <2>2
    <3>2. new[c] # None
      BY <1>6, <2>1, <3>1
    <3> QED
      BY <1>8, <1>9, <2>2, <3>2
  <2>3. CASE c \notin DOMAIN new
    BY <1>8, <1>9, <2>3
  <2> QED
    BY <2>2, <2>3
<1>10. ASSUME NEW k \in 1 .. Size(h) PROVE st[<<step, k>>] # None
  <2>1. <<step, k>> \in Cells(h)
    BY DEF Cells
  <2> QED
    BY <1>6, <1>8, <2>1
<1> QED
  BY <1>9, <1>10 DEF st

\* What is marked, and what vectors of other signals leave alone.
LEMMA StoredIs ==
  ASSUME code \in Programs, Listed, NEW h \in Handles, NEW awg,
         NEW signals \in SUBSET SignalsOf[awg], NEW step
  PROVE  /\ (\E s \in signals : On(awg, s, h)) => Marked(awg, signals, step)[h] = step
         /\ ~(\E s \in signals : On(awg, s, h)) =>
              /\ Marked(awg, signals, step)[h] = last[h]
              /\ Stored(awg, signals, step)[h] = data[h]
<1> DEFINE from == {s \in signals : \E k \in DOMAIN ResultMap(awg, s) :
                                      HandleOf(ResultMap(awg, s)[k], s) = h}
<1>1. from = {s \in signals : On(awg, s, h)}
  BY FromSignal
<1>2. from = {} => Stored(awg, signals, step)[h] = data[h]
  BY DEF Stored
<1>3. Marked(awg, signals, step)[h] =
        IF \E i \in AcquiresOf(h) : \E s \in signals : HandleOf([stmt |-> i], s) = h
        THEN step ELSE last[h]
  BY DEF Marked
<1>4. (\E i \in AcquiresOf(h) : \E s \in signals : HandleOf([stmt |-> i], s) = h)
        <=> \E s \in signals : On(awg, s, h)
  BY MarkedSignal
<1> HIDE DEF from
<1> QED
  BY <1>1, <1>2, <1>3, <1>4

LEMMA SameList ==
  ASSUME code' = code, acquires' = acquires
  PROVE  /\ Listed' <=> Listed
         /\ \A awg, s, h : On(awg, s, h)' <=> On(awg, s, h)
<1>1. /\ RtAt' = RtAt /\ Handles' = Handles
      /\ \A h : AcquiresOf(h)' = AcquiresOf(h)
  BY SameResults
<1>2. \A i : LoopsAround(i)' = LoopsAround(i)
  BY DEF LoopsAround, Loop
<1>3. \A j : HasAxis(j)' = HasAxis(j)
  BY DEF HasAxis
<1>4. \A i : BaseShape(i)' = BaseShape(i)
  <2>1. \A i : {j \in LoopsAround(i) : HasAxis(j)}' = {j \in LoopsAround(i) : HasAxis(j)}
    BY <1>2, <1>3
  <2>2. \A i : Axes(i)' = Axes(i)
    BY <2>1 DEF Axes
  <2> QED
    BY <2>2 DEF BaseShape
<1>5. ShapesAgree' <=> ShapesAgree
  BY <1>1, <1>4 DEF ShapesAgree
<1>6. \A i : Sweeps(i)' = Sweeps(i)
  BY <1>1, <1>2 DEF Sweeps
<1>7. \A i : EventsOf(i)' = EventsOf(i)
  BY <1>6 DEF EventsOf, Indices
<1>8. Events' = Events
  BY <1>7 DEF Events
<1>9. \A e : Position(e)' = Position(e)
  BY <1>6 DEF Position
<1>10. \A e, f : Before(e, f)' <=> Before(e, f)
  BY <1>9 DEF Before, Precedes
<1>11. \A e : UpToEvent(e)' = UpToEvent(e)
  BY <1>8, <1>10 DEF UpToEvent
<1>12. SimultaneousAcquires' = SimultaneousAcquires
  BY <1>8, <1>11 DEF SimultaneousAcquires
<1>13. \A i : Acquires(i)' = Acquires(i)
  BY DEF Acquires
<1>14. \A awg, s, h : On(awg, s, h)' <=> On(awg, s, h)
  BY <1>1, <1>13 DEF On
<1> QED
  BY <1>5, <1>12, <1>14 DEF Listed

LEMMA InitListed ==
  Init => Listed
BY DEF Init, Listed

LEMMA StepListed ==
  Listed /\ [Next]_vars => Listed'
<1> SUFFICES ASSUME Listed, [Next]_vars PROVE Listed'
  OBVIOUS
<1>1. code' = code /\ acquires' = acquires
  BY SameCode
<1> QED
  BY <1>1, SameList

(* While a step is executed, the indices are a near-time point.             *)
LEMMA StepPoint ==
  ASSUME Walking, Matched, Running
  PROVE  /\ code \in Programs /\ indices \in NtSteps
         /\ indices \in Seq(Nat) /\ Len(indices) = Len(NtAxes)
<1>1. code \in Programs /\ at \in DOMAIN code /\ code[at].op = "rt"
  BY DEF Walking
<1>2. indices \in NtSteps
  BY <1>1, AtRealTime
<1>3. Len(NtAxes) \in Nat /\ DOMAIN NtAxes = 1 .. Len(NtAxes)
  BY <1>1, NtAxesAre
<1>4. DOMAIN indices = 1 .. Len(NtAxes)
  <2> DEFINE dims == [k \in DOMAIN NtAxes |-> code[NtAxes[k]].count]
  <2>1. DOMAIN dims = 1 .. Len(NtAxes)
    BY <1>3
  <2>2. NtSteps = Tuples(dims)
    BY DEF NtSteps, Indices
  <2> HIDE DEF dims
  <2> QED
    BY <1>2, <2>1, <2>2 DEF Tuples
<1>5. indices \in Seq(Nat)
  BY DEF Matched, Matching
<1> QED
  BY <1>1, <1>2, <1>3, <1>4, <1>5

-----------------------------------------------------------------------------
(* What get_last_nt_step promises.                                         *)

\* Storing the vectors of some signals keeps the promise.
LEMMA StoringFills ==
  ASSUME code \in Programs, Listed, LastStepIsFilled, NEW awg,
         NEW signals \in SUBSET SignalsOf[awg],
         indices \in NtSteps, indices \in Seq(Nat), Len(indices) = Len(NtAxes),
         code' = code, acquires' = acquires,
         data' = Stored(awg, signals, NtStep), last' = Marked(awg, signals, NtStep)
  PROVE  LastStepIsFilled'
<1>1. /\ Handles' = Handles /\ NtSteps' = NtSteps /\ \A h : Size(h)' = Size(h)
  BY SameResults
<1> SUFFICES ASSUME NEW h \in Handles, last'[h] # None
             PROVE  /\ last'[h] \in NtSteps
                    /\ \A k \in 1 .. Size(h) : data'[h][<<last'[h], k>>] # None
  BY <1>1 DEF LastStepIsFilled
<1>2. CASE \E s \in signals : On(awg, s, h)
  <2>1. Marked(awg, signals, indices)[h] = indices
    BY <1>2, StoredIs
  <2>2. \A k \in 1 .. Size(h) : Stored(awg, signals, indices)[h][<<indices, k>>] # None
    BY <1>2, StoringAll
  <2> QED
    BY <2>1, <2>2 DEF NtStep
<1>3. CASE ~(\E s \in signals : On(awg, s, h))
  <2>1. last'[h] = last[h] /\ data'[h] = data[h]
    BY <1>3, StoredIs DEF NtStep
  <2> QED
    BY <2>1 DEF LastStepIsFilled
<1> QED
  BY <1>2, <1>3

LEMMA InitFilled ==
  Init => LastStepIsFilled
BY DEF Init, LastStepIsFilled

LEMMA StepFilled ==
  Walking /\ Matched /\ Listed /\ LastStepIsFilled /\ [Next]_vars => LastStepIsFilled'
<1> SUFFICES ASSUME Walking, Matched, Listed, LastStepIsFilled, [Next]_vars
             PROVE  LastStepIsFilled'
  OBVIOUS
<1>1. code' = code /\ acquires' = acquires
  BY SameCode
<1>2. /\ Handles' = Handles /\ NtSteps' = NtSteps /\ \A h : Size(h)' = Size(h)
  BY <1>1, SameResults
<1>3. ASSUME UNCHANGED results PROVE LastStepIsFilled'
  BY <1>2, <1>3 DEF results, LastStepIsFilled
<1>4. CASE ReadAwg
  <2>1. /\ data' = Stored(AwgOrder[toRead], SignalsOf[AwgOrder[toRead]], NtStep)
        /\ last' = Marked(AwgOrder[toRead], SignalsOf[AwgOrder[toRead]], NtStep)
        /\ Running
    BY <1>4 DEF ReadAwg, Running
  <2> QED
    BY <1>1, <2>1, StepPoint, StoringFills
<1>5. CASE ReadRaises
  <2>1. PICK signals \in SUBSET SignalsOf[AwgOrder[toRead]] :
          /\ data' = Stored(AwgOrder[toRead], signals, NtStep)
          /\ last' = Marked(AwgOrder[toRead], signals, NtStep)
    BY <1>5 DEF ReadRaises
  <2>2. Running
    BY <1>5 DEF ReadRaises, Running
  <2> QED
    BY <1>1, <2>1, <2>2, StepPoint, StoringFills
<1>6. CASE EnterLoop \/ LoopEnds \/ SetParam \/ SetNode \/ ReplacePulse \/ Callback
  BY <1>3, <1>6 DEF EnterLoop, LoopEnds, SetParam, SetNode, ReplacePulse, Callback
<1>7. CASE SkipChunk \/ PrepareStep \/ StepRaises \/ StepExecuted \/ StepIsRead
           \/ AttemptFails \/ Finish
  BY <1>3, <1>7 DEF SkipChunk, PrepareStep, StepRaises, StepExecuted, StepIsRead,
                    AttemptFails, Finish
<1>8. CASE UNCHANGED vars
  BY <1>3, <1>8 DEF vars
<1> QED
  BY <1>4, <1>5, <1>6, <1>7, <1>8 DEF Next

(* All elements of the point a result was filled last at are there, as      *)
(* get_last_nt_step promises, although the vector of a signal is longer     *)
(* than the list of a shot and has entries for other signals (awg_result_   *)
(* map and build_partial_result).                                           *)
THEOREM LastStep ==
  Spec => []LastStepIsFilled
<1>1. Init => Walking /\ Matched /\ Listed /\ LastStepIsFilled
  BY InitWalks, InitMatches, InitListed, InitFilled
<1>2. Walking /\ Matched /\ Listed /\ LastStepIsFilled /\ [Next]_vars
        => Walking' /\ Matched' /\ Listed' /\ LastStepIsFilled'
  BY StepWalks, StepMatches, StepListed, StepFilled
<1> QED
  BY <1>1, <1>2, PTL DEF Spec

-----------------------------------------------------------------------------
(* Where a result is missing every attempt was reported.                   *)

Begun(ex, x) == \E k \in 1 .. Len(ex) : ex[k] = x
Failures(er, x) == {k \in DOMAIN er : er[k] = x}
FilledAt(dt, h, x) == \A k \in 1 .. Size(h) : dt[h][<<x, k>>] # None
Complete(dt, x) == \A h \in Handles : FilledAt(dt, h, x)

\* A step that is over has its results or has failed as often as it may.
Accounts(ex, er, dt, current) ==
  /\ er \in Seq(NtSteps)
  /\ \A x \in NtSteps :
       /\ ~Begun(ex, x) => Failures(er, x) = {}
       /\ Begun(ex, x) /\ x \notin current =>
            Cardinality(Failures(er, x)) = MaxTries \/ Complete(dt, x)
Attempting(ex, er, n, x) ==
  n \in 1 .. MaxTries /\ Begun(ex, x) /\ Cardinality(Failures(er, x)) = n - 1
ReadSoFar(dt, n, x) ==
  /\ n \in 1 .. Len(AwgOrder) + 1
  /\ \A h \in Handles : \A j \in 1 .. n - 1 :
       (\E s \in SignalsOf[AwgOrder[j]] : On(AwgOrder[j], s, h)) => FilledAt(dt, h, x)

Alive == phase \in {"walk", "execute", "read", "done"}
Steps == IF Running THEN {indices} ELSE {}
Accounted ==
  Alive =>
    /\ Accounts(executed, errors, data, Steps)
    /\ Running => Attempting(executed, errors, try, indices)
    /\ phase = "read" => ReadSoFar(data, toRead, indices)

LEMMA OneMoreFailure ==
  ASSUME NEW S, NEW er \in Seq(S), NEW x \in S, NEW y
  PROVE  /\ IsFiniteSet(Failures(er, y)) /\ Cardinality(Failures(er, y)) \in Nat
         /\ y # x => Failures(Append(er, x), y) = Failures(er, y)
         /\ Cardinality(Failures(Append(er, x), x)) = Cardinality(Failures(er, x)) + 1
<1> DEFINE n == Len(er)
           new == Append(er, x)
<1>1. /\ n \in Nat /\ DOMAIN er = 1 .. n /\ DOMAIN new = 1 .. n + 1
      /\ \A k \in 1 .. n : new[k] = er[k]
      /\ new[n + 1] = x
  OBVIOUS
<1> HIDE DEF n, new
<1>2. ASSUME NEW z PROVE IsFiniteSet(Failures(er, z)) /\ Cardinality(Failures(er, z)) \in Nat
  <2>1. IsFiniteSet(1 .. n)
    BY <1>1, FS_Interval
  <2>2. Failures(er, z) \in SUBSET (1 .. n)
    BY <1>1 DEF Failures
  <2>3. IsFiniteSet(Failures(er, z))
    BY <2>1, <2>2, FS_Subset
  <2> QED
    BY <2>3, FS_CardinalityType
<1>3. 1 .. n + 1 = (1 .. n) \cup {n + 1} /\ n + 1 \notin 1 .. n
  BY <1>1
<1>4. ASSUME y # x PROVE Failures(new, y) = Failures(er, y)
  BY <1>1, <1>3, <1>4 DEF Failures
<1>5. Failures(new, x) = Failures(er, x) \cup {n + 1} /\ n + 1 \notin Failures(er, x)
  BY <1>1, <1>3 DEF Failures
<1>6. Cardinality(Failures(new, x)) = Cardinality(Failures(er, x)) + 1
  BY <1>2, <1>5, FS_AddElement
<1> QED
  BY <1>2, <1>4, <1>6 DEF new

\* The next state's account, by what it is computed from.
LEMMA NextAccount ==
  ASSUME code' = code, acquires' = acquires,
         Alive' => /\ Accounts(executed', errors', data', Steps')
                   /\ Running' => Attempting(executed', errors', try', indices')
                   /\ phase' = "read" => ReadSoFar(data', toRead', indices')
  PROVE  Accounted'
<1>1. /\ Handles' = Handles /\ NtSteps' = NtSteps /\ \A h : Size(h)' = Size(h)
  BY SameResults
<1>2. \A awg, s, h : On(awg, s, h)' <=> On(awg, s, h)
  BY SameList
<1>3. Accounts(executed, errors, data, Steps)' <=> Accounts(executed', errors', data', Steps')
  BY <1>1 DEF Accounts, Begun, Failures, Complete, FilledAt
<1>4. Attempting(executed, errors, try, indices)'
        <=> Attempting(executed', errors', try', indices')
  BY DEF Attempting, Begun, Failures
<1>5. ReadSoFar(data, toRead, indices)' <=> ReadSoFar(data', toRead', indices')
  BY <1>1, <1>2 DEF ReadSoFar, FilledAt
<1> QED
  BY <1>3, <1>4, <1>5 DEF Accounted

LEMMA InitAccounted ==
  Init => Accounted
<1> SUFFICES ASSUME Init PROVE Accounted
  OBVIOUS
<1>1. executed = << >> /\ errors = << >> /\ ~Running /\ phase # "read"
  BY DEF Init, Running
<1>2. \A x : Failures(errors, x) = {} /\ ~Begun(executed, x)
  BY <1>1 DEF Failures, Begun
<1>3. errors \in Seq(NtSteps)
  BY <1>1
<1> QED
  BY <1>1, <1>2, <1>3 DEF Accounted, Accounts

\* A step that is prepared is new.
LEMMA PrepareAccounts ==
  ASSUME Walking, Matched, Ordered, Accounted, PrepareStep
  PROVE  /\ Accounts(executed', errors, data, {indices})
         /\ Attempting(executed', errors, 1, indices)
<1>1. /\ at \in DOMAIN code /\ code[at].op = "rt" /\ phase = "walk"
      /\ executed' = Append(executed, indices)
  BY DEF PrepareStep, Statement, NtStep
<1>2. code \in Programs /\ indices \in NtSteps
  BY <1>1, AtRealTime DEF Walking
<1>3. executed \in Seq(NtSteps)
  BY DEF Ordered
<1>4. /\ Len(executed) \in Nat /\ Len(executed') = Len(executed) + 1
      /\ \A k \in 1 .. Len(executed) : executed'[k] = executed[k] /\ executed[k] \in NtSteps
      /\ executed'[Len(executed) + 1] = indices
  BY <1>1, <1>2, <1>3, AppendOf
<1>5. ~Begun(executed, indices)
  <2> SUFFICES ASSUME NEW k \in 1 .. Len(executed), executed[k] = indices PROVE FALSE
    BY DEF Begun
  <2>1. \A i, j \in 1 .. Len(executed') : i < j => Precedes(executed'[i], executed'[j])
    BY PrepareOrders
  <2>2. /\ k \in 1 .. Len(executed') /\ Len(executed) + 1 \in 1 .. Len(executed')
        /\ k < Len(executed) + 1
    BY <1>4
  <2>3. Precedes(indices, indices)
    BY <1>4, <2>1, <2>2
  <2>4. PICK m \in DOMAIN indices : indices[m] < indices[m]
    BY <2>3 DEF Precedes
  <2>5. indices[m] \in Nat
    BY <1>2, <2>4, StepsAre
  <2> QED
    BY <2>4, <2>5
<1>6. \A x : Begun(executed', x) <=> Begun(executed, x) \/ x = indices
  <2>1. ASSUME NEW x, NEW k \in 1 .. Len(executed'), executed'[k] = x
        PROVE  Begun(executed, x) \/ x = indices
    <3>1. k \in 1 .. Len(executed) \/ k = Len(executed) + 1
      BY <1>4
    <3> QED
      BY <1>4, <2>1, <3>1 DEF Begun
  <2>2. ASSUME NEW x, NEW k \in 1 .. Len(executed), executed[k] = x PROVE Begun(executed', x)
    <3>1. k \in 1 .. Len(executed')
      BY <1>4
    <3> QED
      BY <1>4, <2>2, <3>1 DEF Begun
  <2>3. Begun(executed', indices)
    <3>1. Len(executed) + 1 \in 1 .. Len(executed')
      BY <1>4
    <3> QED
      BY <1>4, <3>1 DEF Begun
  <2> QED
    BY <2>1, <2>2, <2>3 DEF Begun
<1>7. Accounts(executed, errors, data, {})
  BY <1>1 DEF Accounted, Alive, Steps, Running
<1>8. Failures(errors, indices) = {}
  BY <1>2, <1>5, <1>7 DEF Accounts
<1>9. Accounts(executed', errors, data, {indices})
  BY <1>6, <1>7 DEF Accounts
<1>10. Cardinality(Failures(errors, indices)) = 1 - 1 /\ 1 \in 1 .. MaxTries
  BY <1>8, FS_EmptySet, TriesAssumption
<1> QED
  BY <1>6, <1>9, <1>10 DEF Attempting

\* Nothing is counted or stored.
LEMMA QuietAccounts ==
  ASSUME Accounted, code' = code, acquires' = acquires,
         phase = "walk", ~Alive' \/ ~Running',
         UNCHANGED <<executed, errors, data>>
  PROVE  Accounted'
<1>1. /\ phase' # "read" \/ ~Alive'
      /\ ~Running /\ Steps = {} /\ Alive
  BY DEF Running, Steps, Alive
<1>2. Accounts(executed, errors, data, {})
  BY <1>1 DEF Accounted
<1>3. ASSUME Alive'
      PROVE  /\ Accounts(executed', errors', data', Steps')
             /\ Running' => Attempting(executed', errors', try', indices')
             /\ phase' = "read" => ReadSoFar(data', toRead', indices')
  <2>1. ~Running' /\ phase' # "read"
    BY <1>1, <1>3
  <2>2. Steps' = {}
    BY <2>1 DEF Steps
  <2> QED
    BY <1>2, <2>1, <2>2
<1> QED
  BY <1>3, NextAccount

\* What is stored is not lost, and each AWG adds what it has.
LEMMA ReadAccounts ==
  ASSUME Walking, Matched, Listed, Accounted, ReadAwg
  PROVE  /\ Accounts(executed, errors, data', {indices})
         /\ ReadSoFar(data', toRead + 1, indices)
<1> DEFINE awg == AwgOrder[toRead]
<1>1. phase = "read" /\ Running /\ toRead <= Len(AwgOrder)
      /\ data' = Stored(awg, SignalsOf[awg], indices)
  BY DEF ReadAwg, Running, NtStep
<1>2. /\ Accounts(executed, errors, data, {indices})
      /\ ReadSoFar(data, toRead, indices)
  BY <1>1 DEF Accounted, Alive, Steps
<1>3. /\ code \in Programs /\ indices \in NtSteps
      /\ indices \in Seq(Nat) /\ Len(indices) = Len(NtAxes)
  BY <1>1, StepPoint
<1>4. Len(AwgOrder) \in Nat /\ toRead \in 1 .. Len(AwgOrder)
  BY <1>1, <1>2, AwgsAssumption DEF ReadSoFar
<1>5. SignalsOf[awg] \in SUBSET SignalsOf[awg]
  OBVIOUS
<1> HIDE DEF awg
<1>6. ASSUME NEW h \in Handles
      PROVE  /\ \A c \in Cells(h) : data'[h][c] = None => data[h][c] = None
             /\ (\E s \in SignalsOf[awg] : On(awg, s, h)) => FilledAt(data', h, indices)
  <2>1. CASE \E s \in SignalsOf[awg] : On(awg, s, h)
    <3>1. \A k \in 1 .. Size(h) :
            Stored(awg, SignalsOf[awg], indices)[h][<<indices, k>>] # None
      BY <1>3, <1>5, <2>1, StoringAll
    <3>2. \A c \in Cells(h) :
            Stored(awg, SignalsOf[awg], indices)[h][c] = None => data[h][c] = None
      BY <1>3, <1>5, <2>1, StoringAll
    <3> QED
      BY <1>1, <1>3, <3>1, <3>2 DEF FilledAt
  <2>2. CASE ~(\E s \in SignalsOf[awg] : On(awg, s, h))
    <3>1. Stored(awg, SignalsOf[awg], indices)[h] = data[h]
      BY <1>3, <1>5, <2>2, StoredIs
    <3> QED
      BY <1>1, <2>2, <3>1
  <2> QED
    BY <2>1, <2>2
<1>7. ASSUME NEW h \in Handles, NEW x \in NtSteps, FilledAt(data, h, x)
      PROVE  FilledAt(data', h, x)
  <2>1. \A k \in 1 .. Size(h) : <<x, k>> \in Cells(h)
    BY DEF Cells
  <2> QED
    BY <1>6, <1>7, <2>1 DEF FilledAt
<1>8. Accounts(executed, errors, data', {indices})
  BY <1>2, <1>7 DEF Accounts, Complete
<1>9. ASSUME NEW h \in Handles, NEW j \in 1 .. (toRead + 1) - 1,
             \E s \in SignalsOf[AwgOrder[j]] : On(AwgOrder[j], s, h)
      PROVE  FilledAt(data', h, indices)
  <2>1. CASE j = toRead
    BY <1>6, <1>9, <2>1 DEF awg
  <2>2. CASE j # toRead
    <3>1. j \in 1 .. toRead - 1
      BY <1>4, <2>2
    <3>2. FilledAt(data, h, indices)
      BY <1>2, <1>9, <3>1 DEF ReadSoFar
    <3> QED
      BY <1>3, <1>7, <3>2
  <2> QED
    BY <2>1, <2>2
<1>10. toRead + 1 \in 1 .. Len(AwgOrder) + 1
  BY <1>4
<1> QED
  BY <1>8, <1>9, <1>10 DEF ReadSoFar

\* When all AWGs have been read no result lacks anything of the step.
LEMMA AllRead ==
  ASSUME code \in Programs, ReadSoFar(data, toRead, indices), toRead > Len(AwgOrder)
  PROVE  Complete(data, indices)
<1>1. Len(AwgOrder) \in Nat /\ toRead = Len(AwgOrder) + 1
  BY AwgsAssumption DEF ReadSoFar
<1>2. 1 .. toRead - 1 = 1 .. Len(AwgOrder)
  BY <1>1
<1> SUFFICES ASSUME NEW h \in Handles PROVE FilledAt(data, h, indices)
  BY DEF Complete
<1>3. PICK s \in Signals : \A i \in AcquiresOf(h) : s \in DOMAIN Acquires(i) /\ Acquires(i)[s] = h
  BY AcquiresOfAre
<1>4. PICK j \in 1 .. Len(AwgOrder) : s \in SignalsOf[AwgOrder[j]]
  BY DEF Signals
<1>5. On(AwgOrder[j], s, h)
  BY <1>3, <1>4 DEF On
<1> QED
  BY <1>2, <1>4, <1>5 DEF ReadSoFar

\* An attempt fails: it is reported, and the next one begins or the walk goes on.
LEMMA FailureAccounts ==
  ASSUME Walking, Matched, Accounted, AttemptFails
  PROVE  /\ Alive' => Accounts(executed', errors', data', Steps')
         /\ Running' => Attempting(executed', errors', try', indices')
         /\ phase' # "read"
<1>1. /\ Running /\ Alive
      /\ errors' = Append(errors, indices) /\ executed' = executed /\ data' = data
      /\ indices' = indices
  BY DEF AttemptFails, Running, Alive, results, NtStep
<1>2. indices \in NtSteps
  BY <1>1, StepPoint
<1>3. /\ Accounts(executed, errors, data, {indices})
      /\ Attempting(executed, errors, try, indices)
  BY <1>1 DEF Accounted, Steps
<1>4. errors \in Seq(NtSteps) /\ errors' \in Seq(NtSteps)
  BY <1>1, <1>2, <1>3 DEF Accounts
<1>5. Cardinality(Failures(errors', indices)) = Cardinality(Failures(errors, indices)) + 1
  BY <1>1, <1>2, <1>4, OneMoreFailure
<1>6. \A x : x # indices => Failures(errors', x) = Failures(errors, x)
  BY <1>1, <1>2, <1>4, OneMoreFailure
<1>7. MaxTries \in Nat /\ try \in 1 .. MaxTries /\ Begun(executed, indices)
  BY <1>3, TriesAssumption DEF Attempting
<1>8. Cardinality(Failures(errors', indices)) = try
  <2>1. Cardinality(Failures(errors, indices)) = try - 1
    BY <1>3 DEF Attempting
  <2> QED
    BY <1>5, <1>7, <2>1
<1>9. ASSUME NEW x \in NtSteps, x # indices
      PROVE  /\ ~Begun(executed, x) => Failures(errors', x) = {}
             /\ Begun(executed, x) =>
                  Cardinality(Failures(errors', x)) = MaxTries \/ Complete(data, x)
  <2>1. Failures(errors', x) = Failures(errors, x)
    BY <1>6, <1>9
  <2>2. x \notin {indices}
    BY <1>9
  <2>3. /\ ~Begun(executed, x) => Failures(errors, x) = {}
        /\ Begun(executed, x) =>
             Cardinality(Failures(errors, x)) = MaxTries \/ Complete(data, x)
    BY <1>3, <2>2 DEF Accounts
  <2> QED
    BY <2>1, <2>3
<1>10. CASE try < MaxTries
  <2>1. phase' = "execute" /\ try' = try + 1
    BY <1>10 DEF AttemptFails
  <2>2. Running' /\ Steps' = {indices}
    BY <1>1, <2>1 DEF Running, Steps
  <2>3. Accounts(executed, errors', data, {indices})
    BY <1>4, <1>7, <1>9 DEF Accounts
  <2>4. try + 1 \in 1 .. MaxTries /\ (try + 1) - 1 = try
    BY <1>7, <1>10
  <2>5. Attempting(executed, errors', try + 1, indices)
    BY <1>7, <1>8, <2>4 DEF Attempting
  <2> QED
    BY <1>1, <2>1, <2>2, <2>3, <2>5
<1>11. CASE ~(try < MaxTries)
  <2>1. phase' = "walk"
    BY <1>11 DEF AttemptFails, Leave
  <2>2. ~Running' /\ Steps' = {}
    BY <2>1 DEF Running, Steps
  <2>3. try = MaxTries
    BY <1>7, <1>11
  <2>4. Accounts(executed, errors', data, {})
    <3>1. Cardinality(Failures(errors', indices)) = MaxTries
      BY <1>8, <2>3
    <3> QED
      BY <1>4, <1>7, <1>9, <3>1 DEF Accounts
  <2> QED
    BY <1>1, <2>1, <2>2, <2>4
<1> QED
  BY <1>10, <1>11

LEMMA StepAccounted ==
  Walking /\ Matched /\ Ordered /\ Listed /\ Accounted /\ [Next]_vars => Accounted'
<1> SUFFICES ASSUME Walking, Matched, Ordered, Listed, Accounted, [Next]_vars
             PROVE  Accounted'
  OBVIOUS
<1>1. code' = code /\ acquires' = acquires
  BY SameCode
<1>2. ASSUME phase = "walk", phase' \in {"walk", "done", "aborted", "raised"},
             UNCHANGED <<executed, errors, data>>
      PROVE  Accounted'
  <2>1. ~Running'
    BY <1>2 DEF Running
  <2> QED
    BY <1>1, <1>2, <2>1, QuietAccounts
<1>3. ASSUME phase' = "raised" PROVE Accounted'
  BY <1>3 DEF Accounted, Alive
<1>4. CASE EnterLoop
  <2>1. phase = "walk" /\ phase' = phase /\ UNCHANGED <<executed, errors, data>>
    BY <1>4 DEF EnterLoop, Statement, results
  <2> QED
    BY <1>2, <2>1
<1>5. CASE LoopEnds
  <2>1. phase = "walk" /\ phase' = phase /\ UNCHANGED <<executed, errors, data>>
    BY <1>5 DEF LoopEnds, Statement, results
  <2> QED
    BY <1>2, <2>1
<1>6. CASE SetParam \/ SetNode \/ ReplacePulse
  <2>1. phase = "walk" /\ phase' = phase /\ UNCHANGED <<executed, errors, data>>
    BY <1>6 DEF SetParam, SetNode, ReplacePulse, Statement, results
  <2> QED
    BY <1>2, <2>1
<1>7. CASE Callback
  <2>1. /\ phase = "walk" /\ phase' \in {"walk", "aborted", "raised"}
        /\ UNCHANGED <<executed, errors, data>>
    BY <1>7 DEF Callback, Statement, results
  <2> QED
    BY <1>2, <2>1
<1>8. CASE SkipChunk \/ Finish
  <2>1. /\ phase = "walk" /\ phase' \in {"walk", "done"}
        /\ UNCHANGED <<executed, errors, data>>
    BY <1>8 DEF SkipChunk, Finish, Statement, results
  <2> QED
    BY <1>2, <2>1
<1>9. CASE PrepareStep
  <2>1. /\ phase' = "execute" /\ try' = 1 /\ indices' = indices
        /\ errors' = errors /\ data' = data
    BY <1>9 DEF PrepareStep, walker, results
  <2>2. Steps' = {indices} /\ phase' # "read"
    BY <2>1 DEF Steps, Running
  <2>3. /\ Accounts(executed', errors, data, {indices})
        /\ Attempting(executed', errors, 1, indices)
    BY <1>9, PrepareAccounts
  <2> QED
    BY <1>1, <2>1, <2>2, <2>3, NextAccount
<1>10. CASE StepRaises \/ ReadRaises
  <2>1. phase' = "raised"
    BY <1>10 DEF StepRaises, ReadRaises
  <2> QED
    BY <1>3, <2>1
<1>11. CASE StepExecuted
  <2>1. /\ phase = "execute" /\ phase' = "read" /\ toRead' = 1 /\ indices' = indices
        /\ UNCHANGED <<try, executed, errors, data>>
    BY <1>11 DEF StepExecuted, walker, results
  <2>2. /\ Accounts(executed, errors, data, {indices})
        /\ Attempting(executed, errors, try, indices)
        /\ Steps' = {indices}
    BY <2>1 DEF Accounted, Alive, Steps, Running
  <2>3. ReadSoFar(data, 1, indices)
    <3>1. 1 \in 1 .. Len(AwgOrder) + 1 /\ 1 .. 1 - 1 = {}
      BY AwgsAssumption
    <3> QED
      BY <3>1 DEF ReadSoFar
  <2> QED
    BY <1>1, <2>1, <2>2, <2>3, NextAccount
<1>12. CASE ReadAwg
  <2>1. /\ phase = "read" /\ phase' = "read" /\ toRead' = toRead + 1 /\ indices' = indices
        /\ UNCHANGED <<try, executed, errors>>
    BY <1>12 DEF ReadAwg, walker
  <2>2. Attempting(executed, errors, try, indices) /\ Steps' = {indices}
    BY <2>1 DEF Accounted, Alive, Steps, Running
  <2>3. /\ Accounts(executed, errors, data', {indices})
        /\ ReadSoFar(data', toRead + 1, indices)
    BY <1>12, ReadAccounts
  <2> QED
    BY <1>1, <2>1, <2>2, <2>3, NextAccount
<1>13. CASE StepIsRead
  <2>1. /\ phase = "read" /\ phase' = "walk" /\ toRead > Len(AwgOrder)
        /\ UNCHANGED <<executed, errors, data>>
    BY <1>13 DEF StepIsRead, Leave, results
  <2>2. /\ Accounts(executed, errors, data, {indices})
        /\ ReadSoFar(data, toRead, indices)
    BY <2>1 DEF Accounted, Alive, Steps, Running
  <2>3. Complete(data, indices)
    BY <2>1, <2>2, AllRead DEF Walking
  <2>4. Accounts(executed, errors, data, {})
    BY <2>2, <2>3 DEF Accounts
  <2>5. Steps' = {} /\ ~Running' /\ phase' # "read"
    BY <2>1 DEF Steps, Running
  <2> QED
    BY <1>1, <2>1, <2>4, <2>5, NextAccount
<1>14. CASE AttemptFails
  BY <1>1, <1>14, FailureAccounts, NextAccount
<1>15. CASE UNCHANGED vars
  <2>1. UNCHANGED <<phase, executed, errors, data, try, toRead, indices>>
    BY <1>15 DEF vars, walker, results
  <2>2. Alive' = Alive /\ Running' = Running /\ Steps' = Steps
    BY <2>1 DEF Alive, Running, Steps
  <2> QED
    BY <1>1, <2>1, <2>2, NextAccount DEF Accounted
<1> QED
  BY <1>4, <1>5, <1>6, <1>7, <1>8, <1>9, <1>10, <1>11, <1>12, <1>13, <1>14, <1>15 DEF Next

\* At the end nothing is missing that was not reported.
LEMMA EndsReported ==
  Walking /\ Ordered /\ Accounted => (phase = "done" => Reported)
<1> SUFFICES ASSUME Walking, Ordered, Accounted, phase = "done",
                    NEW h \in Handles, NEW c \in Cells(h), data[h][c] = None
             PROVE  Cardinality({k \in DOMAIN errors : errors[k] = c[1]}) = MaxTries
  BY DEF Reported
<1>1. /\ c[1] \in NtSteps /\ c[2] \in 1 .. Size(h) /\ c = <<c[1], c[2]>>
  BY DEF Cells
<1>2. Accounts(executed, errors, data, {})
  BY DEF Accounted, Alive, Steps, Running
<1>3. Begun(executed, c[1])
  <2>1. executed \in Seq(NtSteps) /\ StepsInOrder
    BY EndsInOrder DEF Ordered
  <2>2. DOMAIN executed = 1 .. Len(executed)
    BY <2>1
  <2>3. \E k \in DOMAIN executed : executed[k] = c[1]
    BY <1>1, <2>1 DEF StepsInOrder
  <2> QED
    BY <2>2, <2>3 DEF Begun
<1>4. ~Complete(data, c[1])
  BY <1>1 DEF Complete, FilledAt
<1>5. Cardinality(Failures(errors, c[1])) = MaxTries
  BY <1>1, <1>2, <1>3, <1>4 DEF Accounts
<1> QED
  BY <1>5 DEF Failures

(* An experiment that ends by itself has executed every near-time point     *)
(* once, in the order of the loops, and a result lacks an element of a      *)
(* point only if all attempts there failed and were reported               *)
(* (NearTimeRunner, _report_step_error and build_partial_result).           *)
THEOREM StepExecution ==
  Spec => []EveryStepIsExecuted
<1>1. Init => Walking /\ Matched /\ Ordered /\ Listed /\ Accounted
  BY InitWalks, InitMatches, InitOrdered, InitListed, InitAccounted
<1>2. Walking /\ Matched /\ Ordered /\ Listed /\ Accounted /\ [Next]_vars
        => Walking' /\ Matched' /\ Ordered' /\ Listed' /\ Accounted'
  BY StepWalks, StepMatches, StepOrdered, StepListed, StepAccounted
<1>3. Walking /\ Ordered /\ Accounted => EveryStepIsExecuted
  BY EndsInOrder, EndsReported DEF EveryStepIsExecuted
<1> QED
  BY <1>1, <1>2, <1>3, PTL DEF Spec

-----------------------------------------------------------------------------
(* Where the values of a vector belong.                                     *)

\* Of two tuples one comes first.
LEMMA OneWay ==
  ASSUME NEW n \in Nat, NEW x, NEW y, DOMAIN x = 1 .. n, DOMAIN y = 1 .. n,
         \A k \in 1 .. n : x[k] \in Int /\ y[k] \in Int, Precedes(x, y)
  PROVE  ~Precedes(y, x)
<1> SUFFICES ASSUME Precedes(y, x) PROVE FALSE
  OBVIOUS
<1>1. PICK m \in 1 .. n : x[m] < y[m] /\ \A l \in 1 .. (m - 1) : x[l] = y[l]
  BY DEF Precedes
<1>2. PICK k \in 1 .. n : y[k] < x[k] /\ \A l \in 1 .. (k - 1) : y[l] = x[l]
  BY DEF Precedes
<1>3. x[m] \in Int /\ y[m] \in Int /\ x[k] \in Int /\ y[k] \in Int
  OBVIOUS
<1>4. CASE m < k
  <2>1. m \in 1 .. (k - 1)
    BY <1>4
  <2> QED
    BY <1>1, <1>2, <1>3, <2>1
<1>5. CASE k < m
  <2>1. k \in 1 .. (m - 1)
    BY <1>5
  <2> QED
    BY <1>1, <1>2, <1>3, <2>1
<1>6. CASE k = m
  BY <1>1, <1>2, <1>3, <1>6
<1> QED
  BY <1>4, <1>5, <1>6

\* The list of simultaneous acquires is in the order of time.
LEMMA AcquiredInOrder ==
  ASSUME code \in Programs,
         NEW j \in 1 .. Cardinality(Events), NEW k \in 1 .. Cardinality(Events), j < k
  PROVE  Before(SimultaneousAcquires[j], SimultaneousAcquires[k])
<1> DEFINE rank(e) == Cardinality(UpToEvent(e))
           x == SimultaneousAcquires[j]
           y == SimultaneousAcquires[k]
<1>1. \A e \in Events : UpToEvent(e) = UpToIn(EventOrder, Events, e)
  BY DEF UpToEvent, UpToIn, EventOrder
<1>2. IsFiniteSet(Events) /\ StrictOrder(EventOrder, Events)
  BY EventsAre, EventsOrdered
<1>3. \A i \in 1 .. Cardinality(Events) : \E e \in Events : rank(e) = i
  BY <1>1, <1>2, RanksIn
<1>4. x \in Events /\ rank(x) = j /\ y \in Events /\ rank(y) = k
  BY <1>3 DEF SimultaneousAcquires
<1> HIDE DEF x, y
<1>5. x # y
  BY <1>4
<1>6. Before(x, y) \/ Before(y, x)
  BY <1>2, <1>4, <1>5 DEF StrictOrder, EventOrder
<1>7. ASSUME Before(y, x) PROVE FALSE
  <2>1. \A e \in Events : Before(e, y) => Before(e, x)
    BY <1>2, <1>4, <1>7 DEF StrictOrder, EventOrder
  <2>2. UpToEvent(y) \subseteq UpToEvent(x)
    BY <1>4, <1>7, <2>1 DEF UpToEvent
  <2>3. IsFiniteSet(UpToEvent(x))
    <3>1. UpToEvent(x) \in SUBSET Events
      BY DEF UpToEvent
    <3> QED
      BY <1>2, <3>1, FS_Subset
  <2>4. rank(y) <= rank(x)
    BY <2>2, <2>3, FS_Subset
  <2> QED
    BY <1>4, <2>4
<1> QED
  BY <1>6, <1>7 DEF x, y

\* So is the map of an AWG.
LEMMA MapInOrder ==
  ASSUME code \in Programs, acquires = SimultaneousAcquires, NEW awg, NEW s,
         NEW j \in 1 .. Len(ResultMap(awg, s)), NEW k \in 1 .. Len(ResultMap(awg, s)), j < k
  PROVE  Before(ResultMap(awg, s)[j], ResultMap(awg, s)[k])
<1> DEFINE map == ResultMap(awg, s)
           P == PlacesOf(awg)
           n == Cardinality(P)
           N == Cardinality(Events)
<1>1. N \in Nat /\ DOMAIN acquires = 1 .. N
  BY AllAcquired
<1>2. P \in SUBSET (1 .. N)
  BY <1>1 DEF PlacesOf
<1>3. IsFiniteSet(P) /\ P \in SUBSET Int
  <2>1. IsFiniteSet(1 .. N)
    BY <1>1, FS_Interval
  <2> HIDE DEF P, N
  <2>2. IsFiniteSet(P)
    BY <1>2, <2>1, FS_Subset
  <2>3. P \in SUBSET Int
    BY <1>2
  <2> QED
    BY <2>2, <2>3
<1> HIDE DEF P, N
<1>4. /\ n \in Nat
      /\ \A i \in 1 .. n : Sorted(P)[i] \in P
      /\ \A i, l \in 1 .. n : i < l => Sorted(P)[i] < Sorted(P)[l]
  BY <1>3, SortedIs
<1>5. map = [i \in 1 .. n |-> acquires[Sorted(P)[i]]]
  BY DEF ResultMap, AcquiresAt, P
<1>6. Len(map) \in Nat /\ DOMAIN map = 1 .. Len(map)
  BY MapIs
<1>7. j \in 1 .. n /\ k \in 1 .. n
  BY <1>5, <1>6
<1> HIDE DEF map, n
<1>8. map[j] = acquires[Sorted(P)[j]] /\ map[k] = acquires[Sorted(P)[k]]
  BY <1>5, <1>7
<1>9. /\ Sorted(P)[j] \in 1 .. N /\ Sorted(P)[k] \in 1 .. N
      /\ Sorted(P)[j] < Sorted(P)[k]
  BY <1>2, <1>4, <1>7
<1>10. Before(acquires[Sorted(P)[j]], acquires[Sorted(P)[k]])
  BY <1>9, AcquiredInOrder DEF N
<1> QED
  BY <1>8, <1>10 DEF map

\* A handle is not None.
LEMMA HandleIsNamed ==
  ASSUME code \in Programs, NEW h \in Handles
  PROVE  h # None
<1>1. PICK i \in AcquiresOf(h) : AcquireAt(i)
  BY AcquiresOfAre
<1>2. PICK t : t \in DOMAIN Acquires(i) /\ Acquires(i)[t] = h
  BY DEF AcquiresOf, HandlesAt
<1>3. i \in {k \in DOMAIN code : code[k].op = "acquire"}
  BY <1>1 DEF AcquireAt
<1>4. t \in DOMAIN code[i].handles /\ code[i].handles[t] = h
  BY <1>1, <1>2 DEF AcquireAt, Acquires
<1> QED
  BY <1>3, <1>4, AcquiresAssumption

\* What a vector has in a place of the handle.
LEMMA ValueIs ==
  ASSUME code \in Programs, acquires = SimultaneousAcquires, NEW h \in Handles,
         NEW awg, NEW s, On(awg, s, h), NEW step, NEW k \in HitSet(awg, s, h)
  PROVE  LET map == ResultMap(awg, s)
             n == Len(map)
             v == Raw(awg, step)[k]
         IN  /\ n \in Nat /\ k \in 1 .. n * Repeats /\ (k - 1) % n \in 0 .. n - 1
             /\ v.step = step /\ v.shot = (k - 1) \div n /\ v.event = map[((k - 1) % n) + 1]
             /\ v.shot \in 0 .. Repeats - 1
             /\ v.event \in Events /\ v.event.stmt \in AcquiresOf(h)
<1> DEFINE map == ResultMap(awg, s)
           n == Len(map)
           v == Raw(awg, step)[k]
           e == map[((k - 1) % n) + 1]
<1>1. /\ n \in Nat /\ AcquiresAt(PlacesOf(awg)) = map
      /\ \A j \in 1 .. n : map[j] \in Events
  BY MapIs
<1>2. Repeats \in Nat \ {0}
  BY RepeatsAre
<1>3. k \in 1 .. n * Repeats /\ HandleOf(e, s) = h
  BY DEF HitSet
<1>4. (k - 1) \div n \in 0 .. Repeats - 1 /\ (k - 1) % n \in 0 .. n - 1
  BY <1>1, <1>2, <1>3, RowOf
<1>5. Raw(awg, step) =
        [j \in 1 .. n * Repeats |->
           [step |-> step, shot |-> (j - 1) \div n, event |-> map[((j - 1) % n) + 1]]]
  BY <1>1 DEF Raw
<1>6. v = [step |-> step, shot |-> (k - 1) \div n, event |-> e]
  BY <1>3, <1>5
<1>7. e \in Events
  <2>1. ((k - 1) % n) + 1 \in 1 .. n
    BY <1>1, <1>4
  <2> QED
    BY <1>1, <2>1
<1>8. e.stmt \in AcquiresOf(h)
  <2>1. h # None
    BY HandleIsNamed
  <2>2. s \in DOMAIN Acquires(e.stmt) /\ Acquires(e.stmt)[s] = h
    BY <1>3, <2>1 DEF HandleOf
  <2>3. e.stmt \in DOMAIN code
    BY <1>7, EventsAre DEF AcquireAt
  <2> QED
    BY <2>2, <2>3 DEF AcquiresOf, HandlesAt
<1> HIDE DEF map, n, e, v
<1>9. v.step = step /\ v.shot = (k - 1) \div n /\ v.event = e
  BY <1>6
<1> QED
  BY <1>1, <1>3, <1>4, <1>7, <1>8, <1>9 DEF map, n, e, v

\* The elements of the point a value belongs to.
LEMMA PointIs ==
  ASSUME code \in Programs, NEW h \in Handles, NEW v,
         v.shot \in 0 .. Repeats - 1, v.event \in Events, v.event.stmt \in AcquiresOf(h)
  PROVE  LET i == v.event.stmt
             w == Len(Sweeps(i))
             c == Cardinality(AcquiresOf(h))
             more == IF c > 1 THEN 1 ELSE 0
             p == Point(h, v)
         IN  /\ w \in Nat /\ c \in Nat \ {0}
             /\ p \in Seq(Nat) /\ Len(p) = (ShotAxes + w) + more
             /\ ShotAxes = 1 => p[1] = v.shot
             /\ \A k \in 1 .. w : p[ShotAxes + k] = v.event.index[k]
             /\ c > 1 => p[(ShotAxes + w) + 1] = Nth(h, i)
             /\ Nth(h, i) \in Nat /\ Nth(h, i) < c
<1> DEFINE i == v.event.stmt
           A == AcquiresOf(h)
           w == Len(Sweeps(i))
           c == Cardinality(A)
           more == IF c > 1 THEN 1 ELSE 0
           x == v.event.index
           t == Nth(h, i)
           first == IF code[RtAt].singleShot THEN <<v.shot>> ELSE << >>
           last_ == IF c > 1 THEN <<t>> ELSE << >>
<1>1. A \in SUBSET Int /\ IsFiniteSet(A) /\ c \in Nat \ {0}
  BY AcquiresOfAre
<1>2. w \in Nat
  BY SweepsAre
<1>3. x \in Seq(Nat) /\ Len(x) = w
  BY EventsAre, IndicesAre
<1>4. t \in Nat /\ t < c
  <2> DEFINE B == {j \in A : j < i}
  <2>1. B \in SUBSET A /\ i \in A /\ i \notin B
    BY <1>1
  <2>2. t = Cardinality(B)
    BY DEF Nth
  <2> HIDE DEF B, t
  <2>3. IsFiniteSet(B) /\ Cardinality(B) \in Nat
    BY <1>1, <2>1, FS_Subset, FS_CardinalityType
  <2>4. Cardinality(B) <= c /\ (Cardinality(B) = c => B = A)
    BY <1>1, <2>1, FS_Subset
  <2> QED
    BY <1>1, <2>1, <2>2, <2>3, <2>4
<1>5. v.shot \in Nat
  BY RepeatsAre
<1>6. Point(h, v) = first \o x \o last_
  BY DEF Point
<1>7. /\ first \in Seq(Nat) /\ Len(first) = ShotAxes /\ ShotAxes \in 0 .. 1
      /\ ShotAxes = 1 => first[1] = v.shot
  BY <1>5 DEF ShotAxes
<1>8. last_ \in Seq(Nat) /\ Len(last_) = more /\ (c > 1 => last_[1] = t)
  BY <1>4
<1>9. more \in 0 .. 1 /\ (c > 1 => more = 1)
  OBVIOUS
<1> HIDE DEF first, last_, x, w, t, c, more
<1> DEFINE fx == first \o x
<1>10. /\ fx \in Seq(Nat) /\ Len(fx) = ShotAxes + w
       /\ \A k \in 1 .. Len(first) : fx[k] = first[k]
       /\ \A k \in 1 .. Len(x) : fx[Len(first) + k] = x[k]
  <2>1. first \in Seq(Nat) /\ x \in Seq(Nat)
    BY <1>3, <1>7
  <2>2. /\ first \o x \in Seq(Nat) /\ Len(first \o x) = Len(first) + Len(x)
        /\ \A k \in 1 .. Len(first) : (first \o x)[k] = first[k]
        /\ \A k \in 1 .. Len(x) : (first \o x)[Len(first) + k] = x[k]
    BY <2>1, ConcatElements
  <2>3. fx = first \o x
    OBVIOUS
  <2> HIDE DEF fx
  <2> QED
    BY <1>3, <1>7, <2>2, <2>3
<1>11. Point(h, v) = fx \o last_
  BY <1>6
<1> HIDE DEF fx
<1>12. /\ Point(h, v) \in Seq(Nat) /\ Len(Point(h, v)) = (ShotAxes + w) + more
       /\ \A k \in 1 .. Len(fx) : Point(h, v)[k] = fx[k]
       /\ \A k \in 1 .. Len(last_) : Point(h, v)[Len(fx) + k] = last_[k]
  <2>1. fx \in Seq(Nat) /\ last_ \in Seq(Nat)
    BY <1>8, <1>10
  <2>2. /\ fx \o last_ \in Seq(Nat) /\ Len(fx \o last_) = Len(fx) + Len(last_)
        /\ \A k \in 1 .. Len(fx) : (fx \o last_)[k] = fx[k]
        /\ \A k \in 1 .. Len(last_) : (fx \o last_)[Len(fx) + k] = last_[k]
    BY <2>1, ConcatElements
  <2> QED
    BY <1>8, <1>10, <1>11, <2>2
<1>13. ASSUME ShotAxes = 1 PROVE Point(h, v)[1] = v.shot
  <2>1. 1 \in 1 .. Len(fx) /\ 1 \in 1 .. Len(first)
    BY <1>2, <1>7, <1>10, <1>13
  <2> QED
    BY <1>7, <1>10, <1>12, <1>13, <2>1
<1>14. ASSUME NEW k \in 1 .. w PROVE Point(h, v)[ShotAxes + k] = x[k]
  <2>1. ShotAxes + k \in 1 .. Len(fx) /\ k \in 1 .. Len(x)
    BY <1>2, <1>3, <1>7, <1>10
  <2> QED
    BY <1>7, <1>10, <1>12, <2>1
<1>15. ASSUME c > 1 PROVE Point(h, v)[(ShotAxes + w) + 1] = t
  <2>1. 1 \in 1 .. Len(last_)
    BY <1>8, <1>9, <1>15
  <2> QED
    BY <1>8, <1>10, <1>12, <1>15, <2>1
<1> QED
  BY <1>1, <1>2, <1>4, <1>12, <1>13, <1>14, <1>15 DEF w, c, more, x, t

\* It is one of the result.
LEMMA PointInside ==
  ASSUME code \in Programs, ShapesAgree, NEW h \in Handles, NEW v,
         v.shot \in 0 .. Repeats - 1, v.event \in Events, v.event.stmt \in AcquiresOf(h)
  PROVE  Point(h, v) \in Tuples(RtShape(h))
<1> DEFINE i == v.event.stmt
           w == Len(Sweeps(i))
           c == Cardinality(AcquiresOf(h))
           d == RtShape(h)
           more == IF c > 1 THEN 1 ELSE 0
           p == Point(h, v)
           a == ShotAxes
<1>1. /\ w \in Nat /\ c \in Nat \ {0}
      /\ p \in Seq(Nat) /\ Len(p) = (a + w) + more
      /\ a = 1 => p[1] = v.shot
      /\ \A k \in 1 .. w : p[a + k] = v.event.index[k]
      /\ c > 1 => p[(a + w) + 1] = Nth(h, i)
      /\ Nth(h, i) \in Nat /\ Nth(h, i) < c
  BY PointIs
<1>2. /\ Len(d) = (a + w) + more /\ DOMAIN d = 1 .. ((a + w) + more)
      /\ \A k \in 1 .. ((a + w) + more) : d[k] \in Nat
      /\ a = 1 => d[1] = code[RtAt].count
      /\ \A k \in 1 .. w : d[a + k] = code[Sweeps(i)[k]].count
      /\ c > 1 => d[(a + w) + 1] = c
  BY RtShapeIs
<1>3. a \in 0 .. 1 /\ (a = 1 => Repeats = code[RtAt].count)
  BY DEF ShotAxes, Repeats
<1>4. \A k \in 1 .. w : v.event.index[k] < code[Sweeps(i)[k]].count
  BY EventsAre, IndicesAre
<1>5. v.shot < Repeats
  BY RepeatsAre
<1>6. more \in 0 .. 1 /\ (c > 1 => more = 1) /\ (c <= 1 => more = 0)
  BY <1>1
<1> HIDE DEF i, w, c, d, more, p, a
<1>7. ASSUME NEW k \in 1 .. Len(d) PROVE p[k] < d[k]
  <2>1. CASE k <= a
    <3>1. a = 1 /\ k = 1
      BY <1>3, <2>1
    <3> QED
      BY <1>1, <1>2, <1>3, <1>5, <3>1
  <2>2. CASE a < k /\ k <= a + w
    <3>1. k - a \in 1 .. w /\ a + (k - a) = k
      BY <1>1, <1>3, <2>2
    <3>2. p[a + (k - a)] = v.event.index[k - a] /\ d[a + (k - a)] = code[Sweeps(i)[k - a]].count
      BY <1>1, <1>2, <3>1
    <3> QED
      BY <1>4, <3>1, <3>2
  <2>3. CASE a + w < k
    <3>1. k = (a + w) + 1 /\ c > 1
      BY <1>1, <1>2, <1>3, <1>6, <2>3
    <3> QED
      BY <1>1, <1>2, <3>1
  <2>4. k <= a \/ (a < k /\ k <= a + w) \/ a + w < k
    BY <1>1, <1>3
  <2> QED
    BY <2>1, <2>2, <2>3, <2>4
<1>8. Len(d) \in Nat /\ DOMAIN d = 1 .. Len(d) /\ Len(p) = Len(d)
      /\ \A k \in 1 .. Len(d) : d[k] \in Nat
  BY <1>1, <1>2, <1>3, <1>6
<1>9. p \in Tuples(d)
  BY <1>1, <1>7, <1>8, TuplesAre
<1> QED
  BY <1>9 DEF p, d

\* Of two acquires of a handle the later one has the greater number.
LEMMA LaterAcquire ==
  ASSUME code \in Programs, NEW h \in Handles,
         NEW i \in AcquiresOf(h), NEW j \in AcquiresOf(h), i < j
  PROVE  Cardinality(AcquiresOf(h)) > 1 /\ Nth(h, i) < Nth(h, j)
<1> DEFINE A == AcquiresOf(h)
           B == {k \in A : k < i}
           C == {k \in A : k < j}
<1>1. A \in SUBSET Int /\ IsFiniteSet(A)
  BY AcquiresOfAre
<1>2. Nth(h, i) = Cardinality(B) /\ Nth(h, j) = Cardinality(C)
  BY DEF Nth
<1>3. B \subseteq C /\ i \in C /\ i \notin B /\ C \subseteq A /\ j \in A /\ j \notin C
  BY <1>1
<1> HIDE DEF A, B, C
<1>4. IsFiniteSet(C) /\ Cardinality(C) <= Cardinality(A) /\ (Cardinality(C) = Cardinality(A) => C = A)
  BY <1>1, <1>3, FS_Subset
<1>5. IsFiniteSet(B) /\ Cardinality(B) <= Cardinality(C) /\ (Cardinality(B) = Cardinality(C) => B = C)
  BY <1>3, <1>4, FS_Subset
<1>6. Cardinality(A) \in Nat /\ Cardinality(B) \in Nat /\ Cardinality(C) \in Nat
  BY <1>1, <1>4, <1>5, FS_CardinalityType
<1>7. Cardinality(B) < Cardinality(C) /\ Cardinality(C) < Cardinality(A)
  BY <1>3, <1>4, <1>5, <1>6
<1>8. Cardinality(A) > 1
  BY <1>6, <1>7
<1> QED
  BY <1>2, <1>7, <1>8 DEF A

\* Of two values of a result the one measured first belongs first.
LEMMA PointsInOrder ==
  ASSUME code \in Programs, InSameLoops, NEW h \in Handles, NEW u, NEW v,
         u.shot \in 0 .. Repeats - 1, u.event \in Events, u.event.stmt \in AcquiresOf(h),
         v.shot \in 0 .. Repeats - 1, v.event \in Events, v.event.stmt \in AcquiresOf(h),
         u.shot < v.shot \/ (u.shot = v.shot /\ Before(u.event, v.event))
  PROVE  Precedes(Point(h, u), Point(h, v))
<1> DEFINE e == u.event
           f == v.event
           s == Sweeps(e.stmt)
           w == Len(s)
           c == Cardinality(AcquiresOf(h))
           more == IF c > 1 THEN 1 ELSE 0
           p == Point(h, u)
           q == Point(h, v)
           a == ShotAxes
           x == e.index
           y == f.index
<1>1. Sweeps(f.stmt) = s
  BY DEF InSameLoops, Sweeps
<1>2. /\ w \in Nat /\ c \in Nat \ {0}
      /\ p \in Seq(Nat) /\ Len(p) = (a + w) + more
      /\ a = 1 => p[1] = u.shot
      /\ \A k \in 1 .. w : p[a + k] = x[k]
      /\ c > 1 => p[(a + w) + 1] = Nth(h, e.stmt)
      /\ Nth(h, e.stmt) \in Nat
  BY PointIs
<1>3. /\ q \in Seq(Nat) /\ Len(q) = (a + w) + more
      /\ a = 1 => q[1] = v.shot
      /\ \A k \in 1 .. w : q[a + k] = y[k]
      /\ c > 1 => q[(a + w) + 1] = Nth(h, f.stmt)
      /\ Nth(h, f.stmt) \in Nat
  <2>1. Len(Sweeps(f.stmt)) = w
    BY <1>1
  <2>2. /\ q \in Seq(Nat) /\ Len(q) = (a + Len(Sweeps(f.stmt))) + more
        /\ a = 1 => q[1] = v.shot
        /\ \A k \in 1 .. Len(Sweeps(f.stmt)) : q[a + k] = y[k]
        /\ c > 1 => q[(a + Len(Sweeps(f.stmt))) + 1] = Nth(h, f.stmt)
        /\ Nth(h, f.stmt) \in Nat
    BY PointIs
  <2> QED
    BY <2>1, <2>2
<1>4. a \in 0 .. 1 /\ (a = 0 => Repeats = 1)
  BY DEF ShotAxes, Repeats
<1>5. more \in 0 .. 1 /\ (c > 1 => more = 1)
  OBVIOUS
<1>6. Repeats \in Nat
  BY RepeatsAre
<1>7. CASE u.shot < v.shot
  <2>1. a = 1
    BY <1>4, <1>6, <1>7
  <2> HIDE DEF p, q, a, w, more
  <2>2. 1 \in DOMAIN p /\ 1 \in DOMAIN q
    BY <1>2, <1>3, <1>5, <2>1
  <2>3. p[1] < q[1] /\ \A l \in 1 .. (1 - 1) : p[l] = q[l]
    BY <1>2, <1>3, <1>7, <2>1
  <2>4. Precedes(p, q)
    BY <2>2, <2>3 DEF Precedes
  <2> QED
    BY <2>4 DEF p, q
<1>8. CASE u.shot = v.shot /\ Before(u.event, v.event)
  <2> DEFINE P == Position(e)
             Q == Position(f)
  <2>1. /\ DOMAIN P = 1 .. 2 * w + 1 /\ P[2 * w + 1] = e.stmt
        /\ \A m \in 1 .. w : P[2 * m] = x[m] /\ P[2 * m - 1] = s[m]
        /\ \A k \in 1 .. 2 * w + 1 : P[k] \in Int
    BY PositionIs
  <2>2. /\ DOMAIN Q = 1 .. 2 * w + 1 /\ Q[2 * w + 1] = f.stmt
        /\ \A m \in 1 .. w : Q[2 * m] = y[m] /\ Q[2 * m - 1] = s[m]
        /\ \A k \in 1 .. 2 * w + 1 : Q[k] \in Int
    <3>1. LET z == Sweeps(f.stmt)
              n == Len(z)
          IN  /\ DOMAIN Q = 1 .. 2 * n + 1 /\ Q[2 * n + 1] = f.stmt
              /\ \A m \in 1 .. n : Q[2 * m] = y[m] /\ Q[2 * m - 1] = z[m]
              /\ \A k \in 1 .. 2 * n + 1 : Q[k] \in Int
      BY PositionIs
    <3> QED
      BY <1>1, <3>1
  <2>3. PICK k \in 1 .. 2 * w + 1 : P[k] < Q[k] /\ \A j \in 1 .. (k - 1) : P[j] = Q[j]
    BY <1>8, <2>1, <2>2 DEF Before, Precedes
  <2>4. e.stmt \in Int /\ f.stmt \in Int
    BY AcquiresOfAre
  <2> HIDE DEF P, Q, p, q, a, w, more, x, y, s, c
  <2>5. ASSUME NEW m \in 1 .. w, 2 * m < k PROVE x[m] = y[m]
    <3>1. 2 * m \in 1 .. (k - 1)
      BY <1>2, <2>5
    <3>2. P[2 * m] = Q[2 * m]
      BY <2>3, <3>1
    <3> QED
      BY <2>1, <2>2, <3>2
  <2>6. ASSUME a = 1 PROVE p[1] = q[1]
    BY <1>2, <1>3, <1>8, <2>6
  <2>7. CASE k = 2 * w + 1
    <3>1. e.stmt < f.stmt
      BY <2>1, <2>2, <2>3, <2>7
    <3>2. c > 1 /\ Nth(h, e.stmt) < Nth(h, f.stmt)
      BY <3>1, LaterAcquire DEF c
    <3> DEFINE n == (a + w) + 1
    <3>3. n \in DOMAIN p /\ n \in DOMAIN q /\ p[n] < q[n]
      BY <1>2, <1>3, <1>4, <1>5, <3>2
    <3>4. ASSUME NEW l \in 1 .. (n - 1) PROVE p[l] = q[l]
      <4>1. CASE l <= a
        <5>1. a = 1 /\ l = 1
          BY <1>4, <4>1
        <5> QED
          BY <2>6, <5>1
      <4>2. CASE a < l
        <5>1. l - a \in 1 .. w /\ a + (l - a) = l /\ 2 * (l - a) < k
          BY <1>2, <1>4, <2>7, <4>2
        <5>2. x[l - a] = y[l - a] /\ p[a + (l - a)] = x[l - a] /\ q[a + (l - a)] = y[l - a]
          BY <1>2, <1>3, <2>5, <5>1
        <5> QED
          BY <5>1, <5>2
      <4> QED
        BY <1>2, <1>4, <4>1, <4>2
    <3> HIDE DEF n
    <3>5. Precedes(p, q)
      BY <3>3, <3>4 DEF Precedes
    <3> QED
      BY <3>5 DEF p, q
  <2>8. CASE k # 2 * w + 1
    <3>1. PICK m \in 1 .. w : k = 2 * m \/ k = 2 * m - 1
      <4> DEFINE r == (k + 1) \div 2
      <4>1. r \in Int /\ (k = 2 * r \/ k = 2 * r - 1)
        BY <1>2
      <4>2. r \in 1 .. w
        BY <1>2, <2>8, <4>1
      <4> QED
        BY <4>1, <4>2
    <3>2. k = 2 * m
      <4> SUFFICES ASSUME k = 2 * m - 1 PROVE FALSE
        BY <3>1
      <4>1. P[k] = s[m] /\ Q[k] = s[m]
        BY <2>1, <2>2
      <4> QED
        BY <2>1, <2>3, <4>1
    <3>3. x[m] < y[m]
      BY <2>1, <2>2, <2>3, <3>2
    <3> DEFINE n == a + m
    <3>4. n \in DOMAIN p /\ n \in DOMAIN q
      BY <1>2, <1>3, <1>4, <1>5
    <3>5. p[n] < q[n]
      BY <1>2, <1>3, <3>3
    <3>6. ASSUME NEW l \in 1 .. (n - 1) PROVE p[l] = q[l]
      <4>1. CASE l <= a
        <5>1. a = 1 /\ l = 1
          BY <1>4, <4>1
        <5> QED
          BY <2>6, <5>1
      <4>2. CASE a < l
        <5>1. l - a \in 1 .. w /\ a + (l - a) = l /\ 2 * (l - a) < k
          BY <1>2, <1>4, <3>2, <4>2
        <5>2. x[l - a] = y[l - a] /\ p[a + (l - a)] = x[l - a] /\ q[a + (l - a)] = y[l - a]
          BY <1>2, <1>3, <2>5, <5>1
        <5> QED
          BY <5>1, <5>2
      <4> QED
        BY <1>4, <4>1, <4>2
    <3> HIDE DEF n
    <3>7. Precedes(p, q)
      BY <3>4, <3>5, <3>6 DEF Precedes
    <3> QED
      BY <3>7 DEF p, q
  <2> QED
    BY <2>7, <2>8
<1> QED
  BY <1>7, <1>8

\* The places of a result, by the loops.
LEMMA PlacesAre ==
  ASSUME code \in Programs, ShapesAgree, NEW h \in Handles
  PROVE  /\ IsFiniteSet(Tuples(RtShape(h)))
         /\ \A x, y \in Tuples(RtShape(h)) : Precedes(x, y) => ~Precedes(y, x)
<1> DEFINE d == RtShape(h)
           n == Len(d)
<1>1. PICK i \in AcquiresOf(h) : TRUE
  BY AcquiresOfAre
<1>2. n \in Nat /\ DOMAIN d = 1 .. n /\ \A k \in 1 .. n : d[k] \in Nat
  <2> DEFINE more == IF Cardinality(AcquiresOf(h)) > 1 THEN 1 ELSE 0
             l == (ShotAxes + Len(Sweeps(i))) + more
  <2>1. n = l /\ DOMAIN d = 1 .. l /\ \A k \in 1 .. l : d[k] \in Nat
    BY RtShapeIs
  <2>2. ShotAxes \in Nat /\ Len(Sweeps(i)) \in Nat /\ more \in Nat
    BY SweepsAre DEF ShotAxes
  <2> HIDE DEF d, n, more
  <2>3. l \in Nat
    BY <2>2
  <2> QED
    BY <2>1, <2>3
<1> HIDE DEF d, n
<1>3. /\ IsFiniteSet(Tuples(d))
      /\ \A x \in Tuples(d) : /\ x \in Seq(Nat) /\ Len(x) = n
                              /\ \A k \in 1 .. n : x[k] \in Nat
  BY <1>2, TuplesAre
<1>4. ASSUME NEW x \in Tuples(d), NEW y \in Tuples(d), Precedes(x, y) PROVE ~Precedes(y, x)
  <2>1. /\ DOMAIN x = 1 .. n /\ DOMAIN y = 1 .. n
        /\ \A k \in 1 .. n : x[k] \in Int /\ y[k] \in Int
    BY <1>3
  <2> QED
    BY <1>2, <1>4, <2>1, OneWay
<1> QED
  BY <1>3, <1>4 DEF d

(* The values a handle has in a vector are in the order of their places, so *)
(* the k-th belongs to the k-th place.                                      *)
LEMMA HitsPlaced ==
  ASSUME code \in Programs, Listed, InSameLoops, NEW h \in Handles, NEW awg, NEW s,
         On(awg, s, h), NEW step, NEW k \in 1 .. Cardinality(HitSet(awg, s, h))
  PROVE  LET v == Raw(awg, step)[Hits(awg, s, h)[k]]
         IN  /\ v.step = step /\ v.event.stmt \in AcquiresOf(h)
             /\ Point(h, v) \in Tuples(RtShape(h))
             /\ k = PlaceOf(RtShape(h), Point(h, v))
<1> DEFINE H == HitSet(awg, s, h)
           hits == Hits(awg, s, h)
           T == Tuples(RtShape(h))
           R == {d \in T \X T : Precedes(d[1], d[2])}
           map == ResultMap(awg, s)
           n == Len(map)
           v(j) == Raw(awg, step)[j]
           P == [j \in H |-> Point(h, v(j))]
<1>1. /\ IsFiniteSet(H) /\ IsFiniteSet(T) /\ Cardinality(T) <= Cardinality(H)
  BY EnoughHits DEF Size, Listed
<1>2. \A x, y \in T : <<x, y>> \in R => <<y, x>> \notin R
  <2>1. \A x, y \in T : Precedes(x, y) => ~Precedes(y, x)
    BY PlacesAre DEF Listed
  <2> HIDE DEF T
  <2> QED
    BY <2>1
<1>3. ASSUME NEW j \in H
      PROVE  /\ n \in Nat /\ j \in 1 .. n * Repeats /\ (j - 1) % n \in 0 .. n - 1
             /\ v(j).step = step /\ v(j).shot = (j - 1) \div n
             /\ v(j).event = map[((j - 1) % n) + 1]
             /\ v(j).shot \in 0 .. Repeats - 1
             /\ v(j).event \in Events /\ v(j).event.stmt \in AcquiresOf(h)
  BY ValueIs DEF Listed
<1>4. ASSUME NEW j \in H PROVE Point(h, v(j)) \in T
  <2> DEFINE u == v(j)
  <2>1. u.shot \in 0 .. Repeats - 1 /\ u.event \in Events /\ u.event.stmt \in AcquiresOf(h)
    BY <1>3
  <2> HIDE DEF u
  <2>2. Point(h, u) \in Tuples(RtShape(h))
    BY <2>1, PointInside DEF Listed
  <2> QED
    BY <2>2 DEF u
<1>5. ASSUME NEW i \in H, NEW j \in H, i < j
      PROVE  Precedes(Point(h, v(i)), Point(h, v(j)))
  <2> DEFINE a == v(i)
             b == v(j)
  <2>1. /\ n \in Nat /\ i \in 1 .. n * Repeats /\ j \in 1 .. n * Repeats
        /\ (i - 1) % n \in 0 .. n - 1 /\ (j - 1) % n \in 0 .. n - 1
        /\ a.shot = (i - 1) \div n /\ b.shot = (j - 1) \div n
        /\ a.event = map[((i - 1) % n) + 1] /\ b.event = map[((j - 1) % n) + 1]
        /\ a.shot \in 0 .. Repeats - 1 /\ a.event \in Events /\ a.event.stmt \in AcquiresOf(h)
        /\ b.shot \in 0 .. Repeats - 1 /\ b.event \in Events /\ b.event.stmt \in AcquiresOf(h)
    BY <1>3
  <2> HIDE DEF a, b
  <2>2. Repeats \in Nat
    BY RepeatsAre
  <2>3. \/ (i - 1) \div n < (j - 1) \div n
        \/ (i - 1) \div n = (j - 1) \div n /\ (i - 1) % n < (j - 1) % n
    <3> DEFINE m == n
    <3>1. m \in Nat /\ i \in 1 .. m * Repeats /\ j \in 1 .. m * Repeats
      BY <2>1
    <3> HIDE DEF m
    <3>2. \/ (i - 1) \div m < (j - 1) \div m
          \/ (i - 1) \div m = (j - 1) \div m /\ (i - 1) % m < (j - 1) % m
      BY <1>5, <2>2, <3>1, RowsInOrder
    <3> QED
      BY <3>2 DEF m
  <2>4. a.shot < b.shot \/ (a.shot = b.shot /\ Before(a.event, b.event))
    <3>1. CASE (i - 1) \div n < (j - 1) \div n
      BY <2>1, <3>1
    <3>2. CASE (i - 1) \div n = (j - 1) \div n /\ (i - 1) % n < (j - 1) % n
      <4> DEFINE p == ((i - 1) % n) + 1
                 q == ((j - 1) % n) + 1
      <4>1. p \in 1 .. n /\ q \in 1 .. n /\ p < q
        <5> HIDE DEF n
        <5> QED
          BY <2>1, <3>2
      <4> HIDE DEF p, q
      <4>2. Before(map[p], map[q])
        BY <4>1, MapInOrder DEF Listed
      <4> QED
        BY <2>1, <3>2, <4>2 DEF p, q
    <3> QED
      BY <2>3, <3>1, <3>2
  <2>5. Precedes(Point(h, a), Point(h, b))
    BY <2>1, <2>4, PointsInOrder
  <2> QED
    BY <2>5 DEF a, b
<1>6. H \in SUBSET Int
  <2>1. n \in Nat
    BY MapIs DEF Listed
  <2>2. Repeats \in Nat
    BY RepeatsAre
  <2>3. H \subseteq 1 .. n * Repeats
    BY DEF HitSet
  <2> HIDE DEF n, H
  <2> QED
    BY <2>1, <2>2, <2>3
<1>7. hits = Sorted(H)
  BY DEF Hits, HitSet
<1> DEFINE g == hits[k]
<1> HIDE DEF H, hits, T, v, n, map
<1>8. g \in H /\ Cardinality(UpTo(H, g)) = k
  <2>1. k \in 1 .. Cardinality(H)
    BY DEF H
  <2> QED
    BY <1>1, <1>6, <1>7, <2>1, SortedIs
<1>9. /\ P \in [H -> T] /\ \A j \in H : P[j] = Point(h, v(j))
  BY <1>4
<1>10. \A i, j \in H : i < j => <<P[i], P[j]>> \in R
  BY <1>4, <1>5
<1> HIDE DEF P, g
<1>11. Cardinality(UpToIn(R, T, P[g])) = Cardinality(UpTo(H, g))
  <2> HIDE DEF R
  <2> QED
    BY <1>1, <1>2, <1>6, <1>8, <1>9, <1>10, SameRanks
<1>12. UpToIn(R, T, P[g]) = {q \in T : q = P[g] \/ Precedes(q, P[g])}
  BY <1>8, <1>9 DEF UpToIn
<1>13. PlaceOf(RtShape(h), P[g]) = k
  BY <1>8, <1>11, <1>12 DEF PlaceOf, T
<1>14. /\ v(g).step = step /\ v(g).event.stmt \in AcquiresOf(h)
       /\ Point(h, v(g)) \in T /\ k = PlaceOf(RtShape(h), Point(h, v(g)))
  BY <1>3, <1>4, <1>8, <1>9, <1>13
<1> QED
  BY <1>14 DEF v, g, hits, T

\* A value is where it belongs.
IsPlaced(h, c, v) ==
  /\ v.step = c[1] /\ v.event.stmt \in AcquiresOf(h)
  /\ Point(h, v) \in Tuples(RtShape(h))
  /\ c[2] = PlaceOf(RtShape(h), Point(h, v))

\* It stays so with the vectors of some signals.
LEMMA StoringPlaces ==
  ASSUME code \in Programs, Listed, InSameLoops, NEW h \in Handles, NEW awg,
         NEW signals \in SUBSET SignalsOf[awg], NEW step,
         \A c \in Cells(h) : data[h][c] # None => IsPlaced(h, c, data[h][c]),
         NEW c \in Cells(h), Stored(awg, signals, step)[h][c] # None
  PROVE  IsPlaced(h, c, Stored(awg, signals, step)[h][c])
<1> DEFINE from == {s \in signals : \E k \in DOMAIN ResultMap(awg, s) :
                                      HandleOf(ResultMap(awg, s)[k], s) = h}
           u == CHOOSE s \in from : TRUE
           new == Placed(awg, u, h, step)
           st == Stored(awg, signals, step)[h]
<1>1. from = {s \in signals : On(awg, s, h)}
  BY FromSignal
<1>2. st = IF from = {} THEN data[h]
           ELSE [d \in Cells(h) |-> IF d \in DOMAIN new THEN new[d] ELSE data[h][d]]
  BY DEF Stored
<1> HIDE DEF from, st
<1>3. CASE from = {}
  BY <1>2, <1>3 DEF st
<1>4. CASE from # {}
  <2>1. On(awg, u, h)
    BY <1>1, <1>4
  <2>2. st[c] = IF c \in DOMAIN new THEN new[c] ELSE data[h][c]
    BY <1>2, <1>4
  <2> HIDE DEF u
  <2>3. CASE c \notin DOMAIN new
    BY <2>2, <2>3 DEF st
  <2>4. CASE c \in DOMAIN new
    <3> DEFINE H == HitSet(awg, u, h)
               hits == Hits(awg, u, h)
               only == IF Len(Shape(h)) = Len(step) THEN {1} ELSE DOMAIN hits
               k == c[2]
    <3>1. new = [d \in {<<step, j>> : j \in only} |-> Raw(awg, step)[hits[d[2]]]]
      BY DEF Placed
    <3>2. c[1] = step /\ new[c] = Raw(awg, step)[hits[k]]
      BY <2>4, <3>1
    <3>3. k \in 1 .. Size(h)
      BY DEF Cells
    <3>4. IsFiniteSet(H) /\ IsFiniteSet(Tuples(RtShape(h))) /\ Size(h) <= Cardinality(H)
      BY <2>1, EnoughHits DEF Listed
    <3>5. Size(h) \in Nat /\ Cardinality(H) \in Nat
      BY <3>4, FS_CardinalityType DEF Size
    <3> HIDE DEF new, k, hits
    <3>6. k \in 1 .. Cardinality(H)
      <4> HIDE DEF H
      <4> QED
        BY <3>3, <3>4, <3>5
    <3> DEFINE v == Raw(awg, step)[hits[k]]
    <3>7. /\ v.step = step /\ v.event.stmt \in AcquiresOf(h)
          /\ Point(h, v) \in Tuples(RtShape(h))
          /\ k = PlaceOf(RtShape(h), Point(h, v))
      BY <2>1, <3>6, HitsPlaced DEF H, hits
    <3>8. IsPlaced(h, c, v)
      <4> HIDE DEF v
      <4> QED
        BY <3>2, <3>7 DEF IsPlaced, k
    <3> QED
      BY <2>2, <2>4, <3>2, <3>8 DEF st
  <2> QED
    BY <2>3, <2>4
<1> QED
  BY <1>3, <1>4

LEMMA SamePlaces ==
  ASSUME code' = code
  PROVE  /\ InSameLoops' <=> InSameLoops
         /\ \A h, c, v : IsPlaced(h, c, v)' <=> IsPlaced(h, c, v)
<1>1. /\ Handles' = Handles /\ RtAt' = RtAt /\ \A h : AcquiresOf(h)' = AcquiresOf(h)
      /\ \A h : RtShape(h)' = RtShape(h)
  BY SameResults
<1>2. InSameLoops' <=> InSameLoops
  BY <1>1 DEF InSameLoops, LoopsAround, Loop
<1>3. \A h, v : Point(h, v)' = Point(h, v)
  BY <1>1 DEF Point, Nth
<1>4. \A h, c, v : IsPlaced(h, c, v)' <=> IsPlaced(h, c, v)
  BY <1>1, <1>3 DEF IsPlaced
<1> QED
  BY <1>2, <1>4

Placing == InSameLoops => ResultsArePlaced

LEMMA InitPlaced ==
  Init => Placing
BY DEF Init, Placing, ResultsArePlaced

LEMMA StepPlaced ==
  Walking /\ Matched /\ Listed /\ Placing /\ [Next]_vars => Placing'
<1> SUFFICES ASSUME Walking, Matched, Listed, Placing, [Next]_vars, InSameLoops'
             PROVE  ResultsArePlaced'
  BY DEF Placing
<1>1. code' = code
  BY SameCode
<1>2. /\ Handles' = Handles /\ \A h : Cells(h)' = Cells(h)
  BY <1>1, SameResults
<1>3. InSameLoops /\ \A h, c, v : IsPlaced(h, c, v)' <=> IsPlaced(h, c, v)
  BY <1>1, SamePlaces
<1>4. \A h \in Handles : \A c \in Cells(h) : data[h][c] # None => IsPlaced(h, c, data[h][c])
  BY <1>3 DEF Placing, ResultsArePlaced, IsPlaced
<1>5. ASSUME \A h \in Handles : \A c \in Cells(h) :
                 data'[h][c] # None => IsPlaced(h, c, data'[h][c])
      PROVE  ResultsArePlaced'
  <2>1. (\A h \in Handles : \A c \in Cells(h) :
           data[h][c] # None => IsPlaced(h, c, data[h][c]))'
    BY <1>2, <1>3, <1>5
  <2> QED
    BY <2>1 DEF ResultsArePlaced, IsPlaced
<1>6. ASSUME UNCHANGED results PROVE ResultsArePlaced'
  BY <1>4, <1>5, <1>6 DEF results
<1>7. ASSUME NEW awg, NEW signals \in SUBSET SignalsOf[awg], Running,
             data' = Stored(awg, signals, NtStep)
      PROVE  ResultsArePlaced'
  <2>1. code \in Programs
    BY <1>7, StepPoint
  <2>2. ASSUME NEW h \in Handles, NEW c \in Cells(h), data'[h][c] # None
        PROVE  IsPlaced(h, c, data'[h][c])
    BY <1>3, <1>4, <1>7, <2>1, <2>2, StoringPlaces
  <2> QED
    BY <1>5, <2>2
<1>8. CASE ReadAwg
  BY <1>7, <1>8 DEF ReadAwg, Running
<1>9. CASE ReadRaises
  BY <1>7, <1>9 DEF ReadRaises, Running
<1>10. CASE EnterLoop \/ LoopEnds \/ SetParam \/ SetNode \/ ReplacePulse \/ Callback
  BY <1>6, <1>10 DEF EnterLoop, LoopEnds, SetParam, SetNode, ReplacePulse, Callback
<1>11. CASE SkipChunk \/ PrepareStep \/ StepRaises \/ StepExecuted \/ StepIsRead
            \/ AttemptFails \/ Finish
  BY <1>6, <1>11 DEF SkipChunk, PrepareStep, StepRaises, StepExecuted, StepIsRead,
                     AttemptFails, Finish
<1>12. CASE UNCHANGED vars
  BY <1>6, <1>12 DEF vars
<1> QED
  BY <1>8, <1>9, <1>10, <1>11, <1>12 DEF Next

(* Each value stands where the axes of its result say, in every experiment  *)
(* where the acquires of each handle are in the same loops: the vector of a *)
(* signal has the values in the order of time, which is the order of the    *)
(* shots, of the sweeps in real time and of the acquires, and as many as    *)
(* the result has places (build_partial_result).                            *)
THEOREM ResultPlaces ==
  Spec => [](InSameLoops => ResultsArePlaced)
<1>1. Init => Walking /\ Matched /\ Listed /\ Placing
  BY InitWalks, InitMatches, InitListed, InitPlaced
<1>2. Walking /\ Matched /\ Listed /\ Placing /\ [Next]_vars
        => Walking' /\ Matched' /\ Listed' /\ Placing'
  BY StepWalks, StepMatches, StepListed, StepPlaced
<1>3. Placing => (InSameLoops => ResultsArePlaced)
  BY DEF Placing
<1> QED
  BY <1>1, <1>2, <1>3, PTL DEF Spec
====
