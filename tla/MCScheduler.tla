---------------------------- MODULE MCScheduler ----------------------------
(* Section trees for Scheduler: two drive lines and a readout line with    *)
(* another sample rate.                                                    *)
EXTENDS Scheduler

MCSampleGrid == [s \in Signals |-> IF s = "readout" THEN 3 ELSE 2]
MCSequencerGrid == [s \in Signals |-> IF s = "readout" THEN 6 ELSE 4]
MCLatency == [s \in Signals |-> 5]

Blank == [kind |-> "section", children |-> << >>, own |-> {}, length |-> None,
          right |-> FALSE, align |-> 1, trigger |-> FALSE, section |-> "", use |-> 0,
          after |-> {}, handle |-> "", mode |-> "FASTEST", time |-> None, count |-> 1,
          loopGrid |-> 1, pulse |-> 0]

Root == [Blank EXCEPT !.kind = "root", !.children = <<2>>]
Play(s, len) == [Blank EXCEPT !.kind = "play", !.own = {s}, !.length = len]
Acquire(len) == [Play("readout", len) EXCEPT !.kind = "acquire", !.handle = "h"]
Reserve(s) == [Play(s, None) EXCEPT !.kind = "reserve"]
Reset == [Blank EXCEPT !.kind = "reset", !.own = Signals, !.length = 12, !.align = 12]
Clear(n) == [Blank EXCEPT !.kind = "clear", !.pulse = n]
Section(name, children, right) ==
  [Blank EXCEPT !.section = name, !.children = children, !.right = right]
Iteration(children, right) ==
  [Section("", children, right) EXCEPT !.kind = "iteration", !.align = 12]
Loop(kind, children, right, mode, time) ==
  [Section("loop", children, right) EXCEPT
     !.kind = kind, !.mode = mode, !.time = time, !.count = 2, !.align = 12]
Match(children, after) ==
  [Section("match", children, FALSE) EXCEPT
     !.kind = "match", !.after = after, !.handle = "h", !.loopGrid = 8]
Case(children) == [Section("case", children, FALSE) EXCEPT !.kind = "case"]
Empty(s) == [Blank EXCEPT !.kind = "empty", !.own = {s}]

\* Two sections in one, with every alignment and order.
Nested ==
  LET Pairs == {<<Play("drive", 2), Acquire(3)>>, <<Play("flux", 4), Play("drive", 6)>>,
                <<Play("drive", 6), Play("drive", 2)>>, <<Acquire(3), Acquire(9)>>,
                <<Reserve("readout"), Play("drive", 2)>>,
                <<[Acquire(3) EXCEPT !.kind = "group"], Play("flux", 2)>>}
  IN  {<< Root, [Section("S", <<3, 6>>, r) EXCEPT !.length = len],
          [Section("A", <<4, 5>>, ra) EXCEPT !.trigger = trigger], a[1], a[2],
          [Section("B", <<7, 8>>, rb) EXCEPT !.after = after], b[1], b[2] >> :
        r \in BOOLEAN, ra \in BOOLEAN, rb \in BOOLEAN, trigger \in BOOLEAN,
        len \in {None, 40}, after \in {{}, {"A"}, {"C"}},
        a \in Pairs, b \in Pairs}

\* A pulse with a clear of the precompensation, and a later play_after.
Clears == {<< Root, [Section("S", <<3, 6>>, FALSE) EXCEPT !.length = len],
              [Section("A", <<4, 5>>, r) EXCEPT !.after = after],
              Play("drive", 2), Clear(4), Section("B", <<7, 8>>, r),
              Reserve("drive"), Play("flux", 10)>> :
            r \in BOOLEAN, len \in {None, 8, 40}, after \in {{}, {"B"}}}

Fastest == <<"FASTEST", None>>

\* A match section in an averaging loop, with the acquisition in front of it.
Feedback ==
  {<< Root, Loop("compressed", <<3>>, right, mode[1], mode[2]), Iteration(<<4, 7>>, right),
      Section("M", <<5, 6>>, r), Play("readout", 6), Acquire(len),
      Match(<<8, 10>>, after), Case(<<9>>), Play("drive", 6), Empty("drive") >> :
     right \in BOOLEAN, r \in BOOLEAN, after \in {{}, {"M"}}, len \in {3, 9},
     mode \in {Fastest, <<"CONSTANT", 12>>, <<"CONSTANT", 50>>, <<"AUTO", None>>}}

\* A sweep whose iterations differ in length.  A length asked of a loop is asked
\* of each of its iterations as well.
Swept(beside, right, each, mode) ==
  {<< Root, [Section("S", IF beside = << >> THEN <<3>> ELSE <<3, 14>>, FALSE) EXCEPT !.length = len],
      [Loop("unrolled", <<4, 9>>, right, mode[1], mode[2]) EXCEPT !.length = each],
      [Iteration(<<5, 6>>, right) EXCEPT !.length = each], Reset,
      Section("A", <<7, 8>>, r), Play("drive", a), Acquire(3),
      [Iteration(<<10, 11>>, right) EXCEPT !.length = each], Reset,
      Section("A", <<12, 13>>, r), Play("drive", b), Acquire(3) >> \o beside :
     r \in BOOLEAN, a \in {2, 20}, b \in {2, 20}, len \in {None, 120}}

MatchBeside(after) == << Match(<<15, 17>>, after), Case(<<16>>), Play("flux", 4), Empty("flux") >>

\* With a repetition mode other than FASTEST nothing may be beside a loop
\* (_resolve_repetition_time).
Sweeps ==
  UNION {Swept(MatchBeside(after), right, each, Fastest) :
           after \in {{}, {"loop"}}, right \in BOOLEAN, each \in {None, 36}}
  \cup UNION {Swept(<< >>, right, None, mode) : right \in BOOLEAN,
           mode \in {<<"CONSTANT", 24>>, <<"CONSTANT", 50>>, <<"AUTO", None>>}}

\* A sweep with feedback inside an averaging loop.
Cyclic ==
  {<< Root, Loop("compressed", <<3>>, FALSE, "FASTEST", None), Iteration(<<4>>, FALSE),
      Loop("unrolled", <<5, 11>>, FALSE, mode[1], mode[2]),
      Iteration(<<6, 8>>, FALSE), Section("M", <<7>>, r), Acquire(a),
      Match(<<9>>, after), Case(<<10>>), Play("drive", 6),
      Iteration(<<12, 14>>, FALSE), Section("M", <<13>>, r), Acquire(b),
      Match(<<15>>, after), Case(<<16>>), Play("drive", 6) >> :
     r \in BOOLEAN, a \in {3, 9, 21}, b \in {3, 9, 21}, after \in {{}, {"M"}},
     mode \in {Fastest, <<"CONSTANT", 30>>, <<"CONSTANT", 50>>, <<"AUTO", None>>}}

\* Absolute starts go stale where a loop with a constant repetition time
\* extends right-aligned iterations that were fixed before.
Stale(x) == \E n \in DOMAIN x : /\ x[n].kind \in {"compressed", "unrolled"}
                                /\ x[n].right /\ x[n].mode = "CONSTANT"

MCExperiments == {x \in Nested \cup Clears \cup Feedback \cup Sweeps \cup Cyclic : ~Stale(x)}

\* A section that is used twice, and one that plays after it.
MCReused ==
  {<< Root, Section("S", <<3, 5, 7>>, r), Section("A", <<4>>, FALSE), Play("drive", 4),
      [Section("A", <<6>>, FALSE) EXCEPT !.use = 1], Play("drive", 4),
      [Section("B", <<8>>, FALSE) EXCEPT !.after = {"A"}], Play("flux", len) >> :
     r \in BOOLEAN, len \in {2 * k : k \in 1..20}}

ASSUME TheoremsApply == AutoHasNoTime /\ OneAtTheTop
=============================================================================
