--------------------------- MODULE MCNearTimeSweep ---------------------------
(* Five experiments on a device with two AWGs that acquire and two that play *)
(* waves.                                                                   *)
EXTENDS NearTimeSweep

sweep(n, end) == [op |-> "for", kind |-> "sweep", count |-> n, end |-> end]
chunks(n, end) == [op |-> "for", kind |-> "pipeline", count |-> n, end |-> end]
shots(n, single, end) ==
  [op |-> "rt", kind |-> "average", count |-> n, singleShot |-> single, end |-> end,
   waveIndices |-> << >>]
end_ == [op |-> "end"]
param(p, vs) == [op |-> "param", name |-> p, values |-> vs]
set(n, v) == [op |-> "set", node |-> n, value |-> v]
call(replaces) == [op |-> "call", replaces |-> replaces]
acquire(hs) == [op |-> "acquire", handles |-> hs]

MCAwgOrder == <<"qa0", "qa1">>
MCSignalsOf == [qa0 |-> {"q0", "q1"}, qa1 |-> {"q2"}]

\* A delay that is compiled and swept, an oscillator and an output that is
\* fixed, and a trigger level only the program sets.
MCAttributes ==
  [delayCompiled |-> [param |-> None, value |-> 10],
   delaySwept    |-> [param |-> "tau", value |-> None],
   frequency     |-> [param |-> "f", value |-> None],
   gain          |-> [param |-> None, value |-> 7]]
MCKeys ==
  [delay  |-> <<"delayCompiled", "delaySwept">>,
   osc    |-> <<"frequency">>,
   output |-> <<"gain">>,
   level  |-> << >>]

\* A frequency and in it a delay; the program sets a level twice in a step and
\* once more after it.  In real time a sweep, with acquires of signals of both
\* AWGs at once and a second acquire of the first handle.
Nested ==
  <<sweep(2, 16), param("f", <<100, 200>>), set("level", 1),
      sweep(2, 14), param("tau", <<1, 2>>), set("level", 2), set("level", 3),
        shots(2, FALSE, 13),
          sweep(2, 12),
            acquire([q0 |-> "a", q2 |-> "c"]),
            acquire([q0 |-> "a", q1 |-> "b"]),
          end_,
        end_,
      end_,
      set("level", 4),
    end_>>

\* Single shots with no sweep in real time, of a signal that takes no part in
\* the first acquire; a callback before each step, and fewer values of the
\* parameter than steps.
Shots ==
  <<sweep(2, 9), param("f", <<100>>), call({}),
      shots(2, TRUE, 8),
        acquire([q1 |-> "b"]),
        acquire([q0 |-> "a", q2 |-> "c"]),
        acquire([q0 |-> "a"]),
      end_,
    end_>>

\* A sweep executed in chunks, that acquires nothing.
Chunks ==
  <<sweep(2, 8), param("tau", <<1, 2>>), set("level", 5),
      chunks(3, 7),
        shots(2, FALSE, 6),
        end_,
      end_,
    end_>>

\* No loops but the averaging, and two acquires in it.
Single ==
  <<shots(2, FALSE, 4), acquire([q1 |-> "b"]), acquire([q0 |-> "a"]), end_>>

\* Pulses replaced before each of three steps.  The program of one generator
\* changes in the second step, with a wave the first did not have, that of
\* the other in the third.
MCPulsesIn == [x |-> {"X"}, xy |-> {"X", "Y"}, y |-> {"Y"}, late |-> {"X"}]
replace(p, v) == [pulse |-> p, value |-> v]
Replacing ==
  <<sweep(3, 5),
      call({replace("X", 1), replace("X", 2), replace("Y", 1), replace("Y", 2)}),
      [shots(2, FALSE, 4) EXCEPT !.waveIndices =
         <<[step |-> <<0>>, awg |-> "sg0", waves |-> <<"x", "xy">>],
           [step |-> <<0>>, awg |-> "sg1", waves |-> <<"xy", "y">>],
           [step |-> <<1>>, awg |-> "sg0", waves |-> <<"late", "xy">>],
           [step |-> <<2>>, awg |-> "sg1", waves |-> <<"xy", "y">>]>>],
      end_,
    end_>>

MCPrograms == {Nested, Shots, Chunks, Single, Replacing}

(* The place of an element by the order of the elements, as the property has *)
(* it, is the one numpy computes from the strides.                           *)
ASSUME RowMajorAssumption ==
  \A dims \in {<< >>, <<3>>, <<2, 3>>, <<3, 2>>, <<1, 3, 2>>, <<2, 2, 3>>} :
    \A x \in Tuples(dims) :
      PlaceOf(dims, x) - 1 = FoldLeft(LAMBDA n, k : n * dims[k] + x[k], 0,
                                      [k \in DOMAIN dims |-> k])

=============================================================================
