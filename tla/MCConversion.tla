---------------------------- MODULE MCConversion ----------------------------
(***************************************************************************)
(* Conversion for TLC.  A channel reports three units of time over five    *)
(* states, or nothing; one or two of them make totals of which 100 points  *)
(* are no whole multiple.  Calls of two sub-samples use three channels.    *)
(***************************************************************************)
EXTENDS Conversion

State(kind, n) == [kind |-> kind, n |-> n]

\* An inactive state, one that names its frequency, and the three entries of a table,
\* which are past the end of a shorter one.
TheNames == {State("off", 0), State("mhz", 24)} \cup {State("index", i) : i \in 0..2}

Times == {ns \in [TheNames -> 0..3] : SumOver(ns, TheNames) \in {0, 3}}

\* All of them as core 0; as core 2, or without an index, where one state has all.
Whole == {ns \in Times : \A name \in TheNames : ns[name] \in {0, 3}}
TheChannels ==
  [index : {0}, ns : Times] \cup [index : {2, Null}, ns : Whole]

\* A core that is off but for one or two units in one of two states; another one.
IsFew(ch) ==
  \/ ch.index = 0 /\ ch.ns[State("index", 0)] = 1 /\ ch.ns[State("off", 0)] = 2
  \/ ch.index = 0 /\ ch.ns[State("index", 2)] = 1 /\ ch.ns[State("off", 0)] = 2
  \/ ch.index = 2 /\ ch.ns[State("index", 0)] = 3
TheFew == {ch \in TheChannels : IsFew(ch)}

\* None found; unordered, with an entry at 40 % and one at 75 % of the ceiling; one
\* with a 0 MHz entry; only zeros; shorter than the states.
TheTables == {<<>>, <<40, 16, 30>>, <<0, 15, 40>>, <<0, 0, 0>>, <<32>>}

Energy(of, unit, value) == [of |-> of, unit |-> unit, value |-> value]
Bucket(edge, ns) == [edge |-> edge, ns |-> ns]

\* Two channels of one source in different units and two controllers; a long delta and
\* a controller with time only in a bucket nobody can read; a delta without items, as
\* from a NULL sample.
TheReadings ==
  { [elapsed |-> 1,
     energy |-> <<Energy("cpu", "mj", 2), Energy("cpu", "uj", 4), Energy("gpu", "other", 6), Energy("ane", "nj", 8)>>,
     dram |-> << <<Bucket(32, 0), Bucket(64, 2), Bucket(Null, 1), Bucket(96, 2)>>, <<Bucket(32, 4), Bucket(64, 0)>> >>],
    [elapsed |-> 2,
     energy |-> <<Energy("cpu", "uj", 8), Energy("gpu", "uj", 4)>>,
     dram |-> << <<Bucket(32, 0), Bucket(64, 0), Bucket(96, 4)>>, <<Bucket(32, 0), Bucket(Null, 1)>> >>],
    [elapsed |-> 1, energy |-> <<>>, dram |-> <<>>] }
=============================================================================
