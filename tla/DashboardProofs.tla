--------------------------- MODULE DashboardProofs ---------------------------
(***************************************************************************)
(* What AlertEngine and the dashboard's charts show, for every set of      *)
(* snapshots, every sustain window, every threshold and every length of a  *)
(* history: AlertEngine keeps the promise of AlertHistory and accounts for *)
(* the energy; the charts, their context and their percentages are those   *)
(* of the readings and of the alerts.                                      *)
(***************************************************************************)
EXTENDS Dashboard, TLAPS, SequenceTheorems, WellFoundedInduction

(* The alert engine.                                                       *)

\* What each piece of the engine's state remembers of the history.
PeakOf(peak, seen) ==
  /\ peak \in Nat
  /\ peak \in seen \cup {0}
  /\ \A v \in seen : v \in Nat /\ v <= peak

\* A counter is the length of the run of frames, up to the last one, on which its
\* condition held.
CounterOf(a) ==
  /\ counter[a] \in 0..Len(hist)
  /\ \A i \in (Len(hist) - counter[a] + 1)..Len(hist) : Promise!Held(a, hist, i)
  /\ counter[a] < Len(hist) => ~Promise!Held(a, hist, Len(hist) - counter[a])

\* A sequence q is what the last frames of history h say of swap, at most a window of them.
SizeOf(q, h) ==
  /\ Len(h) <= SustainSamples => Len(q) = Len(h)
  /\ Len(h) > SustainSamples => Len(q) = SustainSamples + 1

WindowOf(q, h) ==
  /\ q \in Seq(Nat)
  /\ SizeOf(q, h)
  /\ \A k \in 1..Len(q) : q[k] = h[Len(h) - Len(q) + k].swap

Remembers ==
  /\ hist \in Seq(Snapshots)
  /\ PeakOf(bwPeak, Promise!BwSeen(hist, Len(hist)))
  /\ PeakOf(pkgPeak, Promise!PkgSeen(hist, Len(hist)))
  /\ counter \in [Alerts -> Nat]
  /\ \A a \in Alerts : CounterOf(a)
  /\ WindowOf(swapHist, hist)

-----------------------------------------------------------------------------
(* Appending a frame to the history.                                       *)

LEMMA AppendedHistory ==
  ASSUME NEW h \in Seq(Snapshots), NEW s \in Snapshots
  PROVE  /\ Append(h, s) \in Seq(Snapshots)
         /\ Len(Append(h, s)) = Len(h) + 1
         /\ \A i \in 1..Len(h) : Append(h, s)[i] = h[i]
         /\ Append(h, s)[Len(h) + 1] = s
  OBVIOUS

LEMMA SeenBefore ==
  ASSUME NEW h \in Seq(Snapshots), NEW s \in Snapshots, NEW i \in 1..Len(h)
  PROVE  /\ Promise!BwSeen(Append(h, s), i) = Promise!BwSeen(h, i)
         /\ Promise!PkgSeen(Append(h, s), i) = Promise!PkgSeen(h, i)
  BY AppendedHistory DEF Promise!BwSeen, Promise!PkgSeen

LEMMA SeenNow ==
  ASSUME NEW h \in Seq(Snapshots), NEW s \in Snapshots
  PROVE  /\ Promise!BwSeen(Append(h, s), Len(h) + 1)
              = Promise!BwSeen(h, Len(h)) \cup (IF s.bwAvailable THEN {s.bw} ELSE {})
         /\ Promise!PkgSeen(Append(h, s), Len(h) + 1)
              = Promise!PkgSeen(h, Len(h)) \cup {s.pkg}
  BY AppendedHistory DEF Promise!BwSeen, Promise!PkgSeen

\* The condition of an earlier frame does not depend on later ones.
LEMMA HeldBefore ==
  ASSUME NEW h \in Seq(Snapshots), NEW s \in Snapshots, NEW i \in 1..Len(h), NEW a
  PROVE  Promise!Held(a, Append(h, s), i) = Promise!Held(a, h, i)
  BY AppendedHistory, SeenBefore DEF Promise!Held

-----------------------------------------------------------------------------
(* The ratchets.                                                           *)

LEMMA CeilingIs ==
  ASSUME NEW floor \in Nat, NEW peak, NEW seen, PeakOf(peak, seen)
  PROVE  Promise!Ceiling(floor, seen) = value(floor, peak)
<1> DEFINE S == {floor} \cup seen
           m == value(floor, peak)
<1>1. m \in S /\ m \in Nat /\ (\A y \in S : y \in Nat /\ m >= y)
  BY DEF PeakOf, value, AtLeast
<1>2. \A x \in S : (\A y \in S : x >= y) => x = m
  BY <1>1
<1>3. Promise!Ceiling(floor, seen) = CHOOSE x \in S : \A y \in S : x >= y
  BY DEF Promise!Ceiling, Promise!Max
<1>4. QED
  BY <1>1, <1>2, <1>3

LEMMA PeakObserves ==
  ASSUME NEW peak, NEW seen, PeakOf(peak, seen), NEW v \in Nat
  PROVE  PeakOf(observe(peak, v), seen \cup {v})
  BY DEF PeakOf, observe, AtLeast

LEMMA PeaksAfter ==
  ASSUME Remembers, NEW s \in Snapshots
  PROVE  /\ PeakOf(BwPeakAfter(s), Promise!BwSeen(Append(hist, s), Len(hist) + 1))
         /\ PeakOf(PkgPeakAfter(s), Promise!PkgSeen(Append(hist, s), Len(hist) + 1))
<1>1. PeakOf(bwPeak, Promise!BwSeen(hist, Len(hist)))
      /\ PeakOf(pkgPeak, Promise!PkgSeen(hist, Len(hist)))
      /\ hist \in Seq(Snapshots) /\ s.bw \in Nat /\ s.pkg \in Nat
  BY SnapshotsAssumption DEF Remembers
<1>2. CASE s.bwAvailable
  BY <1>1, <1>2, SeenNow, PeakObserves DEF BwPeakAfter, PkgPeakAfter
<1>3. CASE ~s.bwAvailable
  <2>1. Promise!BwSeen(Append(hist, s), Len(hist) + 1) = Promise!BwSeen(hist, Len(hist))
    BY <1>1, <1>3, SeenNow
  <2>2. QED
    BY <1>1, <1>3, <2>1, SeenNow, PeakObserves DEF BwPeakAfter, PkgPeakAfter
<1>4. QED
  BY <1>2, <1>3

-----------------------------------------------------------------------------
(* The sustain counters.                                                   *)

LEMMA HeldNow ==
  ASSUME Remembers, NEW s \in Snapshots, NEW a \in Alerts
  PROVE  Promise!Held(a, Append(hist, s), Len(hist) + 1) <=> Holds(a, s)
<1> DEFINE h == Append(hist, s)
           n == Len(hist) + 1
<1>1. h[n] = s
  BY AppendedHistory DEF Remembers
<1>2. /\ Promise!Ceiling(BwFloor, Promise!BwSeen(h, n)) = value(BwFloor, BwPeakAfter(s))
      /\ Promise!Ceiling(PkgFloor, Promise!PkgSeen(h, n)) = value(PkgFloor, PkgPeakAfter(s))
  BY PeaksAfter, CeilingIs, FloorAssumption
<1>3. \A v, c : Promise!ceiling_percent(v, c) = ceiling_percent(v, c)
  BY DEF Promise!ceiling_percent, ceiling_percent, Promise!clamp_percent, clamp_percent,
         Promise!RoundHalfEven, RoundHalfEven, Promise!AtLeast, AtLeast,
         Promise!AtMost, AtMost
<1>4. QED
  BY <1>1, <1>2, <1>3 DEF Promise!Held, Holds

LEMMA CounterStep ==
  ASSUME Remembers, NEW s \in Snapshots, NEW a \in Alerts,
         hist' = Append(hist, s), counter'[a] = CounterAfter(a, s)
  PROVE  /\ CounterOf(a)'
         /\ Promise!Fires(a, hist') <=> counter'[a] >= SustainSamples
<1>1. /\ hist \in Seq(Snapshots) /\ Len(hist) \in Nat /\ Len(hist') = Len(hist) + 1
      /\ counter[a] \in 0..Len(hist) /\ CounterOf(a)
  BY AppendedHistory DEF Remembers, CounterOf
<1>2. \A i \in 1..Len(hist) : Promise!Held(a, hist', i) <=> Promise!Held(a, hist, i)
  BY <1>1, HeldBefore
<1>3. Promise!Held(a, hist', Len(hist) + 1) <=> Holds(a, s)
  BY HeldNow
<1>4. CounterOf(a)'
  <2>1. CASE Holds(a, s)
    <3>1. counter'[a] = counter[a] + 1
      BY <2>1 DEF CounterAfter
    <3>2. \A i \in (Len(hist') - counter'[a] + 1)..Len(hist') : Promise!Held(a, hist', i)
      <4> TAKE i \in (Len(hist') - counter'[a] + 1)..Len(hist')
      <4>1. CASE i = Len(hist) + 1
        BY <1>3, <2>1, <4>1
      <4>2. CASE i # Len(hist) + 1
        <5>1. i \in (Len(hist) - counter[a] + 1)..Len(hist) /\ i \in 1..Len(hist)
          BY <1>1, <3>1, <4>2
        <5>2. QED
          BY <1>1, <1>2, <5>1 DEF CounterOf
      <4>3. QED
        BY <4>1, <4>2
    <3>3. ASSUME counter'[a] < Len(hist')
          PROVE  ~Promise!Held(a, hist', Len(hist') - counter'[a])
      <4>1. Len(hist') - counter'[a] = Len(hist) - counter[a] /\ counter[a] < Len(hist)
        BY <1>1, <3>1, <3>3
      <4>2. Len(hist) - counter[a] \in 1..Len(hist)
        BY <1>1, <4>1
      <4>3. QED
        BY <1>1, <1>2, <4>1, <4>2 DEF CounterOf
    <3>4. QED
      BY <1>1, <3>1, <3>2, <3>3 DEF CounterOf
  <2>2. CASE ~Holds(a, s)
    <3>1. counter'[a] = 0
      BY <2>2 DEF CounterAfter
    <3>2. QED
      BY <1>1, <1>3, <2>2, <3>1 DEF CounterOf
  <2>3. QED
    BY <2>1, <2>2
<1>5. Promise!Fires(a, hist') <=> counter'[a] >= SustainSamples
  <2>1. counter'[a] \in 0..Len(hist') /\ SustainSamples \in Nat /\ SustainSamples > 0
    BY <1>4, SustainAssumption DEF CounterOf
  <2>2. CASE counter'[a] >= SustainSamples
    BY <1>1, <1>4, <2>1, <2>2 DEF Promise!Fires, CounterOf
  <2>3. CASE counter'[a] < SustainSamples
    <3>1. CASE Len(hist') < SustainSamples
      BY <1>1, <2>1, <2>3, <3>1 DEF Promise!Fires
    <3>2. CASE Len(hist') >= SustainSamples
      <4>1. Len(hist') - counter'[a] \in (Len(hist') - SustainSamples + 1)..Len(hist')
        BY <1>1, <2>1, <2>3, <3>2
      <4>2. ~Promise!Held(a, hist', Len(hist') - counter'[a])
        BY <1>1, <1>4, <2>1, <2>3, <3>2 DEF CounterOf
      <4>3. QED
        BY <2>1, <2>3, <4>1, <4>2 DEF Promise!Fires
    <3>3. QED
      BY <1>1, <2>1, <3>1, <3>2
  <2>4. QED
    BY <2>1, <2>2, <2>3
<1>6. QED
  BY <1>4, <1>5

-----------------------------------------------------------------------------
(* The swap window.                                                        *)

LEMMA AppendedSwap ==
  ASSUME NEW q \in Seq(Nat), NEW v \in Nat
  PROVE  /\ Append(q, v) \in Seq(Nat)
         /\ Len(Append(q, v)) = Len(q) + 1
         /\ \A k \in 1..Len(q) : Append(q, v)[k] = q[k]
         /\ Append(q, v)[Len(q) + 1] = v
  OBVIOUS

LEMMA KeptSwap ==
  ASSUME NEW q \in Seq(Nat), NEW k \in 1..Len(q)
  PROVE  q[k] \in Nat
  OBVIOUS

LEMMA DroppedSwap ==
  ASSUME NEW q \in Seq(Nat), Len(q) > 0
  PROVE  /\ Tail(q) \in Seq(Nat)
         /\ Len(Tail(q)) = Len(q) - 1
         /\ \A k \in 1..Len(Tail(q)) : Tail(q)[k] = q[k + 1]
  OBVIOUS

\* w ends where history g ends.
Suffix(w, g) ==
  /\ w \in Seq(Nat) /\ Len(w) <= Len(g)
  /\ \A k \in 1..Len(w) : w[k] = g[Len(g) - Len(w) + k].swap

LEMMA PushedSuffix ==
  ASSUME NEW h \in Seq(Snapshots), NEW s \in Snapshots, NEW q, Suffix(q, h), s.swap \in Nat
  PROVE  Suffix(Append(q, s.swap), Append(h, s))
<1> DEFINE g == Append(h, s)
           w == Append(q, s.swap)
<1>1. /\ Len(h) \in Nat /\ Len(g) = Len(h) + 1
      /\ \A i \in 1..Len(h) : g[i] = h[i]
      /\ g[Len(h) + 1] = s
  BY AppendedHistory
<1>2. q \in Seq(Nat) /\ Len(q) \in Nat /\ Len(q) <= Len(h)
  BY DEF Suffix
<1>3. /\ w \in Seq(Nat) /\ Len(w) = Len(q) + 1
      /\ \A k \in 1..Len(q) : w[k] = q[k]
      /\ w[Len(q) + 1] = s.swap
  BY <1>2, AppendedSwap
<1> HIDE DEF g, w
<1>4. ASSUME NEW k \in 1..Len(w) PROVE w[k] = g[Len(g) - Len(w) + k].swap
  <2>1. Len(g) - Len(w) + k = Len(h) - Len(q) + k
    BY <1>1, <1>2, <1>3
  <2>2. CASE k = Len(q) + 1
    <3>1. Len(h) - Len(q) + k = Len(h) + 1
      BY <1>1, <1>2, <2>2
    <3>2. QED
      BY <1>1, <1>3, <2>1, <2>2, <3>1
  <2>3. CASE k # Len(q) + 1
    <3>1. k \in 1..Len(q) /\ Len(h) - Len(q) + k \in 1..Len(h)
      BY <1>1, <1>2, <1>3, <2>3
    <3>2. q[k] = h[Len(h) - Len(q) + k].swap
      BY <3>1 DEF Suffix
    <3>3. QED
      BY <1>1, <1>3, <2>1, <3>1, <3>2
  <2>4. QED
    BY <2>2, <2>3
<1>5. Suffix(w, g)
  BY <1>1, <1>2, <1>3, <1>4 DEF Suffix
<1>6. QED
  BY <1>5 DEF g, w

LEMMA DroppedSuffix ==
  ASSUME NEW g, NEW w, Len(g) \in Nat, Suffix(w, g), Len(w) > 0
  PROVE  Suffix(Tail(w), g)
<1> DEFINE t == Tail(w)
<1>1. w \in Seq(Nat) /\ Len(w) \in Nat /\ Len(w) <= Len(g)
  BY DEF Suffix
<1>2. /\ t \in Seq(Nat) /\ Len(t) = Len(w) - 1
      /\ \A k \in 1..Len(t) : t[k] = w[k + 1]
  BY <1>1, DroppedSwap
<1> HIDE DEF t
<1>3. ASSUME NEW k \in 1..Len(t) PROVE t[k] = g[Len(g) - Len(t) + k].swap
  <2>1. k + 1 \in 1..Len(w) /\ Len(g) - Len(w) + (k + 1) = Len(g) - Len(t) + k
    BY <1>1, <1>2
  <2>2. w[k + 1] = g[Len(g) - Len(w) + (k + 1)].swap
    BY <2>1 DEF Suffix
  <2>3. QED
    BY <1>2, <2>1, <2>2
<1>4. Suffix(t, g)
  BY <1>1, <1>2, <1>3 DEF Suffix
<1>5. QED
  BY <1>4 DEF t

LEMMA WindowIsSuffix ==
  ASSUME NEW q, NEW h, Len(h) \in Nat
  PROVE  WindowOf(q, h) <=> Suffix(q, h) /\ SizeOf(q, h)
<1>1. q \in Seq(Nat) /\ SizeOf(q, h) => Len(q) <= Len(h)
  BY SustainAssumption DEF SizeOf
<1>2. QED
  BY <1>1 DEF WindowOf, Suffix

LEMMA WindowStep ==
  ASSUME Remembers, NEW s \in Snapshots
  PROVE  WindowOf(SwapHistAfter(s), Append(hist, s))
<1> DEFINE w == Append(swapHist, s.swap)
           g == Append(hist, s)
<1>1. /\ hist \in Seq(Snapshots) /\ Len(hist) \in Nat /\ Len(g) = Len(hist) + 1
      /\ Suffix(swapHist, hist) /\ SizeOf(swapHist, hist)
      /\ swapHist \in Seq(Nat) /\ Len(swapHist) \in Nat
  BY AppendedHistory, WindowIsSuffix DEF Remembers, WindowOf
<1>2. s.swap \in Nat /\ AtLeast(0, s.swap) = s.swap
  BY SnapshotsAssumption DEF AtLeast
<1>3. SwapWindow = SustainSamples + 1 /\ SustainSamples \in Nat
  BY SustainAssumption DEF SwapWindow, AtLeast
<1>4. SwapHistAfter(s) = IF Len(w) > SustainSamples + 1 THEN Tail(w) ELSE w
  BY <1>2, <1>3 DEF SwapHistAfter
<1>5. Suffix(w, g) /\ Len(w) = Len(swapHist) + 1 /\ w \in Seq(Nat)
  BY <1>1, <1>2, PushedSuffix, AppendedSwap
<1> HIDE DEF w, g
<1>6. CASE Len(w) > SustainSamples + 1
  <2>1. Len(Tail(w)) = Len(w) - 1 /\ Suffix(Tail(w), g)
    BY <1>1, <1>3, <1>5, <1>6, DroppedSwap, DroppedSuffix
  <2>2. SizeOf(Tail(w), g)
    BY <1>1, <1>3, <1>5, <1>6, <2>1 DEF SizeOf
  <2>3. QED
    BY <1>1, <1>4, <1>6, <2>1, <2>2, WindowIsSuffix DEF g
<1>7. CASE ~(Len(w) > SustainSamples + 1)
  <2>1. SizeOf(w, g)
    BY <1>1, <1>3, <1>5, <1>7 DEF SizeOf
  <2>2. QED
    BY <1>1, <1>4, <1>5, <1>7, <2>1, WindowIsSuffix DEF g
<1>8. QED
  BY <1>6, <1>7

\* Where the window of a history of n frames starts.
LEMMA WindowStart ==
  ASSUME NEW n \in Nat, n >= 1, NEW size \in Nat, size > 0,
         NEW l, n <= size => l = n, n > size => l = size + 1
  PROVE  /\ l \in 1..n
         /\ AtLeast(1, n - size) = n - l + 1
         /\ l >= size + 1 <=> n > size
  BY DEF AtLeast

LEMMA SwapVerdict ==
  ASSUME NEW h \in Seq(Snapshots), Len(h) >= 1, NEW q \in Seq(Nat), WindowOf(q, h)
  PROVE  /\ SwapRiseOf(q) = Promise!SwapGrowth(h)
         /\ SwapAlert(h[Len(h)], q) <=> Promise!SwapFires(h)
<1>1. /\ Len(h) \in Nat /\ SustainSamples \in Nat /\ SustainSamples > 0
      /\ q \in Seq(Nat) /\ Len(q) \in Nat /\ SizeOf(q, h)
  BY SustainAssumption DEF WindowOf
<1>2. /\ Len(q) \in 1..Len(h)
      /\ AtLeast(1, Len(h) - SustainSamples) = Len(h) - Len(q) + 1
      /\ Len(q) >= SustainSamples + 1 <=> Len(h) > SustainSamples
  BY <1>1, WindowStart DEF SizeOf
<1>3. q[1] = h[AtLeast(1, Len(h) - SustainSamples)].swap
  <2>1. 1 \in 1..Len(q)
    BY <1>2
  <2>2. QED
    BY <1>2, <2>1 DEF WindowOf
<1>4. q[Len(q)] = h[Len(h)].swap
  <2>1. Len(q) \in 1..Len(q) /\ Len(h) - Len(q) + Len(q) = Len(h)
    BY <1>1, <1>2
  <2>2. QED
    BY <2>1 DEF WindowOf
<1>5. Promise!SwapGrowth(h) = AtLeast(0, q[Len(q)] - q[1])
  BY <1>3, <1>4 DEF Promise!SwapGrowth, Promise!AtLeast, AtLeast
<1>6. SwapRiseOf(q) = AtLeast(0, q[Len(q)] - q[1])
  <2>1. CASE Len(q) > 1
    BY <2>1 DEF SwapRiseOf
  <2>2. CASE Len(q) = 1
    <3>1. SwapRiseOf(q) = 0
      BY <2>2 DEF SwapRiseOf
    <3>2. q[1] \in Nat
      <4>1. 1 \in 1..Len(q)
        BY <2>2
      <4>2. QED
        BY <1>1, <4>1, KeptSwap
    <3>3. q[Len(q)] - q[1] = 0
      BY <2>2, <3>2
    <3>4. QED
      BY <3>1, <3>3 DEF AtLeast
  <2>3. Len(q) > 1 \/ Len(q) = 1
    <3>1. \A l \in Nat : l >= 1 => l > 1 \/ l = 1
      OBVIOUS
    <3>2. Len(q) \in Nat /\ Len(q) >= 1
      BY <1>1, <1>2
    <3>3. QED
      BY <3>1, <3>2, Zenon
  <2>4. QED
    BY <2>1, <2>2, <2>3
<1>7. SwapRiseOf(q) = Promise!SwapGrowth(h)
  BY <1>5, <1>6
<1>8. QED
  BY <1>2, <1>7, Zenon DEF SwapAlert, Promise!SwapFires

-----------------------------------------------------------------------------
(* The refinement.                                                         *)

LEMMA InitRemembers == Init => Remembers /\ Promise!Init
  BY SustainAssumption
  DEF Init, Remembers, PeakOf, CounterOf, WindowOf, SizeOf, Alerts,
      Promise!BwSeen, Promise!PkgSeen, Promise!Init

\* One frame: the state keeps remembering the history, and the AlertFrame is the
\* verdict the history calls for.
LEMMA FeedStep ==
  ASSUME Remembers, NEW s \in Snapshots, feed(s)
  PROVE  Remembers' /\ Promise!Observe(s)
<1>1. /\ hist \in Seq(Snapshots) /\ Len(hist) \in Nat
      /\ hist' = Append(hist, s) /\ hist' \in Seq(Snapshots)
      /\ Len(hist') = Len(hist) + 1 /\ hist'[Len(hist')] = s
  BY AppendedHistory DEF feed, Remembers
<1>2. \A a \in Alerts : counter'[a] = CounterAfter(a, s)
  BY DEF feed
<1>3. counter' \in [Alerts -> Nat]
  BY DEF feed, Remembers, CounterAfter
<1>4. \A a \in Alerts : CounterOf(a)' /\ (Promise!Fires(a, hist') <=> counter'[a] >= SustainSamples)
  BY <1>1, <1>2, CounterStep
<1>5. /\ PeakOf(bwPeak, Promise!BwSeen(hist, Len(hist)))'
      /\ PeakOf(pkgPeak, Promise!PkgSeen(hist, Len(hist)))'
  BY <1>1, PeaksAfter DEF feed
<1>6. WindowOf(swapHist, hist)'
  BY <1>1, WindowStep DEF feed
<1>7. Remembers'
  BY <1>1, <1>3, <1>4, <1>5, <1>6 DEF Remembers
<1>8. frame' = Promise!Verdict(hist')
  <2>1. [a \in Alerts |-> counter'[a] >= SustainSamples]
          = [a \in Promise!Sustained |-> Promise!Fires(a, hist')]
    <3>1. \A a \in Alerts : Promise!Fires(a, hist') \in BOOLEAN
      BY Zenon DEF Promise!Fires
    <3>2. \A a \in Alerts : (counter'[a] >= SustainSamples) \in BOOLEAN
      BY <1>3, SustainAssumption
    <3>3. \A a \in Alerts : (counter'[a] >= SustainSamples) = Promise!Fires(a, hist')
      BY <1>4, <3>1, <3>2, Zenon
    <3>4. QED
      BY <3>3, Zenon DEF Alerts
  <2>2. /\ SwapRiseOf(swapHist') = Promise!SwapGrowth(hist')
        /\ SwapAlert(s, swapHist') <=> Promise!SwapFires(hist')
    <3>1. WindowOf(swapHist', hist') /\ swapHist' \in Seq(Nat)
      BY <1>6 DEF WindowOf, SizeOf
    <3>2. Len(hist') >= 1
      BY <1>1
    <3>3. /\ SwapRiseOf(swapHist') = Promise!SwapGrowth(hist')
          /\ SwapAlert(hist'[Len(hist')], swapHist') <=> Promise!SwapFires(hist')
      BY <1>1, <3>1, <3>2, SwapVerdict, Zenon
    <3>4. QED
      BY <1>1, <3>3
  <2>3. /\ value(BwFloor, bwPeak') = Promise!Ceiling(BwFloor, Promise!BwSeen(hist', Len(hist')))
        /\ value(PkgFloor, pkgPeak') = Promise!Ceiling(PkgFloor, Promise!PkgSeen(hist', Len(hist')))
    <3>1. /\ PeakOf(bwPeak', Promise!BwSeen(hist', Len(hist')))
          /\ PeakOf(pkgPeak', Promise!PkgSeen(hist', Len(hist')))
      BY <1>1, PeaksAfter DEF feed
    <3>2. bwPeak' \in Nat /\ pkgPeak' \in Nat
      BY <3>1 DEF PeakOf
    <3>3. QED
      BY <3>1, <3>2, CeilingIs, FloorAssumption
  <2>4. frame' = [alert    |-> [a \in Alerts |-> counter'[a] >= SustainSamples],
                  swap     |-> SwapAlert(s, swapHist'),
                  swapRise |-> SwapRiseOf(swapHist'),
                  thermal  |-> Promise!Hot(s.thermal),
                  maxBw    |-> value(BwFloor, bwPeak'),
                  maxPkg   |-> value(PkgFloor, pkgPeak')]
    <3>1. [a \in Alerts |-> counter'[a] >= SustainSamples]
            = [a \in Alerts |-> [b \in Alerts |-> CounterAfter(b, s)][a] >= SustainSamples]
      BY DEF feed
    <3>2. QED
      BY <3>1, Zenon DEF feed
  <2>5. SwapAlert(s, swapHist') = Promise!SwapFires(hist')
    BY <2>2, Zenon DEF SwapAlert, Promise!SwapFires
  <2>6. QED
    BY <1>1, <2>1, <2>2, <2>3, <2>4, <2>5, Zenon DEF Promise!Verdict
<1>9. QED
  BY <1>1, <1>7, <1>8 DEF Promise!Observe

\* The engine implements the promise on the history, whatever the constants.
THEOREM PromiseKept == Spec => KeepsPromise
<1>1. Init => Remembers /\ Promise!Init
  BY InitRemembers
<1>2. Remembers /\ [Next]_vars => Remembers' /\ [Promise!Next]_<<hist, frame>>
  <2> SUFFICES ASSUME Remembers, [Next]_vars
               PROVE  Remembers' /\ [Promise!Next]_<<hist, frame>>
    OBVIOUS
  <2>1. CASE Next
    BY <2>1, FeedStep DEF Next, Promise!Next
  <2>2. CASE UNCHANGED vars
    BY <2>2 DEF vars, Remembers, PeakOf, CounterOf
  <2>3. QED
    BY <2>1, <2>2
<1>3. QED
  BY <1>1, <1>2, PTL DEF Spec, KeepsPromise, Promise!Spec

-----------------------------------------------------------------------------
(* Energy.                                                                 *)

\* A larger factor gives a larger product (energy is power times time).
LEMMA Product ==
  ASSUME NEW a \in Nat, NEW b \in Nat, a <= b, NEW c \in Nat
  PROVE  a * c <= b * c /\ a * c \in Nat /\ b * c \in Nat
<1>1. PICK d \in Nat : b = a + d
  <2>1. b - a \in Nat /\ b = a + (b - a)
    OBVIOUS
  <2>2. QED
    BY <2>1
<1>2. b * c = a * c + d * c
  BY <1>1
<1>3. d * c \in Nat /\ a * c \in Nat
  BY <1>1
<1>4. QED
  BY <1>2, <1>3

\* One more stretch of time t at power p, where the peak goes from `low` to `high`.
LEMMA Integrated ==
  ASSUME NEW low \in Nat, NEW high \in Nat, NEW p \in Nat, low <= high, p <= high,
         NEW time \in Nat, NEW t \in Nat, NEW joules \in Nat, joules <= low * time
  PROVE  joules + p * t \in Nat /\ joules + p * t <= high * (time + t)
<1>1. low * time <= high * time /\ low * time \in Nat /\ high * time \in Nat
  BY Product
<1>2. p * t <= high * t /\ p * t \in Nat /\ high * t \in Nat
  BY Product
<1>3. high * (time + t) = high * time + high * t
  OBVIOUS
<1>4. QED
  BY <1>1, <1>2, <1>3

EnergyKept ==
  /\ sessionJoules \in Nat /\ counted \in Nat /\ regress \in Nat
  /\ hist = <<>> => lastTimestamp = None /\ counted = 0 /\ regress = 0
  /\ hist # <<>> => lastTimestamp = hist[Len(hist)].ts
  /\ TimeCounted /\ EnergyBounded

\* What appending a snapshot does to the ends of the history.
LEMMA HistoryEnds ==
  ASSUME NEW h \in Seq(Snapshots), NEW s \in Snapshots
  PROVE  /\ h = <<>> <=> Len(h) = 0
         /\ Len(h) > 0 => /\ Append(h, s)[1] = h[1]
                          /\ h[1] \in Snapshots /\ h[Len(h)] \in Snapshots
         /\ Len(h) = 0 => Append(h, s)[1] = s
         /\ Append(h, s) # <<>>
<1>1. /\ Len(h) \in Nat /\ Len(Append(h, s)) = Len(h) + 1
      /\ \A i \in 1..Len(h) : Append(h, s)[i] = h[i]
      /\ Append(h, s)[Len(h) + 1] = s
  BY AppendedHistory
<1>2. h = <<>> <=> Len(h) = 0
  OBVIOUS
<1>3. Append(h, s) # <<>>
  <2>1. Len(Append(h, s)) > 0
    BY <1>1
  <2>2. Len(<<>>) = 0
    OBVIOUS
  <2>3. QED
    BY <2>1, <2>2
<1>4. Len(h) > 0 => h[1] \in Snapshots /\ h[Len(h)] \in Snapshots
  OBVIOUS
<1>5. QED
  BY <1>1, <1>2, <1>3, <1>4

\* One snapshot keeps the session's joules beside its counted time and its peaks.
LEMMA EnergyStep ==
  ASSUME Remembers, EnergyKept, NEW s \in Snapshots, feed(s)
  PROVE  EnergyKept'
<1>1. /\ hist \in Seq(Snapshots) /\ Len(hist) \in Nat /\ hist' = Append(hist, s)
      /\ Len(hist') = Len(hist) + 1 /\ hist'[Len(hist')] = s /\ hist' # <<>>
      /\ hist = <<>> <=> Len(hist) = 0
      /\ hist = <<>> => hist'[1] = s
      /\ hist # <<>> => hist'[1] = hist[1] /\ hist[1] \in Snapshots /\ hist[Len(hist)] \in Snapshots
  <2>1. hist \in Seq(Snapshots) /\ hist' = Append(hist, s)
    BY DEF Remembers, feed
  <2>2. Len(hist) \in Nat /\ (Len(hist) > 0 \/ Len(hist) = 0)
    BY <2>1
  <2>3. QED
    BY <2>1, <2>2, AppendedHistory, HistoryEnds
<1>2. /\ s.pkg \in Nat /\ s.ts \in Int
      /\ hist # <<>> => hist[1].ts \in Int /\ hist[Len(hist)].ts \in Int
  BY <1>1, SnapshotsAssumption
<1>3. /\ counted' = counted + FrameTime(s) /\ lastTimestamp' = s.ts
      /\ sessionJoules' = sessionJoules + s.pkg * FrameTime(s)
      /\ pkgPeak' = observe(pkgPeak, s.pkg)
      /\ regress' = regress + (IF hist = <<>> THEN 0 ELSE AtLeast(0, hist[Len(hist)].ts - s.ts))
  BY <1>2 DEF feed, AtLeast, PkgPeakAfter
<1>4. /\ hist = <<>> => FrameTime(s) = 0
      /\ hist # <<>> => FrameTime(s) = AtLeast(0, s.ts - hist[Len(hist)].ts)
      /\ FrameTime(s) \in Nat
  BY <1>1, <1>2, NoneAssumption DEF FrameTime, EnergyKept, AtLeast
<1>5. counted' \in Nat /\ regress' \in Nat /\ TimeCounted'
  <2>1. CASE hist = <<>>
    BY <1>1, <1>2, <1>3, <1>4, <2>1 DEF EnergyKept, TimeCounted
  <2>2. CASE hist # <<>>
    <3>1. PICK first \in Int, last \in Int : first = hist[1].ts /\ last = hist[Len(hist)].ts
      BY <1>2, <2>2
    <3>2. /\ counted \in Nat /\ regress \in Nat /\ s.ts \in Int
          /\ counted = last - first + regress
          /\ counted' = counted + AtLeast(0, s.ts - last)
          /\ regress' = regress + AtLeast(0, last - s.ts)
      BY <1>2, <1>3, <1>4, <2>2, <3>1 DEF EnergyKept, TimeCounted
    <3>3. counted' = s.ts - first + regress' /\ counted' \in Nat /\ regress' \in Nat
      BY <3>2 DEF AtLeast
    <3>4. QED
      BY <1>1, <2>2, <3>1, <3>3 DEF TimeCounted
  <2>3. QED
    BY <2>1, <2>2
<1>6. sessionJoules' \in Nat /\ EnergyBounded'
  <2>1. /\ pkgPeak \in Nat /\ pkgPeak' \in Nat /\ pkgPeak <= pkgPeak' /\ s.pkg <= pkgPeak'
    BY <1>2, <1>3 DEF Remembers, PeakOf, observe, AtLeast
  <2>2. sessionJoules \in Nat /\ counted \in Nat /\ sessionJoules <= pkgPeak * counted
    BY DEF EnergyKept, EnergyBounded
  <2>3. /\ sessionJoules + s.pkg * FrameTime(s) \in Nat
        /\ sessionJoules + s.pkg * FrameTime(s) <= pkgPeak' * (counted + FrameTime(s))
    BY <1>2, <1>4, <2>1, <2>2, Integrated
  <2>4. QED
    BY <1>3, <2>3 DEF EnergyBounded
<1>7. QED
  BY <1>1, <1>3, <1>5, <1>6 DEF EnergyKept

\* However the wall clock jumps, the session's joules are within the time that was counted,
\* at the greatest power measured (feed, analytics.py:275-279).
THEOREM EnergyAccounted == Spec => []EnergyOverTime
<1>1. Init => Remembers /\ EnergyKept
  <2>1. Init => Remembers
    BY InitRemembers
  <2>2. Init => EnergyKept
    BY DEF Init, EnergyKept, TimeCounted, EnergyBounded
  <2>3. QED
    BY <2>1, <2>2
<1>2. Remembers /\ EnergyKept /\ [Next]_vars => Remembers' /\ EnergyKept'
  <2> SUFFICES ASSUME Remembers, EnergyKept, [Next]_vars
               PROVE  Remembers' /\ EnergyKept'
    OBVIOUS
  <2>1. CASE Next
    BY <2>1, FeedStep, EnergyStep DEF Next
  <2>2. CASE UNCHANGED vars
    BY <2>2 DEF vars, Remembers, PeakOf, CounterOf, EnergyKept, TimeCounted, EnergyBounded
  <2>3. QED
    BY <2>1, <2>2
<1>3. EnergyKept => EnergyOverTime
  BY DEF EnergyKept, EnergyOverTime
<1>4. QED
  BY <1>1, <1>2, <1>3, PTL DEF Spec

\* The dashboard feeds its engine one snapshot a frame, so what is proved of the engine
\* alone holds of it (update_metrics, widgets.py:1172-1265).
THEOREM DashboardFeeds == DashSpec => Spec
<1>1. DashInit => Init
  BY DEF DashInit
<1>2. [DashNext]_dashVars => [Next]_vars
  BY DEF DashNext, update_metrics, Next, dashVars
<1>3. QED
  BY <1>1, <1>2, PTL DEF DashSpec, Spec

-----------------------------------------------------------------------------
(* The context of the charts: Dashboard implements RollingContext.         *)

\* Nothing divided is nothing, and leaves nothing.
LEMMA NothingDivided ==
  ASSUME NEW d \in Nat \ {0}
  PROVE  0 \div d = 0 /\ 0 % d = 0
<1>1. 0 \div d = 0
  OBVIOUS
<1>2. 0 % d = 0
  OBVIOUS
<1>3. QED
  BY <1>1, <1>2

\* A larger part has a larger quotient, or the same one and a remainder no smaller.
LEMMA Quotients ==
  ASSUME NEW m \in Nat, NEW n \in Nat, m <= n, NEW d \in Nat \ {0}
  PROVE  /\ n \div d \in Nat /\ n % d \in 0..(d - 1)
         /\ m \div d \in Nat /\ m % d \in 0..(d - 1)
         /\ m \div d < n \div d \/ (m \div d = n \div d /\ m % d <= n % d)
  OBVIOUS

\* A larger part of the same whole is never rounded to less.
LEMMA Rounding ==
  ASSUME NEW m \in Nat, NEW n \in Nat, m <= n, NEW d \in Nat \ {0}
  PROVE  /\ RoundHalfEven(n, d) \in Nat
         /\ RoundHalfEven(m, d) <= RoundHalfEven(n, d)
         /\ RoundHalfEven(0, d) = 0
<1>1. /\ n \div d \in Nat /\ n % d \in 0..(d - 1) /\ m \div d \in Nat /\ m % d \in 0..(d - 1)
      /\ m \div d < n \div d \/ (m \div d = n \div d /\ m % d <= n % d)
      /\ 0 \div d = 0 /\ 0 % d = 0
  <2>1. /\ n \div d \in Nat /\ n % d \in 0..(d - 1) /\ m \div d \in Nat /\ m % d \in 0..(d - 1)
        /\ m \div d < n \div d \/ (m \div d = n \div d /\ m % d <= n % d)
    BY Quotients
  <2>2. 0 \div d = 0 /\ 0 % d = 0
    BY NothingDivided
  <2>3. QED
    BY <2>1, <2>2
<1> DEFINE Up(q, r) == 2 * r > d \/ (2 * r = d /\ q % 2 = 1)
           R(q, r) == IF Up(q, r) THEN q + 1 ELSE q
<1>2. /\ RoundHalfEven(n, d) = R(n \div d, n % d)
      /\ RoundHalfEven(m, d) = R(m \div d, m % d)
      /\ RoundHalfEven(0, d) = R(0, 0)
  BY <1>1 DEF RoundHalfEven
<1>3. \A q \in Nat, r \in 0..(d - 1), p \in Nat, s \in 0..(d - 1) :
        /\ R(q, r) \in Nat
        /\ p < q \/ (p = q /\ s <= r) => R(p, s) <= R(q, r)
  OBVIOUS
<1>4. R(0, 0) = 0
  OBVIOUS
<1> HIDE DEF R
<1>5. QED
  BY <1>1, <1>2, <1>3, <1>4

\* A percentage is between 0 and 100, and that of nothing is 0.
LEMMA Clamped ==
  ASSUME NEW n \in Nat, NEW d \in Nat \ {0}
  PROVE  clamp_percent(n, d) \in 0..100 /\ clamp_percent(0, d) = 0
<1>1. n <= n
  OBVIOUS
<1>2. RoundHalfEven(n, d) \in Nat /\ RoundHalfEven(0, d) = 0
  BY <1>1, Rounding
<1>3. QED
  BY <1>2 DEF clamp_percent, AtLeast, AtMost

\* Percentages are in the order of the values they are of.
LEMMA ClampedInOrder ==
  ASSUME NEW m \in Nat, NEW n \in Nat, m <= n, NEW d \in Nat \ {0}
  PROVE  clamp_percent(m, d) <= clamp_percent(n, d)
<1>1. RoundHalfEven(m, d) <= RoundHalfEven(n, d)
  BY Rounding
<1>2. RoundHalfEven(m, d) \in Nat /\ RoundHalfEven(n, d) \in Nat
  <2>1. m <= m
    OBVIOUS
  <2>2. QED
    BY <2>1, Rounding
<1>3. QED
  BY <1>1, <1>2 DEF clamp_percent, AtLeast, AtMost

\* What a snapshot gives a row is never negative.
LEMMA ReadingIsNat ==
  ASSUME NEW s \in Snapshots, NEW m \in Rows
  PROVE  Reading(m, s) \in Nat
<1>1. /\ s.cpuW \in Nat /\ s.rx \in Nat /\ s.tx \in Nat /\ s.cpu.util \in Nat
      /\ s.bw \in Nat /\ s.pkg \in Nat
  BY ReadingsAssumption, SnapshotsAssumption
<1>2. clamp_percent(s.cpu.util, 1) \in Nat
  <2>1. 1 \in Nat \ {0}
    OBVIOUS
  <2>2. clamp_percent(s.cpu.util, 1) \in 0..100
    BY <1>1, <2>1, Clamped
  <2>3. QED
    BY <2>2
<1>3. QED
  BY <1>1, <1>2 DEF Rows, Reading

-----------------------------------------------------------------------------

\* A deque, as the code keeps it: always full.
IsDeque(h) == h \in Seq(Nat) /\ Len(h) = HistMaxLen

\* Every entry of a deque is a reading or padding.
LEMMA DequeEntries ==
  ASSUME NEW h, IsDeque(h)
  PROVE  \A i \in 1..HistMaxLen : h[i] \in Nat
  BY ElementOfSeq DEF IsDeque

\* append() to a full deque moves every entry one place towards the front.
LEMMA Pushed ==
  ASSUME NEW h, IsDeque(h), NEW v \in Nat
  PROVE  /\ IsDeque(Push(h, v))
         /\ \A i \in 1..(HistMaxLen - 1) : Push(h, v)[i] = h[i + 1]
         /\ Push(h, v)[HistMaxLen] = v
<1>1. h \in Seq(Nat) /\ Len(h) = HistMaxLen /\ HistMaxLen \in Nat /\ HistMaxLen > 0
  BY HistoryAssumption DEF IsDeque
<1>2. h # <<>>
  BY <1>1, EmptySeq
<1>3. /\ Tail(h) \in Seq(Nat) /\ Len(Tail(h)) = HistMaxLen - 1
      /\ \A i \in 1..(HistMaxLen - 1) : Tail(h)[i] = h[i + 1]
  BY <1>1, <1>2, HeadTailProperties
<1>4. /\ Append(Tail(h), v) \in Seq(Nat) /\ Len(Append(Tail(h), v)) = HistMaxLen
      /\ \A i \in 1..(HistMaxLen - 1) : Append(Tail(h), v)[i] = h[i + 1]
      /\ Append(Tail(h), v)[HistMaxLen] = v
  BY <1>1, <1>3, AppendedSwap
<1>5. QED
  BY <1>4 DEF Push, IsDeque

\* The entries of a deque that are not padding are the last readings of the session.
Retains(h, rs) ==
  \A age \in 0..(HistMaxLen - 1) : age < Len(rs) => h[HistMaxLen - age] = rs[Len(rs) - age]

\* A deque that has retained the session's last readings retains the next one too.
LEMMA PushRetains ==
  ASSUME NEW h, IsDeque(h), NEW rs \in Seq(Nat), Retains(h, rs), NEW v \in Nat
  PROVE  Retains(Push(h, v), Append(rs, v))
<1>1. HistMaxLen \in Nat \ {0}
  BY HistoryAssumption
<1>2. /\ \A i \in 1..(HistMaxLen - 1) : Push(h, v)[i] = h[i + 1]
      /\ Push(h, v)[HistMaxLen] = v
  BY Pushed
<1>3. /\ Len(Append(rs, v)) = Len(rs) + 1 /\ Len(rs) \in Nat
      /\ \A i \in 1..Len(rs) : Append(rs, v)[i] = rs[i]
      /\ Append(rs, v)[Len(rs) + 1] = v
  BY AppendedSwap
<1> DEFINE p == Push(h, v)
           q == Append(rs, v)
<1> HIDE DEF p, q
<1>4. ASSUME NEW age \in 0..(HistMaxLen - 1), age < Len(q)
      PROVE  p[HistMaxLen - age] = q[Len(q) - age]
  <2>1. CASE age = 0
    BY <1>1, <1>2, <1>3, <2>1 DEF p, q
  <2>2. CASE age # 0
    <3>1. /\ age - 1 \in 0..(HistMaxLen - 1) /\ age - 1 < Len(rs)
          /\ HistMaxLen - age \in 1..(HistMaxLen - 1)
          /\ Len(rs) + 1 - age \in 1..Len(rs)
      BY <1>1, <1>3, <1>4, <2>2 DEF q
    <3>2. h[HistMaxLen - (age - 1)] = rs[Len(rs) - (age - 1)]
      BY <3>1 DEF Retains
    <3>3. /\ HistMaxLen - (age - 1) = HistMaxLen - age + 1
          /\ Len(rs) - (age - 1) = Len(rs) + 1 - age
      BY <1>1, <1>3
    <3>4. QED
      BY <1>2, <1>3, <3>1, <3>2, <3>3 DEF p, q
  <2>3. QED
    BY <2>1, <2>2
<1>5. QED
  BY <1>4 DEF Retains, p, q

\* Hence the end of a deque is the end of the list of all readings.
LEMMA EndsAgree ==
  ASSUME NEW h, IsDeque(h), NEW rs \in Seq(Nat), Retains(h, rs),
         NEW n \in 1..HistMaxLen
  PROVE  LastOf(h, AtMost(AtMost(Len(rs), HistMaxLen), n)) = Context!Recent(rs, n)
<1> DEFINE k == AtMost(AtMost(Len(rs), HistMaxLen), n)
<1>1. HistMaxLen \in Nat \ {0} /\ Len(rs) \in Nat /\ Len(h) = HistMaxLen
  BY HistoryAssumption DEF IsDeque
<1>2. /\ k \in 0..HistMaxLen /\ k <= Len(rs)
      /\ Context!AtLeast(1, Len(rs) - n + 1) = Len(rs) - k + 1
  <2>1. PICK a \in Nat : a = AtMost(Len(rs), HistMaxLen)
    BY <1>1 DEF AtMost
  <2>2. a <= Len(rs) /\ a <= HistMaxLen /\ (a = Len(rs) \/ a = HistMaxLen)
    BY <1>1, <2>1 DEF AtMost
  <2>3. k \in Nat /\ k <= a /\ k <= n /\ (k = a \/ k = n)
    BY <1>1, <2>1, <2>2 DEF AtMost
  <2>4. k \in 0..HistMaxLen /\ k <= Len(rs) /\ (k = Len(rs) \/ k = n)
    BY <1>1, <2>1, <2>2, <2>3
  <2>5. QED
    BY <1>1, <2>2, <2>3, <2>4 DEF Context!AtLeast
<1> HIDE DEF k
<1>3. /\ LastOf(h, k) = SubSeq(h, HistMaxLen - k + 1, HistMaxLen)
      /\ Context!Recent(rs, n) = SubSeq(rs, Len(rs) - k + 1, Len(rs))
  BY <1>1, <1>2 DEF LastOf, Context!Recent
<1> DEFINE s == SubSeq(h, HistMaxLen - k + 1, HistMaxLen)
           t == SubSeq(rs, Len(rs) - k + 1, Len(rs))
<1>4. /\ s \in Seq(Nat) /\ Len(s) = k
      /\ \A i \in 1..k : s[i] = h[HistMaxLen - k + i]
  <2>1. \A i \in (HistMaxLen - k + 1)..HistMaxLen : h[i] \in Nat
    BY <1>1, <1>2, DequeEntries
  <2>2. QED
    BY <1>1, <1>2, <2>1, SubSeqProperties
<1>5. /\ t \in Seq(Nat) /\ Len(t) = k
      /\ \A i \in 1..k : t[i] = rs[Len(rs) - k + i]
  <2>1. \A i \in (Len(rs) - k + 1)..Len(rs) : rs[i] \in Nat
    BY <1>1, <1>2
  <2>2. QED
    BY <1>1, <1>2, <2>1, SubSeqProperties
<1>6. ASSUME NEW i \in 1..k PROVE s[i] = t[i]
  <2>1. k - i \in 0..(HistMaxLen - 1) /\ k - i < Len(rs)
    BY <1>1, <1>2
  <2>2. h[HistMaxLen - (k - i)] = rs[Len(rs) - (k - i)]
    BY <2>1 DEF Retains
  <2>3. HistMaxLen - (k - i) = HistMaxLen - k + i /\ Len(rs) - (k - i) = Len(rs) - k + i
    BY <1>1, <1>2
  <2>4. QED
    BY <1>4, <1>5, <2>2, <2>3
<1> HIDE DEF s, t
<1>7. s = t
  BY <1>4, <1>5, <1>6, SeqEqual
<1>8. QED
  BY <1>3, <1>7 DEF s, t, k

-----------------------------------------------------------------------------

\* The sum _avg_max folds is the total of the promise.
LEMMA FoldsAgree ==
  ASSUME NEW q
  PROVE  FoldLeft(LAMBDA a, b : a + b, 0, q) = Context!Total(q)
  BY DEF FoldLeft, Context!FoldLeft, MapThenFoldSet, Context!MapThenFoldSet, Context!Total,
         Max, Context!Max

\* The peak of a list is the largest of its entries.
LEMMA PeaksAgree ==
  ASSUME NEW q
  PROVE  Peak(q) = Context!Max({q[i] : i \in DOMAIN q})
  BY DEF Peak, Max, Context!Max

\* Of three bounds the order does not matter.
LEMMA BoundsAgree ==
  ASSUME NEW count \in Nat, NEW size \in Nat \ {0}, NEW window \in Nat \ {0}
  PROVE  /\ Context!AtMost(size, window) \in 1..size
         /\ AtMost(AtMost(count, size), Context!AtMost(size, window))
              = AtMost(AtMost(count, size), window)
         /\ AtMost(AtMost(count, size), size) = AtMost(count, size)
<1>1. AtMost(count, size) \in Nat /\ AtMost(count, size) <= size
  BY DEF AtMost
<1> DEFINE c == AtMost(count, size)
<1> HIDE DEF c
<1>2. c \in Nat /\ c <= size
  BY <1>1 DEF c
<1>3. /\ Context!AtMost(size, window) \in 1..size
      /\ AtMost(c, Context!AtMost(size, window)) = AtMost(c, window)
      /\ AtMost(c, size) = c
  BY <1>2 DEF AtMost, Context!AtMost
<1>4. QED
  BY <1>3 DEF c

\* _avg_max of a deque, by the count and without a fold of its own.
AvgMax(h, count) ==
  IF count = 0 THEN [sum |-> 0, n |-> 1, max |-> 0]
  ELSE LET averaged == LastOf(h, AtMost(AtMost(count, Len(h)), AvgWindow))
       IN  [sum |-> Context!Total(averaged), n |-> Len(averaged),
            max |-> Peak(LastOf(h, AtMost(count, Len(h))))]

\* _avg_max without the fold, now and after the step.
LEMMA AvgMaxIs ==
  ASSUME NEW m
  PROVE  /\ _avg_max(chartHist[m]) = AvgMax(chartHist[m], sampleCount)
         /\ _avg_max(chartHist[m])' = AvgMax(chartHist'[m], sampleCount')
<1>1. _avg_max(chartHist[m]) = AvgMax(chartHist[m], sampleCount)
  <2>1. CASE sampleCount = 0
    BY <2>1 DEF _avg_max, AvgMax
  <2>2. CASE sampleCount # 0
    BY <2>2, FoldsAgree DEF _avg_max, PeakVals, AvgMax
  <2>3. QED
    BY <2>1, <2>2
<1>2. _avg_max(chartHist[m])' = AvgMax(chartHist'[m], sampleCount')
  <2>1. CASE sampleCount' = 0
    BY <2>1 DEF _avg_max, AvgMax
  <2>2. CASE sampleCount' # 0
    <3> DEFINE h == chartHist'[m]
    <3>1. _avg_max(chartHist[m])'
            = LET averaged == LastOf(h, AtMost(AtMost(sampleCount', Len(h)), AvgWindow))
              IN  [sum |-> FoldLeft(LAMBDA a, b : a + b, 0, averaged), n |-> Len(averaged),
                   max |-> Peak(LastOf(h, AtMost(sampleCount', Len(h))))]
      BY <2>2, Zenon DEF _avg_max, PeakVals, FoldLeft, MapThenFoldSet
    <3>2. QED
      BY <2>2, <3>1, FoldsAgree DEF AvgMax
  <2>3. QED
    BY <2>1, <2>2
<1>3. QED
  BY <1>1, <1>2

\* What _avg_max makes of a deque and a count is what all readings call for.
LEMMA ContextFromDeque ==
  ASSUME NEW h, IsDeque(h), NEW rs \in Seq(Nat), Retains(h, rs), Len(rs) # 0
  PROVE  AvgMax(h, Len(rs)) = Context!ContextOf(rs)
<1>1. /\ HistMaxLen \in Nat \ {0} /\ AvgWindow \in Nat \ {0} /\ Len(rs) \in Nat
      /\ Len(h) = HistMaxLen
  BY HistoryAssumption DEF IsDeque
<1>2. /\ Context!AtMost(HistMaxLen, AvgWindow) \in 1..HistMaxLen
      /\ AtMost(AtMost(Len(rs), HistMaxLen), Context!AtMost(HistMaxLen, AvgWindow))
           = AtMost(AtMost(Len(rs), HistMaxLen), AvgWindow)
      /\ AtMost(AtMost(Len(rs), HistMaxLen), HistMaxLen) = AtMost(Len(rs), HistMaxLen)
  BY <1>1, BoundsAgree
<1>3. LastOf(h, AtMost(AtMost(Len(rs), Len(h)), AvgWindow))
        = Context!Recent(rs, Context!AtMost(HistMaxLen, AvgWindow))
  BY <1>1, <1>2, EndsAgree
<1>4. LastOf(h, AtMost(Len(rs), Len(h))) = Context!Recent(rs, HistMaxLen)
  <2>1. HistMaxLen \in 1..HistMaxLen
    BY <1>1
  <2>2. QED
    BY <1>1, <1>2, <2>1, EndsAgree
<1>5. QED
  BY <1>3, <1>4, PeaksAgree DEF AvgMax, Context!ContextOf

-----------------------------------------------------------------------------

\* Every reading of a row so far.
ReadingsOf(m) == [i \in DOMAIN hist |-> Reading(m, hist[i])]

\* A snapshot appends one reading to those of every row.
LEMMA ReadingsAppended ==
  ASSUME NEW s \in Snapshots, NEW m \in Rows, hist \in Seq(Snapshots), hist' = Append(hist, s)
  PROVE  /\ ReadingsOf(m) \in Seq(Nat) /\ Len(ReadingsOf(m)) = Len(hist)
         /\ ReadingsOf(m)' = Append(ReadingsOf(m), Reading(m, s))
<1>1. /\ Len(hist) \in Nat /\ DOMAIN hist = 1..Len(hist)
      /\ \A i \in 1..Len(hist) : hist[i] \in Snapshots
  BY LenProperties, ElementOfSeq
<1>2. /\ hist' \in Seq(Snapshots) /\ Len(hist') = Len(hist) + 1
      /\ \A i \in 1..Len(hist) : hist'[i] = hist[i]
      /\ hist'[Len(hist) + 1] = s
  BY AppendedHistory
<1>3. DOMAIN hist' = 1..(Len(hist) + 1)
  BY <1>2, LenProperties
<1> DEFINE n == Len(hist)
           rs == ReadingsOf(m)
           v == Reading(m, s)
<1>4. rs \in [1..n -> Nat]
  BY <1>1, ReadingIsNat DEF ReadingsOf
<1>5. rs \in Seq(Nat) /\ Len(rs) = n
  <2>1. rs \in Seq(Nat)
    BY <1>1, <1>4, SeqDef
  <2>2. DOMAIN rs = 1..n /\ DOMAIN rs = 1..Len(rs) /\ Len(rs) \in Nat
    BY <1>4, <2>1, LenProperties
  <2>3. QED
    BY <1>1, <2>1, <2>2
<1>6. ReadingsOf(m)' = [i \in 1..(n + 1) |-> Reading(m, hist'[i])]
  BY <1>3 DEF ReadingsOf
<1>7. \A i \in 1..n : rs[i] = Reading(m, hist[i])
  BY <1>1 DEF ReadingsOf
<1>8. v \in Nat
  BY ReadingIsNat
<1>9. /\ Append(rs, v) \in Seq(Nat) /\ Len(Append(rs, v)) = n + 1
      /\ \A i \in 1..n : Append(rs, v)[i] = rs[i]
      /\ Append(rs, v)[n + 1] = v
  BY <1>5, <1>8, AppendedSwap
<1>10. Append(rs, v) \in [1..(n + 1) -> Nat]
  BY <1>9, LenProperties
<1> DEFINE q == [i \in 1..(n + 1) |-> Reading(m, hist'[i])]
<1>11. ASSUME NEW i \in 1..(n + 1) PROVE q[i] = Append(rs, v)[i]
  <2>1. CASE i = n + 1
    BY <1>2, <1>9, <2>1
  <2>2. CASE i # n + 1
    <3>1. i \in 1..n
      BY <1>1, <2>2
    <3>2. QED
      BY <1>2, <1>7, <1>9, <3>1
  <2>3. QED
    BY <2>1, <2>2
<1>12. q = Append(rs, v)
  BY <1>10, <1>11
<1>13. QED
  BY <1>5, <1>6, <1>12

Charted ==
  /\ hist \in Seq(Snapshots)
  /\ sampleCount = Len(hist)
  /\ DOMAIN chartHist = Rows \cup Percents
  /\ \A m \in Rows : IsDeque(chartHist[m]) /\ Retains(chartHist[m], ReadingsOf(m))

\* Before the first frame every deque is full of padding.
LEMMA InitCharted == DashInit => Charted /\ Context!Init
<1> SUFFICES ASSUME DashInit PROVE Charted /\ Context!Init
  OBVIOUS
<1>1. hist = <<>> /\ Len(hist) = 0 /\ DOMAIN hist = {} /\ hist \in Seq(Snapshots) /\ sampleCount = 0
  BY DEF DashInit, Init
<1>2. \A m \in Rows : ReadingsOf(m) = <<>> /\ Len(ReadingsOf(m)) = 0
  BY <1>1 DEF ReadingsOf
<1>3. ASSUME NEW m \in Rows PROVE IsDeque(chartHist[m])
  <2>1. chartHist[m] = [i \in 1..HistMaxLen |-> 0] /\ HistMaxLen \in Nat
    BY HistoryAssumption DEF DashInit
  <2>2. chartHist[m] \in [1..HistMaxLen -> Nat] /\ chartHist[m] \in Seq(Nat)
    BY <2>1, SeqDef
  <2>3. DOMAIN chartHist[m] = 1..HistMaxLen /\ DOMAIN chartHist[m] = 1..Len(chartHist[m])
        /\ Len(chartHist[m]) \in Nat
    BY <2>2, LenProperties
  <2>4. QED
    BY <2>1, <2>2, <2>3 DEF IsDeque
<1>4. Charted
  <2>1. DOMAIN chartHist = Rows \cup Percents
    BY DEF DashInit
  <2>2. \A m \in Rows : Retains(chartHist[m], ReadingsOf(m))
    BY <1>2, HistoryAssumption DEF Retains
  <2>3. QED
    BY <1>1, <1>3, <2>1, <2>2 DEF Charted
<1>5. Context!Init
  BY <1>1, <1>2 DEF Context!Init, ReadingsOf, _avg_max
<1>6. QED
  BY <1>4, <1>5

\* Each frame keeps the deques at the ends of the readings, and is a step of the promise.
LEMMA ChartedStep ==
  ASSUME Charted, NEW s \in Snapshots, update_metrics(s)
  PROVE  Charted' /\ Context!Next
<1>1. /\ hist' = Append(hist, s) /\ sampleCount' = sampleCount + 1
      /\ hist \in Seq(Snapshots) /\ hist' \in Seq(Snapshots)
      /\ Len(hist) \in Nat /\ Len(hist') = Len(hist) + 1
      /\ sampleCount = Len(hist) /\ sampleCount' = Len(hist')
  BY AppendedHistory DEF Charted, update_metrics, feed
<1>2. /\ DOMAIN chartHist' = Rows \cup Percents
      /\ \A m \in Rows : chartHist'[m] = Push(chartHist[m], Reading(m, s))
  BY DEF update_metrics, RowHist
<1>3. \A m \in Rows : /\ ReadingsOf(m) \in Seq(Nat) /\ Len(ReadingsOf(m)) = Len(hist)
                      /\ ReadingsOf(m)' = Append(ReadingsOf(m), Reading(m, s))
                      /\ Reading(m, s) \in Nat
  BY <1>1, ReadingsAppended, ReadingIsNat
<1>4. ASSUME NEW m \in Rows
      PROVE  /\ IsDeque(chartHist'[m]) /\ Retains(chartHist'[m], ReadingsOf(m)')
             /\ ReadingsOf(m)' \in Seq(Nat) /\ Len(ReadingsOf(m)') = sampleCount'
  <2>1. IsDeque(chartHist[m]) /\ Retains(chartHist[m], ReadingsOf(m))
    BY DEF Charted
  <2>2. IsDeque(Push(chartHist[m], Reading(m, s)))
    BY <1>3, <2>1, Pushed
  <2>3. Retains(Push(chartHist[m], Reading(m, s)), Append(ReadingsOf(m), Reading(m, s)))
    BY <1>3, <2>1, PushRetains
  <2>4. /\ Append(ReadingsOf(m), Reading(m, s)) \in Seq(Nat)
        /\ Len(Append(ReadingsOf(m), Reading(m, s))) = Len(hist) + 1
    BY <1>3, AppendedSwap
  <2>5. QED
    BY <1>1, <1>2, <1>3, <2>2, <2>3, <2>4
<1>5. Charted'
  BY <1>1, <1>2, <1>4 DEF Charted, Retains, IsDeque
<1>6. ASSUME NEW m \in Rows PROVE _avg_max(chartHist[m])' = Context!ContextOf(ReadingsOf(m)')
  <2> DEFINE h == chartHist'[m]
             rs == ReadingsOf(m)'
  <2>1. IsDeque(h) /\ rs \in Seq(Nat) /\ Retains(h, rs) /\ Len(rs) = sampleCount'
    BY <1>4
  <2>2. sampleCount' # 0
    BY <1>1
  <2> HIDE DEF rs, h
  <2>3. AvgMax(h, Len(rs)) = Context!ContextOf(rs)
    BY <2>1, <2>2, ContextFromDeque
  <2>4. _avg_max(chartHist[m])' = AvgMax(h, sampleCount')
    BY AvgMaxIs DEF h
  <2>5. QED
    BY <2>1, <2>3, <2>4 DEF rs
<1>7. Context!Read([m \in Rows |-> Reading(m, s)])
  BY <1>3, <1>6 DEF Context!Read, ReadingsOf
<1>8. QED
  BY <1>5, <1>7 DEF Context!Next

\* The average and the peak under every chart are those of the session's last readings,
\* as RollingContext promises them, although they are computed from a padded deque and a
\* counter (_avg_max, widgets.py:1437-1455): Dashboard implements RollingContext.
THEOREM ContextShown == DashSpec => ShowsContext
<1>1. DashInit => Charted /\ Context!Init
  BY InitCharted
<1>2. Charted /\ [DashNext]_dashVars
        => Charted' /\ [Context!Next]_<<[m \in Rows |-> ReadingsOf(m)], [m \in Rows |-> _avg_max(chartHist[m])]>>
  <2> SUFFICES ASSUME Charted, [DashNext]_dashVars
               PROVE  Charted' /\ [Context!Next]_<<[m \in Rows |-> ReadingsOf(m)], [m \in Rows |-> _avg_max(chartHist[m])]>>
    OBVIOUS
  <2>1. CASE DashNext
    BY <2>1, ChartedStep DEF DashNext
  <2>2. CASE UNCHANGED dashVars
    <3>1. hist' = hist /\ chartHist' = chartHist /\ sampleCount' = sampleCount
      BY <2>2 DEF dashVars, vars
    <3>2. \A m \in Rows : ReadingsOf(m)' = ReadingsOf(m)
      BY <3>1 DEF ReadingsOf
    <3>3. Charted'
      BY <3>1, <3>2 DEF Charted
    <3>4. \A m \in Rows : _avg_max(chartHist[m])' = _avg_max(chartHist[m])
      BY <3>1, AvgMaxIs
    <3>5. QED
      BY <3>2, <3>3, <3>4
  <2>3. QED
    BY <2>1, <2>2
<1>3. QED
  BY <1>1, <1>2, PTL DEF DashSpec, ShowsContext, Context!Spec, ReadingsOf

-----------------------------------------------------------------------------
(* Percentages and alerts.                                                 *)

\* Every set of naturals that is not empty has a least member.
LEMMA LeastNatural ==
  ASSUME NEW T, T \subseteq Nat, T # {}
  PROVE  \E x \in T : \A y \in T : x <= y
<1> DEFINE R == OpToRel(<, Nat)
<1>1. IsWellFoundedOn(R, Nat)
  BY NatLessThanWellFounded, Zenon
<1>2. \A x \in Nat, y \in Nat : <<y, x>> \in R <=> y < x
  BY DEF OpToRel
<1> HIDE DEF R
<1>3. PICK x \in T : \A y \in T : ~ (<<y, x>> \in R)
  BY <1>1, WFMin
<1>4. \A y \in T : ~ (y < x)
  BY <1>2, <1>3
<1>5. QED
  BY <1>4

\* The CHOOSE of Max finds the greatest of a bounded set of naturals.
LEMMA GreatestNatural ==
  ASSUME NEW S, S \subseteq Nat, S # {}, NEW bound \in Nat, \A x \in S : x <= bound
  PROVE  Max(S) \in S /\ \A y \in S : Max(S) >= y
<1> DEFINE T == {x \in Nat : \A y \in S : y <= x}
<1>1. T \subseteq Nat /\ T # {}
  OBVIOUS
<1>2. PICK m \in T : \A x \in T : m <= x
  BY <1>1, LeastNatural
<1>3. m \in S
  <2> SUFFICES ASSUME m \notin S PROVE FALSE
    OBVIOUS
  <2>1. \A y \in S : y <= m - 1 /\ m - 1 \in Nat
    BY <1>2
  <2>2. m - 1 \in T
    BY <2>1
  <2>3. QED
    BY <1>2, <2>2
<1>4. m \in S /\ \A y \in S : m >= y
  BY <1>2, <1>3
<1>5. QED
  BY <1>4 DEF Max

\* The peak of a deque whose entries are bounded is a natural number.
LEMMA PeakIsNat ==
  ASSUME NEW h, IsDeque(h), NEW bound \in Nat, \A i \in 1..HistMaxLen : h[i] <= bound
  PROVE  Peak(h) \in Nat
<1> DEFINE S == {h[i] : i \in DOMAIN h}
<1>1. DOMAIN h = 1..HistMaxLen /\ 1 \in DOMAIN h
  BY LenProperties, HistoryAssumption DEF IsDeque
<1>2. S \subseteq Nat /\ S # {} /\ \A x \in S : x <= bound
  BY <1>1, DequeEntries
<1>3. Max(S) \in S
  BY <1>2, GreatestNatural
<1>4. QED
  BY <1>2, <1>3 DEF Peak

\* A value kept off the floor of its chart.
LEMMA KeptOffTheFloor ==
  ASSUME NEW v \in Nat, NEW pct \in Nat, v = 0 => pct = 0
  PROVE  /\ OffTheFloor(v, pct) \in Nat
         /\ v > 0 <=> OffTheFloor(v, pct) > 0
         /\ pct <= OffTheFloor(v, pct)
         /\ \A t \in Nat : t > 1 /\ OffTheFloor(v, pct) >= t => pct >= t
  BY DEF OffTheFloor

\* A share of a ceiling is a percentage, and that of nothing is 0.
LEMMA CeilingPercents ==
  ASSUME NEW v \in Nat, NEW c \in Nat
  PROVE  ceiling_percent(v, c) \in Nat /\ (v = 0 => ceiling_percent(v, c) = 0)
<1>1. 100 * v \in Nat /\ AtLeast(1, c) \in Nat \ {0} /\ (v = 0 => 100 * v = 0)
  BY DEF AtLeast
<1>2. clamp_percent(100 * v, AtLeast(1, c)) \in 0..100 /\ clamp_percent(0, AtLeast(1, c)) = 0
  BY <1>1, Clamped
<1>3. QED
  BY <1>1, <1>2 DEF ceiling_percent

\* A share of a floating peak is a percentage, 0 for nothing and in the order of the values.
LEMMA AutoPercents ==
  ASSUME NEW peak \in Nat, NEW floor \in Nat \ {0}, NEW v \in Nat
  PROVE  /\ AutoPercent(v, peak, floor) \in Nat
         /\ v = 0 => AutoPercent(v, peak, floor) = 0
         /\ \A u \in Nat : u <= v => AutoPercent(u, peak, floor) <= AutoPercent(v, peak, floor)
<1>1. AtLeast(4 * floor, 5 * peak) \in Nat \ {0}
  BY DEF AtLeast
<1>2. 400 * v \in Nat /\ (v = 0 => 400 * v = 0)
  OBVIOUS
<1>3. clamp_percent(400 * v, AtLeast(4 * floor, 5 * peak)) \in 0..100
      /\ clamp_percent(0, AtLeast(4 * floor, 5 * peak)) = 0
  BY <1>1, <1>2, Clamped
<1>4. ASSUME NEW u \in Nat, u <= v
      PROVE  AutoPercent(u, peak, floor) <= AutoPercent(v, peak, floor)
  <2>1. 400 * u \in Nat /\ 400 * u <= 400 * v
    BY <1>4
  <2>2. QED
    BY <1>1, <1>2, <2>1, ClampedInOrder DEF AutoPercent
<1>5. QED
  BY <1>2, <1>3, <1>4 DEF AutoPercent

\* A share of the peak power is a percentage, and that of nothing is 0.
LEMMA PowerPercents ==
  ASSUME NEW w \in Nat, NEW peak \in Nat
  PROVE  power_to_percent(w, peak) \in Nat /\ (w = 0 => power_to_percent(w, peak) = 0)
<1>1. CpuPowerFloor \in Nat \ {0} /\ CpuRef \in Nat /\ AtLeast(CpuPowerFloor, CpuRef) \in Nat \ {0}
  BY ScaleAssumption DEF AtLeast
<1>2. 100 * w \in Nat /\ (w = 0 => 100 * w = 0)
  OBVIOUS
<1>3. /\ clamp_percent(100 * w, AtLeast(CpuPowerFloor, CpuRef)) \in 0..100
      /\ clamp_percent(0, AtLeast(CpuPowerFloor, CpuRef)) = 0
  BY <1>1, <1>2, Clamped
<1>4. AutoPercent(w, peak, CpuPowerFloor) \in Nat /\ (w = 0 => AutoPercent(w, peak, CpuPowerFloor) = 0)
  BY <1>1, AutoPercents
<1>5. QED
  BY <1>2, <1>3, <1>4 DEF power_to_percent

-----------------------------------------------------------------------------
(* What the columns of the charts say of each other and of the alerts.    *)

\* All readings of a history are below some bound, hence its peak is one of them.
Bounded == \E bound \in Nat : \A m \in Rows : \A i \in 1..HistMaxLen : chartHist[m][i] <= bound

\* One column of the charts of percentages, beside the readings it was drawn from.
ColumnRight(h, i) ==
  /\ h["rx"][i] <= h["tx"][i] => h["rxPct"][i] <= h["txPct"][i]
  /\ h["tx"][i] <= h["rx"][i] => h["txPct"][i] <= h["rxPct"][i]
  /\ h["cpuW"][i] > 0 <=> h["cpuPct"][i] > 0
  /\ h["pkgW"][i] > 0 <=> h["pkgPct"][i] > 0
  /\ h["bw"][i] > 0 <=> h["bwPct"][i] > 0

\* A column that is at or above a threshold, and the condition of the alert on the frame
\* it belongs to.
ColumnHeld(pct, threshold, held) ==
  /\ held => pct >= threshold
  /\ pct >= threshold /\ threshold > 1 => held

ColumnsHeld(a, m, threshold) ==
  \A age \in 0..(HistMaxLen - 1) : age < Len(hist) =>
    ColumnHeld(chartHist[m][HistMaxLen - age], threshold, Promise!Held(a, hist, Len(hist) - age))

PercentsKept ==
  /\ \A m \in Percents : IsDeque(chartHist[m])
  /\ Bounded
  /\ \A i \in 1..HistMaxLen : ColumnRight(chartHist, i)
  /\ hist # <<>> => frame = Promise!Verdict(hist)
  /\ ColumnsHeld("pkg", "pkgPct", PkgPowerPercent)
  /\ ColumnsHeld("bw", "bwPct", BwSatPercent)

\* One more reading leaves the deques below some bound.
LEMMA BoundedStep ==
  ASSUME Charted, Bounded, NEW s \in Snapshots
  PROVE  \E bound \in Nat : \A m \in Rows :
           \A i \in 1..HistMaxLen : Push(chartHist[m], Reading(m, s))[i] <= bound
<1>1. PICK b \in Nat : \A m \in Rows : \A i \in 1..HistMaxLen : chartHist[m][i] <= b
  BY DEF Bounded
<1> DEFINE r(m) == Reading(m, s)
           c == b + r("pcpu") + r("cpuW") + r("pkgW") + r("bw") + r("rx") + r("tx")
<1>2. \A m \in Rows : r(m) \in Nat
  BY ReadingIsNat
<1> HIDE DEF r
<1>3. c \in Nat /\ b <= c /\ \A m \in Rows : r(m) <= c
  <2>1. /\ r("pcpu") \in Nat /\ r("cpuW") \in Nat /\ r("pkgW") \in Nat /\ r("bw") \in Nat
        /\ r("rx") \in Nat /\ r("tx") \in Nat
    BY <1>2 DEF Rows
  <2>2. QED
    BY <2>1 DEF Rows
<1> HIDE DEF c
<1>4. ASSUME NEW m \in Rows, NEW i \in 1..HistMaxLen
      PROVE  Push(chartHist[m], Reading(m, s))[i] <= c
  <2>1. IsDeque(chartHist[m]) /\ Reading(m, s) \in Nat
    BY <1>2 DEF Charted, r
  <2>2. /\ \A j \in 1..(HistMaxLen - 1) : Push(chartHist[m], Reading(m, s))[j] = chartHist[m][j + 1]
        /\ Push(chartHist[m], Reading(m, s))[HistMaxLen] = Reading(m, s)
    BY <2>1, Pushed
  <2>3. HistMaxLen \in Nat \ {0}
    BY HistoryAssumption
  <2>4. CASE i = HistMaxLen
    BY <1>3, <2>2, <2>4 DEF r
  <2>5. CASE i # HistMaxLen
    <3>1. i \in 1..(HistMaxLen - 1) /\ i + 1 \in 1..HistMaxLen
      BY <2>3, <2>5
    <3>2. chartHist[m][i + 1] \in Nat /\ chartHist[m][i + 1] <= b
      BY <1>1, <2>1, <3>1, DequeEntries
    <3>3. QED
      BY <1>3, <2>2, <3>1, <3>2
  <2>6. QED
    BY <2>4, <2>5
<1>5. QED
  BY <1>3, <1>4

\* The peaks a frame divides by are natural numbers.
LEMMA PeaksAreNat ==
  ASSUME Charted, Bounded, NEW s \in Snapshots, NEW m \in Rows
  PROVE  Peak(RowHist(m, s)) \in Nat
<1>1. PICK b \in Nat : \A i \in 1..HistMaxLen : Push(chartHist[m], Reading(m, s))[i] <= b
  BY BoundedStep
<1>2. IsDeque(Push(chartHist[m], Reading(m, s)))
  BY ReadingIsNat, Pushed DEF Charted
<1>3. QED
  BY <1>1, <1>2, PeakIsNat DEF RowHist

\* What a frame appends to the percentages, beside its readings.
LEMMA NewColumn ==
  ASSUME Remembers, Charted, Bounded, NEW s \in Snapshots, feed(s)
  PROVE  /\ \A m \in Percents : Percentage(m, s) \in Nat
         /\ Reading("rx", s) <= Reading("tx", s) => Percentage("rxPct", s) <= Percentage("txPct", s)
         /\ Reading("tx", s) <= Reading("rx", s) => Percentage("txPct", s) <= Percentage("rxPct", s)
         /\ Reading("cpuW", s) > 0 <=> Percentage("cpuPct", s) > 0
         /\ Reading("pkgW", s) > 0 <=> Percentage("pkgPct", s) > 0
         /\ Reading("bw", s) > 0 <=> Percentage("bwPct", s) > 0
         /\ ColumnHeld(Percentage("pkgPct", s), PkgPowerPercent, Holds("pkg", s))
         /\ ColumnHeld(Percentage("bwPct", s), BwSatPercent, Holds("bw", s))
<1>1. /\ Reading("rx", s) \in Nat /\ Reading("tx", s) \in Nat /\ Reading("cpuW", s) \in Nat
      /\ Reading("pkgW", s) \in Nat /\ Reading("bw", s) \in Nat
  BY ReadingIsNat DEF Rows
<1>2. /\ Reading("cpuW", s) = s.cpuW /\ Reading("pkgW", s) = s.pkg
      /\ Reading("bw", s) = IF s.bwAvailable THEN s.bw ELSE 0
  BY DEF Reading
<1>3. /\ Percentage("cpuPct", s) = CpuPowerPercent(s) /\ Percentage("pkgPct", s) = PkgPercent(s)
      /\ Percentage("bwPct", s) = BwPercent(s) /\ Percentage("rxPct", s) = RatePercent(s, "rx")
      /\ Percentage("txPct", s) = RatePercent(s, "tx")
  BY DEF Percentage
<1>4. /\ RatePercent(s, "rx") \in Nat /\ RatePercent(s, "tx") \in Nat
      /\ Reading("rx", s) <= Reading("tx", s) => RatePercent(s, "rx") <= RatePercent(s, "tx")
      /\ Reading("tx", s) <= Reading("rx", s) => RatePercent(s, "tx") <= RatePercent(s, "rx")
  <2> DEFINE peak == NetPeak(s, "rx")
  <2>1. peak \in Nat /\ NetPeak(s, "tx") = peak
    <3>1. Peak(RowHist("rx", s)) \in Nat /\ Peak(RowHist("tx", s)) \in Nat
      BY PeaksAreNat DEF Rows
    <3>2. QED
      BY <3>1 DEF NetPeak, AtLeast
  <2>2. NetRateFloor \in Nat \ {0}
    BY ScaleAssumption
  <2>3. /\ RatePercent(s, "rx") = AutoPercent(Reading("rx", s), peak, NetRateFloor)
        /\ RatePercent(s, "tx") = AutoPercent(Reading("tx", s), peak, NetRateFloor)
    BY <2>1 DEF RatePercent
  <2> DEFINE rx == Reading("rx", s)
             tx == Reading("tx", s)
             pct(v) == AutoPercent(v, peak, NetRateFloor)
  <2>4. ASSUME NEW v \in Nat
        PROVE  pct(v) \in Nat /\ \A u \in Nat : u <= v => pct(u) <= pct(v)
    <3> HIDE DEF peak
    <3>1. QED
      BY <2>1, <2>2, AutoPercents
  <2>5. rx \in Nat /\ tx \in Nat
    BY <1>1
  <2>6. RatePercent(s, "rx") = pct(rx) /\ RatePercent(s, "tx") = pct(tx)
    BY <2>3
  <2> HIDE DEF peak, rx, tx, pct
  <2>7. /\ rx <= tx => pct(rx) <= pct(tx)
        /\ tx <= rx => pct(tx) <= pct(rx)
        /\ pct(rx) \in Nat /\ pct(tx) \in Nat
    BY <2>4, <2>5
  <2>8. QED
    BY <2>6, <2>7 DEF rx, tx
<1>5. CpuPowerPercent(s) \in Nat /\ (s.cpuW > 0 <=> CpuPowerPercent(s) > 0)
  <2> DEFINE pct == power_to_percent(s.cpuW, Peak(RowHist("cpuW", s)))
  <2>1. Peak(RowHist("cpuW", s)) \in Nat /\ s.cpuW \in Nat
    BY <1>1, <1>2, PeaksAreNat DEF Rows
  <2>2. pct \in Nat /\ (s.cpuW = 0 => pct = 0)
    BY <2>1, PowerPercents
  <2>3. CpuPowerPercent(s) = OffTheFloor(s.cpuW, pct)
    BY DEF CpuPowerPercent
  <2> HIDE DEF pct
  <2>4. QED
    BY <2>1, <2>2, <2>3, KeptOffTheFloor
<1>6. /\ frame'.maxPkg = value(PkgFloor, PkgPeakAfter(s)) /\ frame'.maxPkg \in Nat
      /\ frame'.maxBw = value(BwFloor, BwPeakAfter(s)) /\ frame'.maxBw \in Nat
  BY PeaksAfter, FloorAssumption DEF feed, PeakOf, value, AtLeast
<1>7. PkgPowerPercent \in Nat /\ BwSatPercent \in Nat /\ PkgPowerPercent > 0 /\ BwSatPercent > 0
  BY ThresholdAssumption
<1>8. /\ PkgPercent(s) \in Nat /\ (s.pkg > 0 <=> PkgPercent(s) > 0)
      /\ ColumnHeld(PkgPercent(s), PkgPowerPercent, Holds("pkg", s))
  <2> DEFINE pct == ceiling_percent(s.pkg, frame'.maxPkg)
  <2>1. pct \in Nat /\ (s.pkg = 0 => pct = 0) /\ s.pkg \in Nat
    BY <1>1, <1>2, <1>6, CeilingPercents
  <2>2. PkgPercent(s) = OffTheFloor(s.pkg, pct)
    BY DEF PkgPercent
  <2>3. Holds("pkg", s) <=> pct >= PkgPowerPercent
    BY <1>6 DEF Holds
  <2> HIDE DEF pct
  <2>4. /\ OffTheFloor(s.pkg, pct) \in Nat
        /\ s.pkg > 0 <=> OffTheFloor(s.pkg, pct) > 0
        /\ pct <= OffTheFloor(s.pkg, pct)
        /\ \A t \in Nat : t > 1 /\ OffTheFloor(s.pkg, pct) >= t => pct >= t
    BY <2>1, KeptOffTheFloor
  <2>5. ColumnHeld(PkgPercent(s), PkgPowerPercent, Holds("pkg", s))
    BY <1>7, <2>1, <2>2, <2>3, <2>4 DEF ColumnHeld
  <2>6. QED
    BY <2>2, <2>4, <2>5
<1>9. /\ BwPercent(s) \in Nat /\ (Reading("bw", s) > 0 <=> BwPercent(s) > 0)
      /\ ColumnHeld(BwPercent(s), BwSatPercent, Holds("bw", s))
  <2> DEFINE gbps == Reading("bw", s)
             pct == ceiling_percent(gbps, frame'.maxBw)
  <2>1. gbps \in Nat
    BY <1>1
  <2> HIDE DEF gbps
  <2>2. pct \in Nat /\ (gbps = 0 => pct = 0)
    BY <1>6, <2>1, CeilingPercents
  <2>3. BwPercent(s) = OffTheFloor(gbps, pct)
    BY DEF BwPercent, gbps
  <2>4. /\ OffTheFloor(gbps, pct) \in Nat
        /\ gbps > 0 <=> OffTheFloor(gbps, pct) > 0
        /\ pct <= OffTheFloor(gbps, pct)
        /\ \A t \in Nat : t > 1 /\ OffTheFloor(gbps, pct) >= t => pct >= t
    BY <2>1, <2>2, KeptOffTheFloor
  <2>5. ColumnHeld(BwPercent(s), BwSatPercent, Holds("bw", s))
    <3>1. CASE s.bwAvailable
      <4>1. Holds("bw", s) <=> pct >= BwSatPercent
        BY <1>2, <1>6, <3>1 DEF Holds, gbps
      <4> HIDE DEF pct
      <4>2. QED
        BY <1>7, <2>2, <2>3, <2>4, <4>1 DEF ColumnHeld
    <3>2. CASE ~s.bwAvailable
      <4>1. ~Holds("bw", s) /\ gbps = 0
        BY <1>2, <3>2 DEF Holds, gbps
      <4> HIDE DEF pct
      <4>2. BwPercent(s) = 0
        BY <2>1, <2>3, <2>4, <4>1
      <4>3. QED
        BY <1>7, <4>1, <4>2 DEF ColumnHeld
    <3>3. QED
      BY <3>1, <3>2
  <2> HIDE DEF pct
  <2>6. QED
    BY <2>3, <2>4, <2>5 DEF gbps
<1>10. QED
  BY <1>2, <1>3, <1>4, <1>5, <1>8, <1>9 DEF Percents

-----------------------------------------------------------------------------
\* Before the first frame there is no column to be wrong.
LEMMA InitKept == DashInit => PercentsKept
<1> SUFFICES ASSUME DashInit PROVE PercentsKept
  OBVIOUS
<1>1. HistMaxLen \in Nat \ {0}
  BY HistoryAssumption
<1>2. hist = <<>> /\ Len(hist) = 0
  BY DEF DashInit, Init
<1>3. \A m \in Rows \cup Percents : chartHist[m] = [i \in 1..HistMaxLen |-> 0]
  BY DEF DashInit
<1>4. ASSUME NEW m \in Percents PROVE IsDeque(chartHist[m])
  <2>1. chartHist[m] \in [1..HistMaxLen -> Nat] /\ chartHist[m] \in Seq(Nat)
    BY <1>1, <1>3, SeqDef
  <2>2. DOMAIN chartHist[m] = 1..HistMaxLen /\ DOMAIN chartHist[m] = 1..Len(chartHist[m])
        /\ Len(chartHist[m]) \in Nat
    BY <2>1, LenProperties
  <2>3. QED
    BY <1>1, <2>1, <2>2 DEF IsDeque
<1>5. Bounded
  <2>1. ASSUME NEW m \in Rows, NEW i \in 1..HistMaxLen PROVE chartHist[m][i] <= 0
    <3>1. chartHist[m][i] = 0
      BY <1>3
    <3>2. QED
      BY <3>1
  <2>2. 0 \in Nat
    OBVIOUS
  <2>3. QED
    BY <2>1, <2>2 DEF Bounded
<1>6. ASSUME NEW i \in 1..HistMaxLen PROVE ColumnRight(chartHist, i)
  <2>1. \A m \in Rows \cup Percents : chartHist[m][i] = 0
    BY <1>3
  <2>2. QED
    BY <2>1 DEF ColumnRight, Rows, Percents
<1>7. \A a, m, threshold : ColumnsHeld(a, m, threshold)
  BY <1>1, <1>2 DEF ColumnsHeld
<1>8. QED
  BY <1>2, <1>4, <1>5, <1>6, <1>7 DEF PercentsKept

\* The columns that were there move one place, and the frame's own is appended.
LEMMA ColumnsStep ==
  ASSUME Remembers, Charted, PercentsKept, NEW s \in Snapshots, update_metrics(s)
  PROVE  \A i \in 1..HistMaxLen : ColumnRight(chartHist', i)
<1>1. HistMaxLen \in Nat \ {0}
  BY HistoryAssumption
<1>2. /\ \A m \in Rows : chartHist'[m] = Push(chartHist[m], Reading(m, s))
      /\ \A m \in Percents : chartHist'[m] = Push(chartHist[m], Percentage(m, s))
  BY DEF update_metrics, RowHist, Rows, Percents
<1>3. /\ \A m \in Percents : Percentage(m, s) \in Nat
      /\ Reading("rx", s) <= Reading("tx", s) => Percentage("rxPct", s) <= Percentage("txPct", s)
      /\ Reading("tx", s) <= Reading("rx", s) => Percentage("txPct", s) <= Percentage("rxPct", s)
      /\ Reading("cpuW", s) > 0 <=> Percentage("cpuPct", s) > 0
      /\ Reading("pkgW", s) > 0 <=> Percentage("pkgPct", s) > 0
      /\ Reading("bw", s) > 0 <=> Percentage("bwPct", s) > 0
  BY NewColumn DEF update_metrics, PercentsKept
<1>4. /\ \A m \in Rows : chartHist'[m][HistMaxLen] = Reading(m, s)
      /\ \A m \in Percents : chartHist'[m][HistMaxLen] = Percentage(m, s)
      /\ \A m \in Rows \cup Percents :
           \A i \in 1..(HistMaxLen - 1) : chartHist'[m][i] = chartHist[m][i + 1]
  <2>1. \A m \in Rows : IsDeque(chartHist[m]) /\ Reading(m, s) \in Nat
    BY ReadingIsNat DEF Charted
  <2>2. \A m \in Percents : IsDeque(chartHist[m]) /\ Percentage(m, s) \in Nat
    BY <1>3 DEF PercentsKept
  <2>3. QED
    BY <1>2, <2>1, <2>2, Pushed
<1> DEFINE h == chartHist'
<1>5. ASSUME NEW i \in 1..HistMaxLen PROVE ColumnRight(h, i)
  <2>1. CASE i = HistMaxLen
    <3>1. /\ h["rx"][i] = Reading("rx", s) /\ h["tx"][i] = Reading("tx", s)
          /\ h["cpuW"][i] = Reading("cpuW", s) /\ h["pkgW"][i] = Reading("pkgW", s)
          /\ h["bw"][i] = Reading("bw", s)
          /\ h["rxPct"][i] = Percentage("rxPct", s) /\ h["txPct"][i] = Percentage("txPct", s)
          /\ h["cpuPct"][i] = Percentage("cpuPct", s) /\ h["pkgPct"][i] = Percentage("pkgPct", s)
          /\ h["bwPct"][i] = Percentage("bwPct", s)
      BY <1>4, <2>1 DEF Rows, Percents
    <3> HIDE DEF h
    <3>2. QED
      BY <1>3, <3>1 DEF ColumnRight
  <2>2. CASE i # HistMaxLen
    <3>1. i \in 1..(HistMaxLen - 1) /\ i + 1 \in 1..HistMaxLen
      BY <1>1, <2>2
    <3>2. ColumnRight(chartHist, i + 1)
      BY <3>1 DEF PercentsKept
    <3>3. /\ h["rx"][i] = chartHist["rx"][i + 1] /\ h["tx"][i] = chartHist["tx"][i + 1]
          /\ h["cpuW"][i] = chartHist["cpuW"][i + 1] /\ h["pkgW"][i] = chartHist["pkgW"][i + 1]
          /\ h["bw"][i] = chartHist["bw"][i + 1]
          /\ h["rxPct"][i] = chartHist["rxPct"][i + 1] /\ h["txPct"][i] = chartHist["txPct"][i + 1]
          /\ h["cpuPct"][i] = chartHist["cpuPct"][i + 1] /\ h["pkgPct"][i] = chartHist["pkgPct"][i + 1]
          /\ h["bwPct"][i] = chartHist["bwPct"][i + 1]
      BY <1>4, <3>1 DEF Rows, Percents
    <3> HIDE DEF h
    <3>4. QED
      BY <3>2, <3>3 DEF ColumnRight
  <2>3. QED
    BY <2>1, <2>2
<1>6. QED
  BY <1>5

\* The columns of an alert's chart stay beside the frames they belong to.
LEMMA HeldStep ==
  ASSUME Remembers, NEW s \in Snapshots, hist' = Append(hist, s),
         NEW a \in Alerts, NEW m, NEW threshold \in Nat, NEW v \in Nat,
         IsDeque(chartHist[m]), chartHist'[m] = Push(chartHist[m], v),
         ColumnsHeld(a, m, threshold), ColumnHeld(v, threshold, Holds(a, s))
  PROVE  ColumnsHeld(a, m, threshold)'
<1>1. HistMaxLen \in Nat \ {0}
  BY HistoryAssumption
<1>2. /\ hist \in Seq(Snapshots) /\ Len(hist) \in Nat /\ Len(hist') = Len(hist) + 1
      /\ chartHist'[m][HistMaxLen] = v
      /\ \A i \in 1..(HistMaxLen - 1) : chartHist'[m][i] = chartHist[m][i + 1]
  <2>1. hist \in Seq(Snapshots) /\ Len(hist) \in Nat /\ Len(hist') = Len(hist) + 1
    BY AppendedHistory DEF Remembers
  <2>2. /\ Push(chartHist[m], v)[HistMaxLen] = v
        /\ \A i \in 1..(HistMaxLen - 1) : Push(chartHist[m], v)[i] = chartHist[m][i + 1]
    BY Pushed
  <2>3. QED
    BY <2>1, <2>2
<1>3. Promise!Held(a, hist', Len(hist) + 1) <=> Holds(a, s)
  BY HeldNow
<1>4. ASSUME NEW age \in 0..(HistMaxLen - 1), age < Len(hist')
      PROVE  ColumnHeld(chartHist'[m][HistMaxLen - age], threshold,
                        Promise!Held(a, hist', Len(hist') - age))
  <2>1. CASE age = 0
    <3>1. HistMaxLen - age = HistMaxLen /\ Len(hist') - age = Len(hist) + 1
      BY <1>1, <1>2, <2>1
    <3>2. QED
      BY <1>2, <1>3, <3>1 DEF ColumnHeld
  <2>2. CASE age # 0
    <3>1. /\ age - 1 \in 0..(HistMaxLen - 1) /\ age - 1 < Len(hist)
          /\ HistMaxLen - age \in 1..(HistMaxLen - 1)
          /\ HistMaxLen - age + 1 = HistMaxLen - (age - 1)
          /\ Len(hist') - age = Len(hist) - (age - 1)
          /\ Len(hist) - (age - 1) \in 1..Len(hist)
      BY <1>1, <1>2, <1>4, <2>2
    <3>2. ColumnHeld(chartHist[m][HistMaxLen - (age - 1)], threshold,
                     Promise!Held(a, hist, Len(hist) - (age - 1)))
      BY <3>1 DEF ColumnsHeld
    <3>3. Promise!Held(a, hist', Len(hist) - (age - 1)) = Promise!Held(a, hist, Len(hist) - (age - 1))
      BY <1>2, <3>1, HeldBefore
    <3>4. QED
      BY <1>2, <3>1, <3>2, <3>3
  <2>3. QED
    BY <2>1, <2>2
<1>5. QED
  BY <1>4 DEF ColumnsHeld

\* Each frame keeps every column beside its readings and its alerts.
LEMMA KeptStep ==
  ASSUME Remembers, Charted, PercentsKept, NEW s \in Snapshots, update_metrics(s)
  PROVE  PercentsKept'
<1>1. /\ hist' = Append(hist, s) /\ hist \in Seq(Snapshots)
      /\ \A m \in Rows : chartHist'[m] = Push(chartHist[m], Reading(m, s))
      /\ \A m \in Percents : chartHist'[m] = Push(chartHist[m], Percentage(m, s))
  BY DEF update_metrics, feed, RowHist, Charted, Rows, Percents
<1>2. /\ \A m \in Percents : Percentage(m, s) \in Nat
      /\ ColumnHeld(Percentage("pkgPct", s), PkgPowerPercent, Holds("pkg", s))
      /\ ColumnHeld(Percentage("bwPct", s), BwSatPercent, Holds("bw", s))
  BY NewColumn DEF update_metrics, PercentsKept
<1>3. \A m \in Percents : IsDeque(chartHist[m])'
  <2>1. \A m \in Percents : IsDeque(chartHist[m]) /\ Percentage(m, s) \in Nat
    BY <1>2 DEF PercentsKept
  <2>2. \A m \in Percents : IsDeque(Push(chartHist[m], Percentage(m, s)))
    BY <2>1, Pushed
  <2>3. \A m \in Percents : IsDeque(chartHist'[m])
    BY <1>1, <2>2
  <2>4. QED
    BY <2>3 DEF IsDeque
<1>4. Bounded'
  <2>1. \E bound \in Nat : \A m \in Rows :
          \A i \in 1..HistMaxLen : Push(chartHist[m], Reading(m, s))[i] <= bound
    BY BoundedStep DEF PercentsKept
  <2>2. QED
    BY <1>1, <2>1 DEF Bounded
<1>5. \A i \in 1..HistMaxLen : ColumnRight(chartHist, i)'
  <2>1. \A i \in 1..HistMaxLen : ColumnRight(chartHist', i)
    BY ColumnsStep
  <2>2. QED
    BY <2>1 DEF ColumnRight
<1>6. frame' = Promise!Verdict(hist')
  BY FeedStep DEF update_metrics, Promise!Observe
<1>7. /\ PkgPowerPercent \in Nat /\ BwSatPercent \in Nat
      /\ "pkg" \in Alerts /\ "bw" \in Alerts /\ "pkgPct" \in Percents /\ "bwPct" \in Percents
  BY ThresholdAssumption DEF Alerts, Promise!Sustained, Percents
<1>8. ColumnsHeld("pkg", "pkgPct", PkgPowerPercent)'
  BY <1>1, <1>2, <1>7, HeldStep DEF PercentsKept
<1>9. ColumnsHeld("bw", "bwPct", BwSatPercent)'
  BY <1>1, <1>2, <1>7, HeldStep DEF PercentsKept
<1>10. QED
  BY <1>3, <1>4, <1>5, <1>6, <1>8, <1>9 DEF PercentsKept

\* An alert that fires, beside the columns of its last frames.
LEMMA FiresSeen ==
  ASSUME Charted, hist # <<>>, SustainSamples <= HistMaxLen, NEW a \in Alerts,
         NEW m, NEW threshold \in Nat, ColumnsHeld(a, m, threshold)
  PROVE  LET Above ==
               /\ sampleCount >= SustainSamples
               /\ \A i \in (HistMaxLen - SustainSamples + 1)..HistMaxLen : chartHist[m][i] >= threshold
         IN  /\ Promise!Fires(a, hist) => Above
             /\ Above /\ threshold > 1 => Promise!Fires(a, hist)
<1>1. /\ HistMaxLen \in Nat /\ SustainSamples \in Nat /\ SustainSamples > 0
      /\ hist \in Seq(Snapshots) /\ Len(hist) \in Nat /\ sampleCount = Len(hist)
  BY HistoryAssumption, SustainAssumption DEF Charted
<1>2. ASSUME Promise!Fires(a, hist), NEW i \in (HistMaxLen - SustainSamples + 1)..HistMaxLen
      PROVE  chartHist[m][i] >= threshold
  <2>1. /\ HistMaxLen - i \in 0..(HistMaxLen - 1) /\ HistMaxLen - i < Len(hist)
        /\ HistMaxLen - (HistMaxLen - i) = i
        /\ Len(hist) - (HistMaxLen - i) \in (Len(hist) - SustainSamples + 1)..Len(hist)
    BY <1>1, <1>2 DEF Promise!Fires
  <2>2. QED
    BY <1>2, <2>1 DEF Promise!Fires, ColumnsHeld, ColumnHeld
<1>3. ASSUME sampleCount >= SustainSamples, threshold > 1,
             \A i \in (HistMaxLen - SustainSamples + 1)..HistMaxLen : chartHist[m][i] >= threshold,
             NEW j \in (Len(hist) - SustainSamples + 1)..Len(hist)
      PROVE  Promise!Held(a, hist, j)
  <2>1. /\ Len(hist) - j \in 0..(HistMaxLen - 1) /\ Len(hist) - j < Len(hist)
        /\ Len(hist) - (Len(hist) - j) = j
        /\ HistMaxLen - (Len(hist) - j) \in (HistMaxLen - SustainSamples + 1)..HistMaxLen
    BY <1>1, <1>3
  <2>2. QED
    BY <1>3, <2>1 DEF ColumnsHeld, ColumnHeld
<1>4. Promise!Fires(a, hist) => sampleCount >= SustainSamples
  BY <1>1 DEF Promise!Fires
<1>5. QED
  BY <1>1, <1>2, <1>3, <1>4 DEF Promise!Fires

\* What the columns say is what the property asks of them.
LEMMA AgreeFromKept == Charted /\ PercentsKept => PercentsAgree
<1> SUFFICES ASSUME Charted, PercentsKept PROVE PercentsAgree
  OBVIOUS
<1>1. TrickleSmaller
  BY DEF PercentsKept, ColumnRight, TrickleSmaller
<1>2. AlertSeenInChart
  <2> SUFFICES ASSUME hist # <<>>, SustainSamples <= HistMaxLen PROVE AlertSeenInChart
    BY DEF AlertSeenInChart
  <2>1. /\ "pkg" \in Alerts /\ "bw" \in Alerts /\ PkgPowerPercent \in Nat /\ BwSatPercent \in Nat
    BY ThresholdAssumption DEF Alerts, Promise!Sustained
  <2>2. frame.alert["pkg"] = Promise!Fires("pkg", hist) /\ frame.alert["bw"] = Promise!Fires("bw", hist)
    BY <2>1 DEF PercentsKept, Promise!Verdict, Alerts
  <2>3. QED
    BY <2>1, <2>2, FiresSeen, Zenon DEF AlertSeenInChart, PercentsKept
<1>3. QED
  BY <1>1, <1>2 DEF PercentsAgree

\* The columns stay beside the readings and the alerts for ever.
LEMMA PercentsKeptAlways == DashSpec => [](Charted /\ PercentsKept)
<1>1. DashInit => Remembers /\ Charted /\ PercentsKept
  BY InitRemembers, InitCharted, InitKept DEF DashInit
<1>2. Remembers /\ Charted /\ PercentsKept /\ [DashNext]_dashVars
        => Remembers' /\ Charted' /\ PercentsKept'
  <2> SUFFICES ASSUME Remembers, Charted, PercentsKept, [DashNext]_dashVars
               PROVE  Remembers' /\ Charted' /\ PercentsKept'
    OBVIOUS
  <2>1. CASE DashNext
    <3>1. PICK s \in Snapshots : update_metrics(s)
      BY <2>1 DEF DashNext
    <3>2. QED
      BY <3>1, FeedStep, ChartedStep, KeptStep DEF update_metrics
  <2>2. CASE UNCHANGED dashVars
    <3>1. /\ hist' = hist /\ chartHist' = chartHist /\ sampleCount' = sampleCount
          /\ bwPeak' = bwPeak /\ pkgPeak' = pkgPeak /\ counter' = counter
          /\ swapHist' = swapHist /\ frame' = frame
      BY <2>2 DEF dashVars, vars
    <3>2. Remembers'
      BY <3>1 DEF Remembers, PeakOf, CounterOf
    <3>3. Charted'
      BY <3>1 DEF Charted, ReadingsOf
    <3>4. PercentsKept'
      BY <3>1 DEF PercentsKept, Bounded, ColumnRight, ColumnsHeld
    <3>5. QED
      BY <3>2, <3>3, <3>4
  <2>3. QED
    BY <2>1, <2>2
<1>3. QED
  BY <1>1, <1>2, PTL DEF DashSpec

\* The two rates are drawn on one scale, what is above zero is off the floor of its chart, and
\* an alert and the chart of its quantity agree (update_metrics, widgets.py:1200-1248; feed,
\* analytics.py:215-257).
THEOREM PercentsAlwaysAgree == DashSpec => []PercentsAgree
  BY PercentsKeptAlways, AgreeFromKept, PTL

-----------------------------------------------------------------------------
(* From a history to the dots of its chart.                                *)

\* A value fills between none and all of the dots of its column.
LEMMA Levels ==
  ASSUME NEW v \in Nat, NEW total \in Nat \ {0}
  PROVE  /\ _clamped_value_and_level(v, total) \in 0..total
         /\ _clamped_value_and_level(0, total) = 0
<1>1. PICK n \in Nat : n = AtMost(100, v) * total
  BY DEF AtMost
<1>2. AtMost(100, 0) * total = 0
  BY DEF AtMost
<1>3. RoundHalfEven(n, 100) \in Nat /\ RoundHalfEven(0, 100) = 0
  <2>1. n <= n /\ 100 \in Nat \ {0}
    OBVIOUS
  <2>2. QED
    BY <2>1, Rounding
<1>4. QED
  BY <1>1, <1>2, <1>3 DEF _clamped_value_and_level, AtMost

\* The dots of one cell of a bar.
LEMMA CellOfBar ==
  ASSUME NEW height \in Nat \ {0}, NEW level \in 0..(4 * height), NEW row \in 0..(height - 1),
         NEW down \in BOOLEAN
  PROVE  _braille_column_bits(level, row, height, down)
           = AtMost(4, AtLeast(0, level - 4 * (IF down THEN row ELSE height - 1 - row)))
<1>1. CASE level = 0
  BY <1>1 DEF _braille_column_bits, AtMost, AtLeast
<1>2. CASE level > 0
  <2>1. PICK q \in 0..(height - 1), r \in 0..3 :
          /\ level - 1 = 4 * q + r /\ (level - 1) \div 4 = q /\ (level - 1) % 4 = r
    <3>1. /\ (level - 1) \div 4 \in 0..(height - 1) /\ (level - 1) % 4 \in 0..3
          /\ level - 1 = 4 * ((level - 1) \div 4) + ((level - 1) % 4)
      BY <1>2
    <3>2. QED
      BY <3>1
  <2>2. CASE down = TRUE
    <3>1. PeakRow(level, height, down) = q
      BY <2>1, <2>2 DEF PeakRow
    <3>2. CASE row = q
      BY <1>2, <2>1, <2>2, <3>1, <3>2 DEF _braille_column_bits, AtMost, AtLeast
    <3>3. CASE row < q
      <4>1. ((row < q) = down) = TRUE
        BY <2>1, <2>2, <3>3
      <4>2. _braille_column_bits(level, row, height, down) = 4
        BY <1>2, <2>1, <3>1, <3>3, <4>1 DEF _braille_column_bits
      <4>3. QED
        BY <2>1, <2>2, <3>3, <4>2 DEF AtMost, AtLeast
    <3>4. CASE row > q
      <4>1. (row < q) # down
        <5>1. ~(row < q)
          BY <2>1, <3>4
        <5>2. QED
          BY <2>2, <5>1
      <4>2. _braille_column_bits(level, row, height, down) = 0
        BY <1>2, <2>1, <3>1, <3>4, <4>1 DEF _braille_column_bits
      <4>3. QED
        BY <2>1, <2>2, <3>4, <4>2 DEF AtMost, AtLeast
    <3>5. QED
      BY <2>1, <3>2, <3>3, <3>4
  <2>3. CASE down = FALSE
    <3>1. PeakRow(level, height, down) = height - 1 - q
      BY <2>1, <2>3 DEF PeakRow
    <3>2. CASE row = height - 1 - q
      BY <1>2, <2>1, <2>3, <3>1, <3>2 DEF _braille_column_bits, AtMost, AtLeast
    <3>3. CASE row < height - 1 - q
      BY <1>2, <2>1, <2>3, <3>1, <3>3 DEF _braille_column_bits, AtMost, AtLeast
    <3>4. CASE row > height - 1 - q
      BY <1>2, <2>1, <2>3, <3>1, <3>4 DEF _braille_column_bits, AtMost, AtLeast
    <3>5. QED
      BY <2>1, <3>2, <3>3, <3>4
  <2>4. QED
    BY <2>2, <2>3
<1>3. QED
  BY <1>1, <1>2

\* What is left of a bar in one of its cells.
BarCell(h, columns, col, height, down, row) ==
  AtMost(4, AtLeast(0,
             _clamped_value_and_level(
               IF columns - col < HistMaxLen THEN h[HistMaxLen - (columns - col)] ELSE 0,
               4 * height)
             - 4 * (IF down THEN row ELSE height - 1 - row)))

\* One column of a chart of any width and height.
LEMMA ColumnOfChart ==
  ASSUME NEW h, IsDeque(h), NEW columns \in Nat \ {0}, NEW height \in Nat \ {0},
         NEW down \in BOOLEAN, NEW col \in 1..columns, NEW row \in 0..(height - 1)
  PROVE  RenderedColumn(h, columns, col, height, down)[row]
           = BarCell(h, columns, col, height, down, row)
<1>1. HistMaxLen \in Nat \ {0} /\ Len(h) = HistMaxLen /\ 4 * height \in Nat \ {0}
  BY HistoryAssumption DEF IsDeque
<1> DEFINE age == columns - col
           v == IF age < HistMaxLen THEN h[HistMaxLen - age] ELSE 0
           level == _clamped_value_and_level(v, 4 * height)
<1>2. v \in Nat
  <2>1. CASE age < HistMaxLen
    <3>1. HistMaxLen - age \in 1..HistMaxLen
      BY <1>1, <2>1
    <3>2. QED
      BY <2>1, <3>1, DequeEntries
  <2>2. CASE ~(age < HistMaxLen)
    BY <2>2
  <2>3. QED
    BY <2>1, <2>2
<1>3. level \in 0..(4 * height)
  <2> HIDE DEF v
  <2>1. QED
    BY <1>1, <1>2, Levels
<1>4. RenderedColumn(h, columns, col, height, down)[row]
        = _braille_column_bits(level, row, height, down)
  <2>1. CASE age < HistMaxLen
    <3>1. Len(h) - columns + col >= 1 /\ Len(h) - columns + col = HistMaxLen - age
      BY <1>1, <2>1
    <3>2. QED
      BY <2>1, <3>1 DEF RenderedColumn
  <2>2. CASE ~(age < HistMaxLen)
    <3>1. ~(Len(h) - columns + col >= 1)
      BY <1>1, <2>2
    <3>2. level = 0
      <4>1. 0 \in Nat
        OBVIOUS
      <4>2. QED
        BY <1>1, <2>2, <4>1, Levels
    <3>3. QED
      BY <3>1, <3>2 DEF RenderedColumn
  <2>3. QED
    BY <2>1, <2>2
<1> HIDE DEF level
<1>5. _braille_column_bits(level, row, height, down)
        = AtMost(4, AtLeast(0, level - 4 * (IF down THEN row ELSE height - 1 - row)))
  BY <1>3, CellOfBar
<1>6. QED
  BY <1>4, <1>5 DEF level, BarCell

\* A chart draws the end of its history: the newest reading in the last column, nothing
\* where there is none yet, and every bar without gaps and as high as its percentage
\* (_render_dots and _braille_column_bits, widgets.py:256-279 and 420-488).
THEOREM ChartsTrue == DashSpec => []ChartTrue
<1>1. PercentsKept => ChartTrue
  <2> SUFFICES ASSUME PercentsKept, NEW m \in {"rxPct"}, NEW columns \in {1, HistMaxLen + 1},
                      NEW height \in 1..2, NEW down \in BOOLEAN, NEW col \in 1..columns,
                      NEW row \in 0..(height - 1)
               PROVE  RenderedColumn(chartHist[m], columns, col, height, down)[row]
                        = AtMost(4, AtLeast(0,
                            _clamped_value_and_level(
                              IF columns - col < HistMaxLen
                              THEN chartHist[m][HistMaxLen - (columns - col)] ELSE 0,
                              4 * height)
                            - 4 * (IF down THEN row ELSE height - 1 - row)))
    BY Zenon DEF ChartTrue
  <2> DEFINE h == chartHist[m]
  <2>1. IsDeque(h) /\ columns \in Nat \ {0} /\ height \in Nat \ {0}
    BY HistoryAssumption DEF PercentsKept, Percents
  <2> HIDE DEF h
  <2>2. RenderedColumn(h, columns, col, height, down)[row]
           = BarCell(h, columns, col, height, down, row)
    BY <2>1, ColumnOfChart
  <2>3. QED
    BY <2>2 DEF h, BarCell
<1>2. QED
  BY <1>1, PercentsKeptAlways, PTL
=============================================================================
