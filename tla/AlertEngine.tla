---------------------------- MODULE AlertEngine ----------------------------
(***************************************************************************)
(* AlertEngine.feed (src/actop/analytics.py): the state the engine keeps   *)
(* between frames - sustain counters, ratcheted ceilings, the swap window, *)
(* the session-energy integral - and what one frame does to it.            *)
(*                                                                         *)
(* A snapshot is a record with whole-number fields: bandwidth and power    *)
(* (bw, pkg), a silicon domain each for the P-cluster and the GPU          *)
(* (util, freq, max, temp), swap in tenths of a GiB, ts in seconds of      *)
(* time.time().  hist and the time ghosts are history variables.           *)
(***************************************************************************)
EXTENDS Integers, Sequences, Percent

CONSTANTS
  Snapshots, SustainSamples, BwSatPercent, PkgPowerPercent, ThrottleFreqPercent,
  SwapRise, BwFloor, PkgFloor, None,
  MaxFrames         \* bound: frames of a session

ASSUME SustainAssumption == SustainSamples \in Nat \ {0}   \* max(1, int(...))
ASSUME ThresholdAssumption ==         \* _validate_percent_threshold
  BwSatPercent \in 1..100 /\ PkgPowerPercent \in 1..100
ASSUME FloorAssumption == BwFloor \in Nat /\ PkgFloor \in Nat
ASSUME SnapshotsAssumption ==
  \A s \in Snapshots : s.bw \in Nat /\ s.pkg \in Nat /\ s.swap \in Nat /\ s.ts \in Int
ASSUME NoneAssumption == None \notin Int

VARIABLES
  bwPeak, pkgPeak,  \* the peaks of the two _Ratchet objects
  counter,          \* the four sustain counters
  swapHist,         \* _swap_hist
  sessionJoules,    \* _session_joules
  lastTimestamp,    \* _last_timestamp, or None
  frame,            \* the AlertFrame feed() returned
  hist,             \* ghost: every snapshot fed
  counted,          \* ghost: seconds the energy was integrated over
  regress           \* ghost: seconds the timestamps ever went back

vars == <<bwPeak, pkgPeak, counter, swapHist, sessionJoules, lastTimestamp, frame,
          hist, counted, regress>>

Promise == INSTANCE AlertHistory

Alerts == Promise!Sustained

Init ==
  /\ bwPeak = 0 /\ pkgPeak = 0
  /\ counter = [a \in Alerts |-> 0]
  /\ swapHist = <<>>
  /\ sessionJoules = 0
  /\ lastTimestamp = None
  /\ frame = None
  /\ hist = <<>> /\ counted = 0 /\ regress = 0

-----------------------------------------------------------------------------

\* The peak a _Ratchet has after observe(value), and the ceiling it stands for.
observe(peak, value) == AtLeast(peak, value)
value(floor, peak) == AtLeast(floor, peak)

\* A bandwidth is observed only when the snapshot carries one.
BwPeakAfter(s) == IF s.bwAvailable THEN observe(bwPeak, s.bw) ELSE bwPeak

\* Mutant: the ceiling is measured before this frame is observed.
PkgPeakLate(s) == pkgPeak

PkgPeakAfter(s) == observe(pkgPeak, s.pkg)

\* The condition each sustain counter counts, against the ceilings of this frame.
Holds(a, s) ==
  CASE a = "bw"  -> /\ s.bwAvailable
                    /\ ceiling_percent(s.bw, value(BwFloor, BwPeakAfter(s))) >= BwSatPercent
    [] a = "pkg" -> ceiling_percent(s.pkg, value(PkgFloor, PkgPeakAfter(s))) >= PkgPowerPercent
    [] a = "cpu" -> Promise!domain_throttling(s.cpu, s.thermal)
    [] a = "gpu" -> Promise!domain_throttling(s.gpu, s.thermal)

\* Mutant: a frame on which the condition fails leaves the counter alone.
CounterNeverReset(a, s) == IF Holds(a, s) THEN counter[a] + 1 ELSE counter[a]

CounterAfter(a, s) == IF Holds(a, s) THEN counter[a] + 1 ELSE 0

\* Mutant: the deque is one frame short.
SwapWindowShort == AtLeast(2, SustainSamples)

\* deque(maxlen=max(2, sustain + 1)).append
SwapWindow == AtLeast(2, SustainSamples + 1)
SwapHistAfter(s) ==
  LET w == Append(swapHist, AtLeast(0, s.swap))
  IN  IF Len(w) > SwapWindow THEN Tail(w) ELSE w

SwapRiseOf(w) == IF Len(w) > 1 THEN AtLeast(0, w[Len(w)] - w[1]) ELSE 0

SwapAlert(s, w) ==
  /\ s.swapTotal >= 1
  /\ Len(w) >= SustainSamples + 1
  /\ SwapRiseOf(w) >= SwapRise

\* Mutant: the first frame is integrated as a whole one.
FrameTimeAlways(s) == IF lastTimestamp = None THEN 1 ELSE AtLeast(0, s.ts - lastTimestamp)

\* The time between the previous frame and this one, 0 for the first and when the
\* wall clock has gone back.
FrameTime(s) ==
  IF lastTimestamp = None THEN 0 ELSE AtLeast(0, s.ts - lastTimestamp)

feed(s) ==
  LET c == [a \in Alerts |-> CounterAfter(a, s)]
      w == SwapHistAfter(s)
  IN
  /\ bwPeak' = BwPeakAfter(s)
  /\ pkgPeak' = PkgPeakAfter(s)
  /\ counter' = c
  /\ swapHist' = w
  /\ sessionJoules' = sessionJoules + AtLeast(0, s.pkg) * FrameTime(s)
  /\ lastTimestamp' = s.ts
  /\ frame' = [alert    |-> [a \in Alerts |-> c[a] >= SustainSamples],
               swap     |-> SwapAlert(s, w),
               swapRise |-> SwapRiseOf(w),
               thermal  |-> Promise!Hot(s.thermal),
               maxBw    |-> value(BwFloor, BwPeakAfter(s)),
               maxPkg   |-> value(PkgFloor, PkgPeakAfter(s))]
  /\ hist' = Append(hist, s)
  /\ counted' = counted + FrameTime(s)
  /\ regress' = regress + (IF hist = <<>> THEN 0 ELSE AtLeast(0, hist[Len(hist)].ts - s.ts))

Next == \E s \in Snapshots : Len(hist) < MaxFrames /\ feed(s)

Spec == Init /\ [][Next]_vars

-----------------------------------------------------------------------------
(* What must hold.                                                         *)

\* Every variable keeps its type.
TypeOK ==
  /\ bwPeak \in Nat /\ pkgPeak \in Nat
  /\ counter \in [Alerts -> Nat]
  /\ swapHist \in Seq(Nat) /\ Len(swapHist) <= SustainSamples + 1
  /\ sessionJoules \in Nat
  /\ lastTimestamp \in Int \cup {None}
  /\ hist \in Seq(Snapshots)
  /\ counted \in Nat /\ regress \in Nat

\* The counters, the deque and the ratchets give, frame by frame, the verdicts that
\* the whole history of the session calls for (the class docstring, lines 166-177,
\* and the _Ratchet docstring, lines 141-151).
KeepsPromise == Promise!Spec

\* However the wall clock jumps, the time the energy was integrated over is the time
\* between the first and the last timestamp plus what the clock went back: a step
\* back is not taken from the integral, and is paid for twice once time goes on.
TimeCounted ==
  hist # <<>> => counted = hist[Len(hist)].ts - hist[1].ts + regress

\* The session energy never exceeds the highest package power ever measured held
\* over the time it was integrated over.
EnergyBounded == sessionJoules <= pkgPeak * counted

\* Both together: the energy of the session and the time it was integrated over (lines
\* 275-279).
EnergyOverTime == TimeCounted /\ EnergyBounded
=============================================================================
