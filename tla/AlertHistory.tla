---------------------------- MODULE AlertHistory ----------------------------
(***************************************************************************)
(* What the alerts of src/actop/analytics.py promise, stated on the whole  *)
(* history of the session and without a counter, a deque or a ratchet: the *)
(* verdict of a frame is a function of the snapshots fed so far.           *)
(***************************************************************************)
EXTENDS Integers, Sequences, FiniteSetsExt, Percent

CONSTANTS
  Snapshots,        \* the snapshots that may be fed
  SustainSamples,   \* sustain_samples
  BwSatPercent, PkgPowerPercent, ThrottleFreqPercent,
  SwapRise,         \* swap_rise_gib, in tenths of a GiB
  BwFloor,          \* max_total_bw: the calibrated bandwidth reference
  PkgFloor,         \* package_ref_w: the calibrated power reference
  None              \* Python's None: no frame has been fed

VARIABLES
  hist,             \* the snapshots fed, oldest first
  frame             \* the verdicts of the last one

Sustained == {"bw", "pkg", "cpu", "gpu"}

UtilGate == 80      \* _THROTTLE_UTIL_GATE
ThrottleTemp == 90  \* _THROTTLE_TEMP_C

Hot(thermal) == thermal \notin {"Nominal", "Unknown"}

\* A silicon domain d that is busy, slow and hot.
domain_throttling(d, thermal) ==
  /\ d.max > 0
  /\ d.util >= UtilGate
  /\ 100 * d.freq < ThrottleFreqPercent * d.max
  /\ Hot(thermal) \/ d.temp >= ThrottleTemp

\* The ceiling in force at frame i: the calibrated reference, or the highest value
\* measured up to and including that frame.
Ceiling(floor, seen) == Max({floor} \cup seen)
BwSeen(h, i)  == {h[j].bw : j \in {k \in 1..i : h[k].bwAvailable}}
PkgSeen(h, i) == {h[j].pkg : j \in 1..i}

\* The condition of alert a held at frame i.
Held(a, h, i) ==
  CASE a = "bw"  -> /\ h[i].bwAvailable
                    /\ ceiling_percent(h[i].bw, Ceiling(BwFloor, BwSeen(h, i))) >= BwSatPercent
    [] a = "pkg" -> ceiling_percent(h[i].pkg, Ceiling(PkgFloor, PkgSeen(h, i))) >= PkgPowerPercent
    [] a = "cpu" -> domain_throttling(h[i].cpu, h[i].thermal)
    [] a = "gpu" -> domain_throttling(h[i].gpu, h[i].thermal)

\* An alert that is sustained: its condition held in each of the last SustainSamples frames.
Fires(a, h) ==
  /\ Len(h) >= SustainSamples
  /\ \A i \in (Len(h) - SustainSamples + 1)..Len(h) : Held(a, h, i)

\* How much swap grew over the last SustainSamples + 1 frames, first to last, or
\* over the session while it is shorter; the alert waits for a full window.
SwapGrowth(h) ==
  AtLeast(0, h[Len(h)].swap - h[AtLeast(1, Len(h) - SustainSamples)].swap)

SwapFires(h) ==
  /\ Len(h) > SustainSamples
  /\ h[Len(h)].swapTotal >= 1
  /\ SwapGrowth(h) >= SwapRise

Verdict(h) ==
  [alert    |-> [a \in Sustained |-> Fires(a, h)],
   swap     |-> SwapFires(h),
   swapRise |-> SwapGrowth(h),
   thermal  |-> Hot(h[Len(h)].thermal),
   maxBw    |-> Ceiling(BwFloor, BwSeen(h, Len(h))),
   maxPkg   |-> Ceiling(PkgFloor, PkgSeen(h, Len(h)))]

Init == hist = <<>> /\ frame = None

Observe(s) ==
  /\ hist' = Append(hist, s)
  /\ frame' = Verdict(hist')

Next == \E s \in Snapshots : Observe(s)

Spec == Init /\ [][Next]_<<hist, frame>>
=============================================================================
