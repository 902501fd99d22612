------------------------------ MODULE Sampler ------------------------------
(***************************************************************************)
(* The delta core of IOReportSampler (src/actop/sampler.py): sample(),     *)
(* _sample_once() and close(), called by one thread.                       *)
(*                                                                         *)
(* The machine outside the sampler is a monotonic clock, the cumulative    *)
(* Energy Model counter and one cumulative I/O total: the four totals of   *)
(* read_network_totals and read_disk_totals (received, sent, read,         *)
(* written) go through the same guarded difference, so one of them stands  *)
(* for each.  An IOReport sample is what it holds, the energy counter at   *)
(* the time it was taken; who owns the reference is module SamplerRefs.    *)
(*                                                                         *)
(* sleep() is the passage of ticks: a step that slept is enabled once the  *)
(* clock has reached wakeAt.                                               *)
(***************************************************************************)
EXTENDS Integers

CONSTANTS
  SubsampleCounts,  \* what self._subsamples may be, clamped to at least 1
  None,         \* Python's None and C's NULL
  MaxClock,     \* bound: ticks of time.monotonic()
  MaxJoules,    \* bound: energy the counter may show
  MaxShown      \* bound: bytes the totals may take in

ASSUME SubsamplesAssumption == SubsampleCounts \subseteq Nat \ {0}
ASSUME NoneAssumption ==
  None \notin Int /\ None \notin [bytes : Int, available : BOOLEAN]
ASSUME BoundsAssumption == MaxClock \in Nat /\ MaxJoules \in Nat /\ MaxShown \in Nat

VARIABLES
  clock,        \* time.monotonic()
  joules,       \* the cumulative energy counter
  total,        \* the cumulative byte total the kernel shows now
  readable,     \* the availability flag a reading of the total would carry
  shown,        \* ghost: bytes that ever entered the total
  intact,       \* ghost: the total never fell and was never unreadable since the seed
  prevSample,   \* self._prev_sample: energy counter it holds, or None
  prevTime,     \* self._prev_time
  prevTotals,   \* self._prev_net_totals / self._prev_disk_totals, or None
  open,         \* close() has not been called
  subsamples,   \* self._subsamples, which the constructor sets
  left,         \* sub-samples the loop of sample() still has to take
  wakeAt,       \* the time the sleep in that loop ends
  parts,        \* frames in the list of that loop
  out,          \* what the last finished call returned
  seed,         \* ghost: counters at the frame that seeded the baselines
  base,         \* ghost: shown, when prevTotals was read
  sums          \* ghost: what the frames since the seed reported, and what was dropped

kernel  == <<clock, joules, total, readable, shown>>
sampler == <<prevSample, prevTime, prevTotals, open, subsamples>>
call    == <<left, wakeAt, parts, out>>
ghosts  == <<intact, seed, base, sums>>
vars    == <<kernel, sampler, call, ghosts>>

ZeroSums == [joules |-> 0, bytes |-> 0, ticks |-> 0, dropped |-> 0]

Init ==
  /\ clock = 0 /\ joules = 0 /\ total = 0 /\ shown = 0
  /\ readable \in BOOLEAN
  /\ prevSample = None /\ prevTime = None /\ prevTotals = None
  /\ open = TRUE /\ subsamples \in SubsampleCounts
  /\ left = 0 /\ wakeAt = 0 /\ parts = 0 /\ out = None
  /\ intact = TRUE
  /\ seed = [joules |-> 0, time |-> 0, shown |-> 0]
  /\ base = 0
  /\ sums = ZeroSums

-----------------------------------------------------------------------------
(* The machine.                                                            *)

Tick ==
  /\ clock < MaxClock
  /\ clock' = clock + 1
  /\ UNCHANGED <<joules, total, readable, shown, sampler, call, ghosts>>

Burn ==
  /\ joules < MaxJoules
  /\ joules' = joules + 1
  /\ UNCHANGED <<clock, total, readable, shown, sampler, call, ghosts>>

\* Bytes move, or an interface or a volume appears whose own counter already
\* stands at n: both raise the sum the registry walk returns.
Enter(n) ==
  /\ shown + n <= MaxShown
  /\ total' = total + n
  /\ shown' = shown + n
  /\ UNCHANGED <<clock, joules, readable, sampler, call, ghosts>>

\* A 32-bit interface counter wraps, or an interface or volume goes away: the
\* sum falls.
Fall(n) ==
  /\ n < total
  /\ total' = n
  /\ intact' = FALSE
  /\ UNCHANGED <<clock, joules, readable, shown, sampler, call, seed, base, sums>>

\* getifaddrs fails or works again, the last volume goes or the first comes.
Flap ==
  /\ readable' = ~readable
  /\ intact' = FALSE
  /\ UNCHANGED <<clock, joules, total, shown, sampler, call, seed, base, sums>>

\* The tuple of read_network_totals / read_disk_totals: zeroed when not available.
Totals == [bytes |-> IF readable THEN total ELSE 0, available |-> readable]

-----------------------------------------------------------------------------
(* _sample_once.  new is what self._sub.sample() returned: a sample that   *)
(* holds the energy counter, or NULL when IOReportCreateSamples failed.    *)

\* Mutants of IoDelta: the guard on the previous reading dropped; the clamp dropped.
IoDeltaUnguarded ==
  IF Totals.available /\ prevTotals # None /\ Totals.bytes > prevTotals.bytes
  THEN Totals.bytes - prevTotals.bytes ELSE 0
IoDeltaUnclamped ==
  IF prevTotals # None /\ Totals.available /\ prevTotals.available
  THEN Totals.bytes - prevTotals.bytes ELSE 0

\* max(0, now - previous) under the availability guards; 0.0 when they fail.
IoDelta ==
  IF prevTotals # None /\ Totals.available /\ prevTotals.available
  THEN IF Totals.bytes > prevTotals.bytes THEN Totals.bytes - prevTotals.bytes ELSE 0
  ELSE 0

\* The Energy Model items of delta(prev, new): none at all from a NULL sample.
EnergyDelta(new) == IF new = None THEN 0 ELSE new - prevSample

\* The first frame, and the first one after a NULL sample, only seeds.
SeedFrame(new) ==
  /\ prevSample = None
  /\ prevSample' = new
  /\ prevTime' = clock
  /\ prevTotals' = Totals
  /\ seed' = [joules |-> joules, time |-> clock, shown |-> shown]
  /\ base' = shown
  /\ intact' = readable
  /\ sums' = ZeroSums

\* No time has passed: the IOReport baseline moves on, the I/O baseline stays.
ZeroFrameLeaving(new, totals, b) ==
  /\ prevSample # None
  /\ clock - prevTime <= 0
  /\ prevSample' = new
  /\ prevTime' = clock
  /\ prevTotals' = totals
  /\ base' = b
  /\ sums' = [sums EXCEPT !.dropped = @ + EnergyDelta(new)]
  /\ UNCHANGED <<seed, intact>>

\* Mutant: the I/O baseline is stored before the early return.
ZeroFrameMovesTotals(new) == ZeroFrameLeaving(new, Totals, shown)

ZeroFrame(new) == ZeroFrameLeaving(new, prevTotals, base)

\* Time has passed: rates over it, and both baselines move on.
RateFrameLeaving(new, sample, time) ==
  /\ prevSample # None
  /\ clock - prevTime > 0
  /\ prevSample' = sample
  /\ prevTime' = time
  /\ prevTotals' = Totals
  /\ base' = shown
  /\ sums' = [joules  |-> sums.joules + EnergyDelta(new),
              bytes   |-> sums.bytes + IoDelta,
              ticks   |-> sums.ticks + (clock - prevTime),
              dropped |-> sums.dropped]
  /\ UNCHANGED <<seed, intact>>

\* Mutants: the new sample, or its time, is not kept for the next frame.
RateFrameKeepsSample(new) == RateFrameLeaving(new, prevSample, clock)
RateFrameKeepsTime(new) == RateFrameLeaving(new, new, prevTime)

RateFrame(new) == RateFrameLeaving(new, new, clock)

NewSample == {joules, None}

-----------------------------------------------------------------------------
(* sample().                                                               *)

\* One frame: the call returns it, or None.
SampleDirect ==
  /\ open /\ subsamples = 1
  /\ \E new \in NewSample :
       \/ SeedFrame(new) /\ out' = None
       \/ ZeroFrame(new) /\ out' = None
       \/ RateFrame(new) /\ out' = "frame"
  /\ UNCHANGED <<kernel, open, subsamples, left, wakeAt, parts>>

\* Sub-sampling without a baseline: one frame primes it, the call returns None.
SamplePrime ==
  /\ open /\ subsamples > 1 /\ left = 0
  /\ \E new \in NewSample : SeedFrame(new)
  /\ out' = None
  /\ UNCHANGED <<kernel, open, subsamples, left, wakeAt, parts>>

\* Sub-sampling: enter the loop and sleep its first step.
SampleLoopUntil(t) ==
  /\ open /\ subsamples > 1 /\ left = 0
  /\ prevSample # None
  /\ left' = subsamples
  /\ wakeAt' = t
  /\ parts' = 0
  /\ UNCHANGED <<kernel, sampler, out, ghosts>>

\* Mutant: the sleep of each turn comes after its frame, not before it.
SampleLoopNoSleep == SampleLoopUntil(clock)

SampleLoop == SampleLoopUntil(clock + 1)

\* One turn of the loop after its sleep; the last one returns the average of
\* the frames, or None when there is none.
SampleTurn ==
  /\ left > 0
  /\ clock >= wakeAt
  /\ \E new \in NewSample :
       \/ SeedFrame(new) /\ parts' = parts
       \/ ZeroFrame(new) /\ parts' = parts
       \/ RateFrame(new) /\ parts' = parts + 1
  /\ left' = left - 1
  /\ wakeAt' = clock + 1
  /\ out' = IF left > 1 THEN out ELSE IF parts' = 0 THEN None ELSE "frame"
  /\ UNCHANGED <<kernel, open, subsamples>>

\* close(): the sample is released, the times and totals stay behind.
Close ==
  /\ open /\ left = 0
  /\ open' = FALSE
  /\ prevSample' = None
  /\ UNCHANGED <<kernel, prevTime, prevTotals, subsamples, call, ghosts>>

-----------------------------------------------------------------------------

Machine == Tick \/ Burn \/ Flap \/ (\E n \in 1..MaxShown : Enter(n))
           \/ (\E n \in 0..MaxShown : Fall(n))

Next ==
  \/ Machine
  \/ SampleDirect
  \/ SamplePrime
  \/ SampleLoop
  \/ SampleTurn
  \/ Close

Spec == Init /\ [][Next]_vars

-----------------------------------------------------------------------------
(* What must hold.                                                         *)

SeedType == [joules : Nat, time : Nat, shown : Nat]
SumsType == [joules : Nat, bytes : Nat, ticks : Nat, dropped : Nat]

\* Every variable keeps its type; in particular no frame reports a negative rate
\* (lines 126-146) and no energy delta is negative.
TypeOK ==
  /\ clock \in Nat /\ joules \in Nat /\ total \in Nat /\ shown \in Nat
  /\ readable \in BOOLEAN /\ intact \in BOOLEAN /\ open \in BOOLEAN
  /\ subsamples \in SubsampleCounts
  /\ prevSample \in Nat \cup {None}
  /\ prevTime \in Nat \cup {None}
  /\ prevTotals \in [bytes : Nat, available : BOOLEAN] \cup {None}
  /\ left \in 0..subsamples /\ parts \in 0..subsamples /\ wakeAt \in Nat
  /\ out \in {"frame", None}
  /\ seed \in SeedType /\ base \in Nat /\ sums \in SumsType

\* However the totals wrap, vanish, come back or become unreadable between the
\* frames, the bytes all frames since the seed report never exceed the bytes that
\* entered the totals between the seed and the current I/O baseline.
BytesNeverInvented == sums.bytes <= base - seed.shown

\* While the totals stay readable and do not fall, every byte is reported exactly
\* once, those that moved across a zero-time frame included (lines 119-120 return
\* before lines 148-149 move the I/O baseline).
BytesReportedOnce ==
  intact /\ prevSample # None => sums.bytes = base - seed.shown

\* Every joule the counter ran up between the seed and the current baseline was
\* reported in one frame or lost in a zero-time frame: none is counted twice.
EnergyAccounted ==
  prevSample # None => sums.joules + sums.dropped = prevSample - seed.joules

\* The intervals of the frames tile the time since the seed: no gap, no overlap.
\* A frame's power is its energy over its own interval, so a gap would be power
\* nobody reports.
TimeCovered == prevSample # None => sums.ticks = prevTime - seed.time

\* Both together: whatever power a frame shows is its own energy over its own
\* interval, and the frames leave out neither (lines 112-117 and 161-171).
FramesTile == EnergyAccounted /\ TimeCovered

\* With sub-sampling the sleep before each frame means no energy is ever dropped.
SubsamplesDropNothing == subsamples > 1 => sums.dropped = 0

\* A sub-sampled call that has its baseline always yields a frame, even when
\* IOReport fails in the middle of its loop: after the first turn the list of
\* frames is never empty, and "if not parts" (line 78) is not taken.
LoopYieldsAFrame == 0 < left /\ left < subsamples => parts > 0

\* A sub-sampled call drops nothing and never comes back empty (lines 71-79).
SubsamplesComplete == SubsamplesDropNothing /\ LoopYieldsAFrame
=============================================================================
