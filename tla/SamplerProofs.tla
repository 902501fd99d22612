--------------------------- MODULE SamplerProofs ---------------------------
(***************************************************************************)
(* The safety of Sampler for every number of sub-samples and every bound.  *)
(* The invariants of Sampler speak of sums over all frames since the seed; *)
(* they are inductive together with what Baselines and Loop say of the     *)
(* baselines the next frame will be measured against.                      *)
(***************************************************************************)
EXTENDS Sampler, TLAPS

\* The baselines are readings of the past: the counters have only moved on since,
\* and the I/O total has risen by no more than what entered it.
Baselines ==
  /\ prevSample # None =>
       /\ prevSample <= joules
       /\ prevTime \in Nat /\ prevTime <= clock
       /\ prevTotals # None
  /\ base <= shown
  /\ prevTotals # None /\ prevTotals.available =>
       total - prevTotals.bytes <= shown - base
  /\ intact /\ prevSample # None =>
       /\ readable /\ prevTotals.available
       /\ total - prevTotals.bytes = shown - base

\* Inside the loop of sample() the sleep ends after the baseline was taken.
Loop ==
  left > 0 =>
    /\ subsamples > 1
    /\ parts + left <= subsamples
    /\ left = subsamples => prevSample # None
    /\ prevSample # None => prevTime < wakeAt

IInv ==
  /\ TypeOK /\ Baselines /\ Loop
  /\ BytesNeverInvented /\ BytesReportedOnce /\ EnergyAccounted /\ TimeCovered
  /\ SubsamplesDropNothing /\ LoopYieldsAFrame

-----------------------------------------------------------------------------

LEMMA InitEstablishes == Init => IInv
  BY SubsamplesAssumption, NoneAssumption
  DEF Init, IInv, TypeOK, Baselines, Loop, BytesNeverInvented, BytesReportedOnce,
      EnergyAccounted, TimeCovered, SubsamplesDropNothing, LoopYieldsAFrame,
      SeedType, SumsType, ZeroSums

\* What the machine does between two calls, or during the sleeps of one.
LEMMA MachineStep == IInv /\ Machine => IInv'
<1> SUFFICES ASSUME IInv, Machine PROVE IInv'
  OBVIOUS
<1> USE SubsamplesAssumption, NoneAssumption, BoundsAssumption
<1> USE DEF IInv, TypeOK, Baselines, Loop, BytesNeverInvented, BytesReportedOnce,
            EnergyAccounted, TimeCovered, SubsamplesDropNothing, LoopYieldsAFrame,
            SeedType, SumsType, sampler, call, ghosts
<1>1. CASE Tick
  BY <1>1 DEF Tick
<1>2. CASE Burn
  BY <1>2 DEF Burn
<1>3. CASE Flap
  BY <1>3 DEF Flap
<1>4. ASSUME NEW n \in 1..MaxShown, Enter(n) PROVE IInv'
  BY <1>4 DEF Enter
<1>5. ASSUME NEW n \in 0..MaxShown, Fall(n) PROVE IInv'
  <2>1. total' \in Nat /\ total' <= total /\ intact' = FALSE
    BY <1>5 DEF Fall
  <2>2. UNCHANGED <<clock, joules, readable, shown, sampler, call, seed, base, sums>>
    BY <1>5 DEF Fall
  <2>3. TypeOK'
    BY <2>1, <2>2
  <2>4. Baselines'
    BY <2>1, <2>2
  <2>5. QED
    BY <2>1, <2>2, <2>3, <2>4
<1>6. QED
  BY <1>1, <1>2, <1>3, <1>4, <1>5 DEF Machine

-----------------------------------------------------------------------------
(* A frame, whichever call takes it, keeps what is said of the baselines   *)
(* and of the sums; Frames collects it.                                    *)

Frames ==
  /\ prevSample \in Nat \cup {None}
  /\ prevTime \in Nat \cup {None}
  /\ prevTotals \in [bytes : Nat, available : BOOLEAN] \cup {None}
  /\ seed \in SeedType /\ base \in Nat /\ sums \in SumsType
  /\ intact \in BOOLEAN
  /\ Baselines
  /\ BytesNeverInvented /\ BytesReportedOnce /\ EnergyAccounted /\ TimeCovered

LEMMA TotalsType == TypeOK => Totals \in [bytes : Nat, available : BOOLEAN]
  BY DEF TypeOK, Totals

LEMMA EnergyDeltaType ==
  ASSUME IInv, prevSample # None, NEW new \in NewSample
  PROVE  EnergyDelta(new) \in Nat
  BY NoneAssumption DEF IInv, TypeOK, Baselines, EnergyDelta, NewSample

\* A frame reports no more than entered the total since the baseline it is measured
\* against, and exactly that while the total is intact.
LEMMA IoDeltaBound ==
  ASSUME IInv
  PROVE  /\ IoDelta \in Nat
         /\ IoDelta <= shown - base
         /\ intact /\ prevSample # None => IoDelta = shown - base
<1> USE NoneAssumption DEF IInv, TypeOK
<1>1. CASE prevTotals # None /\ Totals.available /\ prevTotals.available
  <2>1. Totals.bytes = total
    BY <1>1 DEF Totals
  <2>2. prevTotals.bytes \in Nat
    BY <1>1
  <2>3. IoDelta = IF total > prevTotals.bytes THEN total - prevTotals.bytes ELSE 0
    BY <1>1, <2>1 DEF IoDelta
  <2>4. QED
    BY <1>1, <2>2, <2>3 DEF Baselines
<1>2. CASE ~(prevTotals # None /\ Totals.available /\ prevTotals.available)
  <2>1. IoDelta = 0
    BY <1>2 DEF IoDelta
  <2>2. ~(intact /\ prevSample # None)
    BY <1>2 DEF Baselines, Totals
  <2>3. QED
    BY <2>1, <2>2 DEF Baselines
<1>3. QED
  BY <1>1, <1>2

LEMMA SeedStep ==
  ASSUME IInv, NEW new \in NewSample, SeedFrame(new), UNCHANGED kernel
  PROVE  Frames'
  BY NoneAssumption, TotalsType
  DEF IInv, TypeOK, SeedFrame, NewSample, kernel, Frames, Baselines, Totals, ZeroSums,
      BytesNeverInvented, BytesReportedOnce, EnergyAccounted, TimeCovered, SeedType, SumsType

LEMMA ZeroStep ==
  ASSUME IInv, NEW new \in NewSample, ZeroFrame(new), UNCHANGED kernel
  PROVE  Frames'
<1> USE NoneAssumption DEF IInv, TypeOK, NewSample, kernel
<1>1. /\ prevSample # None /\ prevTime \in Nat /\ prevTime = clock
      /\ prevSample' = new /\ prevTime' = clock
      /\ UNCHANGED <<prevTotals, base, seed, intact>>
  BY DEF ZeroFrame, ZeroFrameLeaving, Baselines
<1>2. /\ sums' \in SumsType
      /\ sums'.joules = sums.joules /\ sums'.bytes = sums.bytes
      /\ sums'.ticks = sums.ticks /\ sums'.dropped = sums.dropped + EnergyDelta(new)
  BY <1>1, EnergyDeltaType DEF ZeroFrame, ZeroFrameLeaving, SumsType
<1>3. Baselines' /\ BytesNeverInvented' /\ BytesReportedOnce'
  BY <1>1, <1>2 DEF Baselines, BytesNeverInvented, BytesReportedOnce
<1>4. EnergyAccounted' /\ TimeCovered'
  BY <1>1, <1>2 DEF EnergyAccounted, TimeCovered, EnergyDelta, SumsType, SeedType
<1>5. QED
  BY <1>1, <1>2, <1>3, <1>4 DEF Frames

LEMMA SumsUpdate ==
  ASSUME NEW s \in SumsType, NEW e \in Nat, NEW b \in Nat, NEW t \in Nat,
         NEW u, u = [joules |-> s.joules + e, bytes |-> s.bytes + b,
                     ticks |-> s.ticks + t, dropped |-> s.dropped]
  PROVE  /\ u \in SumsType
         /\ u.joules = s.joules + e /\ u.bytes = s.bytes + b
         /\ u.ticks = s.ticks + t /\ u.dropped = s.dropped
  BY DEF SumsType

LEMMA RateStep ==
  ASSUME IInv, NEW new \in NewSample, RateFrame(new), UNCHANGED kernel
  PROVE  Frames'
<1> USE NoneAssumption DEF IInv, TypeOK, NewSample, kernel
<1>1. /\ prevSample # None /\ prevTime \in Nat /\ prevTime < clock
      /\ prevSample' = new /\ prevTime' = clock
      /\ prevTotals' = Totals /\ base' = shown
      /\ UNCHANGED <<seed, intact>>
  BY DEF RateFrame, RateFrameLeaving, Baselines
<1>2. /\ sums' \in SumsType
      /\ sums'.joules = sums.joules + EnergyDelta(new)
      /\ sums'.bytes = sums.bytes + IoDelta
      /\ sums'.ticks = sums.ticks + (clock - prevTime)
      /\ sums'.dropped = sums.dropped
  <2>1. EnergyDelta(new) \in Nat /\ IoDelta \in Nat
    BY <1>1, EnergyDeltaType, IoDeltaBound
  <2>2. sums' = [joules  |-> sums.joules + EnergyDelta(new),
                bytes   |-> sums.bytes + IoDelta,
                ticks   |-> sums.ticks + (clock - prevTime),
                dropped |-> sums.dropped]
    BY DEF RateFrame, RateFrameLeaving
  <2>3. clock - prevTime \in Nat
    BY <1>1
  <2>4. sums \in SumsType
    OBVIOUS
  <2> HIDE DEF IInv, TypeOK, NewSample, kernel
  <2>5. QED
    BY <2>1, <2>2, <2>3, <2>4, SumsUpdate
<1>3. Baselines'
  <2>1. Totals \in [bytes : Nat, available : BOOLEAN] /\ (Totals.available => Totals.bytes = total)
    BY TotalsType DEF Totals
  <2>2. intact => Totals.available
    BY <1>1 DEF Baselines, Totals
  <2>3. QED
    BY <1>1, <2>1, <2>2 DEF Baselines
<1>4. BytesNeverInvented' /\ BytesReportedOnce'
  BY <1>1, <1>2, IoDeltaBound DEF BytesNeverInvented, BytesReportedOnce, SumsType, SeedType
<1>5. EnergyAccounted' /\ TimeCovered'
  BY <1>1, <1>2 DEF EnergyAccounted, TimeCovered, EnergyDelta, SumsType, SeedType
<1>6. QED
  BY <1>1, <1>2, <1>3, <1>4, <1>5, TotalsType DEF Frames

-----------------------------------------------------------------------------
(* The calls.                                                              *)

\* A frame that is no zero-time frame drops no energy.
LEMMA FrameDrops ==
  ASSUME NEW new, SeedFrame(new) \/ RateFrame(new), SubsamplesDropNothing,
         subsamples' = subsamples
  PROVE  SubsamplesDropNothing'
  BY DEF SeedFrame, RateFrame, RateFrameLeaving, ZeroSums, SubsamplesDropNothing

\* What a call leaves to show once its frame is known to keep Frames.
Rest ==
  /\ open \in BOOLEAN /\ subsamples \in SubsampleCounts
  /\ left \in 0..subsamples /\ parts \in 0..subsamples /\ wakeAt \in Nat
  /\ out \in {"frame", None}
  /\ Loop /\ SubsamplesDropNothing /\ LoopYieldsAFrame

LEMMA Compose == IInv /\ UNCHANGED kernel /\ Frames' /\ Rest' => IInv'
  BY DEF IInv, TypeOK, Frames, Rest, kernel

LEMMA DirectStep == IInv /\ SampleDirect => IInv'
<1> SUFFICES ASSUME IInv, SampleDirect PROVE IInv'
  OBVIOUS
<1>1. subsamples = 1 /\ UNCHANGED kernel /\ UNCHANGED <<open, subsamples, left, wakeAt, parts>>
  BY DEF SampleDirect
<1>2. Frames' /\ out' \in {"frame", None}
  BY <1>1, SeedStep, ZeroStep, RateStep DEF SampleDirect
<1>3. left = 0
  BY <1>1 DEF IInv, TypeOK, Loop
<1>4. Rest'
  BY <1>1, <1>2, <1>3, SubsamplesAssumption
  DEF IInv, TypeOK, Rest, Loop, SubsamplesDropNothing, LoopYieldsAFrame
<1>5. QED
  BY <1>1, <1>2, <1>4, Compose

LEMMA PrimeStep == IInv /\ SamplePrime => IInv'
<1> SUFFICES ASSUME IInv, SamplePrime PROVE IInv'
  OBVIOUS
<1>1. /\ UNCHANGED kernel /\ UNCHANGED <<open, subsamples, left, wakeAt, parts>>
      /\ left = 0 /\ out' = None
  BY DEF SamplePrime
<1>2. PICK new \in NewSample : SeedFrame(new)
  BY DEF SamplePrime
<1>3. Frames'
  BY <1>1, <1>2, SeedStep
<1>4. SubsamplesDropNothing'
  BY <1>1, <1>2, FrameDrops DEF IInv
<1>5. Rest'
  BY <1>1, <1>4, SubsamplesAssumption DEF IInv, TypeOK, Rest, Loop, LoopYieldsAFrame
<1>6. QED
  BY <1>1, <1>3, <1>5, Compose

LEMMA LoopStep == IInv /\ SampleLoop => IInv'
  BY SubsamplesAssumption, NoneAssumption
  DEF IInv, TypeOK, Baselines, Loop, BytesNeverInvented, BytesReportedOnce,
      EnergyAccounted, TimeCovered, SubsamplesDropNothing, LoopYieldsAFrame,
      SampleLoop, SampleLoopUntil, kernel, sampler, ghosts

\* The sleep has ended after the baseline was taken, so no turn is a zero-time frame.
LEMMA TurnStep == IInv /\ SampleTurn => IInv'
<1> SUFFICES ASSUME IInv, SampleTurn PROVE IInv'
  OBVIOUS
<1>1. /\ left \in Nat /\ 0 < left /\ left <= subsamples /\ clock >= wakeAt
      /\ left' = left - 1 /\ wakeAt' = clock + 1
      /\ UNCHANGED kernel /\ UNCHANGED <<open, subsamples>>
      /\ subsamples \in SubsampleCounts /\ subsamples \in Nat
      /\ parts \in Nat /\ parts + left <= subsamples
  BY SubsamplesAssumption DEF SampleTurn, IInv, TypeOK, Loop
<1>2. PICK new \in NewSample :
        \/ SeedFrame(new) /\ parts' = parts
        \/ ZeroFrame(new) /\ parts' = parts
        \/ RateFrame(new) /\ parts' = parts + 1
  BY DEF SampleTurn
<1>3. ~ZeroFrame(new)
  BY <1>1, NoneAssumption DEF IInv, TypeOK, Baselines, Loop, ZeroFrame, ZeroFrameLeaving
<1>4. Frames'
  BY <1>1, <1>2, <1>3, SeedStep, RateStep
<1>5. SubsamplesDropNothing'
  BY <1>1, <1>2, <1>3, FrameDrops DEF IInv
<1>6. parts' \in Nat /\ parts' + left' <= subsamples
  BY <1>1, <1>2, <1>3
<1>7. prevTime' = clock
  BY <1>2, <1>3 DEF SeedFrame, RateFrame, RateFrameLeaving
<1>8. LoopYieldsAFrame'
  <2>1. CASE left = subsamples
    BY <1>1, <1>2, <1>3, <2>1 DEF IInv, Loop, LoopYieldsAFrame, SeedFrame
  <2>2. CASE left < subsamples
    BY <1>1, <1>2, <1>3, <2>2 DEF IInv, LoopYieldsAFrame
  <2>3. QED
    BY <1>1, <2>1, <2>2, SubsamplesAssumption
<1>9. Loop'
  <2>1. clock \in Nat /\ subsamples \in Nat
    BY SubsamplesAssumption DEF IInv, TypeOK
  <2>2. prevTime' < wakeAt' /\ left' # subsamples
    BY <1>1, <1>7, <2>1
  <2>3. left' > 0 => subsamples > 1
    BY <1>1, <2>1
  <2>4. QED
    BY <1>1, <1>6, <2>2, <2>3 DEF Loop
<1>10. out' \in {"frame", None}
  BY DEF SampleTurn, IInv, TypeOK
<1>11. Rest'
  <2>1. open' \in BOOLEAN /\ subsamples' \in SubsampleCounts
    BY <1>1, Zenon DEF IInv, TypeOK
  <2>2. clock \in Nat /\ left' \in Nat
    BY <1>1 DEF IInv, TypeOK
  <2>3. /\ left' \in 0..subsamples' /\ parts' \in 0..subsamples'
        /\ wakeAt' \in Nat
    <3>1. wakeAt' \in Nat
      BY <1>1, <2>2
    <3>2. \A s \in Nat, l \in Nat, p \in Nat : p + l <= s => l \in 0..s /\ p \in 0..s
      OBVIOUS
    <3>3. QED
      BY <1>1, <1>6, <2>2, <3>1, <3>2
  <2>4. QED
    BY <1>5, <1>8, <1>9, <1>10, <2>1, <2>3, Zenon DEF Rest
<1>12. QED
  BY <1>1, <1>4, <1>11, Compose

LEMMA CloseStep == IInv /\ Close => IInv'
  BY SubsamplesAssumption, NoneAssumption
  DEF IInv, TypeOK, Baselines, Loop, BytesNeverInvented, BytesReportedOnce,
      EnergyAccounted, TimeCovered, SubsamplesDropNothing, LoopYieldsAFrame,
      Close, kernel, call, ghosts

LEMMA StutterStep == IInv /\ UNCHANGED vars => IInv'
  BY DEF IInv, TypeOK, Baselines, Loop, BytesNeverInvented, BytesReportedOnce,
      EnergyAccounted, TimeCovered, SubsamplesDropNothing, LoopYieldsAFrame,
      vars, kernel, sampler, call, ghosts

THEOREM Invariance == Spec => []IInv
<1>1. IInv /\ [Next]_vars => IInv'
  BY MachineStep, DirectStep, PrimeStep, LoopStep, TurnStep, CloseStep, StutterStep DEF Next
<1>2. QED
  BY InitEstablishes, <1>1, PTL DEF Spec

-----------------------------------------------------------------------------

\* Every variable of the sampler keeps its type: no negative rate, no negative energy.
THEOREM TypeCorrect == Spec => []TypeOK
<1>1. IInv => TypeOK
  BY DEF IInv
<1>2. QED
  BY Invariance, <1>1, PTL

\* No sequence of wraps, vanishing sources, unreadable polls and zero-time frames makes
\* the frames report bytes that never entered the totals.
THEOREM NoBytesInvented == Spec => []BytesNeverInvented
<1>1. IInv => BytesNeverInvented
  BY DEF IInv
<1>2. QED
  BY Invariance, <1>1, PTL

\* While the totals stay intact every byte is reported exactly once.
THEOREM EveryByteOnce == Spec => []BytesReportedOnce
<1>1. IInv => BytesReportedOnce
  BY DEF IInv
<1>2. QED
  BY Invariance, <1>1, PTL

\* Energy is reported once or dropped by a zero-time frame, and the frames' intervals
\* tile the time since the seed.
THEOREM EnergyAndTimeAccounted == Spec => []FramesTile
<1>1. IInv => FramesTile
  BY DEF IInv, FramesTile
<1>2. QED
  BY Invariance, <1>1, PTL

\* Sub-sampling drops no energy and never comes back from its loop without a frame.
THEOREM SubsamplingComplete == Spec => []SubsamplesComplete
<1>1. IInv => SubsamplesComplete
  BY DEF IInv, SubsamplesComplete
<1>2. QED
  BY Invariance, <1>1, PTL
=============================================================================
