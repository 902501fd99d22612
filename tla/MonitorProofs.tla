---------------------------- MODULE MonitorProofs ----------------------------
(***************************************************************************)
(* What holds of everything that owns a sampler, for every set of threads  *)
(* and references.  One call at a time keeps the ownership of the          *)
(* references; the connection to the SMC follows the sampler, and a stream *)
(* is complete however it ends; a profiler used as a context manager never *)
(* lets two calls of its sampler overlap, so the ownership holds of it,    *)
(* its list is complete, and once stop() has returned nothing moves.       *)
(* Each step of a session or a profiler is a serial step of the references *)
(* or leaves them alone.                                                   *)
(***************************************************************************)
EXTENDS Session, Profiler, TLAPS, SequenceTheorems

(* The references when one call is made at a time.                         *)

InSample == {"taken", "delta", "drop", "release", "store"}

\* One call at a time.
OneCall == \A t, u \in Threads : pc[t] # "idle" /\ pc[u] # "idle" => t = u

\* Where a call at place p of thread t is, and what that says of the references.
At(p, t) ==
  /\ p \in InSample =>
       /\ new[t] = None \/ (cf[new[t]] = "live" /\ new[t] # prev)
       /\ sub # "released"
       /\ sub = "cleared" => new[t] = None
  /\ p \in {"idle", "taken", "delta", "drop", "release", "closeRelease"} =>
       prev = None \/ cf[prev] = "live"
  /\ p \in {"delta", "drop", "release", "store", "closeRelease", "closeClear"} => prev # None
  /\ p \in {"delta", "release", "closeRelease"} => arg[t] = prev
  /\ p \in {"store", "closeClear"} => cf[prev] = "free"
  /\ p \in {"idle", "closeRelease", "closeClear", "closeSub"} => sub # "released"
  /\ p \in {"closeSub", "closeSubClear"} => prev = None
  /\ p = "closeSubClear" => sub = "released"
  /\ sub = "cleared" => prev = None

\* What the thread in a call, or every thread when none is, knows.
Known == \A t \in Threads : pc[t] # "idle" \/ Quiet => At(pc[t], t)

IInv == RefTypeOK /\ OneCall /\ Known /\ NoFault /\ NothingLeaks

-----------------------------------------------------------------------------

\* A step of thread t leaves the others where they are, outside any call.
Alone(t) == \A u \in Threads : u # t => pc[u] = "idle" /\ pc'[u] = "idle"

LEMMA StepAlone ==
  ASSUME NEW t \in Threads, RefTypeOK, OneCall,
         NEW here, NEW there, Go(t, here, there), there \in Places,
         here # "idle" \/ Quiet
  PROVE  /\ Alone(t) /\ pc' \in [Threads -> Places]
         /\ pc[t] = here /\ pc'[t] = there
         /\ OneCall'
  BY DEF Go, RefTypeOK, OneCall, Alone, Quiet

\* So it is enough to look at t itself.
LEMMA Compose ==
  ASSUME NEW t \in Threads, Alone(t), OneCall', RefTypeOK', NoFault',
         At(pc[t], t)', NothingLeaks'
  PROVE  IInv'
<1>1. ASSUME NEW u \in Threads, pc'[u] # "idle" \/ Quiet'
      PROVE  At(pc[u], u)'
  <2>1. CASE u = t
    BY <2>1
  <2>2. CASE u # t
    <3>1. pc'[u] = "idle"
      BY <2>2 DEF Alone
    <3>2. pc'[t] = "idle"
      BY <1>1, <3>1 DEF Quiet
    <3>3. QED
      BY <3>1, <3>2 DEF At, InSample
  <2>3. QED
    BY <2>1, <2>2
<1>2. Known'
  BY <1>1 DEF Known
<1>3. QED
  BY <1>2 DEF IInv

LEMMA TakeStep ==
  ASSUME NEW t \in Threads, IInv, Quiet, TakeSample(t)
  PROVE  IInv'
<1>1. Alone(t) /\ OneCall' /\ pc' \in [Threads -> Places] /\ pc[t] = "idle" /\ pc'[t] = "taken"
  BY StepAlone DEF IInv, TakeSample, Places
<1>2. At("idle", t)
  BY <1>1 DEF IInv, Known
<1>3. PICK r \in Refs \cup {None} :
        /\ new' = [new EXCEPT ![t] = r]
        /\ r # None => sub # "cleared" /\ cf[r] = "free" /\ cf' = [cf EXCEPT ![r] = "live"]
        /\ r = None => cf' = cf
  BY RefsAssumption DEF TakeSample
<1>4. RefTypeOK'
  BY <1>1, <1>2, <1>3 DEF IInv, TakeSample, RefTypeOK, At
<1>5. NoFault'
  BY <1>2 DEF IInv, TakeSample, NoFault, At
<1>6. At(pc[t], t)'
  <2>1. prev' = prev /\ sub' = sub /\ prev \in Refs \cup {None}
    BY DEF TakeSample, IInv, RefTypeOK
  <2>2. /\ prev = None \/ cf[prev] = "live"
        /\ sub # "released"
        /\ sub = "cleared" => prev = None
    BY <1>2 DEF At
  <2>3. new'[t] = r
    BY <1>3 DEF IInv, RefTypeOK
  <2>4. r = None \/ (cf'[r] = "live" /\ r # prev)
    BY <1>3, <2>1, <2>2, RefsAssumption DEF IInv, RefTypeOK
  <2>5. prev = None \/ cf'[prev] = "live"
    BY <1>3, <2>1, <2>2, RefsAssumption DEF IInv, RefTypeOK
  <2>6. QED
    BY <1>1, <1>3, <2>1, <2>2, <2>3, <2>4, <2>5 DEF At, InSample
<1>7. NothingLeaks'
  BY <1>1, <1>3, RefsAssumption DEF IInv, TakeSample, RefTypeOK, NothingLeaks, InHand, Quiet
<1>8. QED
  BY <1>1, <1>4, <1>5, <1>6, <1>7, Compose

LEMMA SeedStep ==
  ASSUME NEW t \in Threads, IInv, Seed(t)
  PROVE  IInv'
<1>1. Alone(t) /\ OneCall' /\ pc' \in [Threads -> Places] /\ pc[t] = "taken" /\ pc'[t] = "idle"
  BY StepAlone DEF IInv, Seed, Places
<1>2. At("taken", t)
  BY <1>1 DEF IInv, Known
<1>3. RefTypeOK'
  BY <1>1, <1>2 DEF IInv, Seed, RefTypeOK, At, cf_release, Use
<1>4. NoFault'
  BY <1>2, RefsAssumption DEF IInv, Seed, RefTypeOK, NoFault, At, InSample, cf_release, Use
<1>5. At(pc[t], t)'
  BY <1>1, <1>2, RefsAssumption DEF IInv, Seed, RefTypeOK, At, InSample, cf_release, Use
<1>6. NothingLeaks'
  <2>1. \A r \in Refs : cf[r] = "live" => r = prev \/ r = new[t]
    BY <1>1 DEF IInv, NothingLeaks, InHand, Alone
  <2>2. \A r \in Refs : cf'[r] = "live" => r = prev'
    BY <1>1, <1>2, <2>1, RefsAssumption DEF Seed, At, InSample
  <2>3. QED
    BY <2>2 DEF NothingLeaks
<1>7. QED
  BY <1>1, <1>3, <1>4, <1>5, <1>6, Compose

LEMMA ReadBaselineStep ==
  ASSUME NEW t \in Threads, IInv, ReadBaseline(t)
  PROVE  IInv'
<1>1. Alone(t) /\ OneCall' /\ pc' \in [Threads -> Places] /\ pc[t] = "taken" /\ pc'[t] = "delta"
  BY StepAlone DEF IInv, ReadBaseline, Places
<1>2. At("taken", t)
  BY <1>1 DEF IInv, Known
<1>3. RefTypeOK'
  BY <1>1, <1>2 DEF IInv, ReadBaseline, RefTypeOK, At, cf_release, Use
<1>4. NoFault'
  BY <1>2, RefsAssumption DEF IInv, ReadBaseline, RefTypeOK, NoFault, At, InSample, cf_release, Use
<1>5. At(pc[t], t)'
  BY <1>1, <1>2, RefsAssumption DEF IInv, ReadBaseline, RefTypeOK, At, InSample, cf_release, Use
<1>6. NothingLeaks'
  BY <1>1, <1>2, RefsAssumption DEF IInv, ReadBaseline, RefTypeOK, At, InSample, cf_release, NothingLeaks, InHand, Alone
<1>7. QED
  BY <1>1, <1>3, <1>4, <1>5, <1>6, Compose

LEMMA DeltaStep ==
  ASSUME NEW t \in Threads, IInv, Delta(t)
  PROVE  IInv'
<1>1. Alone(t) /\ OneCall' /\ pc' \in [Threads -> Places] /\ pc[t] = "delta" /\ pc'[t] = "drop"
  BY StepAlone DEF IInv, Delta, Places
<1>2. At("delta", t)
  BY <1>1 DEF IInv, Known
<1>3. RefTypeOK'
  BY <1>1, <1>2 DEF IInv, Delta, RefTypeOK, At, cf_release, Use
<1>4. NoFault'
  BY <1>2, RefsAssumption DEF IInv, Delta, RefTypeOK, NoFault, At, InSample, cf_release, Use
<1>5. At(pc[t], t)'
  BY <1>1, <1>2, RefsAssumption DEF IInv, Delta, RefTypeOK, At, InSample, cf_release, Use
<1>6. NothingLeaks'
  BY <1>1, <1>2, RefsAssumption DEF IInv, Delta, RefTypeOK, At, InSample, cf_release, NothingLeaks, InHand, Alone
<1>7. QED
  BY <1>1, <1>3, <1>4, <1>5, <1>6, Compose

LEMMA ReadOldStep ==
  ASSUME NEW t \in Threads, IInv, ReadOld(t)
  PROVE  IInv'
<1>1. Alone(t) /\ OneCall' /\ pc' \in [Threads -> Places] /\ pc[t] = "drop" /\ pc'[t] = "release"
  BY StepAlone DEF IInv, ReadOld, Places
<1>2. At("drop", t)
  BY <1>1 DEF IInv, Known
<1>3. RefTypeOK'
  BY <1>1, <1>2 DEF IInv, ReadOld, RefTypeOK, At, cf_release, Use
<1>4. NoFault'
  BY <1>2, RefsAssumption DEF IInv, ReadOld, RefTypeOK, NoFault, At, InSample, cf_release, Use
<1>5. At(pc[t], t)'
  BY <1>1, <1>2, RefsAssumption DEF IInv, ReadOld, RefTypeOK, At, InSample, cf_release, Use
<1>6. NothingLeaks'
  BY <1>1, <1>2, RefsAssumption DEF IInv, ReadOld, RefTypeOK, At, InSample, cf_release, NothingLeaks, InHand, Alone
<1>7. QED
  BY <1>1, <1>3, <1>4, <1>5, <1>6, Compose

LEMMA ReleaseOldStep ==
  ASSUME NEW t \in Threads, IInv, ReleaseOld(t)
  PROVE  IInv'
<1>1. Alone(t) /\ OneCall' /\ pc' \in [Threads -> Places] /\ pc[t] = "release" /\ pc'[t] = "store"
  BY StepAlone DEF IInv, ReleaseOld, Places
<1>2. At("release", t)
  BY <1>1 DEF IInv, Known
<1>3. RefTypeOK'
  BY <1>1, <1>2 DEF IInv, ReleaseOld, RefTypeOK, At, cf_release, Use
<1>4. NoFault'
  BY <1>2, RefsAssumption DEF IInv, ReleaseOld, RefTypeOK, NoFault, At, InSample, cf_release, Use
<1>5. At(pc[t], t)'
  BY <1>1, <1>2, RefsAssumption DEF IInv, ReleaseOld, RefTypeOK, At, InSample, cf_release, Use
<1>6. NothingLeaks'
  BY <1>1, <1>2, RefsAssumption DEF IInv, ReleaseOld, RefTypeOK, At, InSample, cf_release, NothingLeaks, InHand, Alone
<1>7. QED
  BY <1>1, <1>3, <1>4, <1>5, <1>6, Compose

LEMMA StoreStep ==
  ASSUME NEW t \in Threads, IInv, Store(t)
  PROVE  IInv'
<1>1. Alone(t) /\ OneCall' /\ pc' \in [Threads -> Places] /\ pc[t] = "store" /\ pc'[t] = "idle"
  BY StepAlone DEF IInv, Store, Places
<1>2. At("store", t)
  BY <1>1 DEF IInv, Known
<1>3. RefTypeOK'
  BY <1>1, <1>2 DEF IInv, Store, RefTypeOK, At, cf_release, Use
<1>4. NoFault'
  BY <1>2, RefsAssumption DEF IInv, Store, RefTypeOK, NoFault, At, InSample, cf_release, Use
<1>5. At(pc[t], t)'
  BY <1>1, <1>2, RefsAssumption DEF IInv, Store, RefTypeOK, At, InSample, cf_release, Use
<1>6. NothingLeaks'
  <2>1. \A r \in Refs : cf[r] = "live" => r = prev \/ r = new[t]
    BY <1>1 DEF IInv, NothingLeaks, InHand, Alone
  <2>2. \A r \in Refs : cf'[r] = "live" => r = prev'
    BY <1>1, <1>2, <2>1, RefsAssumption DEF Store, At, InSample
  <2>3. QED
    BY <2>2 DEF NothingLeaks
<1>7. QED
  BY <1>1, <1>3, <1>4, <1>5, <1>6, Compose

LEMMA CloseReleaseStep ==
  ASSUME NEW t \in Threads, IInv, CloseRelease(t)
  PROVE  IInv'
<1>1. Alone(t) /\ OneCall' /\ pc' \in [Threads -> Places] /\ pc[t] = "closeRelease" /\ pc'[t] = "closeClear"
  BY StepAlone DEF IInv, CloseRelease, Places
<1>2. At("closeRelease", t)
  BY <1>1 DEF IInv, Known
<1>3. RefTypeOK'
  BY <1>1, <1>2 DEF IInv, CloseRelease, RefTypeOK, At, cf_release, Use
<1>4. NoFault'
  BY <1>2, RefsAssumption DEF IInv, CloseRelease, RefTypeOK, NoFault, At, InSample, cf_release, Use
<1>5. At(pc[t], t)'
  BY <1>1, <1>2, RefsAssumption DEF IInv, CloseRelease, RefTypeOK, At, InSample, cf_release, Use
<1>6. NothingLeaks'
  BY <1>1, <1>2, RefsAssumption DEF IInv, CloseRelease, RefTypeOK, At, InSample, cf_release, NothingLeaks, InHand, Alone
<1>7. QED
  BY <1>1, <1>3, <1>4, <1>5, <1>6, Compose

LEMMA CloseClearStep ==
  ASSUME NEW t \in Threads, IInv, CloseClear(t)
  PROVE  IInv'
<1>1. Alone(t) /\ OneCall' /\ pc' \in [Threads -> Places] /\ pc[t] = "closeClear" /\ pc'[t] = "closeSub"
  BY StepAlone DEF IInv, CloseClear, Places
<1>2. At("closeClear", t)
  BY <1>1 DEF IInv, Known
<1>3. RefTypeOK'
  BY <1>1, <1>2 DEF IInv, CloseClear, RefTypeOK, At, cf_release, Use
<1>4. NoFault'
  BY <1>2, RefsAssumption DEF IInv, CloseClear, RefTypeOK, NoFault, At, InSample, cf_release, Use
<1>5. At(pc[t], t)'
  BY <1>1, <1>2, RefsAssumption DEF IInv, CloseClear, RefTypeOK, At, InSample, cf_release, Use
<1>6. NothingLeaks'
  BY <1>1, <1>2, RefsAssumption DEF IInv, CloseClear, RefTypeOK, At, InSample, cf_release, NothingLeaks, InHand, Alone
<1>7. QED
  BY <1>1, <1>3, <1>4, <1>5, <1>6, Compose

LEMMA CloseSubClearStep ==
  ASSUME NEW t \in Threads, IInv, CloseSubClear(t)
  PROVE  IInv'
<1>1. Alone(t) /\ OneCall' /\ pc' \in [Threads -> Places] /\ pc[t] = "closeSubClear" /\ pc'[t] = "idle"
  BY StepAlone DEF IInv, CloseSubClear, Places
<1>2. At("closeSubClear", t)
  BY <1>1 DEF IInv, Known
<1>3. RefTypeOK'
  BY <1>1, <1>2 DEF IInv, CloseSubClear, RefTypeOK, At, cf_release, Use
<1>4. NoFault'
  BY <1>2, RefsAssumption DEF IInv, CloseSubClear, RefTypeOK, NoFault, At, InSample, cf_release, Use
<1>5. At(pc[t], t)'
  BY <1>1, <1>2, RefsAssumption DEF IInv, CloseSubClear, RefTypeOK, At, InSample, cf_release, Use
<1>6. NothingLeaks'
  BY <1>1, <1>2, RefsAssumption DEF IInv, CloseSubClear, RefTypeOK, At, InSample, cf_release, NothingLeaks, InHand, Alone
<1>7. QED
  BY <1>1, <1>3, <1>4, <1>5, <1>6, Compose

LEMMA CloseReadStep ==
  ASSUME NEW t \in Threads, IInv, Quiet, CloseRead(t)
  PROVE  IInv'
<1>1. /\ Alone(t) /\ OneCall' /\ pc' \in [Threads -> Places] /\ pc[t] = "idle"
      /\ pc'[t] = IF prev = None THEN "closeSub" ELSE "closeRelease"
  BY StepAlone DEF IInv, CloseRead, Places
<1>2. At("idle", t)
  BY <1>1 DEF IInv, Known
<1>3. RefTypeOK'
  BY <1>1, <1>2 DEF IInv, CloseRead, RefTypeOK, At
<1>4. NoFault'
  BY <1>2 DEF IInv, CloseRead, NoFault, At
<1>5. At(pc[t], t)'
  BY <1>1, <1>2 DEF IInv, CloseRead, RefTypeOK, At, InSample
<1>6. NothingLeaks'
  BY <1>1, <1>2 DEF IInv, CloseRead, NothingLeaks, InHand, Alone
<1>7. QED
  BY <1>1, <1>3, <1>4, <1>5, <1>6, Compose

LEMMA CloseSubStep ==
  ASSUME NEW t \in Threads, IInv, CloseSub(t)
  PROVE  IInv'
<1>1. /\ Alone(t) /\ OneCall' /\ pc' \in [Threads -> Places] /\ pc[t] = "closeSub"
      /\ pc'[t] = IF sub = "cleared" THEN "idle" ELSE "closeSubClear"
  <2> DEFINE there == IF sub = "cleared" THEN "idle" ELSE "closeSubClear"
  <2>1. Go(t, "closeSub", there) /\ there \in Places
    BY DEF CloseSub, Places
  <2>2. QED
    BY <2>1, StepAlone DEF IInv
<1>2. At("closeSub", t)
  BY <1>1 DEF IInv, Known
<1>3. RefTypeOK'
  BY <1>1, <1>2 DEF IInv, CloseSub, RefTypeOK, At
<1>4. NoFault'
  BY <1>2 DEF IInv, CloseSub, NoFault, At
<1>5. At(pc[t], t)'
  BY <1>1, <1>2 DEF IInv, CloseSub, RefTypeOK, At, InSample
<1>6. NothingLeaks'
  BY <1>1, <1>2 DEF IInv, CloseSub, NothingLeaks, InHand, Alone
<1>7. QED
  BY <1>1, <1>3, <1>4, <1>5, <1>6, Compose

-----------------------------------------------------------------------------

LEMMA InitStep == RefInit => IInv
  BY DEF RefInit, IInv, RefTypeOK, Places, OneCall, Known, At, InSample, NoFault, NothingLeaks

LEMMA SerialStep == IInv /\ [Serial]_refVars => IInv'
<1> SUFFICES ASSUME IInv, [Serial]_refVars PROVE IInv'
  OBVIOUS
<1>1. CASE UNCHANGED refVars
  BY <1>1 DEF refVars, IInv, RefTypeOK, OneCall, Known, Quiet, At, NoFault, NothingLeaks, InHand
<1>2. ASSUME NEW t \in Threads, Quiet, Begin(t) PROVE IInv'
  BY <1>2, TakeStep, CloseReadStep DEF Begin
<1>3. ASSUME NEW t \in Threads, Continue(t) PROVE IInv'
  BY <1>3, SeedStep, ReadBaselineStep, DeltaStep, ReadOldStep, ReleaseOldStep, StoreStep,
     CloseReleaseStep, CloseClearStep, CloseSubStep, CloseSubClearStep DEF Continue
<1>4. QED
  BY <1>1, <1>2, <1>3 DEF Serial

LEMMA Invariance == SerialSpec => []IInv
  BY InitStep, SerialStep, PTL DEF SerialSpec

-----------------------------------------------------------------------------

\* With one call at a time no reference is used after its release or released twice.
THEOREM NoFaultEver == SerialSpec => []NoFault
<1>1. IInv => NoFault
  BY DEF IInv
<1>2. QED
  BY <1>1, Invariance, PTL

\* With one call at a time every sample handed out is the baseline or in hand until
\* it is released.
THEOREM NoLeakEver == SerialSpec => []NothingLeaks
<1>1. IInv => NothingLeaks
  BY DEF IInv
<1>2. QED
  BY <1>1, Invariance, PTL

LEMMA ClosedEmpty ==
  ASSUME IInv, Threads # {}
  PROVE  ClosedHoldsNothing
<1> SUFFICES ASSUME Quiet, sub = "cleared"
             PROVE  prev = None /\ \A r \in Refs : cf[r] = "free"
  BY DEF ClosedHoldsNothing
<1>1. PICK t \in Threads : TRUE
  OBVIOUS
<1>2. prev = None
  BY <1>1 DEF IInv, Known, At
<1>3. \A r \in Refs : cf[r] # "live"
  BY <1>2, RefsAssumption DEF IInv, NothingLeaks, InHand, Quiet
<1>4. QED
  BY <1>2, <1>3 DEF IInv, RefTypeOK

\* With one call at a time a closed sampler holds nothing, provided some thread exists.
THEOREM ClosedEmptyEver ==
  ASSUME Threads # {}
  PROVE  SerialSpec => []ClosedHoldsNothing
<1>1. IInv => ClosedHoldsNothing
  BY ClosedEmpty
<1>2. QED
  BY <1>1, Invariance, PTL

-----------------------------------------------------------------------------
(* Sessions.                                                               *)

SmcTypeOK ==
  /\ connected \in BOOLEAN
  /\ available \in {"unknown", "yes", "no"}
  /\ connections \in Nat
  /\ smcPc \in {"idle", "read", "close"}

\* The reader counts on: it opens a connection only when it has none, it is read while
\* the sampler is open, and closed right after the subscription is.
Reader ==
  /\ \/ connected = TRUE /\ connections = 1
     \/ connected = FALSE /\ connections = 0
  /\ available = "unknown" => connected = FALSE
  /\ smcPc # "idle" => Quiet
  /\ smcPc = "read" => sub # "cleared"
  /\ smcPc = "close" => sub = "cleared"
  /\ sub = "cleared" /\ smcPc # "close" => connected = FALSE

SInv == IInv /\ SmcTypeOK /\ Reader

-----------------------------------------------------------------------------

LEMMA SInvInit == RefInit /\ SmcInit => SInv
<1> SUFFICES ASSUME RefInit, SmcInit PROVE SInv
  OBVIOUS
<1>1. IInv
  BY InitStep
<1>2. SmcTypeOK
  BY DEF SmcInit, SmcTypeOK
<1>3. Reader
  BY DEF RefInit, SmcInit, Reader
<1> QED  BY <1>1, <1>2, <1>3 DEF SInv

\* A store means there was a baseline, which a closed sampler has not.
LEMMA StoreIsOpen ==
  ASSUME NEW t \in Threads, SInv, Store(t)
  PROVE  sub # "cleared" /\ smcPc = "idle" /\ pc' = [pc EXCEPT ![t] = "idle"] /\ Quiet'
<1>1. pc[t] = "store" /\ pc' = [pc EXCEPT ![t] = "idle"]
  BY DEF Store, Go
<1>2. At("store", t)
  BY <1>1 DEF SInv, IInv, Known
<1>3. sub # "cleared"
  BY <1>2 DEF At
<1>4. smcPc = "idle"
  BY <1>1 DEF SInv, Reader, Quiet
<1>5. Quiet'
  BY <1>1 DEF SInv, IInv, OneCall, RefTypeOK, Quiet
<1> QED  BY <1>1, <1>3, <1>4, <1>5

\* Reading opens a connection only when there is none.
LEMMA ReadStep ==
  ASSUME SInv, TakeReadings, UNCHANGED refVars
  PROVE  SInv'
<1>1. IInv'
  BY SerialStep DEF SInv
<1>2. smcPc = "read" /\ smcPc' = "idle" /\ sub # "cleared" /\ sub' = sub
  BY DEF TakeReadings, SInv, Reader, refVars
<1>3. CASE UNCHANGED <<connected, available, keys, connections>>
  BY <1>1, <1>2, <1>3 DEF SInv, SmcTypeOK, Reader
<1>4. CASE available = "unknown" /\ _open_smc /\
           (IF connected' THEN \E found \in SUBSET Sensors : _discover(found)
            ELSE available' = "no" /\ UNCHANGED keys)
  <2>1. connections = 0
    BY <1>4 DEF SInv, Reader
  <2>2. available' \in {"yes", "no"}
    BY <1>4 DEF _discover
  <2>3. \/ connected' = TRUE /\ connections' = 1
        \/ connected' = FALSE /\ connections' = 0
    BY <1>4, <2>1 DEF _open_smc
  <2>4. SmcTypeOK'
    <3>1. connected' \in BOOLEAN
      BY <2>3, Zenon
    <3>2. connections' \in Nat
      BY <2>3
    <3> QED  BY <1>2, <2>2, <3>1, <3>2, Zenon DEF SmcTypeOK
  <2>5. Reader'
    <3>1. available' # "unknown" /\ sub' # "cleared" /\ smcPc' = "idle"
      BY <1>2, <2>2
    <3> QED  BY <2>3, <3>1, Zenon DEF Reader
  <2> QED  BY <1>1, <2>4, <2>5 DEF SInv
<1> QED  BY <1>3, <1>4 DEF TakeReadings, _ensure_open

LEMMA SmcCloseStep ==
  ASSUME SInv, SmcClose, UNCHANGED refVars
  PROVE  SInv'
<1>1. IInv'
  BY SerialStep DEF SInv
<1>2. smcPc' = "idle" /\ connected' = FALSE /\ available' = "unknown" /\ connections' = 0
  BY DEF SmcClose, SInv, SmcTypeOK, Reader
<1> QED  BY <1>1, <1>2 DEF SInv, SmcTypeOK, Reader

\* A step of the references between two uses of the reader.
LEMMA BesideReader ==
  ASSUME SInv, Serial, smcPc = "idle", UNCHANGED smcVars, sub' = "cleared" <=> sub = "cleared"
  PROVE  SInv'
<1>1. IInv'
  BY SerialStep DEF SInv
<1> QED  BY <1>1 DEF SInv, SmcTypeOK, Reader, smcVars

LEMMA SampleStepKeeps ==
  ASSUME NEW t \in Threads, SInv, pc[t] # "idle" \/ Quiet, SampleStep(t)
  PROVE  SInv'
<1>1. CASE smcPc = "idle" /\ TakeSample(t) /\ UNCHANGED smcVars
  <2>1. Quiet
    BY <1>1 DEF TakeSample, Go
  <2>2. Serial /\ sub' = sub
    BY <1>1, <2>1 DEF Serial, Begin, TakeSample
  <2> QED  BY <1>1, <2>2, BesideReader
<1>2. CASE /\ Seed(t) \/ ReadBaseline(t) \/ Delta(t) \/ ReadOld(t) \/ ReleaseOld(t)
           /\ UNCHANGED smcVars
  <2>1. pc[t] # "idle"
    BY <1>2 DEF Seed, ReadBaseline, Delta, ReadOld, ReleaseOld, Go
  <2>2. smcPc = "idle"
    BY <2>1 DEF SInv, Reader, Quiet
  <2>3. Serial /\ sub' = sub
    BY <1>2 DEF Serial, Continue, Seed, ReadBaseline, Delta, ReadOld, ReleaseOld
  <2> QED  BY <1>2, <2>2, <2>3, BesideReader
<1>3. CASE /\ Store(t) /\ smcPc' \in {"idle", "read"}
           /\ UNCHANGED <<connected, available, keys, connections>>
  <2>1. sub # "cleared" /\ sub' = sub /\ Quiet'
    BY <1>3, StoreIsOpen DEF Store
  <2>2. IInv'
    BY <1>3, SerialStep DEF SInv, Serial, Continue
  <2> QED  BY <1>3, <2>1, <2>2 DEF SInv, SmcTypeOK, Reader
<1> QED  BY <1>1, <1>2, <1>3 DEF SampleStep

LEMMA CloseStepKeeps ==
  ASSUME NEW t \in Threads, SInv, CloseStep(t), pc[t] # "idle" \/ Quiet
  PROVE  SInv'
<1>1. CASE smcPc = "idle" /\ CloseRead(t) /\ UNCHANGED smcVars
  <2>1. Quiet
    BY <1>1 DEF CloseRead, Go
  <2>2. Serial /\ sub' = sub
    BY <1>1, <2>1 DEF Serial, Begin, CloseRead
  <2> QED  BY <1>1, <2>2, BesideReader
<1>2. CASE /\ CloseRelease(t) \/ CloseClear(t) \/ (sub # "cleared" /\ CloseSub(t))
           /\ UNCHANGED smcVars
  <2>1. pc[t] # "idle"
    BY <1>2 DEF CloseRelease, CloseClear, CloseSub, Go
  <2>2. smcPc = "idle"
    BY <2>1 DEF SInv, Reader, Quiet
  <2>3. Serial
    BY <1>2 DEF Serial, Continue
  <2>4. sub' = "cleared" <=> sub = "cleared"
    BY <1>2 DEF CloseRelease, CloseClear, CloseSub
  <2> QED  BY <1>2, <2>2, <2>3, <2>4, BesideReader
<1>3. CASE /\ (sub = "cleared" /\ CloseSub(t)) \/ CloseSubClear(t)
           /\ smcPc' = "close"
           /\ UNCHANGED <<connected, available, keys, connections>>
  <2>1. pc[t] # "idle" /\ pc' = [pc EXCEPT ![t] = "idle"] /\ sub' = "cleared"
    BY <1>3 DEF CloseSub, CloseSubClear, Go
  <2>2. Quiet'
    BY <2>1 DEF SInv, IInv, OneCall, RefTypeOK, Quiet
  <2>3. IInv'
    BY <1>3, SerialStep DEF SInv, Serial, Continue
  <2> QED  BY <1>3, <2>1, <2>2, <2>3 DEF SInv, SmcTypeOK, Reader
<1>4. CASE SmcClose /\ UNCHANGED refVars
  BY <1>4, SmcCloseStep
<1> QED  BY <1>1, <1>2, <1>3, <1>4 DEF CloseStep

LEMMA SInvStutter == SInv /\ UNCHANGED <<refVars, smcVars>> => SInv'
<1> SUFFICES ASSUME SInv, UNCHANGED <<refVars, smcVars>> PROVE SInv'
  OBVIOUS
<1>1. IInv'
  BY SerialStep DEF SInv
<1> QED  BY <1>1 DEF SInv, SmcTypeOK, Reader, Quiet, refVars, smcVars

LEMMA SInvGives == SInv => SmcFollowsSampler
  BY DEF SInv, Reader, SmcFollowsSampler, Between

-----------------------------------------------------------------------------

\* However callers on any number of threads order their calls, the reader has a
\* connection exactly when it says so, never two, and none once the sampler is closed.
THEOREM ReaderFollowsCallers == CallerSpec => []SmcFollowsSampler
<1>1. SInv /\ [\E t \in Threads : Call(t)]_<<refVars, smcVars>> => SInv'
  <2> SUFFICES ASSUME SInv, [\E t \in Threads : Call(t)]_<<refVars, smcVars>> PROVE SInv'
    OBVIOUS
  <2>1. ASSUME NEW t \in Threads, Call(t) PROVE SInv'
    BY <2>1, SampleStepKeeps, CloseStepKeeps, ReadStep DEF Call
  <2>2. CASE UNCHANGED <<refVars, smcVars>>
    BY <2>2, SInvStutter
  <2> QED  BY <2>1, <2>2
<1> QED  BY <1>1, SInvInit, SInvGives, PTL DEF CallerSpec

-----------------------------------------------------------------------------
(* The stream.                                                             *)

StreamTypeOK ==
  /\ streamPc \in {"priming", "sampling", "writing", "closing", "ended"}
  /\ limit \in Nat /\ emitted \in Nat /\ produced \in Nat
  /\ outcome \in {"none", "returned", "raised"}

\* Only the thread of the stream is ever in a call.
OnlyMain == \A t \in Threads : t # Main => pc[t] = "idle"

\* The loop holds no snapshot it has not written, and has not written enough.
Looping == produced = emitted /\ outcome = "none" /\ (limit > 0 => emitted < limit)

\* The loop is left, with one snapshot at most unwritten.
Left ==
  /\ produced = emitted \/ produced = emitted + 1
  /\ outcome # "none"
  /\ outcome = "returned" => limit > 0 /\ emitted = limit /\ produced = limit

\* What the place of the stream says of its counts and of the sampler.
Stage ==
  /\ streamPc = "priming" => Looping /\ smcPc = "idle"
  /\ streamPc = "sampling" => Looping
  /\ streamPc = "writing" =>
       /\ Between
       /\ produced = emitted + 1 /\ outcome = "none" /\ (limit > 0 => emitted < limit)
  /\ streamPc = "closing" => Left /\ smcPc # "read"
  /\ streamPc = "ended" => Left /\ Between /\ sub = "cleared"

TInv == SInv /\ StreamTypeOK /\ OnlyMain /\ Stage

LEMMA TInvInit == RefInit /\ SmcInit /\ StreamInit => TInv
<1> SUFFICES ASSUME RefInit, SmcInit, StreamInit PROVE TInv
  OBVIOUS
<1>1. SInv
  BY SInvInit
<1>2. StreamTypeOK
  BY SessionAssumption DEF StreamInit, StreamTypeOK
<1>3. OnlyMain
  BY DEF RefInit, OnlyMain
<1>4. Stage
  BY <1>2 DEF StreamInit, SmcInit, Stage, Looping, StreamTypeOK
<1> QED  BY <1>1, <1>2, <1>3, <1>4 DEF TInv

\* A step of the stream's thread leaves the others idle.
LEMMA MainMoves ==
  ASSUME TInv, NEW here, NEW there, Go(Main, here, there)
  PROVE  OnlyMain' /\ (pc[Main] # "idle" \/ Quiet)
  BY SessionAssumption DEF TInv, SInv, IInv, RefTypeOK, OnlyMain, Go, Quiet

LEMMA MainRests == ASSUME TInv, pc' = pc PROVE OnlyMain'
  BY DEF TInv, OnlyMain

LEMMA SampleMoves ==
  ASSUME TInv, SampleStep(Main)
  PROVE  SInv' /\ OnlyMain'
<1>1. PICK here \in Places, there \in Places : Go(Main, here, there)
  BY DEF SampleStep, TakeSample, Seed, ReadBaseline, Delta, ReadOld, ReleaseOld, Store, Places
<1>2. OnlyMain' /\ (pc[Main] # "idle" \/ Quiet)
  BY <1>1, MainMoves
<1> QED  BY <1>2, SampleStepKeeps, SessionAssumption DEF TInv

LEMMA PrimeStep == ASSUME TInv, PrimeStream PROVE TInv'
<1>1. SampleStep(Main)
  BY DEF TInv, Stage, PrimeStream, SampleStep
<1>2. SInv' /\ OnlyMain'
  BY <1>1, SampleMoves
<1>3. StreamTypeOK'
  BY DEF TInv, StreamTypeOK, PrimeStream
<1>4. Stage'
  BY DEF TInv, Stage, Looping, PrimeStream, smcVars
<1> QED  BY <1>2, <1>3, <1>4 DEF TInv

LEMMA SampleStreamStep == ASSUME TInv, SampleStream PROVE TInv'
<1>1. SInv' /\ OnlyMain'
  BY SampleMoves DEF SampleStream
<1>2. StreamTypeOK'
  BY DEF TInv, StreamTypeOK, SampleStream, streamVars
<1>3. Stage'
  BY DEF TInv, Stage, Looping, SampleStream, streamVars
<1> QED  BY <1>1, <1>2, <1>3 DEF TInv

LEMMA ReadStreamStep == ASSUME TInv, ReadStream PROVE TInv'
<1>1. SInv'
  BY ReadStep DEF TInv, ReadStream
<1>2. OnlyMain'
  BY MainRests DEF ReadStream, refVars
<1>3. StreamTypeOK'
  BY DEF TInv, StreamTypeOK, ReadStream
<1>4. Between'
  BY DEF TInv, SInv, Reader, ReadStream, TakeReadings, Between, Quiet, refVars
<1>5. Stage'
  BY <1>4 DEF TInv, Stage, Looping, ReadStream
<1> QED  BY <1>1, <1>2, <1>3, <1>5 DEF TInv

LEMMA WriteStep == ASSUME TInv, Write PROVE TInv'
<1>1. SInv'
  BY SInvStutter DEF TInv, Write
<1>2. OnlyMain'
  BY MainRests DEF Write, refVars
<1>3. StreamTypeOK'
  BY DEF TInv, StreamTypeOK, Write
<1>4. smcPc' = "idle"
  BY DEF TInv, Stage, Between, Write, smcVars
<1>5. Stage'
  BY <1>4 DEF TInv, StreamTypeOK, Stage, Looping, Left, Write
<1> QED  BY <1>1, <1>2, <1>3, <1>5 DEF TInv

LEMMA BreakStep == ASSUME TInv, Break PROVE TInv'
<1>1. SInv'
  BY SInvStutter DEF TInv, Break
<1>2. OnlyMain'
  BY MainRests DEF Break, refVars
<1>3. StreamTypeOK'
  BY DEF TInv, StreamTypeOK, Break
<1>4. smcPc' = "idle"
  BY DEF TInv, Stage, Between, Break, smcVars
<1>5. Stage'
  BY <1>4 DEF TInv, StreamTypeOK, Stage, Looping, Left, Break
<1> QED  BY <1>1, <1>2, <1>3, <1>5 DEF TInv

LEMMA CloseStreamStep == ASSUME TInv, CloseStream PROVE TInv'
<1>1. CASE smcPc = "close"
  <2>1. SmcClose /\ UNCHANGED refVars
    <3>1. pc[Main] = "idle"
      BY <1>1, SessionAssumption DEF TInv, SInv, Reader, Quiet
    <3> QED  BY <1>1, <3>1 DEF CloseStream, CloseStep, CloseRelease, CloseClear, CloseSub,
                               CloseSubClear, Go
  <2>2. SInv'
    BY <2>1, SmcCloseStep DEF TInv
  <2>3. OnlyMain'
    BY <2>1, MainRests DEF refVars
  <2>4. StreamTypeOK'
    BY DEF TInv, StreamTypeOK, CloseStream
  <2>5. Between' /\ sub' = "cleared"
    BY <1>1, <2>1 DEF TInv, SInv, Reader, SmcClose, Between, Quiet, refVars
  <2>6. Stage'
    BY <1>1, <2>5 DEF TInv, Stage, Left, CloseStream
  <2> QED  BY <2>2, <2>3, <2>4, <2>6 DEF TInv
<1>2. CASE smcPc # "close"
  <2>1. ~SmcClose /\ smcPc' # "read"
    BY <1>2 DEF TInv, Stage, CloseStream, CloseStep, SmcClose, smcVars
  <2>2. PICK here \in Places, there \in Places : Go(Main, here, there)
    <3>1. IF prev = None THEN "closeSub" \in Places ELSE "closeRelease" \in Places
      BY DEF Places
    <3>2. \/ CloseRead(Main) \/ CloseRelease(Main) \/ CloseClear(Main) \/ CloseSub(Main)
          \/ CloseSubClear(Main)
      BY <2>1 DEF CloseStream, CloseStep
    <3> QED  BY <3>2 DEF CloseRead, CloseRelease, CloseClear, CloseSub, CloseSubClear, Places
  <2>3. OnlyMain' /\ (pc[Main] # "idle" \/ Quiet)
    BY <2>2, MainMoves
  <2>4. SInv'
    BY <2>3, CloseStepKeeps, SessionAssumption DEF TInv, CloseStream
  <2>5. StreamTypeOK'
    BY DEF TInv, StreamTypeOK, CloseStream
  <2>6. Stage'
    BY <1>2, <2>1 DEF TInv, Stage, Left, CloseStream
  <2> QED  BY <2>3, <2>4, <2>5, <2>6 DEF TInv
<1> QED  BY <1>1, <1>2

LEMMA StreamStepKeeps ==
  TInv /\ [StreamStep]_<<refVars, smcVars, streamVars>> => TInv'
<1> SUFFICES ASSUME TInv, [StreamStep]_<<refVars, smcVars, streamVars>> PROVE TInv'
  OBVIOUS
<1>1. CASE StreamStep
  BY <1>1, PrimeStep, SampleStreamStep, ReadStreamStep, WriteStep, BreakStep, CloseStreamStep
  DEF StreamStep
<1>2. CASE UNCHANGED <<refVars, smcVars, streamVars>>
  <2>1. SInv'
    BY <1>2, SInvStutter DEF TInv
  <2> QED  BY <1>2, <2>1 DEF TInv, StreamTypeOK, OnlyMain, Stage, Looping, Left, Between, Quiet,
                             refVars, smcVars, streamVars
<1> QED  BY <1>1, <1>2

LEMMA TInvGives == TInv => StreamComplete
<1> SUFFICES ASSUME TInv PROVE StreamComplete
  OBVIOUS
<1>1. produced - emitted \in {0, 1}
  BY DEF TInv, StreamTypeOK, Stage, Looping, Left
<1>2. outcome = "returned" => limit > 0 /\ emitted = limit /\ produced = limit
  BY DEF TInv, StreamTypeOK, Stage, Looping, Left
<1>3. ASSUME streamPc = "ended"
      PROVE  prev = None /\ (\A r \in Refs : cf[r] = "free") /\ connections = 0
  <2>1. Quiet /\ smcPc = "idle" /\ sub = "cleared" /\ IInv
    BY <1>3 DEF TInv, SInv, Stage, Between
  <2>2. ClosedHoldsNothing
    BY <2>1, ClosedEmpty, SessionAssumption
  <2>3. connected = FALSE
    BY <2>1, Zenon DEF TInv, SInv, Reader
  <2>4. connections = 0
    BY <2>3, Zenon DEF TInv, SInv, Reader
  <2> QED  BY <2>1, <2>2, <2>4 DEF ClosedHoldsNothing
<1> QED  BY <1>1, <1>2, <1>3 DEF StreamComplete

\* A stream of any limit, cut short anywhere, writes one record for each snapshot up to
\* the limit and leaves neither a reference nor a connection behind.
THEOREM StreamCompleteEver == StreamSpec => []StreamComplete
  BY TInvInit, StreamStepKeeps, TInvGives, PTL DEF StreamSpec

\* The stream's reader follows its sampler too.
THEOREM ReaderFollowsStream == StreamSpec => []SmcFollowsSampler
<1>1. TInv => SmcFollowsSampler
  BY SInvGives DEF TInv
<1> QED  BY <1>1, TInvInit, StreamStepKeeps, PTL DEF StreamSpec

-----------------------------------------------------------------------------
(* The profiler.                                                           *)

\* Which thread may be in a call of the sampler, by where both are.
Turns ==
  /\ pc \in [Threads -> Places]
  /\ pc[User] # "idle" => userPc \in {"priming", "closing"}
  /\ pc[Worker] # "idle" => workerPc = "sampling"
  /\ userPc \in {"priming", "ready"} => workerPc = "unborn"
  /\ userPc \in {"closing", "stopped"} => workerPc = "ended"

LEMMA InitTurns == Init => Turns
  BY ProfilerThreads DEF Init, RefInit, Turns, Places

\* A step of the sampler moves one thread.
LEMMA Moved ==
  ASSUME NEW t \in Threads, pc \in [Threads -> Places], NEW here, NEW there \in Places,
         Go(t, here, there)
  PROVE  /\ pc' \in [Threads -> Places]
         /\ pc[t] = here /\ pc'[t] = there
         /\ \A u \in Threads : u # t => pc'[u] = pc[u]
  BY DEF Go

\* What a call does to the thread that makes it.
LEMMA Calls ==
  ASSUME NEW t \in Threads, pc \in [Threads -> Places]
  PROVE  /\ TakeSample(t) \/ CloseRead(t) => pc[t] = "idle"
         /\ Begin(t) \/ Continue(t) =>
              /\ pc' \in [Threads -> Places]
              /\ \A u \in Threads : u # t => pc'[u] = pc[u]
         /\ Seed(t) \/ Store(t) \/ CloseSubClear(t) => pc'[t] = "idle"
<1>1. ASSUME TakeSample(t)
      PROVE  /\ pc[t] = "idle" /\ pc' \in [Threads -> Places]
             /\ \A u \in Threads : u # t => pc'[u] = pc[u]
  BY <1>1, Moved DEF TakeSample, Places
<1>2. ASSUME CloseRead(t)
      PROVE  /\ pc[t] = "idle" /\ pc' \in [Threads -> Places]
             /\ \A u \in Threads : u # t => pc'[u] = pc[u]
  <2>1. PICK there \in Places : Go(t, "idle", there)
    BY <1>2 DEF CloseRead, Places
  <2>2. QED
    BY <2>1, Moved
<1>3. ASSUME Continue(t)
      PROVE  /\ pc' \in [Threads -> Places]
             /\ \A u \in Threads : u # t => pc'[u] = pc[u]
  <2>1. PICK here \in Places, there \in Places : Go(t, here, there)
    BY <1>3 DEF Continue, Seed, ReadBaseline, Delta, ReadOld, ReleaseOld, Store,
       CloseRelease, CloseClear, CloseSub, CloseSubClear, Places
  <2>2. QED
    BY <2>1, Moved
<1>4. Seed(t) \/ Store(t) \/ CloseSubClear(t) => pc'[t] = "idle"
  BY DEF Seed, Store, CloseSubClear, Go
<1>5. QED
  BY <1>1, <1>2, <1>3, <1>4 DEF Begin

\* Each step keeps the turns and is a step of the sampler with one call at a time.
LEMMA Step ==
  ASSUME Turns, [Next]_vars
  PROVE  Turns' /\ [Serial]_refVars
<1>1. CASE Prime
  <2>1. User \in Threads /\ Worker \in Threads /\ User # Worker /\ Threads = {User, Worker}
    BY ProfilerThreads
  <2>2. Begin(User) \/ Continue(User)
    BY <1>1 DEF Prime, Begin, Continue
  <2>3. pc[Worker] = "idle" /\ workerPc = "unborn"
    BY <1>1 DEF Prime, Turns
  <2>4. Serial
    <3>1. CASE TakeSample(User)
      BY <2>1, <2>3, <3>1, Calls DEF Turns, Serial, Quiet, Begin
    <3>2. CASE Seed(User)
      BY <2>1, <3>2 DEF Serial, Continue
    <3>3. QED
      BY <1>1, <3>1, <3>2 DEF Prime
  <2>5. Turns'
    BY <1>1, <2>1, <2>2, <2>3, Calls DEF Prime, Turns
  <2>6. QED
    BY <2>4, <2>5
<1>2. CASE CloseMonitor
  <2>1. User \in Threads /\ Worker \in Threads /\ User # Worker /\ Threads = {User, Worker}
    BY ProfilerThreads
  <2>2. Begin(User) \/ Continue(User)
    BY <1>2 DEF CloseMonitor, Begin, Continue
  <2>3. pc[Worker] = "idle" /\ workerPc = "ended"
    BY <1>2 DEF CloseMonitor, Turns
  <2>4. Serial
    <3>1. CASE CloseRead(User)
      BY <2>1, <2>3, <3>1, Calls DEF Turns, Serial, Quiet, Begin
    <3>2. CASE Continue(User)
      BY <2>1, <3>2 DEF Serial
    <3>3. QED
      BY <1>2, <3>1, <3>2 DEF CloseMonitor, Continue
  <2>5. Turns'
    BY <1>2, <2>1, <2>2, <2>3, Calls DEF CloseMonitor, Turns
  <2>6. QED
    BY <2>4, <2>5
<1>3. CASE Sampling \/ Snapshot
  <2>1. User \in Threads /\ Worker \in Threads /\ User # Worker /\ Threads = {User, Worker}
    BY ProfilerThreads
  <2>2. Begin(Worker) \/ Continue(Worker)
    BY <1>3 DEF Sampling, Snapshot, Begin, Continue
  <2>3. pc[User] = "idle" /\ workerPc = "sampling"
    BY <1>3 DEF Sampling, Snapshot, Turns
  <2>4. Serial
    <3>1. CASE TakeSample(Worker)
      BY <2>1, <2>3, <3>1, Calls DEF Turns, Serial, Quiet, Begin
    <3>2. CASE Continue(Worker)
      BY <2>1, <3>2 DEF Serial
    <3>3. QED
      BY <1>3, <3>1, <3>2 DEF Sampling, Snapshot, Continue
  <2>5. Turns'
    <3>1. CASE Sampling
      BY <2>1, <2>2, <2>3, <3>1, Calls DEF Sampling, Turns, profilerVars
    <3>2. CASE Snapshot
      BY <2>1, <2>2, <2>3, <3>2, Calls DEF Snapshot, Turns
    <3>3. QED
      BY <1>3, <3>1, <3>2
  <2>6. QED
    BY <2>4, <2>5
<1>4. CASE \/ start \/ register_alert \/ get_summary \/ stop \/ Join
           \/ CheckStop \/ AppendSample \/ Alert \/ AlertsDone
  <2>1. UNCHANGED refVars
    BY <1>4 DEF start, register_alert, get_summary, stop, Join, CheckStop, AppendSample,
       Alert, AlertsDone
  <2>2. pc' = pc
    BY <2>1 DEF refVars
  <2>3. Turns'
    BY <1>4, <2>2 DEF Turns, start, register_alert, get_summary, stop, Join, CheckStop,
       AppendSample, Alert, AlertsDone
  <2>4. QED
    BY <2>1, <2>3
<1>5. CASE UNCHANGED vars
  BY <1>5 DEF vars, refVars, profilerVars, Turns
<1>6. QED
  BY <1>1, <1>2, <1>3, <1>4, <1>5 DEF Next, WorkerStep

\* stop() joins before it closes, so the calls of the two threads never overlap: the
\* profiler implements SamplerRefs with one call at a time.
THEOREM CallsNeverOverlap == Spec => CallsSerial
<1>1. Init => Turns /\ RefInit
  BY InitTurns DEF Init
<1>2. Turns /\ [Next]_vars => Turns' /\ [Serial]_refVars
  BY Step
<1>3. QED
  BY <1>1, <1>2, PTL DEF Spec, CallsSerial, SerialSpec

\* Once stop() has returned, the samples, the callbacks made and CoreFoundation's
\* references stay as they are.
THEOREM NothingAfterStop == Spec => StoppedIsFinal
<1>1. Turns /\ [Next]_vars => [userPc = "stopped" => UNCHANGED <<samples, fired, cf>>]_vars
  <2> SUFFICES ASSUME Turns, Next, userPc = "stopped"
               PROVE  UNCHANGED <<samples, fired, cf>>
    OBVIOUS
  <2>1. workerPc = "ended"
    BY DEF Turns
  <2>2. get_summary
    BY <2>1 DEF Next, WorkerStep, Prime, start, register_alert, stop, Join, CloseMonitor,
       CheckStop, Sampling, Snapshot, AppendSample, Alert, AlertsDone
  <2>3. QED
    BY <2>2 DEF get_summary, refVars
<1>2. Init => Turns
  BY InitTurns
<1>3. Turns /\ [Next]_vars => Turns'
  BY Step
<1>4. QED
  BY <1>1, <1>2, <1>3, PTL DEF Spec, StoppedIsFinal

\* Hence no reference of a profiler's sampler is misused or leaked, and it holds none
\* once stop() has returned.
THEOREM ProfilerOwnsItsSamples == Spec => [](NoFault /\ NothingLeaks /\ ClosedHoldsNothing)
<1>1. Spec => SerialSpec
  BY CallsNeverOverlap DEF CallsSerial
<1>2. Threads # {}
  BY ProfilerThreads
<1>3. QED
  BY <1>1, <1>2, NoFaultEver, NoLeakEver, ClosedEmptyEver, PTL

-----------------------------------------------------------------------------
(* The profiler's list.                                                    *)

\* The first n snapshots of a session, in order.
CountsTo(q, n) ==
  /\ q \in Seq(Nat) /\ Len(q) = n
  /\ \A i \in 1..n : q[i] = i

\* How many snapshots are on the list, by where the worker is.
Listed ==
  /\ taken \in Nat
  /\ workerPc = "unborn" => taken = 0
  /\ workerPc = "append" => taken > 0
  /\ userPc = "ready" => workerPc = "unborn"
  /\ CountsTo(samples, IF workerPc = "append" THEN taken - 1 ELSE taken)
  /\ \E n \in 0..Len(samples) : CountsTo(summary, n)

\* No snapshots count to zero.
LEMMA EmptyCount == CountsTo(<<>>, 0) /\ Len(<<>>) = 0
  BY EmptySeq DEF CountsTo

\* The next snapshot counts one further.
LEMMA NextCount ==
  ASSUME NEW q, NEW n \in Nat, CountsTo(q, n)
  PROVE  CountsTo(Append(q, n + 1), n + 1)
<1>1. q \in Seq(Nat) /\ Len(q) = n /\ n + 1 \in Nat
  BY DEF CountsTo
<1>2. /\ Append(q, n + 1) \in Seq(Nat) /\ Len(Append(q, n + 1)) = n + 1
      /\ \A i \in 1..n : Append(q, n + 1)[i] = q[i]
      /\ Append(q, n + 1)[n + 1] = n + 1
  BY <1>1, AppendProperties
<1>3. \A i \in 1..(n + 1) : i = n + 1 \/ i \in 1..n
  OBVIOUS
<1>4. QED
  BY <1>2, <1>3 DEF CountsTo

\* A list that counts to n is the list of the first n numbers.
LEMMA CountIs ==
  ASSUME NEW q, NEW n \in Nat, CountsTo(q, n)
  PROVE  Len(q) = n /\ q = [i \in 1..Len(q) |-> i]
<1>1. q \in Seq(Nat) /\ Len(q) = n /\ DOMAIN q = 1..n
  BY LenProperties DEF CountsTo
<1>2. q \in [1..n -> Nat]
  BY <1>1, LenProperties
<1>3. QED
  BY <1>1, <1>2 DEF CountsTo

\* Of two lists that count, the shorter one is a prefix of the longer.
LEMMA CountPrefix ==
  ASSUME NEW q, NEW n \in Nat, CountsTo(q, n), NEW p, NEW k \in 0..n, CountsTo(p, k)
  PROVE  IsPrefix(p, q)
<1>1. /\ q \in Seq(Nat) /\ Len(q) = n /\ p \in Seq(Nat) /\ Len(p) = k /\ k <= n
      /\ \A i \in 1..k : p[i] = i /\ q[i] = i
  BY DEF CountsTo
<1>2. /\ SubSeq(p, 1, k) \in Seq(Nat) /\ Len(SubSeq(p, 1, k)) = k
      /\ \A i \in 1..k : SubSeq(p, 1, k)[i] = i
  BY <1>1
<1>3. /\ SubSeq(q, 1, k) \in Seq(Nat) /\ Len(SubSeq(q, 1, k)) = k
      /\ \A i \in 1..k : SubSeq(q, 1, k)[i] = i
  BY <1>1
<1>4. SubSeq(p, 1, k) = SubSeq(q, 1, k)
  <2> DEFINE s == SubSeq(p, 1, k)
             t == SubSeq(q, 1, k)
  <2> HIDE DEF s, t
  <2>1. s \in Seq(Nat) /\ t \in Seq(Nat) /\ Len(s) = Len(t) /\ \A i \in 1..Len(s) : s[i] = t[i]
    BY <1>2, <1>3 DEF s, t
  <2>2. s = t
    BY <2>1, SeqEqual
  <2>3. QED
    BY <2>2 DEF s, t
<1>5. QED
  BY <1>1, <1>4 DEF IsPrefix

\* Every step of the user and of the worker keeps the list counting.
LEMMA ListStep ==
  ASSUME Turns, Listed, [Next]_vars
  PROVE  Listed'
<1>1. CASE start
  <2>1. /\ samples' = <<>> /\ taken' = taken /\ taken = 0 /\ workerPc' = "check"
        /\ userPc' = "working" /\ summary' = summary /\ Len(samples) = 0
    BY <1>1 DEF start, Listed, CountsTo
  <2>2. CountsTo(summary, 0)
    BY <2>1 DEF Listed
  <2>3. QED
    BY <2>1, <2>2, EmptyCount DEF Listed
<1>2. CASE get_summary
  <2>1. /\ samples' = samples /\ summary' = samples /\ taken' = taken
        /\ userPc' = userPc /\ workerPc' = workerPc
    BY <1>2 DEF get_summary
  <2>2. Len(samples) \in Nat /\ CountsTo(samples, Len(samples))
    BY DEF Listed, CountsTo
  <2>3. QED
    BY <2>1, <2>2 DEF Listed
<1>3. CASE Snapshot
  <2>1. /\ samples' = samples /\ summary' = summary /\ taken' = taken + 1
        /\ userPc' = userPc /\ workerPc = "sampling" /\ workerPc' = "append"
    BY <1>3 DEF Snapshot
  <2>2. userPc # "ready" /\ taken \in Nat
    BY <2>1 DEF Listed
  <2>3. CountsTo(samples, taken) /\ taken + 1 - 1 = taken /\ taken + 1 \in Nat /\ taken + 1 > 0
    BY <2>1 DEF Listed
  <2>4. QED
    BY <2>1, <2>2, <2>3 DEF Listed
<1>4. CASE AppendSample
  <2>1. /\ samples' = Append(samples, taken) /\ summary' = summary /\ taken' = taken
        /\ userPc' = userPc /\ workerPc = "append" /\ workerPc' = "alerts"
    BY <1>4 DEF AppendSample
  <2>2. PICK n \in Nat : taken = n + 1
    <3>1. taken \in Nat /\ taken > 0
      BY <2>1 DEF Listed
    <3>2. taken - 1 \in Nat /\ taken = (taken - 1) + 1
      BY <3>1
    <3>3. QED
      BY <3>2
  <2>3. CountsTo(samples, n) /\ userPc # "ready"
    <3>1. taken - 1 = n
      BY <2>2
    <3>2. QED
      BY <2>1, <3>1 DEF Listed
  <2>4. CountsTo(samples', taken)
    BY <2>1, <2>2, <2>3, NextCount
  <2>5. \E k \in 0..Len(samples') : CountsTo(summary, k)
    <3>1. Len(samples') = n + 1 /\ Len(samples) = n
      BY <2>2, <2>3, <2>4 DEF CountsTo
    <3>2. QED
      BY <3>1 DEF Listed
  <2>6. QED
    BY <2>1, <2>2, <2>3, <2>4, <2>5 DEF Listed
<1>5. CASE Prime \/ register_alert \/ stop \/ Join \/ CloseMonitor
  <2>1. /\ samples' = samples /\ summary' = summary /\ taken' = taken /\ workerPc' = workerPc
        /\ userPc' = "ready" => workerPc = "unborn"
    BY <1>5 DEF Prime, register_alert, stop, Join, CloseMonitor, Turns
  <2>2. QED
    BY <2>1 DEF Listed
<1>6. CASE CheckStop \/ Alert \/ AlertsDone \/ Sampling
  <2>1. /\ samples' = samples /\ summary' = summary /\ taken' = taken /\ userPc' = userPc
        /\ workerPc # "append" /\ workerPc' # "append" /\ workerPc # "unborn" /\ workerPc' # "unborn"
    BY <1>6 DEF CheckStop, Alert, AlertsDone, Sampling, profilerVars
  <2>2. QED
    BY <2>1 DEF Listed
<1>7. CASE UNCHANGED vars
  <2>1. /\ samples' = samples /\ summary' = summary /\ taken' = taken /\ userPc' = userPc
        /\ workerPc' = workerPc
    BY <1>7 DEF vars, profilerVars
  <2>2. QED
    BY <2>1 DEF Listed
<1>8. QED
  BY <1>1, <1>2, <1>3, <1>4, <1>5, <1>6, <1>7 DEF Next, WorkerStep

\* A list that counts is complete.
LEMMA ListedGives == Listed => SamplesComplete
<1> SUFFICES ASSUME Listed PROVE SamplesComplete
  OBVIOUS
<1>1. PICK n \in Nat : /\ n = taken - (IF workerPc = "append" THEN 1 ELSE 0)
                       /\ CountsTo(samples, n)
  <2>1. CASE workerPc = "append"
    <3>1. taken - 1 \in Nat
      BY <2>1 DEF Listed
    <3>2. QED
      BY <2>1, <3>1 DEF Listed
  <2>2. CASE workerPc # "append"
    <3>1. taken - 0 = taken
      BY DEF Listed
    <3>2. QED
      BY <2>2, <3>1 DEF Listed
  <2>3. QED
    BY <2>1, <2>2
<1>2. Len(samples) = n /\ samples = [i \in 1..Len(samples) |-> i]
  BY <1>1, CountIs
<1>3. PICK k \in 0..n : CountsTo(summary, k)
  BY <1>2 DEF Listed
<1>4. IsPrefix(summary, samples)
  BY <1>1, <1>3, CountPrefix
<1>5. QED
  BY <1>1, <1>2, <1>4 DEF SamplesComplete

\* The list a profiler collects holds every snapshot of its session once and in order, and a
\* summary is made of a prefix of it (_run_loop and get_summary, api.py:279-304).
THEOREM SamplesCompleteEver == Spec => []SamplesComplete
<1>1. Init => Turns /\ Listed
  <2> SUFFICES ASSUME Init PROVE Listed
    BY InitTurns
  <2>1. /\ userPc = "priming" /\ workerPc = "unborn" /\ samples = <<>> /\ summary = <<>>
        /\ taken = 0
    BY DEF Init
  <2>2. QED
    BY <2>1, EmptyCount DEF Listed
<1>2. Turns /\ Listed /\ [Next]_vars => Turns' /\ Listed'
  BY Step, ListStep
<1>3. QED
  BY <1>1, <1>2, ListedGives, PTL DEF Spec
=============================================================================
