------------------------------ MODULE Profiler ------------------------------
(***************************************************************************)
(* Profiler (src/actop/api.py) used as a context manager: a background     *)
(* thread collects snapshots and calls back on alerts while the user's     *)
(* thread works, reads summaries, registers alerts and finally stops it.   *)
(* The sampler both threads call is SamplerRefs.                           *)
(*                                                                         *)
(* A snapshot is its number, the how-manieth of the session.  A callback   *)
(* may raise, which the loop swallows, or call stop() itself, where the    *)
(* join of the current thread raises and is swallowed just so.             *)
(***************************************************************************)
EXTENDS SamplerRefs, Sequences, SequencesExt

CONSTANTS
  User, Worker,     \* the two threads
  MaxSnapshots,     \* bound: snapshots taken before the stop event is set
  MaxAlerts         \* bound: alerts registered

ASSUME ProfilerThreads == User # Worker /\ Threads = {User, Worker}
ASSUME ProfilerBounds == MaxSnapshots \in Nat /\ MaxAlerts \in Nat

VARIABLES
  userPc,           \* "priming", "ready", "working", "joining", "closing", "stopped"
  workerPc,         \* "unborn", "check", "sampling", "append", "alerts", "ended"
  stopEvent,        \* self._stop_event
  samples,          \* self._samples
  alerts,           \* self._alerts: how many are registered
  index,            \* the position of the loop over self._alerts
  taken,            \* ghost: snapshots the monitor has returned
  fired,            \* ghost: <<snapshot, alert>> of every callback made
  summary           \* the samples the last get_summary was computed from

profilerVars == <<userPc, workerPc, stopEvent, samples, alerts, index, taken, fired, summary>>
vars == <<refVars, profilerVars>>

Init ==
  /\ RefInit
  /\ userPc = "priming" /\ workerPc = "unborn"
  /\ stopEvent = FALSE
  /\ samples = <<>> /\ summary = <<>>
  /\ alerts = 0 /\ index = 1
  /\ taken = 0 /\ fired = {}

-----------------------------------------------------------------------------
(* The user's thread.                                                      *)

\* Monitor.__init__ takes a first sample.
Prime ==
  /\ userPc = "priming"
  /\ \/ TakeSample(User) /\ UNCHANGED userPc
     \/ Seed(User) /\ userPc' = "ready"
  /\ UNCHANGED <<workerPc, stopEvent, samples, alerts, index, taken, fired, summary>>

start ==
  /\ userPc = "ready"
  /\ samples' = <<>>
  /\ stopEvent' = FALSE
  /\ userPc' = "working" /\ workerPc' = "check"
  /\ UNCHANGED <<refVars, alerts, index, taken, fired, summary>>

\* At any time, also while the loop runs over the list.
register_alert ==
  /\ userPc \in {"ready", "working"} /\ alerts < MaxAlerts
  /\ alerts' = alerts + 1
  /\ UNCHANGED <<refVars, userPc, workerPc, stopEvent, samples, index, taken, fired, summary>>

get_summary ==
  /\ userPc \in {"ready", "working", "stopped"}
  /\ summary' = samples
  /\ UNCHANGED <<refVars, userPc, workerPc, stopEvent, samples, alerts, index, taken, fired>>

stop ==
  /\ userPc = "working"
  /\ stopEvent' = TRUE
  /\ userPc' = "joining"
  /\ UNCHANGED <<refVars, workerPc, samples, alerts, index, taken, fired, summary>>

\* Mutant: close() does not wait for the thread.
JoinNot ==
  /\ userPc = "joining"
  /\ userPc' = "closing"
  /\ UNCHANGED <<refVars, workerPc, stopEvent, samples, alerts, index, taken, fired, summary>>

Join ==
  /\ userPc = "joining" /\ workerPc = "ended"
  /\ userPc' = "closing"
  /\ UNCHANGED <<refVars, workerPc, stopEvent, samples, alerts, index, taken, fired, summary>>

CloseMonitor ==
  /\ userPc = "closing"
  /\ \/ /\ CloseRead(User) \/ CloseRelease(User) \/ CloseClear(User) \/ CloseSub(User)
        /\ UNCHANGED userPc
     \/ CloseSubClear(User) /\ userPc' = "stopped"
  /\ UNCHANGED <<workerPc, stopEvent, samples, alerts, index, taken, fired, summary>>

-----------------------------------------------------------------------------
(* _run_loop.                                                              *)

\* Mutant: the stop event is looked at only once.
CheckStopOnce ==
  /\ workerPc = "check"
  /\ workerPc' = IF stopEvent /\ taken = 0 THEN "ended" ELSE "sampling"
  /\ UNCHANGED <<refVars, userPc, stopEvent, samples, alerts, index, taken, fired, summary>>

CheckStop ==
  /\ workerPc = "check"
  /\ workerPc' = IF stopEvent THEN "ended" ELSE "sampling"
  /\ UNCHANGED <<refVars, userPc, stopEvent, samples, alerts, index, taken, fired, summary>>

\* get_snapshot() samples again as long as the sample is None.
Sampling ==
  /\ workerPc = "sampling"
  /\ \/ TakeSample(Worker) \/ Seed(Worker) \/ ReadBaseline(Worker) \/ Delta(Worker)
     \/ ReadOld(Worker) \/ ReleaseOld(Worker) \/ Store(Worker)
  /\ UNCHANGED profilerVars

Snapshot ==
  /\ workerPc = "sampling"
  /\ taken < MaxSnapshots + (IF stopEvent THEN 1 ELSE 0)
  /\ Store(Worker)
  /\ workerPc' = "append"
  /\ taken' = taken + 1
  /\ UNCHANGED <<userPc, stopEvent, samples, alerts, index, fired, summary>>

\* Mutant: a snapshot that comes after the stop is thrown away.
AppendUnlessStopped ==
  /\ workerPc = "append"
  /\ samples' = IF stopEvent THEN samples ELSE Append(samples, taken)
  /\ workerPc' = "alerts"
  /\ index' = 1
  /\ UNCHANGED <<refVars, userPc, stopEvent, alerts, taken, fired, summary>>

AppendSample ==
  /\ workerPc = "append"
  /\ samples' = Append(samples, taken)
  /\ workerPc' = "alerts"
  /\ index' = 1
  /\ UNCHANGED <<refVars, userPc, stopEvent, alerts, taken, fired, summary>>

\* The next alert: below its threshold, or its callback is called, which may return,
\* raise, or set the stop event through stop().
Alert ==
  /\ workerPc = "alerts" /\ index <= alerts
  /\ \/ UNCHANGED <<fired, stopEvent>>
     \/ fired' = fired \cup {<<taken, index>>} /\ stopEvent' \in {stopEvent, TRUE}
  /\ index' = index + 1
  /\ UNCHANGED <<refVars, userPc, workerPc, samples, alerts, taken, summary>>

AlertsDone ==
  /\ workerPc = "alerts" /\ index > alerts
  /\ workerPc' = "check"
  /\ UNCHANGED <<refVars, userPc, stopEvent, samples, alerts, index, taken, fired, summary>>

-----------------------------------------------------------------------------

WorkerStep == CheckStop \/ Sampling \/ Snapshot \/ AppendSample \/ Alert \/ AlertsDone

Next ==
  \/ Prime \/ start \/ register_alert \/ get_summary \/ stop \/ Join \/ CloseMonitor
  \/ WorkerStep

Spec == Init /\ [][Next]_vars

\* Both threads run when they can, and a sample that keeps being tried is not NULL and
\* not of zero length for ever.  The user is free never to stop.
Fairness ==
  /\ WF_vars(Join) /\ WF_vars(CloseMonitor)
  /\ WF_vars(WorkerStep)
  /\ SF_vars(Sampling /\ new'[Worker] # None /\ pc'[Worker] = "taken")
  /\ SF_vars(Snapshot)

FairSpec == Spec /\ Fairness

-----------------------------------------------------------------------------
(* What must hold.                                                         *)

\* stop() joins before it closes (lines 273-277), so the two threads never call the
\* sampler at the same time, and the ownership of its references is that of
\* SamplerRefs with one call at a time.
CallsSerial == SerialSpec

\* The list holds every snapshot in order, and a summary is made from a prefix of it:
\* the list is copied under the lock, never while a snapshot is half added.
SamplesComplete ==
  /\ samples = [i \in 1..Len(samples) |-> i]
  /\ Len(samples) = taken - (IF workerPc = "append" THEN 1 ELSE 0)
  /\ IsPrefix(summary, samples)

\* Once stop() has returned nothing is collected and no callback is made, and the
\* sampler holds no reference.
StoppedIsFinal ==
  [][userPc = "stopped" => UNCHANGED <<samples, fired, cf>>]_vars

\* stop() returns, however many snapshots were taken before it.
StopReturns == userPc = "joining" ~> userPc = "stopped"
=============================================================================
