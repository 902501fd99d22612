------------------------------ MODULE Session -------------------------------
(***************************************************************************)
(* A Monitor (src/actop/api.py) and the two things its sampler owns, the   *)
(* IOReport references of SamplerRefs and the connection of SmcReader,     *)
(* with two clients that call it one call at a time:                       *)
(*   - a caller, on any thread, who samples and closes in any order, after *)
(*     a close too, and closes more than once;                             *)
(*   - run_json_stream (src/actop/export.py), which writes a record for    *)
(*     each snapshot until it has written enough, a write fails or the     *)
(*     user interrupts it.                                                 *)
(* The interrupt comes where the stream waits or writes.                   *)
(***************************************************************************)
EXTENDS SamplerRefs, SmcReader

CONSTANTS
  Main,             \* the thread of the stream
  MaxRecords        \* bound: snapshots of an endless stream, and the largest limit

ASSUME SessionAssumption == Main \in Threads /\ MaxRecords \in Nat

VARIABLES
  streamPc,         \* "priming", "sampling", "writing", "closing", "ended"
  limit,            \* max_samples; 0 for an endless stream
  emitted,          \* the records counted
  produced,         \* ghost: snapshots the monitor has returned to the stream
  outcome           \* "none", then "returned" or "raised"

streamVars == <<streamPc, limit, emitted, produced, outcome>>

StreamInit ==
  /\ streamPc = "priming" /\ limit \in 0..MaxRecords
  /\ emitted = 0 /\ produced = 0 /\ outcome = "none"

-----------------------------------------------------------------------------
(* The sampler's two calls, up to the point where the SMC is used.         *)

\* sample(), by its _sample_once calls.  After a store comes the end of the call or the
\* next sub-sample, when no time has passed, or the reader: for fan_available, which
\* _convert asks in every sub-sample, and for the temperatures and fans of the call.
SampleStep(t) ==
  \/ /\ \/ smcPc = "idle" /\ TakeSample(t)
        \/ Seed(t) \/ ReadBaseline(t) \/ Delta(t) \/ ReadOld(t) \/ ReleaseOld(t)
     /\ UNCHANGED smcVars
  \/ /\ Store(t)
     /\ smcPc' \in {"idle", "read"}
     /\ UNCHANGED <<connected, available, keys, connections>>

\* close(): the baseline, the subscription, then the reader.
CloseStep(t) ==
  \/ /\ \/ smcPc = "idle" /\ CloseRead(t)
        \/ CloseRelease(t) \/ CloseClear(t)
        \/ sub # "cleared" /\ CloseSub(t)
     /\ UNCHANGED smcVars
  \/ /\ \/ sub = "cleared" /\ CloseSub(t)
        \/ CloseSubClear(t)
     /\ smcPc' = "close"
     /\ UNCHANGED <<connected, available, keys, connections>>
  \/ SmcClose /\ UNCHANGED refVars

\* Between calls on the monitor.
Between == Quiet /\ smcPc = "idle"

-----------------------------------------------------------------------------
(* A caller who starts any call when the last one has returned.            *)

Call(t) ==
  /\ pc[t] # "idle" \/ Quiet
  /\ \/ SampleStep(t)
     \/ TakeReadings /\ UNCHANGED refVars
     \/ CloseStep(t)

CallerSpec ==
  RefInit /\ SmcInit /\ [][\E t \in Threads : Call(t)]_<<refVars, smcVars>>

-----------------------------------------------------------------------------
(* run_json_stream.                                                        *)

\* Monitor.__init__ takes the first sample.
PrimeStream ==
  /\ streamPc = "priming"
  /\ \/ TakeSample(Main) /\ UNCHANGED streamPc
     \/ Seed(Main) /\ streamPc' = "sampling"
  /\ UNCHANGED <<smcVars, limit, emitted, produced, outcome>>

\* get_snapshot() waits, samples, and samples again while there is nothing to return.
SampleStream ==
  /\ streamPc = "sampling" /\ produced < MaxRecords
  /\ SampleStep(Main)
  /\ UNCHANGED streamVars

\* The last readings of a call bring the snapshot, those of a sub-sample before it do not.
ReadStream ==
  /\ streamPc = "sampling"
  /\ TakeReadings
  /\ \/ streamPc' = "writing" /\ produced' = produced + 1
     \/ UNCHANGED <<streamPc, produced>>
  /\ UNCHANGED <<refVars, limit, emitted, outcome>>

\* Mutant: one record too many.
WritePast ==
  /\ streamPc = "writing"
  /\ emitted' = emitted + 1
  /\ \/ /\ limit > 0 /\ emitted' > limit
        /\ streamPc' = "closing" /\ outcome' = "returned"
     \/ /\ limit = 0 \/ emitted' <= limit
        /\ streamPc' = "sampling" /\ UNCHANGED outcome
  /\ UNCHANGED <<refVars, smcVars, limit, produced>>

Write ==
  /\ streamPc = "writing"
  /\ emitted' = emitted + 1
  /\ \/ /\ limit > 0 /\ emitted' >= limit
        /\ streamPc' = "closing" /\ outcome' = "returned"
     \/ /\ limit = 0 \/ emitted' < limit
        /\ streamPc' = "sampling" /\ UNCHANGED outcome
  /\ UNCHANGED <<refVars, smcVars, limit, produced>>

\* Mutant: only the end of the loop closes the monitor.
BreakWithoutFinally ==
  /\ streamPc = "writing" \/ (streamPc = "sampling" /\ Between)
  /\ streamPc' = "ended" /\ outcome' = "raised"
  /\ UNCHANGED <<refVars, smcVars, limit, emitted, produced>>

\* The reader of the pipe is gone, or the user interrupts a wait or a write.
Break ==
  /\ streamPc = "writing" \/ (streamPc = "sampling" /\ Between)
  /\ streamPc' = "closing" /\ outcome' = "raised"
  /\ UNCHANGED <<refVars, smcVars, limit, emitted, produced>>

\* finally: monitor.close()
CloseStream ==
  /\ streamPc = "closing"
  /\ CloseStep(Main)
  /\ streamPc' = IF smcPc = "close" THEN "ended" ELSE "closing"
  /\ UNCHANGED <<limit, emitted, produced, outcome>>

StreamStep == PrimeStream \/ SampleStream \/ ReadStream \/ Write \/ Break \/ CloseStream

StreamSpec ==
  /\ RefInit /\ SmcInit /\ StreamInit
  /\ [][StreamStep]_<<refVars, smcVars, streamVars>>

-----------------------------------------------------------------------------
(* What must hold.                                                         *)

\* A stream that returns has written as many records as it was asked for, one for each
\* snapshot and no snapshot taken in vain; one that is cut short loses at most the
\* record it was writing.  However it ends, the sampler and the reader hold nothing
\* (export.py:234-253).
StreamComplete ==
  /\ produced - emitted \in {0, 1}
  /\ outcome = "returned" => limit > 0 /\ emitted = limit /\ produced = limit
  /\ streamPc = "ended" =>
       prev = None /\ (\A r \in Refs : cf[r] = "free") /\ connections = 0

\* The reader never has a second connection, on a machine with sensors or without,
\* and a sampler that was closed has none, whatever was called after the close: the
\* reader would open it again on the next reading (smc.py:364-381 and 443-453).
SmcFollowsSampler ==
  /\ connections = IF connected THEN 1 ELSE 0
  /\ Between /\ sub = "cleared" => connections = 0
=============================================================================
