---------------------------- MODULE SamplerRefs ----------------------------
(***************************************************************************)
(* Who owns the CoreFoundation references of an IOReportSampler            *)
(* (src/actop/sampler.py) when several threads call sample() and close():  *)
(* the sample kept as the baseline, the sample in a caller's hand, and the *)
(* subscription.  What the samples hold is module Sampler.                 *)
(*                                                                         *)
(* The C libraries are loaded with ctypes.cdll, which lets other threads   *)
(* run during a call, and so does the entry of a Python function.  A step  *)
(* here is what happens between two such points, so an attribute that is   *)
(* read as an argument may have changed when the function uses it.         *)
(*                                                                         *)
(* The subscription and its channels are released one after the other and  *)
(* used together; "sub" stands for both.                                   *)
(***************************************************************************)
EXTENDS Naturals, FiniteSets

CONSTANTS
  Threads,      \* the threads that may call the sampler
  Refs,         \* the references IOReport may hand out; a released one may come again
  None          \* Python's None and C's NULL

ASSUME RefsAssumption == None \notin Refs

VARIABLES
  prev,         \* self._prev_sample
  sub,          \* "live", "released" (the C call is done) or "cleared" (attribute is None)
  cf,           \* what CoreFoundation knows of each reference: "free" or "live"
  pc,           \* where each thread is
  new,          \* new_sample of its _sample_once, None outside it
  arg,          \* the reference it read as an argument and has yet to use, or None
  faults        \* ghost: what CoreFoundation was ever asked wrongly

refVars == <<prev, sub, cf, pc, new, arg, faults>>

RefInit ==
  /\ prev = None
  /\ sub = "live"
  /\ cf = [r \in Refs |-> "free"]
  /\ pc = [t \in Threads |-> "idle"]
  /\ new = [t \in Threads |-> None]
  /\ arg = [t \in Threads |-> None]
  /\ faults = {}

-----------------------------------------------------------------------------

Go(t, here, there) == pc[t] = here /\ pc' = [pc EXCEPT ![t] = there]

\* Using a set of references: a fault if one of them has been released.
Use(rs) == faults' = IF \E r \in rs \ {None} : cf[r] # "live"
                     THEN faults \cup {"used after release"} ELSE faults

\* cf_release(r): nothing to do for None.
cf_release(r) ==
  /\ cf' = IF r = None THEN cf ELSE [cf EXCEPT ![r] = "free"]
  /\ faults' = IF r # None /\ cf[r] = "free"
               THEN faults \cup {"released twice"} ELSE faults

\* new_sample = self._sub.sample(): a new reference, or NULL, which is what a
\* subscription that has been closed gives.
TakeSample(t) ==
  /\ Go(t, "idle", "taken")
  /\ \/ /\ sub # "cleared"
        /\ \E r \in Refs :
             /\ cf[r] = "free"
             /\ cf' = [cf EXCEPT ![r] = "live"]
             /\ new' = [new EXCEPT ![t] = r]
     \/ /\ new' = [new EXCEPT ![t] = None]
        /\ UNCHANGED cf
  /\ faults' = IF sub = "released" THEN faults \cup {"used after release"} ELSE faults
  /\ UNCHANGED <<prev, sub, arg>>

\* No baseline: this sample becomes it.
Seed(t) ==
  /\ Go(t, "taken", "idle")
  /\ prev = None
  /\ prev' = new[t]
  /\ new' = [new EXCEPT ![t] = None]
  /\ UNCHANGED <<sub, cf, arg, faults>>

\* A baseline: it is read as the first argument of delta().
ReadBaseline(t) ==
  /\ Go(t, "taken", "delta")
  /\ prev # None
  /\ arg' = [arg EXCEPT ![t] = prev]
  /\ UNCHANGED <<prev, sub, cf, new, faults>>

Delta(t) ==
  /\ Go(t, "delta", "drop")
  /\ Use({arg[t], new[t]})
  /\ arg' = [arg EXCEPT ![t] = None]
  /\ UNCHANGED <<prev, sub, cf, new>>

\* cf_release(self._prev_sample), the attribute read again.
ReadOld(t) ==
  /\ Go(t, "drop", "release")
  /\ arg' = [arg EXCEPT ![t] = prev]
  /\ UNCHANGED <<prev, sub, cf, new, faults>>

ReleaseOld(t) ==
  /\ Go(t, "release", "store")
  /\ cf_release(arg[t])
  /\ arg' = [arg EXCEPT ![t] = None]
  /\ UNCHANGED <<prev, sub, new>>

\* Mutant: the released sample is not replaced.
StoreNothing(t) ==
  /\ Go(t, "store", "idle")
  /\ new' = [new EXCEPT ![t] = None]
  /\ UNCHANGED <<prev, sub, cf, arg, faults>>

Store(t) ==
  /\ Go(t, "store", "idle")
  /\ prev' = new[t]
  /\ new' = [new EXCEPT ![t] = None]
  /\ UNCHANGED <<sub, cf, arg, faults>>

\* close(): the baseline, when there is one, then the subscription.
CloseRead(t) ==
  /\ Go(t, "idle", IF prev = None THEN "closeSub" ELSE "closeRelease")
  /\ arg' = [arg EXCEPT ![t] = prev]
  /\ UNCHANGED <<prev, sub, cf, new, faults>>

CloseRelease(t) ==
  /\ Go(t, "closeRelease", "closeClear")
  /\ cf_release(arg[t])
  /\ arg' = [arg EXCEPT ![t] = None]
  /\ UNCHANGED <<prev, sub, new>>

\* Mutant: the baseline is released and kept.
CloseKeeps(t) ==
  /\ Go(t, "closeClear", "closeSub")
  /\ UNCHANGED <<prev, sub, cf, new, arg, faults>>

CloseClear(t) ==
  /\ Go(t, "closeClear", "closeSub")
  /\ prev' = None
  /\ UNCHANGED <<sub, cf, new, arg, faults>>

\* self._sub.close(): the release, then the attribute.
CloseSub(t) ==
  /\ Go(t, "closeSub", IF sub = "cleared" THEN "idle" ELSE "closeSubClear")
  /\ sub' = IF sub = "cleared" THEN sub ELSE "released"
  /\ faults' = IF sub = "released" THEN faults \cup {"released twice"} ELSE faults
  /\ UNCHANGED <<prev, cf, new, arg>>

CloseSubClear(t) ==
  /\ Go(t, "closeSubClear", "idle")
  /\ sub' = "cleared"
  /\ UNCHANGED <<prev, cf, new, arg, faults>>

-----------------------------------------------------------------------------

Begin(t) == TakeSample(t) \/ CloseRead(t)

Continue(t) ==
  \/ Seed(t) \/ ReadBaseline(t) \/ Delta(t) \/ ReadOld(t) \/ ReleaseOld(t) \/ Store(t)
  \/ CloseRelease(t) \/ CloseClear(t) \/ CloseSub(t) \/ CloseSubClear(t)

\* One call at a time, whichever thread makes it.
Quiet == \A t \in Threads : pc[t] = "idle"
Serial == \E t \in Threads : (Quiet /\ Begin(t)) \/ Continue(t)
SerialSpec == RefInit /\ [][Serial]_refVars

-----------------------------------------------------------------------------
(* What must hold when one call is made at a time.                         *)

Places == {"idle", "taken", "delta", "drop", "release", "store",
           "closeRelease", "closeClear", "closeSub", "closeSubClear"}

\* Every variable keeps its type.
RefTypeOK ==
  /\ prev \in Refs \cup {None}
  /\ sub \in {"live", "released", "cleared"}
  /\ cf \in [Refs -> {"free", "live"}]
  /\ pc \in [Threads -> Places]
  /\ new \in [Threads -> Refs \cup {None}]
  /\ arg \in [Threads -> Refs \cup {None}]
  /\ faults \subseteq {"used after release", "released twice"}

\* No reference is used once released and none is released twice (sampler.py:112-117
\* and 459-461, ioreport.py:295-302), across samples that fail, calls after close()
\* and repeated close().
NoFault == faults = {}

\* The references a call of _sample_once has in hand.
InHand(t) ==
  IF pc[t] \in {"taken", "delta", "drop", "release", "store"} THEN {new[t]} ELSE {}

\* Every reference that has not been released is the baseline or in a caller's hand:
\* what sample() hands out is always released in the end.
NothingLeaks ==
  \A r \in Refs : cf[r] = "live" => r = prev \/ \E t \in Threads : r \in InHand(t)

\* Between calls, a sampler that was closed holds nothing at all, whatever was
\* called after the close (sampler.py:456-462).
ClosedHoldsNothing ==
  Quiet /\ sub = "cleared" => prev = None /\ \A r \in Refs : cf[r] = "free"
=============================================================================
