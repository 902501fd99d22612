----------------------------- MODULE MCSession ------------------------------
(***************************************************************************)
(* The clients of a sampler for TLC: a Profiler with its two threads, a    *)
(* JSON stream, and a caller on either thread.  A behaviour has one of     *)
(* them, chosen at the start; what it says of the references holds of all. *)
(***************************************************************************)
EXTENDS Profiler, Session

VARIABLE client     \* "profiler", "stream" or "caller"

sessionVars == <<vars, smcVars, streamVars, client>>

TheThreads == {User, Worker}

SessionInit ==
  /\ Init /\ SmcInit /\ StreamInit
  /\ client \in {"profiler", "stream", "caller"}
  /\ client # "stream" => limit = 0

ProfilerNext ==
  /\ client = "profiler"
  /\ \/ Prime \/ start \/ register_alert \/ get_summary \/ stop \/ Join \/ CloseMonitor
     \/ WorkerStep
  /\ UNCHANGED <<smcVars, streamVars, client>>

StreamNext ==
  /\ client = "stream"
  /\ StreamStep
  /\ UNCHANGED <<profilerVars, client>>

CallerNext ==
  /\ client = "caller"
  /\ \E t \in Threads : Call(t)
  /\ UNCHANGED <<profilerVars, streamVars, client>>

SessionNext == ProfilerNext \/ StreamNext \/ CallerNext

\* The scheduling of Profiler's FairSpec.
SessionSpec ==
  /\ SessionInit /\ [][SessionNext]_sessionVars
  /\ WF_sessionVars(ProfilerNext /\ Join)
  /\ WF_sessionVars(ProfilerNext /\ CloseMonitor)
  /\ WF_sessionVars(ProfilerNext /\ WorkerStep)
  /\ SF_sessionVars(ProfilerNext /\ Sampling /\ new'[Worker] # None /\ pc'[Worker] = "taken")
  /\ SF_sessionVars(ProfilerNext /\ Snapshot)
=============================================================================
