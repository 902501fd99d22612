----------------------------- MODULE ProcShares -----------------------------
(***************************************************************************)
(* get_top_processes (src/actop/utils.py): the CPU-time and GPU-time       *)
(* shares of the processes, taken from two module-level caches of the      *)
(* previous reading of every process.                                      *)
(*                                                                         *)
(* A process is a PID and the how-manieth process with that PID it is,     *)
(* which stands for its start time: two processes with the same PID do not *)
(* start within the same second.  A share is its numerator, the delta, and *)
(* its denominator, the total.  ProcTable makes the table's rows of them.   *)
(***************************************************************************)
EXTENDS Sums

CONSTANTS
  Pids,
  None,
  MaxTime, MaxBack,     \* bounds: the wall clock, and how often it steps back
  MaxSpawns,            \* bound: processes that are ever started
  MaxCpu, MaxGpu        \* bounds: time a process uses

ASSUME SharesAssumption == None \notin Int
ASSUME SharesBounds == {MaxTime, MaxBack, MaxSpawns, MaxCpu, MaxGpu} \subseteq Nat

VARIABLES
  now, back,            \* time.time(), and how often it stepped back
  alive, gen,           \* the processes that live, and which one each PID stands for
  cpu, gpu,             \* their cumulative CPU time, and GPU time over their live clients
  cpuCache, gpuCache,   \* _PROCESS_CPU_CACHE and _PROCESS_GPU_CACHE
  rows,                 \* the deltas of each listed process, when a call has just returned
  total, totalGpu,      \* total_delta_ns and total_gpu_delta_ns behind them
  listed,               \* ghost: the processes the last call listed
  lastPoll,             \* ghost: when that was
  cpuSince, gpuSince,   \* ghost: time used since it was last read, and what that reading missed
  truth                 \* ghost: what these ghosts were when the call was made

callVars == <<rows, total, totalGpu, truth>>
cacheVars == <<cpuCache, gpuCache, lastPoll>>
vars == <<now, back, alive, gen, cpu, gpu, cacheVars, callVars, listed, cpuSince, gpuSince>>

\* Between two calls there is no result.
NoResult == rows' = None /\ total' = 0 /\ totalGpu' = 0 /\ truth' = None

Init ==
  /\ now = 0 /\ back = 0
  /\ alive = {} /\ gen = [p \in Pids |-> 0]
  /\ cpu = [p \in Pids |-> 0] /\ gpu = [p \in Pids |-> 0]
  /\ cpuCache = <<>> /\ gpuCache = <<>>
  /\ rows = None /\ total = 0 /\ totalGpu = 0 /\ truth = None
  /\ listed = {} /\ lastPoll = 0
  /\ cpuSince = [p \in Pids |-> 0] /\ gpuSince = [p \in Pids |-> 0]

-----------------------------------------------------------------------------
(* The machine between two calls.                                          *)

Tick ==
  /\ now < MaxTime /\ now' = now + 1
  /\ NoResult
  /\ UNCHANGED <<back, alive, gen, cpu, gpu, cacheVars, listed, cpuSince, gpuSince>>

StepBack ==
  /\ back < MaxBack /\ now > 0
  /\ now' = now - 1 /\ back' = back + 1
  /\ NoResult
  /\ UNCHANGED <<alive, gen, cpu, gpu, cacheVars, listed, cpuSince, gpuSince>>

Spawn(p) ==
  /\ p \notin alive /\ SumOver(gen, Pids) < MaxSpawns
  /\ alive' = alive \cup {p}
  /\ gen' = [gen EXCEPT ![p] = gen[p] + 1]
  /\ NoResult
  /\ UNCHANGED <<now, back, cpu, gpu, cacheVars, listed, cpuSince, gpuSince>>

Exit(p) ==
  /\ p \in alive
  /\ alive' = alive \ {p}
  /\ cpu' = [cpu EXCEPT ![p] = 0] /\ gpu' = [gpu EXCEPT ![p] = 0]
  /\ listed' = listed \ {p}
  /\ cpuSince' = [cpuSince EXCEPT ![p] = 0] /\ gpuSince' = [gpuSince EXCEPT ![p] = 0]
  /\ NoResult
  /\ UNCHANGED <<now, back, gen, cacheVars>>

RunCpu(p) ==
  /\ p \in alive /\ cpu[p] < MaxCpu
  /\ cpu' = [cpu EXCEPT ![p] = cpu[p] + 1]
  /\ cpuSince' = [cpuSince EXCEPT ![p] = cpuSince[p] + 1]
  /\ NoResult
  /\ UNCHANGED <<now, back, alive, gen, gpu, cacheVars, listed, gpuSince>>

RunGpu(p) ==
  /\ p \in alive /\ gpuSince[p] < MaxGpu /\ gpu[p] < MaxGpu
  /\ gpu' = [gpu EXCEPT ![p] = gpu[p] + 1]
  /\ gpuSince' = [gpuSince EXCEPT ![p] = gpuSince[p] + 1]
  /\ NoResult
  /\ UNCHANGED <<now, back, alive, gen, cpu, cacheVars, listed, cpuSince>>

\* The process closes a Metal client, whose time goes with it.
CloseClient(p) ==
  /\ p \in alive /\ gpu[p] > 0
  /\ \E left \in 0..(gpu[p] - 1) : gpu' = [gpu EXCEPT ![p] = left]
  /\ NoResult
  /\ UNCHANGED <<now, back, alive, gen, cpu, cacheVars, listed, cpuSince, gpuSince>>

-----------------------------------------------------------------------------
(* get_top_processes.                                                      *)

\* Mutants: the start time is not part of the key; the delta may be negative; a GPU
\* client counts whether its process is listed or not; a process that is gone stays,
\* in both caches or in that of the GPU.
KeyPid(p) == <<p, 0>>
Key(p) == <<p, gen[p]>>
Keys(ps) == {Key(p) : p \in ps}

DeltaUnclamped(cache, k, raw) ==
  IF k \in DOMAIN cache /\ now - cache[k].time > 0 THEN raw - cache[k].value ELSE None

_delta_ns(cache, k, raw) ==
  IF k \in DOMAIN cache /\ now - cache[k].time > 0
  THEN IF raw >= cache[k].value THEN raw - cache[k].value ELSE 0
  ELSE None

CountedAny(native, clients) == clients
Counted(native, clients) == clients \cap native

KeptAll(cache, native) == DOMAIN cache
KeptGpu(cache, native) ==
  IF cache = gpuCache THEN DOMAIN cache ELSE DOMAIN cache \cap Keys(native)
Kept(cache, native) == DOMAIN cache \cap Keys(native)

\* The cache after new readings of the processes in read, and the eviction.
Updated(cache, native, read, raw) ==
  [k \in Kept(cache, native) \cup Keys(read) |->
     IF \E p \in read : k = Key(p)
     THEN [value |-> raw[CHOOSE p \in read : k = Key(p)], time |-> now]
     ELSE cache[k]]

\* A delta that is pending adds nothing.
SumOf(delta, ps) == SumOver([p \in ps |-> IF delta[p] = None THEN 0 ELSE delta[p]], ps)

\* One call: native is what libproc lists, seen the GPU time the IOKit registry adds up
\* for each process it lists.
Poll(native, seen) ==
  LET clients == DOMAIN seen
      read == Counted(native, clients)
      delta == [p \in native |-> _delta_ns(cpuCache, Key(p), cpu[p])]
      gpuDelta == [p \in read |-> _delta_ns(gpuCache, Key(p), seen[p])]
  IN /\ rows' = [p \in native |->
                   [cpu |-> delta[p], gpu |-> IF p \in clients THEN gpuDelta[p] ELSE 0]]
     /\ total' = SumOf(delta, native)
     /\ totalGpu' = SumOf(gpuDelta, read)
     /\ cpuCache' = Updated(cpuCache, native, native, cpu)
     /\ gpuCache' = Updated(gpuCache, native, read, seen)
     /\ truth' = [p \in native |->
                    [cpu |-> cpuSince[p], gpu |-> gpuSince[p],
                     known |-> p \in listed, later |-> now > lastPoll]]
     /\ listed' = native /\ lastPoll' = now
     /\ cpuSince' = [p \in Pids |-> IF p \in native THEN 0 ELSE cpuSince[p]]
     /\ gpuSince' = [p \in Pids |-> IF p \in read THEN gpu[p] - seen[p] ELSE gpuSince[p]]
     /\ UNCHANGED <<now, back, alive, gen, cpu, gpu>>

\* Processes of other users are never listed by libproc, and some fail to be.
get_native_processes == SUBSET alive

\* The registry lists the clients that have used the GPU, those of a process one after
\* the other: a walk that is cut short misses processes, or clients of one.
get_gpu_time_by_pid ==
  UNION {{seen \in [clients -> 1..MaxGpu] : \A p \in clients : seen[p] <= gpu[p]} :
           clients \in SUBSET alive}

get_top_processes ==
  \E native \in get_native_processes, seen \in get_gpu_time_by_pid : Poll(native, seen)

-----------------------------------------------------------------------------

Machine ==
  \/ Tick \/ StepBack
  \/ \E p \in Pids : Spawn(p) \/ Exit(p) \/ RunCpu(p) \/ RunGpu(p) \/ CloseClient(p)

Next == Machine \/ get_top_processes

Spec == Init /\ [][Next]_vars

-----------------------------------------------------------------------------
(* What must hold of every result.                                        *)

Rows == IF rows = None THEN {} ELSE DOMAIN rows

\* The CPU delta of a row is the time its process has used since the previous call,
\* and it is pending exactly when that call did not list the process or no time has
\* passed: a PID taken over by another process never inherits a delta (utils.py lines
\* 168-191).
CpuOverInterval ==
  \A p \in Rows :
    rows[p].cpu = IF truth[p].known /\ truth[p].later THEN truth[p].cpu ELSE None

\* The GPU delta of a row is never negative and never more than its process has used
\* since it was last read, and what that reading missed of it, whatever clients it closed
\* and opened (_delta_ns).  So after a walk cut short between two clients of a process, a
\* delta may report again what an earlier one did.
GpuNotInvented ==
  \A p \in Rows : rows[p].gpu # None => rows[p].gpu \in 0..truth[p].gpu

\* After a call the caches hold no process that it did not list (lines 219-223).
CachesCurrent ==
  rows # None =>
    \A k \in DOMAIN cpuCache \cup DOMAIN gpuCache : \E p \in Rows : k = Key(p)

\* A row whose power is pending for want of a CPU delta withholds no GPU time
\* (_processes_to_samples, api.py lines 34-40), unless the clock has not moved on since
\* the previous call: the GPU cache knows no process that the CPU cache does not know.
PendingWithholdsNothing ==
  \A p \in Rows : truth[p].later /\ rows[p].cpu = None => rows[p].gpu \in {None, 0}
=============================================================================
