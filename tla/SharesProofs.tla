----------------------------- MODULE SharesProofs -----------------------------
(***************************************************************************)
(* Proofs about what is shared out among processes and among the states of *)
(* a cluster.                                                              *)
(*                                                                         *)
(* The process table.  The two caches of get_top_processes: every delta is *)
(* over the interval since the previous call, no PID inherits one, and the *)
(* caches hold what the last call listed and nothing else.  The pool of    *)
(* rows: cutting a list to its first n rows, adding any other rows and     *)
(* cutting again to at most n gives the first rows of the whole list.  The *)
(* watts of all rows add up to the CPU's.                                  *)
(*                                                                         *)
(* Sample conversion.  What Hamilton's apportionment gives (ApportionFacts)*)
(* makes the shares of a cluster the closest whole numbers that add up to  *)
(* 100, makes the bar of the dashboard fill its columns, and keeps the     *)
(* idle share within the rounding of what the utilization leaves.  A frame *)
(* is the mean of its parts (MeanOf), each part what its reading became    *)
(* (PartOf): the power is exact (PowerFacts), the bandwidth lies within    *)
(* the buckets (ChannelFacts), and cutting the cores and the cluster       *)
(* separately moves them apart by less than three points (CutsAddUp).      *)
(***************************************************************************)
EXTENDS ProcTable, Conversion, SumProofs

WorldTypeOK ==
  /\ now \in Int /\ lastPoll \in Int
  /\ alive \subseteq Pids /\ listed \subseteq alive
  /\ gen \in [Pids -> Nat]
  /\ cpu \in [Pids -> Nat] /\ gpu \in [Pids -> Nat]
  /\ cpuSince \in [Pids -> Nat] /\ gpuSince \in [Pids -> Nat]

\* A cached process is one that was started: a process that starts later has a key
\* no cache holds.
KeysStarted ==
  \A k \in DOMAIN cpuCache : \E p \in Pids, g \in Nat : k = <<p, g>> /\ g <= gen[p]

\* A living process is in the CPU cache when the last call listed it, with the reading
\* of that call.
CpuRemembered ==
  \A p \in alive :
    /\ p \in listed <=> Key(p) \in DOMAIN cpuCache
    /\ p \in listed => /\ cpuCache[Key(p)].time = lastPoll
                       /\ cpuCache[Key(p)].value \in Nat
                       /\ cpuCache[Key(p)].value + cpuSince[p] = cpu[p]

\* The GPU cache knows no process the CPU cache does not know.
GpuWithinCpu == DOMAIN gpuCache \subseteq DOMAIN cpuCache

\* The GPU time of a living process is its reading plus at most what it used since.
GpuRemembered ==
  \A p \in alive :
    Key(p) \in DOMAIN gpuCache =>
      /\ gpuCache[Key(p)].value \in Nat
      /\ gpu[p] <= gpuCache[Key(p)].value + gpuSince[p]

CInv == WorldTypeOK /\ KeysStarted /\ CpuRemembered /\ GpuWithinCpu /\ GpuRemembered

\* The four claims about a result.
ResultOK == CpuOverInterval /\ GpuNotInvented /\ CachesCurrent /\ PendingWithholdsNothing

-----------------------------------------------------------------------------

LEMMA KeysDiffer ==
  ASSUME NEW p, NEW q, Key(p) = Key(q)
  PROVE  p = q
BY DEF Key

LEMMA CInvInit == Init => CInv /\ ResultOK
<1> SUFFICES ASSUME Init PROVE CInv /\ ResultOK
    OBVIOUS
<1>1. DOMAIN cpuCache = {} /\ DOMAIN gpuCache = {}
  BY DEF Init
<1>2. CInv
  BY <1>1 DEF Init, CInv, WorldTypeOK, KeysStarted, CpuRemembered, GpuWithinCpu, GpuRemembered
<1>3. Rows = {} /\ rows = None
  BY DEF Init, Rows
<1> QED
  BY <1>2, <1>3 DEF ResultOK, CpuOverInterval, GpuNotInvented, CachesCurrent,
                    PendingWithholdsNothing

\* Between two calls the invariant is kept.
LEMMA MachineKeepsCInv == ASSUME CInv, Machine PROVE CInv'
<1> USE DEF CInv, WorldTypeOK
<1>1. CASE Tick
  BY <1>1 DEF Tick, KeysStarted, CpuRemembered, GpuWithinCpu, GpuRemembered, Key, cacheVars
<1>2. CASE StepBack
  BY <1>2 DEF StepBack, KeysStarted, CpuRemembered, GpuWithinCpu, GpuRemembered, Key, cacheVars
<1>3. ASSUME NEW p \in Pids, Spawn(p) PROVE CInv'
  <2>1. WorldTypeOK' /\ GpuWithinCpu'
    BY <1>3 DEF Spawn, GpuWithinCpu, cacheVars
  <2>2. KeysStarted'
    BY <1>3 DEF Spawn, KeysStarted, cacheVars
  <2>3. Key(p)' \notin DOMAIN cpuCache
    BY <1>3 DEF Spawn, KeysStarted, Key
  <2>4. p \notin listed /\ \A q \in alive : Key(q)' = Key(q)
    BY <1>3 DEF Spawn, Key
  <2>5. CpuRemembered'
    BY <1>3, <2>3, <2>4 DEF Spawn, CpuRemembered, cacheVars
  <2>6. GpuRemembered'
    BY <1>3, <2>3, <2>4 DEF Spawn, GpuRemembered, GpuWithinCpu, cacheVars
  <2> QED  BY <2>1, <2>2, <2>5, <2>6
<1>4. ASSUME NEW p \in Pids, Exit(p) PROVE CInv'
  BY <1>4 DEF Exit, KeysStarted, CpuRemembered, GpuWithinCpu, GpuRemembered, Key, cacheVars
<1>5. ASSUME NEW p \in Pids, RunCpu(p) PROVE CInv'
  BY <1>5 DEF RunCpu, KeysStarted, CpuRemembered, GpuWithinCpu, GpuRemembered, Key, cacheVars
<1>6. ASSUME NEW p \in Pids, RunGpu(p) PROVE CInv'
  BY <1>6 DEF RunGpu, KeysStarted, CpuRemembered, GpuWithinCpu, GpuRemembered, Key, cacheVars
<1>7. ASSUME NEW p \in Pids, CloseClient(p) PROVE CInv'
  BY <1>7 DEF CloseClient, KeysStarted, CpuRemembered, GpuWithinCpu, GpuRemembered, Key, cacheVars
<1> QED  BY <1>1, <1>2, <1>3, <1>4, <1>5, <1>6, <1>7 DEF Machine

LEMMA MachineNoResult == ASSUME Machine PROVE ResultOK'
<1>1. NoResult
  BY DEF Machine, Tick, StepBack, Spawn, Exit, RunCpu, RunGpu, CloseClient
<1>2. rows' = None /\ Rows' = {}
  BY <1>1 DEF NoResult, Rows
<1> QED
  BY <1>2 DEF ResultOK, CpuOverInterval, GpuNotInvented, CachesCurrent, PendingWithholdsNothing

\* What a walk of the registry reads: no more than what the processes have used.
RegistryWalk(seen) ==
  DOMAIN seen \subseteq alive /\ \A p \in DOMAIN seen : seen[p] \in Nat /\ seen[p] <= gpu[p]

LEMMA RegistryReads == \A seen \in get_gpu_time_by_pid : RegistryWalk(seen)
<1> SUFFICES ASSUME NEW clients \in SUBSET alive, NEW seen \in [clients -> 1..MaxGpu],
                    \A p \in clients : seen[p] <= gpu[p]
             PROVE  RegistryWalk(seen)
  BY DEF get_gpu_time_by_pid
<1>1. QED
  BY SharesBounds DEF RegistryWalk

\* What the two caches are after a call, in terms of what they were.
LEMMA PollCaches ==
  ASSUME CInv, NEW native \in SUBSET alive, NEW seen, Poll(native, seen)
  PROVE  LET clients == DOMAIN seen IN
         /\ DOMAIN cpuCache' = Keys(native)
         /\ \A p \in native : cpuCache'[Key(p)] = [value |-> cpu[p], time |-> now]
         /\ DOMAIN gpuCache' \subseteq Keys(native)
         /\ \A p \in native \cap clients : gpuCache'[Key(p)] = [value |-> seen[p], time |-> now]
         /\ \A p \in native \ clients : Key(p) \in DOMAIN gpuCache' =>
              Key(p) \in DOMAIN gpuCache /\ gpuCache'[Key(p)] = gpuCache[Key(p)]
<1> DEFINE clients == DOMAIN seen
           read == Counted(native, clients)
<1>1. read = native \cap clients /\ read \in SUBSET native
  BY DEF Counted
<1> HIDE DEF read
<1>2. cpuCache' = Updated(cpuCache, native, native, cpu)
  BY DEF Poll
<1>3. gpuCache' = Updated(gpuCache, native, read, seen)
  BY DEF Poll, read
<1>4. /\ Kept(cpuCache, native) \subseteq Keys(native)
      /\ Kept(gpuCache, native) \subseteq Keys(native)
  BY DEF Kept
<1>5. DOMAIN cpuCache' = Keys(native)
  BY <1>2, <1>4 DEF Updated
<1>6. DOMAIN gpuCache' = Kept(gpuCache, native) \cup Keys(read)
  BY <1>3 DEF Updated
<1>7. DOMAIN gpuCache' \subseteq Keys(native)
  BY <1>1, <1>4, <1>6 DEF Keys
<1>8. ASSUME NEW p \in native
      PROVE  cpuCache'[Key(p)] = [value |-> cpu[p], time |-> now]
  <2>1. (CHOOSE q \in native : Key(p) = Key(q)) = p
    BY KeysDiffer
  <2> QED  BY <1>2, <2>1 DEF Updated, Keys
<1>9. ASSUME NEW p \in read
      PROVE  gpuCache'[Key(p)] = [value |-> seen[p], time |-> now]
  <2>1. (CHOOSE q \in read : Key(p) = Key(q)) = p
    BY KeysDiffer
  <2> QED  BY <1>3, <2>1 DEF Updated, Keys
<1>10. ASSUME NEW p \in native \ read, Key(p) \in DOMAIN gpuCache'
       PROVE  Key(p) \in DOMAIN gpuCache /\ gpuCache'[Key(p)] = gpuCache[Key(p)]
  <2>1. ~\E q \in read : Key(p) = Key(q)
    BY KeysDiffer
  <2>2. Key(p) \in Kept(gpuCache, native)
    BY <1>6, <1>10, <2>1 DEF Keys
  <2>3. gpuCache'[Key(p)] = gpuCache[Key(p)]
    BY <1>3, <2>1, <2>2 DEF Updated
  <2> QED  BY <2>2, <2>3 DEF Kept
<1> QED  BY <1>1, <1>5, <1>7, <1>8, <1>9, <1>10

LEMMA PollKeepsCInv ==
  ASSUME CInv, NEW native \in SUBSET alive, NEW seen, RegistryWalk(seen), Poll(native, seen)
  PROVE  CInv'
<1> DEFINE clients == DOMAIN seen
<1>0. /\ DOMAIN cpuCache' = Keys(native)
      /\ \A p \in native : cpuCache'[Key(p)] = [value |-> cpu[p], time |-> now]
      /\ DOMAIN gpuCache' \subseteq Keys(native)
      /\ \A p \in native \cap clients : gpuCache'[Key(p)] = [value |-> seen[p], time |-> now]
      /\ \A p \in native \ clients : Key(p) \in DOMAIN gpuCache' =>
           Key(p) \in DOMAIN gpuCache /\ gpuCache'[Key(p)] = gpuCache[Key(p)]
  BY PollCaches
<1> USE DEF CInv, WorldTypeOK
<1>1. /\ now' = now /\ alive' = alive /\ gen' = gen /\ cpu' = cpu /\ gpu' = gpu
      /\ lastPoll' = now /\ listed' = native
      /\ cpuSince' = [p \in Pids |-> IF p \in native THEN 0 ELSE cpuSince[p]]
      /\ gpuSince' = [p \in Pids |-> IF p \in native \cap clients THEN gpu[p] - seen[p] ELSE gpuSince[p]]
  BY DEF Poll, Counted
<1>2. \A p : Key(p)' = Key(p)
  BY <1>1 DEF Key
<1>3. WorldTypeOK'
  <2>1. \A p \in native \cap clients : gpu[p] - seen[p] \in Nat
    BY DEF RegistryWalk
  <2>2. QED
    BY <1>1, <2>1
<1>4. KeysStarted'
  <2> SUFFICES ASSUME NEW k \in DOMAIN cpuCache'
               PROVE  \E p \in Pids, g \in Nat : k = <<p, g>> /\ g <= gen[p]
    BY <1>1 DEF KeysStarted
  <2>1. PICK p \in native : k = Key(p)
    BY <1>0 DEF Keys
  <2>2. p \in Pids /\ gen[p] \in Nat
    OBVIOUS
  <2> QED  BY <2>1, <2>2 DEF Key
<1>5. CpuRemembered'
  <2> SUFFICES ASSUME NEW p \in alive
               PROVE  /\ p \in native <=> Key(p) \in DOMAIN cpuCache'
                      /\ p \in native => /\ cpuCache'[Key(p)].time = now
                                         /\ cpuCache'[Key(p)].value \in Nat
                                         /\ cpuCache'[Key(p)].value + cpuSince'[p] = cpu[p]
    BY <1>1, <1>2 DEF CpuRemembered
  <2>1. p \in native <=> Key(p) \in DOMAIN cpuCache'
    BY <1>0, KeysDiffer DEF Keys
  <2>2. ASSUME p \in native
        PROVE  /\ cpuCache'[Key(p)].time = now
               /\ cpuCache'[Key(p)].value \in Nat
               /\ cpuCache'[Key(p)].value + cpuSince'[p] = cpu[p]
    <3>1. cpuCache'[Key(p)] = [value |-> cpu[p], time |-> now]
      BY <2>2, <1>0
    <3>2. cpuSince'[p] = 0 /\ cpu[p] \in Nat
      BY <1>1, <2>2
    <3> QED  BY <3>1, <3>2
  <2> QED  BY <2>1, <2>2
<1>6. GpuWithinCpu'
  BY <1>0 DEF GpuWithinCpu
<1>7. GpuRemembered'
  <2> SUFFICES ASSUME NEW p \in alive, Key(p) \in DOMAIN gpuCache'
               PROVE  /\ gpuCache'[Key(p)].value \in Nat
                      /\ gpu[p] <= gpuCache'[Key(p)].value + gpuSince'[p]
    BY <1>1, <1>2 DEF GpuRemembered
  <2>1. p \in native
    BY <1>0, KeysDiffer DEF Keys
  <2>2. CASE p \in clients
    <3>1. gpuCache'[Key(p)] = [value |-> seen[p], time |-> now]
      BY <2>1, <2>2, <1>0
    <3>2. gpuSince'[p] = gpu[p] - seen[p] /\ gpu[p] \in Nat /\ seen[p] \in Nat
      BY <1>1, <2>1, <2>2 DEF RegistryWalk
    <3> QED  BY <3>1, <3>2
  <2>3. CASE p \notin clients
    <3>1. Key(p) \in DOMAIN gpuCache /\ gpuCache'[Key(p)] = gpuCache[Key(p)]
      BY <2>1, <2>3, <1>0
    <3>2. gpuSince'[p] = gpuSince[p]
      BY <1>1, <2>3
    <3> QED  BY <3>1, <3>2 DEF GpuRemembered
  <2> QED  BY <2>2, <2>3
<1> QED  BY <1>3, <1>4, <1>5, <1>6, <1>7

LEMMA PollResult ==
  ASSUME CInv, NEW native \in SUBSET alive, NEW seen, RegistryWalk(seen), Poll(native, seen)
  PROVE  ResultOK'
<1> DEFINE clients == DOMAIN seen
           read == native \cap clients
<1>1. /\ rows' = [p \in native |->
            [cpu |-> _delta_ns(cpuCache, Key(p), cpu[p]),
             gpu |-> IF p \in clients
                     THEN [q \in read |-> _delta_ns(gpuCache, Key(q), seen[q])][p] ELSE 0]]
      /\ truth' = [p \in native |->
            [cpu |-> cpuSince[p], gpu |-> gpuSince[p],
             known |-> p \in listed, later |-> now > lastPoll]]
  BY DEF Poll, Counted
<1>2. Rows' \subseteq native /\ (rows' # None => Rows' = native)
  BY <1>1 DEF Rows
<1>3. ASSUME NEW p \in native
      PROVE  /\ rows'[p].cpu = _delta_ns(cpuCache, Key(p), cpu[p])
             /\ p \in clients => rows'[p].gpu = _delta_ns(gpuCache, Key(p), seen[p])
             /\ p \notin clients => rows'[p].gpu = 0
             /\ truth'[p].cpu = cpuSince[p] /\ truth'[p].gpu = gpuSince[p]
             /\ truth'[p].known = (p \in listed) /\ truth'[p].later = (now > lastPoll)
  BY <1>1
<1> HIDE DEF read
<1>4. ASSUME NEW p \in native
      PROVE  /\ p \in Pids /\ p \in alive
             /\ cpu[p] \in Nat /\ cpuSince[p] \in Nat /\ gpu[p] \in Nat /\ gpuSince[p] \in Nat
             /\ now \in Int /\ lastPoll \in Int
  BY DEF CInv, WorldTypeOK
<1>5. ASSUME NEW p \in native
      PROVE  rows'[p].cpu = IF p \in listed /\ now > lastPoll THEN cpuSince[p] ELSE None
  <2>1. CASE p \in listed
    <3>1. /\ Key(p) \in DOMAIN cpuCache
          /\ cpuCache[Key(p)].time = lastPoll
          /\ cpuCache[Key(p)].value \in Nat
          /\ cpuCache[Key(p)].value + cpuSince[p] = cpu[p]
      BY <1>4, <2>1 DEF CInv, CpuRemembered
    <3>2. (now - lastPoll > 0) = (now > lastPoll)
      BY <1>4
    <3>3. cpu[p] >= cpuCache[Key(p)].value /\ cpu[p] - cpuCache[Key(p)].value = cpuSince[p]
      BY <3>1, <1>4
    <3>4. _delta_ns(cpuCache, Key(p), cpu[p]) = IF now > lastPoll THEN cpuSince[p] ELSE None
      BY <3>1, <3>2, <3>3 DEF _delta_ns
    <3> QED  BY <1>3, <2>1, <3>4
  <2>2. CASE p \notin listed
    <3>1. Key(p) \notin DOMAIN cpuCache
      BY <1>4, <2>2 DEF CInv, CpuRemembered
    <3> QED  BY <1>3, <2>2, <3>1 DEF _delta_ns
  <2> QED  BY <2>1, <2>2
<1>10. CpuOverInterval'
  <2> SUFFICES ASSUME NEW p \in native
               PROVE  rows'[p].cpu = IF truth'[p].known /\ truth'[p].later
                                     THEN truth'[p].cpu ELSE None
    BY <1>2 DEF CpuOverInterval
  <2> QED  BY <1>3, <1>5
<1>6. ASSUME NEW p \in native, p \in clients, Key(p) \in DOMAIN gpuCache
      PROVE  _delta_ns(gpuCache, Key(p), seen[p]) # None =>
               _delta_ns(gpuCache, Key(p), seen[p]) \in 0..gpuSince[p]
  <2>1. gpuCache[Key(p)].value \in Nat /\ gpu[p] <= gpuCache[Key(p)].value + gpuSince[p]
    BY <1>4, <1>6 DEF CInv, GpuRemembered
  <2>2. seen[p] \in Nat /\ seen[p] <= gpu[p]
    BY <1>6 DEF RegistryWalk
  <2> QED  BY <2>1, <2>2, <1>4, <1>6 DEF _delta_ns
<1>7. GpuNotInvented'
  <2> SUFFICES ASSUME NEW p \in native, rows'[p].gpu # None
               PROVE  rows'[p].gpu \in 0..truth'[p].gpu
    BY <1>2 DEF GpuNotInvented
  <2>1. CASE p \notin clients
    BY <1>3, <1>4, <2>1
  <2>2. CASE p \in clients /\ Key(p) \in DOMAIN gpuCache
    BY <1>3, <1>6, <2>2
  <2>3. CASE p \in clients /\ Key(p) \notin DOMAIN gpuCache
    BY <1>3, <2>3 DEF _delta_ns
  <2> QED  BY <2>1, <2>2, <2>3
<1>8. CachesCurrent'
  <2>1. gen' = gen
    BY DEF Poll
  <2>2. \A k \in DOMAIN cpuCache' \cup DOMAIN gpuCache' : \E p \in native : k = Key(p)
    BY PollCaches DEF Keys
  <2> QED  BY <1>2, <2>1, <2>2 DEF CachesCurrent, Key
<1>9. PendingWithholdsNothing'
  <2> SUFFICES ASSUME NEW p \in native, truth'[p].later, rows'[p].cpu = None
               PROVE  rows'[p].gpu \in {None, 0}
    BY <1>2 DEF PendingWithholdsNothing
  <2>1. p \notin listed
    <3> SUFFICES ASSUME p \in listed PROVE FALSE
      OBVIOUS
    <3>1. rows'[p].cpu = cpuSince[p]
      BY <1>3, <1>5
    <3> QED  BY <3>1, <1>4, SharesAssumption
  <2>2. Key(p) \notin DOMAIN gpuCache
    BY <1>4, <2>1 DEF CInv, CpuRemembered, GpuWithinCpu
  <2> QED  BY <1>3, <2>2 DEF _delta_ns
<1> QED  BY <1>10, <1>7, <1>8, <1>9 DEF ResultOK

LEMMA ResultsNext == CInv /\ ResultOK /\ [Next]_vars => (CInv /\ ResultOK)'
<1> SUFFICES ASSUME CInv, ResultOK, [Next]_vars PROVE (CInv /\ ResultOK)'
    OBVIOUS
<1>1. CASE Machine
  BY <1>1, MachineKeepsCInv, MachineNoResult
<1>2. CASE get_top_processes
  BY <1>2, PollKeepsCInv, PollResult, RegistryReads DEF get_top_processes, get_native_processes
<1>3. CASE UNCHANGED vars
  <2> USE <1>3 DEF vars, cacheVars, callVars
  <2>1. CInv'
    BY DEF CInv, WorldTypeOK, KeysStarted, CpuRemembered, GpuWithinCpu, GpuRemembered, Key
  <2>2. ResultOK'
    BY DEF ResultOK, CpuOverInterval, GpuNotInvented, CachesCurrent, PendingWithholdsNothing,
           Rows, Key
  <2> QED  BY <2>1, <2>2
<1> QED  BY <1>1, <1>2, <1>3 DEF Next

\* For any PIDs and any bounds: a CPU delta is the time used since the previous call, or
\* pending for a process that call did not list (utils.py lines 170-195).
THEOREM CpuSharesOverInterval == Spec => []CpuOverInterval
<1>1. ResultOK => CpuOverInterval
  BY DEF ResultOK
<1> QED  BY <1>1, CInvInit, ResultsNext, PTL DEF Spec

\* For any PIDs and any bounds: a GPU delta is never negative and never more than the
\* process used since it was last read (utils.py lines 134-152 and 213-223).
THEOREM GpuSharesNotInvented == Spec => []GpuNotInvented
<1>1. ResultOK => GpuNotInvented
  BY DEF ResultOK
<1> QED  BY <1>1, CInvInit, ResultsNext, PTL DEF Spec

\* For any PIDs and any bounds: the caches hold no process the last call did not list,
\* and a process new to the CPU cache is new to the GPU cache (lines 225-229).
THEOREM CachesStayCurrent == Spec => []CachesCurrent /\ []PendingWithholdsNothing
<1>1. ResultOK => CachesCurrent /\ PendingWithholdsNothing
  BY DEF ResultOK
<1> QED  BY <1>1, CInvInit, ResultsNext, PTL DEF Spec

-----------------------------------------------------------------------------
(* The pool of rows.                                                       *)

\* What a cut of a list of finitely many rows is.
LEMMA TopsFacts ==
  ASSUME NEW S, IsFiniteSet(S), NEW n \in Nat, NEW order, NEW T \in Tops(S, n, order)
  PROVE  /\ T \subseteq S /\ IsFiniteSet(T)
         /\ Cardinality(S) \in Nat /\ Cardinality(T) \in Nat
         /\ Cardinality(T) <= n /\ Cardinality(T) <= Cardinality(S)
         /\ Cardinality(T) = n \/ T = S
         /\ \A a \in T, b \in S \ T : <<b, a>> \notin order
<1>1. T \subseteq S /\ Cardinality(T) = (IF n < Cardinality(S) THEN n ELSE Cardinality(S))
      /\ \A a \in T, b \in S \ T : <<b, a>> \notin order
  BY DEF Tops
<1>2. IsFiniteSet(T) /\ (Cardinality(S) = Cardinality(T) => S = T)
  BY <1>1, FS_Subset
<1>3. Cardinality(S) \in Nat /\ Cardinality(T) \in Nat
  BY <1>2, FS_CardinalityType
<1>4. Cardinality(T) <= n /\ Cardinality(T) <= Cardinality(S)
      /\ (Cardinality(T) = n \/ Cardinality(T) = Cardinality(S))
  BY <1>1, <1>3
<1> QED  BY <1>1, <1>2, <1>3, <1>4

\* The pool of a cut B and any other rows A has the same first rows as the whole list: a
\* row the pool lacks is outranked by none of A's that is not outranked by all of B.
LEMMA PoolKeepsTops ==
  ASSUME NEW S, IsFiniteSet(S), NEW order,
         \A a, b, x \in S : <<b, a>> \in order /\ <<b, x>> \notin order => <<x, a>> \in order,
         NEW n \in Nat, NEW m \in Nat, m <= n,
         NEW A \in SUBSET S, NEW B \in Tops(S, n, order),
         NEW T \in Tops(A \cup B, m, order)
  PROVE  T \in Tops(S, m, order)
<1>1. /\ B \subseteq S /\ IsFiniteSet(B) /\ Cardinality(B) \in Nat
      /\ Cardinality(S) \in Nat /\ Cardinality(B) <= Cardinality(S)
      /\ Cardinality(B) = n \/ B = S
      /\ \A a \in B, b \in S \ B : <<b, a>> \notin order
  BY TopsFacts
<1>2. A \cup B \subseteq S /\ IsFiniteSet(A \cup B) /\ Cardinality(A \cup B) <= Cardinality(S)
  BY <1>1, FS_Subset
<1>3. /\ T \subseteq A \cup B /\ IsFiniteSet(T) /\ Cardinality(T) \in Nat
      /\ Cardinality(A \cup B) \in Nat
      /\ Cardinality(T) <= m
      /\ Cardinality(T) = m \/ T = A \cup B
      /\ \A a \in T, b \in (A \cup B) \ T : <<b, a>> \notin order
  BY <1>2, TopsFacts
<1>4. Cardinality(B) <= Cardinality(A \cup B)
  BY <1>2, FS_Subset
<1>5. Cardinality(T) = IF m < Cardinality(S) THEN m ELSE Cardinality(S)
  <2>1. Cardinality(T) = IF m < Cardinality(A \cup B) THEN m ELSE Cardinality(A \cup B)
    BY DEF Tops
  <2>2. CASE B = S
    <3>1. A \cup B = S
      BY <1>2, <2>2
    <3> QED  BY <2>1, <3>1
  <2>3. CASE Cardinality(B) = n
    BY <1>1, <1>2, <1>3, <1>4, <2>1, <2>3
  <2> QED  BY <1>1, <2>2, <2>3
<1>6. ASSUME NEW a \in T, NEW b \in S \ T PROVE <<b, a>> \notin order
  <2>1. CASE b \in A \cup B
    BY <1>3, <2>1
  <2>2. CASE b \notin A \cup B /\ a \in B
    BY <1>1, <2>2
  <2>3. CASE b \notin A \cup B /\ a \notin B
    <3>1. SUFFICES ASSUME <<b, a>> \in order PROVE FALSE
      OBVIOUS
    <3>2. \A x \in B : <<x, a>> \in order
      BY <1>1, <1>2, <1>3, <2>3, <3>1
    <3>3. B \subseteq T
      BY <1>3, <3>2
    <3>4. B \subseteq T \ {a}
      BY <2>3, <3>3
    <3>5. IsFiniteSet(T \ {a}) /\ Cardinality(T \ {a}) = Cardinality(T) - 1
      BY <1>3, FS_RemoveElement
    <3>6. Cardinality(B) <= Cardinality(T \ {a})
      BY <3>4, <3>5, FS_Subset
    <3>7. Cardinality(B) = n
      BY <1>1, <2>3
    <3> QED  BY <1>3, <3>5, <3>6, <3>7
  <2> QED  BY <2>1, <2>2, <2>3
<1> QED  BY <1>2, <1>3, <1>5, <1>6 DEF Tops

-----------------------------------------------------------------------------
(* The rows add up to the package.                                         *)

\* A delta as a number: nothing while it is pending.
Amount(d) == IF d = None THEN 0 ELSE d

\* The shares of some rows add up to no more than the total, those of all rows to it.
LEMMA CpuAddsUp ==
  ASSUME NEW native, IsFiniteSet(native), NEW delta,
         \A p \in native : delta[p] = None \/ delta[p] \in Nat,
         NEW shown \in SUBSET native, NEW part, \A p \in shown : part[p] = Amount(delta[p])
  PROVE  /\ SumOver(part, shown) \in Nat /\ SumOf(delta, native) \in Nat
         /\ SumOver(part, shown) <= SumOf(delta, native)
         /\ shown = native => SumOver(part, shown) = SumOf(delta, native)
<1> DEFINE f == [p \in native |-> IF delta[p] = None THEN 0 ELSE delta[p]]
<1>1. Summable(f, native)
  BY DEF Summable
<1>2. SumOf(delta, native) = SumOver(f, native)
  BY DEF SumOf
<1>3. \A p \in shown : part[p] = f[p]
  BY DEF Amount
<1> HIDE DEF f
<1>4. Summable(f, shown)
  BY <1>1, FS_Subset DEF Summable
<1>5. SumOver(part, shown) = SumOver(f, shown)
  BY <1>3, <1>4, SumOfSame
<1>6. /\ SumOver(f, shown) <= SumOver(f, native)
      /\ SumOver(f, shown) \in Nat /\ SumOver(f, native) \in Nat
  BY <1>1, <1>4, SumOfPart, SumIsNat
<1>7. QED
  BY <1>2, <1>5, <1>6

\* The same for the GPU, whose deltas are known for the processes that were read only.
\* A row may withhold its delta; when none does that has one, nothing is missing.
LEMMA GpuAddsUp ==
  ASSUME NEW native, IsFiniteSet(native), NEW read \in SUBSET native, NEW delta,
         \A p \in read : delta[p] = None \/ delta[p] \in Nat,
         NEW shown \in SUBSET native, NEW part,
         \A p \in shown : \/ part[p] = 0
                          \/ p \in read /\ part[p] = Amount(delta[p])
  PROVE  /\ SumOver(part, shown) \in Nat /\ SumOf(delta, read) \in Nat
         /\ SumOver(part, shown) <= SumOf(delta, read)
         /\ (shown = native /\ \A p \in read : part[p] = Amount(delta[p]))
              => SumOver(part, shown) = SumOf(delta, read)
<1> DEFINE f == [p \in read |-> IF delta[p] = None THEN 0 ELSE delta[p]]
           known == shown \cap read
           rest == shown \ read
<1>1. Summable(f, read)
  BY FS_Subset DEF Summable
<1>2. SumOf(delta, read) = SumOver(f, read)
  BY DEF SumOf
<1>3. \A p \in read : f[p] \in Nat /\ f[p] = Amount(delta[p])
  BY DEF Amount
<1> HIDE DEF f
<1>4. /\ known \in SUBSET read /\ IsFiniteSet(known) /\ IsFiniteSet(rest)
      /\ shown = known \cup rest /\ known \cap rest = {}
  BY FS_Subset
<1>5. \A p \in known : part[p] \in Nat /\ part[p] <= f[p]
  BY <1>3
<1>6. \A p \in rest : part[p] = 0
  OBVIOUS
<1> HIDE DEF known, rest
<1>7. Summable(part, known) /\ Summable(part, rest)
  BY <1>4, <1>5, <1>6 DEF Summable
<1>8. SumOver(part, shown) = SumOver(part, known) + SumOver(part, rest)
  BY <1>4, <1>7, SumSplits
<1>9. SumOver(part, rest) = 0
  BY <1>4, <1>6, SumOfZeros
<1>10. Summable(f, known)
  BY <1>3, <1>4 DEF Summable
<1>11. SumOver(part, known) \in Nat /\ SumOver(part, known) <= SumOver(f, known)
  BY <1>5, <1>10, SumOfLess
<1>12. SumOver(f, known) \in Nat /\ SumOver(f, known) <= SumOver(f, read) /\ SumOver(f, read) \in Nat
  BY <1>1, <1>4, SumOfPart, SumIsNat, <1>10
<1>13. SumOver(part, shown) = SumOver(part, known)
  BY <1>8, <1>9, <1>11
<1>14. ASSUME shown = native, \A p \in read : part[p] = Amount(delta[p])
       PROVE  SumOver(part, known) = SumOver(f, read)
  <2>1. known = read
    BY <1>14 DEF known
  <2>2. \A p \in read : part[p] = f[p]
    BY <1>3, <1>14
  <2>3. QED
    BY <1>1, <2>1, <2>2, SumOfSame
<1>15. QED
  BY <1>2, <1>11, <1>12, <1>13, <1>14

\* A call's rows add up, whatever caches it found.
LEMMA PollReconciles ==
  ASSUME CInv, NEW native \in SUBSET alive, NEW seen, RegistryWalk(seen), Poll(native, seen)
  PROVE  SumReconciles'
<1> DEFINE clients == DOMAIN seen
           read == native \cap clients
           delta == [p \in native |-> _delta_ns(cpuCache, Key(p), cpu[p])]
           gpuDelta == [p \in read |-> _delta_ns(gpuCache, Key(p), seen[p])]
<1>1. /\ rows' = [p \in native |->
            [cpu |-> delta[p], gpu |-> IF p \in clients THEN gpuDelta[p] ELSE 0]]
      /\ total' = SumOf(delta, native) /\ totalGpu' = SumOf(gpuDelta, read)
  BY DEF Poll, Counted
<1>2. IsFiniteSet(native) /\ read \in SUBSET native
  BY TableAssumption, FS_Subset DEF CInv, WorldTypeOK
<1>3. ASSUME NEW p \in native
      PROVE  delta[p] = None \/ delta[p] \in Nat
  <2>1. p \in alive /\ cpu[p] \in Nat /\ cpuSince[p] \in Nat
    BY DEF CInv, WorldTypeOK
  <2>2. CASE Key(p) \in DOMAIN cpuCache
    <3>1. cpuCache[Key(p)].value \in Nat
      BY <2>1, <2>2 DEF CInv, CpuRemembered
    <3>2. QED
      BY <2>1, <3>1 DEF _delta_ns
  <2>3. CASE Key(p) \notin DOMAIN cpuCache
    BY <2>3 DEF _delta_ns
  <2>4. QED
    BY <2>2, <2>3
<1>4. ASSUME NEW p \in read
      PROVE  gpuDelta[p] = None \/ gpuDelta[p] \in Nat
  <2>1. p \in alive /\ seen[p] \in Nat
    BY DEF CInv, WorldTypeOK, RegistryWalk
  <2>2. CASE Key(p) \in DOMAIN gpuCache
    <3>1. gpuCache[Key(p)].value \in Nat
      BY <2>1, <2>2 DEF CInv, GpuRemembered
    <3>2. QED
      BY <2>1, <3>1 DEF _delta_ns
  <2>3. CASE Key(p) \notin DOMAIN gpuCache
    BY <2>3 DEF _delta_ns
  <2>4. QED
    BY <2>2, <2>3
<1>5. rows' # None => Rows' = native
  BY <1>1 DEF Rows
<1>6. ASSUME NEW p \in native
      PROVE  /\ rows'[p].cpu = delta[p]
             /\ p \in read => rows'[p].gpu = gpuDelta[p]
             /\ p \notin read => rows'[p].gpu = 0
  BY <1>1
<1> HIDE DEF delta, gpuDelta, read
<1>7. ASSUME NEW p \in native
      PROVE  /\ attributed_w(p)'.cpu = Amount(delta[p])
             /\ \/ attributed_w(p)'.gpu = 0
                \/ p \in read /\ attributed_w(p)'.gpu = Amount(gpuDelta[p])
  BY <1>6 DEF attributed_w, Amount
<1>8. ASSUME NEW shown \in SUBSET native
      PROVE  /\ shown_pwr(shown)'.cpu <= Whole(total)' /\ shown_pwr(shown)'.gpu <= Whole(totalGpu)'
             /\ shown = native => shown_pwr(shown)'.cpu = total'
             /\ (shown = native /\ \A p \in read : attributed_w(p)'.gpu = Amount(gpuDelta[p]))
                  => shown_pwr(shown)'.gpu = totalGpu'
  <2> DEFINE cpus == [p \in shown |-> attributed_w(p)'.cpu]
             gpus == [p \in shown |-> attributed_w(p)'.gpu]
  <2>1. shown_pwr(shown)'.cpu = SumOver(cpus, shown) /\ shown_pwr(shown)'.gpu = SumOver(gpus, shown)
    BY DEF shown_pwr
  <2>2. /\ \A p \in shown : cpus[p] = Amount(delta[p])
        /\ \A p \in shown : gpus[p] = 0 \/ (p \in read /\ gpus[p] = Amount(gpuDelta[p]))
    BY <1>7
  <2>3. (shown = native /\ \A p \in read : attributed_w(p)'.gpu = Amount(gpuDelta[p]))
          => \A p \in read : gpus[p] = Amount(gpuDelta[p])
    BY <1>2
  <2> HIDE DEF cpus, gpus
  <2>4. /\ SumOver(cpus, shown) \in Nat /\ SumOf(delta, native) \in Nat
        /\ SumOver(cpus, shown) <= SumOf(delta, native)
        /\ shown = native => SumOver(cpus, shown) = SumOf(delta, native)
    BY <1>2, <1>3, <2>2, CpuAddsUp
  <2>5. /\ SumOver(gpus, shown) \in Nat /\ SumOf(gpuDelta, read) \in Nat
        /\ SumOver(gpus, shown) <= SumOf(gpuDelta, read)
        /\ (shown = native /\ \A p \in read : gpus[p] = Amount(gpuDelta[p]))
             => SumOver(gpus, shown) = SumOf(gpuDelta, read)
    BY <1>2, <1>4, <2>2, GpuAddsUp
  <2>6. \A t \in Nat, x \in Nat : x <= t => x <= Whole(t)
    BY DEF Whole
  <2>7. Whole(total)' = Whole(total') /\ Whole(totalGpu)' = Whole(totalGpu')
    BY DEF Whole
  <2>8. QED
    BY <1>1, <2>1, <2>3, <2>4, <2>5, <2>6, <2>7
<1>9. ASSUME rows' # None, \A p \in native : truth'[p].later, NEW p \in read
      PROVE  attributed_w(p)'.gpu = Amount(gpuDelta[p])
  <2>1. PendingWithholdsNothing'
    BY PollResult DEF ResultOK
  <2>2. p \in native /\ rows'[p].gpu = gpuDelta[p]
    BY <1>2, <1>6
  <2>3. rows'[p].cpu = None => rows'[p].gpu \in {None, 0}
    BY <1>5, <1>9, <2>1, <2>2 DEF PendingWithholdsNothing
  <2>4. attributed_w(p)'.gpu = IF rows'[p].cpu = None \/ rows'[p].gpu = None THEN 0 ELSE rows'[p].gpu
    BY DEF attributed_w
  <2>5. QED
    BY <2>2, <2>3, <2>4 DEF Amount
<1>10. QED
  <2> SUFFICES ASSUME rows' # None
               PROVE  /\ \A shown \in SUBSET native :
                           /\ shown_pwr(shown)'.cpu <= Whole(total)'
                           /\ shown_pwr(shown)'.gpu <= Whole(totalGpu)'
                      /\ (\A p \in native : truth'[p].later) =>
                           /\ total' > 0 => shown_pwr(native)'.cpu = Whole(total)'
                           /\ totalGpu' > 0 => shown_pwr(native)'.gpu = Whole(totalGpu)'
    BY <1>5 DEF SumReconciles
  <2>1. ASSUME \A p \in native : truth'[p].later
        PROVE  /\ total' > 0 => shown_pwr(native)'.cpu = Whole(total)'
               /\ totalGpu' > 0 => shown_pwr(native)'.gpu = Whole(totalGpu)'
    <3>1. shown_pwr(native)'.cpu = total' /\ shown_pwr(native)'.gpu = totalGpu'
      BY <1>8, <1>9, <2>1
    <3>2. QED
      BY <3>1 DEF Whole
  <2>2. QED
    BY <1>8, <2>1

LEMMA ReconcilesNext == CInv /\ SumReconciles /\ [Next]_vars => SumReconciles'
<1> SUFFICES ASSUME CInv, SumReconciles, [Next]_vars PROVE SumReconciles'
  OBVIOUS
<1>1. CASE Machine
  <2>1. rows' = None
    BY <1>1 DEF Machine, Tick, StepBack, Spawn, Exit, RunCpu, RunGpu, CloseClient, NoResult
  <2>2. QED
    BY <2>1 DEF SumReconciles
<1>2. CASE get_top_processes
  BY <1>2, PollReconciles, RegistryReads DEF get_top_processes, get_native_processes
<1>3. CASE UNCHANGED vars
  BY <1>3 DEF vars, callVars, SumReconciles, shown_pwr, attributed_w, Rows, Whole
<1>4. QED
  BY <1>1, <1>2, <1>3 DEF Next

\* For any PIDs and any bounds: whatever rows are shown, they are attributed no more than
\* the package's CPU and GPU power, and all rows together are attributed all the power of
\* a kind that any of them has a delta of (app.py lines 660-663).
THEOREM RowsAddUp == Spec => []SumReconciles
<1>1. Init => SumReconciles
  BY DEF Init, SumReconciles
<1>2. QED
  BY <1>1, CInvInit, ResultsNext, ReconcilesNext, PTL DEF Spec

-----------------------------------------------------------------------------

\* A listed process has a PID and a CPU delta that is a number or pending.
RowsTyped == \A p \in Rows : p \in Pids /\ rows[p].cpu \in Nat \cup {None}

LEMMA RowsTypedNext ==
  CInv /\ ResultOK /\ RowsTyped /\ [Next]_vars => RowsTyped'
<1> SUFFICES ASSUME CInv, ResultOK, RowsTyped, [Next]_vars PROVE RowsTyped'
    OBVIOUS
<1>1. CASE Machine
  BY <1>1 DEF Machine, Tick, StepBack, Spawn, Exit, RunCpu, RunGpu, CloseClient, NoResult, RowsTyped, Rows
<1>2. ASSUME NEW native \in SUBSET alive, NEW seen, RegistryWalk(seen), Poll(native, seen)
      PROVE  RowsTyped'
  <2>1. ResultOK'
    BY <1>2, PollResult
  <2>2. CpuOverInterval'
    BY <2>1 DEF ResultOK
  <2>3. rows' # None => DOMAIN rows' = native
    BY <1>2 DEF Poll
  <2>4. Rows' \subseteq native
    BY <2>3 DEF Rows
  <2>5. \A p \in native : truth'[p].cpu = cpuSince[p]
    BY <1>2 DEF Poll
  <2>6. \A p \in native : p \in Pids /\ cpuSince[p] \in Nat
    BY DEF CInv, WorldTypeOK
  <2>7. \A p \in Rows' : rows'[p].cpu = truth'[p].cpu \/ rows'[p].cpu = None
    BY <2>2 DEF CpuOverInterval
  <2> QED  BY <2>4, <2>5, <2>6, <2>7 DEF RowsTyped
<1>3. CASE get_top_processes
  BY <1>2, <1>3, RegistryReads DEF get_top_processes, get_native_processes
<1>4. CASE UNCHANGED vars
  BY <1>4 DEF vars, callVars, RowsTyped, Rows
<1> QED  BY <1>1, <1>3, <1>4 DEF Next

\* The two orders are total up to ties: a row that outranks another outranks it by way of
\* every row it does not outrank.
LEMMA OrdersAreWeak ==
  ASSUME RowsTyped, NEW rss \in [Pids -> Nat]
  PROVE  /\ \A a, b, x \in Rows : <<b, a>> \in ByMemory(rss) /\ <<b, x>> \notin ByMemory(rss)
                                    => <<x, a>> \in ByMemory(rss)
         /\ \A a, b, x \in Rows : <<b, a>> \in ByCpu(rss) /\ <<b, x>> \notin ByCpu(rss)
                                    => <<x, a>> \in ByCpu(rss)
<1>1. \A p \in Rows : rss[p] \in Nat
  BY DEF RowsTyped
<1>2. \A p \in Rows : cpu_percent(p) \in Nat
  BY DEF RowsTyped, cpu_percent
<1>3. \A p, q \in Rows : <<p, q>> \in ByMemory(rss) <=> rss[p] > rss[q]
  BY DEF ByMemory
<1>4. \A p, q \in Rows :
        <<p, q>> \in ByCpu(rss) <=> \/ cpu_percent(p) > cpu_percent(q)
                                    \/ cpu_percent(p) = cpu_percent(q) /\ rss[p] > rss[q]
  BY DEF ByCpu
<1>5. ASSUME NEW a \in Rows, NEW b \in Rows, NEW x \in Rows,
             <<b, a>> \in ByMemory(rss), <<b, x>> \notin ByMemory(rss)
      PROVE  <<x, a>> \in ByMemory(rss)
  BY <1>1, <1>3, <1>5
<1>6. ASSUME NEW a \in Rows, NEW b \in Rows, NEW x \in Rows,
             <<b, a>> \in ByCpu(rss), <<b, x>> \notin ByCpu(rss)
      PROVE  <<x, a>> \in ByCpu(rss)
  BY <1>1, <1>2, <1>4, <1>6
<1> QED  BY <1>5, <1>6

LEMMA TypedIsFaithful == RowsTyped => TableFaithful
<1> SUFFICES ASSUME RowsTyped,
                    NEW rss \in [Pids -> MemSizes], NEW matching \in SUBSET Pids,
                    NEW height \in 1..Limit, NEW pool \in Pools(rss, matching)
             PROVE  /\ Tops(pool, height, ByMemory(rss)) \subseteq Tops(Entries(matching), height, ByMemory(rss))
                    /\ Tops(pool, height, ByCpu(rss)) \subseteq Tops(Entries(matching), height, ByCpu(rss))
  BY DEF TableFaithful, sort_processes
<1> DEFINE S == Entries(matching)
<1>1. S \subseteq Rows /\ S \subseteq Pids
  BY DEF Entries
<1>2. IsFiniteSet(S)
  BY <1>1, TableAssumption, FS_Subset
<1>3. Limit \in Nat /\ height \in Nat /\ height <= Limit
  BY TableAssumption
<1>4. rss \in [Pids -> Nat]
  BY TableAssumption
<1>5. PICK C \in Tops(S, Limit, ByCpu(rss)), M \in Tops(S, Limit, ByMemory(rss)) : pool = C \cup M
  BY DEF Pools
<1>6. C \in SUBSET S /\ M \in SUBSET S
  BY <1>2, <1>3, TopsFacts
<1>7. /\ \A a, b, x \in S : <<b, a>> \in ByMemory(rss) /\ <<b, x>> \notin ByMemory(rss)
                               => <<x, a>> \in ByMemory(rss)
      /\ \A a, b, x \in S : <<b, a>> \in ByCpu(rss) /\ <<b, x>> \notin ByCpu(rss)
                               => <<x, a>> \in ByCpu(rss)
  BY <1>1, <1>4, OrdersAreWeak
<1> HIDE DEF S
<1>8. ASSUME NEW T \in Tops(pool, height, ByMemory(rss)) PROVE T \in Tops(S, height, ByMemory(rss))
  BY <1>2, <1>3, <1>5, <1>6, <1>7, <1>8, PoolKeepsTops
<1>9. ASSUME NEW T \in Tops(pool, height, ByCpu(rss)) PROVE T \in Tops(S, height, ByCpu(rss))
  <2>1. pool = M \cup C
    BY <1>5
  <2> QED  BY <1>2, <1>3, <1>5, <1>6, <1>7, <1>9, <2>1, PoolKeepsTops
<1> QED  BY <1>8, <1>9 DEF S

\* For any number of processes, sizes and limits: the rows the table shows by CPU or by
\* memory are the first of all processes that match, not just of the pool (api.py lines
\* 20-53).
THEOREM PoolIsFaithful == Spec => []TableFaithful
<1>1. Init => RowsTyped
  BY DEF Init, RowsTyped, Rows
<1> QED  BY <1>1, CInvInit, ResultsNext, RowsTypedNext, TypedIsFaithful, PTL DEF Spec

-----------------------------------------------------------------------------
(* Sample conversion: the apportionment.                                   *)

\* The four buckets by name.
LEMMA FourBuckets ==
  /\ BucketSet = {"idle", "low", "mid", "high"}
  /\ DOMAIN Buckets = {1, 2, 3, 4}
  /\ Buckets[1] = "idle" /\ Buckets[2] = "low" /\ Buckets[3] = "mid" /\ Buckets[4] = "high"
  /\ IsFiniteSet(BucketSet)
<1>1. DOMAIN Buckets = {1, 2, 3, 4}
  BY DEF Buckets
<1>2. Buckets[1] = "idle" /\ Buckets[2] = "low" /\ Buckets[3] = "mid" /\ Buckets[4] = "high"
  BY DEF Buckets
<1>3. BucketSet = {"idle", "low", "mid", "high"}
  BY <1>1, <1>2 DEF BucketSet
<1>4. IsFiniteSet({"idle", "low", "mid", "high"})
  <2>1. IsFiniteSet({"idle"}) /\ IsFiniteSet({"idle"} \cup {"low"})
    BY FS_Singleton, FS_AddElement
  <2>2. IsFiniteSet(({"idle"} \cup {"low"}) \cup {"mid"})
    BY <2>1, FS_AddElement
  <2>3. IsFiniteSet((({"idle"} \cup {"low"}) \cup {"mid"}) \cup {"high"})
    BY <2>2, FS_AddElement
  <2>4. {"idle", "low", "mid", "high"} = (({"idle"} \cup {"low"}) \cup {"mid"}) \cup {"high"}
    OBVIOUS
  <2>5. QED
    BY <2>3, <2>4
<1>5. QED
  BY <1>1, <1>2, <1>3, <1>4

LEMMA Places ==
  ASSUME NEW f, \A b \in BucketSet : f[b] \in Nat
  PROVE  LET p == f["idle"] q == f["low"] r == f["mid"] s == f["high"] IN
         /\ Cardinality(Ahead(f, 1)) = Tick1(q > p) + Tick1(r > p) + Tick1(s > p)
         /\ Cardinality(Ahead(f, 2)) = Tick1(p >= q) + Tick1(r > q) + Tick1(s > q)
         /\ Cardinality(Ahead(f, 3)) = Tick1(p >= r) + Tick1(q >= r) + Tick1(s > r)
         /\ Cardinality(Ahead(f, 4)) = Tick1(p >= s) + Tick1(q >= s) + Tick1(r >= s)
<1>1. /\ f["idle"] \in Nat /\ f["low"] \in Nat /\ f["mid"] \in Nat /\ f["high"] \in Nat
  BY FourBuckets
<1>2. ASSUME NEW i \in {1, 2, 3, 4}
      PROVE  Cardinality(Ahead(f, i)) = Tick1(1 \in Ahead(f, i)) + Tick1(2 \in Ahead(f, i))
                                          + Tick1(3 \in Ahead(f, i)) + Tick1(4 \in Ahead(f, i))
  <2>1. Ahead(f, i) \in SUBSET {1, 2, 3, 4}
    BY FourBuckets DEF Ahead
  <2>2. QED
    BY <2>1, CountOfFour
<1>3. ASSUME NEW i \in {1, 2, 3, 4}, NEW j \in {1, 2, 3, 4}
      PROVE  j \in Ahead(f, i) <=> \/ f[Buckets[j]] > f[Buckets[i]]
                                   \/ f[Buckets[j]] = f[Buckets[i]] /\ j < i
  BY FourBuckets DEF Ahead
<1>4. QED
  BY <1>1, <1>2, <1>3, FourBuckets DEF Tick1

LEMMA FewLeft ==
  ASSUME NEW t \in Nat, t > 0, NEW m \in Int, t * m >= 0, t * m < 4 * t
  PROVE  m \in 0..3
<1>1. m >= 0
  <2>1. SUFFICES ASSUME m <= -1 PROVE FALSE
    OBVIOUS
  <2>2. t * m <= t * (-1)
    BY <2>1
  <2>3. QED
    BY <2>2
<1>2. m <= 3
  <2>1. SUFFICES ASSUME m >= 4 PROVE FALSE
    OBVIOUS
  <2>2. t * m >= t * 4
    BY <2>1
  <2>3. QED
    BY <2>2
<1>3. QED
  BY <1>1, <1>2

LEMMA DistributeFour ==
  ASSUME NEW t \in Int, NEW a \in Int, NEW b \in Int, NEW c \in Int, NEW d \in Int
  PROVE  t * (a + b + c + d) = t * a + t * b + t * c + t * d
OBVIOUS

\* What the apportionment leaves of a weight, and whether it gets one of the points left over.
Cut(points, w, whole, b) == (points * w[b]) % whole
Extra(points, w, whole, b) == Apportion(points, w, whole)[b] - ((points * w[b]) \div whole)

\* A weighing: natural numbers that add up to a positive whole.
Weighs(w, whole) ==
  /\ \A b \in BucketSet : w[b] \in Nat
  /\ whole \in Nat /\ whole > 0 /\ SumOver(w, BucketSet) = whole

LEMMA ApportionFacts ==
  ASSUME NEW points \in Nat, NEW w, NEW whole, Weighs(w, whole)
  PROVE  /\ \A b \in BucketSet :
              /\ Apportion(points, w, whole)[b] \in Nat
              /\ Cut(points, w, whole, b) \in Nat /\ Cut(points, w, whole, b) < whole
              /\ Extra(points, w, whole, b) \in {0, 1}
              /\ whole * Apportion(points, w, whole)[b]
                   = points * w[b] - Cut(points, w, whole, b) + whole * Extra(points, w, whole, b)
         /\ \A a, b \in BucketSet :
              Extra(points, w, whole, a) = 1 /\ Extra(points, w, whole, b) = 0
                => Cut(points, w, whole, a) >= Cut(points, w, whole, b)
         /\ SumOver(Apportion(points, w, whole), BucketSet) = points
<1> DEFINE floors == [b \in BucketSet |-> (points * w[b]) \div whole]
           fraction == [b \in BucketSet |-> (points * w[b]) % whole]
           m == points - SumOver(floors, BucketSet)
           place(i) == Cardinality(Ahead(fraction, i))
           result_ == Apportion(points, w, whole)
<1>1. ASSUME NEW b \in BucketSet
      PROVE  /\ floors[b] \in Nat /\ fraction[b] \in Nat /\ fraction[b] < whole
             /\ whole * floors[b] + fraction[b] = points * w[b] /\ w[b] \in Nat
  <2>1. w[b] \in Nat /\ points * w[b] \in Nat /\ whole \in Nat /\ whole > 0
    BY DEF Weighs
  <2>2. /\ (points * w[b]) \div whole \in Nat /\ (points * w[b]) % whole \in Nat
        /\ (points * w[b]) % whole < whole
        /\ whole * ((points * w[b]) \div whole) + ((points * w[b]) % whole) = points * w[b]
    BY <2>1, Division
  <2>3. QED
    BY <2>1, <2>2
<1>2. result_ = [b \in BucketSet |->
        IF \E i \in DOMAIN Buckets : b = Buckets[i] /\ place(i) < m THEN floors[b] + 1 ELSE floors[b]]
  BY DEF Apportion
<1>3. \A b \in BucketSet : /\ Cut(points, w, whole, b) = fraction[b]
                           /\ Extra(points, w, whole, b) = result_[b] - floors[b]
  BY DEF Cut, Extra
<1> HIDE DEF floors, fraction, result_
<1>4. /\ Summable(floors, BucketSet) /\ Summable(w, BucketSet)
      /\ SumOver(floors, BucketSet) \in Nat
  BY <1>1, FourBuckets, SumIsNat DEF Summable
<1>5. /\ SumOver(floors, BucketSet) = floors["idle"] + floors["low"] + floors["mid"] + floors["high"]
      /\ whole = w["idle"] + w["low"] + w["mid"] + w["high"]
  <2>1. "idle" \notin {"low", "mid", "high"} /\ "low" \notin {"mid", "high"} /\ "mid" # "high"
    OBVIOUS
  <2>2. BucketSet = {"idle", "low", "mid", "high"}
    BY FourBuckets
  <2>3. SumOver(floors, BucketSet) = floors["idle"] + floors["low"] + floors["mid"] + floors["high"]
    BY <1>4, <2>1, <2>2, SumOfFour
  <2>4. SumOver(w, BucketSet) = w["idle"] + w["low"] + w["mid"] + w["high"]
    BY <1>4, <2>1, <2>2, SumOfFour
  <2>5. QED
    BY <2>3, <2>4 DEF Weighs
<1>6. m \in 0..3
  <2>1. /\ whole \in Nat /\ whole > 0
        /\ "idle" \in BucketSet /\ "low" \in BucketSet /\ "mid" \in BucketSet /\ "high" \in BucketSet
    BY FourBuckets DEF Weighs
  <2>2. points * whole = points * w["idle"] + points * w["low"] + points * w["mid"] + points * w["high"]
    BY <1>1, <1>5, <2>1, DistributeFour
  <2>3. whole * SumOver(floors, BucketSet)
          = whole * floors["idle"] + whole * floors["low"] + whole * floors["mid"] + whole * floors["high"]
    BY <1>1, <1>5, <2>1, DistributeFour
  <2>4. /\ fraction["idle"] \in Nat /\ fraction["low"] \in Nat /\ fraction["mid"] \in Nat /\ fraction["high"] \in Nat
        /\ fraction["idle"] < whole /\ fraction["low"] < whole /\ fraction["mid"] < whole /\ fraction["high"] < whole
    BY <1>1, <2>1
  <2>5. points * whole - whole * SumOver(floors, BucketSet)
          = fraction["idle"] + fraction["low"] + fraction["mid"] + fraction["high"]
    <3>1. /\ whole * floors["idle"] \in Int /\ whole * floors["low"] \in Int
          /\ whole * floors["mid"] \in Int /\ whole * floors["high"] \in Int
      BY <1>1, <2>1
    <3>2. /\ whole * floors["idle"] + fraction["idle"] = points * w["idle"]
          /\ whole * floors["low"] + fraction["low"] = points * w["low"]
          /\ whole * floors["mid"] + fraction["mid"] = points * w["mid"]
          /\ whole * floors["high"] + fraction["high"] = points * w["high"]
      BY <1>1, <2>1
    <3>3. QED
      BY <2>2, <2>3, <2>4, <3>1, <3>2
  <2>6. whole * m = points * whole - whole * SumOver(floors, BucketSet)
    BY <1>4, <2>1
  <2>7. whole * m >= 0 /\ whole * m < 4 * whole
    BY <2>1, <2>4, <2>5, <2>6
  <2>8. m \in Int
    BY <1>4
  <2> HIDE DEF m
  <2>9. QED
    BY <2>1, <2>7, <2>8, FewLeft
<1> HIDE DEF m
<1>7. /\ place(1) = Tick1(fraction["low"] > fraction["idle"]) + Tick1(fraction["mid"] > fraction["idle"])
                      + Tick1(fraction["high"] > fraction["idle"])
      /\ place(2) = Tick1(fraction["idle"] >= fraction["low"]) + Tick1(fraction["mid"] > fraction["low"])
                      + Tick1(fraction["high"] > fraction["low"])
      /\ place(3) = Tick1(fraction["idle"] >= fraction["mid"]) + Tick1(fraction["low"] >= fraction["mid"])
                      + Tick1(fraction["high"] > fraction["mid"])
      /\ place(4) = Tick1(fraction["idle"] >= fraction["high"]) + Tick1(fraction["low"] >= fraction["high"])
                      + Tick1(fraction["mid"] >= fraction["high"])
  BY <1>1, Places
<1>8. /\ result_["idle"] = floors["idle"] + Tick1(place(1) < m)
      /\ result_["low"] = floors["low"] + Tick1(place(2) < m)
      /\ result_["mid"] = floors["mid"] + Tick1(place(3) < m)
      /\ result_["high"] = floors["high"] + Tick1(place(4) < m)
  <2> HIDE DEF place
  <2>1. QED
    BY <1>1, <1>2, FourBuckets DEF Tick1
<1> HIDE DEF place
<1>9. \A b \in BucketSet : floors[b] \in Nat /\ fraction[b] \in Nat
  BY <1>1
<1>10. /\ \A b \in BucketSet : result_[b] \in Nat /\ result_[b] - floors[b] \in {0, 1}
       /\ \A a, b \in BucketSet :
            result_[a] - floors[a] = 1 /\ result_[b] - floors[b] = 0 => fraction[a] >= fraction[b]
  BY <1>6, <1>7, <1>8, <1>9, FourBuckets DEF Tick1
<1>11. SumOver(result_, BucketSet) = points
  <2>1. SumOver(result_, BucketSet) = result_["idle"] + result_["low"] + result_["mid"] + result_["high"]
    <3>1. "idle" \notin {"low", "mid", "high"} /\ "low" \notin {"mid", "high"} /\ "mid" # "high"
      OBVIOUS
    <3>2. Summable(result_, BucketSet)
      BY <1>10, FourBuckets DEF Summable
    <3>3. BucketSet = {"idle", "low", "mid", "high"}
      BY FourBuckets
    <3>4. QED
      BY <3>1, <3>2, <3>3, SumOfFour
  <2>2. Tick1(place(1) < m) + Tick1(place(2) < m) + Tick1(place(3) < m) + Tick1(place(4) < m) = m
    <3>1. /\ m \in 0..4
          /\ fraction["idle"] \in Nat /\ fraction["low"] \in Nat
          /\ fraction["mid"] \in Nat /\ fraction["high"] \in Nat
      BY <1>6, <1>9, FourBuckets
    <3>2. ASSUME NEW p \in Nat, NEW q \in Nat, NEW r \in Nat, NEW s \in Nat,
                 p = fraction["idle"], q = fraction["low"], r = fraction["mid"], s = fraction["high"]
          PROVE  Tick1(place(1) < m) + Tick1(place(2) < m) + Tick1(place(3) < m) + Tick1(place(4) < m) = m
      <4>1. /\ place(1) = Tick1(q > p) + Tick1(r > p) + Tick1(s > p)
            /\ place(2) = Tick1(p >= q) + Tick1(r > q) + Tick1(s > q)
            /\ place(3) = Tick1(p >= r) + Tick1(q >= r) + Tick1(s > r)
            /\ place(4) = Tick1(p >= s) + Tick1(q >= s) + Tick1(r >= s)
        BY <1>7, <3>2
      <4>2. ASSUME NEW n \in 0..4, n = m
            PROVE  Tick1(place(1) < n) + Tick1(place(2) < n) + Tick1(place(3) < n) + Tick1(place(4) < n) = n
        <5>1. n = 0 \/ n = 1 \/ n = 2 \/ n = 3 \/ n = 4
          OBVIOUS
        <5>2. QED
          BY <4>1, <5>1 DEF Tick1
      <4>3. QED
        BY <3>1, <4>2
    <3>3. QED
      BY <3>1, <3>2
  <2>3. /\ Tick1(place(1) < m) \in Nat /\ Tick1(place(2) < m) \in Nat
        /\ Tick1(place(3) < m) \in Nat /\ Tick1(place(4) < m) \in Nat
    BY DEF Tick1
  <2>4. points = m + SumOver(floors, BucketSet)
    BY <1>4 DEF m
  <2>5. QED
    BY <1>4, <1>5, <1>6, <1>8, <1>9, <2>1, <2>2, <2>3, <2>4, FourBuckets
<1>12. ASSUME NEW b \in BucketSet
       PROVE  whole * result_[b] = points * w[b] - fraction[b] + whole * (result_[b] - floors[b])
  <2>1. /\ whole \in Nat /\ result_[b] \in Nat /\ floors[b] \in Nat /\ fraction[b] \in Nat
        /\ whole * floors[b] + fraction[b] = points * w[b]
    BY <1>1, <1>10 DEF Weighs
  <2>2. whole * result_[b] = whole * floors[b] + whole * (result_[b] - floors[b])
    BY <2>1
  <2>3. whole * floors[b] \in Int /\ whole * (result_[b] - floors[b]) \in Int
    BY <2>1
  <2>4. whole * floors[b] = points * w[b] - fraction[b]
    BY <2>1, <2>3
  <2>5. QED
    BY <2>2, <2>4
<1>13. QED
  BY <1>1, <1>3, <1>10, <1>11, <1>12 DEF result_

-----------------------------------------------------------------------------
(* The shares of a cluster.                                                *)

LEMMA CeilingIsGreatest ==
  ASSUME table \in Seq(Nat)
  PROVE  max_freq \in Nat /\ \A i \in DOMAIN table : table[i] <= max_freq
<1>1. CASE table = <<>>
  BY <1>1 DEF max_freq
<1>2. CASE table # <<>>
  <2> DEFINE F == {table[i] : i \in DOMAIN table}
             h == [i \in DOMAIN table |-> table[i]]
  <2>1. /\ DOMAIN table = 1..Len(table) /\ Len(table) \in Nat /\ Len(table) > 0
        /\ \A i \in DOMAIN table : table[i] \in Nat
    BY <1>2
  <2>2. IsFiniteSet(DOMAIN table)
    <3>1. 1 \in Int /\ Len(table) \in Int
      BY <2>1
    <3>2. QED
      BY <2>1, <3>1, FS_Interval
  <2>3. h \in Surjection(DOMAIN table, F)
    BY DEF Surjection
  <2>4. IsFiniteSet(F)
    BY <2>2, <2>3, FS_Surjection
  <2>5. F \in SUBSET Int /\ F # {} /\ F \subseteq Nat /\ \A i \in DOMAIN table : table[i] \in F
    BY <2>1
  <2> HIDE DEF F
  <2>6. Max(F) \in F /\ \A x \in F : Max(F) >= x
    BY <2>4, <2>5, MaxExists
  <2>7. max_freq = Max(F)
    BY <1>2 DEF max_freq, F
  <2>8. \A x \in F : x <= Max(F)
    BY <2>5, <2>6
  <2>9. QED
    BY <2>5, <2>6, <2>7, <2>8
<1>3. QED
  BY <1>1, <1>2

LEMMA NamesResolve ==
  ASSUME table \in Seq(Nat), NEW name \in Names
  PROVE  /\ _resolve_state_freq(name) = Null \/ _resolve_state_freq(name) \in Nat
         /\ BucketOf(name) \in BucketSet
<1>1. name.kind \in {"off", "odd", "mhz", "index"} /\ name.n \in Nat
  BY NamesAssumption
<1>2. _resolve_state_freq(name) = Null \/ _resolve_state_freq(name) \in Nat
  <2>1. CASE name.kind = "index" /\ name.n < Len(table)
    <3>1. name.n + 1 \in 1..Len(table) /\ name.kind # "mhz"
      BY <1>1, <2>1
    <3>2. table[name.n + 1] \in Nat
      BY <3>1
    <3>3. _resolve_state_freq(name) = table[name.n + 1]
      BY <2>1, <3>1 DEF _resolve_state_freq
    <3>4. QED
      BY <3>2, <3>3
  <2>2. CASE name.kind = "mhz"
    BY <1>1, <2>2 DEF _resolve_state_freq
  <2>3. CASE name.kind # "mhz" /\ ~ (name.kind = "index" /\ name.n < Len(table))
    BY <2>3 DEF _resolve_state_freq
  <2>4. QED
    BY <2>1, <2>2, <2>3
<1>3. max_freq \in Nat
  BY CeilingIsGreatest
<1>4. ASSUME NEW freq \in Nat
      PROVE  _bucket_for_freq_ratio(freq) \in {"low", "mid", "high"}
  <2>1. CASE 4 * freq >= 3 * max_freq
    <3>1. ~ (4 * freq < 3 * max_freq) /\ (max_freq = 0 \/ ~ (5 * freq < 2 * max_freq))
      BY <1>3, <2>1
    <3>2. CASE ~ (5 * freq < 2 * max_freq)
      BY <2>1, <3>1, <3>2 DEF _bucket_for_freq_ratio
    <3>3. CASE max_freq = 0
      <4>1. ~ (5 * freq < 2 * max_freq)
        BY <3>3
      <4>2. QED
        BY <3>2, <4>1
    <3>4. QED
      BY <3>1, <3>2, <3>3
  <2>2. CASE ~ (4 * freq >= 3 * max_freq) /\ 5 * freq >= 2 * max_freq
    <3>1. 4 * freq < 3 * max_freq /\ ~ (5 * freq < 2 * max_freq)
      BY <1>3, <2>2
    <3>2. QED
      BY <2>2, <3>1 DEF _bucket_for_freq_ratio
  <2>3. CASE ~ (4 * freq >= 3 * max_freq) /\ ~ (5 * freq >= 2 * max_freq)
    <3>1. 5 * freq < 2 * max_freq
      BY <1>3, <2>3
    <3>2. QED
      BY <2>3, <3>1 DEF _bucket_for_freq_ratio
  <2>4. QED
    BY <2>1, <2>2, <2>3
<1>5. QED
  BY <1>2, <1>4, FourBuckets DEF BucketOf

\* The buckets share out all the time there is.
LEMMA BucketsPartition ==
  ASSUME table \in Seq(Nat), NEW ns \in [Names -> Nat]
  PROVE  /\ \A S \in SUBSET Names : SumOver(ns, S) \in Nat
         /\ \A b \in BucketSet : BucketNs(ns)[b] \in Nat
         /\ SumOver(BucketNs(ns), BucketSet) = SumOver(ns, Names)
<1> DEFINE In(b) == {name \in Names : BucketOf(name) = b}
<1>1. \A S \in SUBSET Names : Summable(ns, S)
  BY NamesAssumption, FS_Subset DEF Summable
<1>2. \A S \in SUBSET Names : SumOver(ns, S) \in Nat
  BY <1>1, SumIsNat
<1>3. \A b \in BucketSet : BucketNs(ns)[b] = SumOver(ns, In(b))
  BY DEF BucketNs
<1>4. \A b \in BucketSet : In(b) \in SUBSET Names
  OBVIOUS
<1>5. Names = (In("idle") \cup In("low")) \cup (In("mid") \cup In("high"))
  BY NamesResolve, FourBuckets
<1>6. /\ In("idle") \cap In("low") = {} /\ In("mid") \cap In("high") = {}
      /\ (In("idle") \cup In("low")) \cap (In("mid") \cup In("high")) = {}
  OBVIOUS
<1>7. \A b \in BucketSet : Summable(ns, In(b)) /\ SumOver(ns, In(b)) \in Nat
  BY <1>1, <1>2, <1>4
<1> HIDE DEF In
<1>8. Summable(ns, In("idle") \cup In("low")) /\ Summable(ns, In("mid") \cup In("high"))
  BY <1>7, SummableUnion, FourBuckets
<1>9. /\ SumOver(ns, In("idle") \cup In("low")) = SumOver(ns, In("idle")) + SumOver(ns, In("low"))
      /\ SumOver(ns, In("mid") \cup In("high")) = SumOver(ns, In("mid")) + SumOver(ns, In("high"))
  BY <1>6, <1>7, SumSplits, FourBuckets
<1>10. SumOver(ns, Names) = SumOver(ns, In("idle") \cup In("low")) + SumOver(ns, In("mid") \cup In("high"))
  BY <1>5, <1>6, <1>8, SumSplits
<1>11. SumOver(BucketNs(ns), BucketSet)
         = BucketNs(ns)["idle"] + BucketNs(ns)["low"] + BucketNs(ns)["mid"] + BucketNs(ns)["high"]
  <2>1. "idle" \notin {"low", "mid", "high"} /\ "low" \notin {"mid", "high"} /\ "mid" # "high"
    OBVIOUS
  <2>2. Summable(BucketNs(ns), BucketSet)
    BY <1>3, <1>7, FourBuckets DEF Summable
  <2>3. BucketSet = {"idle", "low", "mid", "high"}
    BY FourBuckets
  <2>4. QED
    BY <2>1, <2>2, <2>3, SumOfFour
<1>12. QED
  BY <1>2, <1>3, <1>7, <1>9, <1>10, <1>11, FourBuckets

LEMMA ApportionIsClosest ==
  ASSUME NEW w, NEW whole, Weighs(w, whole)
  PROVE  Closest(Apportion(100, w, whole), w, whole)
<1> DEFINE shares == Apportion(100, w, whole)
           off == [b \in BucketSet |-> shares[b] * whole - 100 * w[b]]
           cut(b) == Cut(100, w, whole, b)
           extra(b) == Extra(100, w, whole, b)
<1>0. ASSUME NEW p \in Nat, p = 100
      PROVE  /\ \A b \in BucketSet :
                  /\ Apportion(p, w, whole)[b] \in Nat
                  /\ Cut(p, w, whole, b) \in Nat /\ Cut(p, w, whole, b) < whole
                  /\ Extra(p, w, whole, b) \in {0, 1}
                  /\ whole * Apportion(p, w, whole)[b]
                       = p * w[b] - Cut(p, w, whole, b) + whole * Extra(p, w, whole, b)
             /\ \A a, b \in BucketSet :
                  Extra(p, w, whole, a) = 1 /\ Extra(p, w, whole, b) = 0
                    => Cut(p, w, whole, a) >= Cut(p, w, whole, b)
             /\ SumOver(Apportion(p, w, whole), BucketSet) = p
  BY ApportionFacts
<1>1. /\ \A b \in BucketSet :
           /\ shares[b] \in Nat /\ cut(b) \in Nat /\ cut(b) < whole /\ extra(b) \in {0, 1}
           /\ whole * shares[b] = 100 * w[b] - cut(b) + whole * extra(b)
      /\ \A a, b \in BucketSet : extra(a) = 1 /\ extra(b) = 0 => cut(a) >= cut(b)
      /\ SumOver(shares, BucketSet) = 100
  BY <1>0
<1>2. whole \in Nat /\ \A b \in BucketSet : w[b] \in Nat
  BY DEF Weighs
<1> HIDE DEF shares, cut, extra
<1>3. ASSUME NEW b \in BucketSet
      PROVE  \/ extra(b) = 0 /\ off[b] = -cut(b)
             \/ extra(b) = 1 /\ off[b] = whole - cut(b)
  <2>1. off[b] = shares[b] * whole - 100 * w[b]
    OBVIOUS
  <2>2. shares[b] * whole = whole * shares[b]
    BY <1>1, <1>2
  <2>3. CASE extra(b) = 0
    <3>1. whole * extra(b) = 0
      BY <1>2, <2>3
    <3>2. QED
      BY <1>1, <1>2, <2>1, <2>2, <2>3, <3>1
  <2>4. CASE extra(b) = 1
    <3>1. whole * extra(b) = whole
      BY <1>2, <2>4
    <3>2. QED
      BY <1>1, <1>2, <2>1, <2>2, <2>4, <3>1
  <2>5. QED
    BY <1>1, <2>3, <2>4
<1>4. ASSUME NEW a \in BucketSet, NEW b \in BucketSet
      PROVE  Distance(off[a] - whole) + Distance(off[b] + whole) >= Distance(off[a]) + Distance(off[b])
  <2>1. /\ cut(a) \in Nat /\ cut(a) < whole /\ cut(b) \in Nat /\ cut(b) < whole
        /\ extra(a) = 1 /\ extra(b) = 0 => cut(a) >= cut(b)
    BY <1>1
  <2>2. /\ \/ extra(a) = 0 /\ off[a] = -cut(a)
           \/ extra(a) = 1 /\ off[a] = whole - cut(a)
        /\ \/ extra(b) = 0 /\ off[b] = -cut(b)
           \/ extra(b) = 1 /\ off[b] = whole - cut(b)
    BY <1>3
  <2> HIDE DEF off
  <2>3. QED
    BY <1>2, <2>1, <2>2 DEF Distance
<1>5. QED
  BY <1>1, <1>4 DEF Closest, shares

\* The distribution of any residencies.
LEMMA DistributionFacts ==
  ASSUME table \in Seq(Nat), NEW ns \in [Names -> Nat]
  PROVE  LET shares == _compute_residency_distribution(ns)
             whole == SumOver(ns, Names)
         IN  /\ whole \in Nat
             /\ \A b \in BucketSet : shares[b] \in Nat
             /\ whole = 0 => SumOver(shares, BucketSet) = 0
             /\ whole # 0 => /\ Closest(shares, BucketNs(ns), whole)
                             /\ Weighs(BucketNs(ns), whole)
                             /\ shares = Apportion(100, BucketNs(ns), whole)
<1> DEFINE shares == _compute_residency_distribution(ns)
           whole == SumOver(ns, Names)
<1>1. whole \in Nat /\ \A b \in BucketSet : BucketNs(ns)[b] \in Nat
  BY BucketsPartition
<1>2. SumOver(BucketNs(ns), BucketSet) = whole
  BY BucketsPartition
<1>3. CASE whole = 0
  <2>1. shares = [b \in BucketSet |-> 0]
    BY <1>3 DEF _compute_residency_distribution
  <2> HIDE DEF shares
  <2>2. SumOver(shares, BucketSet) = 0
    BY <2>1, FourBuckets, SumOfZeros
  <2>3. QED
    BY <1>1, <1>3, <2>1, <2>2 DEF shares
<1>4. CASE whole # 0
  <2>1. Weighs(BucketNs(ns), whole)
    BY <1>1, <1>2, <1>4 DEF Weighs
  <2>2. shares = Apportion(100, BucketNs(ns), whole)
    BY <1>4 DEF _compute_residency_distribution, _largest_remainder_percentages
  <2>3. Closest(shares, BucketNs(ns), whole)
    BY <2>1, <2>2, ApportionIsClosest
  <2>4. \A b \in BucketSet : shares[b] \in Nat
    <3>1. 100 \in Nat
      OBVIOUS
    <3>2. QED
      BY <2>1, <2>2, <3>1, ApportionFacts
  <2>5. QED
    BY <1>1, <1>4, <2>1, <2>2, <2>3, <2>4
<1>5. QED
  BY <1>3, <1>4

-----------------------------------------------------------------------------
(* Utilization beside the shares.                                          *)

LEMMA Rounds ==
  ASSUME NEW n \in Nat, NEW d \in Nat, d > 0
  PROVE  /\ RoundHalfEven(n, d) \in Nat
         /\ 2 * (d * RoundHalfEven(n, d)) <= 2 * n + d
         /\ 2 * n <= 2 * (d * RoundHalfEven(n, d)) + d
<1> DEFINE q == n \div d
           r == n % d
<1>1. q \in Nat /\ r \in Nat /\ r < d /\ d * q + r = n
  BY Division
<1>2. RoundHalfEven(n, d) = IF 2 * r > d \/ (2 * r = d /\ q % 2 = 1) THEN q + 1 ELSE q
  BY DEF RoundHalfEven
<1> HIDE DEF q, r
<1>3. d * (q + 1) = d * q + d /\ d * q \in Nat
  BY <1>1
<1>4. CASE 2 * r > d \/ (2 * r = d /\ q % 2 = 1)
  <2>1. RoundHalfEven(n, d) = q + 1
    BY <1>2, <1>4
  <2>2. 2 * r >= d
    BY <1>1, <1>4
  <2>3. QED
    BY <1>1, <1>3, <2>1, <2>2
<1>5. CASE ~ (2 * r > d \/ (2 * r = d /\ q % 2 = 1))
  <2>1. RoundHalfEven(n, d) = q
    BY <1>2, <1>5
  <2>2. 2 * r <= d
    BY <1>1, <1>5
  <2>3. QED
    BY <1>1, <1>3, <2>1, <2>2
<1>6. QED
  BY <1>4, <1>5

\* What one channel reports of a core.
Core == [freq : Nat, active : Nat]

\* The names that count as active, and the time in them.
ActiveNames == {name \in Names : Active(name)}

LEMMA MetricsFacts ==
  ASSUME table \in Seq(Nat), NEW ns \in [Names -> Nat]
  PROVE  LET c == _compute_residency_metrics(ns)
             T == SumOver(ns, Names)
             A == SumOver(ns, ActiveNames)
         IN  /\ c \in Core /\ T \in Nat /\ A \in Nat
             /\ 2 * (T * c.active) <= 200 * A + T
             /\ 200 * A <= 2 * (T * c.active) + T
<1> DEFINE c == _compute_residency_metrics(ns)
           T == SumOver(ns, Names)
           A == SumOver(ns, ActiveNames)
           w == [name \in ActiveNames |-> _resolve_state_freq(name) * ns[name]]
           W == SumOver(w, ActiveNames)
<1>1. T \in Nat /\ A \in Nat /\ A <= T
  <2>1. ActiveNames \in SUBSET Names
    BY DEF ActiveNames
  <2>2. Summable(ns, Names)
    BY NamesAssumption DEF Summable
  <2>3. QED
    BY <2>1, <2>2, BucketsPartition, SumOfPart
<1>2. W \in Nat
  <2>1. \A name \in ActiveNames : w[name] \in Nat
    <3>1. SUFFICES ASSUME NEW name \in ActiveNames PROVE w[name] \in Nat
      OBVIOUS
    <3>2. name \in Names /\ _resolve_state_freq(name) # Null
      BY DEF ActiveNames, Active
    <3>3. _resolve_state_freq(name) \in Nat /\ ns[name] \in Nat
      BY <3>2, NamesResolve
    <3>4. QED
      BY <3>3
  <2>2. IsFiniteSet(ActiveNames)
    BY NamesAssumption, FS_Subset DEF ActiveNames
  <2> HIDE DEF w
  <2>3. QED
    BY <2>1, <2>2, SumIsNat DEF Summable
<1>3. c = IF A = 0 THEN [freq |-> 0, active |-> 0]
          ELSE [freq |-> RoundHalfEven(W, A), active |-> RoundHalfEven(100 * A, T)]
  BY DEF _compute_residency_metrics, ActiveNames
<1> HIDE DEF c, T, A, W
<1>4. CASE A = 0
  <2>1. c = [freq |-> 0, active |-> 0]
    BY <1>3, <1>4
  <2>2. T * c.active = 0
    BY <1>1, <2>1
  <2>3. QED
    BY <1>1, <1>4, <2>1, <2>2 DEF Core, c, T, A
<1>5. CASE A # 0
  <2>1. c = [freq |-> RoundHalfEven(W, A), active |-> RoundHalfEven(100 * A, T)]
    BY <1>3, <1>5
  <2>2. A > 0 /\ T > 0 /\ 100 * A \in Nat
    BY <1>1, <1>5
  <2>3. RoundHalfEven(W, A) \in Nat
    BY <1>1, <1>2, <2>2, Rounds
  <2>4. /\ RoundHalfEven(100 * A, T) \in Nat
        /\ 2 * (T * RoundHalfEven(100 * A, T)) <= 2 * (100 * A) + T
        /\ 2 * (100 * A) <= 2 * (T * RoundHalfEven(100 * A, T)) + T
    BY <1>1, <2>2, Rounds
  <2>5. c \in Core /\ c.active = RoundHalfEven(100 * A, T)
    BY <2>1, <2>3, <2>4 DEF Core
  <2>6. 2 * (T * c.active) <= 200 * A + T /\ 200 * A <= 2 * (T * c.active) + T
    BY <1>1, <2>4, <2>5
  <2>7. QED
    BY <1>1, <2>5, <2>6 DEF c, T, A
<1>6. QED
  BY <1>4, <1>5

-----------------------------------------------------------------------------
(* The cluster while its items arrive, and after.                          *)

CoreActives == [i \in DOMAIN coreData |-> coreData[i].active]
CoreSum == SumOver(CoreActives, DOMAIN coreData)
CoreCount == Cardinality(DOMAIN coreData)

\* What finitely many cores report, by their index.
CoreTable(cores) ==
  /\ DOMAIN cores \in SUBSET Nat /\ IsFiniteSet(DOMAIN cores)
  /\ cores \in [DOMAIN cores -> Core]

ClusterOK ==
  /\ table \in Seq(Nat) /\ clusterNs \in [Names -> Nat] /\ CoreTable(coreData) /\ items \in Nat
  /\ items = 0 => DOMAIN coreData = {} /\ clusterNs = Silent /\ even = Null
  /\ result = Null \/ result = cpu_metrics

\* Utilizations of n cores of t each that add up to c, and the active time a of all.
Agree(n, t, c, a) == 2 * (t * c) <= 200 * a + n * t /\ 200 * a <= 2 * (t * c) + n * t

EvenOK ==
  even # Null =>
    /\ even \in Nat /\ CoreCount > 0 /\ SumOver(clusterNs, Names) = CoreCount * even
    /\ Agree(CoreCount, even, CoreSum, SumOver(clusterNs, ActiveNames))

ClusterInv == ClusterOK /\ EvenOK

LEMMA AgreeOneMore ==
  ASSUME NEW n \in Nat, NEW t \in Nat, NEW c \in Nat, NEW a \in Nat, Agree(n, t, c, a),
         NEW x \in Nat, NEW y \in Nat, Agree(1, t, x, y)
  PROVE  Agree(n + 1, t, c + x, a + y) /\ n * t + t = (n + 1) * t
<1>1. t * (c + x) = t * c + t * x /\ (n + 1) * t = n * t + t
  OBVIOUS
<1>2. t * c \in Nat /\ t * x \in Nat /\ n * t \in Nat /\ 1 * t = t
  OBVIOUS
<1>3. QED
  BY <1>1, <1>2 DEF Agree

LEMMA ClusterSums ==
  ASSUME ClusterOK
  PROVE  /\ CoreCount \in Nat /\ (CoreCount = 0 <=> DOMAIN coreData = {})
         /\ \A i \in DOMAIN coreData : CoreActives[i] \in Nat
         /\ Summable(CoreActives, DOMAIN coreData) /\ CoreSum \in Nat
         /\ Summable(clusterNs, Names) /\ Summable(clusterNs, ActiveNames)
         /\ SumOver(clusterNs, Names) \in Nat /\ SumOver(clusterNs, ActiveNames) \in Nat
         /\ ActiveNames \in SUBSET Names
         /\ items = 0 => /\ CoreCount = 0 /\ CoreSum = 0 /\ SumOver(clusterNs, Names) = 0
                         /\ SumOver(clusterNs, ActiveNames) = 0
<1>1. CoreTable(coreData)
  BY DEF ClusterOK
<1>2. CoreCount \in Nat /\ (CoreCount = 0 <=> DOMAIN coreData = {})
  BY <1>1, FS_CardinalityType, FS_EmptySet DEF CoreTable, CoreCount
<1>3. \A i \in DOMAIN coreData : CoreActives[i] \in Nat
  BY <1>1 DEF CoreTable, CoreActives, Core
<1>4. Summable(CoreActives, DOMAIN coreData) /\ CoreSum \in Nat
  <2>1. Summable(CoreActives, DOMAIN coreData)
    BY <1>1, <1>3 DEF Summable, CoreTable
  <2>2. QED
    BY <2>1, SumIsNat DEF CoreSum
<1>5. ActiveNames \in SUBSET Names /\ IsFiniteSet(ActiveNames) /\ IsFiniteSet(Names)
  BY NamesAssumption, FS_Subset DEF ActiveNames
<1>6. Summable(clusterNs, Names) /\ Summable(clusterNs, ActiveNames)
  BY <1>5 DEF Summable, ClusterOK
<1>7. ASSUME items = 0
      PROVE  /\ CoreCount = 0 /\ CoreSum = 0
             /\ SumOver(clusterNs, Names) = 0 /\ SumOver(clusterNs, ActiveNames) = 0
  <2>1. DOMAIN coreData = {}
    BY <1>7 DEF ClusterOK
  <2>2. CoreSum = 0
    BY <2>1, SumOfNone DEF CoreSum
  <2>3. \A name \in Names : clusterNs[name] = 0
    BY <1>7 DEF ClusterOK, Silent
  <2>4. QED
    BY <1>2, <1>5, <2>1, <2>2, <2>3, SumOfZeros
<1>8. QED
  BY <1>2, <1>3, <1>4, <1>5, <1>6, <1>7, SumIsNat

LEMMA ItemKeeps ==
  ASSUME ClusterInv, NEW ch \in Channels, Item(ch)
  PROVE  ClusterInv'
<1> DEFINE c == _compute_residency_metrics(ch.ns)
           t == SumOver(ch.ns, Names)
           a == SumOver(ch.ns, ActiveNames)
           own == ch.index # Null /\ ch.index \notin DOMAIN coreData
<1> USE DEF ClusterInv
<1>1. ch.ns \in [Names -> Nat] /\ (ch.index # Null => ch.index \in Nat)
  BY ChannelsAssumption
<1>2. /\ table' = table /\ result' = result /\ result = Null /\ items' = items + 1
      /\ coreData' = IF ch.index = Null THEN coreData ELSE Keyed(ch.index, c)
      /\ clusterNs' = [name \in Names |-> clusterNs[name] + ch.ns[name]]
      /\ even' = IF own /\ (items = 0 \/ even = t) THEN t ELSE Null
  BY DEF Item
<1>3. /\ c \in Core /\ t \in Nat /\ a \in Nat /\ Agree(1, t, c.active, a)
  <2>1. table \in Seq(Nat)
    BY DEF ClusterOK
  <2>2. /\ c \in Core /\ t \in Nat /\ a \in Nat
        /\ 2 * (t * c.active) <= 200 * a + t
        /\ 200 * a <= 2 * (t * c.active) + t
    BY <1>1, <2>1, MetricsFacts
  <2>3. t = 1 * t
    BY <2>2
  <2> HIDE DEF c, t, a
  <2>4. QED
    BY <2>2, <2>3 DEF Agree
<1> HIDE DEF c, t, a
<1>4. c.active \in Nat
  BY <1>3 DEF Core
<1>5. CoreTable(coreData) /\ items \in Nat
  BY DEF ClusterOK
<1>6. ASSUME ch.index # Null
      PROVE  /\ coreData' = [i \in DOMAIN coreData \cup {ch.index} |-> IF i = ch.index THEN c ELSE coreData[i]]
             /\ DOMAIN coreData' = DOMAIN coreData \cup {ch.index} /\ CoreTable(coreData')
  <2>1. coreData' = [i \in DOMAIN coreData \cup {ch.index} |-> IF i = ch.index THEN c ELSE coreData[i]]
    BY <1>2, <1>6 DEF Keyed
  <2>2. DOMAIN coreData' = DOMAIN coreData \cup {ch.index}
    BY <2>1
  <2>3. IsFiniteSet(DOMAIN coreData') /\ DOMAIN coreData' \in SUBSET Nat
    BY <1>1, <1>5, <1>6, <2>2, FS_AddElement DEF CoreTable
  <2>4. \A i \in DOMAIN coreData' : coreData'[i] \in Core
    BY <1>3, <1>5, <2>1, <2>2 DEF CoreTable
  <2>5. coreData' \in [DOMAIN coreData' -> Core]
    BY <2>1, <2>2, <2>4
  <2>6. QED
    BY <2>1, <2>2, <2>3, <2>5 DEF CoreTable
<1>7. ClusterOK'
  <2>1. clusterNs' \in [Names -> Nat]
    BY <1>1, <1>2 DEF ClusterOK
  <2>2. CoreTable(coreData')
    <3>1. CASE ch.index = Null
      BY <1>2, <1>5, <3>1
    <3>2. QED
      BY <1>6, <3>1
  <2>3. items' \in Nat /\ items' # 0
    BY <1>2, <1>5
  <2>4. QED
    BY <1>2, <2>1, <2>2, <2>3 DEF ClusterOK, CoreTable
<1>8. ASSUME own
      PROVE  CoreSum' = CoreSum + c.active /\ CoreCount' = CoreCount + 1
  <2> DEFINE D == DOMAIN coreData
             i0 == ch.index
  <2>1. /\ i0 \notin D /\ DOMAIN coreData' = D \cup {i0} /\ IsFiniteSet(D)
        /\ coreData' = [i \in D \cup {i0} |-> IF i = i0 THEN c ELSE coreData[i]]
        /\ CoreTable(coreData')
    BY <1>5, <1>6, <1>8 DEF CoreTable
  <2>2. CoreCount' = CoreCount + 1
    BY <2>1, FS_AddElement DEF CoreCount
  <2>3. Summable(CoreActives', D \cup {i0})
    <3>1. \A i \in D \cup {i0} : CoreActives'[i] = coreData'[i].active /\ coreData'[i] \in Core
      BY <2>1 DEF CoreActives, CoreTable
    <3>2. \A i \in D \cup {i0} : CoreActives'[i] \in Nat
      BY <3>1 DEF Core
    <3>3. IsFiniteSet(D \cup {i0})
      BY <2>1 DEF CoreTable
    <3>4. QED
      BY <3>2, <3>3 DEF Summable
  <2>4. CoreActives'[i0] = c.active
    BY <2>1 DEF CoreActives
  <2>5. \A i \in D : CoreActives'[i] = CoreActives[i]
    BY <2>1 DEF CoreActives
  <2>6. SumOver(CoreActives', D) = CoreSum
    BY <2>5, ClusterSums, SumOfSame DEF CoreSum
  <2>7. SumOver(CoreActives', D \cup {i0}) = CoreActives'[i0] + SumOver(CoreActives', D)
    <3>1. (D \cup {i0}) \ {i0} = D
      BY <2>1
    <3>2. i0 \in D \cup {i0}
      OBVIOUS
    <3> HIDE DEF D, i0
    <3>3. QED
      BY <2>3, <3>1, <3>2, SumStep
  <2>8. CoreSum' = SumOver(CoreActives', D \cup {i0})
    BY <2>1 DEF CoreSum
  <2>9. CoreSum \in Nat
    BY ClusterSums
  <2>10. QED
    BY <1>4, <2>2, <2>4, <2>6, <2>7, <2>8, <2>9
<1>9. /\ Summable(clusterNs, Names) /\ Summable(clusterNs, ActiveNames)
      /\ SumOver(clusterNs, Names) \in Nat /\ SumOver(clusterNs, ActiveNames) \in Nat
      /\ ActiveNames \in SUBSET Names /\ CoreSum \in Nat /\ CoreCount \in Nat
      /\ items = 0 => /\ CoreCount = 0 /\ CoreSum = 0 /\ SumOver(clusterNs, Names) = 0
                      /\ SumOver(clusterNs, ActiveNames) = 0
  BY ClusterSums
<1>10. ActiveNames' = ActiveNames
  BY <1>2 DEF ActiveNames, Active, _resolve_state_freq
<1>11. ASSUME NEW S \in SUBSET Names, Summable(clusterNs, S)
       PROVE  SumOver(clusterNs', S) = SumOver(clusterNs, S) + SumOver(ch.ns, S)
  <2>1. Summable(ch.ns, S)
    BY <1>1, <1>11 DEF Summable
  <2>2. \A name \in S : clusterNs'[name] = clusterNs[name] + ch.ns[name]
    BY <1>2
  <2>3. QED
    BY <1>11, <2>1, <2>2, SumOfSums
<1>12. /\ SumOver(clusterNs', Names) = SumOver(clusterNs, Names) + t
       /\ SumOver(clusterNs', ActiveNames) = SumOver(clusterNs, ActiveNames) + a
  BY <1>9, <1>11 DEF t, a
<1>13. ASSUME even' # Null
       PROVE  /\ own /\ even' = t /\ SumOver(clusterNs, Names) = CoreCount * t
              /\ Agree(CoreCount, t, CoreSum, SumOver(clusterNs, ActiveNames))
  <2>1. own /\ even' = t /\ (items = 0 \/ even = t)
    BY <1>2, <1>13
  <2>2. CASE items = 0
    <3>1. CoreCount * t = 0 /\ t * CoreSum = 0
      BY <1>3, <1>9, <2>2
    <3>2. QED
      BY <1>9, <2>1, <2>2, <3>1 DEF Agree
  <2>3. CASE items # 0
    <3>1. even = t /\ even # Null
      BY <1>13, <2>1, <2>3
    <3>2. QED
      BY <2>1, <3>1 DEF EvenOK
  <2>4. QED
    BY <2>2, <2>3
<1> HIDE DEF own
<1>14. EvenOK'
  <2>1. SUFFICES ASSUME even' # Null
                 PROVE  /\ even' \in Nat /\ CoreCount' > 0 /\ SumOver(clusterNs', Names) = CoreCount' * even'
                        /\ Agree(CoreCount', even', CoreSum', SumOver(clusterNs', ActiveNames'))
    BY DEF EvenOK, Agree
  <2>2. /\ own /\ even' = t /\ SumOver(clusterNs, Names) = CoreCount * t
        /\ Agree(CoreCount, t, CoreSum, SumOver(clusterNs, ActiveNames))
    BY <1>13, <2>1
  <2>3. /\ Agree(CoreCount + 1, t, CoreSum + c.active, SumOver(clusterNs, ActiveNames) + a)
        /\ CoreCount * t + t = (CoreCount + 1) * t
    BY <1>3, <1>4, <1>9, <2>2, AgreeOneMore
  <2>4. CoreSum' = CoreSum + c.active /\ CoreCount' = CoreCount + 1 /\ CoreCount' > 0
    BY <1>8, <1>9, <2>2
  <2>5. QED
    BY <1>3, <1>10, <1>12, <2>2, <2>3, <2>4
<1>15. QED
  BY <1>7, <1>14

\* A cluster of no channels.
Empty == coreData = <<>> /\ clusterNs = Silent /\ items = 0 /\ even = Null /\ result = Null

LEMMA EmptyCluster == ASSUME Empty, table \in Seq(Nat) PROVE ClusterInv
<1>1. DOMAIN coreData = {} /\ coreData \in [{} -> Core]
  BY DEF Empty
<1>2. CoreTable(coreData)
  BY <1>1, FS_EmptySet DEF CoreTable
<1>3. QED
  BY <1>1, <1>2 DEF Empty, ClusterInv, ClusterOK, EvenOK, Silent

LEMMA FreshKeeps ==
  ASSUME ClusterInv, table' = table, Empty'
  PROVE  ClusterInv'
<1>1. DOMAIN coreData' = {} /\ coreData' \in [{} -> Core]
  BY DEF Empty
<1>2. CoreTable(coreData')
  BY <1>1, FS_EmptySet DEF CoreTable
<1>3. ClusterOK'
  BY <1>1, <1>2 DEF Empty, ClusterInv, ClusterOK, CoreTable, Silent
<1>4. EvenOK'
  BY DEF Empty, EvenOK
<1>5. QED
  BY <1>3, <1>4 DEF ClusterInv

LEMMA SameCluster ==
  ASSUME ClusterInv, UNCHANGED <<table, coreData, clusterNs, items, even>>,
         result' = result \/ result' = cpu_metrics
  PROVE  ClusterInv'
<1>1. cpu_metrics' = cpu_metrics
  BY DEF cpu_metrics, max_freq, _compute_residency_distribution, _largest_remainder_percentages,
         BucketNs, BucketOf, _resolve_state_freq, _bucket_for_freq_ratio
<1>2. ActiveNames' = ActiveNames /\ CoreSum' = CoreSum /\ CoreCount' = CoreCount
  BY DEF ActiveNames, Active, _resolve_state_freq, CoreSum, CoreActives, CoreCount
<1>3. ClusterOK'
  BY <1>1 DEF ClusterInv, ClusterOK, CoreTable
<1>4. EvenOK'
  BY <1>2 DEF ClusterInv, EvenOK, Agree
<1>5. QED
  BY <1>3, <1>4 DEF ClusterInv

LEMMA ClusterInductive == ConvSpec => []ClusterInv
<1>1. ConvInit => ClusterInv
  <2>1. SUFFICES ASSUME ConvInit PROVE ClusterInv
    OBVIOUS
  <2>2. table \in Tables /\ Empty
    BY <2>1 DEF ConvInit, ClusterInit, Empty
  <2>3. table \in Seq(Nat)
    BY <2>2, TablesAssumption
  <2>4. QED
    BY <2>2, <2>3, EmptyCluster
<1>2. ClusterInv /\ [ConvNext]_convVars => ClusterInv'
  <2>1. SUFFICES ASSUME ClusterInv, [ConvNext]_convVars PROVE ClusterInv'
    OBVIOUS
  <2>2. CASE \E ch \in Channels : TakeItem(ch)
    BY <2>1, <2>2, ItemKeeps DEF TakeItem
  <2>3. CASE \E r \in Readings : ConvertPart(r)
    <3>1. UNCHANGED <<table, coreData, clusterNs, items, even>> /\ result' = cpu_metrics
      BY <2>3 DEF ConvertPart, _convert
    <3>2. QED
      BY <2>1, <3>1, SameCluster
  <2>4. CASE MissPart
    BY <2>1, <2>4, SameCluster DEF MissPart
  <2>5. CASE NextPart
    BY <2>1, <2>5, FreshKeeps DEF NextPart, NextSample, Empty
  <2>6. CASE \E perf \in BOOLEAN : Deliver(perf)
    BY <2>1, <2>6, SameCluster DEF Deliver
  <2>7. CASE NextCall
    BY <2>1, <2>7, FreshKeeps DEF NextCall, Empty
  <2>8. CASE UNCHANGED convVars
    BY <2>1, <2>8, SameCluster DEF convVars
  <2>9. QED
    BY <2>1, <2>2, <2>3, <2>4, <2>5, <2>6, <2>7, <2>8 DEF ConvNext
<1>3. QED
  BY <1>1, <1>2, PTL DEF ConvSpec

\* The shares add up to 100, or to 0 when there is no residency at all, and no other four
\* whole numbers are closer to the exact shares.
THEOREM SharesAreClosest == ConvSpec => []SharesClosest
<1>1. ClusterInv => SharesClosest
  <2>1. SUFFICES ASSUME ClusterOK, result # Null PROVE SharesClosest
    BY DEF ClusterInv, SharesClosest
  <2>2. result.residency = _compute_residency_distribution(clusterNs)
    BY <2>1 DEF ClusterOK, cpu_metrics
  <2>3. table \in Seq(Nat) /\ clusterNs \in [Names -> Nat]
    BY <2>1 DEF ClusterOK
  <2>4. /\ SumOver(clusterNs, Names) = 0 => SumOver(_compute_residency_distribution(clusterNs), BucketSet) = 0
        /\ SumOver(clusterNs, Names) # 0 =>
             Closest(_compute_residency_distribution(clusterNs), BucketNs(clusterNs), SumOver(clusterNs, Names))
    BY <2>3, DistributionFacts
  <2>5. QED
    BY <2>2, <2>4 DEF SharesClosest
<1>2. QED
  BY <1>1, ClusterInductive, PTL

-----------------------------------------------------------------------------
(* Utilization and idle share.                                             *)

\* n cores of time e with utilizations that add up to c, active for a of the time t; u is
\* the mean, cut off, and i the idle share, one of the two whole numbers around it.
Views(n, e, c, a, t, u, i, cut, extra) ==
  /\ n \in Nat /\ n > 0 /\ e \in Nat /\ e > 0 /\ c \in Nat /\ a \in Nat /\ Agree(n, e, c, a)
  /\ t = n * e /\ u = c \div n
  /\ i \in Nat /\ cut \in Nat /\ cut < t /\ extra \in {0, 1}
  /\ t * i = 100 * (t - a) - cut + t * extra

LEMMA TwoViews ==
  ASSUME NEW n, NEW e, NEW c, NEW a, NEW t, NEW u, NEW i, NEW cut, NEW extra,
         Views(n, e, c, a, t, u, i, cut, extra)
  PROVE  u + i \in 98..101 /\ (n = 1 => u + i \in 99..101)
<1> DEFINE r == c % n
<1>0. /\ n \in Nat /\ n > 0 /\ e \in Nat /\ e > 0 /\ c \in Nat /\ a \in Nat /\ Agree(n, e, c, a)
      /\ t = n * e /\ u = c \div n
      /\ i \in Nat /\ cut \in Nat /\ cut < t /\ extra \in {0, 1}
      /\ t * i = 100 * (t - a) - cut + t * extra
  BY DEF Views
<1>1. u \in Nat /\ r \in Nat /\ r < n /\ n * u + r = c
  BY <1>0, Division
<1>2. t \in Nat /\ t > 0
  <2>1. n * e >= 1 * e
    BY <1>0
  <2>2. QED
    BY <1>0, <2>1
<1> HIDE DEF r
<1>3. e * c = t * u + e * r /\ t * u \in Nat /\ e * r \in Nat
  <2>1. e * (n * u + r) = (n * e) * u + e * r
    BY <1>0, <1>1
  <2>2. QED
    BY <1>0, <1>1, <1>2, <2>1
<1>4. e * r <= t - e
  <2>1. r <= n - 1
    BY <1>0, <1>1
  <2>2. e * r <= e * (n - 1)
    BY <1>0, <1>1, <2>1
  <2>3. e * (n - 1) = n * e - e
    BY <1>0
  <2>4. QED
    BY <1>0, <1>3, <2>2, <2>3
<1>5. /\ 2 * (t * u + e * r) <= 200 * a + t
      /\ 200 * a <= 2 * (t * u + e * r) + t
  BY <1>0, <1>3 DEF Agree
<1>6. /\ t * i = 100 * (t - a) - cut + t * extra /\ cut < t /\ t * i \in Nat
      /\ t * extra \in Nat /\ t * extra <= t
  <2>1. extra = 0 \/ extra = 1
    BY <1>0
  <2>2. t * extra = 0 \/ t * extra = t
    BY <1>2, <2>1
  <2>3. t * i \in Nat
    BY <1>0, <1>2
  <2>4. QED
    BY <1>0, <1>2, <2>2, <2>3
<1>7. t * (u + i) = t * u + t * i
  BY <1>0, <1>1, <1>2
<1>8. /\ 2 * (t * u + t * i) > 195 * t /\ 2 * (t * u + t * i) <= 203 * t
  BY <1>0, <1>2, <1>3, <1>4, <1>5, <1>6
<1>9. t * 97 < t * (u + i) /\ t * (u + i) < t * 102
  <2>1. t * u + t * i \in Nat
    BY <1>3, <1>6
  <2>2. QED
    BY <1>2, <1>7, <1>8, <2>1
<1>10. u + i \in 98..101
  <2>1. u + i \in Int /\ 97 \in Int /\ 102 \in Int
    BY <1>0, <1>1
  <2>2. 97 < u + i /\ u + i < 102
    BY <1>2, <1>9, <2>1, CommonFactor
  <2>3. QED
    BY <2>1, <2>2
<1>11. ASSUME n = 1 PROVE u + i \in 99..101
  <2>1. r = 0
    BY <1>0, <1>1, <1>11
  <2>2. e * r = 0
    BY <1>0, <2>1
  <2>3. 2 * (t * u + t * i) > 197 * t /\ 2 * (t * u + t * i) <= 203 * t
    BY <1>0, <1>2, <1>3, <1>5, <1>6, <2>2
  <2>4. t * 98 < t * (u + i)
    <3>1. t * u + t * i \in Nat
      BY <1>3, <1>6
    <3>2. QED
      BY <1>2, <1>7, <2>3, <3>1
  <2>5. u + i \in Int /\ 98 \in Int /\ 102 \in Int
    BY <1>0, <1>1
  <2>6. 98 < u + i
    BY <1>2, <1>9, <2>4, <2>5, CommonFactor
  <2>7. QED
    BY <1>10, <2>5, <2>6
<1>12. QED
  BY <1>10, <1>11

\* What is not active is idle.
LEMMA IdleIsInactive ==
  ASSUME ClusterOK, max_freq > 0 \/ \A name \in Names : name.kind = "mhz" => clusterNs[name] = 0
  PROVE  BucketNs(clusterNs)["idle"] = SumOver(clusterNs, Names) - SumOver(clusterNs, ActiveNames)
<1> DEFINE Idle == {name \in Names : BucketOf(name) = "idle"}
<1>1. table \in Seq(Nat) /\ clusterNs \in [Names -> Nat]
  BY DEF ClusterOK
<1>2. max_freq \in Nat /\ \A i \in DOMAIN table : table[i] <= max_freq
  BY <1>1, CeilingIsGreatest
<1>3. /\ Summable(clusterNs, Names) /\ Summable(clusterNs, ActiveNames) /\ ActiveNames \in SUBSET Names
      /\ SumOver(clusterNs, Names) \in Nat /\ SumOver(clusterNs, ActiveNames) \in Nat
  BY ClusterSums
<1>4. BucketNs(clusterNs)["idle"] = SumOver(clusterNs, Idle)
  BY FourBuckets DEF BucketNs
<1>5. CASE max_freq > 0
  <2>1. ASSUME NEW name \in Names
        PROVE  name \in Idle <=> name \notin ActiveNames
    <3>1. CASE name.kind = "off" \/ _resolve_state_freq(name) = Null \/ _resolve_state_freq(name) = 0
      <4>1. BucketOf(name) = "idle"
        BY <3>1 DEF BucketOf
      <4>2. ~ Active(name)
        BY <3>1 DEF Active
      <4>3. QED
        BY <4>1, <4>2 DEF ActiveNames
    <3>2. CASE ~ (name.kind = "off" \/ _resolve_state_freq(name) = Null \/ _resolve_state_freq(name) = 0)
      <4>1. _resolve_state_freq(name) \in Nat
        BY <1>1, <3>2, NamesResolve
      <4>2. Active(name)
        BY <3>2, <4>1 DEF Active
      <4>3. BucketOf(name) = _bucket_for_freq_ratio(_resolve_state_freq(name))
        BY <1>5, <3>2 DEF BucketOf
      <4>4. ASSUME NEW freq \in Nat
            PROVE  _bucket_for_freq_ratio(freq) # "idle"
        <5>1. CASE 4 * freq >= 3 * max_freq
          <6>1. ~ (4 * freq < 3 * max_freq) /\ ~ (5 * freq < 2 * max_freq)
            BY <1>2, <5>1, <1>5
          <6>2. QED
            BY <5>1, <6>1 DEF _bucket_for_freq_ratio
        <5>2. CASE ~ (4 * freq >= 3 * max_freq) /\ 5 * freq >= 2 * max_freq
          <6>1. 4 * freq < 3 * max_freq /\ ~ (5 * freq < 2 * max_freq)
            BY <1>2, <5>2
          <6>2. QED
            BY <5>2, <6>1 DEF _bucket_for_freq_ratio
        <5>3. CASE ~ (4 * freq >= 3 * max_freq) /\ ~ (5 * freq >= 2 * max_freq)
          <6>1. 5 * freq < 2 * max_freq
            BY <1>2, <5>3
          <6>2. QED
            BY <5>3, <6>1 DEF _bucket_for_freq_ratio
        <5>4. QED
          BY <5>1, <5>2, <5>3
      <4>5. QED
        BY <4>1, <4>2, <4>3, <4>4 DEF ActiveNames
    <3>3. QED
      BY <3>1, <3>2
  <2>2. Idle \cap ActiveNames = {} /\ Idle \cup ActiveNames = Names /\ Idle \in SUBSET Names
    BY <1>3, <2>1
  <2> HIDE DEF Idle
  <2>3. Summable(clusterNs, Idle) /\ SumOver(clusterNs, Idle) \in Nat
    <3>1. Summable(clusterNs, Idle)
      BY <1>3, <2>2, FS_Subset DEF Summable
    <3>2. QED
      BY <3>1, SumIsNat
  <2>4. SumOver(clusterNs, Idle \cup ActiveNames) = SumOver(clusterNs, Idle) + SumOver(clusterNs, ActiveNames)
    BY <1>3, <2>2, <2>3, SumSplits
  <2>5. QED
    BY <1>3, <1>4, <2>2, <2>3, <2>4
<1>6. CASE max_freq = 0
  <2>1. Idle = Names
    BY <1>6 DEF BucketOf
  <2>2. \A name \in ActiveNames : clusterNs[name] = 0
    <3>1. SUFFICES ASSUME NEW name \in ActiveNames PROVE clusterNs[name] = 0
      OBVIOUS
    <3>2. /\ name \in Names /\ name.kind # "off"
          /\ _resolve_state_freq(name) # Null /\ _resolve_state_freq(name) > 0
      BY DEF ActiveNames, Active
    <3>3. name.kind \in {"off", "odd", "mhz", "index"} /\ name.n \in Nat
      BY <3>2, NamesAssumption
    <3>4. CASE name.kind = "mhz"
      BY <1>6, <3>2, <3>4
    <3>5. CASE name.kind = "index" /\ name.n < Len(table)
      <4>1. name.n + 1 \in DOMAIN table /\ name.kind # "mhz"
        BY <1>1, <3>3, <3>5
      <4>2. _resolve_state_freq(name) = table[name.n + 1]
        BY <3>5, <4>1 DEF _resolve_state_freq
      <4>3. table[name.n + 1] <= 0 /\ table[name.n + 1] \in Nat
        BY <1>1, <1>2, <1>6, <4>1
      <4>4. QED
        BY <3>2, <4>2, <4>3
    <3>6. CASE name.kind # "mhz" /\ ~ (name.kind = "index" /\ name.n < Len(table))
      BY <3>2, <3>6 DEF _resolve_state_freq
    <3>7. QED
      BY <3>4, <3>5, <3>6
  <2>3. SumOver(clusterNs, ActiveNames) = 0
    BY <1>3, <2>2, SumOfZeros DEF Summable
  <2>4. QED
    BY <1>3, <1>4, <2>1, <2>3
<1>7. QED
  BY <1>2, <1>5, <1>6

\* Utilization and distribution are two views of the same residency data and must not
\* disagree: what is not active is idle, up to the rounding.
THEOREM UtilizationAgrees == ConvSpec => []ViewsAgree
<1>1. ClusterInv => ViewsAgree
  <2> DEFINE n == CoreCount
             w == BucketNs(clusterNs)
             t == SumOver(clusterNs, Names)
             a == SumOver(clusterNs, ActiveNames)
  <2>1. SUFFICES ASSUME ClusterInv, result # Null, even \notin {Null, 0},
                        max_freq > 0 \/ \A name \in Names : name.kind = "mhz" => clusterNs[name] = 0
                 PROVE  /\ result.active + result.residency["idle"] \in 98..101
                        /\ n = 1 => result.active + result.residency["idle"] \in 99..101
    BY DEF ViewsAgree, CoreCount
  <2>2. /\ even \in Nat /\ even > 0 /\ t = n * even /\ Agree(n, even, CoreSum, a)
        /\ ClusterOK /\ result = cpu_metrics /\ n > 0
    BY <2>1 DEF ClusterInv, EvenOK, ClusterOK
  <2>3. /\ n \in Nat /\ CoreSum \in Nat /\ t \in Nat /\ a \in Nat /\ DOMAIN coreData # {}
    <3>1. /\ CoreCount \in Nat /\ CoreSum \in Nat /\ (CoreCount = 0 <=> DOMAIN coreData = {})
          /\ SumOver(clusterNs, Names) \in Nat /\ SumOver(clusterNs, ActiveNames) \in Nat
      BY <2>2, ClusterSums
    <3>2. CoreCount # 0
      BY <2>2, <3>1
    <3>3. QED
      BY <3>1, <3>2
  <2>4. t # 0
    <3>1. n * even >= 1 * even
      BY <2>2, <2>3
    <3>2. QED
      BY <2>2, <2>3, <3>1
  <2>5. result.active = CoreSum \div n
    BY <2>2, <2>3 DEF cpu_metrics, CoreSum, CoreActives, CoreCount
  <2>6. result.residency = Apportion(100, w, t) /\ Weighs(w, t)
    <3>1. table \in Seq(Nat) /\ clusterNs \in [Names -> Nat]
      BY <2>2 DEF ClusterOK
    <3>2. _compute_residency_distribution(clusterNs) = Apportion(100, w, t) /\ Weighs(w, t)
      BY <2>4, <3>1, DistributionFacts
    <3>3. QED
      BY <2>2, <3>2 DEF cpu_metrics
  <2>7. w["idle"] = t - a
    BY <2>1, <2>2, IdleIsInactive
  <2> HIDE DEF w, t, a
  <2>8. /\ result.residency["idle"] \in Nat
        /\ Cut(100, w, t, "idle") \in Nat /\ Cut(100, w, t, "idle") < t
        /\ Extra(100, w, t, "idle") \in {0, 1}
        /\ t * result.residency["idle"]
             = 100 * w["idle"] - Cut(100, w, t, "idle") + t * Extra(100, w, t, "idle")
    <3>1. 100 \in Nat /\ "idle" \in BucketSet
      BY FourBuckets
    <3>2. QED
      BY <2>6, <3>1, ApportionFacts
  <2> HIDE DEF n
  <2>9. Views(n, even, CoreSum, a, t, result.active, result.residency["idle"],
              Cut(100, w, t, "idle"), Extra(100, w, t, "idle"))
    BY <2>2, <2>3, <2>5, <2>7, <2>8 DEF Views
  <2>10. /\ result.active + result.residency["idle"] \in 98..101
         /\ n = 1 => result.active + result.residency["idle"] \in 99..101
    BY <2>9, TwoViews
  <2>11. QED
    BY <2>10
<1>2. QED
  BY <1>1, ClusterInductive, PTL

-----------------------------------------------------------------------------
(* The parts of a call and the frame made of them.                         *)

Shares(r) == r \in [BucketSet -> Nat] /\ SumOver(r, BucketSet) \in {0, 100}

ClusterEntries ==
  {c \in [active : Nat, freq : Nat, max : Nat, residency : [BucketSet -> Nat]] : Shares(c.residency)}

CoreTables == UNION {[D -> Core] : D \in {S \in SUBSET Nat : IsFiniteSet(S)}}

LEMMA TablesOfCores == \A f : f \in CoreTables <=> CoreTable(f)
<1>1. ASSUME NEW f, f \in CoreTables PROVE CoreTable(f)
  <2>1. PICK D \in {S \in SUBSET Nat : IsFiniteSet(S)} : f \in [D -> Core]
    BY <1>1 DEF CoreTables
  <2>2. DOMAIN f = D
    BY <2>1
  <2>3. QED
    BY <2>1, <2>2 DEF CoreTable
<1>2. ASSUME NEW f, CoreTable(f) PROVE f \in CoreTables
  BY <1>2 DEF CoreTable, CoreTables
<1>3. QED
  BY <1>1, <1>2

Part ==
  [cores : CoreTables, cluster : ClusterEntries,
   package_W : {package(r) : r \in Readings},
   total_gbps : {_compute_bandwidth_gbps(r.dram) : r \in Readings},
   _available : {bandwidth_available(r.dram) : r \in Readings}]

PartsOK ==
  /\ parts \in Seq(Part)
  /\ frame # Null => Shares(frame.residency_pct)

LEMMA MetricsTyped ==
  ASSUME ClusterOK
  PROVE  cpu_metrics \in ClusterEntries
<1> DEFINE n == CoreCount
           D == DOMAIN coreData
           residency == _compute_residency_distribution(clusterNs)
<1>1. table \in Seq(Nat) /\ clusterNs \in [Names -> Nat]
  BY DEF ClusterOK
<1>2. n \in Nat /\ (n = 0 <=> D = {}) /\ CoreSum \in Nat /\ CoreTable(coreData)
  BY ClusterSums DEF ClusterOK
<1>3. max_freq \in Nat
  BY <1>1, CeilingIsGreatest
<1>4. Shares(residency)
  <2>1. /\ SumOver(clusterNs, Names) \in Nat
        /\ \A b \in BucketSet : residency[b] \in Nat
        /\ SumOver(clusterNs, Names) = 0 => SumOver(residency, BucketSet) = 0
        /\ SumOver(clusterNs, Names) # 0 => Closest(residency, BucketNs(clusterNs), SumOver(clusterNs, Names))
    BY <1>1, DistributionFacts
  <2>2. residency = [b \in BucketSet |-> residency[b]]
    BY DEF _compute_residency_distribution, _largest_remainder_percentages, Apportion
  <2>3. SumOver(residency, BucketSet) \in {0, 100}
    BY <2>1 DEF Closest
  <2> HIDE DEF residency
  <2>4. residency \in [BucketSet -> Nat]
    BY <2>1, <2>2
  <2>5. QED
    BY <2>3, <2>4 DEF Shares
<1>5. /\ cpu_metrics.max = max_freq /\ cpu_metrics.residency = residency
      /\ cpu_metrics = [active |-> cpu_metrics.active, freq |-> cpu_metrics.freq,
                        max |-> max_freq, residency |-> residency]
  BY DEF cpu_metrics
<1>6. CASE D = {}
  <2>1. cpu_metrics.active = 0 /\ cpu_metrics.freq = 0
    BY <1>6 DEF cpu_metrics
  <2> HIDE DEF residency
  <2>2. QED
    BY <1>3, <1>4, <1>5, <2>1 DEF ClusterEntries, Shares
<1>7. CASE D # {}
  <2>1. n > 0
    BY <1>2, <1>7
  <2>2. cpu_metrics.active = CoreSum \div n
    BY <1>7 DEF cpu_metrics, CoreSum, CoreActives, CoreCount
  <2>3. cpu_metrics.active \in Nat
    <3> HIDE DEF n
    <3>1. QED
      BY <1>2, <2>1, <2>2, Division
  <2>4. cpu_metrics.freq \in Nat
    <3> DEFINE f == [i \in D |-> coreData[i].freq]
    <3>1. \A i \in D : f[i] \in Nat
      BY <1>2 DEF CoreTable, Core
    <3>2. cpu_metrics.freq = Max({coreData[i].freq : i \in D})
      BY <1>7 DEF cpu_metrics
    <3>3. {coreData[i].freq : i \in D} = {f[i] : i \in D}
      OBVIOUS
    <3>4. IsFiniteSet(D)
      BY <1>2 DEF CoreTable
    <3> HIDE DEF f
    <3>5. Max({f[i] : i \in D}) \in Nat
      <4> HIDE DEF D
      <4>1. QED
        BY <1>7, <3>1, <3>4, GreatestOf
    <3>6. QED
      BY <3>2, <3>3, <3>5
  <2> HIDE DEF residency
  <2>5. QED
    BY <1>3, <1>4, <1>5, <2>3, <2>4 DEF ClusterEntries, Shares
<1>8. QED
  BY <1>6, <1>7

LEMMA SnapshotShares ==
  ASSUME parts \in Seq(Part), parts # <<>>, NEW perf \in BOOLEAN
  PROVE  /\ Shares(_sample_to_snapshot(parts[1], perf).residency_pct)
         /\ Shares(_sample_to_snapshot(_average_samples(parts), perf).residency_pct)
<1>1. parts[1] \in Part /\ Last(parts) \in Part
  BY DEF Last
<1>2. ASSUME NEW part \in Part
      PROVE  part.cluster \in ClusterEntries /\ Shares(part.cluster.residency)
  BY DEF Part, ClusterEntries
<1>3. _sample_to_snapshot(parts[1], perf).residency_pct = parts[1].cluster.residency
  BY DEF _sample_to_snapshot
<1>4. _sample_to_snapshot(_average_samples(parts), perf).residency_pct = _average_samples(parts).cluster.residency
  BY DEF _sample_to_snapshot
<1>5. ASSUME NEW c \in ClusterEntries, NEW x, NEW y
      PROVE  [c EXCEPT !.active = x, !.freq = y].residency = c.residency
  <2>1. c \in [active : Nat, freq : Nat, max : Nat, residency : [BucketSet -> Nat]]
    BY DEF ClusterEntries
  <2>2. QED
    BY <2>1
<1>6. _average_samples(parts).cluster.residency = Last(parts).cluster.residency
  BY <1>1, <1>2, <1>5 DEF _average_samples
<1>7. QED
  BY <1>1, <1>2, <1>3, <1>4, <1>6

LEMMA PartsInductive == ConvSpec => []PartsOK
<1>1. ConvInit => PartsOK
  BY DEF ConvInit, PartsOK
<1>2. ClusterInv /\ PartsOK /\ [ConvNext]_convVars => PartsOK'
  <2>1. SUFFICES ASSUME ClusterInv, PartsOK, [ConvNext]_convVars PROVE PartsOK'
    OBVIOUS
  <2>2. CASE \E ch \in Channels : TakeItem(ch)
    BY <2>1, <2>2 DEF TakeItem, PartsOK, sampleVars
  <2>3. ASSUME NEW r \in Readings, ConvertPart(r) PROVE PartsOK'
    <3>1. cpu_metrics \in ClusterEntries /\ coreData \in CoreTables
      BY <2>1, MetricsTyped, TablesOfCores DEF ClusterInv, ClusterOK
    <3>2. /\ result' = cpu_metrics /\ frame' = frame
          /\ parts' = Append(parts,
               [cores |-> coreData, cluster |-> result', package_W |-> package(r),
                total_gbps |-> _compute_bandwidth_gbps(r.dram),
                _available |-> bandwidth_available(r.dram)])
      BY <2>3 DEF ConvertPart, _convert
    <3>3. [cores |-> coreData, cluster |-> result', package_W |-> package(r),
           total_gbps |-> _compute_bandwidth_gbps(r.dram),
           _available |-> bandwidth_available(r.dram)] \in Part
      BY <3>1, <3>2 DEF Part
    <3>4. QED
      BY <2>1, <3>2, <3>3 DEF PartsOK
  <2>4. CASE MissPart
    BY <2>1, <2>4 DEF MissPart, PartsOK
  <2>5. CASE NextPart
    BY <2>1, <2>5 DEF NextPart, PartsOK, sampleVars
  <2>6. ASSUME NEW perf \in BOOLEAN, Deliver(perf) PROVE PartsOK'
    <3>1. /\ parts # <<>> /\ parts' = parts
          /\ frame' = _sample_to_snapshot(IF wanted = 1 THEN parts[1] ELSE _average_samples(parts), perf)
      BY <2>6 DEF Deliver
    <3>2. Shares(frame'.residency_pct)
      <4>1. /\ Shares(_sample_to_snapshot(parts[1], perf).residency_pct)
            /\ Shares(_sample_to_snapshot(_average_samples(parts), perf).residency_pct)
        BY <2>1, <3>1, SnapshotShares DEF PartsOK
      <4>2. CASE wanted = 1
        BY <3>1, <4>1, <4>2
      <4>3. CASE wanted # 1
        BY <3>1, <4>1, <4>3
      <4>4. QED
        BY <4>2, <4>3
    <3>3. QED
      BY <2>1, <3>1, <3>2 DEF PartsOK, Shares
  <2>7. CASE NextCall
    BY <2>1, <2>7 DEF NextCall, PartsOK
  <2>8. CASE UNCHANGED convVars
    BY <2>1, <2>8 DEF convVars, PartsOK
  <2>9. QED
    BY <2>1, <2>2, <2>3, <2>4, <2>5, <2>6, <2>7, <2>8 DEF ConvNext
<1>3. QED
  BY <1>1, <1>2, ClusterInductive, PTL DEF ConvSpec

\* Four numbers that add up to 100 are eight digits at most.
LEMMA EightDigits ==
  ASSUME NEW r \in [BucketSet -> Nat], SumOver(r, BucketSet) = 100
  PROVE  breakdown(r) \in Nat /\ breakdown(r) <= BREAKDOWN_MAX
<1> DEFINE d == [b \in BucketSet |-> Digits(r[b])]
<1>1. /\ "idle" \notin {"low", "mid", "high"} /\ "low" \notin {"mid", "high"} /\ "mid" # "high"
      /\ BucketSet = {"idle", "low", "mid", "high"} /\ IsFiniteSet(BucketSet)
  BY FourBuckets
<1>2. r["idle"] + r["low"] + r["mid"] + r["high"] = 100
  <2>1. Summable(r, BucketSet)
    BY <1>1 DEF Summable
  <2>2. QED
    BY <1>1, <2>1, SumOfFour
<1>3. \A n \in Nat : Digits(n) \in {1, 2, 3} /\ (Digits(n) = 3 => n >= 100)
  BY DEF Digits
<1>4. SumOver(d, BucketSet) = Digits(r["idle"]) + Digits(r["low"]) + Digits(r["mid"]) + Digits(r["high"])
  <2>1. \A b \in BucketSet : d[b] \in Nat
    BY <1>3
  <2>2. Summable(d, BucketSet)
    BY <1>1, <2>1 DEF Summable
  <2>3. d["idle"] = Digits(r["idle"]) /\ d["low"] = Digits(r["low"])
        /\ d["mid"] = Digits(r["mid"]) /\ d["high"] = Digits(r["high"])
    BY <1>1
  <2> HIDE DEF d
  <2>4. QED
    BY <1>1, <2>2, <2>3, SumOfFour
<1>5. /\ r["idle"] \in Nat /\ r["low"] \in Nat /\ r["mid"] \in Nat /\ r["high"] \in Nat
  BY <1>1
<1>6. Digits(r["idle"]) + Digits(r["low"]) + Digits(r["mid"]) + Digits(r["high"]) \in 4..8
  BY <1>2, <1>5 DEF Digits
<1>7. breakdown(r) = 17 + SumOver(d, BucketSet)
  BY DEF breakdown
<1> HIDE DEF d
<1>8. QED
  BY <1>4, <1>6, <1>7 DEF BREAKDOWN_MAX

\* The bar fills its columns exactly, and the row fits every width that holds its four
\* percentages at all.
THEOREM RowFits == ConvSpec => []BarFits
<1>1. PartsOK => BarFits
  <2> DEFINE r == frame.residency_pct
  <2>1. SUFFICES ASSUME PartsOK, frame # Null, SumOver(r, BucketSet) > 0
                 PROVE  /\ \A bar \in BAR_MIN..BAR_WIDTH : SumOver(_residency_bar_widths(r, bar), BucketSet) = bar
                        /\ \A width \in Widths : _format_residency_row(r, width) <= width
    BY DEF BarFits
  <2>2. r \in [BucketSet -> Nat] /\ SumOver(r, BucketSet) = 100
    BY <2>1 DEF PartsOK, Shares
  <2> HIDE DEF r
  <2>3. ASSUME NEW bar \in Nat
        PROVE  SumOver(_residency_bar_widths(r, bar), BucketSet) = bar
    <3>1. 100 \in Nat /\ Weighs(r, 100)
      BY <2>2 DEF Weighs
    <3>2. SumOver(Apportion(bar, r, 100), BucketSet) = bar
      BY <3>1, ApportionFacts
    <3>3. QED
      BY <3>2 DEF _residency_bar_widths
  <2>4. ASSUME NEW width \in Widths
        PROVE  _format_residency_row(r, width) <= width
    <3>1. width \in 32..53 /\ breakdown(r) \in Nat /\ breakdown(r) <= 25
      BY <2>2, EightDigits DEF Widths, BREAKDOWN_MAX
    <3>2. BarColumns(width) \in Nat /\ (BarColumns(width) # 0 => BarColumns(width) <= width - 36)
      BY <3>1 DEF BarColumns, Prefix, BREAKDOWN_MAX, BAR_WIDTH, BAR_MIN
    <3>3. CASE BarColumns(width) = 0
      <4>1. _format_residency_row(r, width) = 7 + breakdown(r)
        BY <3>3 DEF _format_residency_row, Prefix
      <4>2. QED
        BY <3>1, <4>1
    <3>4. CASE BarColumns(width) # 0
      <4>1. _format_residency_row(r, width) = 7 + BarColumns(width) + 4 + breakdown(r)
        BY <2>3, <3>2, <3>4 DEF _format_residency_row, Prefix
      <4>2. QED
        BY <3>1, <3>2, <3>4, <4>1
    <3>5. QED
      BY <3>3, <3>4
  <2>5. \A bar \in BAR_MIN..BAR_WIDTH : bar \in Nat
    BY DEF BAR_MIN, BAR_WIDTH
  <2>6. QED
    BY <2>3, <2>4, <2>5
<1>2. QED
  BY <1>1, PartsInductive, PTL

-----------------------------------------------------------------------------
(* The bandwidth of one controller.                                        *)

\* An edge and the last one that could be read before it.
Prev(hist, i) ==
  LET before == {j \in 1..(i - 1) : hist[j].edge # Null}
  IN  IF before = {} THEN 0 ELSE hist[Max(before)].edge

Histogram(hist) == hist \in Seq([edge : Nat \cup {Null}, ns : Nat]) /\ Rising(hist)

Known(hist) == {i \in DOMAIN hist : hist[i].edge # Null}

LEMMA SequenceOf ==
  ASSUME NEW S, NEW s \in Seq(S)
  PROVE  Len(s) \in Nat /\ DOMAIN s = 1..Len(s) /\ \A i \in DOMAIN s : s[i] \in S
OBVIOUS

LEMMA KnownFacts ==
  ASSUME NEW hist, Histogram(hist)
  PROVE  /\ Len(hist) \in Nat /\ DOMAIN hist = 1..Len(hist) /\ IsFiniteSet(Known(hist))
         /\ Known(hist) \in SUBSET (1..Len(hist))
         /\ \A i \in DOMAIN hist : hist[i].ns \in Nat
         /\ \A i \in Known(hist) : hist[i].edge \in Nat /\ hist[i].edge > 0
         /\ \A i, j \in Known(hist) : i < j => hist[i].edge < hist[j].edge
         /\ Touched(hist) \in SUBSET Known(hist) /\ IsFiniteSet(Touched(hist))
<1>1. /\ Len(hist) \in Nat /\ DOMAIN hist = 1..Len(hist)
      /\ \A i \in DOMAIN hist : hist[i] \in [edge : Nat \cup {Null}, ns : Nat]
  <2>1. hist \in Seq([edge : Nat \cup {Null}, ns : Nat])
    BY DEF Histogram
  <2>2. QED
    BY <2>1, SequenceOf
<1>2. \A i \in DOMAIN hist : hist[i].ns \in Nat /\ (hist[i].edge # Null => hist[i].edge \in Nat)
  BY <1>1
<1>3. IsFiniteSet(1..Len(hist))
  <2>1. 1 \in Int /\ Len(hist) \in Int
    BY <1>1
  <2>2. QED
    BY <2>1, FS_Interval
<1>4. Known(hist) \in SUBSET (1..Len(hist)) /\ Touched(hist) \in SUBSET Known(hist)
  BY <1>1 DEF Known, Touched
<1>5. IsFiniteSet(Known(hist)) /\ IsFiniteSet(Touched(hist))
  BY <1>3, <1>4, FS_Subset
<1>6. /\ \A i \in Known(hist) : hist[i].edge > 0
      /\ \A i, j \in Known(hist) : i < j => hist[i].edge < hist[j].edge
  BY DEF Histogram, Rising, Known
<1>7. QED
  BY <1>1, <1>2, <1>4, <1>5, <1>6 DEF Known

LEMMA PrevFacts ==
  ASSUME NEW hist, Histogram(hist), NEW i \in Known(hist)
  PROVE  /\ Prev(hist, i) \in Nat /\ Prev(hist, i) < hist[i].edge
         /\ \A j \in Known(hist) : j < i => hist[j].edge <= Prev(hist, i)
<1> DEFINE before == {j \in 1..(i - 1) : hist[j].edge # Null}
<1>1. /\ Len(hist) \in Nat /\ DOMAIN hist = 1..Len(hist) /\ IsFiniteSet(Known(hist))
      /\ Known(hist) \in SUBSET (1..Len(hist))
      /\ \A j \in Known(hist) : hist[j].edge \in Nat /\ hist[j].edge > 0
      /\ \A j, k \in Known(hist) : j < k => hist[j].edge < hist[k].edge
  BY KnownFacts
<1>2. i \in 1..Len(hist)
  BY <1>1
<1>3. before = {j \in Known(hist) : j < i}
  BY <1>1, <1>2 DEF Known
<1>4. Prev(hist, i) = IF before = {} THEN 0 ELSE hist[Max(before)].edge
  BY DEF Prev
<1> HIDE DEF before
<1>5. CASE before = {}
  <2>1. Prev(hist, i) = 0
    BY <1>4, <1>5
  <2>2. \A j \in Known(hist) : ~ (j < i)
    BY <1>3, <1>5
  <2>3. QED
    BY <1>1, <2>1, <2>2
<1>6. CASE before # {}
  <2>1. IsFiniteSet(before) /\ before \in SUBSET Int
    BY <1>1, <1>3, FS_Subset
  <2>2. Max(before) \in before /\ \A x \in before : Max(before) >= x
    BY <1>6, <2>1, MaxExists
  <2>3. PICK p \in Known(hist) : p = Max(before) /\ p < i /\ \A x \in before : p >= x
    BY <1>3, <2>2
  <2>4. Prev(hist, i) = hist[p].edge
    BY <1>4, <1>6, <2>3
  <2>5. hist[p].edge \in Nat /\ hist[p].edge < hist[i].edge
    BY <1>1, <2>3
  <2>6. ASSUME NEW j \in Known(hist), j < i
        PROVE  hist[j].edge <= hist[p].edge
    <3>1. p >= j /\ p \in Int /\ j \in Int
      BY <1>1, <1>3, <2>3, <2>6
    <3>2. j = p \/ j < p
      BY <3>1
    <3>3. QED
      BY <1>1, <2>3, <3>2
  <2>7. QED
    BY <2>4, <2>5, <2>6
<1>7. QED
  BY <1>5, <1>6

LEMMA MidpointFacts ==
  ASSUME NEW hist, Histogram(hist), NEW i \in Known(hist)
  PROVE  Midpoint(hist, i) \in Nat /\ Prev(hist, i) <= Midpoint(hist, i) /\ Midpoint(hist, i) < hist[i].edge
<1>1. Prev(hist, i) \in Nat /\ Prev(hist, i) < hist[i].edge
  BY PrevFacts
<1>2. hist[i].edge \in Nat
  BY KnownFacts
<1>3. Midpoint(hist, i) = (hist[i].edge + Prev(hist, i)) \div 2
  BY DEF Midpoint, Prev
<1>4. QED
  BY <1>1, <1>2, <1>3

\* The rate of a controller lies between the lower edge of its first bucket with time and
\* the upper edge of its last.
LEMMA ChannelFacts ==
  ASSUME NEW hist, Histogram(hist)
  PROVE  /\ _channel_bandwidth_gbps(hist) \in Nat /\ Floor(hist) \in Nat /\ Ceiling(hist) \in Nat
         /\ Floor(hist) <= _channel_bandwidth_gbps(hist)
         /\ Touched(hist) = {} => Ceiling(hist) = 0 /\ _channel_bandwidth_gbps(hist) = 0
         /\ Touched(hist) # {} => _channel_bandwidth_gbps(hist) < Ceiling(hist)
<1> DEFINE K == Known(hist)
           T == Touched(hist)
           time == [i \in K |-> hist[i].ns]
           weighted == [i \in K |-> Midpoint(hist, i) * hist[i].ns]
           whole == SumOver(time, K)
           W == SumOver(weighted, K)
<1>1. /\ Len(hist) \in Nat /\ DOMAIN hist = 1..Len(hist) /\ IsFiniteSet(K) /\ IsFiniteSet(T)
      /\ K \in SUBSET (1..Len(hist)) /\ T \in SUBSET K
      /\ \A i \in K : hist[i].ns \in Nat /\ hist[i].edge \in Nat /\ hist[i].edge > 0
      /\ \A i, j \in K : i < j => hist[i].edge < hist[j].edge
  BY KnownFacts
<1>2. T = {i \in K : hist[i].ns > 0}
  BY DEF Touched, Known
<1>3. _channel_bandwidth_gbps(hist) = IF whole = 0 THEN 0 ELSE W \div whole
  BY DEF _channel_bandwidth_gbps, Known
<1>4. /\ Floor(hist) = IF T = {} THEN 0 ELSE Prev(hist, Min(T))
      /\ Ceiling(hist) = IF T = {} THEN 0 ELSE hist[Max(T)].edge
  BY DEF Floor, Ceiling, Prev
<1>5. \A i \in K : Midpoint(hist, i) \in Nat /\ Prev(hist, i) <= Midpoint(hist, i) /\ Midpoint(hist, i) < hist[i].edge
  BY MidpointFacts
<1> HIDE DEF K, T
<1>6. \A i \in K : time[i] = hist[i].ns /\ weighted[i] = Midpoint(hist, i) * hist[i].ns
  OBVIOUS
<1>7. \A i \in K : time[i] \in Nat /\ weighted[i] \in Nat
  BY <1>1, <1>5, <1>6
<1> HIDE DEF time, weighted
<1>8. Summable(time, K) /\ Summable(weighted, K) /\ whole \in Nat /\ W \in Nat
  <2>1. Summable(time, K) /\ Summable(weighted, K)
    BY <1>1, <1>7 DEF Summable
  <2>2. QED
    BY <2>1, SumIsNat
<1> HIDE DEF whole, W
<1>9. CASE T = {}
  <2>1. \A i \in K : time[i] = 0
    BY <1>1, <1>2, <1>6, <1>9
  <2>2. whole = 0
    BY <1>1, <2>1, SumOfZeros DEF whole
  <2>3. QED
    BY <1>3, <1>4, <1>9, <2>2 DEF T
<1>10. CASE T # {}
  <2>1. T \in SUBSET Nat /\ T \in SUBSET Int
    <3>1. \A x \in T : x \in 1..Len(hist)
      BY <1>1
    <3>2. QED
      BY <1>1, <3>1
  <2>2. Min(T) \in T /\ \A x \in T : Min(T) <= x
    BY <1>10, <2>1, MinExists
  <2>3. Max(T) \in T /\ \A x \in T : Max(T) >= x
    BY <1>1, <1>10, <2>1, MaxExists
  <2>4. PICK first \in K, last \in K :
          /\ first = Min(T) /\ last = Max(T) /\ first \in T
          /\ \A x \in T : first <= x /\ x <= last
    BY <1>1, <2>1, <2>2, <2>3
  <2> DEFINE lo == Prev(hist, first)
             hi == hist[last].edge
  <2>5. Floor(hist) = lo /\ Ceiling(hist) = hi /\ hi \in Nat /\ hi > 0
    BY <1>1, <1>4, <1>10, <2>4
  <2>6. lo \in Nat
    BY PrevFacts DEF K
  <2>7. ASSUME NEW i \in T
        PROVE  lo <= Midpoint(hist, i) /\ Midpoint(hist, i) <= hi - 1
    <3>1. i \in K /\ i \in Int /\ first \in Int /\ last \in Int /\ first <= i /\ i <= last
      BY <1>1, <2>4
    <3>2. lo <= Prev(hist, i)
      <4>1. CASE i = first
        BY <2>6, <4>1
      <4>2. CASE first < i
        <5>1. hist[first].edge <= Prev(hist, i) /\ Prev(hist, i) \in Nat
          BY <3>1, <4>2, PrevFacts DEF K
        <5>2. lo < hist[first].edge
          BY PrevFacts DEF K
        <5>3. QED
          BY <1>1, <2>6, <5>1, <5>2
      <4>3. QED
        BY <3>1, <4>1, <4>2
    <3>3. hist[i].edge <= hi
      <4>1. i = last \/ i < last
        BY <3>1
      <4>2. QED
        BY <1>1, <3>1, <4>1
    <3>4. Prev(hist, i) \in Nat
      BY <3>1, PrevFacts DEF K
    <3>5. QED
      BY <1>1, <1>5, <2>5, <2>6, <3>1, <3>2, <3>3, <3>4
  <2> HIDE DEF lo, hi
  <2>8. hi - 1 \in Nat
    BY <2>5
  <2> DEFINE least == [i \in K |-> lo * time[i]]
             most == [i \in K |-> (hi - 1) * time[i]]
  <2>9. /\ Summable(least, K) /\ SumOver(least, K) = lo * whole
        /\ Summable(most, K) /\ SumOver(most, K) = (hi - 1) * whole
    <3>1. Summable(least, K) /\ SumOver(least, K) = lo * SumOver(time, K)
      BY <1>8, <2>6, SumOfMultiples
    <3>2. ASSUME NEW m \in Nat, m = hi - 1
          PROVE  Summable(most, K) /\ SumOver(most, K) = m * SumOver(time, K)
      <4>1. \A i \in K : most[i] = m * time[i]
        BY <3>2
      <4> HIDE DEF most
      <4>2. QED
        BY <1>8, <4>1, SumOfMultiples
    <3>3. QED
      BY <2>8, <3>1, <3>2 DEF whole
  <2>10. \A i \in K : least[i] \in Nat /\ least[i] <= weighted[i] /\ weighted[i] <= most[i]
    <3>1. SUFFICES ASSUME NEW i \in K
                   PROVE  lo * time[i] <= weighted[i] /\ weighted[i] <= (hi - 1) * time[i] /\ lo * time[i] \in Nat
      OBVIOUS
    <3>2. /\ weighted[i] = Midpoint(hist, i) * time[i] /\ Midpoint(hist, i) \in Nat /\ time[i] \in Nat
          /\ time[i] = hist[i].ns
      BY <1>5, <1>6, <1>7
    <3>3. CASE time[i] = 0
      BY <2>6, <2>8, <3>2, <3>3
    <3>4. CASE time[i] # 0
      <4>1. i \in T
        BY <1>2, <3>2, <3>4
      <4>2. lo <= Midpoint(hist, i) /\ Midpoint(hist, i) <= hi - 1
        BY <2>7, <4>1
      <4>3. ASSUME NEW a \in Nat, NEW b \in Nat, a <= b, NEW t \in Nat
            PROVE  a * t <= b * t /\ a * t \in Nat
        BY <4>3
      <4>4. QED
        BY <2>6, <2>8, <3>2, <4>2, <4>3
    <3>5. QED
      BY <3>3, <3>4
  <2> HIDE DEF least, most
  <2>11. SumOver(least, K) <= W
    <3>1. \A i \in K : least[i] \in Nat /\ least[i] <= weighted[i]
      BY <2>10
    <3>2. QED
      BY <1>8, <3>1, SumOfLess DEF W
  <2>12. W <= SumOver(most, K)
    <3>1. \A i \in K : weighted[i] \in Nat /\ weighted[i] <= most[i]
      BY <1>7, <2>10
    <3>2. QED
      BY <2>9, <3>1, SumOfLess DEF W
  <2>13. whole > 0
    <3>1. time[first] > 0
      BY <1>2, <1>6, <2>4
    <3>2. Summable(time, K \ {first}) /\ whole = time[first] + SumOver(time, K \ {first})
      BY <1>8, SumStep DEF whole
    <3>3. SumOver(time, K \ {first}) \in Nat
      BY <3>2, SumIsNat
    <3>4. QED
      BY <1>7, <3>1, <3>2, <3>3
  <2>14. lo * whole <= W /\ W <= (hi - 1) * whole
    BY <2>9, <2>11, <2>12
  <2>15. W \div whole \in Nat /\ lo <= W \div whole /\ W \div whole <= hi - 1
    <3>1. ASSUME NEW m \in Nat, m = hi - 1
          PROVE  W \div whole \in Nat /\ lo <= W \div whole /\ W \div whole <= m
      BY <1>8, <2>6, <2>13, <2>14, <3>1, DivBetween
    <3>2. QED
      BY <2>8, <3>1
  <2>16. QED
    BY <1>3, <1>8, <1>10, <2>5, <2>6, <2>13, <2>15 DEF T
<1>11. QED
  BY <1>9, <1>10

-----------------------------------------------------------------------------
(* The power and the bandwidth of one reading.                             *)

LEMMA ReadingFacts ==
  ASSUME NEW r \in Readings
  PROVE  /\ r.elapsed \in Nat /\ r.elapsed > 0
         /\ Len(r.energy) \in Nat /\ DOMAIN r.energy = 1..Len(r.energy)
         /\ \A i \in DOMAIN r.energy : /\ r.energy[i].of \in Sources /\ r.energy[i].value \in Nat
                                       /\ _energy_to_joules(r.energy[i]) % r.elapsed = 0
         /\ Len(r.dram) \in Nat /\ DOMAIN r.dram = 1..Len(r.dram)
         /\ \A c \in DOMAIN r.dram : Histogram(r.dram[c])
<1>1. /\ r \in Reading
      /\ \A i \in DOMAIN r.energy : _energy_to_joules(r.energy[i]) % r.elapsed = 0
      /\ \A c \in DOMAIN r.dram : Rising(r.dram[c])
  BY ReadingsAssumption
<1>2. /\ r.elapsed \in Nat \ {0}
      /\ r.energy \in Seq([of : Sources, unit : STRING, value : Nat])
      /\ r.dram \in Seq(Seq([edge : Nat \cup {Null}, ns : Nat]))
  BY <1>1 DEF Reading
<1>3. /\ Len(r.energy) \in Nat /\ DOMAIN r.energy = 1..Len(r.energy)
      /\ \A i \in DOMAIN r.energy : r.energy[i] \in [of : Sources, unit : STRING, value : Nat]
  BY <1>2, SequenceOf
<1>4. /\ Len(r.dram) \in Nat /\ DOMAIN r.dram = 1..Len(r.dram)
      /\ \A c \in DOMAIN r.dram : r.dram[c] \in Seq([edge : Nat \cup {Null}, ns : Nat])
  BY <1>2, SequenceOf
<1>5. \A i \in DOMAIN r.energy : r.energy[i].of \in Sources /\ r.energy[i].value \in Nat
  BY <1>3
<1>6. QED
  BY <1>1, <1>2, <1>3, <1>4, <1>5 DEF Histogram

\* The rate of all controllers lies between their floors and below their ceilings, and it
\* is not withheld when a controller was in a bucket.
LEMMA BandFacts ==
  ASSUME NEW r \in Readings
  PROVE  LET low == SumSeq(Floor, r.dram)
             high == SumSeq(Ceiling, r.dram)
             x == _compute_bandwidth_gbps(r.dram)
         IN  /\ low \in Nat /\ high \in Nat /\ x \in Nat /\ low <= x
             /\ high = 0 => x = 0
             /\ high > 0 => x < high /\ bandwidth_available(r.dram)
<1> DEFINE D == DOMAIN r.dram
           f == [c \in D |-> Floor(r.dram[c])]
           g == [c \in D |-> Ceiling(r.dram[c])]
           e == [c \in D |-> _channel_bandwidth_gbps(r.dram[c])]
           low == SumOver(f, D)
           high == SumOver(g, D)
           x == SumOver(e, D)
<1>1. /\ SumSeq(Floor, r.dram) = low /\ SumSeq(Ceiling, r.dram) = high
      /\ _compute_bandwidth_gbps(r.dram) = x
  BY DEF SumSeq, _compute_bandwidth_gbps
<1>2. IsFiniteSet(D) /\ \A c \in D : Histogram(r.dram[c])
  BY ReadingFacts, IntervalFinite
<1>3. \A c \in D : /\ e[c] \in Nat /\ f[c] \in Nat /\ g[c] \in Nat /\ f[c] <= e[c]
                   /\ Touched(r.dram[c]) = {} => g[c] = 0 /\ e[c] = 0
                   /\ Touched(r.dram[c]) # {} => e[c] < g[c]
  BY <1>2, ChannelFacts
<1>4. ASSUME NEW c \in D, Touched(r.dram[c]) # {}
      PROVE  bandwidth_available(r.dram)
  BY <1>4 DEF bandwidth_available, Touched
<1> HIDE DEF D, f, g, e
<1>5. Summable(f, D) /\ Summable(g, D) /\ Summable(e, D)
  BY <1>2, <1>3 DEF Summable
<1>6. low \in Nat /\ high \in Nat /\ x \in Nat /\ low <= x
  BY <1>3, <1>5, SumOfLess, SumIsNat
<1>7. \A c \in D : e[c] <= g[c]
  BY <1>3
<1>8. x <= high
  BY <1>3, <1>5, <1>7, SumOfLess
<1>9. ASSUME high > 0
      PROVE  x < high /\ bandwidth_available(r.dram)
  <2>1. PICK c \in D : g[c] # 0
    <3>1. (\A c \in D : g[c] = 0) => high = 0
      BY <1>2, SumOfZeros
    <3>2. QED
      BY <1>9, <3>1
  <2>2. Touched(r.dram[c]) # {} /\ e[c] < g[c]
    BY <1>3, <2>1
  <2>3. /\ Summable(g, D \ {c}) /\ high = g[c] + SumOver(g, D \ {c})
        /\ Summable(e, D \ {c}) /\ x = e[c] + SumOver(e, D \ {c})
    BY <1>5, SumStep
  <2>4. \A d \in D \ {c} : e[d] \in Nat /\ e[d] <= g[d]
    BY <1>3, <1>7
  <2>5. SumOver(e, D \ {c}) \in Nat /\ SumOver(e, D \ {c}) <= SumOver(g, D \ {c})
    BY <2>3, <2>4, SumOfLess
  <2>6. SumOver(g, D \ {c}) \in Nat
    BY <2>3, SumIsNat
  <2> HIDE DEF high, x
  <2>7. QED
    BY <1>3, <1>4, <2>2, <2>3, <2>5, <2>6
<1> HIDE DEF low, high, x
<1>10. high = 0 => x = 0
  BY <1>6, <1>8
<1>11. QED
  BY <1>1, <1>6, <1>9, <1>10

LEMMA EnergyNatural ==
  ASSUME NEW item, item.value \in Nat
  PROVE  _energy_to_joules(item) \in Nat
BY DEF _energy_to_joules

\* The package's energy, divided by the interval, is joules per second, whatever the unit.
LEMMA PowerFacts ==
  ASSUME NEW r \in Readings
  PROVE  Power(r) \in Nat /\ package(r) = Interval * Power(r)
<1> DEFINE D == DOMAIN r.energy
           v == [i \in D |-> _energy_to_joules(r.energy[i])]
           q == [i \in D |-> v[i] \div r.elapsed]
           Q(S) == SumOver(q, S)
<1>1. /\ r.elapsed \in Nat /\ r.elapsed > 0 /\ IsFiniteSet(D)
      /\ \A i \in D : /\ r.energy[i].of \in Sources /\ r.energy[i].value \in Nat
                      /\ _energy_to_joules(r.energy[i]) % r.elapsed = 0
  BY ReadingFacts, IntervalFinite
<1>2. \A i \in D : v[i] \in Nat /\ v[i] % r.elapsed = 0
  BY <1>1, EnergyNatural
<1>3. \A i \in D : q[i] \in Nat /\ v[i] = r.elapsed * q[i]
  <2> HIDE DEF v
  <2>1. SUFFICES ASSUME NEW i \in D
                 PROVE  v[i] \div r.elapsed \in Nat /\ v[i] = r.elapsed * (v[i] \div r.elapsed)
    OBVIOUS
  <2>2. v[i] \in Nat /\ v[i] % r.elapsed = 0
    BY <1>2
  <2> HIDE DEF D
  <2>3. QED
    BY <1>1, <2>2, Multiple
<1>4. Items(r, "cpu") \in SUBSET D /\ Items(r, "gpu") \in SUBSET D /\ Items(r, "ane") \in SUBSET D
  BY DEF Items
<1>5. /\ D = (Items(r, "cpu") \cup Items(r, "gpu")) \cup Items(r, "ane")
      /\ Items(r, "cpu") \cap Items(r, "gpu") = {}
      /\ (Items(r, "cpu") \cup Items(r, "gpu")) \cap Items(r, "ane") = {}
  BY <1>1 DEF Items, Sources
<1>6. ASSUME NEW source, Items(r, source) \in SUBSET D
      PROVE  energy_j(r, source) = SumOver([i \in Items(r, source) |-> v[i]], Items(r, source))
  <2>1. [i \in Items(r, source) |-> v[i]] = [i \in Items(r, source) |-> _energy_to_joules(r.energy[i])]
    BY <1>6
  <2>2. QED
    BY <2>1 DEF energy_j
<1>7. Power(r) = SumOver(v, D) \div r.elapsed
  BY DEF Power, SumSeq
<1> HIDE DEF D, v, q
<1>8. ASSUME NEW S \in SUBSET D
      PROVE  Summable(v, S) /\ Summable(q, S) /\ Q(S) \in Nat /\ SumOver(v, S) = r.elapsed * Q(S)
  <2>1. IsFiniteSet(S)
    BY <1>1, FS_Subset
  <2>2. Summable(v, S) /\ Summable(q, S)
    BY <1>2, <1>3, <2>1 DEF Summable
  <2>3. \A i \in S : v[i] = r.elapsed * q[i]
    BY <1>3
  <2>4. SumOver(v, S) = r.elapsed * SumOver(q, S)
    BY <1>1, <2>2, <2>3, SumOfMultiples
  <2>5. QED
    BY <2>2, <2>4, SumIsNat
<1>9. ASSUME NEW source, Items(r, source) \in SUBSET D
      PROVE  Scaled(r, source) = Interval * Q(Items(r, source))
  <2> DEFINE S == Items(r, source)
  <2>1. energy_j(r, source) = SumOver(v, S)
    <3>1. \A i \in S : [j \in S |-> v[j]][i] = v[i]
      OBVIOUS
    <3>2. Summable(v, S)
      BY <1>8, <1>9
    <3>3. SumOver([i \in S |-> v[i]], S) = SumOver(v, S)
      BY <3>1, <3>2, SumOfSame
    <3>4. QED
      BY <1>6, <1>9, <3>3
  <2>2. SumOver(v, S) = r.elapsed * Q(S) /\ Q(S) \in Nat
    BY <1>8, <1>9
  <2> HIDE DEF S
  <2>3. Interval \in Nat /\ Interval * Q(S) \in Nat
    BY <2>2, IntervalAssumption
  <2>4. Interval * (r.elapsed * Q(S)) = r.elapsed * (Interval * Q(S))
    BY <1>1, <2>2, <2>3
  <2>5. (r.elapsed * (Interval * Q(S))) \div r.elapsed = Interval * Q(S)
    BY <1>1, <2>3, DivExact
  <2>6. QED
    BY <2>1, <2>2, <2>4, <2>5 DEF Scaled, S
<1>10. Power(r) = Q(D) /\ Q(D) \in Nat
  <2>1. SumOver(v, D) = r.elapsed * Q(D) /\ Q(D) \in Nat
    BY <1>8
  <2> HIDE DEF Q
  <2>2. QED
    BY <1>1, <1>7, <2>1, DivExact
<1>11. Q(D) = Q(Items(r, "cpu")) + Q(Items(r, "gpu")) + Q(Items(r, "ane"))
  <2>1. /\ Summable(q, Items(r, "cpu")) /\ Summable(q, Items(r, "gpu")) /\ Summable(q, Items(r, "ane"))
        /\ Q(Items(r, "cpu")) \in Nat /\ Q(Items(r, "gpu")) \in Nat /\ Q(Items(r, "ane")) \in Nat
    BY <1>4, <1>8
  <2>2. Q(Items(r, "cpu") \cup Items(r, "gpu")) = Q(Items(r, "cpu")) + Q(Items(r, "gpu"))
    BY <1>5, <2>1, SumSplits
  <2>3. Summable(q, Items(r, "cpu") \cup Items(r, "gpu"))
    BY <2>1, SummableUnion
  <2>4. Q(D) = Q(Items(r, "cpu") \cup Items(r, "gpu")) + Q(Items(r, "ane"))
    BY <1>5, <2>1, <2>3, SumSplits
  <2>5. QED
    BY <2>2, <2>4
<1>12. package(r) = Interval * Q(Items(r, "cpu")) + Interval * Q(Items(r, "gpu")) + Interval * Q(Items(r, "ane"))
  BY <1>4, <1>9 DEF package
<1>13. QED
  <2>1. /\ Q(Items(r, "cpu")) \in Nat /\ Q(Items(r, "gpu")) \in Nat /\ Q(Items(r, "ane")) \in Nat
    BY <1>4, <1>8
  <2>2. Interval \in Nat
    BY IntervalAssumption
  <2> HIDE DEF Q
  <2>3. Interval * (Q(Items(r, "cpu")) + Q(Items(r, "gpu")) + Q(Items(r, "ane")))
          = Interval * Q(Items(r, "cpu")) + Interval * Q(Items(r, "gpu")) + Interval * Q(Items(r, "ane"))
    BY <2>1, <2>2
  <2>4. QED
    BY <1>10, <1>11, <1>12, <2>3

-----------------------------------------------------------------------------
(* The mean of the parts.                                                  *)

\* The utilization of a cluster is that of its cores, cut off.
Utilization(cores) ==
  IF DOMAIN cores = {} THEN 0
  ELSE SumOver([i \in DOMAIN cores |-> cores[i].active], DOMAIN cores) \div Cardinality(DOMAIN cores)

\* What one reading became.
PartOf(part, r) ==
  /\ part.package_W = package(r)
  /\ part.total_gbps = _compute_bandwidth_gbps(r.dram)
  /\ part._available = bandwidth_available(r.dram)
  /\ part.cluster.active = Utilization(part.cores)

\* A sample whose numbers are the means of the samples'.
Column(samples, i) == [k \in 1..Len(samples) |-> CoreActive(samples[k], i)]
Watts(samples) == [k \in 1..Len(samples) |-> samples[k].package_W]
Rates(samples) == [k \in 1..Len(samples) |-> samples[k].total_gbps]
Actives(samples) == [k \in 1..Len(samples) |-> samples[k].cluster.active]

MeanOf(sample, samples) ==
  LET n == Len(samples)
      Quotient(f) == SumOver(f, 1..n) \div n
  IN  /\ sample.package_W = Quotient(Watts(samples))
      /\ sample.total_gbps = Quotient(Rates(samples))
      /\ sample.cluster.active = Quotient(Actives(samples))
      /\ DOMAIN sample.cores = DOMAIN samples[n].cores
      /\ \A i \in DOMAIN sample.cores : sample.cores[i].active = Quotient(Column(samples, i))
      /\ sample._available = \E k \in 1..n : samples[k]._available

LEMMA PartFacts ==
  ASSUME NEW part \in Part
  PROVE  /\ CoreTable(part.cores)
         /\ part.cluster \in ClusterEntries /\ part.cluster.active \in Nat
         /\ \A i \in DOMAIN part.cores : part.cores[i].active \in Nat
         /\ \A i : CoreActive(part, i) \in Nat
<1>1. CoreTable(part.cores) /\ part.cluster \in ClusterEntries
  BY TablesOfCores DEF Part
<1>2. part.cluster.active \in Nat
  BY <1>1 DEF ClusterEntries
<1>3. \A i \in DOMAIN part.cores : part.cores[i].active \in Nat
  BY <1>1 DEF CoreTable, Core
<1>4. QED
  BY <1>1, <1>2, <1>3 DEF CoreActive

LEMMA AverageIsMean ==
  ASSUME NEW samples \in Seq(Part), samples # <<>>
  PROVE  MeanOf(_average_samples(samples), samples)
<1> DEFINE n == Len(samples)
           base == samples[n]
           avg == _average_samples(samples)
           ids == DOMAIN base.cores
<1>1. n \in Nat /\ n > 0 /\ DOMAIN samples = 1..n /\ base \in Part /\ Last(samples) = base
  BY DEF Last
<1>2. base.cluster \in ClusterEntries
  BY <1>1, PartFacts
<1>3. /\ avg.package_W = Mean(LAMBDA part : part.package_W, samples)
      /\ avg.total_gbps = Mean(LAMBDA part : part.total_gbps, samples)
      /\ avg._available = \E k \in DOMAIN samples : samples[k]._available
  BY DEF _average_samples
<1>4. /\ avg.package_W = SumOver(Watts(samples), 1..n) \div n
      /\ avg.total_gbps = SumOver(Rates(samples), 1..n) \div n
  BY <1>1, <1>3 DEF Mean, SumSeq, count, Watts, Rates
<1>5. avg.cores = [i \in ids |->
                     LET Active_(part) == CoreActive(part, i)
                         Freq_(part) == CoreFreq(part, i)
                     IN  [freq |-> Mean(Freq_, samples), active |-> Mean(Active_, samples)]]
  BY <1>1 DEF _average_samples
<1>6. ASSUME NEW i \in ids
      PROVE  avg.cores[i].active = SumOver(Column(samples, i), 1..n) \div n
  <2>1. avg.cores[i].active = Mean(LAMBDA part : CoreActive(part, i), samples)
    <3> HIDE DEF ids
    <3>1. QED
      BY <1>5
  <2>2. Mean(LAMBDA part : CoreActive(part, i), samples)
          = SumOver([k \in 1..n |-> CoreActive(samples[k], i)], 1..n) \div n
    BY <1>1 DEF Mean, SumSeq, count
  <2>3. QED
    BY <2>1, <2>2 DEF Column
<1>7. DOMAIN avg.cores = ids
  <2> HIDE DEF ids
  <2>1. QED
    BY <1>5
<1>8. avg.cluster.active = SumOver(Actives(samples), 1..n) \div n
  <2>1. avg.cluster = [base.cluster EXCEPT !.active = Mean(LAMBDA part : part.cluster.active, samples),
                                           !.freq = Mean(LAMBDA part : part.cluster.freq, samples)]
    BY <1>1 DEF _average_samples
  <2>2. ASSUME NEW c \in ClusterEntries, NEW x, NEW y
        PROVE  [c EXCEPT !.active = x, !.freq = y].active = x
    <3>1. c \in [active : Nat, freq : Nat, max : Nat, residency : [BucketSet -> Nat]]
      BY DEF ClusterEntries
    <3>2. QED
      BY <3>1
  <2>3. avg.cluster.active = Mean(LAMBDA part : part.cluster.active, samples)
    BY <1>2, <2>1, <2>2
  <2>4. QED
    BY <1>1, <2>3 DEF Mean, SumSeq, count, Actives
<1>9. QED
  BY <1>1, <1>3, <1>4, <1>6, <1>7, <1>8 DEF MeanOf

\* One sample is its own mean.
LEMMA OneIsMean ==
  ASSUME NEW samples \in Seq(Part), Len(samples) = 1,
         \A k \in 1..1 : samples[k].package_W \in Nat /\ samples[k].total_gbps \in Nat
  PROVE  MeanOf(samples[1], samples)
<1> DEFINE one == samples[1]
           ids == DOMAIN one.cores
<1>1. one \in Part /\ one.package_W \in Nat /\ one.total_gbps \in Nat
  OBVIOUS
<1>2. one.cluster.active \in Nat /\ \A i \in ids : one.cores[i].active \in Nat
  BY <1>1, PartFacts
<1>3. ASSUME NEW f, f[1] \in Nat
      PROVE  SumOver(f, 1..1) \div 1 = f[1]
  <2>1. 1..1 = {1}
    OBVIOUS
  <2>2. SumOver(f, {1}) = f[1]
    BY <1>3, SumOfOne
  <2>3. f[1] \div 1 = f[1]
    BY <1>3
  <2>4. QED
    BY <2>1, <2>2, <2>3
<1>4. /\ Watts(samples)[1] = one.package_W /\ Rates(samples)[1] = one.total_gbps
      /\ Actives(samples)[1] = one.cluster.active
  BY DEF Watts, Rates, Actives
<1>5. ASSUME NEW i \in ids
      PROVE  Column(samples, i)[1] = one.cores[i].active
  BY <1>2 DEF Column, CoreActive
<1>6. \A i \in ids : one.cores[i].active = SumOver(Column(samples, i), 1..1) \div 1
  BY <1>2, <1>3, <1>5
<1>8. /\ one.package_W = SumOver(Watts(samples), 1..1) \div 1
      /\ one.total_gbps = SumOver(Rates(samples), 1..1) \div 1
      /\ one.cluster.active = SumOver(Actives(samples), 1..1) \div 1
  BY <1>1, <1>2, <1>3, <1>4
<1>9. one._available = \E k \in 1..1 : samples[k]._available
  <2>1. one._available \in BOOLEAN
    BY <1>1 DEF Part, bandwidth_available
  <2>2. \A k \in 1..1 : samples[k] = one
    OBVIOUS
  <2>3. 1 \in 1..1
    OBVIOUS
  <2> HIDE DEF one
  <2>4. (\E k \in 1..1 : samples[k]._available) = (\E k \in 1..1 : one._available)
    BY <2>2
  <2>5. QED
    BY <2>1, <2>3, <2>4, Zenon
<1>10. QED
  BY <1>6, <1>8, <1>9 DEF MeanOf

\* The parts of a call and the readings they were made of.
Paired(samples, readings) ==
  /\ samples \in Seq(Part) /\ samples # <<>>
  /\ readings \in Seq(Readings) /\ Len(readings) = Len(samples)
  /\ \A k \in 1..Len(samples) : PartOf(samples[k], readings[k])

LEMMA PairedFacts ==
  ASSUME NEW samples, NEW readings, Paired(samples, readings)
  PROVE  /\ Len(samples) \in Nat /\ Len(samples) > 0
         /\ DOMAIN samples = 1..Len(samples) /\ DOMAIN readings = 1..Len(samples)
         /\ \A k \in 1..Len(samples) :
              /\ samples[k] \in Part /\ readings[k] \in Readings
              /\ PartOf(samples[k], readings[k])
BY DEF Paired

LEMMA PowerMean ==
  ASSUME NEW samples, NEW readings, Paired(samples, readings), NEW sample, MeanOf(sample, samples)
  PROVE  Within(sample.package_W \div Interval, {Power(readings[k]) : k \in DOMAIN readings})
<1> DEFINE n == Len(samples)
           w == Watts(samples)
           q == sample.package_W
<1>1. /\ n \in Nat /\ n > 0 /\ DOMAIN readings = 1..n
      /\ \A k \in 1..n : /\ readings[k] \in Readings /\ PartOf(samples[k], readings[k])
  BY PairedFacts
<1>2. q = SumOver(w, 1..n) \div n
  BY DEF MeanOf
<1>3. \A k \in 1..n : Power(readings[k]) \in Nat /\ w[k] = Interval * Power(readings[k])
  BY <1>1, PowerFacts DEF PartOf, Watts
<1>4. Interval \in Nat /\ Interval > 0
  BY IntervalAssumption
<1> HIDE DEF n, w, q
<1>5. \A k \in 1..n : w[k] \in Nat
  BY <1>3, <1>4
<1>6. q \in Nat /\ Between(q, w, n)
  BY <1>1, <1>2, <1>5, MeanBetween
<1>7. PICK i \in 1..n, j \in 1..n : w[i] <= q /\ q <= w[j]
  BY <1>6 DEF Between
<1>8. ASSUME NEW lo \in Nat, NEW hi \in Nat, lo = Power(readings[i]), hi = Power(readings[j])
      PROVE  lo <= q \div Interval /\ q \div Interval <= hi
  <2>1. lo * Interval <= q /\ q <= hi * Interval
    BY <1>3, <1>4, <1>7, <1>8
  <2>2. QED
    BY <1>4, <1>6, <2>1, DivBetween
<1>9. Power(readings[i]) <= q \div Interval /\ q \div Interval <= Power(readings[j])
  BY <1>3, <1>8
<1>10. QED
  BY <1>1, <1>9 DEF Within, q

LEMMA CoresMean ==
  ASSUME NEW samples, NEW readings, Paired(samples, readings), NEW sample, MeanOf(sample, samples),
         NEW i \in DOMAIN sample.cores
  PROVE  Within(sample.cores[i].active, {CoreActive(samples[k], i) : k \in DOMAIN samples})
<1> DEFINE n == Len(samples)
           c == Column(samples, i)
<1>1. n \in Nat /\ n > 0 /\ DOMAIN samples = 1..n /\ \A k \in 1..n : samples[k] \in Part
  BY PairedFacts
<1>2. sample.cores[i].active = SumOver(c, 1..n) \div n
  BY DEF MeanOf
<1>3. \A k \in 1..n : c[k] = CoreActive(samples[k], i)
  BY DEF Column
<1>4. \A k \in 1..n : c[k] \in Nat
  BY <1>1, <1>3, PartFacts
<1> HIDE DEF n, c
<1>5. Between(sample.cores[i].active, c, n)
  BY <1>1, <1>2, <1>4, MeanBetween
<1>6. QED
  BY <1>1, <1>3, <1>5 DEF Between, Within

\* A cluster without cores is not utilized; any other as the mean of its cores, cut off.
LEMMA UtilizationFacts ==
  ASSUME NEW part \in Part, part.cluster.active = Utilization(part.cores),
         NEW D, IsFiniteSet(D), NEW n \in Nat, n > 0, Cardinality(D) = n, DOMAIN part.cores \in {{}, D}
  PROVE  LET x == part.cluster.active
             all == SumOver([i \in D |-> CoreActive(part, i)], D)
         IN  x \in Nat /\ n * x <= all /\ all <= n * x + (n - 1)
<1> DEFINE f == [i \in D |-> CoreActive(part, i)]
           all == SumOver(f, D)
           x == part.cluster.active
<1>1. x \in Nat /\ \A i : CoreActive(part, i) \in Nat
  BY PartFacts
<1>2. CASE DOMAIN part.cores = {}
  <2>1. x = 0
    BY <1>2 DEF Utilization
  <2>2. \A i \in D : f[i] = 0
    BY <1>2 DEF CoreActive
  <2>3. all = 0
    <3> HIDE DEF f
    <3>1. QED
      BY <2>2, SumOfZeros
  <2> HIDE DEF all, x
  <2>4. QED
    BY <2>1, <2>3 DEF all, x
<1>3. CASE DOMAIN part.cores = D
  <2>1. D # {}
    BY FS_EmptySet
  <2>2. f = [i \in DOMAIN part.cores |-> part.cores[i].active]
    BY <1>3 DEF CoreActive
  <2>3. x = all \div n
    BY <1>3, <2>1, <2>2 DEF Utilization
  <2>4. all \in Nat
    <3>1. \A i \in D : f[i] \in Nat
      BY <1>1
    <3> HIDE DEF f
    <3>2. Summable(f, D)
      BY <3>1 DEF Summable
    <3>3. QED
      BY <3>2, SumIsNat
  <2>5. n * x <= all /\ all <= n * x + (n - 1)
    <3> HIDE DEF all
    <3>1. all \div n \in Nat /\ all % n \in Nat /\ all % n < n /\ n * (all \div n) + (all % n) = all
      BY <2>4, Division
    <3>2. ASSUME NEW q \in Nat, NEW r \in Nat, r < n, n * q + r = all
          PROVE  n * q <= all /\ all <= n * q + (n - 1)
      <4>1. n * q \in Nat
        OBVIOUS
      <4>2. QED
        BY <2>4, <3>2, <4>1
    <3>3. QED
      BY <2>3, <3>1, <3>2
  <2> HIDE DEF all, x
  <2>6. QED
    BY <1>1, <2>5 DEF all, x
<1>4. QED
  BY <1>2, <1>3

LEMMA ClusterMean ==
  ASSUME NEW samples, NEW readings, Paired(samples, readings), NEW sample, MeanOf(sample, samples),
         DOMAIN sample.cores # {}, \A k \in DOMAIN samples : DOMAIN samples[k].cores \in {{}, DOMAIN sample.cores}
  PROVE  LET ids == DOMAIN sample.cores
             n == Cardinality(ids)
             cores == SumOver([i \in ids |-> sample.cores[i].active], ids)
         IN  cores - 2 * n < n * sample.cluster.active /\ n * sample.cluster.active < cores + n
<1> DEFINE K == Len(samples)
           D == DOMAIN sample.cores
           n == Cardinality(D)
           a == [i \in D |-> Column(samples, i)]
           u == Actives(samples)
           c == [i \in D |-> SumOver(a[i], 1..K) \div K]
<1>1. /\ K \in Nat /\ K > 0 /\ DOMAIN samples = 1..K
      /\ \A k \in 1..K : samples[k] \in Part /\ samples[k].cluster.active = Utilization(samples[k].cores)
  BY PairedFacts DEF PartOf
<1>2. IsFiniteSet(D) /\ n \in Nat /\ n > 0
  <2>1. D = DOMAIN samples[K].cores
    BY DEF MeanOf
  <2>2. samples[K] \in Part
    BY <1>1
  <2>3. IsFiniteSet(D)
    BY <2>1, <2>2, PartFacts DEF CoreTable
  <2>4. n \in Nat /\ (n = 0 <=> D = {})
    BY <2>3, FS_CardinalityType, FS_EmptySet
  <2>5. QED
    BY <2>3, <2>4
<1>3. \A i \in D : sample.cores[i].active = c[i]
  BY DEF MeanOf
<1>4. sample.cluster.active = SumOver(u, 1..K) \div K
  BY DEF MeanOf
<1>5. \A i \in D, k \in 1..K : a[i][k] = CoreActive(samples[k], i)
  BY DEF Column
<1>6. \A i \in D, k \in 1..K : a[i][k] \in Nat
  <2>1. \A k \in 1..K : \A i : CoreActive(samples[k], i) \in Nat
    BY <1>1, PartFacts
  <2> HIDE DEF a, K, D
  <2>2. QED
    BY <1>5, <2>1
<1>7. \A k \in 1..K : u[k] = samples[k].cluster.active
  BY DEF Actives
<1>8. ASSUME NEW k \in 1..K
      PROVE  /\ u[k] \in Nat
             /\ n * u[k] <= SumOver([i \in D |-> a[i][k]], D)
             /\ SumOver([i \in D |-> a[i][k]], D) <= n * u[k] + (n - 1)
  <2>1. [i \in D |-> a[i][k]] = [i \in D |-> CoreActive(samples[k], i)]
    BY <1>5
  <2>2. DOMAIN samples[k].cores \in {{}, D}
    BY <1>1
  <2>3. samples[k] \in Part /\ samples[k].cluster.active = Utilization(samples[k].cores)
    BY <1>1
  <2>4. Cardinality(D) = n
    OBVIOUS
  <2> HIDE DEF n, a, u, D
  <2>5. QED
    BY <1>2, <1>7, <2>1, <2>2, <2>3, <2>4, UtilizationFacts
<1>9. [i \in D |-> sample.cores[i].active] = c
  BY <1>3
<1>10. Cardinality(D) = n
  OBVIOUS
<1> HIDE DEF a, u, K, n, D
<1>11. LET U == SumOver(u, 1..K) \div K
           C == SumOver([i \in D |-> SumOver(a[i], 1..K) \div K], D)
       IN  C - 2 * n < n * U /\ n * U < C + n
  BY <1>1, <1>2, <1>6, <1>8, <1>10, CutsAddUp
<1>12. QED
  BY <1>4, <1>9, <1>11 DEF n, D

LEMMA BandMean ==
  ASSUME NEW samples, NEW readings, Paired(samples, readings), NEW sample, MeanOf(sample, samples)
  PROVE  LET low == {SumSeq(Floor, readings[k].dram) : k \in DOMAIN readings}
             high == {SumSeq(Ceiling, readings[k].dram) : k \in DOMAIN readings}
             gbps == IF sample._available THEN sample.total_gbps ELSE 0
         IN  /\ Min(low) <= gbps
             /\ gbps < Max(high) \/ Max(high) = 0
             /\ Max(high) > 0 => sample._available
<1> DEFINE n == Len(samples)
           low == [k \in 1..n |-> SumSeq(Floor, readings[k].dram)]
           high == [k \in 1..n |-> SumSeq(Ceiling, readings[k].dram)]
           x == Rates(samples)
           q == sample.total_gbps
           L == {low[k] : k \in 1..n}
           H == {high[k] : k \in 1..n}
           open == sample._available
<1>1. /\ n \in Nat /\ n > 0 /\ DOMAIN readings = 1..n
      /\ \A k \in 1..n : readings[k] \in Readings /\ PartOf(samples[k], readings[k])
  BY PairedFacts
<1>2. q = SumOver(x, 1..n) \div n /\ open = \E k \in 1..n : samples[k]._available
  BY DEF MeanOf
<1>3. \A k \in 1..n : /\ low[k] \in Nat /\ high[k] \in Nat /\ x[k] \in Nat /\ low[k] <= x[k]
                      /\ high[k] = 0 => x[k] = 0
                      /\ high[k] > 0 => x[k] < high[k] /\ samples[k]._available
  <2>1. SUFFICES ASSUME NEW k \in 1..n
                 PROVE  /\ low[k] \in Nat /\ high[k] \in Nat /\ x[k] \in Nat /\ low[k] <= x[k]
                        /\ high[k] = 0 => x[k] = 0
                        /\ high[k] > 0 => x[k] < high[k] /\ samples[k]._available
    OBVIOUS
  <2>2. /\ low[k] = SumSeq(Floor, readings[k].dram) /\ high[k] = SumSeq(Ceiling, readings[k].dram)
        /\ x[k] = _compute_bandwidth_gbps(readings[k].dram)
        /\ samples[k]._available = bandwidth_available(readings[k].dram)
    BY <1>1 DEF PartOf, Rates
  <2>3. readings[k] \in Readings
    BY <1>1
  <2> HIDE DEF low, high, x
  <2>4. QED
    BY <2>2, <2>3, BandFacts
<1>4. /\ {SumSeq(Floor, readings[k].dram) : k \in DOMAIN readings} = L
      /\ {SumSeq(Ceiling, readings[k].dram) : k \in DOMAIN readings} = H
  BY <1>1
<1> HIDE DEF n, low, high, x, q, open
<1>5. q \in Nat /\ Between(q, x, n)
  BY <1>1, <1>2, <1>3, MeanBetween
<1>6. PICK i \in 1..n, j \in 1..n : x[i] <= q /\ q <= x[j]
  BY <1>5 DEF Between
<1>7. L \in SUBSET Nat /\ low[i] \in L
  BY <1>3
<1>8. Min(L) \in Nat /\ \A k \in 1..n : Min(L) <= low[k]
  <2>1. \A k \in 1..n : low[k] \in L
    OBVIOUS
  <2> HIDE DEF L
  <2>2. Min(L) \in L /\ \A y \in L : Min(L) <= y
    BY <1>7, MinExists
  <2>3. QED
    BY <1>7, <2>1, <2>2
<1>9. Max(H) \in Nat /\ (\E k \in 1..n : Max(H) = high[k]) /\ \A k \in 1..n : high[k] <= Max(H)
  <2>1. \A k \in 1..n : high[k] \in Nat
    BY <1>3
  <2>2. /\ Max({high[k] : k \in 1..n}) \in Nat
        /\ \E k \in 1..n : Max({high[m] : m \in 1..n}) = high[k]
        /\ \A k \in 1..n : high[k] <= Max({high[m] : m \in 1..n})
    BY <1>1, <2>1, GreatestOfSome
  <2>3. QED
    BY <2>2
<1> HIDE DEF L, H
<1>10. open \in BOOLEAN
  BY <1>2
<1>11. Max(H) > 0 => open
  BY <1>2, <1>3, <1>9
<1>12. Min(L) <= q
  BY <1>3, <1>5, <1>6, <1>8
<1>13. q < Max(H) \/ Max(H) = 0
  <2>1. CASE high[j] = 0
    BY <1>3, <1>5, <1>6, <1>9, <2>1
  <2>2. CASE high[j] # 0
    <3>1. high[j] > 0 /\ x[j] < high[j] /\ high[j] <= Max(H)
      BY <1>3, <1>9, <2>2
    <3>2. QED
      BY <1>3, <1>5, <1>6, <1>9, <3>1
  <2>3. QED
    BY <2>1, <2>2
\* A rate that is withheld: no controller was in a bucket, so every floor is 0 too.
<1>14. ASSUME ~ open
       PROVE  Min(L) <= 0 /\ Max(H) = 0 /\ ~ (Max(H) > 0)
  <2>1. Max(H) = 0
    BY <1>9, <1>11, <1>14
  <2>2. high[i] = 0
    BY <1>3, <1>9, <2>1
  <2>3. x[i] = 0 /\ low[i] <= 0
    BY <1>3, <2>2
  <2>4. QED
    BY <1>3, <1>8, <2>1, <2>3
<1>15. CASE open
  BY <1>4, <1>11, <1>12, <1>13, <1>15 DEF open, q
<1>16. CASE ~ open
  <2>1. Min(L) <= 0 /\ Max(H) = 0 /\ ~ (Max(H) > 0)
    BY <1>14, <1>16
  <2>2. (IF open THEN q ELSE 0) = 0
    BY <1>16, Zenon
  <2>3. QED
    BY <1>4, <2>1, <2>2, Zenon DEF open, q
<1>17. QED
  BY <1>10, <1>15, <1>16

\* Each part is what its reading became, a call that wants one sample has one turn, and a
\* frame is only there when no turn is left.
DrawnOK ==
  /\ drawn \in Seq(Readings) /\ Len(drawn) = Len(parts)
  /\ \A k \in 1..Len(parts) : PartOf(parts[k], drawn[k])
  /\ wanted = 1 => \/ left = 1 /\ parts = <<>>
                   \/ left = 0 /\ Len(parts) <= 1
  /\ frame # Null => left = 0

LEMMA DeliverMeans ==
  ASSUME PartsOK, DrawnOK, NEW perf \in BOOLEAN, Deliver(perf)
  PROVE  FrameIsMean'
<1> DEFINE sample == IF wanted = 1 THEN parts[1] ELSE _average_samples(parts)
           fr == _sample_to_snapshot(sample, perf)
<1>1. /\ parts # <<>> /\ parts' = parts /\ drawn' = drawn /\ frame' = fr /\ left = 0
  BY DEF Deliver
<1>2. Paired(parts, drawn)
  BY <1>1 DEF PartsOK, DrawnOK, Paired
<1>3. MeanOf(sample, parts)
  <2>1. CASE wanted = 1
    <3>1. Len(parts) = 1
      <4>1. Len(parts) \in Nat /\ Len(parts) > 0
        BY <1>2, PairedFacts
      <4>2. Len(parts) <= 1
        BY <1>1, <2>1 DEF DrawnOK
      <4>3. QED
        BY <4>1, <4>2
    <3>2. ASSUME NEW k \in 1..1
          PROVE  parts[k].package_W \in Nat /\ parts[k].total_gbps \in Nat
      <4>1. drawn[k] \in Readings /\ PartOf(parts[k], drawn[k])
        BY <1>2, <3>1, PairedFacts
      <4>2. package(drawn[k]) \in Nat
        <5>1. Power(drawn[k]) \in Nat /\ package(drawn[k]) = Interval * Power(drawn[k])
          BY <4>1, PowerFacts
        <5>2. Interval \in Nat
          BY IntervalAssumption
        <5>3. QED
          BY <5>1, <5>2
      <4>3. _compute_bandwidth_gbps(drawn[k].dram) \in Nat
        BY <4>1, BandFacts
      <4>4. QED
        BY <4>1, <4>2, <4>3 DEF PartOf
    <3>3. parts \in Seq(Part)
      BY DEF PartsOK
    <3>4. MeanOf(parts[1], parts)
      BY <3>1, <3>2, <3>3, OneIsMean
    <3>5. QED
      BY <2>1, <3>4
  <2>2. CASE wanted # 1
    <3>1. MeanOf(_average_samples(parts), parts)
      BY <1>1, AverageIsMean DEF PartsOK
    <3>2. QED
      BY <2>2, <3>1
  <2>3. QED
    BY <2>1, <2>2
<1> HIDE DEF sample
<1>4. /\ fr.package_watts = sample.package_W \div Interval
      /\ fr.cores = sample.cores /\ fr.util_pct = sample.cluster.active
      /\ fr.bandwidth_gbps = IF sample._available THEN sample.total_gbps ELSE 0
      /\ fr.bandwidth_available = sample._available
  BY DEF _sample_to_snapshot
<1> HIDE DEF fr
<1>5. PowerIsMean(fr, drawn)
  BY <1>2, <1>3, <1>4, PowerMean DEF PowerIsMean
<1>6. CoresAreMeans(fr, parts)
  BY <1>2, <1>3, <1>4, CoresMean DEF CoresAreMeans
<1>7. ClusterIsMean(fr, parts)
  <2>1. SUFFICES ASSUME DOMAIN fr.cores # {}, \A k \in DOMAIN parts : DOMAIN parts[k].cores \in {{}, DOMAIN fr.cores}
                 PROVE  LET ids == DOMAIN fr.cores
                            n == Cardinality(ids)
                            cores == SumOver([i \in ids |-> fr.cores[i].active], ids)
                        IN  cores - 2 * n < n * fr.util_pct /\ n * fr.util_pct < cores + n
    BY DEF ClusterIsMean
  <2>2. LET ids == DOMAIN sample.cores
            n == Cardinality(ids)
            cores == SumOver([i \in ids |-> sample.cores[i].active], ids)
        IN  cores - 2 * n < n * sample.cluster.active /\ n * sample.cluster.active < cores + n
    BY <1>2, <1>3, <1>4, <2>1, ClusterMean
  <2>3. QED
    BY <1>4, <2>2
<1>8. BandwidthInBuckets(fr, drawn)
  <2>1. LET low == {SumSeq(Floor, drawn[k].dram) : k \in DOMAIN drawn}
            high == {SumSeq(Ceiling, drawn[k].dram) : k \in DOMAIN drawn}
            gbps == IF sample._available THEN sample.total_gbps ELSE 0
        IN  /\ Min(low) <= gbps
            /\ gbps < Max(high) \/ Max(high) = 0
            /\ Max(high) > 0 => sample._available
    BY <1>2, <1>3, BandMean
  <2>2. QED
    BY <1>4, <2>1 DEF BandwidthInBuckets
<1>9. QED
  BY <1>1, <1>5, <1>6, <1>7, <1>8 DEF FrameIsMean

LEMMA DrawnInductive == ConvSpec => [](DrawnOK /\ FrameIsMean)
<1>1. ConvInit => DrawnOK /\ FrameIsMean
  BY DEF ConvInit, DrawnOK, FrameIsMean
<1>2. ASSUME DrawnOK, FrameIsMean, UNCHANGED <<wanted, left, parts, drawn, frame>>
      PROVE  DrawnOK' /\ FrameIsMean'
  <2>1. DrawnOK'
    BY <1>2 DEF DrawnOK
  <2>2. FrameIsMean'
    BY <1>2 DEF FrameIsMean
  <2>3. QED
    BY <2>1, <2>2
<1>3. ClusterInv /\ PartsOK /\ (DrawnOK /\ FrameIsMean) /\ [ConvNext]_convVars => (DrawnOK /\ FrameIsMean)'
  <2>1. SUFFICES ASSUME ClusterInv, PartsOK, DrawnOK, FrameIsMean, [ConvNext]_convVars
                 PROVE  DrawnOK' /\ FrameIsMean'
    OBVIOUS
  <2>2. CASE \E ch \in Channels : TakeItem(ch)
    BY <1>2, <2>1, <2>2 DEF TakeItem, sampleVars
  <2>3. ASSUME NEW r \in Readings, ConvertPart(r) PROVE DrawnOK' /\ FrameIsMean'
    <3> DEFINE part == [cores |-> coreData, cluster |-> result', package_W |-> package(r),
                        total_gbps |-> _compute_bandwidth_gbps(r.dram),
                        _available |-> bandwidth_available(r.dram)]
    <3>1. /\ left # 0 /\ left' = left - 1 /\ wanted' = wanted /\ frame' = frame /\ result' = cpu_metrics
          /\ parts' = Append(parts, part) /\ drawn' = Append(drawn, r)
      BY <2>3 DEF ConvertPart, _convert
    <3>2. frame = Null
      BY <2>1, <3>1 DEF DrawnOK
    <3>3. PartOf(part, r)
      <4>1. cpu_metrics.active = Utilization(coreData)
        BY DEF cpu_metrics, Utilization
      <4>2. QED
        BY <3>1, <4>1 DEF PartOf
    <3> HIDE DEF part
    <3>4. /\ parts \in Seq(Part) /\ drawn \in Seq(Readings) /\ Len(drawn) = Len(parts)
          /\ \A k \in 1..Len(parts) : PartOf(parts[k], drawn[k])
      BY <2>1 DEF PartsOK, DrawnOK
    <3>5. /\ drawn' \in Seq(Readings) /\ Len(drawn') = Len(parts') /\ Len(parts') = Len(parts) + 1
          /\ Len(parts) \in Nat
      BY <3>1, <3>4
    <3>6. ASSUME NEW k \in 1..Len(parts') PROVE PartOf(parts'[k], drawn'[k])
      <4>1. CASE k = Len(parts) + 1
        <5>1. parts'[k] = part /\ drawn'[k] = r
          BY <3>1, <3>4, <4>1
        <5>2. QED
          BY <3>3, <5>1
      <4>2. CASE k # Len(parts) + 1
        <5>1. k \in 1..Len(parts)
          BY <3>5, <4>2
        <5>2. parts'[k] = parts[k] /\ drawn'[k] = drawn[k]
          BY <3>1, <3>4, <5>1
        <5>3. QED
          BY <3>4, <5>1, <5>2
      <4>3. QED
        BY <4>1, <4>2
    <3>7. ASSUME wanted = 1
          PROVE  left' = 0 /\ Len(parts') <= 1
      <4>1. left = 1 /\ parts = <<>>
        BY <2>1, <3>1, <3>7 DEF DrawnOK
      <4>2. QED
        BY <3>1, <3>5, <4>1
    <3>8. DrawnOK'
      BY <3>1, <3>2, <3>5, <3>6, <3>7 DEF DrawnOK, PartOf
    <3>9. FrameIsMean'
      BY <3>1, <3>2 DEF FrameIsMean
    <3>10. QED
      BY <3>8, <3>9
  <2>4. CASE MissPart
    <3>1. /\ left # 0 /\ wanted # 1 /\ UNCHANGED <<wanted, parts, drawn, frame>>
      BY <2>4 DEF MissPart
    <3>2. frame = Null
      BY <2>1, <3>1 DEF DrawnOK
    <3>3. QED
      BY <2>1, <3>1, <3>2 DEF DrawnOK, FrameIsMean
  <2>5. CASE NextPart
    BY <1>2, <2>1, <2>5 DEF NextPart, sampleVars
  <2>6. ASSUME NEW perf \in BOOLEAN, Deliver(perf) PROVE DrawnOK' /\ FrameIsMean'
    <3>1. FrameIsMean'
      BY <2>1, <2>6, DeliverMeans
    <3>2. UNCHANGED <<wanted, left, parts, drawn>> /\ left = 0
      BY <2>6 DEF Deliver
    <3>3. DrawnOK'
      BY <2>1, <3>2 DEF DrawnOK
    <3>4. QED
      BY <3>1, <3>3
  <2>7. CASE NextCall
    <3>1. left' = wanted /\ wanted' = wanted /\ parts' = <<>> /\ drawn' = <<>> /\ frame' = Null
      BY <2>7 DEF NextCall
    <3>2. DrawnOK'
      BY <3>1 DEF DrawnOK
    <3>3. FrameIsMean'
      BY <3>1 DEF FrameIsMean
    <3>4. QED
      BY <3>2, <3>3
  <2>8. CASE UNCHANGED convVars
    BY <1>2, <2>1, <2>8 DEF convVars
  <2>9. QED
    BY <2>1, <2>2, <2>3, <2>4, <2>5, <2>6, <2>7, <2>8 DEF ConvNext
<1>4. QED
  BY <1>1, <1>3, ClusterInductive, PartsInductive, PTL DEF ConvSpec

\* A frame's power and every core's utilization lie between those of the sub-samples, the
\* cluster's utilization agrees with the cores' up to the two cuts, and the bandwidth lies
\* within the buckets the controllers were in and is withheld only when there were none.
THEOREM FramesAreMeans == ConvSpec => []FrameIsMean
BY DrawnInductive, PTL
=============================================================================
