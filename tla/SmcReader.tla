----------------------------- MODULE SmcReader ------------------------------
(***************************************************************************)
(* SMCReader (src/actop/smc.py): one IOKit connection to the SMC, opened   *)
(* by the first reading, kept with the sensor keys found on it, and closed *)
(* with the sampler.  A reading or a close is one step; which values the   *)
(* sensors give is left out.                                               *)
(***************************************************************************)
EXTENDS Naturals

Sensors == {"cpu", "gpu", "fans"}

VARIABLES
  connected,    \* self._conn is not None
  available,    \* self._available: "unknown" (None), "yes" or "no"
  keys,         \* the kinds of sensor whose list of keys is not empty
  connections,  \* how many connections IOKit holds open for this process
  smcPc         \* "idle", or the call under way: "read" or "close"

smcVars == <<connected, available, keys, connections, smcPc>>

SmcInit ==
  /\ connected = FALSE /\ available = "unknown" /\ keys = {}
  /\ connections = 0 /\ smcPc = "idle"

\* IOServiceOpen on AppleSMCKeysEndpoint gives a handle, or there is none to be had.
_open_smc ==
  \/ connected' = TRUE /\ connections' = connections + 1
  \/ connected' = FALSE /\ UNCHANGED connections

\* The machine has sensors of any of these kinds, or none that is known.
_discover(found) ==
  /\ keys' = found
  /\ available' = IF found = {} THEN "no" ELSE "yes"

\* Mutant: only success is remembered.
_ensure_open_again ==
  IF available = "yes" THEN UNCHANGED <<connected, available, keys, connections>>
  ELSE /\ _open_smc
       /\ IF connected' THEN \E found \in SUBSET Sensors : _discover(found)
          ELSE available' = "no" /\ UNCHANGED keys

\* The answer of the first call is kept, a refusal too.  A connection on which no key
\* is found stays open.
_ensure_open ==
  IF available # "unknown" THEN UNCHANGED <<connected, available, keys, connections>>
  ELSE /\ _open_smc
       /\ IF connected' THEN \E found \in SUBSET Sensors : _discover(found)
          ELSE available' = "no" /\ UNCHANGED keys

\* read_temperatures, read_fan_info and fan_available, which begin alike.
TakeReadings ==
  /\ smcPc = "read" /\ smcPc' = "idle"
  /\ _ensure_open

\* Mutant: a reader without sensors is thought to have nothing to close.
SmcCloseIfAvailable ==
  /\ smcPc = "close" /\ smcPc' = "idle"
  /\ connections' = IF available = "yes" THEN connections - 1 ELSE connections
  /\ connected' = FALSE /\ available' = "unknown" /\ keys' = {}

SmcClose ==
  /\ smcPc = "close" /\ smcPc' = "idle"
  /\ connections' = IF connected THEN connections - 1 ELSE connections
  /\ connected' = FALSE /\ available' = "unknown" /\ keys' = {}
=============================================================================
