------------------------- MODULE ReadThroughCache --------------------------
(***************************************************************************)
(* cache.service.ts: a read-through cache in Redis.  A value is computed   *)
(* on a miss and kept for a time to live; whoever changes what a value is  *)
(* computed from deletes it.  Every Redis error is swallowed: a failed get *)
(* is a miss, a failed set or del does nothing.  Computing and storing are *)
(* two calls, so a value may be stored after it was invalidated.           *)
(***************************************************************************)
EXTENDS Runtime

CONSTANTS
  CacheKeys,
  TtlOf,       \* TtlOf[k]: how long a value of k is kept
  MaxFaults    \* bound: calls of Redis or of the file store that fail

ASSUME CacheAssumption ==
  /\ TtlOf \in [CacheKeys -> Nat]
  /\ MaxFaults \in Nat

VARIABLES
  cache,   \* cache[k]: the stored value and when Redis drops it
  faults   \* calls that have failed

cacheVars == <<cache, faults>>

NoEntry == <<>>

CacheInit ==
  /\ cache = [k \in CacheKeys |-> NoEntry]
  /\ faults = 0

Fault == faults < MaxFaults /\ faults' = faults + 1

Live(k) == cache[k] # NoEntry /\ now < cache[k].until

\* wrap: a live entry is served as it is, anything else is computed.
Lookup(k, Hit(_), Missed) ==
  /\ UNCHANGED cache
  /\ \/ Live(k) /\ Hit(cache[k].value) /\ UNCHANGED faults
     \/ ~Live(k) /\ Missed /\ UNCHANGED faults
     \/ Fault /\ Missed

\* SET without EX: the slip of a set that forgets the time to live.
CacheSetForever(k, value) ==
  /\ cache' = [cache EXCEPT ![k] = [value |-> value, until |-> Horizon + 1]]
  /\ UNCHANGED faults

CacheSet(k, value) ==
  \/ /\ cache' = [cache EXCEPT ![k] = [value |-> value, until |-> now + TtlOf[k]]]
     /\ UNCHANGED faults
  \/ UNCHANGED cache /\ Fault

CacheDel(keys) ==
  \/ /\ cache' = [k \in CacheKeys |-> IF k \in keys THEN NoEntry ELSE cache[k]]
     /\ UNCHANGED faults
  \/ UNCHANGED cache /\ Fault

\* The KEYS of invalidateByPrefix, whose DEL is another call.
CacheKeysOf(keys, Found(_)) ==
  /\ UNCHANGED cache
  /\ \/ Found({k \in keys : Live(k)}) /\ UNCHANGED faults
     \/ Fault /\ Found({})

=============================================================================
