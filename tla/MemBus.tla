-------------------------------- MODULE MemBus --------------------------------
(***************************************************************************)
(* The in-memory bus of tests and single-process runs                      *)
(* (internal/adapters/busmem): Publish calls the handler itself, in the    *)
(* goroutine of the publisher, and a key is handled once for good.         *)
(***************************************************************************)
EXTENDS Naturals, FiniteSets

CONSTANTS
  Publishers,  \* goroutines
  MemKeys,     \* idempotency keys
  NoKey        \* no publish is under way

ASSUME MemAssumption == NoKey \notin MemKeys

VARIABLES
  seen,        \* keys remembered
  hasHandler,  \* the queue has a consumer
  publishing,  \* publishing[p]: the key p publishes, or NoKey
  pastLock,    \* p has passed the lock and found a handler
  attempts     \* attempts[k]: handler calls begun for k

memVars == <<seen, hasHandler, publishing, pastLock, attempts>>

-----------------------------------------------------------------------------
MemTypeOK ==
  /\ seen \subseteq MemKeys /\ hasHandler \in BOOLEAN
  /\ publishing \in [Publishers -> MemKeys \cup {NoKey}]
  /\ pastLock \subseteq {p \in Publishers : publishing[p] \in seen}
  /\ attempts \in [MemKeys -> Nat]

MemInit ==
  /\ seen = {} /\ hasHandler = FALSE /\ pastLock = {}
  /\ publishing = [p \in Publishers |-> NoKey] /\ attempts = [k \in MemKeys |-> 0]

Consume == hasHandler = FALSE /\ hasHandler' = TRUE /\ UNCHANGED <<seen, publishing, pastLock, attempts>>
StopConsumer == hasHandler /\ hasHandler' = FALSE /\ UNCHANGED <<seen, publishing, pastLock, attempts>>

MemPublish(p, k) ==
  /\ publishing[p] = NoKey
  /\ publishing' = [publishing EXCEPT ![p] = k]
  /\ UNCHANGED <<seen, hasHandler, pastLock, attempts>>

Return(p) == publishing' = [publishing EXCEPT ![p] = NoKey]

(* Mutant: the key is remembered once its handler has returned.            *)
LateMark(p) == UNCHANGED seen
Mark(p) == seen' = seen \cup {publishing[p]}

(* Under the lock: a key seen is dropped; one without a consumer is        *)
(* remembered all the same, and its publisher told an error.               *)
Dedup(p) ==
  /\ publishing[p] # NoKey /\ p \notin pastLock
  /\ IF publishing[p] \in seen THEN Return(p) /\ UNCHANGED <<seen, pastLock>>
     ELSE /\ Mark(p)
          /\ IF hasHandler THEN pastLock' = pastLock \cup {p} /\ UNCHANGED publishing
             ELSE Return(p) /\ UNCHANGED pastLock
  /\ UNCHANGED <<hasHandler, attempts>>

(* Outside it: the handler runs, and its error is the publisher's.         *)
CallHandler(p) ==
  /\ p \in pastLock /\ pastLock' = pastLock \ {p}
  /\ attempts' = [attempts EXCEPT ![publishing[p]] = @ + 1]
  /\ Return(p)
  /\ UNCHANGED <<seen, hasHandler>>

MemNext ==
  \/ Consume \/ StopConsumer
  \/ \E p \in Publishers : Dedup(p) \/ CallHandler(p) \/ \E k \in MemKeys : MemPublish(p, k)

MemSpec == MemInit /\ [][MemNext]_memVars

-----------------------------------------------------------------------------
(* Concurrent publishers of one key make one handler call, and a second one*)
(* never begins, also after the first has failed.                          *)
HandledOnce ==
  \A k \in MemKeys : attempts[k] + Cardinality({p \in pastLock : publishing[p] = k}) <= 1
=============================================================================
