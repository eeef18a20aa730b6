------------------------------ MODULE MCQueues ------------------------------
(* The two queue backends under one set of requests, as the conformance    *)
(* suite runs them (symbiotic-queue/src/conformance.rs): a run exercises   *)
(* one backend while the other stays empty.                                *)
EXTENDS MemoryQueue, TLC

CONSTANTS q1, k1, v1, v2, Retention

VARIABLES items, cooldowns, sqlIssued, sqlNow, backend

Sqlite == INSTANCE SqliteQueue WITH issued <- sqlIssued, now <- sqlNow

ASSUME RetentionAssumption == Retention \in Nat

sqliteVars == <<items, cooldowns, sqlIssued, sqlNow>>

\* A key with two attempts and an item without a key that has one.
MixedRequests ==
    {[queue |-> q1, key |-> k1, max_attempts |-> 2],
     [queue |-> q1, key |-> NULL, max_attempts |-> 1]}

EitherWorker == Permutations({v1, v2})

QueuesInit == MemInit /\ Sqlite!SqlInit /\ backend \in {"memory", "sqlite"}
QueuesNext ==
    /\ UNCHANGED backend
    /\ \/ backend = "memory" /\ MemNext /\ UNCHANGED sqliteVars
       \/ backend = "sqlite" /\ Sqlite!SqlNext /\ UNCHANGED memVars
QueuesSpec == QueuesInit /\ [][QueuesNext]_<<memVars, sqliteVars, backend>>

\* The persistent backend is well typed and keeps the queue contract: exclusive leases, one
\* unended item per key, the in-flight cap, attempt ceilings, delays and
\* cooldowns, under clock samples that lag the write lock, replacements,
\* reclaims and maintenance (every operation of SqliteQueue).
SqliteKeepsContract == Sqlite!SqliteKeepsContract
=============================================================================
