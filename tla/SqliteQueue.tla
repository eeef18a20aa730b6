---------------------------- MODULE SqliteQueue ----------------------------
(***************************************************************************)
(* The persistent queue backend.  Each call is one immediate transaction   *)
(* on the queue_items and queue_cooldowns tables, so it is one action; a   *)
(* crash loses nothing that was committed.  A call samples the clock       *)
(* before it waits for the write lock; heartbeats, the ownership check and *)
(* the cooldown check read it inside the transaction.  A refused call      *)
(* changes nothing and is a stuttering step.  Payloads, kinds and events   *)
(* are left out; of `last_error` only whether it is LeaseExpired is kept.  *)
(***************************************************************************)
EXTENDS QueueBackend

CONSTANT Retention  \* RuntimeConfig::retention, the sweep's cutoff

VARIABLES
    items,          \* table queue_items, by id
    cooldowns,      \* table queue_cooldowns
    issued,         \* history: the queue and key each id was issued for
    now

sqlVars == <<items, cooldowns, issued, now>>

SqlInit ==
    /\ items = [i \in Ids |-> NULL] /\ cooldowns = [q \in Queues |-> NULL]
    /\ issued = [i \in Ids |-> NULL] /\ now = 0

Stored == {i \in Ids : items[i] # NULL}
Samples == {t \in 0..now : now - t <= MaxLag}
KeyOf(r) == <<r.queue, r.key>>

----------------------------------------------------------------------------
(* Enqueueing.                                                             *)

\* find_by_idempotency: the row with the latest created_at, a time sampled
\* before the write lock; rows with equal times come in any order.
Newest(r) ==
    LET rows == {i \in Stored : r.key # NULL /\ KeyOf(items[i]) = KeyOf(r)}
    IN  {i \in rows : \A j \in rows : items[j].created_at <= items[i].created_at}

\* The partial unique index refuses a second unended row of a key.
Unique(r, table) ==
    r.key = NULL \/ \A i \in Ids : table[i] # NULL /\ KeyOf(table[i]) = KeyOf(r) => ~Active(table[i])

\* run_after defaults to the call's own time: a delay of zero.
NewItem(r, delay, t) ==
    [queue |-> r.queue, key |-> r.key, status |-> "Pending", attempt |-> 0,
     max_attempts |-> r.max_attempts, run_after |-> t + delay, lease_owner |-> NULL,
     lease_until |-> NULL, lease_expired |-> FALSE, created_at |-> t, updated_at |-> t]

Inserted(table, i, r, delay, t) ==
    /\ issued[i] = NULL
    /\ items' = IF Unique(r, table) THEN [table EXCEPT ![i] = NewItem(r, delay, t)] ELSE table
    /\ issued' = [issued EXCEPT ![i] = IF Unique(r, table) THEN KeyOf(r) ELSE NULL]
    /\ UNCHANGED <<cooldowns, now>>

\* enqueue: an active row found for the key is joined; an ended one too,
\* unless the request forces a new item.
Enqueue(r, force, delay, t) ==
    \E i \in Ids :
        /\ \/ Newest(r) = {}
           \/ force /\ \E j \in Newest(r) : ~Active(items[j])
        /\ Inserted(items, i, r, delay, t)

\* enqueue_replacing: while `current` is the row found, ended or reclaimed.
\* A Failed `current` is stopped in the same transaction.
Replaceable(j) == ~Active(items[j]) \/ (items[j].status = "Failed" /\ items[j].lease_expired)
Retired(current) ==
    IF current \in Stored /\ items[current].status = "Failed"
    THEN [items EXCEPT ![current].status = "Stopped"] ELSE items
EnqueueReplacing(r, current, delay, t) ==
    \E i \in Ids :
        /\ r.key # NULL /\ issued[current] = KeyOf(r)
        /\ Newest(r) = {} \/ (current \in Newest(r) /\ Replaceable(current))
        /\ Inserted(Retired(current), i, r, delay, t)

----------------------------------------------------------------------------
(* Leases.                                                                 *)

CoolingDown(q) == cooldowns[q] # NULL /\ cooldowns[q] > now

Expired(table, q, t) ==
    {i \in Ids : table[i] # NULL /\ table[i].queue = q /\ table[i].status = "Running"
                 /\ table[i].lease_until < t}

\* reclaim_expired_in_tx.  The last attempt of an item ends it.
Reclaimed(table, q, t) ==
    [i \in Ids |->
        IF i \in Expired(table, q, t)
        THEN [table[i] EXCEPT !.lease_owner = NULL, !.lease_until = NULL, !.updated_at = t,
                 !.lease_expired = TRUE,
                 !.status = IF table[i].attempt >= table[i].max_attempts THEN "Dead" ELSE "Failed"]
        ELSE table[i]]

Running(table, q) ==
    {i \in Ids : table[i] # NULL /\ table[i].queue = q /\ table[i].status = "Running"}

Ready(table, q, t) ==
    {i \in Ids : LET item == table[i] IN
        /\ item # NULL /\ item.queue = q /\ Waiting(item)
        /\ item.attempt < item.max_attempts /\ item.run_after <= t}

\* Orders of equal (run_after, created_at) are the table's own.
Before(a, b) ==
    a.run_after < b.run_after \/ (a.run_after = b.run_after /\ a.created_at < b.created_at)
Pages(table, ready, slots) ==
    {S \in SUBSET ready :
        /\ Cardinality(S) = IF Cardinality(ready) < slots THEN Cardinality(ready) ELSE slots
        /\ \A i \in S, j \in ready \ S : ~Before(table[j], table[i])}

Granted(item, w, t) ==
    [item EXCEPT !.status = "Running", !.attempt = @ + 1, !.lease_owner = w,
                 !.lease_until = t + LeaseTime, !.updated_at = t]

Slots(table, q) ==
    LET running == Cardinality(Running(table, q))
        free == IF Cap > running THEN Cap - running ELSE 0
    IN  IF Limit < free THEN Limit ELSE free

Claim(q, w, t) ==
    /\ ~CoolingDown(q)
    /\ LET table == Reclaimed(items, q, t)
       IN  \E page \in Pages(table, Ready(table, q, t), Slots(table, q)) :
              items' = [i \in Ids |-> IF i \in page THEN Granted(table[i], w, t) ELSE table[i]]
    /\ UNCHANGED <<cooldowns, issued, now>>

\* claim_item.  Reclaiming stands whatever becomes of the claim; a waiting
\* item without attempts ends here.
Claimed(table, i, w, t) ==
    LET item == table[i]
    IN  IF Cardinality(Running(table, item.queue)) >= Cap THEN item
        ELSE IF Waiting(item) /\ item.attempt >= item.max_attempts
        THEN [item EXCEPT !.status = "Dead", !.updated_at = t]
        ELSE IF Waiting(item) /\ item.run_after <= t THEN Granted(item, w, t) ELSE item

ClaimItem(i, w, t) ==
    /\ i \in Stored /\ ~CoolingDown(items[i].queue)
    /\ LET table == Reclaimed(items, items[i].queue, t)
       IN  items' = [table EXCEPT ![i] = Claimed(table, i, w, t)]
    /\ UNCHANGED <<cooldowns, issued, now>>

\* update_running_item: the owner, by the clock inside the transaction.
OwnsLease(i, w) ==
    /\ i \in Stored /\ items[i].status = "Running"
    /\ items[i].lease_owner = w /\ items[i].lease_until >= now

Update(i, item) == items' = [items EXCEPT ![i] = item] /\ UNCHANGED <<cooldowns, issued, now>>

Heartbeat(i, w) ==
    /\ OwnsLease(i, w)
    /\ Update(i, [items[i] EXCEPT !.lease_until = now + LeaseTime, !.updated_at = now])

Complete(i, w, t) ==
    /\ OwnsLease(i, w)
    /\ Update(i, [items[i] EXCEPT !.status = "Succeeded", !.lease_owner = NULL,
                     !.lease_until = NULL, !.lease_expired = FALSE, !.updated_at = t])

\* fail_with; `retry` NULL stops the item for good.
FailStatus(item, retry) ==
    IF retry = NULL THEN "Stopped"
    ELSE IF item.attempt >= item.max_attempts THEN "Dead" ELSE "Failed"
FailWith(i, w, retry, t) ==
    /\ OwnsLease(i, w)
    /\ Update(i, [items[i] EXCEPT !.status = FailStatus(items[i], retry), !.lease_owner = NULL,
                     !.run_after = IF retry = NULL THEN t + 1 ELSE retry,
                     !.lease_until = NULL, !.lease_expired = FALSE, !.updated_at = t])

ReclaimExpiredLeases(q, t) ==
    items' = Reclaimed(items, q, t) /\ UNCHANGED <<cooldowns, issued, now>>

\* A cooldown only ever grows.
NoteCooldown(q, until) ==
    /\ cooldowns' = [cooldowns EXCEPT ![q] = IF @ = NULL \/ @ < until THEN until ELSE @]
    /\ UNCHANGED <<items, issued, now>>

----------------------------------------------------------------------------
(* Maintenance.                                                            *)

\* Mutant: a lease does not protect an item that has not changed for long.
StaleLeased(cutoff, t) == {i \in Stored : Active(items[i]) /\ items[i].updated_at < cutoff}
\* An unended item that has not changed since the cutoff and holds no lease.
Stale(cutoff, t) ==
    {i \in Stored : /\ Active(items[i]) /\ items[i].updated_at < cutoff
                    /\ items[i].status = "Running" => items[i].lease_until < t}

\* mark_stale_active_dead, mark_all_stale_active_dead, retire_stale_active.
MarkStaleActiveDead(queues, cutoff, t) ==
    /\ items' = [i \in Ids |->
          IF i \in Stale(cutoff, t) /\ items[i].queue \in queues
          THEN [items[i] EXCEPT !.status = "Dead", !.lease_owner = NULL, !.lease_until = NULL,
                                !.lease_expired = FALSE, !.updated_at = t]
          ELSE items[i]]
    /\ UNCHANGED <<cooldowns, issued, now>>

PruneTerminalBefore(cutoff) ==
    /\ items' = [i \in Ids |->
          IF i \in Stored /\ ~Active(items[i]) /\ items[i].updated_at < cutoff THEN NULL ELSE items[i]]
    /\ UNCHANGED <<cooldowns, issued, now>>

SqlTick == now < MaxTime /\ now' = now + 1 /\ UNCHANGED <<items, cooldowns, issued>>

Sweep(t) == MarkStaleActiveDead(Queues, t - Retention, t) \/ PruneTerminalBefore(t - Retention)

SqlNext ==
    \/ \E r \in Requests, delay \in 0..1, t \in Samples :
          \/ \E force \in BOOLEAN : Enqueue(r, force, delay, t)
          \/ \E current \in Ids : EnqueueReplacing(r, current, delay, t)
    \/ \E w \in Workers, t \in Samples :
          \/ \E q \in Queues : Claim(q, w, t)
          \/ \E i \in Ids : \/ ClaimItem(i, w, t) \/ Heartbeat(i, w) \/ Complete(i, w, t)
                            \/ \E retry \in {NULL, t + 1} : FailWith(i, w, retry, t)
    \/ \E q \in Queues, t \in Samples : \/ ReclaimExpiredLeases(q, t)
                                        \/ MarkStaleActiveDead({q}, t - Retention, t)
    \/ \E q \in Queues, until \in now..MaxTime : NoteCooldown(q, until)
    \/ \E t \in Samples : Sweep(t)
    \/ SqlTick

SqlSpec == SqlInit /\ [][SqlNext]_sqlVars

----------------------------------------------------------------------------
(* Properties.                                                             *)

\* The types of the tables.
SqlTypeOK ==
    /\ items \in [Ids -> QueueRow \cup {NULL}]
    /\ cooldowns \in [Queues -> Nat \cup {NULL}] /\ now \in 0..MaxTime
    /\ issued \in [Ids -> (Queues \X (Keys \cup {NULL})) \cup {NULL}]

Contract == INSTANCE WorkQueue
    WITH work <- [i \in Ids |-> Seen(items[i])], cooldown <- cooldowns, clock <- now

\* The persistent backend is well typed and keeps the queue contract:
\* exclusive leases, one unended item per key, the in-flight cap, attempt
\* ceilings, delays and cooldowns, under clock samples that lag the write
\* lock, replacements, reclaims and maintenance (every operation here).
SqliteKeepsContract == []SqlTypeOK /\ Contract!WorkSpec
=============================================================================
