---------------------------- MODULE MemoryQueue ----------------------------
(***************************************************************************)
(* The in-process queue backend: one State behind one mutex, so each call  *)
(* is one atomic action, taken while the lock is held.  A call reads the   *)
(* clock before it waits for the lock, so the time it works with may lag   *)
(* the clock by the wait; only the cooldown checks and the explicit        *)
(* reclaim read the clock under the lock.  A refused call changes nothing  *)
(* and is a stuttering step.  Payloads, kinds and diagnostics are left     *)
(* out; of `last_error` only whether it is LeaseExpired is kept.           *)
(***************************************************************************)
EXTENDS QueueBackend, Sequences

CONSTANT Retain     \* retain_terminal

VARIABLES
    state,          \* the State struct
    issued,         \* history: the queue and key each id was issued for
    now

memVars == <<state, issued, now>>

ASSUME MemoryAssumption == Retain \in Nat \ {0}

State ==
    [items : [Ids -> QueueItem \cup {NULL}],
     idempotency : [Queues \X Keys -> Ids \cup {NULL}],
     running : [Queues -> SUBSET Ids],
     terminal : Seq(Ids),
     cooldowns : [Queues -> Nat \cup {NULL}]]

MemInit ==
    /\ state = [items |-> [i \in Ids |-> NULL],
                idempotency |-> [k \in Queues \X Keys |-> NULL],
                running |-> [q \in Queues |-> {}],
                terminal |-> <<>>,
                cooldowns |-> [q \in Queues |-> NULL]]
    /\ issued = [i \in Ids |-> NULL] /\ now = 0

Held(s) == {i \in Ids : s.items[i] # NULL}

\* The clock samples a call may have taken before it got the lock.
Samples == {t \in 0..now : now - t <= MaxLag}

----------------------------------------------------------------------------
(* State changes.                                                          *)

\* Mutant: an evicted item's key stays indexed to the missing item.
EvictUnindexed(s) ==
    LET n == IF Len(s.terminal) > Retain THEN Len(s.terminal) - Retain ELSE 0
        evicted == {s.terminal[k] : k \in 1..n}
    IN  [s EXCEPT !.terminal = SubSeq(@, n + 1, Len(@)),
                  !.items = [i \in Ids |-> IF i \in evicted THEN NULL ELSE @[i]]]

\* The oldest terminal items beyond the window go, and with each the index
\* entry that still points at it.
EvictTerminal(s) ==
    LET n == IF Len(s.terminal) > Retain THEN Len(s.terminal) - Retain ELSE 0
        evicted == {s.terminal[k] : k \in 1..n}
    IN  [s EXCEPT !.terminal = SubSeq(@, n + 1, Len(@)),
                  !.items = [i \in Ids |-> IF i \in evicted THEN NULL ELSE @[i]],
                  !.idempotency = [k \in Queues \X Keys |->
                                      IF @[k] \in evicted THEN NULL ELSE @[k]]]

\* set_status for the items in `new` at once: the running index follows, and
\* `ended`, the terminal ones in the order they end, joins the window.
Stored(s, new, ended) ==
    LET moved(q) == {i \in DOMAIN new : new[i].queue = q}
    IN  EvictTerminal(
          [s EXCEPT !.items = [i \in Ids |-> IF i \in DOMAIN new THEN new[i] ELSE @[i]],
                    !.running = [q \in Queues |->
                        (@[q] \ {i \in moved(q) : new[i].status # "Running"})
                        \cup {i \in moved(q) : new[i].status = "Running"}],
                    !.terminal = @ \o ended])

Put(s, i, item) ==
    Stored(s, [j \in {i} |-> item],
           IF item.status \in TerminalStatus THEN <<i>> ELSE <<>>)

Unleased(item, status) ==
    [item EXCEPT !.status = status, !.lease_owner = NULL, !.lease_until = NULL]

\* Mutant: a lease ends at its deadline.
ExpiredEarly(s, q, t) == {i \in s.running[q] : s.items[i].lease_until <= t + 1}

Expired(s, q, t) == {i \in s.running[q] : s.items[i].lease_until < t}
Reclaimed(item) ==
    [Unleased(item, IF item.attempt >= item.max_attempts THEN "Dead" ELSE "Failed")
        EXCEPT !.lease_expired = TRUE]

\* Every order in which the hash set of running items may be walked.
Orders(S) == {o \in [1..Cardinality(S) -> S] : \A i \in S : \E k \in DOMAIN o : o[k] = i}

\* reclaim_expired: the expired items of q return to Failed, or end Dead.
ReclaimExpired(s, q, t) ==
    LET new == [i \in Expired(s, q, t) |-> Reclaimed(s.items[i])]
    IN  {Stored(s, new, ended) :
            ended \in Orders({i \in DOMAIN new : new[i].status = "Dead"})}

\* A waiting item whose attempts are all used is dead, not claimable.
RetireIfExhausted(s, i) ==
    IF Waiting(s.items[i]) /\ s.items[i].attempt >= s.items[i].max_attempts
    THEN Put(s, i, [s.items[i] EXCEPT !.status = "Dead"]) ELSE s

Leased(item, w, t) ==
    [item EXCEPT !.status = "Running", !.attempt = @ + 1,
                 !.lease_owner = w, !.lease_until = t + LeaseTime]

CoolingDown(q) == state.cooldowns[q] # NULL /\ state.cooldowns[q] > now

----------------------------------------------------------------------------
(* Operations.                                                             *)

Unused == {i \in Ids : issued[i] = NULL}
KeyOf(r) == <<r.queue, r.key>>
\* The item the index holds for a request's key, none or one.
Newest(r) == {i \in Held(state) : r.key # NULL /\ state.idempotency[KeyOf(r)] = i}

\* run_after defaults to the call's own time: a delay of zero.
NewItem(r, delay, t) ==
    [queue |-> r.queue, key |-> r.key, status |-> "Pending", attempt |-> 0,
     max_attempts |-> r.max_attempts, run_after |-> t + delay,
     lease_owner |-> NULL, lease_until |-> NULL, lease_expired |-> FALSE,
     created_at |-> t]

Insert(s, i, r, delay, t) ==
    [s EXCEPT !.items[i] = NewItem(r, delay, t),
              !.idempotency = [k \in Queues \X Keys |->
                                  IF r.key # NULL /\ k = KeyOf(r) THEN i ELSE @[k]]]

\* enqueue: an active item with the key is joined; a terminal one too,
\* unless the request forces a new item.
Enqueue(r, force, delay, t) ==
    \E i \in Unused :
        /\ \A j \in Newest(r) : ~Active(state.items[j]) /\ force
        /\ state' = Insert(state, i, r, delay, t)
        /\ issued' = [issued EXCEPT ![i] = KeyOf(r)] /\ UNCHANGED now

\* A Failed item that is being replaced is retired first.
StopCurrent(current) ==
    IF current \in Held(state) /\ state.items[current].status = "Failed"
    THEN Put(state, current, [state.items[current] EXCEPT !.status = "Stopped"])
    ELSE state

\* enqueue_replacing: a forced enqueue while `current`, an item the caller
\* was given for this key, is the indexed item, ended or reclaimed.  With no
\* item left for the key it inserts as well.
EnqueueReplacing(r, current, delay, t) ==
    \E i \in Unused :
        /\ r.key # NULL /\ issued[current] = KeyOf(r)
        /\ \A j \in Newest(r) :
              /\ j = current
              /\ ~Active(state.items[j])
                    \/ (state.items[j].status = "Failed" /\ state.items[j].lease_expired)
        /\ state' = Insert(StopCurrent(current), i, r, delay, t)
        /\ issued' = [issued EXCEPT ![i] = KeyOf(r)]
        /\ UNCHANGED now

ClaimOrder(s, i, j) ==
    LET a == s.items[i] b == s.items[j]
    IN  \/ a.run_after < b.run_after
        \/ a.run_after = b.run_after /\ a.created_at < b.created_at
        \/ a.run_after = b.run_after /\ a.created_at = b.created_at /\ i < j

Ready(s, q, t) ==
    {i \in Held(s) : LET item == s.items[i] IN
        /\ item.queue = q /\ Waiting(item)
        /\ item.attempt < item.max_attempts /\ item.run_after <= t}

Slots(s, q) ==
    LET free == IF Cap > Cardinality(s.running[q]) THEN Cap - Cardinality(s.running[q]) ELSE 0
    IN  IF Limit < free THEN Limit ELSE free

Claim(q, w, t) ==
    /\ ~CoolingDown(q)
    /\ \E s \in ReclaimExpired(state, q, t) :
          LET first == {i \in Ready(s, q, t) :
                  Cardinality({j \in Ready(s, q, t) : ClaimOrder(s, j, i)}) < Slots(s, q)}
          IN  state' = Stored(s, [i \in first |-> Leased(s.items[i], w, t)], <<>>)
    /\ UNCHANGED <<issued, now>>

\* claim_item reclaims first, whatever becomes of the claim; reclaiming may
\* even evict the requested item.
Claimable(s, i, t) ==
    LET item == s.items[i]
    IN  /\ Waiting(item) /\ item.run_after <= t /\ ~CoolingDown(item.queue)
        /\ Cardinality(s.running[item.queue]) < Cap

ClaimItem(i, w, t) ==
    /\ i \in Held(state)
    /\ \E s \in ReclaimExpired(state, state.items[i].queue, t) :
          state' = IF i \notin Held(s) THEN s
                   ELSE LET u == RetireIfExhausted(s, i)
                        IN  IF Claimable(u, i, t)
                            THEN Put(u, i, Leased(u.items[i], w, t)) ELSE u
    /\ UNCHANGED <<issued, now>>

\* update_running: only the lease owner, and only before the deadline passes.
OwnsLease(i, w, t) ==
    /\ i \in Held(state) /\ state.items[i].status = "Running"
    /\ state.items[i].lease_owner = w /\ state.items[i].lease_until >= t

Heartbeat(i, w, t) ==
    /\ OwnsLease(i, w, t)
    /\ state' = [state EXCEPT !.items[i].lease_until = t + LeaseTime]
    /\ UNCHANGED <<issued, now>>

Complete(i, w, t) ==
    /\ OwnsLease(i, w, t)
    /\ state' = Put(state, i, [Unleased(state.items[i], "Succeeded")
                                  EXCEPT !.lease_expired = FALSE])
    /\ UNCHANGED <<issued, now>>

\* fail_with; `retry` NULL stops the item for good.
FailStatus(item, retry) ==
    IF retry = NULL THEN "Stopped"
    ELSE IF item.attempt >= item.max_attempts THEN "Dead" ELSE "Failed"

FailWith(i, w, retry, t) ==
    /\ OwnsLease(i, w, t)
    /\ state' = Put(state, i,
          [Unleased(state.items[i], FailStatus(state.items[i], retry))
              EXCEPT !.lease_expired = FALSE,
                     !.run_after = IF retry = NULL THEN t + 1 ELSE retry])
    /\ UNCHANGED <<issued, now>>

ReclaimExpiredLeases(q) ==
    state' \in ReclaimExpired(state, q, now) /\ UNCHANGED <<issued, now>>

\* A cooldown only ever grows.
NoteCooldown(q, until) ==
    /\ state' = [state EXCEPT !.cooldowns[q] = IF @ = NULL \/ @ < until THEN until ELSE @]
    /\ UNCHANGED <<issued, now>>

MemTick == now < MaxTime /\ now' = now + 1 /\ UNCHANGED <<state, issued>>

MemNext ==
    \/ \E r \in Requests, delay \in 0..1, t \in Samples :
          \/ \E force \in BOOLEAN : Enqueue(r, force, delay, t)
          \/ \E current \in Ids : EnqueueReplacing(r, current, delay, t)
    \/ \E w \in Workers, t \in Samples :
          \/ \E q \in Queues : Claim(q, w, t)
          \/ \E i \in Ids : \/ ClaimItem(i, w, t) \/ Heartbeat(i, w, t) \/ Complete(i, w, t)
                            \/ \E retry \in {NULL, t + 1} : FailWith(i, w, retry, t)
    \/ \E q \in Queues : \/ ReclaimExpiredLeases(q)
                         \/ \E until \in now..MaxTime : NoteCooldown(q, until)
    \/ MemTick

MemSpec == MemInit /\ [][MemNext]_memVars

----------------------------------------------------------------------------
(* Properties.                                                             *)

\* The types of the queue's state.
MemTypeOK ==
    /\ state \in State /\ now \in 0..MaxTime
    /\ issued \in [Ids -> (Queues \X (Keys \cup {NULL})) \cup {NULL}]

\* The state is well typed and the three indexes agree with the items after any mix of claims, expiries,
\* endings and evictions (set_status, evict_terminal): the running index is
\* exactly the leased items, the window holds each ended item once and no
\* more than the bound, an indexed key points at an item with that key, and
\* an unended item is the one its key's duplicates are given.
IndexesConsistent ==
    /\ MemTypeOK
    /\ \A q \in Queues : state.running[q] =
          {i \in Held(state) : state.items[i].queue = q /\ state.items[i].status = "Running"}
    /\ \A i \in Ids :
          Cardinality({k \in DOMAIN state.terminal : state.terminal[k] = i}) =
             IF i \in Held(state) /\ ~Active(state.items[i]) THEN 1 ELSE 0
    /\ Len(state.terminal) <= Retain
    /\ \A k \in Queues \X Keys : state.idempotency[k] # NULL =>
          /\ state.idempotency[k] \in Held(state)
          /\ KeyOf(state.items[state.idempotency[k]]) = k
    /\ \A i \in Held(state) : Active(state.items[i]) /\ state.items[i].key # NULL =>
          state.idempotency[KeyOf(state.items[i])] = i

Contract == INSTANCE WorkQueue
    WITH work <- [i \in Ids |-> Seen(state.items[i])],
         cooldown <- state.cooldowns, clock <- now

\* The in-process backend keeps the queue contract: exclusive leases, one
\* unended item per key, the in-flight cap, attempt ceilings, delays and
\* cooldowns, however stale the clock sample of a call and whatever the
\* terminal window evicts (every operation of MemoryQueue).
MemoryKeepsContract == Contract!WorkSpec
=============================================================================
