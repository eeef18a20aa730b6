------------------------- MODULE SqliteQueueProofs -------------------------
(***************************************************************************)
(* The persistent queue implements the abstract queue.  A row only moves   *)
(* as the contract lets it, and the invariant holds what the contract says *)
(* of all rows together: one unended row per key and the in-flight cap.    *)
(* Clock samples lag the clock, so a lease that expired by a sample has    *)
(* expired, and a row that is due by a sample is due.                      *)
(***************************************************************************)
EXTENDS SqliteQueue, FiniteSetTheorems, TLAPS

\* What a stored row satisfies: a running one has a deadline, a waiting one
\* has an attempt left.
Sound(row) ==
    row # NULL => /\ row.status = "Running" => row.lease_until \in Nat
                  /\ Waiting(row) => row.attempt < row.max_attempts

Table == [Ids -> QueueRow \cup {NULL}]
OneActive(table) ==
    \A i, j \in Ids :
        table[i] # NULL /\ table[j] # NULL /\ Active(table[i]) /\ Active(table[j])
            /\ table[i].key # NULL /\ KeyOf(table[i]) = KeyOf(table[j]) => i = j
WithinCap(table) == \A q \in Queues : Cardinality(Running(table, q)) <= Cap

\* The inductive invariant.
SqlInv ==
    /\ SqlTypeOK
    /\ \A i \in Ids : Sound(items[i])
    /\ OneActive(items) /\ WithinCap(items)
    /\ \A i \in Ids : items[i] # NULL => issued[i] # NULL

\* A row stays the row of its key, and an ended row stays ended.
Keeps(a, b) ==
    b # NULL => /\ a # NULL /\ b.queue = a.queue /\ b.key = a.key
                /\ Active(b) => Active(a)
                /\ Sound(b)
NoNewLease(a, b) == b # NULL /\ b.status = "Running" => a.status = "Running"
Moves(a, b) == Contract!ItemMoves(Seen(a), Seen(b))

\* The SQL NULL is no row, no number and no item of the contract.
LEMMA NullRow ==
    /\ NULL \notin QueueRow /\ NULL \notin Nat /\ NULL \notin WorkItem
    /\ \A row \in QueueRow : row # NULL /\ Seen(row) # NULL
<1>1. NULL \notin QueueRow /\ NULL \notin Nat /\ NULL \notin WorkItem
  BY QueueNullAssumption
<1>2. \A row \in QueueRow : row # NULL
  BY <1>1
<1>3. ASSUME NEW row \in QueueRow PROVE Seen(row) \in WorkItem
  BY <1>2 DEF Seen, WorkItem, QueueRow, Phase
<1> QED BY <1>1, <1>2, <1>3

\* The shape of a row, for the provers.
LEMMA RowTypes ==
    ASSUME NEW row \in QueueRow
    PROVE  /\ row.queue \in Queues /\ row.key \in Keys \cup {NULL}
           /\ row.status \in ActiveStatus \cup TerminalStatus
           /\ row.attempt \in Nat /\ row.max_attempts \in Nat /\ row.run_after \in Nat
           /\ row.lease_owner \in Workers \cup {NULL} /\ row.lease_until \in Nat \cup {NULL}
           /\ row.lease_expired \in BOOLEAN /\ row.created_at \in Nat /\ row.updated_at \in Nat
BY DEF QueueRow

\* Rows that keep their keys leave at most one unended row per key.
LEMMA KeepsOneActive ==
    ASSUME NEW old, NEW new, OneActive(old), \A i \in Ids : Keeps(old[i], new[i])
    PROVE  OneActive(new)
BY DEF OneActive, Keeps, KeyOf

\* The running rows of a queue can be counted.
LEMMA RunningFinite ==
    ASSUME NEW table, NEW q
    PROVE  IsFiniteSet(Running(table, q)) /\ Cardinality(Running(table, q)) \in Nat
<1>1. Running(table, q) \subseteq Ids BY DEF Running
<1>2. IsFiniteSet(Ids) BY QueueAssumption
<1> QED BY <1>1, <1>2, FS_Subset, FS_CardinalityType

\* A write that gives no new lease keeps every queue within its cap.
LEMMA KeepsCap ==
    ASSUME NEW old, NEW new, WithinCap(old),
           \A i \in Ids : Keeps(old[i], new[i]) /\ NoNewLease(old[i], new[i])
    PROVE  WithinCap(new)
<1>1. ASSUME NEW q \in Queues PROVE Running(new, q) \subseteq Running(old, q)
  BY DEF Running, Keeps, NoNewLease
<1>2. ASSUME NEW q \in Queues PROVE Cardinality(Running(new, q)) <= Cap
  <2>1. Cardinality(Running(new, q)) <= Cardinality(Running(old, q))
    BY <1>1, RunningFinite, FS_Subset
  <2>2. Cap \in Nat BY QueueAssumption
  <2> QED BY <2>1, <2>2, RunningFinite DEF WithinCap
<1> QED BY <1>2 DEF WithinCap

----------------------------------------------------------------------------
(* What each operation may do to one row.                                  *)

RowStep(a, b) == b \in QueueRow \cup {NULL} /\ Keeps(a, b) /\ Moves(a, b)

\* What the contract asks of a row, in the terms of the table.
Leave(a, b) == b = NULL /\ ~Active(a)
Lease(a, b) ==
    /\ Waiting(a) \/ (a.status = "Running" /\ a.lease_until < now)
    /\ b.status = "Running" /\ b.attempt = a.attempt + 1 /\ a.attempt < a.max_attempts
    /\ a.run_after <= now /\ ~CoolingDown(a.queue)
Retire(a, b) == Waiting(a) /\ ~Active(b) /\ b.attempt = a.attempt
Release(a, b) ==
    /\ a.status = "Running" /\ b.attempt = a.attempt
    /\ b.status = "Failed" /\ b.lease_expired => a.lease_until < now
    /\ b.status = "Dead" => a.lease_until < now \/ a.attempt >= a.max_attempts
    /\ b.status # "Pending"

\* A row change that keeps queue, key and ceiling and leases, retires or releases is a move of the contract.
LEMMA SeenMoves ==
    ASSUME NEW a \in QueueRow, NEW b \in QueueRow, b.queue = a.queue, b.key = a.key,
           b.max_attempts = a.max_attempts,
           a = b \/ Lease(a, b) \/ Retire(a, b) \/ Release(a, b)
    PROVE  Moves(a, b)
<1>1. Seen(a) # NULL /\ Seen(b) # NULL /\ a # NULL /\ b # NULL BY NullRow
<1>2. CASE a = b
  BY <1>1, <1>2 DEF Moves, Seen, Phase, Contract!ItemMoves, Contract!Waits, Contract!Leased, Contract!Same,
        Contract!Ended
<1>3. CASE Lease(a, b)
  BY <1>1, <1>3 DEF Lease, CoolingDown, Waiting, Moves, Seen, Phase, Contract!ItemMoves,
        Contract!Waits, Contract!Leased, Contract!Same, Contract!Granted, Contract!Cooling, Contract!Over
<1>4. CASE Retire(a, b)
  BY <1>1, <1>4, RowTypes DEF Retire, Active, ActiveStatus, TerminalStatus, Waiting, Moves, Seen, Phase,
        Contract!ItemMoves, Contract!Waits, Contract!Same, Contract!Over
<1>5. CASE Release(a, b)
  BY <1>1, <1>5 DEF Release, Moves, Seen, Phase, Contract!ItemMoves, Contract!Leased, Contract!Same,
        Contract!Over
<1> QED BY <1>2, <1>3, <1>4, <1>5

\* Inserting a pending row and deleting a row that may leave are moves of the contract.
LEMMA NullMoves ==
    /\ Moves(NULL, NULL)
    /\ \A a \in QueueRow : Leave(a, NULL) => Moves(a, NULL)
    /\ \A b \in QueueRow : b.status = "Pending" /\ b.attempt = 0 => Moves(NULL, b)
<1>1. Seen(NULL) = NULL BY DEF Seen
<1>2. Moves(NULL, NULL)
  BY <1>1 DEF Moves, Contract!ItemMoves, Contract!Arrives
<1>3. ASSUME NEW a \in QueueRow, Leave(a, NULL) PROVE Moves(a, NULL)
  BY <1>1, <1>3, NullRow DEF Leave, Active, ActiveStatus, Moves, Seen, Phase, Contract!ItemMoves,
        Contract!Over, Contract!Ended
<1>4. ASSUME NEW b \in QueueRow, b.status = "Pending", b.attempt = 0 PROVE Moves(NULL, b)
  BY <1>1, <1>4, NullRow DEF Moves, Seen, Phase, Contract!ItemMoves, Contract!Arrives
<1> QED BY <1>2, <1>3, <1>4

\* A row that is not written makes the contract's stutter.
LEMMA SameRow ==
    ASSUME NEW a \in QueueRow \cup {NULL}, Sound(a) PROVE RowStep(a, a) /\ NoNewLease(a, a)
BY SeenMoves, NullMoves DEF RowStep, Keeps, NoNewLease

\* Reclaiming returns or retires a row whose lease ran out and touches no other.
LEMMA ReclaimedRow ==
    ASSUME NEW table \in Table, NEW i \in Ids, NEW q, NEW t \in 0..now, now \in Nat,
           Sound(table[i])
    PROVE  /\ RowStep(table[i], Reclaimed(table, q, t)[i])
           /\ NoNewLease(table[i], Reclaimed(table, q, t)[i])
           /\ table[i] # NULL => Reclaimed(table, q, t)[i] # NULL
<1>1. CASE i \in Expired(table, q, t)
  <2> DEFINE a == table[i] b == Reclaimed(table, q, t)[i]
  <2>1. a \in QueueRow /\ a # NULL /\ a.status = "Running" /\ a.lease_until \in Nat /\ a.lease_until < now
    BY <1>1 DEF Expired, Table, Sound
  <2>2. b = [a EXCEPT !.lease_owner = NULL, !.lease_until = NULL, !.updated_at = t,
                 !.lease_expired = TRUE,
                 !.status = IF a.attempt >= a.max_attempts THEN "Dead" ELSE "Failed"]
    BY <1>1 DEF Reclaimed
  <2> HIDE DEF a, b
  <2>3. b \in QueueRow /\ b # NULL
    <3>0. t \in Nat OBVIOUS
    <3>1. b \in QueueRow BY <2>1, <2>2, <3>0 DEF QueueRow, ActiveStatus, TerminalStatus
    <3> QED BY <3>1, NullRow
  <2>4. /\ b.queue = a.queue /\ b.key = a.key /\ b.max_attempts = a.max_attempts
        /\ b.status \in {"Dead", "Failed"} /\ b.attempt = a.attempt
        /\ b.status = "Failed" => a.attempt < a.max_attempts
    BY <2>1, <2>2 DEF QueueRow
  <2>5. Release(a, b) BY <2>1, <2>4 DEF Release
  <2>6. Moves(a, b) BY <2>1, <2>3, <2>4, <2>5, SeenMoves
  <2>7. Keeps(a, b) /\ NoNewLease(a, b)
    BY <2>1, <2>3, <2>4 DEF Keeps, NoNewLease, Sound, Active, Waiting, ActiveStatus
  <2> QED BY <2>3, <2>6, <2>7 DEF RowStep, a, b
<1>2. CASE i \notin Expired(table, q, t)
  <2>1. Reclaimed(table, q, t)[i] = table[i] BY <1>2 DEF Reclaimed
  <2> QED BY <2>1, SameRow DEF Table
<1> QED BY <1>1, <1>2

\* Reclaiming changes the lease of a row and nothing else that a claim reads.
LEMMA ReclaimedFields ==
    ASSUME NEW table \in Table, NEW i \in Ids, NEW q, NEW t, table[i] # NULL
    PROVE  LET a == table[i] m == Reclaimed(table, q, t)[i]
           IN  /\ m.queue = a.queue /\ m.key = a.key /\ m.attempt = a.attempt
               /\ m.max_attempts = a.max_attempts /\ m.run_after = a.run_after
               /\ m = a \/ i \in Expired(table, q, t)
<1>1. table[i] \in QueueRow BY DEF Table
<1> QED BY <1>1 DEF Reclaimed, QueueRow

\* A lease granted to a row that waits, or that waits because its lease was
\* just reclaimed.
LEMMA GrantedRow ==
    ASSUME NEW a \in QueueRow, NEW m \in QueueRow, NEW w \in Workers, NEW t \in Nat, t <= now, now \in Nat,
           m.queue = a.queue, m.key = a.key, m.attempt = a.attempt,
           m.max_attempts = a.max_attempts, m.run_after = a.run_after,
           Waiting(a) \/ (a.status = "Running" /\ a.lease_until \in Nat /\ a.lease_until < t),
           m.attempt < m.max_attempts, m.run_after <= t, ~CoolingDown(m.queue)
    PROVE  RowStep(a, Granted(m, w, t))
<1> DEFINE b == Granted(m, w, t)
<1>0. LeaseTime \in Nat /\ t + LeaseTime \in Nat /\ m.attempt + 1 \in Nat
  BY QueueAssumption, RowTypes
<1>1. b \in QueueRow BY <1>0 DEF Granted, QueueRow, ActiveStatus, TerminalStatus
<1>2. /\ b.queue = a.queue /\ b.key = a.key /\ b.max_attempts = a.max_attempts
      /\ b.attempt = a.attempt + 1 /\ b.status = "Running" /\ b.lease_until \in Nat
  BY <1>0 DEF Granted, QueueRow
<1>3. a # NULL /\ b # NULL /\ m # NULL BY <1>1, NullRow
<1> HIDE DEF b
<1>4. Lease(a, b)
  BY <1>2, RowTypes DEF Lease
<1>5. Moves(a, b) BY <1>1, <1>2, <1>4, SeenMoves
<1>6. Keeps(a, b) BY <1>2, <1>3 DEF Keeps, Sound, Active, Waiting, ActiveStatus
<1> QED BY <1>1, <1>5, <1>6 DEF RowStep, b

----------------------------------------------------------------------------
(* What each operation may do to the table.                                *)

Write ==
    /\ \A i \in Ids : RowStep(items[i], items'[i])
    /\ items' \in Table /\ WithinCap(items') /\ OneActive(items')
    /\ UNCHANGED <<cooldowns, issued, now>>

\* What the invariant gives for the table and the clock samples.
LEMMA InvFacts ==
    ASSUME SqlInv
    PROVE  /\ items \in Table /\ now \in Nat
           /\ \A i \in Ids : items[i] \in QueueRow \cup {NULL} /\ Sound(items[i])
           /\ OneActive(items) /\ WithinCap(items)
           /\ \A t \in Samples : t \in Nat /\ t \in 0..now /\ t <= now
<1>1. now \in Nat BY QueueAssumption DEF SqlInv, SqlTypeOK
<1> QED BY <1>1 DEF SqlInv, SqlTypeOK, Table, Samples

\* Rewriting rows without granting a lease.
LEMMA Rewrite ==
    ASSUME SqlInv, NEW new,
           new = [i \in Ids |-> new[i]],
           \A i \in Ids : RowStep(items[i], new[i]) /\ NoNewLease(items[i], new[i]),
           items' = new, UNCHANGED <<cooldowns, issued, now>>
    PROVE  Write
<1>1. new \in Table BY DEF Table, RowStep
<1>2. \A i \in Ids : Keeps(items[i], new[i]) BY DEF RowStep
<1>3. OneActive(new) /\ WithinCap(new)
  BY <1>2, InvFacts, KeepsOneActive, KeepsCap
<1> QED BY <1>1, <1>3 DEF Write

\* A reclaim pass is a sound write.
LEMMA ReclaimWrite ==
    ASSUME SqlInv, NEW q \in Queues, NEW t \in Samples, ReclaimExpiredLeases(q, t)
    PROVE  Write
<1> DEFINE new == Reclaimed(items, q, t)
<1>1. new = [i \in Ids |-> new[i]] BY DEF Reclaimed
<1>2. \A i \in Ids : RowStep(items[i], new[i]) /\ NoNewLease(items[i], new[i])
  BY InvFacts, ReclaimedRow
<1>3. items' = new /\ UNCHANGED <<cooldowns, issued, now>> BY DEF ReclaimExpiredLeases
<1> HIDE DEF new
<1> QED BY <1>1, <1>2, <1>3, Rewrite

\* A union has at most as many elements as its parts together.
LEMMA UnionBound ==
    ASSUME NEW S, NEW T, IsFiniteSet(S), IsFiniteSet(T)
    PROVE  IsFiniteSet(S \cup T) /\ Cardinality(S \cup T) <= Cardinality(S) + Cardinality(T)
<1>1. S \cap T \subseteq S OBVIOUS
<1>2. IsFiniteSet(S \cap T) BY <1>1, FS_Subset
<1>3. /\ Cardinality(S) \in Nat /\ Cardinality(T) \in Nat /\ Cardinality(S \cap T) \in Nat
  BY <1>2, FS_CardinalityType
<1>4. /\ IsFiniteSet(S \cup T)
      /\ Cardinality(S \cup T) = Cardinality(S) + Cardinality(T) - Cardinality(S \cap T)
  BY FS_Union
<1> QED BY <1>3, <1>4

\* New leases of one queue that fit its free slots.
LEMMA LeaseCap ==
    ASSUME NEW table, NEW new, NEW q \in Queues, NEW page \in SUBSET Ids, WithinCap(table),
           \A p \in Queues \ {q} : Running(new, p) \subseteq Running(table, p),
           Running(new, q) \subseteq Running(table, q) \cup page,
           Cardinality(Running(table, q)) + Cardinality(page) <= Cap
    PROVE  WithinCap(new)
<1>0. Cap \in Nat BY QueueAssumption
<1>1. ASSUME NEW p \in Queues \ {q} PROVE Cardinality(Running(new, p)) <= Cap
  <2>1. Cardinality(Running(new, p)) <= Cardinality(Running(table, p))
    BY RunningFinite, FS_Subset
  <2> QED BY <1>0, <2>1, RunningFinite DEF WithinCap
<1>2. Cardinality(Running(new, q)) <= Cap
  <2>1. IsFiniteSet(page) /\ Cardinality(page) \in Nat
    BY QueueAssumption, FS_Subset, FS_CardinalityType
  <2>2. /\ IsFiniteSet(Running(table, q) \cup page)
        /\ Cardinality(Running(table, q) \cup page) <= Cardinality(Running(table, q)) + Cardinality(page)
    BY <2>1, RunningFinite, UnionBound
  <2>3. Cardinality(Running(new, q)) <= Cardinality(Running(table, q) \cup page)
    BY <2>2, FS_Subset
  <2>4. Cardinality(Running(table, q) \cup page) \in Nat BY <2>2, FS_CardinalityType
  <2> QED BY <1>0, <2>1, <2>2, <2>3, <2>4, RunningFinite
<1> QED BY <1>1, <1>2 DEF WithinCap

\* The table a claim selects from, after its own reclaim pass, is sound and within the caps.
LEMMA ReclaimedTable ==
    ASSUME SqlInv, NEW q \in Queues, NEW t \in Samples
    PROVE  LET table == Reclaimed(items, q, t)
           IN  /\ \A i \in Ids : RowStep(items[i], table[i]) /\ NoNewLease(items[i], table[i])
               /\ \A i \in Ids : table[i] \in QueueRow \cup {NULL} /\ Sound(table[i])
               /\ WithinCap(table) /\ table = [i \in Ids |-> table[i]]
<1> DEFINE table == Reclaimed(items, q, t)
<1>1. \A i \in Ids : RowStep(items[i], table[i]) /\ NoNewLease(items[i], table[i])
  BY InvFacts, ReclaimedRow
<1>2. \A i \in Ids : table[i] \in QueueRow \cup {NULL} /\ Sound(table[i])
  BY <1>1 DEF RowStep, Keeps, Sound
<1>3. WithinCap(table) BY <1>1, InvFacts, KeepsCap DEF RowStep
<1>4. table = [i \in Ids |-> table[i]] BY DEF Reclaimed
<1> QED BY <1>1, <1>2, <1>3, <1>4

\* A ready row of the reclaimed table is granted as the contract allows.
LEMMA ReadyGrant ==
    ASSUME SqlInv, NEW q \in Queues, NEW w \in Workers, NEW t \in Samples, NEW i \in Ids,
           NEW m, m = Reclaimed(items, q, t)[i],
           m # NULL, Waiting(m), m.attempt < m.max_attempts, m.run_after <= t,
           ~CoolingDown(m.queue)
    PROVE  RowStep(items[i], Granted(m, w, t))
<1> DEFINE a == items[i]
<1>0. items \in Table /\ now \in Nat /\ t \in Nat /\ t <= now /\ Sound(a)
  BY InvFacts
<1>1. a # NULL /\ a \in QueueRow /\ m \in QueueRow
  BY InvFacts, ReclaimedTable DEF RowStep, Keeps
<1>2. /\ m.queue = a.queue /\ m.key = a.key /\ m.attempt = a.attempt
      /\ m.max_attempts = a.max_attempts /\ m.run_after = a.run_after
      /\ m = a \/ i \in Expired(items, q, t)
  BY <1>0, <1>1, ReclaimedFields
<1>3. i \in Expired(items, q, t) =>
         a.status = "Running" /\ a.lease_until \in Nat /\ a.lease_until < t
  BY <1>0, <1>1 DEF Expired, Sound
<1> HIDE DEF a
<1>4. Waiting(a) \/ (a.status = "Running" /\ a.lease_until \in Nat /\ a.lease_until < t)
  BY <1>2, <1>3
<1>5. RowStep(a, Granted(m, w, t))
  BY <1>0, <1>1, <1>2, <1>4, GrantedRow
<1> QED BY <1>5 DEF a

\* A page of ready rows fits the free slots.
LEMMA ClaimWrite ==
    ASSUME SqlInv, NEW q \in Queues, NEW w \in Workers, NEW t \in Samples, Claim(q, w, t)
    PROVE  Write
<1> DEFINE table == Reclaimed(items, q, t)
<1>1. /\ \A i \in Ids : RowStep(items[i], table[i]) /\ NoNewLease(items[i], table[i])
      /\ \A i \in Ids : table[i] \in QueueRow \cup {NULL}
      /\ WithinCap(table)
  BY ReclaimedTable
<1>2. PICK page \in Pages(table, Ready(table, q, t), Slots(table, q)) :
         items' = [i \in Ids |-> IF i \in page THEN Granted(table[i], w, t) ELSE table[i]]
  BY DEF Claim
<1>3. ~CoolingDown(q) /\ UNCHANGED <<cooldowns, issued, now>> BY DEF Claim
<1>4. page \subseteq Ready(table, q, t) /\ page \in SUBSET Ids BY DEF Pages, Ready
<1>5. ASSUME NEW i \in Ids, i \in page
      PROVE  RowStep(items[i], Granted(table[i], w, t)) /\ table[i].queue = q /\ items[i].queue = q
  <2>1. /\ table[i] # NULL /\ table[i].queue = q /\ Waiting(table[i])
        /\ table[i].attempt < table[i].max_attempts /\ table[i].run_after <= t
    BY <1>4, <1>5 DEF Ready
  <2>2. items[i].queue = q BY <1>1, <2>1 DEF RowStep, Keeps
  <2> HIDE DEF table
  <2> QED BY <1>3, <2>1, <2>2, ReadyGrant DEF table
<1>6. \A i \in Ids : RowStep(items[i], items'[i])
  BY <1>1, <1>2, <1>5
<1>7. items' \in Table BY <1>2, <1>6 DEF Table, RowStep
<1>8. OneActive(items')
  BY <1>6, InvFacts, KeepsOneActive DEF RowStep
<1>9. WithinCap(items')
  <2> DEFINE ready == Cardinality(Ready(table, q, t))
             running == Cardinality(Running(table, q))
  <2>1. \A p \in Queues \ {q} : Running(items', p) \subseteq Running(table, p)
    BY <1>2, <1>5, <1>6 DEF Running, RowStep, Keeps
  <2>2. Running(items', q) \subseteq Running(table, q) \cup page
    BY <1>2 DEF Running
  <2>3. ready \in Nat
    <3>1. Ready(table, q, t) \subseteq Ids BY DEF Ready
    <3> QED BY <3>1, QueueAssumption, FS_Subset, FS_CardinalityType
  <2>4. running \in Nat /\ running <= Cap /\ Cap \in Nat /\ Limit \in Nat
    BY <1>1, RunningFinite, QueueAssumption DEF WithinCap
  <2>5. Cardinality(page) = IF ready < Slots(table, q) THEN ready ELSE Slots(table, q)
    BY DEF Pages
  <2>6. Slots(table, q) \in Nat /\ Slots(table, q) <= Cap - running
    BY <2>4 DEF Slots
  <2>7. running + Cardinality(page) <= Cap
    <3> HIDE DEF ready, running, table
    <3> QED BY <2>3, <2>4, <2>5, <2>6
  <2> HIDE DEF table
  <2> QED BY <1>1, <1>4, <2>1, <2>2, <2>7, LeaseCap
<1> QED BY <1>3, <1>6, <1>7, <1>8, <1>9 DEF Write

\* One row is granted while its queue has a free slot.
LEMMA ClaimItemWrite ==
    ASSUME SqlInv, NEW i \in Ids, NEW w \in Workers, NEW t \in Samples, ClaimItem(i, w, t)
    PROVE  Write
<1> DEFINE q == items[i].queue
           table == Reclaimed(items, q, t)
           m == table[i]
<1>0. /\ i \in Stored /\ ~CoolingDown(q) /\ UNCHANGED <<cooldowns, issued, now>>
      /\ items' = [table EXCEPT ![i] = Claimed(table, i, w, t)]
  BY DEF ClaimItem
<1>1. items[i] \in QueueRow /\ items[i] # NULL /\ q \in Queues /\ items \in Table
  BY <1>0, InvFacts, RowTypes DEF Stored
<1> HIDE DEF q
<1>2. /\ \A j \in Ids : RowStep(items[j], table[j]) /\ NoNewLease(items[j], table[j])
      /\ \A j \in Ids : table[j] \in QueueRow \cup {NULL} /\ Sound(table[j])
      /\ WithinCap(table) /\ table = [j \in Ids |-> table[j]]
  BY <1>1, ReclaimedTable
<1>3. m # NULL /\ m \in QueueRow /\ m.queue = q
  <2>1. m # NULL BY <1>1, InvFacts, ReclaimedRow
  <2> QED BY <1>2, <2>1 DEF RowStep, Keeps, q
<1> HIDE DEF m, table
<1>4. CASE Claimed(table, i, w, t) = m
  <2>1. items' = table BY <1>0, <1>2, <1>4 DEF m
  <2> QED BY <1>0, <1>2, <2>1, Rewrite
<1>5. CASE Claimed(table, i, w, t) # m
  <2>1. /\ Waiting(m) /\ m.attempt < m.max_attempts
        /\ m.run_after <= t /\ Claimed(table, i, w, t) = Granted(m, w, t)
        /\ ~(Cardinality(Running(table, q)) >= Cap)
    <3>1. Waiting(m) => m.attempt < m.max_attempts /\ m.attempt \in Nat /\ m.max_attempts \in Nat
      BY <1>2, <1>3, RowTypes DEF Sound, m
    <3> QED BY <1>3, <1>5, <3>1 DEF Claimed, m
  <2>2. RowStep(items[i], Granted(m, w, t))
    BY <1>0, <1>1, <1>3, <2>1, ReadyGrant DEF m, table
  <2>3. \A j \in Ids : items'[j] = IF j = i THEN Granted(m, w, t) ELSE table[j]
    BY <1>0, <1>2, <2>1
  <2>4. \A j \in Ids : RowStep(items[j], items'[j]) BY <1>2, <2>2, <2>3
  <2>5. items' = [j \in Ids |-> items'[j]] BY <1>0, <1>2
  <2>6. items' \in Table BY <2>4, <2>5 DEF Table, RowStep
  <2>7. OneActive(items') BY <2>4, InvFacts, KeepsOneActive DEF RowStep
  <2>8. WithinCap(items')
    <3>1. \A p \in Queues \ {q} : Running(items', p) \subseteq Running(table, p)
      BY <2>2, <2>3 DEF Running, RowStep, Keeps, q
    <3>2. Running(items', q) \subseteq Running(table, q) \cup {i}
      BY <2>3 DEF Running
    <3>3. Cardinality({i}) = 1 BY FS_Singleton
    <3>4. Cardinality(Running(table, q)) + Cardinality({i}) <= Cap
      BY <2>1, <3>3, RunningFinite, QueueAssumption
    <3>5. {i} \in SUBSET Ids OBVIOUS
    <3> QED BY <1>1, <1>2, <3>1, <3>2, <3>4, <3>5, LeaseCap
  <2> QED BY <1>0, <2>4, <2>6, <2>7, <2>8 DEF Write
<1> QED BY <1>4, <1>5

\* One row's update that gives no new lease is a sound write.
LEMMA UpdateWrite ==
    ASSUME SqlInv, NEW i \in Ids, NEW b, RowStep(items[i], b), NoNewLease(items[i], b), Update(i, b)
    PROVE  Write
<1> DEFINE new == [items EXCEPT ![i] = b]
<1>1. new = [j \in Ids |-> new[j]] BY InvFacts DEF Table
<1>2. \A j \in Ids : RowStep(items[j], new[j]) /\ NoNewLease(items[j], new[j])
  BY InvFacts, SameRow DEF Table
<1>3. items' = new /\ UNCHANGED <<cooldowns, issued, now>> BY DEF Update
<1> HIDE DEF new
<1> QED BY <1>1, <1>2, <1>3, Rewrite

\* The owner of a lease renews or gives back its row.
LEMMA ReleasedRow ==
    ASSUME NEW a \in QueueRow, NEW b \in QueueRow, a.status = "Running",
           b.queue = a.queue, b.key = a.key, b.max_attempts = a.max_attempts,
           b.attempt = a.attempt, b.status # "Pending",
           b.status = "Running" => b.lease_until \in Nat,
           b.status = "Failed" => ~b.lease_expired /\ a.attempt < a.max_attempts,
           b.status = "Dead" => a.attempt >= a.max_attempts \/ a.lease_until < now
    PROVE  RowStep(a, b) /\ NoNewLease(a, b)
<1>1. Release(a, b) BY DEF Release
<1>2. Moves(a, b) BY <1>1, SeenMoves
<1>3. a # NULL /\ b # NULL BY NullRow
<1>4. Keeps(a, b) BY <1>3 DEF Keeps, Sound, Active, Waiting, ActiveStatus
<1> QED BY <1>2, <1>4 DEF RowStep, NoNewLease

\* Heartbeat, completion and failure by the lease's owner are sound writes.
LEMMA OwnerWrite ==
    ASSUME SqlInv, NEW i \in Ids, NEW w \in Workers, NEW t \in Samples,
           \/ Heartbeat(i, w) \/ Complete(i, w, t)
           \/ \E retry \in {NULL, t + 1} : FailWith(i, w, retry, t)
    PROVE  Write
<1> DEFINE a == items[i]
<1>0. OwnsLease(i, w) BY DEF Heartbeat, Complete, FailWith
<1>1. a \in QueueRow /\ a.status = "Running"
  BY <1>0, InvFacts DEF OwnsLease, Stored
<1>2. now \in Nat /\ t \in Nat /\ now + LeaseTime \in Nat /\ t + 1 \in Nat /\ t + 1 # NULL
  BY InvFacts, QueueAssumption, NullRow
<1> HIDE DEF a
<1>3. ASSUME NEW b \in QueueRow, Update(i, b),
             b.queue = a.queue, b.key = a.key, b.max_attempts = a.max_attempts,
             b.attempt = a.attempt, b.status # "Pending",
             b.status = "Running" => b.lease_until \in Nat,
             b.status = "Failed" => ~b.lease_expired /\ a.attempt < a.max_attempts,
             b.status = "Dead" => a.attempt >= a.max_attempts
      PROVE  Write
  <2>1. RowStep(a, b) /\ NoNewLease(a, b) BY <1>1, <1>3, ReleasedRow
  <2> QED BY <1>3, <2>1, UpdateWrite DEF a
<1>4. CASE Heartbeat(i, w)
  <2> DEFINE b == [a EXCEPT !.lease_until = now + LeaseTime, !.updated_at = now]
  <2>1. Update(i, b) BY <1>4 DEF Heartbeat, a
  <2>2. b \in QueueRow BY <1>1, <1>2 DEF QueueRow
  <2>3. /\ b.queue = a.queue /\ b.key = a.key /\ b.max_attempts = a.max_attempts
        /\ b.attempt = a.attempt /\ b.status = "Running" /\ b.lease_until \in Nat
    BY <1>1, <1>2 DEF QueueRow
  <2> HIDE DEF b
  <2> QED BY <2>1, <2>2, <2>3, <1>3
<1>5. CASE Complete(i, w, t)
  <2> DEFINE b == [a EXCEPT !.status = "Succeeded", !.lease_owner = NULL,
                     !.lease_until = NULL, !.lease_expired = FALSE, !.updated_at = t]
  <2>1. Update(i, b) BY <1>5 DEF Complete, a
  <2>2. b \in QueueRow BY <1>1, <1>2 DEF QueueRow, ActiveStatus, TerminalStatus
  <2>3. /\ b.queue = a.queue /\ b.key = a.key /\ b.max_attempts = a.max_attempts
        /\ b.attempt = a.attempt /\ b.status = "Succeeded"
    BY <1>1 DEF QueueRow
  <2> HIDE DEF b
  <2> QED BY <2>1, <2>2, <2>3, <1>3
<1>6. ASSUME NEW retry \in {NULL, t + 1}, FailWith(i, w, retry, t) PROVE Write
  <2> DEFINE s == FailStatus(a, retry)
             r == IF retry = NULL THEN t + 1 ELSE retry
             b == [a EXCEPT !.status = s, !.lease_owner = NULL, !.run_after = r,
                     !.lease_until = NULL, !.lease_expired = FALSE, !.updated_at = t]
  <2>1. Update(i, b) BY <1>6 DEF FailWith, a
  <2>2. /\ s \in {"Stopped", "Dead", "Failed"} /\ r \in Nat
        /\ s = "Failed" => a.attempt < a.max_attempts
        /\ s = "Dead" => a.attempt >= a.max_attempts
    BY <1>1, <1>2, RowTypes DEF FailStatus
  <2> HIDE DEF s, r
  <2>3. b \in QueueRow BY <1>1, <1>2, <2>2 DEF QueueRow, ActiveStatus, TerminalStatus
  <2>4. /\ b.queue = a.queue /\ b.key = a.key /\ b.max_attempts = a.max_attempts
        /\ b.attempt = a.attempt /\ b.status = s /\ b.lease_expired = FALSE
    BY <1>1 DEF QueueRow
  <2> HIDE DEF b
  <2> QED BY <2>1, <2>2, <2>3, <2>4, <1>3
<1> QED BY <1>4, <1>5, <1>6

\* A row no lease protects is ended, by maintenance or by a replacement.
LEMMA RetiredRow ==
    ASSUME NEW a \in QueueRow, NEW b \in QueueRow, Waiting(a),
           b.queue = a.queue, b.key = a.key, b.max_attempts = a.max_attempts,
           b.attempt = a.attempt, ~Active(b)
    PROVE  RowStep(a, b) /\ NoNewLease(a, b)
<1>1. Retire(a, b) BY DEF Retire
<1>2. Moves(a, b) BY <1>1, SeenMoves
<1>3. a # NULL /\ b # NULL BY NullRow
<1>4. Keeps(a, b) /\ NoNewLease(a, b)
  BY <1>3 DEF Keeps, NoNewLease, Sound, Active, Waiting, ActiveStatus
<1> QED BY <1>2, <1>4 DEF RowStep

\* Burying stale active rows is a sound write.
LEMMA StaleWrite ==
    ASSUME SqlInv, NEW queues, NEW cutoff, NEW t \in Samples, MarkStaleActiveDead(queues, cutoff, t)
    PROVE  Write
<1> DEFINE dead(a) == [a EXCEPT !.status = "Dead", !.lease_owner = NULL, !.lease_until = NULL,
                                !.lease_expired = FALSE, !.updated_at = t]
           new == [i \in Ids |-> IF i \in Stale(cutoff, t) /\ items[i].queue \in queues
                                 THEN dead(items[i]) ELSE items[i]]
<1>1. items' = new /\ UNCHANGED <<cooldowns, issued, now>> BY DEF MarkStaleActiveDead
<1>2. new = [i \in Ids |-> new[i]] OBVIOUS
<1>3. ASSUME NEW i \in Ids, i \in Stale(cutoff, t)
      PROVE  RowStep(items[i], dead(items[i])) /\ NoNewLease(items[i], dead(items[i]))
  <2> DEFINE a == items[i] b == dead(items[i])
  <2>0. now \in Nat /\ t \in Nat /\ t <= now BY InvFacts
  <2>1. a \in QueueRow /\ (Waiting(a) \/ (a.status = "Running" /\ a.lease_until \in Nat /\ a.lease_until < t))
    BY <1>3, InvFacts DEF Stale, Stored, Active, ActiveStatus, Waiting, Sound
  <2>2. b \in QueueRow BY <2>0, <2>1 DEF QueueRow, ActiveStatus, TerminalStatus
  <2>3. /\ b.queue = a.queue /\ b.key = a.key /\ b.max_attempts = a.max_attempts
        /\ b.attempt = a.attempt /\ b.status = "Dead"
    BY <2>1 DEF QueueRow
  <2> HIDE DEF a, b
  <2>4. CASE Waiting(a)
    BY <2>1, <2>2, <2>3, <2>4, RetiredRow DEF a, b, Active, ActiveStatus
  <2>5. CASE a.status = "Running" /\ a.lease_until \in Nat /\ a.lease_until < t
    <3>1. a.lease_until < now BY <2>0, <2>5
    <3> QED BY <2>1, <2>2, <2>3, <2>5, <3>1, ReleasedRow DEF a, b
  <2> QED BY <2>1, <2>4, <2>5
<1>4. \A i \in Ids : RowStep(items[i], new[i]) /\ NoNewLease(items[i], new[i])
  BY <1>3, InvFacts, SameRow
<1> HIDE DEF new
<1> QED BY <1>1, <1>2, <1>4, Rewrite

\* Pruning old terminal rows is a sound write.
LEMMA PruneWrite ==
    ASSUME SqlInv, NEW cutoff, PruneTerminalBefore(cutoff)
    PROVE  Write
<1> DEFINE new == [i \in Ids |-> IF i \in Stored /\ ~Active(items[i]) /\ items[i].updated_at < cutoff
                                 THEN NULL ELSE items[i]]
<1>1. items' = new /\ UNCHANGED <<cooldowns, issued, now>> BY DEF PruneTerminalBefore
<1>2. new = [i \in Ids |-> new[i]] OBVIOUS
<1>3. ASSUME NEW i \in Ids, i \in Stored, ~Active(items[i])
      PROVE  RowStep(items[i], NULL) /\ NoNewLease(items[i], NULL)
  <2>1. items[i] \in QueueRow BY <1>3, InvFacts DEF Stored
  <2> QED BY <1>3, <2>1, NullMoves DEF Leave, RowStep, Keeps, NoNewLease
<1>4. \A i \in Ids : RowStep(items[i], new[i]) /\ NoNewLease(items[i], new[i])
  BY <1>3, InvFacts, SameRow
<1> HIDE DEF new
<1> QED BY <1>1, <1>2, <1>4, Rewrite

----------------------------------------------------------------------------
(* A step of the table: a write or an insertion.                           *)

Moved ==
    /\ items' \in Table /\ WithinCap(items') /\ OneActive(items')
    /\ \A i \in Ids : Sound(items'[i]) /\ Moves(items[i], items'[i])
    /\ UNCHANGED <<cooldowns, now>>
    /\ issued' \in [Ids -> (Queues \X (Keys \cup {NULL})) \cup {NULL}]
    /\ \A i \in Ids : items'[i] # NULL => issued'[i] # NULL

\* A sound write moves every row along the contract and keeps one active row per key.
LEMMA WriteMoves == ASSUME SqlInv, Write PROVE Moved
<1>1. \A i \in Ids : Sound(items'[i]) /\ Moves(items[i], items'[i])
  BY DEF Write, RowStep, Keeps, Sound
<1>2. issued' = issued /\ \A i \in Ids : items'[i] # NULL => items[i] # NULL
  BY DEF Write, RowStep, Keeps
<1> QED BY <1>1, <1>2 DEF Write, Moved, SqlInv, SqlTypeOK

\* A new row joins a table in which the unique index found no other.
LEMMA InsertMoves ==
    ASSUME SqlInv, NEW table, table = [j \in Ids |-> table[j]],
           \A j \in Ids : RowStep(items[j], table[j]) /\ NoNewLease(items[j], table[j]),
           NEW i \in Ids, NEW r \in Requests, NEW delay \in 0..1, NEW t \in Samples,
           Inserted(table, i, r, delay, t)
    PROVE  Moved
<1>1. issued[i] = NULL /\ items[i] = NULL /\ table[i] = NULL
  BY DEF Inserted, SqlInv, RowStep, Keeps
<1>2. OneActive(table) /\ WithinCap(table)
  BY InvFacts, KeepsOneActive, KeepsCap DEF RowStep
<1>3. table \in Table /\ \A j \in Ids : table[j] # NULL => items[j] # NULL
  BY DEF RowStep, Keeps, Table
<1>9. \A j \in Ids : Sound(table[j]) /\ Moves(items[j], table[j])
  BY DEF RowStep, Keeps, Sound
<1>4. UNCHANGED <<cooldowns, now>> BY DEF Inserted
<1>5. /\ issued \in [Ids -> (Queues \X (Keys \cup {NULL})) \cup {NULL}]
      /\ \A j \in Ids : items[j] # NULL => issued[j] # NULL
  BY DEF SqlInv, SqlTypeOK
<1>6. /\ r.queue \in Queues /\ r.key \in Keys \cup {NULL} /\ r.max_attempts \in Nat \ {0}
  BY QueueAssumption
<1>7. CASE Unique(r, table)
  <2> DEFINE b == NewItem(r, delay, t)
  <2>1. items' = [table EXCEPT ![i] = b] /\ issued' = [issued EXCEPT ![i] = KeyOf(r)]
    BY <1>7 DEF Inserted
  <2>2. b \in QueueRow
    <3>1. t \in Nat /\ t + delay \in Nat BY InvFacts
    <3> QED BY <1>6, <3>1 DEF NewItem, QueueRow, ActiveStatus, TerminalStatus
  <2>3. /\ b.status = "Pending" /\ b.attempt = 0 /\ b.attempt < b.max_attempts
        /\ b.queue = r.queue /\ b.key = r.key
    BY <1>6 DEF NewItem
  <2> HIDE DEF b
  <2>4. b # NULL /\ Sound(b) /\ Moves(NULL, b)
    BY <2>2, <2>3, NullRow, NullMoves DEF Sound
  <2>5. \A j \in Ids : items'[j] = IF j = i THEN b ELSE table[j] BY <2>1
  <2>6. items' \in Table BY <1>3, <2>1, <2>2 DEF Table
  <2>7. WithinCap(items')
    <3>1. \A q \in Queues : Running(items', q) = Running(table, q)
      BY <1>1, <2>3, <2>5 DEF Running
    <3> QED BY <1>2, <3>1 DEF WithinCap
  <2>8. OneActive(items')
    <3> SUFFICES ASSUME NEW j \in Ids, NEW k \in Ids, items'[j] # NULL, items'[k] # NULL,
                        Active(items'[j]), Active(items'[k]), items'[j].key # NULL,
                        KeyOf(items'[j]) = KeyOf(items'[k])
                 PROVE  j = k
      BY DEF OneActive
    <3>1. KeyOf(b) = KeyOf(r) BY <2>3 DEF KeyOf
    <3>2. r.key # NULL => \A m \in Ids \ {i} :
             table[m] # NULL /\ Active(table[m]) => KeyOf(table[m]) # KeyOf(b)
      BY <1>7, <3>1 DEF Unique
    <3>3. items'[k].key # NULL BY DEF KeyOf
    <3>4. CASE j # i /\ k # i BY <1>2, <2>5, <3>4 DEF OneActive
    <3>5. CASE j = i \/ k = i BY <2>3, <2>5, <3>2, <3>3, <3>5
    <3> QED BY <3>4, <3>5
  <2>9. KeyOf(r) \in Queues \X (Keys \cup {NULL}) /\ KeyOf(r) # NULL
    <3>1. KeyOf(r) \in Queues \X (Keys \cup {NULL}) BY <1>6 DEF KeyOf
    <3> QED BY <3>1, QueueNullAssumption
  <2>10. /\ issued' \in [Ids -> (Queues \X (Keys \cup {NULL})) \cup {NULL}]
         /\ \A j \in Ids : items'[j] # NULL => issued'[j] # NULL
    BY <1>3, <1>5, <2>1, <2>5, <2>9
  <2>11. \A j \in Ids : Sound(items'[j]) /\ Moves(items[j], items'[j])
    BY <1>1, <1>9, <2>4, <2>5
  <2> QED BY <1>4, <2>6, <2>7, <2>8, <2>10, <2>11 DEF Moved
<1>8. CASE ~Unique(r, table)
  <2>1. items' = table /\ issued' = issued
    BY <1>1, <1>5, <1>8 DEF Inserted
  <2> QED BY <1>2, <1>3, <1>4, <1>5, <1>9, <2>1 DEF Moved
<1> QED BY <1>7, <1>8

\* An enqueue inserts a row only when its key is free, or replaces what it was forced to replace.
LEMMA EnqueueMoves ==
    ASSUME SqlInv, NEW r \in Requests, NEW delay \in 0..1, NEW t \in Samples, NEW force \in BOOLEAN,
           Enqueue(r, force, delay, t)
    PROVE  Moved
<1>1. PICK i \in Ids : Inserted(items, i, r, delay, t) BY DEF Enqueue
<1>2. items = [j \in Ids |-> items[j]] BY InvFacts DEF Table
<1>3. \A j \in Ids : RowStep(items[j], items[j]) /\ NoNewLease(items[j], items[j])
  BY InvFacts, SameRow
<1> QED BY <1>1, <1>2, <1>3, InsertMoves

\* An enqueue that replaces a named predecessor keeps one active row per key.
LEMMA EnqueueReplacingMoves ==
    ASSUME SqlInv, NEW r \in Requests, NEW delay \in 0..1, NEW t \in Samples, NEW current \in Ids,
           EnqueueReplacing(r, current, delay, t)
    PROVE  Moved
<1> DEFINE table == Retired(current)
<1>1. PICK i \in Ids : Inserted(table, i, r, delay, t) BY DEF EnqueueReplacing
<1>2. table = [j \in Ids |-> table[j]] BY InvFacts DEF Retired, Table
<1>3. ASSUME NEW j \in Ids PROVE RowStep(items[j], table[j]) /\ NoNewLease(items[j], table[j])
  <2>1. CASE table[j] = items[j] BY <2>1, InvFacts, SameRow
  <2>2. CASE table[j] # items[j]
    <3> DEFINE a == items[j] b == [a EXCEPT !.status = "Stopped"]
    <3>1. a \in QueueRow /\ a.status = "Failed" /\ table[j] = b
      BY <2>2, InvFacts DEF Retired, Stored, Table
    <3>2. b \in QueueRow BY <3>1 DEF QueueRow, ActiveStatus, TerminalStatus
    <3>3. /\ b.queue = a.queue /\ b.key = a.key /\ b.max_attempts = a.max_attempts
          /\ b.attempt = a.attempt /\ b.status = "Stopped"
      BY <3>1 DEF QueueRow
    <3> HIDE DEF a, b
    <3>4. RowStep(a, b) /\ NoNewLease(a, b)
      BY <3>1, <3>2, <3>3, RetiredRow DEF Waiting, Active, ActiveStatus
    <3> QED BY <3>1, <3>4 DEF a
  <2> QED BY <2>1, <2>2
<1> HIDE DEF table
<1> QED BY <1>1, <1>2, <1>3, InsertMoves

----------------------------------------------------------------------------
(* The invariant and the refinement.                                       *)

\* The empty table satisfies the invariant and the contract's initial condition.
LEMMA InitSqlInv == SqlInit => SqlInv /\ Contract!WorkInit
<1> SUFFICES ASSUME SqlInit PROVE SqlInv /\ Contract!WorkInit OBVIOUS
<1>1. SqlTypeOK
  BY QueueAssumption DEF SqlInit, SqlTypeOK
<1>2. /\ \A i \in Ids : items[i] = NULL /\ Sound(items[i])
      /\ OneActive(items)
  BY DEF SqlInit, Sound, OneActive
<1>3. WithinCap(items)
  <2>1. \A q \in Queues : Running(items, q) = {} BY <1>2 DEF Running
  <2> QED BY <2>1, FS_EmptySet, QueueAssumption DEF WithinCap
<1>4. Contract!WorkInit
  BY DEF SqlInit, Contract!WorkInit, Seen
<1> QED BY <1>1, <1>2, <1>3, <1>4 DEF SqlInv

\* The instance counts as this module does.
LEMMA SameCardinality == ASSUME NEW S PROVE Contract!Cardinality(S) = Cardinality(S)
BY Zenon DEF Contract!Cardinality, Cardinality

\* The contract's view of the rows is orderly whenever the invariant holds.
LEMMA InvOrderly == SqlInv => Contract!Orderly
<1> SUFFICES ASSUME SqlInv PROVE Contract!Orderly OBVIOUS
<1> DEFINE work == [i \in Ids |-> Seen(items[i])]
<1>1. \A i \in Ids : work[i] # NULL => items[i] \in QueueRow /\ items[i] # NULL /\ Sound(items[i])
  BY InvFacts DEF Seen
<1>2. Contract!Present = {i \in Ids : work[i] # NULL} BY DEF Contract!Present
<1>3. ASSUME NEW i \in Ids, work[i] # NULL
      PROVE  /\ work[i].key = items[i].key /\ work[i].queue = items[i].queue
             /\ work[i].attempt = items[i].attempt /\ work[i].max_attempts = items[i].max_attempts
             /\ work[i].phase = Phase(items[i].status)
  BY <1>1, <1>3 DEF Seen
<1>4. ASSUME NEW i \in Ids, work[i] # NULL
      PROVE  /\ ~Contract!Over(work[i]) => Active(items[i])
             /\ work[i].phase = "leased" => items[i].status = "Running"
             /\ work[i].phase = "waiting" => Waiting(items[i])
  BY <1>1, <1>3, <1>4, RowTypes
     DEF Contract!Over, Active, Waiting, Phase, ActiveStatus, TerminalStatus
<1>5. ASSUME NEW i \in Contract!Present, NEW j \in Contract!Present,
             ~Contract!Over(work[i]), ~Contract!Over(work[j]), work[i].key # NULL,
             work[i].key = work[j].key, work[i].queue = work[j].queue
      PROVE  i = j
  BY <1>1, <1>2, <1>3, <1>4, <1>5, InvFacts DEF OneActive, KeyOf
<1>6. ASSUME NEW q \in DOMAIN cooldowns
      PROVE  Cardinality({i \in Contract!Present : work[i].queue = q /\ work[i].phase = "leased"}) <= Cap
  <2> DEFINE L == {i \in Contract!Present : work[i].queue = q /\ work[i].phase = "leased"}
  <2>1. q \in Queues BY DEF SqlInv, SqlTypeOK
  <2>2. L \subseteq Running(items, q) BY <1>1, <1>2, <1>3, <1>4 DEF Running
  <2>3. Cardinality(L) <= Cardinality(Running(items, q)) /\ Cardinality(L) \in Nat
    BY <2>2, RunningFinite, FS_Subset, FS_CardinalityType
  <2>4. Cardinality(Running(items, q)) <= Cap BY <2>1, InvFacts DEF WithinCap
  <2> QED BY <2>3, <2>4, RunningFinite, QueueAssumption
<1>7. ASSUME NEW i \in Contract!Present, work[i].phase = "waiting"
      PROVE  work[i].attempt < work[i].max_attempts
  BY <1>1, <1>2, <1>3, <1>4, <1>7 DEF Sound
<1> QED BY <1>5, <1>6, <1>7, SameCardinality DEF Contract!Orderly, work

\* A write that moves every row along the contract keeps the invariant and is a step of the contract.
LEMMA MovedStep ==
    ASSUME SqlInv, Moved
    PROVE  SqlInv' /\ Contract!Step
<1>1. SqlInv' BY DEF Moved, SqlInv, SqlTypeOK, Table
<1>2. Contract!Orderly' BY <1>1, InvOrderly, PTL
<1>3. \A i \in Ids : Contract!ItemMoves(Seen(items[i]), Seen(items'[i]))
  BY DEF Moved, Moves
<1>4. UNCHANGED <<cooldowns, now>> BY DEF Moved
<1> QED BY <1>1, <1>2, <1>3, <1>4 DEF Contract!Step, Seen

\* Every step of the backend keeps the invariant and is a step, or a stutter, of the contract.
LEMMA NextSqlInv ==
    ASSUME SqlInv, [SqlNext]_sqlVars
    PROVE  SqlInv' /\ [Contract!WorkNext]_(Contract!workVars)
<1>1. ASSUME Moved PROVE SqlInv' /\ Contract!WorkNext
  BY <1>1, MovedStep DEF Contract!WorkNext
<1>2. ASSUME Write PROVE SqlInv' /\ Contract!WorkNext
  BY <1>1, <1>2, WriteMoves
<1>3. ASSUME NEW r \in Requests, NEW delay \in 0..1, NEW t \in Samples,
             \/ \E force \in BOOLEAN : Enqueue(r, force, delay, t)
             \/ \E current \in Ids : EnqueueReplacing(r, current, delay, t)
      PROVE  SqlInv' /\ Contract!WorkNext
  BY <1>1, <1>3, EnqueueMoves, EnqueueReplacingMoves
<1>4. ASSUME NEW w \in Workers, NEW t \in Samples,
             \/ \E q \in Queues : Claim(q, w, t)
             \/ \E i \in Ids : \/ ClaimItem(i, w, t) \/ Heartbeat(i, w) \/ Complete(i, w, t)
                              \/ \E retry \in {NULL, t + 1} : FailWith(i, w, retry, t)
      PROVE  SqlInv' /\ Contract!WorkNext
  BY <1>2, <1>4, ClaimWrite, ClaimItemWrite, OwnerWrite
<1>5. ASSUME NEW q \in Queues, NEW t \in Samples,
             ReclaimExpiredLeases(q, t) \/ MarkStaleActiveDead({q}, t - Retention, t)
      PROVE  SqlInv' /\ Contract!WorkNext
  BY <1>2, <1>5, ReclaimWrite, StaleWrite
<1>6. ASSUME NEW q \in Queues, NEW until \in now..MaxTime, NoteCooldown(q, until)
      PROVE  SqlInv' /\ Contract!WorkNext
  <2>1. now \in Nat /\ MaxTime \in Nat /\ until \in Nat /\ until # NULL
    BY InvFacts, QueueAssumption, NullRow
  <2>2. /\ cooldowns' = [cooldowns EXCEPT ![q] = IF @ = NULL \/ @ < until THEN until ELSE @]
        /\ items' = items /\ issued' = issued /\ now' = now
    BY <1>6 DEF NoteCooldown
  <2>3. cooldowns \in [Queues -> Nat \cup {NULL}] BY DEF SqlInv, SqlTypeOK
  <2>4. cooldowns' \in [Queues -> Nat \cup {NULL}] BY <2>1, <2>2, <2>3
  <2>5. SqlInv'
    BY <2>2, <2>4 DEF SqlInv, SqlTypeOK, WithinCap, OneActive, Running, KeyOf
  <2>6. Contract!Cool
    BY <2>1, <2>2, <2>3 DEF Contract!Cool, Contract!CooldownGrows
  <2> QED BY <2>5, <2>6 DEF Contract!WorkNext
<1>7. ASSUME NEW t \in Samples, Sweep(t)
      PROVE  SqlInv' /\ Contract!WorkNext
  BY <1>2, <1>7, StaleWrite, PruneWrite DEF Sweep
<1>8. ASSUME SqlTick PROVE SqlInv' /\ Contract!WorkNext
  <2>1. now < MaxTime /\ now' = now + 1 /\ UNCHANGED <<items, cooldowns, issued>> /\ now \in Nat
    BY <1>8, InvFacts DEF SqlTick
  <2>2. SqlInv'
    BY <2>1, QueueAssumption DEF SqlInv, SqlTypeOK, WithinCap, OneActive, Running, KeyOf
  <2>3. Contract!Pass BY <2>1 DEF Contract!Pass
  <2> QED BY <2>2, <2>3 DEF Contract!WorkNext
<1>9. CASE UNCHANGED sqlVars
  <2>1. SqlInv'
    BY <1>9 DEF sqlVars, SqlInv, SqlTypeOK, WithinCap, OneActive, Running, KeyOf
  <2>2. UNCHANGED Contract!workVars BY <1>9 DEF sqlVars, Contract!workVars
  <2> QED BY <2>1, <2>2
<1> QED BY <1>3, <1>4, <1>5, <1>6, <1>7, <1>8, <1>9 DEF SqlNext

\* The tables of the persistent queue are well typed, a waiting row has an
\* attempt left, a running row a deadline, a key one unended row, and a
\* queue no more than Cap running rows, after any sequence of calls.
THEOREM SqliteInvariant == SqlSpec => []SqlInv
<1>1. SqlInv /\ [SqlNext]_sqlVars => SqlInv' BY NextSqlInv
<1> QED BY <1>1, InitSqlInv, PTL DEF SqlSpec

\* The persistent queue implements the queue contract: every call is a step
\* of WorkQueue that moves each item as its state allows and keeps the cap
\* and the one unended item per key.
THEOREM SqliteImplementsContract == SqlSpec => SqliteKeepsContract
<1>1. SqlInv /\ [SqlNext]_sqlVars => [Contract!WorkNext]_(Contract!workVars)
  BY NextSqlInv
<1>2. SqlInv => SqlTypeOK BY DEF SqlInv
<1>3. SqlInit => Contract!WorkInit BY InitSqlInv
<1> QED BY <1>1, <1>2, <1>3, SqliteInvariant, PTL
     DEF SqlSpec, SqliteKeepsContract, Contract!WorkSpec
=============================================================================
