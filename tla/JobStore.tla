------------------------------ MODULE JobStore ------------------------------
(***************************************************************************)
(* The generic job store: the rows of one scope in the SQLite `jobs` table *)
(* and the operations of apply_job_request.  Every operation runs inside   *)
(* one IMMEDIATE transaction with a single clock sample, so each is one    *)
(* atomic action.  A refused request rolls back and is therefore a         *)
(* stuttering step; only accepted requests are actions.                    *)
(*                                                                         *)
(* Abstracted: payloads, admissions, outputs and receipts are opaque       *)
(* values; a request digest is the payload it hashes; byte counts come     *)
(* from constant operators.  Static diagnostics and `origin` (fixed by     *)
(* `execution`) are left out.  Rows of other scopes never meet: every      *)
(* query filters on the scope and a foreign id is refused before any read. *)
(***************************************************************************)
EXTENDS Naturals, FiniteSets, FiniteSetsExt

CONSTANTS
    Ids,            \* row identities (random UUIDs; their order is arbitrary)
    Specs,          \* the job specifications callers may submit
    Keys, Payloads, Groups, Owners, Kinds, Admissions, Outputs, Receipts,
    NULL,           \* an absent value (SQL NULL, Rust None)
    MaxBatch, MaxPage, MaxPageBytes, MaxResultBytes, MaxLiveJobs,
    MaxPendingBytes, ClaimLease, DeliveryLease, Retention,
    MaintenanceBatch, MaintenanceBytes,
    MetaBytes,      \* encoded metadata of one row or delivery
    InputSize(_),   \* bytes of a payload or an admission
    RawSize(_),     \* raw bytes of an output
    EncodedSize(_), \* bytes of a value inside an encoded page
    OrdinalBytes(_), LeaseBytes(_), \* of a delivery ordinal, a delivery lease
    WidestOrdinal, WidestLease,     \* the longest encodings of the two
    MaxOrdinal,     \* the largest ordinal a row can hold
    MaxToken,       \* bound on the generations and ordinals callers try
    MaxTime         \* bound on the model clock

VARIABLES
    jobs,           \* the row of each id, NULL where none was inserted
    now             \* the host clock

vars == <<jobs, now>>

Waiting == {"Pending", "AwaitingAdmission"}
UnfinishedStates == Waiting \cup {"Running", "Uncertain"}
FinalStates == {"Succeeded", "Failed", "Cancelled", "Refused", "Purged"}
AckedStates == {"Accepted", "Discarded"}
JobState == UnfinishedStates \cup FinalStates \cup AckedStates
Execution == {"Handler", "Model"}

JobSpec ==
    [key : Keys, group : Groups \cup {NULL}, owners : SUBSET Owners,
     kind : Kinds, execution : Execution, payload : Payloads,
     admission : Admissions \cup {NULL}, max_attempts : Nat \ {0},
     recovery_until : Nat \cup {NULL}]

ASSUME SpecsAssumption == Specs \subseteq JobSpec
ASSUME IdsAssumption == Ids \subseteq Nat /\ IsFiniteSet(Ids)
ASSUME SizeAssumption ==
    /\ \A x \in Payloads \cup Admissions : InputSize(x) \in Nat
    /\ \A o \in Outputs : RawSize(o) \in Nat
    /\ \A x \in Payloads \cup Admissions \cup Outputs \cup Receipts :
          EncodedSize(x) \in Nat
    /\ \A g \in 1..(MaxOrdinal + 1) : OrdinalBytes(g) \in 0..WidestOrdinal
    /\ \A t \in 0..(MaxTime + DeliveryLease) : LeaseBytes(t) \in 0..WidestLease
ASSUME ConfigAssumption ==
    /\ {MaxBatch, MaxPage, MaxResultBytes, MaxLiveJobs, MaintenanceBatch,
        MaintenanceBytes, ClaimLease, DeliveryLease} \subseteq Nat \ {0}
    /\ {MaxPendingBytes, Retention, MetaBytes, MaxToken, MaxTime, WidestOrdinal,
        WidestLease, MaxOrdinal} \subseteq Nat
    /\ MaxPageBytes \in Nat /\ MaxPageBytes >= 2

JobRecord ==
    [key : Keys, digest : Payloads, group : Groups \cup {NULL},
     owners : SUBSET Owners, kind : Kinds \cup {NULL}, execution : Execution,
     state : JobState, final_state : FinalStates \cup {NULL},
     payload : Payloads \cup {NULL}, admission : Admissions \cup {NULL},
     max_attempts : Nat, generation : Nat, lease_until : Nat \cup {NULL},
     cancel_requested : BOOLEAN, purged : BOOLEAN,
     output : Outputs \cup {NULL}, receipt : Receipts \cup {NULL},
     recovery_until : Nat \cup {NULL}, result_expired : BOOLEAN,
     created_at : Nat, finished_at : Nat \cup {NULL},
     delivery_generation : Nat, delivery_until : Nat \cup {NULL}]

ASSUME NullAssumption ==
    /\ NULL \notin Nat /\ NULL \notin JobState /\ NULL \notin JobRecord
    /\ NULL \notin Payloads /\ NULL \notin Admissions /\ NULL \notin Outputs
    /\ NULL \notin Receipts /\ NULL \notin Groups /\ NULL \notin Kinds

----------------------------------------------------------------------------
(* Rows and selections.                                                    *)

Rows == {i \in Ids : jobs[i] # NULL}
Unfinished(r) == r.state \in UnfinishedStates
Acked(r) == r.state \in AckedStates
Final(r) == r.state \in FinalStates
Live == {i \in Rows : ~Acked(jobs[i])}

Past(t) == t # NULL /\ t <= now

\* The bytes job_input_bytes counts: metadata and the retained input copies.
InputBytes(r) ==
    IF Unfinished(r)
    THEN MetaBytes + (IF r.payload = NULL THEN 0 ELSE InputSize(r.payload))
                   + (IF r.admission = NULL THEN 0 ELSE InputSize(r.admission))
    ELSE 0

\* A row inside a candidate page: metadata and whatever content is present.
Encoded(x) == IF x = NULL THEN 0 ELSE EncodedSize(x)
CandidateBytes(r) ==
    MetaBytes + Encoded(r.payload) + Encoded(r.admission) + Encoded(r.receipt)

PendingBytes(rows) == MapThenSumSet(LAMBDA i : InputBytes(rows[i]),
                                    {i \in Ids : rows[i] # NULL})

\* ORDER BY created_at, id and the like: the order on ids given by a time.
Before(t, i, j) == t[i] < t[j] \/ (t[i] = t[j] /\ i < j)
FirstBy(t, n, S) ==
    {i \in S : Cardinality({j \in S : Before(t, j, i)}) < n}

CreatedAt == [i \in Rows |-> jobs[i].created_at]
FinishedAt == [i \in Rows |-> jobs[i].finished_at]
RecoveryUntil == [i \in Rows |-> jobs[i].recovery_until]

\* Mutant: expired claims are not offered again.
ClaimablePendingOnly(r) == r.state = "Pending"

Claimable(r) ==
    \/ r.state = "Pending"
    \/ /\ r.state = "Running" /\ r.execution = "Handler"
       /\ Past(r.lease_until)

\* Mutant: only the lease is checked, not whose claim it is.
LiveClaimAnyGeneration(r, g) ==
    r.state = "Running" /\ r.lease_until # NULL /\ r.lease_until > now

LiveClaim(r, g) ==
    /\ r.state = "Running" /\ r.generation = g
    /\ r.lease_until # NULL /\ r.lease_until > now

StoppedState(r) == IF r.purged THEN "Purged" ELSE "Cancelled"

DeleteCopies(r) ==
    [r EXCEPT !.payload = NULL, !.admission = NULL, !.output = NULL]

Expire(r) == [DeleteCopies(r) EXCEPT !.result_expired = TRUE]

Finish(r, s) ==
    LET f == [r EXCEPT !.state = s, !.finished_at = now, !.lease_until = NULL,
                       !.recovery_until = IF @ = NULL THEN now + Retention ELSE @]
    IN  IF f.recovery_until <= now THEN Expire(f) ELSE f

\* A row inside a completion page.  The delivery ordinal is encoded twice, in
\* the record and in its token; it grows with every delivery, and the length
\* of the lease's timestamp depends on the clock.  The rest is metadata.
DeliveryBytes(r, ordinal, lease) ==
    MetaBytes + Encoded(r.output) + 2 * ordinal + lease
\* Mutant: the result is measured as it looks at its first delivery.
UndeliverableAtFirst(r) ==
    r.output # NULL /\ DeliveryBytes(r, OrdinalBytes(1), WidestLease) + 2 > MaxPageBytes
Undeliverable(r) ==
    r.output # NULL /\ DeliveryBytes(r, WidestOrdinal, WidestLease) + 2 > MaxPageBytes

\* What confirmation retains: identity, digest, receipt, delivery ordinal and
\* the confirmed outcome.  A Model row also keeps its kind, from which the
\* reader restores `execution`; every other field reads as neutral.
Tombstone(r, disposition) ==
    [key |-> r.key, digest |-> r.digest, group |-> NULL, owners |-> {},
     kind |-> IF r.execution = "Model" THEN r.kind ELSE NULL,
     execution |-> r.execution, state |-> disposition,
     final_state |-> r.state, payload |-> NULL, admission |-> NULL,
     max_attempts |-> 0, generation |-> 0, lease_until |-> NULL,
     cancel_requested |-> FALSE, purged |-> FALSE, output |-> NULL,
     receipt |-> r.receipt, recovery_until |-> NULL, result_expired |-> FALSE,
     created_at |-> 0, finished_at |-> NULL,
     delivery_generation |-> r.delivery_generation, delivery_until |-> NULL]

NewRow(s) ==
    [key |-> s.key, digest |-> s.payload, group |-> s.group,
     owners |-> s.owners, kind |-> s.kind, execution |-> s.execution,
     state |-> "Pending", final_state |-> NULL, payload |-> s.payload,
     admission |-> s.admission, max_attempts |-> s.max_attempts,
     generation |-> 0, lease_until |-> NULL, cancel_requested |-> FALSE,
     purged |-> FALSE, output |-> NULL, receipt |-> NULL,
     recovery_until |-> s.recovery_until, result_expired |-> FALSE,
     created_at |-> now, finished_at |-> NULL, delivery_generation |-> 0,
     delivery_until |-> NULL]

----------------------------------------------------------------------------
(* Bounded pages.  A page takes rows in order while the encoded array      *)
(* stays within `max`, and the whole request is refused when a row it      *)
(* reaches could not fit a page of its own.                                *)

UpTo(t, i, S) == {j \in S : j = i \/ Before(t, j, i)}
FittingPage(t, size, S, max) ==
    {i \in S : 2 + MapThenSumSet(LAMBDA j : size[j], UpTo(t, i, S))
                 + Cardinality(UpTo(t, i, S)) - 1 <= max}
NoneOversized(t, size, S, max) ==
    \A i \in S :
        UpTo(t, i, S) \ {i} \subseteq FittingPage(t, size, S, max)
            => size[i] + 2 <= max

PendingRows(kinds) == {i \in Rows : Claimable(jobs[i]) /\ jobs[i].kind \in kinds}
RecoveryRows(kinds) ==
    {i \in Rows : LET r == jobs[i] IN
        /\ r.execution = "Model" /\ r.kind \in kinds
        /\ r.state = "Uncertain" \/ (r.state = "Running" /\ Past(r.lease_until))}
----------------------------------------------------------------------------
(* Operations.                                                             *)

Init == jobs = [i \in Ids |-> NULL] /\ now = 0

RowOfKey(k) == {i \in Rows : jobs[i].key = k}

\* All-or-none.  A known key joins its row when the digest agrees; each new
\* key is inserted once, under a fresh id, from the first of its specs.
Enqueue(batch) ==
    LET newKeys == {k \in {s.key : s \in batch} : RowOfKey(k) = {}}
    IN  /\ Cardinality(batch) <= MaxBatch
        /\ \A s \in batch : \A i \in RowOfKey(s.key) : jobs[i].digest = s.payload
        /\ \A s, t \in batch : s.key = t.key => s.payload = t.payload
        /\ newKeys # {}
        /\ \E I \in SUBSET (Ids \ Rows) : \E new \in [I -> batch] :
              /\ {new[i].key : i \in I} = newKeys
              /\ \A i, j \in I : new[i].key = new[j].key => i = j
              /\ \A i \in I : new[i].execution = "Model"
                                => CandidateBytes(NewRow(new[i])) + 2 <= MaxPageBytes
              /\ Cardinality(Live) + Cardinality(I) <= MaxLiveJobs
              /\ jobs' = [i \in Ids |-> IF i \in I THEN NewRow(new[i]) ELSE jobs[i]]
        /\ PendingBytes(jobs') <= MaxPendingBytes
        /\ UNCHANGED now

\* claim_job on a claimable row: grant the lease, or end the job.
GrantableIgnoringCancel(r) == r.generation < r.max_attempts \* mutant
GrantableOneMore(r) == ~r.cancel_requested /\ r.generation <= r.max_attempts \* mutant
Grantable(r) == ~r.cancel_requested /\ r.generation < r.max_attempts
Lease(r) ==
    [r EXCEPT !.state = "Running", !.generation = @ + 1,
              !.lease_until = now + ClaimLease]
EndUnclaimed(r) ==
    IF r.cancel_requested THEN DeleteCopies(Finish(r, StoppedState(r)))
                          ELSE Finish(r, "Refused")

\* Claim walks one page of candidates in FIFO order, ends those that may
\* not run again, and leases the first one that may.
ClaimPage(kinds) == FirstBy(CreatedAt, MaxPage, PendingRows(kinds))

ClaimGranted(kinds, c) ==
    LET passed == {i \in ClaimPage(kinds) : Before(CreatedAt, i, c)}
    IN  /\ c \in ClaimPage(kinds) /\ Grantable(jobs[c])
        /\ \A i \in passed : ~Grantable(jobs[i])
        /\ jobs' = [i \in Ids |-> IF i = c THEN Lease(jobs[i])
                                  ELSE IF i \in passed THEN EndUnclaimed(jobs[i])
                                  ELSE jobs[i]]
        /\ UNCHANGED now

ClaimNone(kinds) ==
    /\ ClaimPage(kinds) # {}
    /\ \A i \in ClaimPage(kinds) : ~Grantable(jobs[i])
    /\ jobs' = [i \in Ids |-> IF i \in ClaimPage(kinds) THEN EndUnclaimed(jobs[i])
                                                        ELSE jobs[i]]
    /\ UNCHANGED now

\* claim_job on one inspected row, for ClaimJob and ClaimPaid.
ClaimJob(i) ==
    /\ i \in Rows /\ Claimable(jobs[i])
    /\ jobs' = [jobs EXCEPT ![i] = IF Grantable(@) THEN Lease(@) ELSE EndUnclaimed(@)]
    /\ UNCHANGED now

ClaimPaid(i, receipt) ==
    /\ i \in Rows /\ Claimable(jobs[i]) /\ jobs[i].execution = "Model"
    /\ jobs' = [jobs EXCEPT ![i] =
                  IF Grantable(@) THEN [Lease(@) EXCEPT !.receipt = receipt]
                                  ELSE EndUnclaimed(@)]
    /\ UNCHANGED now

RefusePending(i) ==
    /\ i \in Rows /\ jobs[i].execution = "Model" /\ jobs[i].state = "Pending"
    /\ jobs' = [jobs EXCEPT ![i] = Finish(@, "Refused")]
    /\ UNCHANGED now

AwaitAdmission(i) ==
    /\ i \in Rows /\ jobs[i].execution = "Model" /\ jobs[i].state = "Pending"
    /\ jobs' = [jobs EXCEPT ![i].state = "AwaitingAdmission"]
    /\ UNCHANGED now

\* Re-submitting the authority already stored changes nothing.
AdmitRow(r, a) == [r EXCEPT !.admission = a, !.state = "Pending"]
\* Mutant: the new authority is stored without re-checking the bytes in use.
AdmitUnchecked(i, a) ==
    /\ i \in Rows /\ jobs[i].execution = "Model" /\ jobs[i].state \in Waiting
    /\ jobs[i].admission # a
    /\ jobs' = [jobs EXCEPT ![i] = AdmitRow(@, a)]
    /\ UNCHANGED now
Admit(i, a) ==
    /\ i \in Rows /\ jobs[i].execution = "Model" /\ jobs[i].state \in Waiting
    /\ jobs[i].admission # a
    /\ CandidateBytes(AdmitRow(jobs[i], a)) + 2 <= MaxPageBytes
    /\ jobs' = [jobs EXCEPT ![i] = AdmitRow(@, a)]
    /\ PendingBytes(jobs') <= MaxPendingBytes
    /\ UNCHANGED now

Heartbeat(i, g) ==
    /\ i \in Rows /\ LiveClaim(jobs[i], g)
    /\ jobs' = [jobs EXCEPT ![i].lease_until = now + ClaimLease]
    /\ UNCHANGED now

\* Complete under a live claim.  Erasure and cancellation override the
\* reported state, and a result no page can carry fails the job instead.
CompleteRow(r, state, output, receipt) ==
    LET c == [r EXCEPT !.receipt = receipt]
        u == [c EXCEPT !.state = "Uncertain", !.lease_until = NULL]
        f == Finish([c EXCEPT !.output = output],
                    IF r.cancel_requested THEN "Cancelled" ELSE state)
    IN  IF state = "Uncertain" THEN IF r.purged THEN DeleteCopies(u) ELSE u
        ELSE IF r.purged THEN DeleteCopies(Finish(c, "Purged"))
        ELSE IF Undeliverable(f)
             THEN [f EXCEPT !.output = NULL,
                            !.state = IF @ = "Cancelled" THEN @ ELSE "Failed"]
        ELSE f

CompleteAllowed(r, state, output, receipt) ==
    /\ output # NULL => RawSize(output) <= MaxResultBytes
    /\ r.execution = "Model" => output = NULL /\ receipt # NULL
    /\ r.execution = "Handler" => state # "Uncertain" /\ receipt = NULL
    /\ r.execution = "Handler" /\ state = "Succeeded"
          => output # NULL \/ r.purged \/ Past(r.recovery_until)

Complete(i, g, state, output, receipt) ==
    /\ i \in Rows /\ LiveClaim(jobs[i], g)
    /\ state \in {"Succeeded", "Failed", "Cancelled", "Refused", "Uncertain"}
    /\ CompleteAllowed(jobs[i], state, output, receipt)
    /\ jobs' = [jobs EXCEPT ![i] = CompleteRow(@, state, output, receipt)]
    /\ UNCHANGED now

----------------------------------------------------------------------------
(* Resolve: the ledger owner's evidence about a paid attempt, applied to   *)
(* the generation it examined, whatever became of the claim's lease.       *)

EndState(r, s) ==
    IF r.purged THEN "Purged" ELSE IF r.cancel_requested THEN "Cancelled" ELSE s
Erased(r) == IF r.purged THEN DeleteCopies(r) ELSE r

Resolvable(i, g) ==
    /\ i \in Rows /\ jobs[i].execution = "Model"
    /\ Unfinished(jobs[i]) /\ jobs[i].generation = g

UncertainRow(r, receipt) ==
    Erased([r EXCEPT !.receipt = receipt, !.state = "Uncertain", !.lease_until = NULL])

ResolveUncertain(i, g, receipt) ==
    /\ Resolvable(i, g) /\ jobs[i].state \in {"Running", "Uncertain"}
    /\ jobs' = [jobs EXCEPT ![i] = UncertainRow(@, receipt)]
    /\ UNCHANGED now

\* Mutant: cancellation is looked at before erasure.
ZeroChargeRowCancelFirst(r, receipt) ==
    LET z == [r EXCEPT !.receipt = receipt, !.lease_until = NULL]
    IN  IF r.cancel_requested THEN DeleteCopies(Finish(z, "Cancelled"))
        ELSE [z EXCEPT !.state = "Pending"]

ZeroChargeRow(r, receipt) ==
    LET z == [r EXCEPT !.receipt = receipt, !.lease_until = NULL]
    IN  IF r.purged THEN DeleteCopies(Finish(z, "Purged"))
        ELSE IF r.cancel_requested THEN DeleteCopies(Finish(z, "Cancelled"))
        ELSE IF r.generation >= r.max_attempts THEN Finish(z, "Refused")
        ELSE [z EXCEPT !.state = IF r.admission # NULL THEN "AwaitingAdmission"
                                                       ELSE "Pending"]

ResolveKnownZeroCharge(i, g, receipt) ==
    /\ Resolvable(i, g) /\ jobs[i].state \in {"Running", "Uncertain"}
    /\ jobs' = [jobs EXCEPT ![i] = ZeroChargeRow(@, receipt)]
    /\ UNCHANGED now

Earlier(t, u) == IF t = NULL THEN u ELSE IF u = NULL THEN t
                 ELSE IF t <= u THEN t ELSE u
PaidRow(r, receipt, until) ==
    Erased(Finish([r EXCEPT !.receipt = receipt,
                            !.recovery_until = Earlier(@, until)],
                  EndState(r, "Succeeded")))

ResolvePaidResult(i, g, receipt, until) ==
    /\ Resolvable(i, g)
    /\ jobs' = [jobs EXCEPT ![i] = PaidRow(@, receipt, until)]
    /\ UNCHANGED now

FailedRow(r, receipt) ==
    Erased(Finish([r EXCEPT !.receipt = receipt], EndState(r, "Failed")))

ResolveFailed(i, g, receipt) ==
    /\ Resolvable(i, g)
    /\ jobs' = [jobs EXCEPT ![i] = FailedRow(@, receipt)]
    /\ UNCHANGED now

----------------------------------------------------------------------------
(* Delivery, confirmation, cancellation, erasure and expiry.               *)

DeliveredRow(r) ==
    LET d == IF Past(r.recovery_until) THEN Expire(r) ELSE r
    IN  [d EXCEPT !.delivery_generation = @ + 1,
                  !.delivery_until = now + DeliveryLease]
DeliveredBytes(d) ==
    DeliveryBytes(d, OrdinalBytes(d.delivery_generation), LeaseBytes(d.delivery_until))

\* A finished row is offered until a delivery of it is under lease.
Offered(r) == Final(r) /\ (r.delivery_until = NULL \/ Past(r.delivery_until))
DeliveryCandidates(limit) ==
    FirstBy(FinishedAt, limit, {i \in Rows : Offered(jobs[i])})
DeliverySize ==
    [i \in {j \in Rows : Offered(jobs[j])} |-> DeliveredBytes(DeliveredRow(jobs[i]))]
DeliveryPage(limit, max) ==
    FittingPage(FinishedAt, DeliverySize, DeliveryCandidates(limit), max)

Completions(limit, max) ==
    /\ limit \in 1..MaxPage /\ max \in 2..MaxPageBytes
    /\ NoneOversized(FinishedAt, DeliverySize, DeliveryCandidates(limit), max)
    /\ DeliveryPage(limit, max) # {}
    /\ \A i \in DeliveryPage(limit, max) : jobs[i].delivery_generation < MaxOrdinal
    /\ jobs' = [i \in Ids |-> IF i \in DeliveryPage(limit, max)
                              THEN DeliveredRow(jobs[i]) ELSE jobs[i]]
    /\ UNCHANGED now

\* All-or-none: one bad token refuses the batch.  A row confirmed before
\* keeps its first disposition.
Ack(token, disposition) ==
    /\ DOMAIN token \subseteq Rows /\ Cardinality(DOMAIN token) <= MaxBatch
    /\ \A i \in DOMAIN token :
          /\ ~Unfinished(jobs[i])
          /\ token[i] # 0 /\ token[i] <= jobs[i].delivery_generation
    /\ jobs' = [i \in Ids |-> IF i \in DOMAIN token /\ ~Acked(jobs[i])
                              THEN Tombstone(jobs[i], disposition[i]) ELSE jobs[i]]
    /\ UNCHANGED now

\* Waiting work ends at once; running or uncertain work is only signalled.
CancelRow(r) ==
    IF Claimable(r) \/ r.state = "AwaitingAdmission"
    THEN DeleteCopies(Finish(r, StoppedState(r)))
    ELSE [r EXCEPT !.cancel_requested = TRUE]
CancelRows(S) ==
    jobs' = [i \in Ids |-> IF i \in S /\ Unfinished(jobs[i])
                          THEN CancelRow(jobs[i]) ELSE jobs[i]]

CancelIds(S) ==
    /\ S \subseteq Rows /\ Cardinality(S) <= MaxBatch
    /\ CancelRows(S) /\ UNCHANGED now
CancelGroup(group) ==
    CancelRows({i \in Rows : jobs[i].group = group}) /\ UNCHANGED now

PurgeRow(r) ==
    LET p == DeleteCopies([r EXCEPT !.purged = TRUE, !.owners = {},
                                    !.cancel_requested = TRUE])
    IN  IF Claimable(p) \/ ~(p.state \in {"Running", "Uncertain"} \/ Acked(p))
        THEN Finish(p, "Purged") ELSE p

OwnedBy(owner) == {i \in Rows : owner \in jobs[i].owners}

PurgeOwner(owner) ==
    /\ jobs' = [i \in Ids |-> IF i \in OwnedBy(owner) THEN PurgeRow(jobs[i])
                                                      ELSE jobs[i]]
    /\ UNCHANGED now

\* One bounded expiry pass; the first row is always taken.
RecoveryBytes(i) ==
    LET r == jobs[i] IN
      (IF r.payload = NULL THEN 0 ELSE InputSize(r.payload))
      + (IF r.admission = NULL THEN 0 ELSE InputSize(r.admission))
      + (IF r.output = NULL THEN 0 ELSE RawSize(r.output))
ExpiredRows ==
    FirstBy(RecoveryUntil, MaintenanceBatch,
            {i \in Rows : Final(jobs[i]) /\ ~jobs[i].result_expired
                           /\ Past(jobs[i].recovery_until)})
MaintenancePass ==
    {i \in ExpiredRows :
        LET upto == UpTo(RecoveryUntil, i, ExpiredRows)
        IN  \/ upto = {i}
            \/ /\ MapThenSumSet(RecoveryBytes, upto \ {i}) < MaintenanceBytes
               /\ MapThenSumSet(RecoveryBytes, upto) <= MaintenanceBytes}

Maintain ==
    /\ MaintenancePass # {}
    /\ jobs' = [i \in Ids |-> IF i \in MaintenancePass THEN Expire(jobs[i]) ELSE jobs[i]]
    /\ UNCHANGED now

Tick == now < MaxTime /\ now' = now + 1 /\ UNCHANGED jobs

----------------------------------------------------------------------------
(* Callers may send any request: stale generations and old delivery        *)
(* ordinals included.                                                      *)

ClaimStep ==
    \/ \E kinds \in SUBSET Kinds :
          ClaimNone(kinds) \/ \E c \in Ids : ClaimGranted(kinds, c)
    \/ \E i \in Ids : ClaimJob(i) \/ \E rc \in Receipts : ClaimPaid(i, rc)

AdmissionStep ==
    \E i \in Ids : \/ AwaitAdmission(i) \/ RefusePending(i)
                   \/ \E a \in Admissions : Admit(i, a)

WorkerStep ==
    \E i \in Ids, g \in 0..MaxToken :
        \/ Heartbeat(i, g)
        \/ \E s \in JobState, o \in Outputs \cup {NULL}, rc \in Receipts \cup {NULL} :
              Complete(i, g, s, o, rc)

ResolveStep ==
    \E i \in Ids, g \in 0..MaxToken, rc \in Receipts :
        \/ ResolveUncertain(i, g, rc) \/ ResolveKnownZeroCharge(i, g, rc)
        \/ ResolveFailed(i, g, rc)
        \/ \E u \in {NULL, now} : ResolvePaidResult(i, g, rc, u)

ConsumerStep ==
    \/ \E limit \in 1..MaxPage, max \in 2..MaxPageBytes : Completions(limit, max)
    \/ \E I \in (SUBSET Rows) \ {{}} : \E token \in [I -> 0..MaxToken] :
          \E disposition \in [I -> AckedStates] : Ack(token, disposition)
    \/ \E S \in (SUBSET Rows) \ {{}} : CancelIds(S)
    \/ \E group \in Groups : CancelGroup(group)
    \/ \E owner \in Owners : PurgeOwner(owner)

Next ==
    \/ \E batch \in SUBSET Specs : Enqueue(batch)
    \/ ClaimStep \/ AdmissionStep \/ WorkerStep \/ ResolveStep \/ ConsumerStep
    \/ Maintain
    \/ Tick

Spec == Init /\ [][Next]_vars

----------------------------------------------------------------------------
(* Properties.                                                             *)

\* The type of the store: every inserted row is a JobRecord.
TypeOK == jobs \in [Ids -> JobRecord \cup {NULL}] /\ now \in Nat

NoCopies(r) == r.payload = NULL /\ r.admission = NULL /\ r.output = NULL

ErasedRow(r) ==
    r.purged => NoCopies(r) /\ r.state \in {"Running", "Uncertain", "Purged"}
\* Erasure is complete and sticky (PurgeOwner, and every later write): a
\* row whose owner was erased holds no copy of input, authority or result
\* in any state, is never waiting, and can end only as Purged.
ErasureComplete == \A i \in Rows : ErasedRow(jobs[i])

CancelledRow(r) ==
    r.cancel_requested => r.state \in {"Running", "Uncertain", "Cancelled", "Purged"}
\* A cancelled job never reports success: whatever the worker or the ledger
\* says afterwards, it ends Cancelled or Purged (Complete, Resolve, claim_job).
CancelWins == \A i \in Rows : CancelledRow(jobs[i])

RunnableRow(r) ==
    /\ Unfinished(r) /\ ~r.cancel_requested => r.payload = r.digest
    /\ ~Acked(r) => r.generation <= r.max_attempts
\* Whatever a claim may still hand to a worker carries its waiting copy, and
\* no job runs more often than its frozen ceiling; the runner stops for good
\* on a claim without a payload (claim_job, runner.rs execute).
ClaimCarriesPayload == \A i \in Rows : RunnableRow(jobs[i])

\* Enqueue's capacity promise: neither the live population nor the retained
\* unfinished input ever exceeds its configured bound, under any later step.
WithinCapacity ==
    /\ Cardinality(Live) <= MaxLiveJobs
    /\ PendingBytes(jobs) <= MaxPendingBytes

\* A key names one row for ever, confirmed or not (UNIQUE(scope, key) and
\* the by_key lookup), so a confirmed invocation is never inserted again.
KeyUnique == \A i, j \in Rows : jobs[i].key = jobs[j].key => i = j

DeliverableRow(r) ==
    r.output # NULL /\ Offered(r) /\ r.delivery_generation < MaxOrdinal
        => DeliveredBytes(DeliveredRow(r)) + 2 <= MaxPageBytes
\* The size of a result is checked once, when its job completes, and the row
\* grows afterwards: however often it was delivered and whenever it is asked
\* for, a result on offer fits a legal completion page by itself, so none ever
\* blocks the deliveries behind it (undeliverable, Completions).
ResultsDeliverable == \A i \in Rows : DeliverableRow(jobs[i])

ConfirmedRow(r) ==
    Acked(r) => /\ r.delivery_generation > 0 /\ r.final_state \in FinalStates
                /\ NoCopies(r) /\ r.owners = {}
\* Only an issued delivery is confirmed, and a confirmed row is a content-free
\* tombstone that still names the final state it confirmed (Ack, save).
ConfirmedWasDelivered == \A i \in Rows : ConfirmedRow(jobs[i])

RecoverableRow(r) ==
    /\ Final(r) => /\ r.recovery_until # NULL /\ r.finished_at # NULL
                   /\ r.lease_until = NULL
    /\ r.result_expired => Final(r) /\ NoCopies(r)
    /\ r.state = "Running" <=> r.lease_until # NULL
\* An unconfirmed final row has everything expiry and delivery need: a
\* deadline, a finish time, no lease; once expired it holds no copies (finish).
FinalRecoverable == \A i \in Rows : RecoverableRow(jobs[i])

StableStep(r, n) ==
    /\ Final(r) => \/ n.state \in {r.state, "Purged"} /\ n.generation = r.generation
                   \/ n.state \in AckedStates /\ n.final_state = r.state
    /\ Acked(r) => n = r
\* A finished job never runs again and its outcome never changes: the only
\* moves left are erasure to Purged and confirmation, and the first
\* confirmation is for ever.
FinishedStable == [][\A i \in Rows : StableStep(jobs[i], jobs'[i])]_vars

GrantStep(r, n) ==
    ~Acked(n) /\ n.generation > r.generation =>
        /\ ~r.cancel_requested /\ ~r.purged
        /\ r.execution = "Model" => r.state = "Pending"
        /\ r.state = "Running" => Past(r.lease_until)
\* Cancelled or erased work is never handed out again, and a paid attempt is
\* never repeated from Running or Uncertain: its row must first have been
\* returned to Pending by KnownZeroCharge evidence.
NoForbiddenClaim == [][\A i \in Rows : GrantStep(jobs[i], jobs'[i])]_vars

\* A stored Model row stays readable: whatever a model worker's candidate or
\* recovery query returns fits a page by itself, as enqueue and renewal
\* enforce for the row they write (candidate_page_bytes).  One row that does
\* not fit refuses the query, which ends the worker.
CandidatesReadable ==
    \A i \in PendingRows(Kinds) \cup RecoveryRows(Kinds) :
        jobs[i].execution = "Model" => CandidateBytes(jobs[i]) + 2 <= MaxPageBytes

=============================================================================
