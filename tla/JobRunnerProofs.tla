-------------------------- MODULE JobRunnerProofs --------------------------
(***************************************************************************)
(* The job store and the runner over it.                                   *)
(*                                                                         *)
(* First JobStore, for every set of ids, specifications, bounds and        *)
(* deadlines.  Every operation rewrites rows one at a time, so the         *)
(* inductive invariant is a predicate on one row, and each row operator    *)
(* has one lemma: from a good row and the operation's guard it makes a     *)
(* good row by a step that is stable and grants no forbidden claim.        *)
(*                                                                         *)
(* Then JobRunner.  It only ever makes steps of the job store, so the      *)
(* store's theorems hold under it, and a result is fenced by the claim     *)
(* that computed it.  The fence needs three facts together: no worker      *)
(* holds a generation its row has not reached, no two hold the same one,   *)
(* and only a finished row has a result, so that a later claim never finds *)
(* one.                                                                    *)
(***************************************************************************)
EXTENDS JobRunner, TLAPS

----------------------------------------------------------------------------
(* The job store.                                                          *)

\* Erasure also stops the job, which is what makes ErasedRow inductive: an
\* expired claim on an erased row is ended and never granted again.
StoppedRow(r) == r.purged => r.cancel_requested

RowInv(r) ==
    /\ ErasedRow(r) /\ CancelledRow(r) /\ RunnableRow(r)
    /\ ConfirmedRow(r) /\ RecoverableRow(r) /\ StoppedRow(r)

GoodRow(r) == r \in JobRecord /\ RowInv(r)

IInv == now \in Nat /\ now <= MaxTime /\ jobs \in [Ids -> JobRecord \cup {NULL}]
            /\ \A i \in Ids : jobs[i] # NULL => RowInv(jobs[i]) /\ ~Undeliverable(jobs[i])

\* The identity of a row: its idempotency key and the digest it was bound to.
SameIdentity(r, n) == n.key = r.key /\ n.digest = r.digest
\* A result is kept, dropped, or measured with the widest delivery encodings.
OutputStep(r, n) == n.output \in {r.output, NULL} \/ ~Undeliverable(n)

CoreStep(r, n) ==
    GoodRow(n) /\ SameIdentity(r, n) /\ StableStep(r, n) /\ GrantStep(r, n)
GoodStep(r, n) == CoreStep(r, n) /\ OutputStep(r, n)

----------------------------------------------------------------------------
(* The shape of a row: a function on the field names of JobRecord.         *)

Fields == {"key", "digest", "group", "owners", "kind", "execution", "state",
           "final_state", "payload", "admission", "max_attempts",
           "generation", "lease_until", "cancel_requested", "purged",
           "output", "receipt", "recovery_until", "result_expired",
           "created_at", "finished_at", "delivery_generation",
           "delivery_until"}
Shaped(r) == r = [f \in Fields |-> r[f]]

FieldTypes(r) ==
    /\ r.key \in Keys /\ r.digest \in Payloads
    /\ r.group \in Groups \cup {NULL} /\ r.owners \in SUBSET Owners
    /\ r.kind \in Kinds \cup {NULL} /\ r.execution \in Execution
    /\ r.state \in JobState /\ r.final_state \in FinalStates \cup {NULL}
    /\ r.payload \in Payloads \cup {NULL}
    /\ r.admission \in Admissions \cup {NULL}
    /\ r.max_attempts \in Nat /\ r.generation \in Nat
    /\ r.lease_until \in Nat \cup {NULL}
    /\ r.cancel_requested \in BOOLEAN /\ r.purged \in BOOLEAN
    /\ r.output \in Outputs \cup {NULL} /\ r.receipt \in Receipts \cup {NULL}
    /\ r.recovery_until \in Nat \cup {NULL} /\ r.result_expired \in BOOLEAN
    /\ r.created_at \in Nat /\ r.finished_at \in Nat \cup {NULL}
    /\ r.delivery_generation \in Nat /\ r.delivery_until \in Nat \cup {NULL}

\* A row is a JobRecord exactly when it has the fields and their types.
LEMMA RecordIsShaped ==
    ASSUME NEW r \in JobRecord PROVE Shaped(r) /\ FieldTypes(r)
<1>1. Shaped(r)
  BY DEF JobRecord, Shaped, Fields
<1>2. FieldTypes(r)
  BY DEF JobRecord, FieldTypes
<1> QED BY <1>1, <1>2

\* The converse: fields of the right types make a JobRecord.
LEMMA ShapedIsRecord ==
    ASSUME NEW r, Shaped(r), FieldTypes(r) PROVE r \in JobRecord
BY DEF JobRecord, Shaped, Fields, FieldTypes

\* Assigning a field keeps the shape of a row.
LEMMA ShapedExcept ==
    ASSUME NEW r, NEW f, NEW v, Shaped(r) PROVE Shaped([r EXCEPT ![f] = v])
BY DEF Shaped

\* delete_copies keeps the shape of a row.
LEMMA ShapedDeleteCopies ==
    ASSUME NEW r, Shaped(r) PROVE Shaped(DeleteCopies(r))
BY ShapedExcept, Zenon DEF DeleteCopies

\* expire keeps the shape of a row.
LEMMA ShapedExpire == ASSUME NEW r, Shaped(r) PROVE Shaped(Expire(r))
BY ShapedExcept, ShapedDeleteCopies, Zenon DEF Expire

\* finish keeps the shape of a row.
LEMMA ShapedFinish ==
    ASSUME NEW r, NEW s, Shaped(r) PROVE Shaped(Finish(r, s))
BY ShapedExcept, ShapedExpire, Zenon DEF Finish

----------------------------------------------------------------------------
(* What the row operators assign.                                          *)

\* finish keeps a known recovery deadline, computes a missing one, and
\* drops the copies of a row whose deadline has already passed.
LEMMA FinishFields ==
    ASSUME NEW r \in JobRecord, NEW s, now \in Nat
    PROVE  LET f == Finish(r, s) IN
           /\ f.state = s /\ f.lease_until = NULL /\ f.finished_at = now
           /\ f.recovery_until \in Nat
           /\ f.key = r.key /\ f.digest = r.digest /\ f.group = r.group
           /\ f.owners = r.owners /\ f.kind = r.kind
           /\ f.execution = r.execution /\ f.final_state = r.final_state
           /\ f.max_attempts = r.max_attempts /\ f.generation = r.generation
           /\ f.cancel_requested = r.cancel_requested /\ f.purged = r.purged
           /\ f.receipt = r.receipt /\ f.created_at = r.created_at
           /\ f.delivery_generation = r.delivery_generation
           /\ f.delivery_until = r.delivery_until
           /\ \/ /\ f.payload = r.payload /\ f.admission = r.admission
                 /\ f.output = r.output /\ f.result_expired = r.result_expired
              \/ NoCopies(f) /\ f.result_expired /\ f.result_expired \in BOOLEAN
<1>1. now + Retention \in Nat
  BY ConfigAssumption
<1> QED BY <1>1 DEF Finish, Expire, DeleteCopies, JobRecord, NoCopies

\* Only the three copies change when they are deleted.
LEMMA DeleteCopiesFields ==
    ASSUME NEW r \in JobRecord
    PROVE  LET d == DeleteCopies(r) IN
           /\ NoCopies(d)
           /\ d.key = r.key /\ d.digest = r.digest /\ d.group = r.group
           /\ d.owners = r.owners /\ d.kind = r.kind
           /\ d.execution = r.execution /\ d.state = r.state
           /\ d.final_state = r.final_state
           /\ d.max_attempts = r.max_attempts /\ d.generation = r.generation
           /\ d.lease_until = r.lease_until
           /\ d.cancel_requested = r.cancel_requested /\ d.purged = r.purged
           /\ d.receipt = r.receipt /\ d.recovery_until = r.recovery_until
           /\ d.result_expired = r.result_expired
           /\ d.created_at = r.created_at /\ d.finished_at = r.finished_at
           /\ d.delivery_generation = r.delivery_generation
           /\ d.delivery_until = r.delivery_until
BY DEF DeleteCopies, JobRecord, NoCopies

\* A row may lose its copies once it is finished or stopped.
LEMMA DeleteCopiesGood ==
    ASSUME NEW r, GoodRow(r), ~Unfinished(r) \/ r.cancel_requested
    PROVE  GoodRow(DeleteCopies(r))
<1> DEFINE d == DeleteCopies(r)
<1>1. r \in JobRecord /\ RowInv(r) /\ Shaped(r) /\ FieldTypes(r)
  BY RecordIsShaped DEF GoodRow
<1>2. Shaped(d)
  BY <1>1, ShapedDeleteCopies
<1> HIDE DEF d
<1>3. FieldTypes(d)
  BY <1>1, DeleteCopiesFields DEF FieldTypes, d, NoCopies
<1>4. RowInv(d)
  BY <1>1, DeleteCopiesFields
  DEF d, RowInv, ErasedRow, CancelledRow, RunnableRow, ConfirmedRow,
      RecoverableRow, StoppedRow, NoCopies, Unfinished, Acked, Final
<1> QED BY <1>2, <1>3, <1>4, ShapedIsRecord DEF GoodRow, d

\* finish makes a good row of any job that has not exceeded its attempts, as
\* long as the final state respects erasure and cancellation.
LEMMA FinishGood ==
    ASSUME NEW r \in JobRecord, NEW s \in FinalStates, now \in Nat,
           StoppedRow(r), r.generation <= r.max_attempts,
           r.purged => NoCopies(r) /\ s = "Purged",
           r.cancel_requested => s \in {"Cancelled", "Purged"},
           r.result_expired => NoCopies(r)
    PROVE  GoodRow(Finish(r, s))
<1> DEFINE f == Finish(r, s)
<1>1. Shaped(r) /\ FieldTypes(r)
  BY RecordIsShaped
<1>2. Shaped(f)
  BY <1>1, ShapedFinish
<1> HIDE DEF f
<1>3. FieldTypes(f)
  <2>1. s \in JobState
    BY DEF JobState
  <2> QED BY <1>1, <2>1, FinishFields DEF FieldTypes, f, NoCopies
<1>4. RowInv(f)
  <2>1. ~Acked(f) /\ ~Unfinished(f) /\ Final(f) /\ f.state # "Running"
    BY FinishFields DEF f, Acked, Unfinished, Final, AckedStates, FinalStates,
       UnfinishedStates, Waiting
  <2> QED
    BY <2>1, FinishFields, NullAssumption
    DEF f, RowInv, ErasedRow, CancelledRow, RunnableRow, ConfirmedRow,
        RecoverableRow, StoppedRow, NoCopies
<1> QED BY <1>2, <1>3, <1>4, ShapedIsRecord DEF GoodRow, f
----------------------------------------------------------------------------
(* One lemma per row operator: what its guard makes of a good row.         *)

\* A submitted specification becomes a good waiting row.
LEMMA NewRowGood ==
    ASSUME NEW s \in Specs, now \in Nat PROVE GoodRow(NewRow(s))
<1>1. NewRow(s) \in JobRecord
  BY SpecsAssumption
  DEF NewRow, JobSpec, JobRecord, JobState, UnfinishedStates, Waiting
<1>2. RowInv(NewRow(s))
  BY SpecsAssumption
  DEF NewRow, JobSpec, RowInv, ErasedRow, CancelledRow, RunnableRow, ConfirmedRow,
      RecoverableRow, StoppedRow, NoCopies,
      Unfinished, Acked, Final, UnfinishedStates, Waiting,
      FinalStates, AckedStates
<1> QED BY <1>1, <1>2 DEF GoodRow

\* A granted claim on a claimable row.
LEMMA LeaseGood ==
    ASSUME NEW r, GoodRow(r), now \in Nat, Claimable(r), Grantable(r)
    PROVE  GoodStep(r, Lease(r))
<1> DEFINE n == Lease(r)
<1>1. r \in JobRecord /\ RowInv(r) /\ Shaped(r) /\ FieldTypes(r)
  BY RecordIsShaped DEF GoodRow
<1>2. Shaped(n)
  BY <1>1, ShapedExcept, Zenon DEF Lease
<1>3. FieldTypes(n)
  BY <1>1, ConfigAssumption
  DEF FieldTypes, Lease, JobRecord, JobState, UnfinishedStates, Waiting
<1>4. RowInv(n) /\ StableStep(r, n) /\ GrantStep(r, n)
      /\ SameIdentity(r, n) /\ OutputStep(r, n)
  BY <1>1, ConfigAssumption, NullAssumption
  DEF Lease, RowInv, ErasedRow, CancelledRow, RunnableRow, ConfirmedRow,
      RecoverableRow, StoppedRow, NoCopies,
      Unfinished, Acked, Final, UnfinishedStates, Waiting,
      FinalStates, AckedStates,
      JobRecord, FieldTypes, SameIdentity, OutputStep, StableStep, GrantStep, Past, Claimable,
      Grantable, LiveClaim
<1> HIDE DEF n
<1>5. n \in JobRecord
  BY <1>2, <1>3, ShapedIsRecord
<1>6. GoodStep(r, n)
  BY <1>4, <1>5 DEF GoodStep, CoreStep, GoodRow
<1> QED BY <1>6 DEF n

\* The same, with the receipt of the paid attempt.
LEMMA LeasePaidGood ==
    ASSUME NEW r, NEW rc \in Receipts, GoodRow(r), now \in Nat, Claimable(r), Grantable(r)
    PROVE  GoodStep(r, [Lease(r) EXCEPT !.receipt = rc])
<1> DEFINE n == [Lease(r) EXCEPT !.receipt = rc]
<1>1. r \in JobRecord /\ RowInv(r) /\ Shaped(r) /\ FieldTypes(r)
  BY RecordIsShaped DEF GoodRow
<1>2. Shaped(n)
  BY <1>1, ShapedExcept, Zenon DEF Lease
<1>3. FieldTypes(n)
  BY <1>1, ConfigAssumption
  DEF FieldTypes, Lease, JobRecord, JobState, UnfinishedStates, Waiting
<1>4. RowInv(n) /\ StableStep(r, n) /\ GrantStep(r, n)
      /\ SameIdentity(r, n) /\ OutputStep(r, n)
  BY <1>1, ConfigAssumption, NullAssumption
  DEF Lease, RowInv, ErasedRow, CancelledRow, RunnableRow, ConfirmedRow,
      RecoverableRow, StoppedRow, NoCopies,
      Unfinished, Acked, Final, UnfinishedStates, Waiting,
      FinalStates, AckedStates,
      JobRecord, FieldTypes, SameIdentity, OutputStep, StableStep, GrantStep, Past, Claimable,
      Grantable, LiveClaim
<1> HIDE DEF n
<1>5. n \in JobRecord
  BY <1>2, <1>3, ShapedIsRecord
<1>6. GoodStep(r, n)
  BY <1>4, <1>5 DEF GoodStep, CoreStep, GoodRow
<1> QED BY <1>6 DEF n

\* A pending model job starts to wait for admission.
LEMMA AwaitGood ==
    ASSUME NEW r, GoodRow(r), now \in Nat, r.state = "Pending"
    PROVE  GoodStep(r, [r EXCEPT !.state = "AwaitingAdmission"])
<1> DEFINE n == [r EXCEPT !.state = "AwaitingAdmission"]
<1>1. r \in JobRecord /\ RowInv(r) /\ Shaped(r) /\ FieldTypes(r)
  BY RecordIsShaped DEF GoodRow
<1>2. Shaped(n)
  BY <1>1, ShapedExcept, Zenon
<1>3. FieldTypes(n)
  BY <1>1, ConfigAssumption
  DEF FieldTypes, JobRecord, JobState, UnfinishedStates, Waiting
<1>4. RowInv(n) /\ StableStep(r, n) /\ GrantStep(r, n)
      /\ SameIdentity(r, n) /\ OutputStep(r, n)
  BY <1>1, ConfigAssumption, NullAssumption
  DEF RowInv, ErasedRow, CancelledRow, RunnableRow, ConfirmedRow,
      RecoverableRow, StoppedRow, NoCopies,
      Unfinished, Acked, Final, UnfinishedStates, Waiting,
      FinalStates, AckedStates,
      JobRecord, FieldTypes, SameIdentity, OutputStep, StableStep, GrantStep, Past, Claimable,
      Grantable, LiveClaim
<1> HIDE DEF n
<1>5. n \in JobRecord
  BY <1>2, <1>3, ShapedIsRecord
<1>6. GoodStep(r, n)
  BY <1>4, <1>5 DEF GoodStep, CoreStep, GoodRow
<1> QED BY <1>6 DEF n

\* New authority returns a waiting job to Pending.
LEMMA AdmitGood ==
    ASSUME NEW r, NEW a \in Admissions, GoodRow(r), now \in Nat, r.state \in Waiting
    PROVE  GoodStep(r, AdmitRow(r, a))
<1> DEFINE n == AdmitRow(r, a)
<1>1. r \in JobRecord /\ RowInv(r) /\ Shaped(r) /\ FieldTypes(r)
  BY RecordIsShaped DEF GoodRow
<1>2. Shaped(n)
  BY <1>1, ShapedExcept, Zenon DEF AdmitRow
<1>3. FieldTypes(n)
  BY <1>1, ConfigAssumption
  DEF FieldTypes, AdmitRow, JobRecord, JobState, UnfinishedStates, Waiting
<1>4. RowInv(n) /\ StableStep(r, n) /\ GrantStep(r, n)
      /\ SameIdentity(r, n) /\ OutputStep(r, n)
  BY <1>1, ConfigAssumption, NullAssumption
  DEF AdmitRow, RowInv, ErasedRow, CancelledRow, RunnableRow, ConfirmedRow,
      RecoverableRow, StoppedRow, NoCopies,
      Unfinished, Acked, Final, UnfinishedStates, Waiting,
      FinalStates, AckedStates,
      JobRecord, FieldTypes, SameIdentity, OutputStep, StableStep, GrantStep, Past, Claimable,
      Grantable, LiveClaim
<1> HIDE DEF n
<1>5. n \in JobRecord
  BY <1>2, <1>3, ShapedIsRecord
<1>6. GoodStep(r, n)
  BY <1>4, <1>5 DEF GoodStep, CoreStep, GoodRow
<1> QED BY <1>6 DEF n

\* A live claim is extended.
LEMMA HeartbeatGood ==
    ASSUME NEW r, NEW g, GoodRow(r), now \in Nat, LiveClaim(r, g)
    PROVE  GoodStep(r, [r EXCEPT !.lease_until = now + ClaimLease])
<1> DEFINE n == [r EXCEPT !.lease_until = now + ClaimLease]
<1>1. r \in JobRecord /\ RowInv(r) /\ Shaped(r) /\ FieldTypes(r)
  BY RecordIsShaped DEF GoodRow
<1>2. Shaped(n)
  BY <1>1, ShapedExcept, Zenon
<1>3. FieldTypes(n)
  BY <1>1, ConfigAssumption
  DEF FieldTypes, JobRecord, JobState, UnfinishedStates, Waiting
<1>4. RowInv(n) /\ StableStep(r, n) /\ GrantStep(r, n)
      /\ SameIdentity(r, n) /\ OutputStep(r, n)
  BY <1>1, ConfigAssumption, NullAssumption
  DEF RowInv, ErasedRow, CancelledRow, RunnableRow, ConfirmedRow,
      RecoverableRow, StoppedRow, NoCopies,
      Unfinished, Acked, Final, UnfinishedStates, Waiting,
      FinalStates, AckedStates,
      JobRecord, FieldTypes, SameIdentity, OutputStep, StableStep, GrantStep, Past, Claimable,
      Grantable, LiveClaim
<1> HIDE DEF n
<1>5. n \in JobRecord
  BY <1>2, <1>3, ShapedIsRecord
<1>6. GoodStep(r, n)
  BY <1>4, <1>5 DEF GoodStep, CoreStep, GoodRow
<1> QED BY <1>6 DEF n

\* Ending an unfinished row r through c, which differs from r at most in
\* its receipt, lease, recovery deadline and result.
SameControl(r, c) ==
    /\ c.generation = r.generation /\ c.max_attempts = r.max_attempts
    /\ c.purged = r.purged /\ c.cancel_requested = r.cancel_requested
    /\ c.result_expired = r.result_expired
    /\ c.key = r.key /\ c.digest = r.digest

\* finish makes a good step of r out of such a row.
LEMMA EndCore ==
    ASSUME NEW r, GoodRow(r), now \in Nat, Unfinished(r),
           NEW c \in JobRecord, SameControl(r, c), r.purged => NoCopies(c),
           NEW s \in FinalStates, r.purged => s = "Purged",
           r.cancel_requested => s \in {"Cancelled", "Purged"}
    PROVE  /\ CoreStep(r, Finish(c, s))
           /\ CoreStep(r, DeleteCopies(Finish(c, s)))
           /\ Finish(c, s).output \in {c.output, NULL}
           /\ DeleteCopies(Finish(c, s)).output = NULL
<1> DEFINE f == Finish(c, s)
           d == DeleteCopies(f)
<1>1. r \in JobRecord /\ RowInv(r)
  BY DEF GoodRow
<1>2. ~Final(r) /\ ~Acked(r)
  BY DEF Unfinished, Acked, Final, UnfinishedStates, Waiting,
      FinalStates, AckedStates
<1>3. GoodRow(f)
  BY <1>1, <1>2, FinishGood
  DEF SameControl, RowInv, StoppedRow, RunnableRow, RecoverableRow
<1>4. /\ f.generation = c.generation /\ f.state = s /\ SameIdentity(c, f)
      /\ f.output \in {c.output, NULL}
  BY FinishFields DEF SameIdentity, NoCopies
<1> HIDE DEF f
<1>5. ~Unfinished(f)
  BY <1>4 DEF Unfinished, UnfinishedStates, Waiting, FinalStates
<1>6. GoodRow(d)
  BY <1>3, <1>5, DeleteCopiesGood
<1>7. d.generation = f.generation /\ SameIdentity(f, d) /\ d.output = NULL
  BY <1>3, DeleteCopiesFields DEF GoodRow, SameIdentity, NoCopies
<1> HIDE DEF d
<1>8. c.generation \in Nat
  BY DEF JobRecord
<1>9. CoreStep(r, f) /\ CoreStep(r, d)
  BY <1>2, <1>3, <1>4, <1>6, <1>7, <1>8
  DEF CoreStep, SameIdentity, OutputStep, StableStep, GrantStep, SameControl
<1> QED BY <1>4, <1>7, <1>9 DEF d, f

\* The same through a row c with the result of r.
LEMMA EndStep ==
    ASSUME NEW r, GoodRow(r), now \in Nat, Unfinished(r),
           NEW c \in JobRecord, SameControl(r, c), r.purged => NoCopies(c),
           NEW s \in FinalStates, r.purged => s = "Purged",
           r.cancel_requested => s \in {"Cancelled", "Purged"},
           c.output = r.output
    PROVE  /\ GoodStep(r, Finish(c, s))
           /\ GoodStep(r, DeleteCopies(Finish(c, s)))
BY EndCore DEF GoodStep, OutputStep

\* A candidate that may not run again: cancelled or out of attempts.
LEMMA EndUnclaimedGood ==
    ASSUME NEW r, GoodRow(r), now \in Nat, Claimable(r), ~Grantable(r)
    PROVE  GoodStep(r, EndUnclaimed(r))
<1>1. r \in JobRecord /\ RowInv(r) /\ Unfinished(r)
  BY DEF GoodRow, Claimable, Unfinished, UnfinishedStates, Waiting
<1>2. SameControl(r, r) /\ (r.purged => NoCopies(r))
  BY <1>1 DEF SameControl, RowInv, ErasedRow
<1>3. CASE r.cancel_requested
  <2>1. StoppedState(r) \in {"Cancelled", "Purged"} /\ (r.purged => StoppedState(r) = "Purged")
    BY DEF StoppedState
  <2> QED BY <1>1, <1>2, <1>3, <2>1, EndStep DEF EndUnclaimed, FinalStates
<1>4. CASE ~r.cancel_requested
  <2>1. ~r.purged
    BY <1>1, <1>4 DEF RowInv, StoppedRow
  <2> QED BY <1>1, <1>2, <1>4, <2>1, EndStep DEF EndUnclaimed, FinalStates
<1> QED BY <1>3, <1>4

\* The host refuses a waiting model job before any paid attempt.
LEMMA RefuseGood ==
    ASSUME NEW r, GoodRow(r), now \in Nat, r.state = "Pending"
    PROVE  GoodStep(r, Finish(r, "Refused"))
<1>1. r \in JobRecord /\ RowInv(r) /\ Unfinished(r)
  BY DEF GoodRow, Unfinished, UnfinishedStates, Waiting
<1>2. ~r.purged /\ ~r.cancel_requested
  BY <1>1 DEF RowInv, ErasedRow, CancelledRow
<1>3. SameControl(r, r)
  BY DEF SameControl
<1> QED BY <1>1, <1>2, <1>3, EndStep DEF FinalStates

\* Recording a receipt, result or deadline keeps a record and its control.
LEMMA EvidenceFields ==
    ASSUME NEW r \in JobRecord, NEW rc \in Receipts \cup {NULL},
           NEW o \in Outputs \cup {NULL}, NEW t \in Nat \cup {NULL}
    PROVE  LET c == [r EXCEPT !.receipt = rc]
               w == [c EXCEPT !.output = o]
               z == [r EXCEPT !.receipt = rc, !.lease_until = NULL]
               p == [r EXCEPT !.receipt = rc, !.recovery_until = t]
           IN  /\ c \in JobRecord /\ w \in JobRecord /\ z \in JobRecord /\ p \in JobRecord
               /\ SameControl(r, c) /\ SameControl(r, w)
               /\ SameControl(r, z) /\ SameControl(r, p)
               /\ NoCopies(r) => NoCopies(c) /\ NoCopies(z) /\ NoCopies(p)
               /\ c.output = r.output /\ z.output = r.output /\ p.output = r.output
<1>1. Shaped(r) /\ FieldTypes(r)
  BY RecordIsShaped
<1> DEFINE c == [r EXCEPT !.receipt = rc]
           w == [c EXCEPT !.output = o]
           z == [r EXCEPT !.receipt = rc, !.lease_until = NULL]
           p == [r EXCEPT !.receipt = rc, !.recovery_until = t]
<1>2. Shaped(c) /\ Shaped(w) /\ Shaped(z) /\ Shaped(p)
  BY <1>1, ShapedExcept, Zenon
<1>3. FieldTypes(c) /\ FieldTypes(w) /\ FieldTypes(z) /\ FieldTypes(p)
  BY <1>1 DEF FieldTypes, JobRecord
<1>4. SameControl(r, c) /\ SameControl(r, w) /\ SameControl(r, z) /\ SameControl(r, p)
  BY DEF SameControl, JobRecord
<1>5. /\ NoCopies(r) => NoCopies(c) /\ NoCopies(z) /\ NoCopies(p)
      /\ c.output = r.output /\ z.output = r.output /\ p.output = r.output
  BY DEF NoCopies, JobRecord
<1> HIDE DEF c, w, z, p
<1>6. c \in JobRecord /\ w \in JobRecord /\ z \in JobRecord /\ p \in JobRecord
  BY <1>2, <1>3, ShapedIsRecord
<1>7. /\ c \in JobRecord /\ w \in JobRecord /\ z \in JobRecord /\ p \in JobRecord
      /\ SameControl(r, c) /\ SameControl(r, w) /\ SameControl(r, z) /\ SameControl(r, p)
      /\ NoCopies(r) => NoCopies(c) /\ NoCopies(z) /\ NoCopies(p)
      /\ c.output = r.output /\ z.output = r.output /\ p.output = r.output
  BY <1>4, <1>5, <1>6
<1> QED BY <1>7 DEF c, w, z, p

\* A charge the ledger cannot settle yet: the claim is over, the job is not.
LEMMA UncertainGood ==
    ASSUME NEW r, GoodRow(r), now \in Nat, NEW rc \in Receipts \cup {NULL},
           r.state \in {"Running", "Uncertain"}
    PROVE  LET u == [r EXCEPT !.receipt = rc, !.state = "Uncertain",
                              !.lease_until = NULL]
           IN  GoodStep(r, IF r.purged THEN DeleteCopies(u) ELSE u)
<1> DEFINE u == [r EXCEPT !.receipt = rc, !.state = "Uncertain",
                          !.lease_until = NULL]
<1>1. r \in JobRecord /\ RowInv(r) /\ Shaped(r) /\ FieldTypes(r)
  BY RecordIsShaped DEF GoodRow
<1>2. Shaped(u)
  BY <1>1, ShapedExcept, Zenon
<1>3. FieldTypes(u)
  BY <1>1 DEF FieldTypes, JobRecord, JobState, UnfinishedStates
<1>4. /\ RowInv(u) /\ u.generation = r.generation /\ u.purged = r.purged
      /\ u.cancel_requested = r.cancel_requested
      /\ SameIdentity(r, u) /\ u.output = r.output
  BY <1>1, NullAssumption
  DEF SameIdentity, RowInv, ErasedRow, CancelledRow, RunnableRow, ConfirmedRow,
      RecoverableRow, StoppedRow, NoCopies, Unfinished, Acked, Final,
      UnfinishedStates, Waiting, FinalStates, AckedStates, JobRecord
<1> HIDE DEF u
<1>5. GoodRow(u) /\ u \in JobRecord
  BY <1>2, <1>3, <1>4, ShapedIsRecord DEF GoodRow
<1>6. r.purged => /\ GoodRow(DeleteCopies(u))
                  /\ DeleteCopies(u).generation = r.generation
                  /\ SameIdentity(r, DeleteCopies(u))
                  /\ DeleteCopies(u).output = NULL
  BY <1>1, <1>4, <1>5, DeleteCopiesGood, DeleteCopiesFields
  DEF RowInv, StoppedRow, SameIdentity, NoCopies
<1>7. ~Final(r) /\ ~Acked(r) /\ r.generation \in Nat
  BY <1>1 DEF Final, Acked, FinalStates, AckedStates, FieldTypes
<1>8. GoodStep(r, IF r.purged THEN DeleteCopies(u) ELSE u)
  BY <1>4, <1>5, <1>6, <1>7 DEF GoodStep, CoreStep, SameIdentity, OutputStep, StableStep, GrantStep
<1> QED BY <1>8 DEF u

\* Complete under a live claim, in each of its outcomes.
LEMMA CompleteGood ==
    ASSUME NEW r, GoodRow(r), now \in Nat, NEW g, LiveClaim(r, g),
           NEW s \in {"Succeeded", "Failed", "Cancelled", "Refused", "Uncertain"},
           NEW o \in Outputs \cup {NULL}, NEW rc \in Receipts \cup {NULL}
    PROVE  GoodStep(r, CompleteRow(r, s, o, rc))
<1> DEFINE c == [r EXCEPT !.receipt = rc]
           u == [c EXCEPT !.state = "Uncertain", !.lease_until = NULL]
           w == [c EXCEPT !.output = o]
           e == IF r.cancel_requested THEN "Cancelled" ELSE s
           f == Finish(w, e)
           n == [f EXCEPT !.output = NULL,
                          !.state = IF f.state = "Cancelled" THEN f.state ELSE "Failed"]
<1>1. r \in JobRecord /\ RowInv(r) /\ Unfinished(r) /\ ~Final(r) /\ ~Acked(r)
  BY DEF GoodRow, LiveClaim, Unfinished, Final, Acked, UnfinishedStates,
         Waiting, FinalStates, AckedStates
<1>2. /\ c \in JobRecord /\ w \in JobRecord /\ SameControl(r, c) /\ SameControl(r, w)
      /\ r.purged => NoCopies(c)
      /\ c.output = r.output
  BY <1>1, EvidenceFields DEF RowInv, ErasedRow
<1>3. CASE s = "Uncertain"
  <2>1. GoodStep(r, IF r.purged THEN DeleteCopies(u) ELSE u)
    BY UncertainGood DEF LiveClaim
  <2> QED BY <1>3, <2>1 DEF CompleteRow
<1>4. CASE s # "Uncertain" /\ r.purged
  <2>1. GoodStep(r, DeleteCopies(Finish(c, "Purged")))
    <3> HIDE DEF c
    <3> QED BY <1>1, <1>2, <1>4, EndStep DEF FinalStates
  <2> QED BY <1>4, <2>1 DEF CompleteRow
<1>5. CASE s # "Uncertain" /\ ~r.purged
  <2>1. e \in FinalStates /\ (r.cancel_requested => e = "Cancelled")
    BY <1>5 DEF FinalStates
  <2> HIDE DEF e, w
  <2>2. CoreStep(r, f)
    BY <1>1, <1>2, <1>5, <2>1, EndCore
  <2>3. f \in JobRecord /\ RowInv(f) /\ Shaped(f) /\ FieldTypes(f)
    BY <2>2, RecordIsShaped DEF CoreStep, GoodRow
  <2>4. /\ f.state = e /\ f.generation = r.generation
        /\ f.cancel_requested = r.cancel_requested /\ f.purged = r.purged
        /\ f.key = r.key /\ f.digest = r.digest
    BY <1>2, FinishFields DEF SameControl
  <2> HIDE DEF f
  <2>5. Shaped(n)
    BY <2>3, ShapedExcept, Zenon
  <2>6. FieldTypes(n)
    BY <2>3 DEF FieldTypes, JobRecord, JobState, FinalStates
  <2>7. RowInv(n) /\ StableStep(r, n) /\ GrantStep(r, n)
        /\ SameIdentity(r, n) /\ OutputStep(r, n)
    BY <1>1, <1>5, <2>1, <2>3, <2>4
    DEF RowInv, ErasedRow, CancelledRow, RunnableRow, ConfirmedRow,
        RecoverableRow, StoppedRow, NoCopies, Unfinished, Acked, Final,
        UnfinishedStates, Waiting, FinalStates, AckedStates, JobRecord,
        SameIdentity, OutputStep, StableStep, GrantStep
  <2> HIDE DEF n
  <2>8. GoodStep(r, n)
    BY <2>5, <2>6, <2>7, ShapedIsRecord DEF GoodStep, CoreStep, GoodRow
  <2>9. CompleteRow(r, s, o, rc) = IF Undeliverable(f) THEN n ELSE f
    BY <1>5 DEF CompleteRow, f, n, e, w
  <2> QED BY <2>2, <2>8, <2>9 DEF GoodStep, OutputStep
<1> QED BY <1>3, <1>4, <1>5

\* Evidence that nothing was charged returns the job to its queue, unless it
\* was erased, cancelled or has used its last attempt.
LEMMA ZeroChargeGood ==
    ASSUME NEW r, GoodRow(r), now \in Nat, NEW rc \in Receipts,
           r.state \in {"Running", "Uncertain"}
    PROVE  GoodStep(r, ZeroChargeRow(r, rc))
<1> DEFINE z == [r EXCEPT !.receipt = rc, !.lease_until = NULL]
           q == [z EXCEPT !.state = IF r.admission # NULL THEN "AwaitingAdmission"
                                                          ELSE "Pending"]
<1>1. r \in JobRecord /\ RowInv(r) /\ Unfinished(r) /\ Shaped(r) /\ FieldTypes(r)
  BY RecordIsShaped DEF GoodRow, Unfinished, UnfinishedStates
<1>2. /\ z \in JobRecord /\ SameControl(r, z) /\ (r.purged => NoCopies(z))
      /\ z.output = r.output
  BY <1>1, EvidenceFields DEF RowInv, ErasedRow
<1>3. CASE r.purged \/ r.cancel_requested \/ r.generation >= r.max_attempts
  <2> HIDE DEF z
  <2>1. r.purged => GoodStep(r, DeleteCopies(Finish(z, "Purged")))
    BY <1>1, <1>2, EndStep DEF FinalStates
  <2>2. ~r.purged /\ r.cancel_requested => GoodStep(r, DeleteCopies(Finish(z, "Cancelled")))
    BY <1>1, <1>2, EndStep DEF FinalStates
  <2>3. ~r.purged /\ ~r.cancel_requested => GoodStep(r, Finish(z, "Refused"))
    BY <1>1, <1>2, EndStep DEF FinalStates
  <2> QED BY <1>3, <2>1, <2>2, <2>3 DEF ZeroChargeRow, z
<1>4. CASE ~(r.purged \/ r.cancel_requested \/ r.generation >= r.max_attempts)
  <2>1. Shaped(q)
    BY <1>1, ShapedExcept, Zenon
  <2>2. FieldTypes(q)
    BY <1>1 DEF FieldTypes, JobRecord, JobState, UnfinishedStates, Waiting
  <2>3. RowInv(q) /\ StableStep(r, q) /\ GrantStep(r, q)
        /\ SameIdentity(r, q) /\ OutputStep(r, q)
    BY <1>1, <1>4
    DEF RowInv, ErasedRow, CancelledRow, RunnableRow, ConfirmedRow,
        RecoverableRow, StoppedRow, NoCopies, Unfinished, Acked, Final,
        UnfinishedStates, Waiting, FinalStates, AckedStates, JobRecord,
        SameIdentity, OutputStep, StableStep, GrantStep
  <2>4. ZeroChargeRow(r, rc) = q
    BY <1>4 DEF ZeroChargeRow
  <2> HIDE DEF q
  <2> QED BY <2>1, <2>2, <2>3, <2>4, ShapedIsRecord DEF GoodStep, CoreStep, GoodRow
<1> QED BY <1>3, <1>4

\* The end state respects erasure before cancellation, and only an erased
\* row loses its copies.
LEMMA ErasedFinishGood ==
    ASSUME NEW r, GoodRow(r), now \in Nat, Unfinished(r), NEW c \in JobRecord,
           SameControl(r, c), r.purged => NoCopies(c), c.output = r.output,
           NEW s \in FinalStates
    PROVE  GoodStep(r, Erased(Finish(c, EndState(r, s))))
<1> DEFINE e == EndState(r, s)
           f == Finish(c, e)
<1>1. RowInv(r) /\ r.purged \in BOOLEAN
  BY DEF GoodRow, JobRecord
<1>2. /\ e \in FinalStates /\ (r.purged => e = "Purged")
      /\ r.cancel_requested => e \in {"Cancelled", "Purged"}
  BY DEF EndState, FinalStates
<1> HIDE DEF e
<1>3. GoodStep(r, f) /\ GoodStep(r, DeleteCopies(f))
  BY <1>1, <1>2, EndStep
<1> QED BY <1>3 DEF Erased, e

\* Evidence of a paid result finishes the job of the examined generation.
LEMMA PaidGood ==
    ASSUME NEW r, GoodRow(r), now \in Nat, Unfinished(r), NEW rc \in Receipts,
           NEW u \in Nat \cup {NULL}
    PROVE  GoodStep(r, PaidRow(r, rc, u))
<1> DEFINE t == Earlier(r.recovery_until, u)
           p == [r EXCEPT !.receipt = rc, !.recovery_until = t]
<1>1. r \in JobRecord /\ RowInv(r)
  BY DEF GoodRow
<1>2. t \in Nat \cup {NULL}
  BY <1>1 DEF JobRecord, Earlier
<1> HIDE DEF t
<1>3. /\ p \in JobRecord /\ SameControl(r, p) /\ (r.purged => NoCopies(p))
      /\ p.output = r.output
  BY <1>1, <1>2, EvidenceFields DEF RowInv, ErasedRow
<1>4. PaidRow(r, rc, u) = Erased(Finish(p, EndState(r, "Succeeded")))
  BY DEF PaidRow, t
<1> HIDE DEF p
<1> QED BY <1>3, <1>4, ErasedFinishGood DEF FinalStates

\* Evidence of a failed paid attempt finishes the job the same way.
LEMMA FailedGood ==
    ASSUME NEW r, GoodRow(r), now \in Nat, Unfinished(r), NEW rc \in Receipts
    PROVE  GoodStep(r, FailedRow(r, rc))
<1> DEFINE c == [r EXCEPT !.receipt = rc]
<1>1. r \in JobRecord /\ RowInv(r)
  BY DEF GoodRow
<1>2. /\ c \in JobRecord /\ SameControl(r, c) /\ (r.purged => NoCopies(c))
      /\ c.output = r.output
  BY <1>1, EvidenceFields DEF RowInv, ErasedRow
<1>3. FailedRow(r, rc) = Erased(Finish(c, EndState(r, "Failed")))
  BY DEF FailedRow
<1> HIDE DEF c
<1> QED BY <1>2, <1>3, ErasedFinishGood DEF FinalStates

\* An expired result loses its copies and stays final.
LEMMA ExpireGood ==
    ASSUME NEW r, GoodRow(r), now \in Nat, Final(r)
    PROVE  GoodStep(r, Expire(r))
<1> DEFINE n == Expire(r)
<1>1. r \in JobRecord /\ RowInv(r) /\ Shaped(r) /\ FieldTypes(r)
  BY RecordIsShaped DEF GoodRow
<1>2. Shaped(n)
  BY <1>1, ShapedExpire
<1>3. n.result_expired \in BOOLEAN
  BY <1>1 DEF Expire, DeleteCopies, JobRecord
<1>4. FieldTypes(n)
  BY <1>1, <1>3 DEF FieldTypes, JobRecord, Expire, DeleteCopies
<1>5. RowInv(n) /\ StableStep(r, n) /\ GrantStep(r, n)
      /\ SameIdentity(r, n) /\ OutputStep(r, n)
  BY <1>1
  DEF Expire, DeleteCopies, RowInv, ErasedRow, CancelledRow, RunnableRow,
      ConfirmedRow, RecoverableRow, StoppedRow, NoCopies, Unfinished, Acked,
      Final, UnfinishedStates, Waiting, FinalStates, AckedStates, JobRecord,
      SameIdentity, OutputStep, StableStep, GrantStep
<1> HIDE DEF n
<1>6. GoodStep(r, n)
  BY <1>2, <1>4, <1>5, ShapedIsRecord DEF GoodStep, CoreStep, GoodRow
<1> QED BY <1>6 DEF n

\* A delivery is issued from a final row, expired first if it is due.
LEMMA DeliveredGood ==
    ASSUME NEW r, GoodRow(r), now \in Nat, Final(r)
    PROVE  GoodStep(r, DeliveredRow(r))
<1> DEFINE d == IF Past(r.recovery_until) THEN Expire(r) ELSE r
           n == [d EXCEPT !.delivery_generation = d.delivery_generation + 1,
                          !.delivery_until = now + DeliveryLease]
<1>1. /\ GoodRow(d) /\ d.state = r.state /\ d.generation = r.generation
      /\ SameIdentity(r, d) /\ d.output \in {r.output, NULL}
  <2>1. GoodRow(Expire(r))
    BY ExpireGood DEF GoodStep, CoreStep
  <2>2. /\ Expire(r).state = r.state /\ Expire(r).generation = r.generation
        /\ SameIdentity(r, Expire(r)) /\ Expire(r).output = NULL
    BY DEF GoodRow, JobRecord, Expire, DeleteCopies, SameIdentity
  <2> QED BY <2>1, <2>2 DEF SameIdentity
<1>2. d \in JobRecord /\ RowInv(d) /\ Shaped(d) /\ FieldTypes(d)
  BY <1>1, RecordIsShaped DEF GoodRow
<1>3. DeliveredRow(r) = n
  BY DEF DeliveredRow
<1> HIDE DEF d
<1>4. Shaped(n)
  BY <1>2, ShapedExcept, Zenon
<1>5. FieldTypes(n)
  BY <1>2, ConfigAssumption DEF FieldTypes, JobRecord
<1>6. /\ RowInv(n) /\ n.state = r.state /\ n.generation = r.generation
      /\ SameIdentity(r, n) /\ OutputStep(r, n)
  BY <1>1, <1>2, ConfigAssumption
  DEF SameIdentity, OutputStep, RowInv, ErasedRow, CancelledRow, RunnableRow, ConfirmedRow,
      RecoverableRow, StoppedRow, NoCopies, Unfinished, Acked, Final, JobRecord
<1> HIDE DEF n
<1>7. ~Acked(r) /\ r.generation \in Nat
  BY DEF Final, Acked, FinalStates, AckedStates, GoodRow, JobRecord
<1>8. GoodStep(r, n)
  BY <1>4, <1>5, <1>6, <1>7, ShapedIsRecord
  DEF GoodStep, CoreStep, GoodRow, SameIdentity, OutputStep, StableStep, GrantStep
<1> QED BY <1>3, <1>8

\* The first confirmation of an issued delivery leaves a tombstone.
LEMMA TombstoneGood ==
    ASSUME NEW r, GoodRow(r), Final(r), r.delivery_generation > 0,
           NEW d \in AckedStates
    PROVE  GoodStep(r, Tombstone(r, d))
<1>1. r \in JobRecord /\ FieldTypes(r)
  BY RecordIsShaped DEF GoodRow
<1>2. Tombstone(r, d) \in JobRecord
  <2>1. d \in JobState /\ r.state \in FinalStates
    BY DEF JobState, Final
  <2> QED BY <1>1, <2>1 DEF Tombstone, JobRecord, FieldTypes
<1>3. /\ RowInv(Tombstone(r, d)) /\ SameIdentity(r, Tombstone(r, d))
      /\ StableStep(r, Tombstone(r, d)) /\ GrantStep(r, Tombstone(r, d))
      /\ OutputStep(r, Tombstone(r, d))
  BY <1>1
  DEF Tombstone, RowInv, ErasedRow, CancelledRow, RunnableRow,
      ConfirmedRow, RecoverableRow, StoppedRow, NoCopies, Unfinished, Acked,
      Final, UnfinishedStates, Waiting, FinalStates, AckedStates, FieldTypes,
      SameIdentity, OutputStep, StableStep, GrantStep
<1> QED BY <1>2, <1>3 DEF GoodStep, CoreStep, GoodRow

\* Cancellation ends waiting work and only marks work in progress.
LEMMA CancelGood ==
    ASSUME NEW r, GoodRow(r), now \in Nat, Unfinished(r)
    PROVE  GoodStep(r, CancelRow(r))
<1>1. r \in JobRecord /\ RowInv(r) /\ Shaped(r) /\ FieldTypes(r)
  BY RecordIsShaped DEF GoodRow
<1>2. CASE Claimable(r) \/ r.state = "AwaitingAdmission"
  <2>1. SameControl(r, r) /\ (r.purged => NoCopies(r))
    BY <1>1 DEF SameControl, RowInv, ErasedRow
  <2>2. /\ StoppedState(r) \in {"Cancelled", "Purged"}
        /\ r.purged => StoppedState(r) = "Purged"
    BY DEF StoppedState
  <2> QED BY <1>1, <1>2, <2>1, <2>2, EndStep DEF CancelRow, FinalStates
<1>3. CASE ~(Claimable(r) \/ r.state = "AwaitingAdmission")
  <2> DEFINE n == [r EXCEPT !.cancel_requested = TRUE]
  <2>1. Shaped(n)
    BY <1>1, ShapedExcept, Zenon
  <2>2. n.cancel_requested \in BOOLEAN
    BY <1>1 DEF JobRecord
  <2>3. FieldTypes(n)
    BY <1>1, <2>2 DEF FieldTypes, JobRecord
  <2>4. /\ RowInv(n) /\ StableStep(r, n) /\ GrantStep(r, n)
        /\ SameIdentity(r, n) /\ OutputStep(r, n)
    BY <1>1, <1>3
    DEF Claimable, RowInv, ErasedRow, CancelledRow, RunnableRow,
        ConfirmedRow, RecoverableRow, StoppedRow, NoCopies, Unfinished, Acked,
        Final, UnfinishedStates, Waiting, FinalStates, AckedStates, JobRecord,
        SameIdentity, OutputStep, StableStep, GrantStep
  <2>5. CancelRow(r) = n
    BY <1>3 DEF CancelRow
  <2> HIDE DEF n
  <2> QED BY <2>1, <2>3, <2>4, <2>5, ShapedIsRecord DEF GoodStep, CoreStep, GoodRow
<1> QED BY <1>2, <1>3

\* Erasure empties a row and stops it; work in progress keeps its claim.
LEMMA PurgeGood ==
    ASSUME NEW r, GoodRow(r), now \in Nat, ~Acked(r)
    PROVE  GoodStep(r, PurgeRow(r))
<1> DEFINE b == [r EXCEPT !.purged = TRUE, !.owners = {}, !.cancel_requested = TRUE]
           d == DeleteCopies(b)
<1>1. r \in JobRecord /\ RowInv(r) /\ Shaped(r) /\ FieldTypes(r)
  BY RecordIsShaped DEF GoodRow
<1>2. Shaped(d)
  BY <1>1, ShapedExcept, ShapedDeleteCopies, Zenon
<1>3. /\ d.purged /\ d.cancel_requested /\ d.purged \in BOOLEAN /\ d.cancel_requested \in BOOLEAN
      /\ NoCopies(d) /\ d.state = r.state /\ d.generation = r.generation
      /\ d.max_attempts = r.max_attempts /\ d.lease_until = r.lease_until
      /\ d.recovery_until = r.recovery_until /\ d.finished_at = r.finished_at
      /\ d.result_expired = r.result_expired /\ SameIdentity(r, d)
  BY <1>1 DEF DeleteCopies, JobRecord, NoCopies, SameIdentity
<1>4. FieldTypes(d)
  BY <1>1, <1>3 DEF FieldTypes, DeleteCopies, JobRecord
<1>5. PurgeRow(r) = IF Claimable(d) \/ ~(d.state \in {"Running", "Uncertain"} \/ Acked(d))
                    THEN Finish(d, "Purged") ELSE d
  BY DEF PurgeRow
<1> HIDE DEF d
<1>6. d \in JobRecord
  BY <1>2, <1>4, ShapedIsRecord
<1>7. d.generation <= d.max_attempts
  BY <1>1, <1>3 DEF RowInv, RunnableRow
<1>8. CASE Claimable(d) \/ ~(d.state \in {"Running", "Uncertain"} \/ Acked(d))
  <2>1. GoodRow(Finish(d, "Purged"))
    BY <1>3, <1>6, <1>7, FinishGood DEF StoppedRow, FinalStates
  <2>2. LET f == Finish(d, "Purged")
        IN  /\ f.state = "Purged" /\ f.generation = r.generation
            /\ SameIdentity(r, f) /\ OutputStep(r, f)
    BY <1>3, <1>6, FinishFields DEF SameIdentity, OutputStep, NoCopies
  <2> QED BY <1>1, <1>5, <1>8, <2>1, <2>2
      DEF GoodStep, CoreStep, SameIdentity, OutputStep, StableStep, GrantStep, FieldTypes
<1>9. CASE ~(Claimable(d) \/ ~(d.state \in {"Running", "Uncertain"} \/ Acked(d)))
  <2>1. d.state \in {"Running", "Uncertain"}
    BY <1>3, <1>9 DEF Acked
  <2>2. RowInv(d) /\ StableStep(r, d) /\ GrantStep(r, d) /\ OutputStep(r, d)
    BY <1>1, <1>3, <2>1
    DEF RowInv, ErasedRow, CancelledRow, RunnableRow, ConfirmedRow,
        RecoverableRow, StoppedRow, NoCopies, Unfinished, Acked, Final,
        UnfinishedStates, Waiting, FinalStates, AckedStates, FieldTypes,
        SameIdentity, OutputStep, StableStep, GrantStep
  <2> QED BY <1>3, <1>5, <1>6, <1>9, <2>2 DEF GoodStep, CoreStep, GoodRow
<1> QED BY <1>8, <1>9

----------------------------------------------------------------------------
(* From rows to the table.                                                 *)

\* An inserted row: good, without a result, under a key no other row has.
Inserted(i) ==
    /\ jobs[i] = NULL /\ GoodRow(jobs'[i]) /\ jobs'[i].output = NULL
    /\ \A j \in Ids : j # i /\ jobs'[j] # NULL => jobs'[j].key # jobs'[i].key

\* The effect of one transaction: each row is untouched, rewritten by a good
\* step, or freshly inserted.
GoodWrite ==
    /\ jobs' = [i \in Ids |-> jobs'[i]] /\ now' = now
    /\ \A i \in Ids : \/ jobs'[i] = jobs[i]
                      \/ jobs[i] # NULL /\ GoodStep(jobs[i], jobs'[i])
                      \/ Inserted(i)

\* A row is present exactly when it is a record.
LEMMA RowsAreGood ==
    ASSUME IInv, NEW i \in Ids, jobs[i] # NULL PROVE GoodRow(jobs[i])
BY DEF IInv, GoodRow

\* A row that an operation leaves alone makes a legal step.
LEMMA UnchangedStep ==
    ASSUME NEW r \in JobRecord PROVE StableStep(r, r) /\ GrantStep(r, r)
BY DEF SameIdentity, OutputStep, StableStep, GrantStep, JobRecord

\* Inserting a batch.
LEMMA EnqueueWrite ==
    ASSUME IInv, NEW batch \in SUBSET Specs, Enqueue(batch) PROVE GoodWrite
<1> DEFINE newKeys == {k \in {s.key : s \in batch} : RowOfKey(k) = {}}
           Put(I, new) == [i \in Ids |-> IF i \in I THEN NewRow(new[i]) ELSE jobs[i]]
<1>1. PICK I \in SUBSET (Ids \ Rows) : \E new \in [I -> batch] :
          /\ {new[i].key : i \in I} = newKeys
          /\ \A i, j \in I : new[i].key = new[j].key => i = j
          /\ jobs' = Put(I, new)
  BY DEF Enqueue
<1>2. PICK new \in [I -> batch] :
          /\ {new[i].key : i \in I} = newKeys
          /\ \A i, j \in I : new[i].key = new[j].key => i = j
          /\ jobs' = Put(I, new)
  BY <1>1
<1>3. \A i \in I : jobs[i] = NULL /\ new[i] \in Specs /\ i \in Ids
  BY DEF Rows
<1>4. \A i \in I : /\ GoodRow(NewRow(new[i])) /\ NewRow(new[i]).output = NULL
                   /\ NewRow(new[i]).key = new[i].key
  BY <1>3, NewRowGood DEF IInv, NewRow
<1>5. ASSUME NEW i \in I, NEW j \in Ids, j # i, jobs'[j] # NULL
      PROVE  jobs'[j].key # jobs'[i].key
  <2>1. jobs'[i].key = new[i].key /\ new[i].key \in newKeys
    BY <1>2, <1>3, <1>4
  <2>2. CASE j \in I
    BY <1>2, <1>4, <1>5, <2>1, <2>2
  <2>3. CASE j \notin I
    <3>1. jobs'[j] = jobs[j] /\ j \in Rows
      BY <1>2, <1>5, <2>3 DEF Rows
    <3>2. j \notin RowOfKey(new[i].key)
      BY <2>1
    <3> QED BY <2>1, <3>1, <3>2 DEF RowOfKey
  <2> QED BY <2>2, <2>3
<1>6. \A i \in I : Inserted(i)
  BY <1>2, <1>3, <1>4, <1>5 DEF Inserted
<1> QED BY <1>2, <1>6 DEF GoodWrite, Enqueue

\* A claim, granted or not.
LEMMA ClaimWrite ==
    ASSUME IInv, ClaimStep PROVE GoodWrite
<1>1. now \in Nat
  BY DEF IInv
<1>2. ASSUME NEW i \in Rows, Claimable(jobs[i])
      PROVE  /\ jobs[i] # NULL /\ i \in Ids
             /\ Grantable(jobs[i]) => GoodStep(jobs[i], Lease(jobs[i]))
             /\ \A rc \in Receipts : Grantable(jobs[i]) =>
                   GoodStep(jobs[i], [Lease(jobs[i]) EXCEPT !.receipt = rc])
             /\ ~Grantable(jobs[i]) => GoodStep(jobs[i], EndUnclaimed(jobs[i]))
  BY <1>1, <1>2, RowsAreGood, LeaseGood, LeasePaidGood, EndUnclaimedGood DEF Rows
<1>3. \A kinds : \A i \in ClaimPage(kinds) : i \in Rows /\ Claimable(jobs[i])
  BY DEF ClaimPage, FirstBy, PendingRows
<1>4. ASSUME NEW kinds, ClaimNone(kinds) PROVE GoodWrite
  <2>1. \A i \in ClaimPage(kinds) : jobs[i] # NULL /\ GoodStep(jobs[i], EndUnclaimed(jobs[i]))
    BY <1>2, <1>3, <1>4 DEF ClaimNone
  <2> QED BY <1>4, <2>1 DEF ClaimNone, GoodWrite
<1>5. ASSUME NEW kinds, NEW c \in Ids, ClaimGranted(kinds, c) PROVE GoodWrite
  <2> DEFINE passed == {i \in ClaimPage(kinds) : Before(CreatedAt, i, c)}
  <2>1. c \in ClaimPage(kinds) /\ Grantable(jobs[c])
    BY <1>5 DEF ClaimGranted
  <2>2. \A i \in passed : ~Grantable(jobs[i])
    BY <1>5 DEF ClaimGranted
  <2>3. \A i \in passed : i \in ClaimPage(kinds)
    OBVIOUS
  <2>4. /\ now' = now
        /\ jobs' = [i \in Ids |-> IF i = c THEN Lease(jobs[i])
                                  ELSE IF i \in passed THEN EndUnclaimed(jobs[i])
                                  ELSE jobs[i]]
    BY <1>5 DEF ClaimGranted
  <2> HIDE DEF passed
  <2>5. jobs[c] # NULL /\ GoodStep(jobs[c], Lease(jobs[c]))
    BY <1>2, <1>3, <2>1
  <2>6. \A i \in passed : jobs[i] # NULL /\ GoodStep(jobs[i], EndUnclaimed(jobs[i]))
    BY <1>2, <1>3, <2>2, <2>3
  <2> QED BY <2>4, <2>5, <2>6 DEF GoodWrite
<1>6. ASSUME NEW i \in Ids, ClaimJob(i) PROVE GoodWrite
  BY <1>2, <1>6 DEF ClaimJob, GoodWrite, IInv
<1>7. ASSUME NEW i \in Ids, NEW rc \in Receipts, ClaimPaid(i, rc) PROVE GoodWrite
  BY <1>2, <1>7 DEF ClaimPaid, GoodWrite, IInv
<1> QED BY <1>4, <1>5, <1>6, <1>7 DEF ClaimStep

\* An operation that rewrites one row.
LEMMA RowWrite ==
    ASSUME IInv, NEW i \in Rows, NEW n, GoodStep(jobs[i], n),
           jobs' = [jobs EXCEPT ![i] = n], now' = now
    PROVE  GoodWrite
BY DEF GoodWrite, IInv, Rows

\* Awaiting, renewing or refusing admission rewrites one row well.
LEMMA AdmissionWrite ==
    ASSUME IInv, AdmissionStep PROVE GoodWrite
<1>1. now \in Nat /\ \A i \in Rows : GoodRow(jobs[i])
  BY RowsAreGood DEF IInv, Rows
<1>2. ASSUME NEW i \in Ids, AwaitAdmission(i) PROVE GoodWrite
  <2>1. GoodStep(jobs[i], [jobs[i] EXCEPT !.state = "AwaitingAdmission"])
    BY <1>1, <1>2, AwaitGood DEF AwaitAdmission
  <2> QED BY <1>2, <2>1, RowWrite DEF AwaitAdmission
<1>3. ASSUME NEW i \in Ids, RefusePending(i) PROVE GoodWrite
  <2>1. GoodStep(jobs[i], Finish(jobs[i], "Refused"))
    BY <1>1, <1>3, RefuseGood DEF RefusePending
  <2> QED BY <1>3, <2>1, RowWrite DEF RefusePending
<1>4. ASSUME NEW i \in Ids, NEW a \in Admissions, Admit(i, a) PROVE GoodWrite
  <2>1. GoodStep(jobs[i], AdmitRow(jobs[i], a))
    BY <1>1, <1>4, AdmitGood DEF Admit
  <2> QED BY <1>4, <2>1, RowWrite DEF Admit
<1> QED BY <1>2, <1>3, <1>4 DEF AdmissionStep

\* A heartbeat or a completion rewrites one row well.
LEMMA WorkerWrite ==
    ASSUME IInv, WorkerStep PROVE GoodWrite
<1>1. now \in Nat /\ \A i \in Rows : GoodRow(jobs[i])
  BY RowsAreGood DEF IInv, Rows
<1>2. ASSUME NEW i \in Ids, NEW g, Heartbeat(i, g) PROVE GoodWrite
  <2>1. GoodStep(jobs[i], [jobs[i] EXCEPT !.lease_until = now + ClaimLease])
    BY <1>1, <1>2, HeartbeatGood DEF Heartbeat
  <2> QED BY <1>2, <2>1, RowWrite DEF Heartbeat
<1>3. ASSUME NEW i \in Ids, NEW g, NEW s, NEW o \in Outputs \cup {NULL},
             NEW rc \in Receipts \cup {NULL}, Complete(i, g, s, o, rc)
      PROVE  GoodWrite
  <2>1. GoodStep(jobs[i], CompleteRow(jobs[i], s, o, rc))
    BY <1>1, <1>3, CompleteGood DEF Complete
  <2> QED BY <1>3, <2>1, RowWrite DEF Complete
<1> QED BY <1>2, <1>3 DEF WorkerStep

\* Ledger evidence rewrites one row well.
LEMMA ResolveWrite ==
    ASSUME IInv, ResolveStep PROVE GoodWrite
<1>1. now \in Nat /\ \A i \in Rows : GoodRow(jobs[i])
  BY RowsAreGood DEF IInv, Rows
<1>2. ASSUME NEW i \in Ids, NEW g, NEW rc \in Receipts, ResolveUncertain(i, g, rc)
      PROVE  GoodWrite
  <2>1. GoodStep(jobs[i], UncertainRow(jobs[i], rc))
    <3> DEFINE r == jobs[i]
               u == [r EXCEPT !.receipt = rc, !.state = "Uncertain", !.lease_until = NULL]
    <3>1. GoodRow(r) /\ r.state \in {"Running", "Uncertain"}
      BY <1>1, <1>2 DEF ResolveUncertain, Resolvable
    <3>2. GoodStep(r, IF r.purged THEN DeleteCopies(u) ELSE u)
      BY <1>1, <3>1, UncertainGood
    <3>3. u.purged = r.purged
      BY <3>1 DEF GoodRow, JobRecord
    <3> QED BY <3>2, <3>3 DEF UncertainRow, Erased
  <2> QED BY <1>2, <2>1, RowWrite DEF ResolveUncertain, Resolvable
<1>3. ASSUME NEW i \in Ids, NEW g, NEW rc \in Receipts, ResolveKnownZeroCharge(i, g, rc)
      PROVE  GoodWrite
  <2>1. GoodStep(jobs[i], ZeroChargeRow(jobs[i], rc))
    BY <1>1, <1>3, ZeroChargeGood DEF ResolveKnownZeroCharge, Resolvable
  <2> QED BY <1>3, <2>1, RowWrite DEF ResolveKnownZeroCharge, Resolvable
<1>4. ASSUME NEW i \in Ids, NEW g, NEW rc \in Receipts, ResolveFailed(i, g, rc)
      PROVE  GoodWrite
  <2>1. GoodStep(jobs[i], FailedRow(jobs[i], rc))
    BY <1>1, <1>4, FailedGood DEF ResolveFailed, Resolvable
  <2> QED BY <1>4, <2>1, RowWrite DEF ResolveFailed, Resolvable
<1>5. ASSUME NEW i \in Ids, NEW g, NEW rc \in Receipts, NEW u \in {NULL, now},
             ResolvePaidResult(i, g, rc, u)
      PROVE  GoodWrite
  <2>1. GoodStep(jobs[i], PaidRow(jobs[i], rc, u))
    BY <1>1, <1>5, PaidGood DEF ResolvePaidResult, Resolvable
  <2> QED BY <1>5, <2>1, RowWrite DEF ResolvePaidResult, Resolvable
<1> QED BY <1>2, <1>3, <1>4, <1>5 DEF ResolveStep

\* An operation that rewrites every row of a set.
LEMMA ConsumerWrite ==
    ASSUME IInv, ConsumerStep PROVE GoodWrite
<1>1. now \in Nat /\ \A i \in Rows : i \in Ids /\ jobs[i] # NULL /\ GoodRow(jobs[i])
  BY RowsAreGood DEF IInv, Rows
<1>2. ASSUME NEW limit, NEW max, Completions(limit, max) PROVE GoodWrite
  <2>1. \A i \in DeliveryPage(limit, max) : i \in Rows /\ Final(jobs[i])
    BY DEF DeliveryPage, FittingPage, DeliveryCandidates, FirstBy, Offered
  <2>2. \A i \in DeliveryPage(limit, max) :
            jobs[i] # NULL /\ GoodStep(jobs[i], DeliveredRow(jobs[i]))
    BY <1>1, <2>1, DeliveredGood
  <2> QED BY <1>2, <2>2 DEF Completions, GoodWrite
<1>3. ASSUME NEW I \in SUBSET Rows, NEW token \in [I -> 0..MaxToken],
             NEW disposition \in [I -> AckedStates], Ack(token, disposition)
      PROVE  GoodWrite
  <2>1. ASSUME NEW i \in I, ~Acked(jobs[i])
        PROVE  jobs[i] # NULL /\ GoodStep(jobs[i], Tombstone(jobs[i], disposition[i]))
    <3>1. GoodRow(jobs[i]) /\ jobs[i].state \in JobState /\ jobs[i].delivery_generation \in Nat
      BY <1>1 DEF GoodRow, JobRecord
    <3>2. Final(jobs[i])
      BY <1>3, <2>1, <3>1 DEF Ack, Final, Acked, Unfinished, JobState
    <3>3. jobs[i].delivery_generation > 0
      BY <1>3, <3>1, ConfigAssumption DEF Ack
    <3> QED BY <1>1, <3>1, <3>2, <3>3, TombstoneGood
  <2> QED BY <1>3, <2>1 DEF Ack, GoodWrite
<1>4. ASSUME NEW S \in SUBSET Rows, CancelRows(S), now' = now PROVE GoodWrite
  <2>1. \A i \in S : Unfinished(jobs[i]) =>
            jobs[i] # NULL /\ GoodStep(jobs[i], CancelRow(jobs[i]))
    BY <1>1, CancelGood
  <2> QED BY <1>4, <2>1 DEF CancelRows, GoodWrite
<1>5. ASSUME NEW owner, PurgeOwner(owner) PROVE GoodWrite
  <2>1. \A i \in OwnedBy(owner) : i \in Rows /\ ~Acked(jobs[i])
    BY <1>1 DEF OwnedBy, GoodRow, RowInv, ConfirmedRow
  <2>2. \A i \in OwnedBy(owner) : jobs[i] # NULL /\ GoodStep(jobs[i], PurgeRow(jobs[i]))
    BY <1>1, <2>1, PurgeGood
  <2> QED BY <1>5, <2>2 DEF PurgeOwner, GoodWrite
<1>6. ASSUME NEW S \in SUBSET Rows, CancelIds(S) PROVE GoodWrite
  BY <1>4, <1>6 DEF CancelIds
<1>7. ASSUME NEW group, CancelGroup(group) PROVE GoodWrite
  <2>1. {i \in Rows : jobs[i].group = group} \in SUBSET Rows
    OBVIOUS
  <2> QED BY <1>4, <1>7, <2>1 DEF CancelGroup
<1> QED BY <1>2, <1>3, <1>5, <1>6, <1>7 DEF ConsumerStep

\* A maintenance pass rewrites only expired final rows, and well.
LEMMA MaintainWrite ==
    ASSUME IInv, Maintain PROVE GoodWrite
<1>1. \A i \in MaintenancePass : i \in Rows /\ Final(jobs[i])
  BY DEF MaintenancePass, ExpiredRows, FirstBy
<1>2. \A i \in MaintenancePass : jobs[i] # NULL /\ GoodStep(jobs[i], Expire(jobs[i]))
  BY <1>1, RowsAreGood, ExpireGood DEF IInv, Rows
<1> QED BY <1>2 DEF Maintain, GoodWrite

----------------------------------------------------------------------------
(* The invariant and the theorems.                                         *)

\* An empty table satisfies the row invariant.
LEMMA InitIInv == Init => IInv
BY ConfigAssumption DEF Init, IInv

\* Every step is a good write, a tick of the clock, or a stutter.
LEMMA NextWrite ==
    ASSUME IInv, [Next]_vars
    PROVE  GoodWrite \/ (jobs' = jobs /\ now' \in Nat /\ now' <= MaxTime)
<1>1. ASSUME NEW batch \in SUBSET Specs, Enqueue(batch) PROVE GoodWrite
  BY <1>1, EnqueueWrite
<1>2. CASE ClaimStep BY <1>2, ClaimWrite
<1>3. CASE AdmissionStep BY <1>3, AdmissionWrite
<1>4. CASE WorkerStep BY <1>4, WorkerWrite
<1>5. CASE ResolveStep BY <1>5, ResolveWrite
<1>6. CASE ConsumerStep BY <1>6, ConsumerWrite
<1>7. CASE Maintain BY <1>7, MaintainWrite
<1>8. CASE Tick BY <1>8, ConfigAssumption DEF Tick, IInv
<1>9. CASE UNCHANGED vars BY <1>9 DEF vars, IInv
<1> QED BY <1>1, <1>2, <1>3, <1>4, <1>5, <1>6, <1>7, <1>8, <1>9 DEF Next

\* Every operation preserves the row invariant.
LEMMA NextIInv == IInv /\ [Next]_vars => IInv'
<1> SUFFICES ASSUME IInv, [Next]_vars PROVE IInv'
  OBVIOUS
<1>1. CASE GoodWrite
  <2>1. ASSUME NEW i \in Ids
        PROVE  /\ jobs'[i] \in JobRecord \cup {NULL}
               /\ jobs'[i] # NULL => RowInv(jobs'[i]) /\ ~Undeliverable(jobs'[i])
    <3>1. CASE jobs'[i] = jobs[i]
      BY <3>1 DEF IInv
    <3>2. CASE jobs[i] # NULL /\ GoodStep(jobs[i], jobs'[i])
      BY <3>2 DEF GoodStep, CoreStep, GoodRow, OutputStep, IInv, Undeliverable,
         DeliveryBytes, Encoded
    <3>3. CASE Inserted(i)
      BY <3>3 DEF Inserted, GoodRow, Undeliverable
    <3> QED BY <1>1, <3>1, <3>2, <3>3 DEF GoodWrite
  <2>2. jobs' \in [Ids -> JobRecord \cup {NULL}]
    BY <1>1, <2>1 DEF GoodWrite
  <2> QED BY <1>1, <2>1, <2>2 DEF IInv, GoodWrite
<1>2. CASE jobs' = jobs /\ now' \in Nat /\ now' <= MaxTime
  BY <1>2 DEF IInv, Undeliverable, DeliveryBytes, Encoded
<1> QED BY <1>1, <1>2, NextWrite

\* Every operation makes only legal row steps.
LEMMA NextSteps ==
    ASSUME IInv, [Next]_vars, NEW i \in Rows
    PROVE  StableStep(jobs[i], jobs'[i]) /\ GrantStep(jobs[i], jobs'[i])
<1>1. jobs[i] \in JobRecord /\ jobs[i] # NULL /\ i \in Ids
  BY DEF Rows, IInv
<1>2. StableStep(jobs[i], jobs[i]) /\ GrantStep(jobs[i], jobs[i])
  BY <1>1, UnchangedStep
<1> QED BY <1>1, <1>2, NextWrite DEF GoodWrite, Inserted, GoodStep, CoreStep

\* Rows keep their keys and an inserted key is new.
LEMMA NextKeyUnique ==
    ASSUME IInv, KeyUnique, [Next]_vars PROVE KeyUnique'
<1>1. CASE GoodWrite
  <2> SUFFICES ASSUME NEW i \in Ids, NEW j \in Ids, jobs'[i] # NULL, jobs'[j] # NULL,
                      jobs'[i].key = jobs'[j].key
               PROVE  i = j
    BY DEF KeyUnique, Rows
  <2>1. CASE Inserted(i) \/ Inserted(j)
    BY <2>1 DEF Inserted
  <2>2. CASE ~Inserted(i) /\ ~Inserted(j)
    <3>1. /\ jobs[i] # NULL /\ jobs'[i].key = jobs[i].key
          /\ jobs[j] # NULL /\ jobs'[j].key = jobs[j].key
      BY <1>1, <2>2 DEF GoodWrite, GoodStep, CoreStep, SameIdentity
    <3> QED BY <3>1 DEF KeyUnique, Rows
  <2> QED BY <2>1, <2>2
<1>2. CASE jobs' = jobs
  BY <1>2 DEF KeyUnique, Rows
<1> QED BY <1>1, <1>2, NextWrite

\* The row invariant holds in every reachable state of the store.
THEOREM StoreInvariant == Spec => []IInv
BY InitIInv, NextIInv, PTL DEF Spec

\* Every reachable store is well typed.
THEOREM TypeCorrect == Spec => []TypeOK
<1>1. IInv => TypeOK
  BY DEF IInv, TypeOK
<1> QED BY <1>1, StoreInvariant, PTL

\* No operation, late worker or ledger evidence ever restores a copy to an
\* erased row, or lets it end other than Purged.
THEOREM ErasureIsComplete == Spec => []ErasureComplete
<1>1. IInv => ErasureComplete
  BY DEF IInv, ErasureComplete, Rows, RowInv
<1> QED BY <1>1, StoreInvariant, PTL

\* A cancelled job never ends with a result state.
THEOREM CancellationWins == Spec => []CancelWins
<1>1. IInv => CancelWins
  BY DEF IInv, CancelWins, Rows, RowInv
<1> QED BY <1>1, StoreInvariant, PTL

\* A claim always carries its payload and never exceeds max_attempts.
THEOREM ClaimsCarryPayload == Spec => []ClaimCarriesPayload
<1>1. IInv => ClaimCarriesPayload
  BY DEF IInv, ClaimCarriesPayload, Rows, RowInv
<1> QED BY <1>1, StoreInvariant, PTL

\* Confirmed rows were delivered, and are content-free tombstones.
THEOREM ConfirmationsWereDelivered == Spec => []ConfirmedWasDelivered
<1>1. IInv => ConfirmedWasDelivered
  BY DEF IInv, ConfirmedWasDelivered, Rows, RowInv
<1> QED BY <1>1, StoreInvariant, PTL

\* Final rows carry what expiry and delivery need.
THEOREM FinalRowsRecoverable == Spec => []FinalRecoverable
<1>1. IInv => FinalRecoverable
  BY DEF IInv, FinalRecoverable, Rows, RowInv
<1> QED BY <1>1, StoreInvariant, PTL

\* Finished jobs stay finished and the first confirmation is for ever.
THEOREM FinishedJobsStable == Spec => FinishedStable
<1>1. IInv /\ [Next]_vars => [\A i \in Rows : StableStep(jobs[i], jobs'[i])]_vars
  BY NextSteps
<1> QED BY <1>1, StoreInvariant, PTL DEF Spec, FinishedStable

\* No claim is granted on stopped work, and no paid attempt is repeated.
THEOREM ClaimsAreAllowed == Spec => NoForbiddenClaim
<1>1. IInv /\ [Next]_vars => [\A i \in Rows : GrantStep(jobs[i], jobs'[i])]_vars
  BY NextSteps
<1> QED BY <1>1, StoreInvariant, PTL DEF Spec, NoForbiddenClaim

\* A row measured with the widest encodings fits whatever its next delivery is:
\* expiry only takes the result away, and the ordinal and the lease that the
\* delivery writes are no wider than the ones measured.
LEMMA MeasuredIsDeliverable ==
    ASSUME NEW r \in JobRecord, ~Undeliverable(r), now \in Nat, now <= MaxTime
    PROVE  DeliverableRow(r)
<1> SUFFICES ASSUME r.output # NULL, r.delivery_generation < MaxOrdinal
             PROVE  DeliveredBytes(DeliveredRow(r)) + 2 <= MaxPageBytes
  BY DEF DeliverableRow
<1> DEFINE d == DeliveredRow(r)
           ordinal == OrdinalBytes(d.delivery_generation)
           lease == LeaseBytes(d.delivery_until)
<1>1. /\ d.output \in {r.output, NULL}
      /\ d.delivery_generation = r.delivery_generation + 1
      /\ d.delivery_until = now + DeliveryLease
  BY DEF DeliveredRow, Expire, DeleteCopies, JobRecord
<1>2. ordinal \in 0..WidestOrdinal
  <2>1. r.delivery_generation + 1 \in 1..(MaxOrdinal + 1)
    BY ConfigAssumption DEF JobRecord
  <2> QED BY <1>1, <2>1, SizeAssumption
<1>3. lease \in 0..WidestLease
  <2>1. now + DeliveryLease \in 0..(MaxTime + DeliveryLease)
    BY ConfigAssumption
  <2> QED BY <1>1, <2>1, SizeAssumption
<1>4. Encoded(r.output) \in Nat /\ Encoded(d.output) \in Nat
      /\ Encoded(d.output) <= Encoded(r.output)
  BY <1>1, SizeAssumption DEF Encoded, JobRecord
<1>5. MetaBytes + Encoded(r.output) + 2 * WidestOrdinal + WidestLease + 2 <= MaxPageBytes
  BY <1>4, ConfigAssumption DEF Undeliverable, DeliveryBytes
<1>6. DeliveredBytes(d) = MetaBytes + Encoded(d.output) + 2 * ordinal + lease
  BY DEF DeliveredBytes, DeliveryBytes
<1> HIDE DEF ordinal, lease
<1> QED BY <1>2, <1>3, <1>4, <1>5, <1>6, ConfigAssumption

\* A result that was accepted fits a completion page of its own at every later
\* delivery, for every page limit and every width of ordinals and leases.
THEOREM StoredResultsDeliverable == Spec => []ResultsDeliverable
<1>1. IInv => ResultsDeliverable
  BY MeasuredIsDeliverable, NullAssumption DEF IInv, ResultsDeliverable, Rows
<1> QED BY <1>1, StoreInvariant, PTL

\* An idempotency key names one row for ever, confirmed rows included.
THEOREM KeysAreUnique == Spec => []KeyUnique
<1>1. Init => KeyUnique
  BY DEF Init, KeyUnique, Rows
<1>2. IInv /\ KeyUnique /\ [Next]_vars => KeyUnique'
  BY NextKeyUnique
<1> QED BY <1>1, <1>2, StoreInvariant, PTL DEF Spec

----------------------------------------------------------------------------
(* The runner.                                                             *)

\* A row under the runner, which never confirms a delivery.
FencedRow(r) ==
    /\ ~Acked(r) /\ r.max_attempts <= MaxToken
    /\ r.output # NULL => Final(r) /\ r.output = r.generation

Executes(w) == worker[w].pc \in Executing
Claimed(w) == jobs[worker[w].job]

\* The inductive invariant.
RunnerInv ==
    /\ IInv
    /\ worker \in [Workers -> Worker] /\ maint \in {"loop", "ended", "failed"}
    /\ {stop, failed, up} \subseteq BOOLEAN /\ joined \subseteq Tasks
    /\ entered \in [Ids -> Nat]
    /\ faults \in Nat /\ crashes \in Nat /\ faults + crashes <= MaxTroubles
    /\ starts \in 0..MaxStarts
    /\ \A i \in Ids : jobs[i] # NULL => FencedRow(jobs[i])
    /\ \A i \in Ids : entered[i] <= IF jobs[i] = NULL THEN 0 ELSE jobs[i].generation
    /\ \A w \in Workers : Executes(w) =>
          /\ worker[w].job \in Ids /\ Claimed(w) # NULL
          /\ worker[w].gen \in 1..Claimed(w).generation
    /\ \A v, w \in Workers : Executes(v) /\ Executes(w) /\ worker[v].job = worker[w].job
          /\ worker[v].gen = worker[w].gen => v = w

----------------------------------------------------------------------------
(* What a store operation does to the generation and the result of a row.  *)

FenceStep(r, n) ==
    /\ n # NULL /\ n.max_attempts = r.max_attempts /\ ~Acked(n)
    /\ \/ n.generation = r.generation /\ n.output \in {r.output, NULL}
       \/ n.generation = r.generation /\ n.output = r.generation /\ Final(n)
       \/ n.generation = r.generation + 1 /\ n.output = r.output /\ Unfinished(r)

\* A row of the store's invariant is a job record.
LEMMA GoodIsRow == ASSUME NEW r, GoodRow(r) PROVE r # NULL /\ r \in JobRecord
BY NullAssumption DEF GoodRow

\* A claim that grants a lease starts the next generation, with no result stored yet.
LEMMA FenceLease ==
    ASSUME NEW r, GoodRow(r), Claimable(r), Lease(r) # NULL
    PROVE  FenceStep(r, Lease(r)) /\ Lease(r).generation = r.generation + 1
BY DEF GoodRow, Lease, Claimable, JobRecord, FenceStep, Acked, AckedStates, Unfinished, UnfinishedStates,
       Waiting

\* Ending a job whose attempts or charge forbid a grant stores no result.
LEMMA FenceEnd ==
    ASSUME NEW r, GoodRow(r), now \in Nat, Claimable(r), ~Grantable(r)
    PROVE  FenceStep(r, EndUnclaimed(r))
<1>0. EndUnclaimed(r) # NULL
  BY EndUnclaimedGood, GoodIsRow DEF GoodStep, CoreStep
<1>1. r \in JobRecord BY DEF GoodRow
<1>2. StoppedState(r) \in FinalStates /\ "Refused" \in FinalStates
  BY DEF StoppedState, FinalStates
<1>3. ASSUME NEW s \in FinalStates
      PROVE  LET f == Finish(r, s) d == DeleteCopies(f)
             IN  /\ f.max_attempts = r.max_attempts /\ f.generation = r.generation
                 /\ f.output \in {r.output, NULL} /\ ~Acked(f)
                 /\ d.max_attempts = f.max_attempts /\ d.generation = f.generation
                 /\ d.output = NULL /\ d.state = f.state
  <2>1. Finish(r, s).state = s BY <1>1, FinishFields
  <2>2. ~Acked(Finish(r, s)) BY <2>1 DEF Acked, AckedStates, FinalStates
  <2> QED BY <1>1, <2>2, FinishFields DEF NoCopies, DeleteCopies, Finish, Expire, JobRecord
<1> QED BY <1>0, <1>2, <1>3 DEF EndUnclaimed, FenceStep, Acked

\* A heartbeat only moves the lease's end.
LEMMA FenceHeartbeat ==
    ASSUME NEW r, GoodRow(r), now \in Nat, NEW g, LiveClaim(r, g)
    PROVE  FenceStep(r, [r EXCEPT !.lease_until = now + ClaimLease])
<1>1. [r EXCEPT !.lease_until = now + ClaimLease] # NULL
  BY HeartbeatGood, GoodIsRow DEF GoodStep, CoreStep
<1> QED BY <1>1 DEF GoodRow, JobRecord, FenceStep, LiveClaim, Acked, AckedStates

\* Expiring a final row takes its copies and keeps its generation.
LEMMA FenceExpire ==
    ASSUME NEW r, GoodRow(r), now \in Nat, Final(r) PROVE FenceStep(r, Expire(r))
<1>1. Expire(r) # NULL
  BY ExpireGood, GoodIsRow DEF GoodStep, CoreStep
<1> QED BY <1>1 DEF GoodRow, JobRecord, FenceStep, Expire, DeleteCopies, Final, Acked, AckedStates,
        FinalStates

\* Completing under a live claim stores the result of that claim's generation.
LEMMA FenceComplete ==
    ASSUME NEW r, GoodRow(r), now \in Nat, NEW g, LiveClaim(r, g),
           NEW s \in {"Succeeded", "Failed"}, NEW o \in Outputs \cup {NULL}, o \in {g, NULL}
    PROVE  FenceStep(r, CompleteRow(r, s, o, NULL))
<1> DEFINE n == CompleteRow(r, s, o, NULL)
           c == [r EXCEPT !.receipt = NULL]
           w == [c EXCEPT !.output = o]
           e == IF r.cancel_requested THEN "Cancelled" ELSE s
           f == Finish(w, e)
           d == DeleteCopies(Finish(c, "Purged"))
           u == [f EXCEPT !.output = NULL,
                          !.state = IF f.state = "Cancelled" THEN f.state ELSE "Failed"]
<1>1. n # NULL
  BY CompleteGood, GoodIsRow DEF GoodStep, CoreStep
<1>2. /\ c \in JobRecord /\ w \in JobRecord /\ SameControl(r, c) /\ SameControl(r, w)
      /\ w.output = o /\ r.generation = g
  <2>1. r \in JobRecord BY DEF GoodRow
  <2>2. w.output = o BY <2>1 DEF JobRecord
  <2> QED BY <2>1, <2>2, EvidenceFields DEF LiveClaim
<1>3. n = IF r.purged THEN d ELSE IF Undeliverable(f) THEN u ELSE f
  BY DEF CompleteRow
<1>4. e \in FinalStates /\ e # "Uncertain" BY DEF FinalStates
<1> HIDE DEF n, c, w, e
<1>5. /\ f.state = e /\ f.generation = g /\ f.max_attempts = r.max_attempts
      /\ f.output \in {o, NULL}
  BY <1>2, FinishFields DEF SameControl, NoCopies
<1>6. /\ d.state = "Purged" /\ d.generation = g /\ d.max_attempts = r.max_attempts
      /\ d.output = NULL
  BY <1>2 DEF SameControl, DeleteCopies, Finish, Expire, JobRecord
<1>7. /\ u.state \in FinalStates /\ u.generation = g /\ u.max_attempts = r.max_attempts
      /\ u.output = NULL
  <2>1. f = [x \in DOMAIN f |-> f[x]] /\ {"state", "output", "generation", "max_attempts"} \subseteq DOMAIN f
    BY <1>2 DEF Finish, Expire, DeleteCopies, JobRecord
  <2> HIDE DEF f
  <2> QED BY <1>5, <2>1 DEF FinalStates
<1> HIDE DEF d, f, u
<1>8. /\ n.state \in FinalStates /\ n.generation = g /\ n.max_attempts = r.max_attempts
      /\ n.output \in {g, NULL}
  BY <1>3, <1>4, <1>5, <1>6, <1>7 DEF FinalStates
<1>9. Final(n) /\ ~Acked(n) BY <1>8 DEF Final, Acked, AckedStates, FinalStates
<1>10. FenceStep(r, n) BY <1>1, <1>2, <1>8, <1>9 DEF FenceStep
<1> QED BY <1>10 DEF n

\* Cancelling keeps the generation and stores no result.
LEMMA FenceCancel ==
    ASSUME NEW r, GoodRow(r), now \in Nat, Unfinished(r), ~Acked(r) PROVE FenceStep(r, CancelRow(r))
<1>1. CancelRow(r) # NULL
  BY CancelGood, GoodIsRow DEF GoodStep, CoreStep
<1>2. StoppedState(r) \in FinalStates BY DEF StoppedState, FinalStates
<1> QED BY <1>1, <1>2 DEF GoodRow, JobRecord, FenceStep, CancelRow, DeleteCopies, Finish, Expire, Acked,
        AckedStates, FinalStates

\* Erasing keeps the generation and leaves no result.
LEMMA FencePurge ==
    ASSUME NEW r, GoodRow(r), now \in Nat, ~Acked(r) PROVE FenceStep(r, PurgeRow(r))
<1>1. PurgeRow(r) # NULL
  BY PurgeGood, GoodIsRow DEF GoodStep, CoreStep
<1> QED BY <1>1 DEF GoodRow, JobRecord, FenceStep, PurgeRow, DeleteCopies, Finish, Expire, Acked,
        AckedStates

----------------------------------------------------------------------------
(* What a runner's step does to the table.                                 *)

NewFencedRow(n) == n # NULL /\ n.generation = 0 /\ FencedRow(n)
FenceWrite ==
    /\ [Next]_vars
    /\ \A i \in Ids : \/ jobs'[i] = jobs[i]
                      \/ jobs[i] = NULL /\ NewFencedRow(jobs'[i])
                      \/ jobs[i] # NULL /\ FenceStep(jobs[i], jobs'[i])

\* What the invariant gives for each row: it is good, fenced and, under the runner, never confirmed.
LEMMA InvRows ==
    ASSUME RunnerInv
    PROVE  /\ IInv /\ now \in Nat
           /\ \A i \in Rows : /\ i \in Ids /\ jobs[i] # NULL /\ GoodRow(jobs[i]) /\ FencedRow(jobs[i])
                              /\ ~Acked(jobs[i])
BY RowsAreGood DEF RunnerInv, IInv, Rows, FencedRow

\* A worker's step that leaves the store alone is a fenced write.
LEMMA NoWrite == ASSUME UNCHANGED <<jobs, now>> PROVE FenceWrite
BY DEF FenceWrite, vars

\* An enqueued batch adds rows of generation zero with no result.
LEMMA EnqueueFence ==
    ASSUME RunnerInv, NEW batch \in SUBSET Specs, Enqueue(batch) PROVE FenceWrite
<1>1. PICK I \in SUBSET (Ids \ Rows) : \E new \in [I -> batch] :
          jobs' = [i \in Ids |-> IF i \in I THEN NewRow(new[i]) ELSE jobs[i]]
  BY DEF Enqueue
<1>2. PICK new \in [I -> batch] :
          jobs' = [i \in Ids |-> IF i \in I THEN NewRow(new[i]) ELSE jobs[i]]
  BY <1>1
<1>3. ASSUME NEW i \in I PROVE jobs[i] = NULL /\ NewFencedRow(NewRow(new[i]))
  <2>1. new[i] \in Specs /\ jobs[i] = NULL BY DEF Rows
  <2>2. NewRow(new[i]) # NULL BY <2>1, InvRows, NewRowGood, GoodIsRow
  <2> QED BY <2>1, <2>2, RunnerAssumption DEF NewFencedRow, NewRow, FencedRow, Acked, AckedStates
<1>4. Next BY DEF Next
<1> QED BY <1>2, <1>3, <1>4 DEF FenceWrite

\* A claim that finds nothing may still end jobs that can no longer run.
LEMMA ClaimNoneFence ==
    ASSUME RunnerInv, ClaimNone({Kind}) PROVE FenceWrite
<1>1. \A i \in ClaimPage({Kind}) : i \in Rows /\ Claimable(jobs[i]) /\ ~Grantable(jobs[i])
  BY DEF ClaimNone, ClaimPage, FirstBy, PendingRows
<1>2. \A i \in ClaimPage({Kind}) : jobs[i] # NULL /\ FenceStep(jobs[i], EndUnclaimed(jobs[i]))
  BY <1>1, InvRows, FenceEnd
<1>3. {Kind} \in SUBSET Kinds BY RunnerAssumption
<1>4. Next BY <1>3 DEF Next, ClaimStep
<1> QED BY <1>2, <1>4 DEF ClaimNone, FenceWrite

\* A granted claim raises exactly its own row's generation, by one.
LEMMA ClaimGrantedFence ==
    ASSUME RunnerInv, NEW c \in Ids, ClaimGranted({Kind}, c)
    PROVE  /\ FenceWrite /\ c \in Rows /\ jobs'[c] # NULL
           /\ jobs'[c].generation = jobs[c].generation + 1
<1> DEFINE passed == {i \in ClaimPage({Kind}) : Before(CreatedAt, i, c)}
<1>1. \A i \in ClaimPage({Kind}) : i \in Rows /\ Claimable(jobs[i])
  BY DEF ClaimPage, FirstBy, PendingRows
<1>2. /\ c \in ClaimPage({Kind}) /\ Grantable(jobs[c])
      /\ \A i \in passed : ~Grantable(jobs[i])
      /\ jobs' = [i \in Ids |-> IF i = c THEN Lease(jobs[i])
                                 ELSE IF i \in passed THEN EndUnclaimed(jobs[i])
                                 ELSE jobs[i]]
  BY DEF ClaimGranted
<1>3. passed \subseteq ClaimPage({Kind}) OBVIOUS
<1> HIDE DEF passed
<1>4. \A i \in passed : jobs[i] # NULL /\ FenceStep(jobs[i], EndUnclaimed(jobs[i]))
  BY <1>1, <1>2, <1>3, InvRows, FenceEnd
<1>5. /\ c \in Rows /\ jobs[c] # NULL /\ FenceStep(jobs[c], Lease(jobs[c])) /\ Lease(jobs[c]) # NULL
      /\ Lease(jobs[c]).generation = jobs[c].generation + 1
  <2>1. c \in Rows /\ Claimable(jobs[c]) /\ GoodRow(jobs[c]) /\ now \in Nat BY <1>1, <1>2, InvRows
  <2>2. Lease(jobs[c]) # NULL
    BY <1>2, <2>1, LeaseGood, GoodIsRow DEF GoodStep, CoreStep
  <2> QED BY <2>1, <2>2, FenceLease DEF Rows
<1>6. {Kind} \in SUBSET Kinds BY RunnerAssumption
<1>7. Next BY <1>6 DEF Next, ClaimStep
<1> QED BY <1>2, <1>4, <1>5, <1>7 DEF FenceWrite

\* Replacing one row by a fenced successor is a fenced write.
LEMMA RowFence ==
    ASSUME RunnerInv, Next, NEW i \in Rows, NEW n, FenceStep(jobs[i], n), jobs' = [jobs EXCEPT ![i] = n]
    PROVE  FenceWrite
BY DEF FenceWrite, RunnerInv, IInv, Rows

\* A worker's heartbeat request is a fenced write.
LEMMA HeartbeatFence ==
    ASSUME RunnerInv, NEW w \in Workers, Executes(w), Heartbeat(worker[w].job, worker[w].gen)
    PROVE  FenceWrite
<1> DEFINE i == worker[w].job g == worker[w].gen
<1>1. i \in Rows /\ LiveClaim(jobs[i], g) /\ jobs' = [jobs EXCEPT ![i].lease_until = now + ClaimLease]
  BY DEF Heartbeat
<1>2. g \in 0..MaxToken
  <2>1. jobs[i] \in JobRecord /\ jobs[i].generation = g BY <1>1 DEF LiveClaim, RunnerInv, IInv, Rows
  <2>2. jobs[i].generation <= jobs[i].max_attempts /\ jobs[i].max_attempts <= MaxToken
    BY <1>1, InvRows DEF GoodRow, RowInv, RunnableRow, FencedRow
  <2> QED BY <2>1, <2>2, ConfigAssumption DEF JobRecord
<1>3. Next BY <1>1, <1>2 DEF Next, WorkerStep, Rows
<1>4. FenceStep(jobs[i], [jobs[i] EXCEPT !.lease_until = now + ClaimLease])
  BY <1>1, InvRows, FenceHeartbeat
<1> QED BY <1>1, <1>3, <1>4, RowFence

\* A worker's completion request is a fenced write: its result names the generation it was claimed under.
LEMMA CompleteFence ==
    ASSUME RunnerInv, NEW w \in Workers, Executes(w),
           Complete(worker[w].job, worker[w].gen, Reported(worker[w]), ReportedOutput(worker[w]), NULL)
    PROVE  FenceWrite
<1> DEFINE i == worker[w].job g == worker[w].gen
           s == Reported(worker[w]) o == ReportedOutput(worker[w])
<1>1. /\ i \in Rows /\ LiveClaim(jobs[i], g)
      /\ jobs' = [jobs EXCEPT ![i] = CompleteRow(jobs[i], s, o, NULL)]
  BY DEF Complete
<1>2. g \in 1..MaxToken
  <2>1. jobs[i] \in JobRecord /\ jobs[i].generation = g BY <1>1 DEF LiveClaim, RunnerInv, IInv, Rows
  <2>2. jobs[i].generation <= jobs[i].max_attempts /\ jobs[i].max_attempts <= MaxToken
    BY <1>1, InvRows DEF GoodRow, RowInv, RunnableRow, FencedRow
  <2>3. g \in 1..jobs[i].generation BY DEF RunnerInv, Claimed
  <2> QED BY <2>1, <2>2, <2>3, ConfigAssumption DEF JobRecord
<1>3. s \in {"Succeeded", "Failed"} /\ o \in {g, NULL} /\ o \in Outputs \cup {NULL}
  BY <1>2, RunnerAssumption DEF Reported, ReportedOutput
<1>4. Next
  <2>1. s \in JobState BY <1>3 DEF JobState, FinalStates
  <2>2. g \in 0..MaxToken BY <1>2
  <2> QED BY <1>1, <1>3, <2>1, <2>2 DEF Next, WorkerStep, Rows
<1>5. FenceStep(jobs[i], CompleteRow(jobs[i], s, o, NULL))
  <2> HIDE DEF s, o, g, i
  <2> QED BY <1>1, <1>3, InvRows, FenceComplete
<1> QED BY <1>1, <1>4, <1>5, RowFence

\* A maintenance pass is a fenced write.
LEMMA MaintainFence ==
    ASSUME RunnerInv, Maintain PROVE FenceWrite
<1>1. \A i \in MaintenancePass : i \in Rows /\ Final(jobs[i])
  BY DEF MaintenancePass, ExpiredRows, FirstBy
<1>2. \A i \in MaintenancePass : jobs[i] # NULL /\ FenceStep(jobs[i], Expire(jobs[i]))
  BY <1>1, InvRows, FenceExpire
<1>3. Next BY DEF Next
<1> QED BY <1>2, <1>3 DEF Maintain, FenceWrite

\* A cancellation, an erasure and the clock are fenced writes.
LEMMA RequestFence ==
    ASSUME RunnerInv,
           \/ \E i \in Rows : CancelIds({i})
           \/ \E owner \in Owners : PurgeOwner(owner)
           \/ Tick
    PROVE  FenceWrite
<1>1. ASSUME NEW i \in Rows, CancelIds({i}) PROVE FenceWrite
  <2>1. {i} \in (SUBSET Rows) \ {{}} BY Zenon
  <2>2. Next BY <1>1, <2>1 DEF Next, ConsumerStep
  <2>3. Unfinished(jobs[i]) => jobs[i] # NULL /\ FenceStep(jobs[i], CancelRow(jobs[i]))
    BY InvRows, FenceCancel
  <2> QED BY <1>1, <2>2, <2>3 DEF CancelIds, CancelRows, FenceWrite
<1>2. ASSUME NEW owner \in Owners, PurgeOwner(owner) PROVE FenceWrite
  <2>1. \A i \in OwnedBy(owner) : jobs[i] # NULL /\ FenceStep(jobs[i], PurgeRow(jobs[i]))
    BY InvRows, FencePurge DEF OwnedBy
  <2>2. Next BY <1>2 DEF Next, ConsumerStep
  <2> QED BY <1>2, <2>1, <2>2 DEF PurgeOwner, FenceWrite
<1>3. CASE Tick BY <1>3 DEF Tick, FenceWrite, Next
<1> QED BY <1>1, <1>2, <1>3

----------------------------------------------------------------------------
(* The invariant.                                                          *)

\* A write keeps the rows fenced and never takes a generation back.
LEMMA WriteKeeps ==
    ASSUME RunnerInv, FenceWrite
    PROVE  /\ IInv'
           /\ \A i \in Ids : jobs'[i] # NULL => FencedRow(jobs'[i])
           /\ \A i \in Ids : jobs'[i] # NULL => jobs'[i].generation \in Nat
           /\ \A i \in Ids : jobs[i] # NULL =>
                 /\ jobs'[i] # NULL /\ jobs[i].generation \in Nat
                 /\ jobs'[i].generation >= jobs[i].generation
<1>0. IInv /\ [Next]_vars BY DEF RunnerInv, FenceWrite
<1>1. IInv' BY <1>0, NextIInv
<1>2. \A i \in Ids : jobs'[i] # NULL => jobs'[i].generation \in Nat
  <2>1. jobs' \in [Ids -> JobRecord \cup {NULL}] BY <1>1 DEF IInv
  <2> QED BY <2>1 DEF JobRecord
<1>3. \A i \in Ids : jobs[i] # NULL => jobs[i].generation \in Nat
  <2>1. jobs \in [Ids -> JobRecord \cup {NULL}] BY <1>0 DEF IInv
  <2> QED BY <2>1 DEF JobRecord
<1>4. \A i \in Ids : jobs[i] # NULL =>
         jobs'[i] # NULL /\ jobs'[i].generation >= jobs[i].generation
  BY <1>3 DEF FenceWrite, FenceStep
<1>5. ASSUME NEW i \in Ids, jobs'[i] # NULL PROVE FencedRow(jobs'[i])
  <2>1. CASE jobs'[i] = jobs[i] BY <1>5, <2>1 DEF RunnerInv
  <2>2. CASE jobs[i] = NULL /\ NewFencedRow(jobs'[i]) BY <2>2 DEF NewFencedRow
  <2>3. CASE jobs[i] # NULL /\ FenceStep(jobs[i], jobs'[i])
    <3>1. FencedRow(jobs[i]) BY <2>3 DEF RunnerInv
    <3>2. StableStep(jobs[i], jobs'[i]) BY <1>0, <2>3, NextSteps DEF Rows
    <3>3. ~Acked(jobs'[i]) BY <2>3 DEF FenceStep
    <3>4. Final(jobs[i]) => Final(jobs'[i]) /\ jobs'[i].generation = jobs[i].generation
      BY <3>2, <3>3 DEF StableStep, Acked, Final, FinalStates
    <3>5. Unfinished(jobs[i]) => ~Final(jobs[i])
      BY DEF Unfinished, Final, UnfinishedStates, Waiting, FinalStates
    <3> QED BY <2>3, <3>1, <3>3, <3>4, <3>5 DEF FenceStep, FencedRow
  <2> QED BY <2>1, <2>2, <2>3 DEF FenceWrite
<1> QED BY <1>1, <1>2, <1>3, <1>4, <1>5

\* The types of what the runner keeps in memory, and the bounds.
Typed ==
    /\ worker \in [Workers -> Worker] /\ maint \in {"loop", "ended", "failed"}
    /\ {stop, failed, up} \subseteq BOOLEAN /\ joined \subseteq Tasks
    /\ entered \in [Ids -> Nat]
    /\ faults \in Nat /\ crashes \in Nat /\ faults + crashes <= MaxTroubles
    /\ starts \in 0..MaxStarts

\* A step of the runner is one of the store, or leaves the store alone, and
\* keeps the invariant.
RunnerStep == RunnerInv' /\ [Next]_vars

\* No worker begins to execute.
Quiet ==
    /\ entered' = entered
    /\ \A w \in Workers : worker'[w].pc \in Executing =>
          /\ Executes(w) /\ worker'[w].job = worker[w].job /\ worker'[w].gen = worker[w].gen
\* Worker w begins to execute the claim of job c that was just granted.
Begins(w, c) ==
    /\ c \in Ids /\ jobs[c] # NULL /\ jobs'[c].generation = jobs[c].generation + 1
    /\ worker'[w].job = c /\ worker'[w].gen = jobs'[c].generation
    /\ \A v \in Workers \ {w} : worker'[v] = worker[v]
    /\ entered' = [entered EXCEPT ![c] = @ + 1]

\* A step that begins no execution keeps the invariant, whatever fenced write the store makes.
LEMMA QuietInv ==
    ASSUME RunnerInv, FenceWrite, Typed', Quiet PROVE RunnerStep
<1>1. /\ IInv' /\ \A i \in Ids : jobs'[i] # NULL => FencedRow(jobs'[i])
      /\ \A i \in Ids : jobs'[i] # NULL => jobs'[i].generation \in Nat
      /\ \A i \in Ids : jobs[i] # NULL => /\ jobs'[i] # NULL /\ jobs[i].generation \in Nat
                                          /\ jobs'[i].generation >= jobs[i].generation
  BY WriteKeeps
<1>2. \A i \in Ids : entered'[i] <= IF jobs'[i] = NULL THEN 0 ELSE jobs'[i].generation
  BY <1>1 DEF Quiet, RunnerInv
<1>3. \A w \in Workers : Executes(w)' =>
         /\ worker'[w].job \in Ids /\ Claimed(w)' # NULL
         /\ worker'[w].gen \in 1..Claimed(w)'.generation
  BY <1>1 DEF Quiet, RunnerInv, Executes, Claimed
<1>4. \A v, w \in Workers : Executes(v)' /\ Executes(w)' /\ worker'[v].job = worker'[w].job
         /\ worker'[v].gen = worker'[w].gen => v = w
  BY DEF Quiet, RunnerInv, Executes
<1>5. RunnerInv' BY <1>1, <1>2, <1>3, <1>4 DEF RunnerInv, Typed
<1> QED BY <1>5 DEF RunnerStep, FenceWrite

\* A step that hands a granted claim to a worker keeps the invariant: no other worker holds that generation.
LEMMA BeginsInv ==
    ASSUME RunnerInv, FenceWrite, Typed', NEW w \in Workers, NEW c, Begins(w, c) PROVE RunnerStep
<1>1. /\ IInv' /\ \A i \in Ids : jobs'[i] # NULL => FencedRow(jobs'[i])
      /\ \A i \in Ids : jobs'[i] # NULL => jobs'[i].generation \in Nat
      /\ \A i \in Ids : jobs[i] # NULL => /\ jobs'[i] # NULL /\ jobs[i].generation \in Nat
                                          /\ jobs'[i].generation >= jobs[i].generation
  BY WriteKeeps
<1>2. \A i \in Ids : entered'[i] <= IF jobs'[i] = NULL THEN 0 ELSE jobs'[i].generation
  BY <1>1 DEF Begins, RunnerInv
<1>3. \A v \in Workers : Executes(v)' =>
         /\ worker'[v].job \in Ids /\ Claimed(v)' # NULL
         /\ worker'[v].gen \in 1..Claimed(v)'.generation
  BY <1>1 DEF Begins, RunnerInv, Executes, Claimed
<1>4. \A v \in Workers \ {w} : Executes(v)' /\ worker'[v].job = c => worker'[v].gen # worker'[w].gen
  BY <1>1 DEF Begins, RunnerInv, Executes, Claimed
<1>5. \A v, u \in Workers : Executes(v)' /\ Executes(u)' /\ worker'[v].job = worker'[u].job
         /\ worker'[v].gen = worker'[u].gen => v = u
  BY <1>4 DEF Begins, RunnerInv, Executes
<1>6. RunnerInv' BY <1>1, <1>2, <1>3, <1>5 DEF RunnerInv, Typed
<1> QED BY <1>6 DEF RunnerStep, FenceWrite

----------------------------------------------------------------------------
(* One lemma per task.                                                     *)

\* The records the runner's transitions build are worker states.
LEMMA Records ==
    /\ Fresh \in Worker /\ Fresh.pc = "loop"
    /\ \A pc \in Position : /\ [Fresh EXCEPT !.pc = pc] \in Worker
                             /\ [Fresh EXCEPT !.pc = pc].pc = pc
    /\ \A bad \in BOOLEAN : Ended(bad) \in Worker /\ Ended(bad).pc = "ended"
BY DEF Fresh, Ended, Worker, Position, Executing

\* A store call that fails spends a trouble.
LEMMA CallFailsTyped ==
    ASSUME Typed, CallFails
    PROVE  /\ faults' \in Nat /\ crashes' \in Nat /\ faults' + crashes' <= MaxTroubles
           /\ starts' \in 0..MaxStarts
BY RunnerAssumption DEF Typed, CallFails

\* A worker's own step from one position to another.
LEMMA WorkerMoves ==
    ASSUME RunnerInv, NEW w \in Workers, NEW r \in Worker, Move(w, r), OnlyWorker,
           entered' = entered, UNCHANGED bounds \/ CallFails,
           r.pc \in Executing => Executes(w) /\ r.job = worker[w].job /\ r.gen = worker[w].gen
    PROVE  Typed' /\ Quiet
<1>1. Typed BY DEF RunnerInv, Typed
<1>2. worker' = [worker EXCEPT ![w] = r] /\ worker' \in [Workers -> Worker] BY <1>1 DEF Move, Typed
<1>3. Quiet BY <1>1, <1>2 DEF Quiet, Typed, Executes
<1>4. Typed' BY <1>1, <1>2, CallFailsTyped DEF OnlyWorker, Typed, bounds
<1> QED BY <1>3, <1>4

\* The head of the worker loop and the end of its idle wait keep the invariant.
LEMMA LoopHeadInv == ASSUME RunnerInv, NEW w \in Workers, LoopHead(w) \/ Wake(w) PROVE RunnerStep
<1>1. FenceWrite /\ entered' = entered /\ UNCHANGED bounds /\ OnlyWorker
  BY NoWrite DEF LoopHead, Wake, NoStore
<1>2. PICK r \in Worker : Move(w, r) /\ r.pc \notin Executing
  <2>1. Ended(FALSE).pc \notin Executing /\ [Fresh EXCEPT !.pc = "call"].pc \notin Executing
        /\ Fresh.pc \notin Executing
    BY Records DEF Executing, Position
  <2>2. /\ Ended(FALSE) \in Worker /\ [Fresh EXCEPT !.pc = "call"] \in Worker /\ Fresh \in Worker
    BY Records DEF Position
  <2> QED BY <2>1, <2>2 DEF LoopHead, Wake
<1>3. Typed' /\ Quiet BY <1>1, <1>2, WorkerMoves
<1> QED BY <1>1, <1>3, QuietInv

\* The answer to a claim keeps the invariant.
LEMMA ClaimReplyInv == ASSUME RunnerInv, NEW w \in Workers, ClaimReply(w) PROVE RunnerStep
<1>0. OnlyWorker /\ Typed BY DEF ClaimReply, RunnerInv, Typed
<1>1. ASSUME NEW c \in Ids, ClaimGranted({Kind}, c), Execute(w, c, jobs'[c]), UNCHANGED bounds
      PROVE  RunnerStep
  <2>1. /\ FenceWrite /\ c \in Rows /\ jobs'[c] # NULL
        /\ jobs'[c].generation = jobs[c].generation + 1
    BY <1>1, ClaimGrantedFence
  <2>2. jobs'[c].generation \in Nat BY <2>1, WriteKeeps
  <2>3. CASE ~(jobs'[c].execution = "Handler" /\ jobs'[c].payload # NULL)
    <3>1. Move(w, Ended(TRUE)) /\ entered' = entered BY <1>1, <2>3 DEF Execute
    <3>2. Ended(TRUE) \in Worker /\ Ended(TRUE).pc \notin Executing BY Records DEF Executing
    <3>3. Typed' /\ Quiet BY <1>0, <1>1, <3>1, <3>2, WorkerMoves
    <3> QED BY <2>1, <3>3, QuietInv
  <2>4. CASE jobs'[c].execution = "Handler" /\ jobs'[c].payload # NULL
    <3> DEFINE r == [Fresh EXCEPT !.pc = "run", !.job = c, !.gen = jobs'[c].generation]
    <3>1. Move(w, r) /\ entered' = [entered EXCEPT ![c] = @ + 1] BY <1>1, <2>4 DEF Execute
    <3>2. r \in Worker /\ r.job = c /\ r.gen = jobs'[c].generation
      BY <2>2 DEF Fresh, Worker, Position, Executing
    <3> HIDE DEF r
    <3>3. worker' = [worker EXCEPT ![w] = r] BY <3>1 DEF Move
    <3>4. worker' \in [Workers -> Worker] BY <1>0, <3>2, <3>3 DEF Typed
    <3>5. entered' \in [Ids -> Nat] BY <1>0, <3>1 DEF Typed
    <3>6. Typed' BY <1>0, <1>1, <3>4, <3>5 DEF OnlyWorker, Typed, bounds
    <3>7. Begins(w, c)
      BY <1>0, <2>1, <3>1, <3>2, <3>3 DEF Begins, Rows, Typed
    <3> QED BY <2>1, <3>6, <3>7, BeginsInv
  <2> QED BY <2>3, <2>4
<1>2. ASSUME FenceWrite, NEW r \in Worker, Move(w, r), r.pc \notin Executing,
             entered' = entered, UNCHANGED bounds \/ CallFails
      PROVE  RunnerStep
  <2>1. Typed' /\ Quiet BY <1>0, <1>2, WorkerMoves
  <2> QED BY <1>2, <2>1, QuietInv
<1>3. /\ [Fresh EXCEPT !.pc = "sleep"] \in Worker /\ [Fresh EXCEPT !.pc = "sleep"].pc \notin Executing
      /\ Ended(TRUE) \in Worker /\ Ended(TRUE).pc \notin Executing
  BY Records DEF Position, Executing
<1>4. CASE ClaimNone({Kind}) /\ Move(w, [Fresh EXCEPT !.pc = "sleep"]) /\ UNCHANGED <<entered, bounds>>
  BY <1>2, <1>3, <1>4, ClaimNoneFence
<1>5. CASE NoStore /\ Move(w, [Fresh EXCEPT !.pc = "sleep"]) /\ UNCHANGED <<entered, bounds>>
  BY <1>2, <1>3, <1>5, NoWrite DEF NoStore
<1>6. CASE CallFails /\ NoStore /\ Move(w, Ended(TRUE)) /\ UNCHANGED entered
  BY <1>2, <1>3, <1>6, NoWrite DEF NoStore
<1> QED BY <1>1, <1>4, <1>5, <1>6 DEF ClaimReply

\* A worker that keeps its claim, or lays it down.
LEMMA HolderInv ==
    ASSUME RunnerInv, FenceWrite, NEW w \in Workers, NEW r \in Worker, Move(w, r), OnlyWorker,
           entered' = entered, UNCHANGED bounds \/ CallFails,
           r.pc \in Executing => Executes(w) /\ r.job = worker[w].job /\ r.gen = worker[w].gen
    PROVE  RunnerStep
<1>1. Typed' /\ Quiet BY WorkerMoves
<1> QED BY <1>1, QuietInv

\* Sending a heartbeat and the handler's return keep the invariant.
LEMMA HandlerInv == ASSUME RunnerInv, NEW w \in Workers, BeatSent(w) \/ HandlerEnds(w) PROVE RunnerStep
<1>1. FenceWrite /\ entered' = entered /\ UNCHANGED bounds /\ OnlyWorker
  BY NoWrite DEF BeatSent, HandlerEnds, NoStore
<1>2. Executes(w) BY DEF BeatSent, HandlerEnds, At, Executes, Executing
<1>3. worker[w] \in Worker BY DEF RunnerInv
<1>4. PICK r \in Worker : Move(w, r) /\ r.job = worker[w].job /\ r.gen = worker[w].gen
  <2>1. CASE BeatSent(w)
    <3> DEFINE r == [worker[w] EXCEPT !.pc = "beat"]
    <3>1. r \in Worker /\ r.job = worker[w].job /\ r.gen = worker[w].gen
      BY <1>3 DEF Worker, Position, Executing
    <3> QED BY <2>1, <3>1 DEF BeatSent
  <2>2. CASE HandlerEnds(w)
    <3>1. PICK o \in Outcome :
             Move(w, [worker[w] EXCEPT !.outcome = o, !.pc = IF @ = "beat" THEN "drain" ELSE "finish"])
      BY <2>2 DEF HandlerEnds
    <3> DEFINE r == [worker[w] EXCEPT !.outcome = o, !.pc = IF @ = "beat" THEN "drain" ELSE "finish"]
    <3>2. r \in Worker /\ r.job = worker[w].job /\ r.gen = worker[w].gen
      BY <1>3 DEF Worker, Position, Executing
    <3> QED BY <3>1, <3>2
  <2> QED BY <2>1, <2>2
<1> QED BY <1>1, <1>2, <1>4, HolderInv

\* The answer to a heartbeat keeps the invariant.
LEMMA BeatReplyInv == ASSUME RunnerInv, NEW w \in Workers, BeatReply(w) PROVE RunnerStep
<1> DEFINE r == worker[w]
<1>1. entered' = entered /\ OnlyWorker /\ (UNCHANGED bounds \/ CallFails) BY DEF BeatReply
<1>2. Executes(w) BY DEF BeatReply, At, Executes, Executing
<1>3. r \in Worker BY DEF RunnerInv
<1>4. FenceWrite
  <2>1. Heartbeat(r.job, r.gen) \/ NoStore BY DEF BeatReply
  <2> QED BY <1>2, <2>1, HeartbeatFence, NoWrite DEF NoStore
<1>5. ASSUME NEW live \in BOOLEAN
      PROVE  /\ Observed(r, live) \in Worker
             /\ Observed(r, live).job = r.job /\ Observed(r, live).gen = r.gen
  <2> DEFINE p == IF r.pc = "drain" THEN "finish" ELSE "run"
             c == r.cancel \/ ~live \/ jobs[r.job].cancel_requested \/ jobs[r.job].purged
             f == r.fenced \/ ~live
             e == r.err \/ ~live
  <2>1. c \in BOOLEAN /\ f \in BOOLEAN /\ e \in BOOLEAN BY Zenon
  <2>2. p \in Position BY DEF Position, Executing
  <2>3. Observed(r, live) = [r EXCEPT !.pc = p, !.cancel = c, !.fenced = f, !.err = e]
    BY Zenon DEF Observed
  <2> HIDE DEF p, c, f, e
  <2> QED BY <1>3, <2>1, <2>2, <2>3 DEF Worker
<1>6. LET n == [r EXCEPT !.pc = IF @ = "drain" THEN "finish" ELSE "run", !.err = TRUE]
      IN  n \in Worker /\ n.job = r.job /\ n.gen = r.gen
  BY <1>3 DEF Worker, Position, Executing
<1>7. PICK n \in Worker : Move(w, n) /\ n.job = r.job /\ n.gen = r.gen
  BY <1>5, <1>6 DEF BeatReply
<1> QED BY <1>1, <1>2, <1>4, <1>7, HolderInv

\* The answer to a completion, its retries included, keeps the invariant.
LEMMA CompleteReplyInv == ASSUME RunnerInv, NEW w \in Workers, CompleteReply(w) PROVE RunnerStep
<1> DEFINE r == worker[w]
<1>1. entered' = entered /\ OnlyWorker /\ (UNCHANGED bounds \/ CallFails) BY DEF CompleteReply
<1>2. Executes(w) BY DEF CompleteReply, At, Executes, Executing
<1>3. FenceWrite
  <2>1. Complete(r.job, r.gen, Reported(r), ReportedOutput(r), NULL) \/ NoStore BY DEF CompleteReply
  <2> QED BY <1>2, <2>1, CompleteFence, NoWrite DEF NoStore
<1>4. \E bad : Leave(w, bad) BY DEF CompleteReply
<1>5. PICK n \in Worker : Move(w, n) /\ n.pc \notin Executing
  <2>1. Ended(TRUE).pc \notin Executing /\ Fresh.pc \notin Executing
        /\ Ended(TRUE) \in Worker /\ Fresh \in Worker
    BY Records DEF Executing
  <2> QED BY <1>4, <2>1 DEF Leave
<1> QED BY <1>1, <1>3, <1>5, HolderInv

\* The maintenance task, the supervisor and the requests of others touch no
\* worker.
LEMMA AroundInv ==
    ASSUME RunnerInv, MaintainPass \/ (\E t \in Tasks : Join(t)) \/ Shutdown \/ Environment
    PROVE  RunnerStep
<1>0. Typed BY DEF RunnerInv, Typed
<1>1. Quiet
  <2>1. UNCHANGED <<worker, entered>>
    BY DEF MaintainPass, Join, Shutdown, Environment, runnerVars
  <2> QED BY <2>1 DEF Quiet, Executes
<1>2. CASE MaintainPass
  <2>1. FenceWrite
    <3>1. Maintain \/ NoStore BY <1>2 DEF MaintainPass
    <3> QED BY <3>1, MaintainFence, NoWrite DEF NoStore
  <2>2. Typed'
    <3>1. UNCHANGED bounds \/ CallFails BY <1>2 DEF MaintainPass
    <3> QED BY <1>0, <1>2, <3>1, CallFailsTyped DEF MaintainPass, Typed, bounds
  <2> QED BY <1>1, <2>1, <2>2, QuietInv
<1>3. ASSUME NEW t \in Tasks, Join(t) PROVE RunnerStep
  <2>1. FenceWrite BY <1>3, NoWrite DEF Join
  <2>2. failed' \in BOOLEAN /\ stop' \in BOOLEAN BY <1>3, Zenon DEF Join
  <2>3. joined' \subseteq Tasks /\ UNCHANGED <<worker, maint, up, entered, bounds>>
    BY <1>0, <1>3 DEF Join, Typed
  <2>4. Typed' BY <1>0, <2>2, <2>3 DEF Typed, bounds
  <2> QED BY <1>1, <2>1, <2>4, QuietInv
<1>4. CASE Shutdown
  <2>1. FenceWrite BY <1>4, NoWrite DEF Shutdown
  <2>2. Typed' BY <1>0, <1>4 DEF Shutdown, Typed, bounds
  <2> QED BY <1>1, <2>1, <2>2, QuietInv
<1>5. CASE Environment
  <2>1. FenceWrite BY <1>5, EnqueueFence, RequestFence DEF Environment
  <2>2. Typed' BY <1>0, <1>5 DEF Environment, Typed, runnerVars, bounds
  <2> QED BY <1>1, <2>1, <2>2, QuietInv
<1> QED BY <1>2, <1>3, <1>4, <1>5

\* A start or a crash leaves no worker executing.
LEMMA RestartInv == ASSUME RunnerInv, Start \/ Crash PROVE RunnerStep
<1>0. Typed BY DEF RunnerInv, Typed
<1>1. worker' = [w \in Workers |-> Fresh] /\ UNCHANGED <<jobs, now, entered>> BY DEF Start, Crash
<1>2. Quiet BY <1>1, Records DEF Quiet, Executing
<1>3. worker' \in [Workers -> Worker] BY <1>1, Records
<1>4. {stop, failed, up}' \subseteq BOOLEAN /\ joined' \subseteq Tasks
  <2>1. {stop, failed, up} \subseteq BOOLEAN /\ joined \subseteq Tasks BY <1>0 DEF Typed
  <2> QED BY <2>1, Zenon DEF Start, Crash
<1>5. /\ maint' \in {"loop", "ended", "failed"} /\ entered' \in [Ids -> Nat]
      /\ faults' \in Nat /\ crashes' \in Nat /\ faults' + crashes' <= MaxTroubles
      /\ starts' \in 0..MaxStarts
  BY <1>0, <1>1, RunnerAssumption DEF Start, Crash, Typed
<1>6. Typed' BY <1>3, <1>4, <1>5 DEF Typed
<1> QED BY <1>1, <1>2, <1>6, NoWrite, QuietInv

----------------------------------------------------------------------------
(* The theorems.                                                           *)

\* The invariant holds when the runner starts.
LEMMA InitRunnerInv == RunnerInit => RunnerInv
<1> SUFFICES ASSUME RunnerInit PROVE RunnerInv OBVIOUS
<1>1. IInv BY InitIInv DEF RunnerInit
<1>2. worker \in [Workers -> Worker] /\ \A w \in Workers : ~Executes(w)
  BY Records DEF RunnerInit, Executes, Executing
<1>3. jobs = [i \in Ids |-> NULL] /\ entered = [i \in Ids |-> 0]
  BY DEF RunnerInit, Init
<1>4. {stop, failed, up} \subseteq BOOLEAN BY Zenon DEF RunnerInit
<1>5. /\ maint \in {"loop", "ended", "failed"} /\ joined \subseteq Tasks
      /\ faults \in Nat /\ crashes \in Nat /\ faults + crashes <= MaxTroubles
      /\ starts \in 0..MaxStarts
  BY RunnerAssumption DEF RunnerInit
<1>6. /\ entered \in [Ids -> Nat] /\ \A i \in Ids : jobs[i] = NULL
      /\ \A i \in Ids : entered[i] <= IF jobs[i] = NULL THEN 0 ELSE jobs[i].generation
  BY <1>3
<1> QED BY <1>1, <1>2, <1>4, <1>5, <1>6 DEF RunnerInv

\* Every step of the runner, its store, its owner or the clock keeps the invariant and is a step of the store.
LEMMA NextRunnerInv == RunnerInv /\ [RunnerNext]_allVars => RunnerStep
<1> SUFFICES ASSUME RunnerInv, [RunnerNext]_allVars PROVE RunnerStep OBVIOUS
<1>1. CASE UNCHANGED allVars
  <2>1. Typed BY DEF RunnerInv, Typed
  <2>2. Typed' BY <1>1, <2>1, Zenon DEF allVars, Typed
  <2>3. Quiet BY <1>1 DEF allVars, Quiet, Executes
  <2>4. FenceWrite BY <1>1, NoWrite DEF allVars
  <2> QED BY <2>2, <2>3, <2>4, QuietInv
<1>2. ASSUME NEW w \in Workers, WorkerTask(w) PROVE RunnerStep
  BY <1>2, LoopHeadInv, ClaimReplyInv, HandlerInv, BeatReplyInv, CompleteReplyInv DEF WorkerTask
<1> QED BY <1>1, <1>2, AroundInv, RestartInv DEF RunnerNext

\* The runner's invariant holds in every reachable state.
THEOREM RunnerInvariant == RunnerSpec => []RunnerInv
BY InitRunnerInv, NextRunnerInv, PTL DEF RunnerSpec, RunnerStep

\* A stored result was computed by the last claim of its job, no two
\* executions share a claim, and no handler is entered more often than its
\* job allows, for any number of workers, jobs, crashes and restarts.
THEOREM ResultsAreFenced == RunnerSpec => []ClaimsFenced
<1>1. RunnerInv => ClaimsFenced
  <2> SUFFICES ASSUME RunnerInv PROVE ClaimsFenced OBVIOUS
  <2>1. RunnerTypeOK BY DEF RunnerInv, IInv, TypeOK, RunnerTypeOK
  <2>2. \A i \in Rows : /\ jobs[i].output # NULL => jobs[i].output = jobs[i].generation
                       /\ jobs[i].generation <= jobs[i].max_attempts
    BY InvRows DEF FencedRow, GoodRow, RowInv, RunnableRow
  <2>3. \A i \in Rows : entered[i] <= jobs[i].generation
    BY DEF RunnerInv, Rows
  <2> QED BY <2>1, <2>2, <2>3 DEF ClaimsFenced, RunnerInv, Busy, Executes
<1> QED BY <1>1, RunnerInvariant, PTL

\* Whatever the runner's tasks, its crashes and its environment do, the store
\* sees one of its own operations at a time, so that every theorem about the
\* store holds under the runner.
THEOREM RunnerImplementsStore == RunnerSpec => Spec
<1>1. RunnerInit => Init BY DEF RunnerInit
<1> QED BY <1>1, InitRunnerInv, NextRunnerInv, PTL DEF RunnerSpec, RunnerStep, Spec
============================================================================
