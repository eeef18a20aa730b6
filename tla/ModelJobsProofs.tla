-------------------------- MODULE ModelJobsProofs --------------------------
(***************************************************************************)
(* Paid jobs over job store and ledger: an invocation is charged once, the *)
(* two tables agree, and erasure reaches the saved answers, for any number *)
(* of jobs, receipts, workers and direct callers.  What holds them         *)
(* together is the receipt a task works on: nobody else works on it, its   *)
(* charge is unknown until it has been sent, and only the latest receipt   *)
(* of an invocation is not released.                                       *)
(***************************************************************************)
EXTENDS ModelJobs, TLAPS

Ref(R, n) == R[n].reservation.reference
KeyOf(R, n) == R[n].reservation.invocation

ReceiptFields == {"reservation", "state", "usage", "output", "pre_dispatch_released",
                  "attempt_limit", "attempts_used", "recovery", "expires", "handoff_input",
                  "dispatch_owner"}
\* A receipt by itself: it is explicit, a released one has no answer, and a
\* saved answer comes with the evidence that it was received.
ReceiptOK(m) ==
    /\ m = [f \in ReceiptFields |-> m[f]]
    /\ m.reservation.account = Account /\ m.reservation.invocation \in Keys
    /\ m.reservation.reference \in References
    /\ m.state \in {"Unknown", "Released", "Settled"} /\ m.output \in BOOLEAN
    /\ m.attempt_limit # NULL /\ m.expires \in Nat \cup {NULL}
    /\ m.state = "Released" => ~m.output
    /\ m.recovery # NULL => m.output

\* The ledger R when the provider has charged B: references are unique, what
\* is released was not charged, and whatever is not the latest is released.
Listed(R) == R \in Seq({R[n] : n \in DOMAIN R})
LedgerOK(R, B) ==
    /\ Listed(R)
    /\ \A n \in DOMAIN R : ReceiptOK(R[n]) /\ (R[n].state = "Released" => Ref(R, n) \notin B)
    /\ \A m, n \in DOMAIN R : Ref(R, m) = Ref(R, n) => m = n
    /\ \A m, n \in DOMAIN R : KeyOf(R, m) = KeyOf(R, n) /\ m < n => R[m].state = "Released"
    /\ \A b \in B : \E n \in DOMAIN R : Ref(R, n) = b

ErasedJob(r) == r.purged \/ r.final_state = "Purged" \/ r.state \in {"Accepted", "Discarded"}
\* No answer of the invocation is saved.
Gone(R, k) == \A n \in DOMAIN R : KeyOf(R, n) = k => R[n].recovery = NULL

\* A job row and the receipt it names.
Linked(R, r) ==
    /\ r.receipt # NULL => \E n \in DOMAIN R : Ref(R, n) = r.receipt /\ KeyOf(R, n) = r.key
    /\ r.state \in {"Running", "Uncertain"} => r.receipt # NULL
    /\ r.state \in {"Pending", "AwaitingAdmission"} =>
          \A n \in DOMAIN R : Ref(R, n) = r.receipt => R[n].state = "Released"
    /\ r.state = "Succeeded" => \E n \in DOMAIN R : Ref(R, n) = r.receipt /\ R[n].output
JobOK(R, r) ==
    /\ r \in Store!JobRecord /\ r.execution = "Model" /\ r.kind # NULL
    /\ Linked(R, r)
    /\ ErasedJob(r) => Gone(R, r.key)
JobsOK(J, R) ==
    /\ J = [i \in Ids |-> J[i]]
    /\ \A i \in Ids : J[i] # NULL => JobOK(R, J[i])
    /\ \A i, j \in Ids : J[i] # NULL /\ J[j] # NULL /\ J[i].key = J[j].key => i = j

\* A task: the receipt it works on is its own, unknown and not charged until
\* it was sent; a free call was not charged; a worker's receipt is its job's.
TaskFields == {"pos", "job", "generation", "receipt", "outcome"}
Open(t) == t.pos \in {"claimed", "ready", "sent"}
Working == {"picked", "slot", "refused", "claimed", "ready", "sent"}
TaskOK(J, R, B, p, t) ==
    /\ t = [f \in TaskFields |-> t[f]]
    /\ Open(t) => t.receipt \in DOMAIN R
    /\ t.pos \in {"claimed", "ready"} => R[t.receipt].state = "Unknown" /\ Ref(R, t.receipt) \notin B
    /\ t.pos = "sent" => /\ t.outcome \in Outcomes
                         /\ t.outcome = "zero" => Ref(R, t.receipt) \notin B
    /\ p \in Workers /\ t.pos \in Working =>
          /\ t.job \in Ids /\ J[t.job] # NULL
          /\ Open(t) => KeyOf(R, t.receipt) = J[t.job].key
TasksOK(J, R, B, T) ==
    /\ T = [p \in Processes |-> T[p]]
    /\ \A p \in Processes : TaskOK(J, R, B, p, T[p])
    /\ \A p, q \in Processes : Open(T[p]) /\ Open(T[q]) /\ T[p].receipt = T[q].receipt => p = q

\* The inductive invariant.
ModelInv ==
    /\ now \in Nat
    /\ LedgerOK(receipts, billed) /\ JobsOK(jobs, receipts)
    /\ TasksOK(jobs, receipts, billed, task)

----------------------------------------------------------------------------
(* Job rows: what the row functions of the store assign.                   *)

JobFields == {"key", "digest", "group", "owners", "kind", "execution", "state", "final_state",
              "payload", "admission", "max_attempts", "generation", "lease_until",
              "cancel_requested", "purged", "output", "receipt", "recovery_until",
              "result_expired", "created_at", "finished_at", "delivery_generation",
              "delivery_until"}
Shaped(r) == r = [f \in JobFields |-> r[f]]
FieldTypes(r) ==
    /\ r.key \in Keys /\ r.digest \in Payloads
    /\ r.group \in Groups \cup {NULL} /\ r.owners \in SUBSET Owners
    /\ r.kind \in Kinds \cup {NULL} /\ r.execution \in Store!Execution
    /\ r.state \in Store!JobState /\ r.final_state \in Store!FinalStates \cup {NULL}
    /\ r.payload \in Payloads \cup {NULL} /\ r.admission \in Admissions \cup {NULL}
    /\ r.max_attempts \in Nat /\ r.generation \in Nat /\ r.lease_until \in Nat \cup {NULL}
    /\ r.cancel_requested \in BOOLEAN /\ r.purged \in BOOLEAN
    /\ r.output \in Outputs \cup {NULL} /\ r.receipt \in References \cup {NULL}
    /\ r.recovery_until \in Nat \cup {NULL} /\ r.result_expired \in BOOLEAN
    /\ r.created_at \in Nat /\ r.finished_at \in Nat \cup {NULL}
    /\ r.delivery_generation \in Nat /\ r.delivery_until \in Nat \cup {NULL}

\* A job row has the fields of JobRecord and their types, and conversely.
LEMMA RowShape == ASSUME NEW r \in Store!JobRecord PROVE Shaped(r) /\ FieldTypes(r)
<1>1. Shaped(r)
  BY DEF Store!JobRecord, Shaped, JobFields
<1>2. FieldTypes(r)
  BY DEF Store!JobRecord, FieldTypes
<1> QED BY <1>1, <1>2

\* The converse.
LEMMA ShapeRow == ASSUME NEW r, Shaped(r), FieldTypes(r) PROVE r \in Store!JobRecord
BY DEF Store!JobRecord, Shaped, JobFields, FieldTypes

\* Assigning a field keeps the shape.
LEMMA ShapedExcept == ASSUME NEW r, NEW f, NEW v, Shaped(r) PROVE Shaped([r EXCEPT ![f] = v])
BY DEF Shaped

\* n is the row r after a write that neither erases nor confirms it.
Rewrites(r, n) ==
    /\ n \in Store!JobRecord
    /\ n.key = r.key /\ n.execution = r.execution /\ n.kind = r.kind
    /\ n.purged = r.purged /\ n.final_state = r.final_state

\* Writes follow one another.
LEMMA RewritesTwice ==
    ASSUME NEW a, NEW b, NEW c, Rewrites(a, b), Rewrites(b, c) PROVE Rewrites(a, c)
BY DEF Rewrites

\* The states are states of the store.
LEMMA States ==
    /\ {"Pending", "AwaitingAdmission", "Running", "Uncertain"} \subseteq Store!JobState
    /\ Store!FinalStates \subseteq Store!JobState
    /\ {"Succeeded", "Failed", "Cancelled", "Refused", "Purged"} = Store!FinalStates
    /\ {"Accepted", "Discarded"} \subseteq Store!JobState
BY DEF Store!JobState, Store!UnfinishedStates, Store!Waiting, Store!FinalStates, Store!AckedStates

\* delete_copies touches the copies only.
LEMMA DeleteCopiesRow ==
    ASSUME NEW r \in Store!JobRecord
    PROVE  LET n == Store!DeleteCopies(r)
           IN  Rewrites(r, n) /\ n.state = r.state /\ n.receipt = r.receipt
               /\ n.cancel_requested = r.cancel_requested
<1> DEFINE n == Store!DeleteCopies(r)
<1>1. Shaped(r) /\ FieldTypes(r)
  BY RowShape
<1>2. Shaped(n)
  BY <1>1, ShapedExcept, Zenon DEF Store!DeleteCopies
<1>3. FieldTypes(n) /\ n.state = r.state /\ n.receipt = r.receipt
      /\ n.cancel_requested = r.cancel_requested
      /\ n.key = r.key /\ n.execution = r.execution /\ n.kind = r.kind
      /\ n.purged = r.purged /\ n.final_state = r.final_state
  BY <1>1 DEF FieldTypes, Shaped, JobFields, Store!DeleteCopies
<1> HIDE DEF n
<1>4. Rewrites(r, n)
  BY <1>2, <1>3, ShapeRow DEF Rewrites
<1> QED BY <1>3, <1>4 DEF n

\* expire marks the row besides.
LEMMA ExpireRow ==
    ASSUME NEW r \in Store!JobRecord
    PROVE  LET n == Store!Expire(r)
           IN  Rewrites(r, n) /\ n.state = r.state /\ n.receipt = r.receipt
<1> DEFINE d == Store!DeleteCopies(r)
           n == [d EXCEPT !.result_expired = TRUE]
<1>1. Rewrites(r, d) /\ d.state = r.state /\ d.receipt = r.receipt
  BY DeleteCopiesRow
<1>2. n = Store!Expire(r)
  BY DEF Store!Expire
<1> HIDE DEF d
<1>3. Shaped(d) /\ FieldTypes(d)
  BY <1>1, RowShape DEF Rewrites
<1>4. Shaped(n)
  BY <1>3, ShapedExcept, Zenon
<1>5. FieldTypes(n) /\ n.state = d.state /\ n.receipt = d.receipt
      /\ n.key = d.key /\ n.execution = d.execution /\ n.kind = d.kind
      /\ n.purged = d.purged /\ n.final_state = d.final_state
  BY <1>3 DEF FieldTypes, Shaped, JobFields
<1> HIDE DEF n
<1>6. Rewrites(d, n)
  BY <1>4, <1>5, ShapeRow DEF Rewrites
<1> QED BY <1>1, <1>2, <1>5, <1>6, RewritesTwice

\* finish ends the row and touches neither receipt nor erasure.
LEMMA FinishRow ==
    ASSUME NEW r \in Store!JobRecord, NEW s \in Store!FinalStates, now \in Nat
    PROVE  LET n == Store!Finish(r, s)
           IN  Rewrites(r, n) /\ n.state = s /\ n.receipt = r.receipt
<1> DEFINE f == [r EXCEPT !.state = s, !.finished_at = now, !.lease_until = NULL,
                          !.recovery_until = IF @ = NULL THEN now + Retention ELSE @]
<1>1. Shaped(r) /\ FieldTypes(r) /\ now + Retention \in Nat /\ s \in Store!JobState
  BY RowShape, States, ModelAssumption
<1>2. Shaped(f)
  BY <1>1, ShapedExcept, Zenon
<1>3. FieldTypes(f) /\ f.state = s /\ f.receipt = r.receipt
      /\ f.key = r.key /\ f.execution = r.execution /\ f.kind = r.kind
      /\ f.purged = r.purged /\ f.final_state = r.final_state
  BY <1>1 DEF FieldTypes, Shaped, JobFields
<1>4. Store!Finish(r, s) = IF f.recovery_until <= now THEN Store!Expire(f) ELSE f
  BY DEF Store!Finish
<1> HIDE DEF f
<1>5. Rewrites(r, f)
  BY <1>2, <1>3, ShapeRow DEF Rewrites
<1>6. Rewrites(f, Store!Expire(f)) /\ Store!Expire(f).state = f.state
      /\ Store!Expire(f).receipt = f.receipt
  BY <1>5, ExpireRow DEF Rewrites
<1>7. Rewrites(r, Store!Expire(f))
  BY <1>5, <1>6, RewritesTwice
<1> QED BY <1>3, <1>4, <1>5, <1>6, <1>7

\* Naming a receipt.
LEMMA ReceiptRow ==
    ASSUME NEW r \in Store!JobRecord, NEW x \in References
    PROVE  LET n == [r EXCEPT !.receipt = x]
           IN  Rewrites(r, n) /\ n.state = r.state /\ n.receipt = x /\ n.cancel_requested = r.cancel_requested
<1> DEFINE n == [r EXCEPT !.receipt = x]
<1>1. Shaped(r) /\ FieldTypes(r)
  BY RowShape
<1>2. Shaped(n)
  BY <1>1, ShapedExcept, Zenon
<1>3. FieldTypes(n) /\ n.state = r.state /\ n.receipt = x /\ n.cancel_requested = r.cancel_requested
      /\ n.key = r.key /\ n.execution = r.execution /\ n.kind = r.kind
      /\ n.purged = r.purged /\ n.final_state = r.final_state
  BY <1>1 DEF FieldTypes, Shaped, JobFields
<1> HIDE DEF n
<1>4. Rewrites(r, n)
  BY <1>2, <1>3, ShapeRow DEF Rewrites
<1> QED BY <1>3, <1>4 DEF n

\* Setting a state.
LEMMA StateRow ==
    ASSUME NEW r \in Store!JobRecord, NEW s \in Store!JobState
    PROVE  LET n == [r EXCEPT !.state = s]
           IN  Rewrites(r, n) /\ n.state = s /\ n.receipt = r.receipt /\ n.cancel_requested = r.cancel_requested
<1> DEFINE n == [r EXCEPT !.state = s]
<1>1. Shaped(r) /\ FieldTypes(r)
  BY RowShape
<1>2. Shaped(n)
  BY <1>1, ShapedExcept, Zenon
<1>3. FieldTypes(n) /\ n.state = s /\ n.receipt = r.receipt /\ n.cancel_requested = r.cancel_requested
      /\ n.key = r.key /\ n.execution = r.execution /\ n.kind = r.kind
      /\ n.purged = r.purged /\ n.final_state = r.final_state
  BY <1>1 DEF FieldTypes, Shaped, JobFields
<1> HIDE DEF n
<1>4. Rewrites(r, n)
  BY <1>2, <1>3, ShapeRow DEF Rewrites
<1> QED BY <1>3, <1>4 DEF n

\* Renewing a lease.
LEMMA RenewRow ==
    ASSUME NEW r \in Store!JobRecord, NEW l \in Nat
    PROVE  LET n == [r EXCEPT !.lease_until = l]
           IN  Rewrites(r, n) /\ n.state = r.state /\ n.receipt = r.receipt
<1> DEFINE n == [r EXCEPT !.lease_until = l]
<1>1. Shaped(r) /\ FieldTypes(r)
  BY RowShape
<1>2. Shaped(n)
  BY <1>1, ShapedExcept, Zenon
<1>3. FieldTypes(n) /\ n.state = r.state /\ n.receipt = r.receipt
      /\ n.key = r.key /\ n.execution = r.execution /\ n.kind = r.kind
      /\ n.purged = r.purged /\ n.final_state = r.final_state
  BY <1>1 DEF FieldTypes, Shaped, JobFields
<1> HIDE DEF n
<1>4. Rewrites(r, n)
  BY <1>2, <1>3, ShapeRow DEF Rewrites
<1> QED BY <1>3, <1>4 DEF n

\* Requesting the cancellation.
LEMMA CancelSet ==
    ASSUME NEW r \in Store!JobRecord
    PROVE  LET n == [r EXCEPT !.cancel_requested = TRUE]
           IN  Rewrites(r, n) /\ n.state = r.state /\ n.receipt = r.receipt
<1> DEFINE n == [r EXCEPT !.cancel_requested = TRUE]
<1>1. Shaped(r) /\ FieldTypes(r)
  BY RowShape
<1>2. Shaped(n)
  BY <1>1, ShapedExcept, Zenon
<1>3. FieldTypes(n) /\ n.state = r.state /\ n.receipt = r.receipt
      /\ n.key = r.key /\ n.execution = r.execution /\ n.kind = r.kind
      /\ n.purged = r.purged /\ n.final_state = r.final_state
  BY <1>1 DEF FieldTypes, Shaped, JobFields
<1> HIDE DEF n
<1>4. Rewrites(r, n)
  BY <1>2, <1>3, ShapeRow DEF Rewrites
<1> QED BY <1>3, <1>4 DEF n

\* Naming a receipt and ending the lease.
LEMMA UnleasedRow ==
    ASSUME NEW r \in Store!JobRecord, NEW x \in References
    PROVE  LET n == [r EXCEPT !.receipt = x, !.lease_until = NULL]
           IN  Rewrites(r, n) /\ n.state = r.state /\ n.receipt = x /\ n.cancel_requested = r.cancel_requested
<1> DEFINE n == [r EXCEPT !.receipt = x, !.lease_until = NULL]
<1>1. Shaped(r) /\ FieldTypes(r)
  BY RowShape
<1>2. Shaped(n)
  BY <1>1, ShapedExcept, Zenon
<1>3. FieldTypes(n) /\ n.state = r.state /\ n.receipt = x /\ n.cancel_requested = r.cancel_requested
      /\ n.key = r.key /\ n.execution = r.execution /\ n.kind = r.kind
      /\ n.purged = r.purged /\ n.final_state = r.final_state
  BY <1>1 DEF FieldTypes, Shaped, JobFields
<1> HIDE DEF n
<1>4. Rewrites(r, n)
  BY <1>2, <1>3, ShapeRow DEF Rewrites
<1> QED BY <1>3, <1>4 DEF n

\* The charge of a receipt is in doubt.
LEMMA UnsureRow ==
    ASSUME NEW r \in Store!JobRecord, NEW x \in References
    PROVE  LET n == [r EXCEPT !.receipt = x, !.state = "Uncertain", !.lease_until = NULL]
           IN  Rewrites(r, n) /\ n.state = "Uncertain" /\ n.receipt = x
<1> DEFINE n == [r EXCEPT !.receipt = x, !.state = "Uncertain", !.lease_until = NULL]
<1>1. Shaped(r) /\ FieldTypes(r)
  BY RowShape
<1>2. Shaped(n)
  BY <1>1, ShapedExcept, Zenon
<1>3. FieldTypes(n) /\ n.state = "Uncertain" /\ n.receipt = x
      /\ n.key = r.key /\ n.execution = r.execution /\ n.kind = r.kind
      /\ n.purged = r.purged /\ n.final_state = r.final_state
  BY <1>1, States DEF FieldTypes, Shaped, JobFields
<1> HIDE DEF n
<1>4. Rewrites(r, n)
  BY <1>2, <1>3, ShapeRow DEF Rewrites
<1> QED BY <1>3, <1>4 DEF n

\* Naming a receipt and a deadline.
LEMMA DeadlineRow ==
    ASSUME NEW r \in Store!JobRecord, NEW x \in References, NEW u \in Nat \cup {NULL}
    PROVE  LET n == [r EXCEPT !.receipt = x, !.recovery_until = u]
           IN  Rewrites(r, n) /\ n.state = r.state /\ n.receipt = x /\ n.cancel_requested = r.cancel_requested
<1> DEFINE n == [r EXCEPT !.receipt = x, !.recovery_until = u]
<1>1. Shaped(r) /\ FieldTypes(r)
  BY RowShape
<1>2. Shaped(n)
  BY <1>1, ShapedExcept, Zenon
<1>3. FieldTypes(n) /\ n.state = r.state /\ n.receipt = x /\ n.cancel_requested = r.cancel_requested
      /\ n.key = r.key /\ n.execution = r.execution /\ n.kind = r.kind
      /\ n.purged = r.purged /\ n.final_state = r.final_state
  BY <1>1 DEF FieldTypes, Shaped, JobFields
<1> HIDE DEF n
<1>4. Rewrites(r, n)
  BY <1>2, <1>3, ShapeRow DEF Rewrites
<1> QED BY <1>3, <1>4 DEF n

\* New authority.
LEMMA AdmittedRow ==
    ASSUME NEW r \in Store!JobRecord, NEW a \in Admissions
    PROVE  LET n == Store!AdmitRow(r, a)
           IN  Rewrites(r, n) /\ n.state = "Pending" /\ n.receipt = r.receipt
<1> DEFINE n == Store!AdmitRow(r, a)
<1>1. Shaped(r) /\ FieldTypes(r)
  BY RowShape
<1>2. Shaped(n)
  BY <1>1, ShapedExcept, Zenon DEF Store!AdmitRow
<1>3. FieldTypes(n) /\ n.state = "Pending" /\ n.receipt = r.receipt
      /\ n.key = r.key /\ n.execution = r.execution /\ n.kind = r.kind
      /\ n.purged = r.purged /\ n.final_state = r.final_state
  BY <1>1, States DEF FieldTypes, Shaped, JobFields, Store!AdmitRow
<1> HIDE DEF n
<1>4. Rewrites(r, n)
  BY <1>2, <1>3, ShapeRow DEF Rewrites
<1> QED BY <1>3, <1>4 DEF n

\* A lease.
LEMMA LeaseRow ==
    ASSUME NEW r \in Store!JobRecord, now \in Nat
    PROVE  LET n == Store!Lease(r)
           IN  Rewrites(r, n) /\ n.state = "Running" /\ n.receipt = r.receipt
<1> DEFINE n == Store!Lease(r)
<1>1. Shaped(r) /\ FieldTypes(r)
  BY RowShape
<1>2. Shaped(n)
  BY <1>1, ShapedExcept, Zenon DEF Store!Lease
<1>3. FieldTypes(n) /\ n.state = "Running" /\ n.receipt = r.receipt
      /\ n.key = r.key /\ n.execution = r.execution /\ n.kind = r.kind
      /\ n.purged = r.purged /\ n.final_state = r.final_state
  BY <1>1, States, ModelAssumption DEF FieldTypes, Shaped, JobFields, Store!Lease
<1> HIDE DEF n
<1>4. Rewrites(r, n)
  BY <1>2, <1>3, ShapeRow DEF Rewrites
<1> QED BY <1>3, <1>4 DEF n

\* Dropping the result.
LEMMA CutRow ==
    ASSUME NEW r \in Store!JobRecord, NEW s \in Store!JobState
    PROVE  LET n == [r EXCEPT !.output = NULL, !.state = s]
           IN  Rewrites(r, n) /\ n.state = s /\ n.receipt = r.receipt
<1> DEFINE n == [r EXCEPT !.output = NULL, !.state = s]
<1>1. Shaped(r) /\ FieldTypes(r)
  BY RowShape
<1>2. Shaped(n)
  BY <1>1, ShapedExcept, Zenon
<1>3. FieldTypes(n) /\ n.state = s /\ n.receipt = r.receipt
      /\ n.key = r.key /\ n.execution = r.execution /\ n.kind = r.kind
      /\ n.purged = r.purged /\ n.final_state = r.final_state
  BY <1>1 DEF FieldTypes, Shaped, JobFields
<1> HIDE DEF n
<1>4. Rewrites(r, n)
  BY <1>2, <1>3, ShapeRow DEF Rewrites
<1> QED BY <1>3, <1>4 DEF n

\* Storing no result.
LEMMA EmptyRow ==
    ASSUME NEW r \in Store!JobRecord
    PROVE  LET n == [r EXCEPT !.output = NULL]
           IN  Rewrites(r, n) /\ n.state = r.state /\ n.receipt = r.receipt /\ n.cancel_requested = r.cancel_requested
<1> DEFINE n == [r EXCEPT !.output = NULL]
<1>1. Shaped(r) /\ FieldTypes(r)
  BY RowShape
<1>2. Shaped(n)
  BY <1>1, ShapedExcept, Zenon
<1>3. FieldTypes(n) /\ n.state = r.state /\ n.receipt = r.receipt /\ n.cancel_requested = r.cancel_requested
      /\ n.key = r.key /\ n.execution = r.execution /\ n.kind = r.kind
      /\ n.purged = r.purged /\ n.final_state = r.final_state
  BY <1>1 DEF FieldTypes, Shaped, JobFields
<1> HIDE DEF n
<1>4. Rewrites(r, n)
  BY <1>2, <1>3, ShapeRow DEF Rewrites
<1> QED BY <1>3, <1>4 DEF n

Stops == {"Cancelled", "Purged"}

\* An erased row loses its copies.
LEMMA ErasedRow ==
    ASSUME NEW r \in Store!JobRecord
    PROVE  LET n == Store!Erased(r)
           IN  Rewrites(r, n) /\ n.state = r.state /\ n.receipt = r.receipt
<1>1. Rewrites(r, r)
  BY DEF Rewrites
<1> QED BY <1>1, DeleteCopiesRow DEF Store!Erased

\* ResolveUncertain.
LEMMA UncertainFields ==
    ASSUME NEW r \in Store!JobRecord, NEW x \in References
    PROVE  LET n == Store!UncertainRow(r, x)
           IN  Rewrites(r, n) /\ n.state = "Uncertain" /\ n.receipt = x
<1> DEFINE u == [r EXCEPT !.receipt = x, !.state = "Uncertain", !.lease_until = NULL]
<1>1. Rewrites(r, u) /\ u.state = "Uncertain" /\ u.receipt = x
  BY UnsureRow
<1>2. Store!UncertainRow(r, x) = Store!Erased(u)
  BY DEF Store!UncertainRow
<1> HIDE DEF u
<1>3. Rewrites(u, Store!Erased(u)) /\ Store!Erased(u).state = u.state
      /\ Store!Erased(u).receipt = u.receipt
  BY <1>1, ErasedRow DEF Rewrites
<1> QED BY <1>1, <1>2, <1>3, RewritesTwice

\* A row that ends in a final state and perhaps loses its copies.
LEMMA EndedFields ==
    ASSUME NEW r \in Store!JobRecord, NEW s \in Store!FinalStates, now \in Nat
    PROVE  /\ LET n == Store!DeleteCopies(Store!Finish(r, s))
              IN  Rewrites(r, n) /\ n.state = s /\ n.receipt = r.receipt
           /\ LET n == Store!Erased(Store!Finish(r, s))
              IN  Rewrites(r, n) /\ n.state = s /\ n.receipt = r.receipt
<1> DEFINE f == Store!Finish(r, s)
<1>1. Rewrites(r, f) /\ f.state = s /\ f.receipt = r.receipt
  BY FinishRow
<1> HIDE DEF f
<1>2. f \in Store!JobRecord
  BY <1>1 DEF Rewrites
<1>3. Rewrites(f, Store!DeleteCopies(f)) /\ Store!DeleteCopies(f).state = f.state
      /\ Store!DeleteCopies(f).receipt = f.receipt
  BY <1>2, DeleteCopiesRow
<1>4. Rewrites(f, Store!Erased(f)) /\ Store!Erased(f).state = f.state
      /\ Store!Erased(f).receipt = f.receipt
  BY <1>2, ErasedRow
<1>5. Rewrites(r, Store!DeleteCopies(f)) /\ Rewrites(r, Store!Erased(f))
  BY <1>1, <1>3, <1>4, RewritesTwice
<1> QED BY <1>1, <1>3, <1>4, <1>5 DEF f

\* ResolveKnownZeroCharge.
LEMMA ZeroFields ==
    ASSUME NEW r \in Store!JobRecord, NEW x \in References, now \in Nat
    PROVE  LET n == Store!ZeroChargeRow(r, x)
           IN  /\ Rewrites(r, n) /\ n.receipt = x
               /\ n.state \in Stops \cup {"Refused", "Pending", "AwaitingAdmission"}
<1> DEFINE z == [r EXCEPT !.receipt = x, !.lease_until = NULL]
           s == IF r.admission # NULL THEN "AwaitingAdmission" ELSE "Pending"
<1>1. Rewrites(r, z) /\ z.receipt = x /\ z \in Store!JobRecord
  BY UnleasedRow DEF Rewrites
<1>2. Store!ZeroChargeRow(r, x) =
        IF r.purged THEN Store!DeleteCopies(Store!Finish(z, "Purged"))
        ELSE IF r.cancel_requested THEN Store!DeleteCopies(Store!Finish(z, "Cancelled"))
        ELSE IF r.generation >= r.max_attempts THEN Store!Finish(z, "Refused")
        ELSE [z EXCEPT !.state = s]
  BY DEF Store!ZeroChargeRow
<1>3. s \in Store!JobState /\ s \in {"Pending", "AwaitingAdmission"}
  BY States
<1> HIDE DEF z, s
<1>4. \A t \in {"Purged", "Cancelled"} :
         LET n == Store!DeleteCopies(Store!Finish(z, t))
         IN  Rewrites(r, n) /\ n.state = t /\ n.receipt = x
  BY <1>1, EndedFields, RewritesTwice, States
<1>5. LET n == Store!Finish(z, "Refused") IN Rewrites(r, n) /\ n.state = "Refused" /\ n.receipt = x
  BY <1>1, FinishRow, RewritesTwice, States
<1>6. LET n == [z EXCEPT !.state = s] IN Rewrites(r, n) /\ n.state = s /\ n.receipt = x
  BY <1>1, <1>3, StateRow, RewritesTwice
<1> QED BY <1>2, <1>3, <1>4, <1>5, <1>6 DEF Stops

\* The state a resolved row ends in.
LEMMA EndStates ==
    ASSUME NEW r, NEW s \in Store!FinalStates
    PROVE  Store!EndState(r, s) \in Stops \cup {s} /\ Store!EndState(r, s) \in Store!FinalStates
BY States DEF Store!EndState, Stops

\* ResolvePaidResult and ResolveFailed.
LEMMA PaidFields ==
    ASSUME NEW r \in Store!JobRecord, NEW x \in References, NEW until \in Nat \cup {NULL}, now \in Nat
    PROVE  LET n == Store!PaidRow(r, x, until)
           IN  Rewrites(r, n) /\ n.receipt = x /\ n.state \in Stops \cup {"Succeeded"}
<1> DEFINE u == Store!Earlier(r.recovery_until, until)
           d == [r EXCEPT !.receipt = x, !.recovery_until = u]
           s == Store!EndState(r, "Succeeded")
<1>1. u \in Nat \cup {NULL}
  BY RowShape DEF FieldTypes, Store!Earlier
<1>2. Store!PaidRow(r, x, until) = Store!Erased(Store!Finish(d, s))
  BY DEF Store!PaidRow
<1>3. s \in Stops \cup {"Succeeded"} /\ s \in Store!FinalStates
  BY EndStates, States
<1> HIDE DEF u, s
<1>4. Rewrites(r, d) /\ d.receipt = x /\ d \in Store!JobRecord
  <2>1. Rewrites(r, d) /\ d.receipt = x
    BY <1>1, DeadlineRow
  <2> HIDE DEF d
  <2> QED BY <2>1 DEF Rewrites
<1> HIDE DEF d
<1>5. LET n == Store!Erased(Store!Finish(d, s))
      IN  Rewrites(d, n) /\ n.state = s /\ n.receipt = x
  BY <1>3, <1>4, EndedFields
<1> QED BY <1>2, <1>3, <1>4, <1>5, RewritesTwice

\* The same for a failure.
LEMMA FailedFields ==
    ASSUME NEW r \in Store!JobRecord, NEW x \in References, now \in Nat
    PROVE  LET n == Store!FailedRow(r, x)
           IN  Rewrites(r, n) /\ n.receipt = x /\ n.state \in Stops \cup {"Failed"}
<1> DEFINE d == [r EXCEPT !.receipt = x]
           s == Store!EndState(r, "Failed")
<1>1. Store!FailedRow(r, x) = Store!Erased(Store!Finish(d, s))
  BY DEF Store!FailedRow
<1>2. s \in Stops \cup {"Failed"} /\ s \in Store!FinalStates
  BY EndStates, States
<1>3. Rewrites(r, d) /\ d.receipt = x /\ d \in Store!JobRecord
  BY ReceiptRow DEF Rewrites
<1> HIDE DEF d, s
<1>4. LET n == Store!Erased(Store!Finish(d, s))
      IN  Rewrites(d, n) /\ n.state = s /\ n.receipt = x
  BY <1>2, <1>3, EndedFields
<1> QED BY <1>1, <1>2, <1>3, <1>4, RewritesTwice

\* Complete, for a cancelled job that is not erased.
LEMMA CancelledFields ==
    ASSUME NEW r \in Store!JobRecord, NEW x \in References, now \in Nat,
           r.cancel_requested, ~r.purged
    PROVE  LET n == Store!CompleteRow(r, "Cancelled", NULL, x)
           IN  Rewrites(r, n) /\ n.receipt = x /\ n.state = "Cancelled"
<1> DEFINE c == [r EXCEPT !.receipt = x]
           e == [c EXCEPT !.output = NULL]
           f == Store!Finish(e, "Cancelled")
           g == [f EXCEPT !.output = NULL, !.state = IF f.state = "Cancelled" THEN f.state ELSE "Failed"]
<1>1. Store!CompleteRow(r, "Cancelled", NULL, x) = IF Store!Undeliverable(f) THEN g ELSE f
  BY DEF Store!CompleteRow
<1>2. Rewrites(r, c) /\ c.receipt = x /\ c \in Store!JobRecord
  BY ReceiptRow DEF Rewrites
<1> HIDE DEF c
<1>3. Rewrites(c, e) /\ e.receipt = x /\ e \in Store!JobRecord
  BY <1>2, EmptyRow DEF Rewrites
<1> HIDE DEF e
<1>4. Rewrites(e, f) /\ f.receipt = x /\ f.state = "Cancelled" /\ f \in Store!JobRecord
  BY <1>3, FinishRow, States DEF Rewrites
<1> HIDE DEF f
<1>5. g = [f EXCEPT !.output = NULL, !.state = "Cancelled"]
  BY <1>4
<1>6. Rewrites(f, g) /\ g.receipt = x /\ g.state = "Cancelled"
  <2> DEFINE h == [f EXCEPT !.output = NULL, !.state = "Cancelled"]
  <2>1. "Cancelled" \in Store!JobState
    BY States
  <2>2. Rewrites(f, h) /\ h.state = "Cancelled" /\ h.receipt = f.receipt
    BY <1>4, <2>1, CutRow
  <2>3. g = h
    BY <1>5
  <2> HIDE DEF g, h
  <2> QED BY <1>4, <2>2, <2>3
<1> HIDE DEF g
<1>7. Rewrites(r, f) /\ Rewrites(r, g)
  BY <1>2, <1>3, <1>4, <1>6, RewritesTwice
<1> QED BY <1>1, <1>4, <1>6, <1>7

\* A claim that may not be granted ends the job.
LEMMA EndUnclaimedFields ==
    ASSUME NEW r \in Store!JobRecord, now \in Nat
    PROVE  LET n == Store!EndUnclaimed(r)
           IN  Rewrites(r, n) /\ n.receipt = r.receipt /\ n.state \in Stops \cup {"Refused"}
<1>1. Store!StoppedState(r) \in Stops /\ Store!StoppedState(r) \in Store!FinalStates
  BY States DEF Store!StoppedState, Stops
<1> QED BY <1>1, EndedFields, FinishRow, States DEF Store!EndUnclaimed

\* A cancellation ends waiting work and is noted on the rest.
LEMMA CancelFields ==
    ASSUME NEW r \in Store!JobRecord, now \in Nat
    PROVE  LET n == Store!CancelRow(r)
           IN  Rewrites(r, n) /\ n.receipt = r.receipt /\ n.state \in Stops \cup {r.state}
<1>1. Store!StoppedState(r) \in Stops /\ Store!StoppedState(r) \in Store!FinalStates
  BY States DEF Store!StoppedState, Stops
<1> QED BY <1>1, EndedFields, CancelSet DEF Store!CancelRow

\* A delivery.
LEMMA DeliveredFields ==
    ASSUME NEW r \in Store!JobRecord, now \in Nat
    PROVE  LET n == Store!DeliveredRow(r)
           IN  Rewrites(r, n) /\ n.receipt = r.receipt /\ n.state = r.state
<1> DEFINE d == IF Store!Past(r.recovery_until) THEN Store!Expire(r) ELSE r
           n == [d EXCEPT !.delivery_generation = @ + 1, !.delivery_until = now + DeliveryLease]
<1>1. Store!DeliveredRow(r) = n
  BY DEF Store!DeliveredRow
<1>2. Rewrites(r, d) /\ d.state = r.state /\ d.receipt = r.receipt
  BY ExpireRow DEF Rewrites
<1> HIDE DEF d
<1>3. Shaped(d) /\ FieldTypes(d) /\ now + DeliveryLease \in Nat
  BY <1>2, RowShape, ModelAssumption DEF Rewrites
<1>4. Shaped(n)
  BY <1>3, ShapedExcept, Zenon
<1>5. FieldTypes(n) /\ n.state = d.state /\ n.receipt = d.receipt
      /\ n.key = d.key /\ n.execution = d.execution /\ n.kind = d.kind
      /\ n.purged = d.purged /\ n.final_state = d.final_state
  BY <1>3 DEF FieldTypes, Shaped, JobFields
<1> HIDE DEF n
<1>6. Rewrites(d, n)
  BY <1>4, <1>5, ShapeRow DEF Rewrites
<1> QED BY <1>1, <1>2, <1>5, <1>6, RewritesTwice

\* An erased row of a paid job.
LEMMA PurgeFields ==
    ASSUME NEW r \in Store!JobRecord, now \in Nat, r.execution = "Model"
    PROVE  LET n == Store!PurgeRow(r)
           IN  /\ n \in Store!JobRecord /\ n.key = r.key /\ n.execution = r.execution /\ n.kind = r.kind
               /\ n.purged /\ n.receipt = r.receipt
               /\ \/ n.state = "Purged"
                  \/ n.state = r.state /\ r.state \in {"Running", "Uncertain", "Accepted", "Discarded"}
<1> DEFINE e == [r EXCEPT !.purged = TRUE, !.owners = {}, !.cancel_requested = TRUE]
           p == Store!DeleteCopies(e)
<1>1. Store!PurgeRow(r) = IF Store!Claimable(p) \/ ~(p.state \in {"Running", "Uncertain"} \/ Store!Acked(p))
                          THEN Store!Finish(p, "Purged") ELSE p
  BY DEF Store!PurgeRow
<1>2. Shaped(r) /\ FieldTypes(r)
  BY RowShape
<1>3. Shaped(e)
  BY <1>2, ShapedExcept, Zenon
<1>4. FieldTypes(e) /\ e.state = r.state /\ e.receipt = r.receipt /\ e.key = r.key
      /\ e.execution = r.execution /\ e.kind = r.kind /\ e.purged
  BY <1>2 DEF FieldTypes, Shaped, JobFields
<1> HIDE DEF e
<1>5. Rewrites(e, p) /\ p.state = e.state /\ p.receipt = e.receipt /\ p \in Store!JobRecord
  BY <1>3, <1>4, ShapeRow, DeleteCopiesRow DEF Rewrites
<1> HIDE DEF p
<1>6. LET f == Store!Finish(p, "Purged") IN Rewrites(p, f) /\ f.state = "Purged" /\ f.receipt = p.receipt
  BY <1>5, FinishRow, States
<1> QED BY <1>1, <1>4, <1>5, <1>6 DEF Rewrites, Store!Claimable, Store!Acked, Store!AckedStates

\* A confirmed row of a paid job keeps its key, kind and receipt.
LEMMA TombstoneFields ==
    ASSUME NEW r \in Store!JobRecord, NEW d \in {"Accepted", "Discarded"},
           r.execution = "Model", r.state \in Store!FinalStates
    PROVE  LET n == Store!Tombstone(r, d)
           IN  /\ n \in Store!JobRecord /\ n.key = r.key /\ n.execution = r.execution /\ n.kind = r.kind
               /\ n.receipt = r.receipt /\ n.state = d
BY RowShape, States DEF Store!Tombstone, Store!JobRecord, FieldTypes

\* A submitted job.
LEMMA NewFields ==
    ASSUME NEW s \in Specs, now \in Nat
    PROVE  LET n == Store!NewRow(s)
           IN  /\ n \in Store!JobRecord /\ n.key = s.key /\ n.execution = "Model" /\ n.kind # NULL
               /\ n.receipt = NULL /\ n.state = "Pending" /\ ~ErasedJob(n)
<1>1. s \in Store!JobSpec /\ s.execution = "Model"
  BY ModelAssumption
<1>2. Store!NewRow(s) \in Store!JobRecord
  BY <1>1, States DEF Store!NewRow, Store!JobSpec, Store!JobRecord, Store!Execution
<1>3. NULL # "Purged"
  BY ModelNullAssumption, States
<1> QED BY <1>1, <1>2, <1>3, ModelNullAssumption DEF Store!NewRow, Store!JobSpec, ErasedJob

----------------------------------------------------------------------------
(* Receipts: what the ledger's row functions assign.                       *)

\* b is the receipt a after some evidence, or a itself.
Later(a, b) ==
    /\ ReceiptOK(b) /\ b.reservation = a.reservation
    /\ a.state # "Unknown" => b.state = a.state
    /\ a.output => b.output
\* b is the receipt a, perhaps without its answer.
Shrinks(a, b) ==
    /\ ReceiptOK(b) /\ b.reservation = a.reservation /\ b.state = a.state /\ b.output = a.output
    /\ b.recovery # NULL => a.recovery # NULL

\* Clearing removes the answer and nothing else.
LEMMA ClearedShrinks ==
    ASSUME NEW m, ReceiptOK(m)
    PROVE  Shrinks(m, Ledger!Cleared(m)) /\ Ledger!Cleared(m).recovery = NULL
BY DEF ReceiptOK, ReceiptFields, Shrinks, Ledger!Cleared

\* A receipt under the policy of its job.
LEMMA NarrowedShrinks ==
    ASSUME NEW m, ReceiptOK(m), NEW q, q # NULL => q.deadline \in Nat \cup {NULL}
    PROVE  Shrinks(m, Narrowed(m, q))
<1> DEFINE u == IF m.expires = NULL \/ q = NULL THEN m.expires
                ELSE Ledger!Earlier(m.expires, q.deadline)
           n == [m EXCEPT !.expires = u]
<1>1. u \in Nat \cup {NULL}
  BY DEF ReceiptOK, Ledger!Earlier
<1>2. Narrowed(m, q) \in {Ledger!Cleared(m), n}
  BY DEF Narrowed
<1> HIDE DEF u
<1>3. Shrinks(m, n)
  BY <1>1 DEF ReceiptOK, ReceiptFields, Shrinks
<1> HIDE DEF n
<1> QED BY <1>2, <1>3, ClearedShrinks

\* Evidence about an unresolved receipt.
LEMMA FinishedLater ==
    ASSUME NEW m, ReceiptOK(m), m.state = "Unknown", NEW s \in {"Unknown", "Released", "Settled"},
           NEW u, NEW o, s = "Released" => ~m.output /\ o = NULL
    PROVE  LET b == Ledger!Finished(m, s, u, o)
           IN  Later(m, b) /\ b.state = s /\ b.recovery = m.recovery /\ (o # NULL => b.output)
<1> DEFINE b == Ledger!Finished(m, s, u, o)
<1>1. /\ b = [f \in ReceiptFields |-> b[f]] /\ b.reservation = m.reservation
      /\ b.state = s /\ b.recovery = m.recovery /\ b.expires = m.expires
      /\ b.attempt_limit = m.attempt_limit
  BY DEF ReceiptOK, ReceiptFields, Ledger!Finished
<1>2. b.output = (m.output \/ o # NULL)
  BY DEF ReceiptOK, ReceiptFields, Ledger!Finished
<1> HIDE DEF b
<1>3. Later(m, b)
  BY <1>1, <1>2 DEF ReceiptOK, Later
<1> QED BY <1>1, <1>2, <1>3 DEF b

\* A released attempt.
LEMMA ReleasedLater ==
    ASSUME NEW m, ReceiptOK(m), m.state = "Unknown", ~m.output
    PROVE  LET b == Ledger!Released(m)
           IN  Later(m, b) /\ b.state = "Released" /\ b.recovery = m.recovery
<1> DEFINE f == Ledger!Finished(m, "Released", NULL, NULL)
           x == IF Ledger!Explicit(m) /\ ~m.pre_dispatch_released THEN f.attempts_used - 1
                ELSE f.attempts_used
           b == [f EXCEPT !.pre_dispatch_released = TRUE, !.attempts_used = x]
<1>1. Ledger!Released(m) = b
  BY DEF Ledger!Released
<1>2. Later(m, f) /\ f.state = "Released" /\ f.recovery = m.recovery
  BY FinishedLater
<1> HIDE DEF f, x
<1>3. Later(m, b) /\ b.state = "Released" /\ b.recovery = m.recovery
  BY <1>2 DEF Later, ReceiptOK, ReceiptFields
<1> QED BY <1>1, <1>3

\* The deadline a policy gives an answer.
DeadlineOK(q) == q # NULL => q.deadline \in Nat \cup {NULL}

\* The evidence of a call: what finish_in and save_recovery_in record.  A new
\* answer is saved only when the job of the invocation is not erased.
LEMMA RecordedLater ==
    ASSUME NEW m, ReceiptOK(m), NEW outcome \in Outcomes, Recordable(m, outcome),
           NEW answer, answer # NULL => Received(outcome), now \in Nat,
           NEW deadline \in Nat \cup {NULL}, NEW k \in Keys, m.reservation.invocation = k,
           DeadlineOK(PolicyOf(jobs, k))
    PROVE  LET b == Recorded(m, outcome, answer, deadline, k)
           IN  /\ Later(m, b) /\ b.state = Evidence(outcome) /\ (Received(outcome) => b.output)
               /\ m.state = "Unknown" \/ b = m
               /\ b.recovery # NULL => \/ m.recovery # NULL
                                       \/ PolicyOf(jobs, k) = NULL
                                       \/ ~PolicyOf(jobs, k).erased
<1> DEFINE q == Ledger!PolicyFor(k, m)
           until == Ledger!Earlier(deadline, q.deadline)
           v == Ledger!Earlier(until, now + AnswerRetention)
           s == Ledger!Saved(m, answer, deadline, k)
           o == IF Received(outcome) THEN Ledger!Received ELSE NULL
           e == Evidence(outcome)
           b == Ledger!Finished(s, e, UsageOf(outcome), o)
<1>1. CASE Repeats(m, outcome)
  BY <1>1 DEF Recorded, Repeats, Later
<1>2. CASE ~Repeats(m, outcome)
  <2>1. Recorded(m, outcome, answer, deadline, k) = b
    BY <1>2 DEF Recorded
  <2>2. /\ m.state = "Unknown" /\ (e = "Released" => ~m.output /\ ~Received(outcome))
        /\ e \in {"Unknown", "Released", "Settled"}
    BY <1>2 DEF Recordable, Ledger!Resolvable, Evidence, Received, Outcomes
  <2>3. /\ q.deadline \in Nat \cup {NULL}
        /\ q.erased <=> PolicyOf(jobs, k) # NULL /\ PolicyOf(jobs, k).erased
    BY ModelNullAssumption DEF Ledger!PolicyFor, Ledger!NoPolicy, DeadlineOK
  <2>4. s = m \/ (answer # NULL /\ ~q.erased /\ s = [m EXCEPT !.recovery = answer, !.expires = v])
    BY ModelNullAssumption DEF Ledger!Saved
  <2>5. v \in Nat \cup {NULL}
    <3>1. now + AnswerRetention \in Nat /\ until \in Nat \cup {NULL}
      BY <2>3, ModelAssumption DEF Ledger!Earlier
    <3> HIDE DEF until
    <3> QED BY <3>1 DEF Ledger!Earlier
  <2> HIDE DEF q, v, until
  <2>6. /\ s = [f \in ReceiptFields |-> s[f]] /\ s.reservation = m.reservation /\ s.state = m.state
        /\ s.output = m.output /\ s.attempt_limit = m.attempt_limit /\ s.expires \in Nat \cup {NULL}
        /\ s.recovery # m.recovery => Received(outcome) /\ ~q.erased
    BY <2>4, <2>5 DEF ReceiptOK, ReceiptFields
  <2> HIDE DEF s
  <2>7. /\ b = [f \in ReceiptFields |-> b[f]] /\ b.reservation = s.reservation
        /\ b.state = e /\ b.recovery = s.recovery /\ b.expires = s.expires
        /\ b.attempt_limit = s.attempt_limit
    BY <2>6 DEF ReceiptFields, Ledger!Finished
  <2>8. b.output = (m.output \/ o # NULL)
    BY <2>6 DEF ReceiptFields, Ledger!Finished
  <2>9. o # NULL <=> Received(outcome)
    BY ModelNullAssumption
  <2> HIDE DEF b, o, e
  <2>10. ReceiptOK(b)
    BY <2>2, <2>6, <2>7, <2>8, <2>9 DEF ReceiptOK
  <2>11. Later(m, b) /\ (Received(outcome) => b.output)
    BY <2>2, <2>6, <2>7, <2>8, <2>9, <2>10 DEF Later
  <2>12. b.recovery # NULL => m.recovery # NULL \/ ~q.erased
    BY <2>6, <2>7
  <2> QED BY <2>1, <2>2, <2>3, <2>7, <2>11, <2>12 DEF e
<1> QED BY <1>1, <1>2

----------------------------------------------------------------------------
(* The ledger: rewriting receipts, appending one, a charge.                *)

\* A table of receipts has a length.
LEMMA ListedTable ==
    ASSUME NEW R, Listed(R)
    PROVE  /\ Len(R) \in Nat /\ DOMAIN R = 1..Len(R) /\ DOMAIN R \subseteq Nat
           /\ R = [n \in DOMAIN R |-> R[n]]
BY DEF Listed

\* Rewriting rows keeps a table.
LEMMA ListedMap ==
    ASSUME NEW R, Listed(R), NEW R2, R2 = [n \in DOMAIN R |-> R2[n]]
    PROVE  Listed(R2) /\ DOMAIN R2 = DOMAIN R
<1> DEFINE S == {R2[n] : n \in DOMAIN R}
<1>1. Len(R) \in Nat /\ DOMAIN R = 1..Len(R) /\ DOMAIN R2 = DOMAIN R
  BY ListedTable
<1>2. R2 \in [1..Len(R) -> S]
  BY <1>1
<1> HIDE DEF S
<1>3. R2 \in Seq(S)
  BY <1>1, <1>2
<1> QED BY <1>1, <1>3 DEF S, Listed

\* A new row goes to the end.
LEMMA ListedAppend ==
    ASSUME NEW R, Listed(R), NEW m
    PROVE  LET R2 == Append(R, m)
           IN  /\ Listed(R2) /\ DOMAIN R2 = DOMAIN R \cup {Len(R) + 1}
               /\ Len(R) + 1 \notin DOMAIN R /\ R2[Len(R) + 1] = m
               /\ \A n \in DOMAIN R : R2[n] = R[n] /\ n < Len(R) + 1
<1> DEFINE R2 == Append(R, m)
           S == {R[n] : n \in DOMAIN R} \cup {m}
<1>1. Len(R) \in Nat /\ DOMAIN R = 1..Len(R)
  BY ListedTable
<1>2. R \in Seq(S) /\ m \in S
  <2>1. R \in [1..Len(R) -> S]
    BY <1>1, ListedTable
  <2> QED BY <1>1, <2>1
<1> HIDE DEF S
<1>3. /\ R2 \in Seq(S) /\ Len(R2) = Len(R) + 1 /\ R2[Len(R) + 1] = m
      /\ \A n \in 1..Len(R) : R2[n] = R[n]
  BY <1>1, <1>2
<1> HIDE DEF R2
<1>4. DOMAIN R2 = 1..(Len(R) + 1)
  BY <1>3
<1>5. R2 = [n \in DOMAIN R2 |-> R2[n]]
  BY <1>3
<1>6. R2 \in [1..(Len(R) + 1) -> {R2[n] : n \in DOMAIN R2}]
  BY <1>4, <1>5
<1>7. Listed(R2)
  BY <1>1, <1>6 DEF Listed
<1> QED BY <1>1, <1>3, <1>4, <1>7 DEF R2

\* Receipts that only receive evidence keep the ledger sound, as long as
\* nothing charged is released.
LEMMA LedgerKept ==
    ASSUME NEW R, NEW R2, NEW B, LedgerOK(R, B), R2 = [n \in DOMAIN R |-> R2[n]],
           \A n \in DOMAIN R : /\ Later(R[n], R2[n])
                               /\ R[n].state = "Unknown" /\ R2[n].state = "Released" => Ref(R, n) \notin B
    PROVE  LedgerOK(R2, B)
<1>1. Listed(R2) /\ DOMAIN R2 = DOMAIN R
  BY ListedMap DEF LedgerOK
<1>2. \A n \in DOMAIN R : Ref(R2, n) = Ref(R, n) /\ KeyOf(R2, n) = KeyOf(R, n)
  BY DEF Later, Ref, KeyOf
<1>3. \A n \in DOMAIN R2 : ReceiptOK(R2[n]) /\ (R2[n].state = "Released" => Ref(R2, n) \notin B)
  BY <1>1, <1>2 DEF LedgerOK, Later
<1>4. \A m, n \in DOMAIN R2 : KeyOf(R2, m) = KeyOf(R2, n) /\ m < n => R2[m].state = "Released"
  BY <1>1, <1>2 DEF LedgerOK, Later
<1>5. \A m, n \in DOMAIN R2 : Ref(R2, m) = Ref(R2, n) => m = n
  BY <1>1, <1>2 DEF LedgerOK
<1>6. \A b \in B : \E n \in DOMAIN R2 : Ref(R2, n) = b
  BY <1>1, <1>2 DEF LedgerOK
<1> QED BY <1>1, <1>3, <1>4, <1>5, <1>6 DEF LedgerOK

\* A new attempt follows released ones only and has its own reference.
LEMMA LedgerAppended ==
    ASSUME NEW R, NEW B, LedgerOK(R, B), NEW m, ReceiptOK(m), m.state = "Unknown",
           \A n \in DOMAIN R : Ref(R, n) # m.reservation.reference,
           \A n \in DOMAIN R : KeyOf(R, n) = m.reservation.invocation => R[n].state = "Released"
    PROVE  LedgerOK(Append(R, m), B)
<1> DEFINE R2 == Append(R, m)
<1>1. /\ Listed(R2) /\ DOMAIN R2 = DOMAIN R \cup {Len(R) + 1}
      /\ Len(R) + 1 \notin DOMAIN R /\ R2[Len(R) + 1] = m
      /\ \A n \in DOMAIN R : R2[n] = R[n] /\ n < Len(R) + 1
  BY ListedAppend DEF LedgerOK
<1>2. DOMAIN R \subseteq Nat /\ Len(R) \in Nat
  BY ListedTable DEF LedgerOK
<1> HIDE DEF R2
<1>3. \A n \in DOMAIN R2 : ReceiptOK(R2[n]) /\ (R2[n].state = "Released" => Ref(R2, n) \notin B)
  BY <1>1 DEF LedgerOK, Ref
<1>4. \A i, n \in DOMAIN R2 : Ref(R2, i) = Ref(R2, n) => i = n
  BY <1>1 DEF LedgerOK, Ref
<1>5. \A i, n \in DOMAIN R2 : KeyOf(R2, i) = KeyOf(R2, n) /\ i < n => R2[i].state = "Released"
  <2>1. SUFFICES ASSUME NEW i \in DOMAIN R2, NEW n \in DOMAIN R2, KeyOf(R2, i) = KeyOf(R2, n), i < n
                 PROVE  R2[i].state = "Released"
    OBVIOUS
  <2>2. i \in DOMAIN R
    BY <1>1, <1>2, <2>1
  <2>3. CASE n \in DOMAIN R
    BY <1>1, <2>1, <2>2, <2>3 DEF LedgerOK, KeyOf
  <2>4. CASE n = Len(R) + 1
    BY <1>1, <2>1, <2>2, <2>4 DEF KeyOf
  <2> QED BY <1>1, <2>1, <2>3, <2>4
<1>6. \A b \in B : \E n \in DOMAIN R2 : Ref(R2, n) = b
  BY <1>1 DEF LedgerOK, Ref
<1>7. LedgerOK(R2, B)
  BY <1>1, <1>3, <1>4, <1>5, <1>6 DEF LedgerOK
<1> QED BY <1>7 DEF R2

\* The provider charges for a receipt that was not released.
LEMMA LedgerCharged ==
    ASSUME NEW R, NEW B, LedgerOK(R, B), NEW n \in DOMAIN R, R[n].state = "Unknown"
    PROVE  LedgerOK(R, B \cup {Ref(R, n)})
<1>1. \A i \in DOMAIN R : R[i].state = "Released" => Ref(R, i) \notin B \cup {Ref(R, n)}
  BY DEF LedgerOK
<1> QED BY <1>1 DEF LedgerOK

\* The latest receipt of an invocation is the only one not released.
LEMMA OnlyLatest ==
    ASSUME NEW R, NEW B, LedgerOK(R, B), NEW m \in DOMAIN R, NEW n \in DOMAIN R,
           KeyOf(R, m) = KeyOf(R, n), R[m].state # "Released", R[n].state # "Released"
    PROVE  m = n
<1>1. m \in Nat /\ n \in Nat
  BY ListedTable DEF LedgerOK
<1> QED BY <1>1 DEF LedgerOK

----------------------------------------------------------------------------
(* The jobs: rows that name receipts, and the answers of erased rows.      *)

Grown(R, R2) == DOMAIN R \subseteq DOMAIN R2 /\ \A n \in DOMAIN R : Later(R[n], R2[n])
\* An answer that was not there before belongs to no erased job.
NewAnswers(J, R, R2) ==
    \A n \in DOMAIN R2 : R2[n].recovery # NULL =>
        \/ n \in DOMAIN R /\ R[n].recovery # NULL
        \/ \A i \in Ids : J[i] # NULL /\ J[i].key = KeyOf(R2, n) => ~ErasedJob(J[i])

WaitStates == {"Pending", "AwaitingAdmission"}
Unpaid == {"Failed", "Cancelled", "Refused", "Purged", "Accepted", "Discarded"}

\* References are values, and unique, in a sound ledger.
LEMMA Named ==
    ASSUME NEW R, NEW B, LedgerOK(R, B), NEW n \in DOMAIN R
    PROVE  Ref(R, n) \in References /\ Ref(R, n) # NULL /\ KeyOf(R, n) \in Keys
BY ModelNullAssumption DEF LedgerOK, ReceiptOK, Ref, KeyOf

\* A row that keeps its receipt and gains no claim or success stays linked.
LEMMA LinkedKept ==
    ASSUME NEW R, NEW R2, NEW B2, LedgerOK(R2, B2), Grown(R, R2),
           NEW r, NEW n, Linked(R, r), n.receipt = r.receipt, n.key = r.key,
           \/ n.state = r.state \/ n.state \in Unpaid
           \/ n.state \in WaitStates /\ r.state \in WaitStates
    PROVE  Linked(R2, n)
<1>1. \A i \in DOMAIN R : /\ i \in DOMAIN R2 /\ Ref(R2, i) = Ref(R, i) /\ KeyOf(R2, i) = KeyOf(R, i)
                          /\ R[i].output => R2[i].output
                          /\ R[i].state = "Released" => R2[i].state = "Released"
  BY DEF Grown, Later, Ref, KeyOf
<1>2. n.receipt # NULL => \E i \in DOMAIN R2 : Ref(R2, i) = n.receipt /\ KeyOf(R2, i) = n.key
  BY <1>1 DEF Linked
<1>3. n.state \in {"Running", "Uncertain"} => n.receipt # NULL
  BY DEF Linked, Unpaid, WaitStates
<1>4. ASSUME n.state \in WaitStates, NEW j \in DOMAIN R2, Ref(R2, j) = n.receipt
      PROVE  R2[j].state = "Released"
  <2>1. n.receipt # NULL
    BY <1>4, Named
  <2>2. PICK i \in DOMAIN R : Ref(R, i) = r.receipt
    BY <2>1 DEF Linked
  <2>3. r.state \in WaitStates
    BY <1>4 DEF Unpaid, WaitStates
  <2>4. R[i].state = "Released"
    BY <2>2, <2>3 DEF Linked, WaitStates
  <2>5. i = j
    BY <1>1, <1>4, <2>2 DEF LedgerOK
  <2> QED BY <1>1, <2>4, <2>5
<1>5. n.state = "Succeeded" => \E i \in DOMAIN R2 : Ref(R2, i) = n.receipt /\ R2[i].output
  BY <1>1 DEF Linked, Unpaid, WaitStates
<1> QED BY <1>2, <1>3, <1>4, <1>5 DEF Linked, WaitStates

\* A row that names receipt m of its invocation.
LEMMA LinkedTo ==
    ASSUME NEW R, NEW B, LedgerOK(R, B), NEW m \in DOMAIN R,
           NEW n, n.receipt = Ref(R, m), n.key = KeyOf(R, m),
           n.state \in WaitStates => R[m].state = "Released",
           n.state = "Succeeded" => R[m].output
    PROVE  Linked(R, n)
<1>1. n.receipt # NULL
  BY Named
<1>2. \A j \in DOMAIN R : Ref(R, j) = n.receipt => j = m
  BY DEF LedgerOK
<1> QED BY <1>1, <1>2 DEF Linked, WaitStates

\* A step that turns row r into n.
Moves(R2, r, n) ==
    /\ n \in Store!JobRecord /\ n.key = r.key /\ n.execution = r.execution /\ n.kind = r.kind
    /\ Linked(R2, n) /\ (ErasedJob(n) => ErasedJob(r) \/ Gone(R2, r.key))

\* Erased rows keep their invocations free of answers.
LEMMA StaysGone ==
    ASSUME NEW J, NEW R, NEW R2, NewAnswers(J, R, R2), Grown(R, R2),
           NEW i \in Ids, J[i] # NULL, ErasedJob(J[i]), Gone(R, J[i].key)
    PROVE  Gone(R2, J[i].key)
BY DEF NewAnswers, Grown, Gone, Later, KeyOf

\* Rows move soundly, or stay.
RowsMove(J, J2, R2) ==
    /\ J2 = [i \in Ids |-> J2[i]]
    /\ \A i \in Ids : J2[i] = J[i] \/ (J[i] # NULL /\ Moves(R2, J[i], J2[i]))
KeepsRows(J, J2) == \A i \in Ids : J[i] # NULL => J2[i] # NULL /\ J2[i].key = J[i].key

\* The jobs after a step whose rows move soundly.
LEMMA JobsKept ==
    ASSUME NEW J, NEW R, NEW J2, NEW R2, NEW B2, JobsOK(J, R), LedgerOK(R2, B2), Grown(R, R2),
           NewAnswers(J, R, R2), RowsMove(J, J2, R2)
    PROVE  JobsOK(J2, R2) /\ KeepsRows(J, J2)
<1> USE DEF RowsMove
<1>1. \A i \in Ids : J[i] # NULL => J2[i] # NULL /\ J2[i].key = J[i].key
  BY ModelNullAssumption DEF Moves
<1>2. ASSUME NEW i \in Ids, J2[i] # NULL PROVE JobOK(R2, J2[i])
  <2>1. J[i] # NULL /\ JobOK(R, J[i])
    BY <1>2 DEF JobsOK
  <2>2. ErasedJob(J[i]) => Gone(R2, J[i].key)
    BY <2>1, StaysGone DEF JobOK
  <2>3. CASE J2[i] = J[i]
    <3>1. Linked(R2, J[i])
      BY <2>1, LinkedKept DEF JobOK
    <3> QED BY <2>1, <2>2, <2>3, <3>1 DEF JobOK
  <2>4. CASE Moves(R2, J[i], J2[i])
    BY <2>1, <2>2, <2>4 DEF JobOK, Moves
  <2> QED BY <1>2, <2>3, <2>4
<1>3. \A i, j \in Ids : J2[i] # NULL /\ J2[j] # NULL /\ J2[i].key = J2[j].key => i = j
  <2>1. \A i \in Ids : J2[i] # NULL => J[i] # NULL /\ J2[i].key = J[i].key
    BY <1>1
  <2> QED BY <2>1 DEF JobsOK
<1> QED BY <1>1, <1>2, <1>3 DEF JobsOK, KeepsRows

\* What the ledger reads of a job.
LEMMA PolicyOfRow ==
    ASSUME NEW J, NEW R, JobsOK(J, R), NEW i \in Ids, J[i] # NULL
    PROVE  LET q == PolicyOf(J, J[i].key)
           IN  /\ q # NULL /\ q.erased = ErasedJob(J[i]) /\ q.deadline = J[i].recovery_until
               /\ q.deadline \in Nat \cup {NULL}
<1> DEFINE of == {j \in Ids : J[j] # NULL /\ J[j].key = J[i].key /\ J[j].kind # NULL}
           q == [erased |-> ErasedJob(J[i]), deadline |-> J[i].recovery_until]
<1>1. JobOK(R, J[i]) /\ J[i].recovery_until \in Nat \cup {NULL}
  BY RowShape DEF JobsOK, JobOK, FieldTypes
<1>2. of = {i}
  BY <1>1 DEF JobsOK, JobOK
<1>3. (CHOOSE j \in of : TRUE) = i /\ of # {}
  BY <1>2
<1>4. PolicyOf(J, J[i].key) = q
  BY <1>3 DEF PolicyOf, ErasedJob
<1>5. q \in Ledger!Policy
  BY <1>1 DEF Ledger!Policy, ErasedJob
<1> QED BY <1>1, <1>4, <1>5, ModelNullAssumption

\* Every deadline it reads is a time or absent.
LEMMA PolicyDeadline ==
    ASSUME NEW J, NEW R, JobsOK(J, R), NEW k
    PROVE  DeadlineOK(PolicyOf(J, k))
<1> DEFINE of == {j \in Ids : J[j] # NULL /\ J[j].key = k /\ J[j].kind # NULL}
<1>1. CASE of = {}
  BY <1>1 DEF PolicyOf, DeadlineOK
<1>2. CASE of # {}
  <2>1. PICK i \in Ids : J[i] # NULL /\ J[i].key = k
    BY <1>2
  <2> QED BY <2>1, PolicyOfRow DEF DeadlineOK
<1> QED BY <1>1, <1>2

----------------------------------------------------------------------------
(* The tasks: each works on a receipt of its own.                          *)

\* A task whose receipt the step neither resolves nor charges.
LEMMA TaskStays ==
    ASSUME NEW J, NEW R, NEW B, NEW J2, NEW R2, NEW B2, NEW p, NEW t, TaskOK(J, R, B, p, t),
           KeepsRows(J, J2), Grown(R, R2),
           t.pos \in {"claimed", "ready"} => R2[t.receipt].state = R[t.receipt].state,
           Open(t) /\ Ref(R, t.receipt) \in B2 => Ref(R, t.receipt) \in B
    PROVE  TaskOK(J2, R2, B2, p, t)
<1>1. Open(t) => /\ t.receipt \in DOMAIN R /\ t.receipt \in DOMAIN R2
                 /\ Ref(R2, t.receipt) = Ref(R, t.receipt)
                 /\ KeyOf(R2, t.receipt) = KeyOf(R, t.receipt)
  BY DEF TaskOK, Grown, Later, Ref, KeyOf
<1>2. t.pos \in {"claimed", "ready"} =>
         Open(t) /\ R2[t.receipt].state = "Unknown" /\ Ref(R2, t.receipt) \notin B2
  BY <1>1 DEF TaskOK, Open
<1>3. t.pos = "sent" => Open(t) /\ t.outcome \in Outcomes
                        /\ (t.outcome = "zero" => Ref(R2, t.receipt) \notin B2)
  BY <1>1 DEF TaskOK, Open
<1>4. p \in Workers /\ t.pos \in Working =>
         /\ t.job \in Ids /\ J2[t.job] # NULL
         /\ Open(t) => KeyOf(R2, t.receipt) = J2[t.job].key
  BY <1>1 DEF TaskOK, KeepsRows
<1> QED BY <1>1, <1>2, <1>3, <1>4 DEF TaskOK

\* No task moves.
LEMMA TasksStay ==
    ASSUME NEW J, NEW R, NEW B, NEW T, NEW J2, NEW R2, TasksOK(J, R, B, T),
           KeepsRows(J, J2), Grown(R, R2),
           \A p \in Processes : T[p].pos \in {"claimed", "ready"} =>
              R2[T[p].receipt].state = R[T[p].receipt].state
    PROVE  TasksOK(J2, R2, B, T)
<1>1. \A p \in Processes : TaskOK(J2, R2, B, p, T[p])
  BY TaskStays DEF TasksOK
<1> QED BY <1>1 DEF TasksOK

\* A step of task t resolves and charges its own receipt only, and goes on
\* with it or with a new one.
OwnReceipts(R, R2, t) ==
    \A n \in DOMAIN R : R2[n].state = R[n].state \/ (Open(t) /\ n = t.receipt)
OwnCharge(R, B, B2, t) == B2 = B \/ (Open(t) /\ B2 = B \cup {Ref(R, t.receipt)})
OwnNext(R, t, t2) ==
    Open(t2) => (Open(t) /\ t2.receipt = t.receipt) \/ t2.receipt \notin DOMAIN R

\* Task p becomes t; receipts are resolved or charged by their own task only.
LEMMA TaskMoves ==
    ASSUME NEW J, NEW R, NEW B, NEW T, NEW J2, NEW R2, NEW B2, NEW T2, TasksOK(J, R, B, T),
           LedgerOK(R, B), KeepsRows(J, J2), Grown(R, R2),
           NEW p \in Processes, NEW t, T2 = [T EXCEPT ![p] = t], TaskOK(J2, R2, B2, p, t),
           OwnReceipts(R, R2, T[p]), OwnCharge(R, B, B2, T[p]), OwnNext(R, T[p], t)
    PROVE  TasksOK(J2, R2, B2, T2)
<1> USE DEF OwnReceipts, OwnCharge, OwnNext
<1>1. /\ T2 = [q \in Processes |-> T2[q]] /\ T2[p] = t
      /\ \A q \in Processes : q # p => T2[q] = T[q]
  BY DEF TasksOK
<1>2. ASSUME NEW q \in Processes, q # p PROVE TaskOK(J2, R2, B2, q, T2[q])
  <2>1. TaskOK(J, R, B, q, T[q]) /\ T2[q] = T[q]
    BY <1>1, <1>2 DEF TasksOK
  <2>2. Open(T[q]) => T[q].receipt \in DOMAIN R /\ ~(Open(T[p]) /\ T[q].receipt = T[p].receipt)
    BY <1>2, <2>1 DEF TasksOK, TaskOK
  <2>3. Open(T[q]) => R2[T[q].receipt].state = R[T[q].receipt].state
    BY <2>2
  <2>4. Open(T[q]) /\ Ref(R, T[q].receipt) \in B2 => Ref(R, T[q].receipt) \in B
    <3>1. Open(T[p]) => T[p].receipt \in DOMAIN R
      BY DEF TasksOK, TaskOK
    <3> QED BY <2>2, <3>1 DEF LedgerOK
  <2>5. TaskOK(J2, R2, B2, q, T[q])
    BY <2>1, <2>3, <2>4, TaskStays DEF Open
  <2> QED BY <2>1, <2>5
<1>3. \A q, s \in Processes : Open(T2[q]) /\ Open(T2[s]) /\ T2[q].receipt = T2[s].receipt => q = s
  <2>1. ASSUME NEW q \in Processes, q # p, Open(t), Open(T[q]) PROVE T[q].receipt # t.receipt
    BY <2>1 DEF TasksOK, TaskOK
  <2> QED BY <1>1, <2>1 DEF TasksOK
<1> QED BY <1>1, <1>2, <1>3 DEF TasksOK

\* A process that waits for nothing.
LEMMA IdleOK == ASSUME NEW J, NEW R, NEW B, NEW p PROVE TaskOK(J, R, B, p, Idle) /\ ~Open(Idle)
BY DEF Idle, TaskOK, TaskFields, Open, Working

----------------------------------------------------------------------------
(* The shapes of a step.                                                   *)

\* The receipts do not change.
LEMMA SameLedger ==
    ASSUME NEW J, NEW R, NEW B, LedgerOK(R, B)
    PROVE  Grown(R, R) /\ NewAnswers(J, R, R)
BY DEF LedgerOK, Grown, NewAnswers, Later

\* Receipts lose answers at most.
ShrunkTo(R, R2) == R2 = [n \in DOMAIN R |-> R2[n]] /\ \A n \in DOMAIN R : Shrinks(R[n], R2[n])
SameStates(R, R2) == DOMAIN R2 = DOMAIN R /\ \A n \in DOMAIN R : R2[n].state = R[n].state
LEMMA ShrunkLedger ==
    ASSUME NEW J, NEW R, NEW B, LedgerOK(R, B), NEW R2, ShrunkTo(R, R2)
    PROVE  /\ LedgerOK(R2, B) /\ Grown(R, R2) /\ NewAnswers(J, R, R2) /\ SameStates(R, R2)
<1> USE DEF ShrunkTo, SameStates
<1>1. \A n \in DOMAIN R : Later(R[n], R2[n]) /\ R2[n].state = R[n].state
  BY DEF Shrinks, Later
<1>2. LedgerOK(R2, B)
  BY <1>1, LedgerKept
<1>3. DOMAIN R2 = DOMAIN R
  OBVIOUS
<1> QED BY <1>1, <1>2, <1>3 DEF Grown, NewAnswers, Shrinks

\* One receipt receives evidence.
Evident(R, B, n, b) ==
    /\ Later(R[n], b)
    /\ R[n].state = "Unknown" /\ b.state = "Released" => Ref(R, n) \notin B
Replaced(R, R2, n, b) ==
    /\ DOMAIN R2 = DOMAIN R /\ R2[n] = b /\ \A m \in DOMAIN R : m # n => R2[m] = R[m]
    /\ Ref(R2, n) = Ref(R, n) /\ KeyOf(R2, n) = KeyOf(R, n)
LEMMA OneReceipt ==
    ASSUME NEW R, NEW B, LedgerOK(R, B), NEW n \in DOMAIN R, NEW b, NEW R2,
           R2 = [R EXCEPT ![n] = b], Evident(R, B, n, b)
    PROVE  LedgerOK(R2, B) /\ Grown(R, R2) /\ Replaced(R, R2, n, b)
<1> USE DEF Evident
<1>1. R = [m \in DOMAIN R |-> R[m]]
  BY ListedTable DEF LedgerOK
<1>2. /\ R2 = [m \in DOMAIN R |-> R2[m]] /\ R2[n] = b /\ DOMAIN R2 = DOMAIN R
      /\ \A m \in DOMAIN R : m # n => R2[m] = R[m]
  BY <1>1
<1>3. \A m \in DOMAIN R : Later(R[m], R[m])
  BY DEF LedgerOK, Later
<1>4. LedgerOK(R2, B)
  <2>1. \A m \in DOMAIN R : /\ Later(R[m], R2[m])
                            /\ R[m].state = "Unknown" /\ R2[m].state = "Released" => Ref(R, m) \notin B
    BY <1>2, <1>3
  <2>2. R2 = [m \in DOMAIN R |-> R2[m]]
    BY <1>2
  <2> QED BY <2>1, <2>2, LedgerKept, Zenon
<1>5. Grown(R, R2)
  BY <1>2, <1>3 DEF Grown
<1> QED BY <1>2, <1>4, <1>5 DEF Later, Ref, KeyOf, Replaced

\* One row moves.
LEMMA OneJob ==
    ASSUME NEW J, NEW R, JobsOK(J, R), NEW i \in Ids, J[i] # NULL, NEW n, NEW J2,
           J2 = [J EXCEPT ![i] = n], NEW R2, Moves(R2, J[i], n)
    PROVE  RowsMove(J, J2, R2)
BY DEF JobsOK, RowsMove

\* A rewritten row that names receipt m.
LEMMA MovesTo ==
    ASSUME NEW R, NEW B, LedgerOK(R, B), NEW m \in DOMAIN R, NEW r, NEW n, Rewrites(r, n),
           n.receipt = Ref(R, m), r.key = KeyOf(R, m),
           n.state \in WaitStates => R[m].state = "Released",
           n.state = "Succeeded" => R[m].output,
           n.state \in Stops \cup WaitStates \cup {"Running", "Uncertain", "Refused", "Failed", "Succeeded"}
    PROVE  Moves(R, r, n)
<1>1. Linked(R, n)
  BY LinkedTo DEF Rewrites
<1> QED BY <1>1 DEF Moves, Rewrites, ErasedJob, Stops, WaitStates

\* A rewritten row that keeps its receipt.
LEMMA MovesOn ==
    ASSUME NEW R, NEW R2, NEW B2, LedgerOK(R2, B2), Grown(R, R2), NEW r, Linked(R, r),
           NEW n, Rewrites(r, n), n.receipt = r.receipt,
           \/ n.state = r.state \/ n.state \in Stops \cup {"Refused"}
           \/ n.state \in WaitStates /\ r.state \in WaitStates
    PROVE  Moves(R2, r, n)
<1>1. n.state = r.state \/ n.state \in Unpaid \/ (n.state \in WaitStates /\ r.state \in WaitStates)
  BY DEF Stops, Unpaid
<1>2. Linked(R2, n)
  BY <1>1, LinkedKept DEF Rewrites
<1> QED BY <1>2 DEF Moves, Rewrites, ErasedJob, Stops, WaitStates

----------------------------------------------------------------------------
(* Evidence on a job row, a new attempt.                                   *)

\* Answers only ever shrink further.
LEMMA ShrinksTwice ==
    ASSUME NEW a, NEW b, NEW c, Shrinks(a, b), Shrinks(b, c) PROVE Shrinks(a, c)
BY DEF Shrinks

\* An expired row's receipt.
LEMMA ExpiredShrinks ==
    ASSUME NEW m, NEW b, Shrinks(m, b), NEW r PROVE Shrinks(m, Expired(r, b))
<1>1. ReceiptOK(b)
  BY DEF Shrinks
<1> QED BY <1>1, ClearedShrinks, ShrinksTwice DEF Expired

Outcome(r, m, a) ==
    /\ Rewrites(r, a.row) /\ a.row.receipt = m.reservation.reference
    /\ a.row.state \in Stops \cup WaitStates \cup {"Uncertain", "Refused", "Failed", "Succeeded"}
    /\ Shrinks(m, a.receipt)

\* A known answer ends the job, with the answer or without.
LEMMA AdoptedOutcome ==
    ASSUME ModelInv, NEW i \in Ids, jobs[i] # NULL, NEW m, ReceiptOK(m)
    PROVE  /\ Outcome(jobs[i], m, Adopted(jobs[i], m))
           /\ Adopted(jobs[i], m).row.state \notin WaitStates
<1> DEFINE r == jobs[i]
           q == PolicyOf(jobs, r.key)
           until == IF m.expires = NULL THEN now ELSE Ledger!Earlier(m.expires, q.deadline)
           x == m.reservation.reference
           fail == [row |-> Store!FailedRow(r, x), receipt |-> Ledger!Cleared(m)]
           paid == [row |-> Store!PaidRow(r, x, until), receipt |-> Narrowed(m, q)]
<1>1. /\ now \in Nat /\ r \in Store!JobRecord /\ x \in References /\ m.expires \in Nat \cup {NULL}
      /\ q # NULL /\ q.deadline \in Nat \cup {NULL}
  BY PolicyOfRow DEF ModelInv, JobsOK, JobOK, ReceiptOK
<1>2. Adopted(r, m) \in {fail, paid}
  BY DEF Adopted
<1>3. until \in Nat \cup {NULL}
  BY <1>1 DEF Ledger!Earlier
<1> HIDE DEF q, until, x, r
<1>4. /\ Rewrites(r, Store!FailedRow(r, x)) /\ Store!FailedRow(r, x).receipt = x
      /\ Store!FailedRow(r, x).state \in Stops \cup {"Failed"}
  BY <1>1, FailedFields
<1>5. /\ Rewrites(r, Store!PaidRow(r, x, until)) /\ Store!PaidRow(r, x, until).receipt = x
      /\ Store!PaidRow(r, x, until).state \in Stops \cup {"Succeeded"}
  BY <1>1, <1>3, PaidFields
<1>6. Shrinks(m, Ledger!Cleared(m)) /\ Shrinks(m, Narrowed(m, q))
  BY <1>1, ClearedShrinks, NarrowedShrinks
<1>7. Outcome(r, m, fail) /\ fail.row.state \notin WaitStates
  BY <1>4, <1>6 DEF Outcome, Stops, WaitStates, x
<1>8. Outcome(r, m, paid) /\ paid.row.state \notin WaitStates
  BY <1>5, <1>6 DEF Outcome, Stops, WaitStates, x
<1> HIDE DEF fail, paid
<1> QED BY <1>2, <1>7, <1>8 DEF r

\* The same receipt stands for itself.
LEMMA ShrinksSelf == ASSUME NEW m, ReceiptOK(m) PROVE Shrinks(m, m) /\ Later(m, m)
BY DEF Shrinks, Later

\* What a receipt says about an unowned row.
LEMMA ResolvedOutcome ==
    ASSUME ModelInv, NEW i \in Ids, jobs[i] # NULL, NEW m, ReceiptOK(m)
    PROVE  LET a == Resolved(jobs[i], m)
           IN  /\ Outcome(jobs[i], m, a)
               /\ a.row.state \in WaitStates => m.state = "Released"
               /\ a.row.state = "Succeeded" => m.output
<1> DEFINE r == jobs[i]
           x == m.reservation.reference
           a == Resolved(r, m)
<1>1. now \in Nat /\ r \in Store!JobRecord /\ x \in References
  BY DEF ModelInv, JobsOK, JobOK, ReceiptOK
<1>2. CASE m.output
  <2>1. a = Adopted(r, m)
    BY <1>2 DEF Resolved
  <2> QED BY <1>2, <2>1, AdoptedOutcome DEF Stops, WaitStates
<1>3. CASE ~m.output
  <2> DEFINE row == CASE m.state = "Released" -> Store!ZeroChargeRow(r, x)
                      [] m.state = "Settled" -> Store!FailedRow(r, x)
                      [] OTHER -> Store!UncertainRow(r, x)
  <2>1. a = [receipt |-> m, row |-> row]
    BY <1>3 DEF Resolved
  <2>2. /\ Rewrites(r, row) /\ row.receipt = x
        /\ row.state \in Stops \cup WaitStates \cup {"Uncertain", "Refused", "Failed"}
        /\ row.state \in WaitStates => m.state = "Released"
    <3>1. CASE m.state = "Released"
      <4>1. row = Store!ZeroChargeRow(r, x)
        BY <3>1
      <4> HIDE DEF row, r, x
      <4> QED BY <1>1, <3>1, <4>1, ZeroFields DEF WaitStates
    <3>2. CASE m.state = "Settled"
      <4>1. row = Store!FailedRow(r, x)
        BY <3>2
      <4> HIDE DEF row, r, x
      <4> QED BY <1>1, <4>1, FailedFields DEF WaitStates, Stops
    <3>3. CASE m.state \notin {"Released", "Settled"}
      <4>1. row = Store!UncertainRow(r, x)
        BY <3>3
      <4> HIDE DEF row, r, x
      <4> QED BY <1>1, <4>1, UncertainFields DEF WaitStates
    <3> QED BY <3>1, <3>2, <3>3
  <2> HIDE DEF row
  <2>3. a.row = row /\ a.receipt = m
    BY <2>1
  <2>4. "Succeeded" \notin Stops \cup WaitStates \cup {"Uncertain", "Refused", "Failed"}
    BY DEF Stops, WaitStates
  <2> HIDE DEF a
  <2>5. Outcome(r, m, a)
    BY <2>2, <2>3, ShrinksSelf DEF Outcome
  <2> QED BY <2>2, <2>3, <2>4, <2>5 DEF a
<1> QED BY <1>2, <1>3

\* The receipts of an invocation.
LEMMA ChainIs ==
    ASSUME NEW B, LedgerOK(receipts, B), NEW k
    PROVE  /\ Ledger!Chain(Account, k) = {n \in DOMAIN receipts : KeyOf(receipts, n) = k}
           /\ \A n \in LatestOf(k) : n \in DOMAIN receipts /\ KeyOf(receipts, n) = k
BY DEF LedgerOK, ReceiptOK, KeyOf, Ledger!Chain, Ledger!Rows, Ledger!Latest, LatestOf

\* A reservation with a ceiling is accepted only behind released attempts.
LEMMA Reserved ==
    ASSUME ModelInv, NEW k \in Keys, NEW ref \in References, NEW limit, limit # NULL,
           Ledger!Reserve(Reservation(ref, k), limit, NULL), UNCHANGED billed
    PROVE  LET n == Len(receipts) + 1
           IN  /\ LedgerOK(receipts', billed) /\ Grown(receipts, receipts')
               /\ NewAnswers(jobs, receipts, receipts')
               /\ DOMAIN receipts' = DOMAIN receipts \cup {n} /\ n \notin DOMAIN receipts
               /\ receipts'[n].state = "Unknown" /\ Ref(receipts', n) = ref
               /\ KeyOf(receipts', n) = k /\ ref \notin billed
               /\ \A m \in DOMAIN receipts : receipts'[m] = receipts[m]
<1> DEFINE res == Reservation(ref, k)
           prev == LatestOf(k)
           frozen == Ledger!Frozen(prev, limit)
           used0 == Ledger!AttemptsUsed(prev)
           m == Ledger!NewReceipt(res, frozen, used0, NULL)
           n == Len(receipts) + 1
<1>1. res.reference = ref /\ res.account = Account /\ res.invocation = k
  BY DEF Reservation
<1>2. /\ \A j \in DOMAIN receipts : Ref(receipts, j) # ref
      /\ Ledger!MayFollow(prev, frozen # NULL, NULL # NULL) /\ Ledger!Idle(res)
      /\ receipts' = Append(receipts, m)
  BY <1>1 DEF Ledger!Reserve, Ledger!Rows, Ref, LatestOf
<1>3. LedgerOK(receipts, billed) /\ prev \subseteq DOMAIN receipts
  BY ChainIs DEF ModelInv
<1>4. frozen # NULL
  <2>1. CASE \E p \in prev : Ledger!Explicit(receipts[p])
    <3>1. (CHOOSE p \in prev : TRUE) \in prev
      BY <2>1
    <3>2. frozen = receipts[CHOOSE p \in prev : TRUE].attempt_limit
      BY <2>1 DEF Ledger!Frozen
    <3> QED BY <1>3, <3>1, <3>2 DEF LedgerOK, ReceiptOK
  <2>2. CASE ~\E p \in prev : Ledger!Explicit(receipts[p])
    BY <2>2 DEF Ledger!Frozen
  <2> QED BY <2>1, <2>2
<1>5. \A p \in prev : ~receipts[p].output /\ receipts[p].state # "Settled"
  BY <1>2, <1>4 DEF Ledger!MayFollow
<1>6. \A j \in DOMAIN receipts : KeyOf(receipts, j) = k => receipts[j].state = "Released"
  <2>1. SUFFICES ASSUME NEW j \in DOMAIN receipts, KeyOf(receipts, j) = k
                 PROVE  receipts[j].state = "Released"
    OBVIOUS
  <2>2. j \in Ledger!Chain(Account, k)
    BY <1>3, <2>1, ChainIs
  <2>3. receipts[j].state # "Unknown" /\ receipts[j].state \in {"Unknown", "Released", "Settled"}
    BY <1>1, <1>2, <1>3, <2>2 DEF Ledger!Idle, LedgerOK, ReceiptOK
  <2>4. CASE j \in prev
    BY <1>5, <2>3, <2>4
  <2>5. CASE j \notin prev
    <3>1. PICK l \in DOMAIN receipts : KeyOf(receipts, l) = k /\ ~(l <= j)
      BY <1>3, <2>2, <2>5, ChainIs DEF LatestOf, Ledger!Latest
    <3>2. l \in Nat /\ j \in Nat
      BY <1>3, ListedTable DEF LedgerOK
    <3> QED BY <1>3, <2>1, <3>1, <3>2 DEF LedgerOK
  <2> QED BY <2>4, <2>5
<1> HIDE DEF frozen, used0, prev
<1>7. /\ m = [f \in ReceiptFields |-> m[f]] /\ m.reservation = res /\ m.state = "Unknown"
      /\ m.output = FALSE /\ m.recovery = NULL /\ m.expires = NULL /\ m.attempt_limit = frozen
  BY DEF Ledger!NewReceipt, ReceiptFields
<1> HIDE DEF m, res
<1>8. ReceiptOK(m)
  BY <1>1, <1>4, <1>7 DEF ReceiptOK
<1>9. LedgerOK(receipts', billed)
  BY <1>1, <1>2, <1>3, <1>6, <1>7, <1>8, LedgerAppended
<1>10. /\ DOMAIN receipts' = DOMAIN receipts \cup {n} /\ n \notin DOMAIN receipts
       /\ receipts'[n] = m /\ \A j \in DOMAIN receipts : receipts'[j] = receipts[j]
  BY <1>2, <1>3, ListedAppend DEF LedgerOK
<1>11. Grown(receipts, receipts') /\ NewAnswers(jobs, receipts, receipts')
  BY <1>3, <1>7, <1>10 DEF Grown, NewAnswers, Later, LedgerOK
<1>12. ref \notin billed
  BY <1>2, <1>3 DEF LedgerOK
<1> QED BY <1>1, <1>7, <1>9, <1>10, <1>11, <1>12 DEF Ref, KeyOf

\* The parts of a step together.
LEMMA Conclude ==
    ASSUME ModelInv, now' \in Nat, LedgerOK(receipts', billed'), Grown(receipts, receipts'),
           NewAnswers(jobs, receipts, receipts'), RowsMove(jobs, jobs', receipts'),
           KeepsRows(jobs, jobs') => TasksOK(jobs', receipts', billed', task')
    PROVE  ModelInv'
<1>1. JobsOK(jobs, receipts)
  BY DEF ModelInv
<1>2. JobsOK(jobs', receipts') /\ KeepsRows(jobs, jobs')
  BY <1>1, JobsKept
<1> QED BY <1>2 DEF ModelInv

\* No row changes.
LEMMA SameRows ==
    ASSUME ModelInv, NEW R2, UNCHANGED jobs PROVE RowsMove(jobs, jobs', R2)
BY DEF ModelInv, JobsOK, RowsMove

\* No receipt changes.
LEMMA SameReceipts ==
    ASSUME ModelInv, UNCHANGED <<receipts, billed>>
    PROVE  /\ LedgerOK(receipts', billed') /\ Grown(receipts, receipts')
           /\ NewAnswers(jobs, receipts, receipts')
           /\ \A n \in DOMAIN receipts : receipts'[n] = receipts[n]
<1>1. LedgerOK(receipts, billed)
  BY DEF ModelInv
<1>2. Grown(receipts, receipts) /\ NewAnswers(jobs, receipts, receipts)
  BY <1>1, SameLedger
<1> QED BY <1>1, <1>2

\* A step that resolves and charges nothing and moves no task.
LEMMA StepQuiet ==
    ASSUME ModelInv, UNCHANGED <<task, billed>>, now' \in Nat,
           LedgerOK(receipts', billed'), Grown(receipts, receipts'),
           NewAnswers(jobs, receipts, receipts'), RowsMove(jobs, jobs', receipts'),
           \A p \in Processes : task[p].pos \in {"claimed", "ready"} =>
              receipts'[task[p].receipt].state = receipts[task[p].receipt].state
    PROVE  ModelInv'
<1>1. TasksOK(jobs, receipts, billed, task)
  BY DEF ModelInv
<1>2. ASSUME KeepsRows(jobs, jobs') PROVE TasksOK(jobs', receipts', billed, task)
  BY <1>1, <1>2, TasksStay
<1> QED BY <1>2, Conclude

\* A step of process p, which goes on as t.
LEMMA StepBy ==
    ASSUME ModelInv, now' \in Nat, NEW p \in Processes, NEW t, task' = [task EXCEPT ![p] = t],
           LedgerOK(receipts', billed'), Grown(receipts, receipts'),
           NewAnswers(jobs, receipts, receipts'), RowsMove(jobs, jobs', receipts'),
           KeepsRows(jobs, jobs') => TaskOK(jobs', receipts', billed', p, t),
           OwnReceipts(receipts, receipts', task[p]),
           OwnCharge(receipts, billed, billed', task[p]), OwnNext(receipts, task[p], t)
    PROVE  ModelInv'
<1>1. TasksOK(jobs, receipts, billed, task) /\ LedgerOK(receipts, billed)
  BY DEF ModelInv
<1>2. ASSUME KeepsRows(jobs, jobs') PROVE TasksOK(jobs', receipts', billed', task')
  BY <1>1, <1>2, TaskMoves
<1> QED BY <1>2, Conclude

\* A step after which p waits for nothing.
LEMMA StepRests ==
    ASSUME ModelInv, UNCHANGED <<now, billed>>, NEW p \in Processes, Rests(p),
           LedgerOK(receipts', billed'), Grown(receipts, receipts'),
           NewAnswers(jobs, receipts, receipts'), RowsMove(jobs, jobs', receipts'),
           OwnReceipts(receipts, receipts', task[p])
    PROVE  ModelInv'
<1>1. task' = [task EXCEPT ![p] = Idle] /\ now' \in Nat
  BY DEF Rests, ModelInv
<1>2. TaskOK(jobs', receipts', billed', p, Idle) /\ ~Open(Idle)
  BY IdleOK
<1>3. OwnCharge(receipts, billed, billed', task[p]) /\ OwnNext(receipts, task[p], Idle)
  BY <1>2 DEF OwnCharge, OwnNext
<1> QED BY <1>1, <1>2, <1>3, StepBy

\* A step that only moves p on.
LEMMA StepGoes ==
    ASSUME ModelInv, UNCHANGED <<now, billed>>, UNCHANGED tables, NEW p \in Processes,
           NEW pos \in {"slot", "refused", "ended"}, Goes(p, pos), task[p].pos \in Working
    PROVE  ModelInv'
<1> DEFINE t == [task[p] EXCEPT !.pos = pos]
<1>1. TaskOK(jobs, receipts, billed, p, task[p]) /\ now' \in Nat
      /\ task = [q \in Processes |-> task[q]]
  BY DEF ModelInv, TasksOK
<1>2. task' = [task EXCEPT ![p] = t]
  BY <1>1 DEF Goes
<1>3. t = [f \in TaskFields |-> t[f]] /\ t.pos = pos /\ t.job = task[p].job
  BY <1>1 DEF TaskOK, TaskFields
<1> HIDE DEF t
<1>4. TaskOK(jobs, receipts, billed, p, t) /\ ~Open(t)
  BY <1>1, <1>3 DEF TaskOK, Open, Working
<1>5. UNCHANGED jobs /\ UNCHANGED receipts
  BY DEF tables
<1>6. TaskOK(jobs', receipts', billed', p, t)
  BY <1>4, <1>5
<1>7. RowsMove(jobs, jobs', receipts')
  BY <1>5, SameRows
<1>8. /\ LedgerOK(receipts', billed') /\ Grown(receipts, receipts')
      /\ NewAnswers(jobs, receipts, receipts')
      /\ \A n \in DOMAIN receipts : receipts'[n] = receipts[n]
  BY <1>5, SameReceipts
<1>9. /\ OwnReceipts(receipts, receipts', task[p]) /\ OwnNext(receipts, task[p], t)
      /\ OwnCharge(receipts, billed, billed', task[p])
  BY <1>4, <1>8 DEF OwnReceipts, OwnCharge, OwnNext
<1> QED BY <1>1, <1>2, <1>6, <1>7, <1>8, <1>9, StepBy

----------------------------------------------------------------------------
(* The steps.                                                              *)

\* What is known of a row, and of the receipt a process works on.
LEMMA JobAt ==
    ASSUME ModelInv, NEW i \in Ids, jobs[i] # NULL
    PROVE  /\ jobs[i] \in Store!JobRecord /\ jobs[i].execution = "Model" /\ jobs[i].kind # NULL
           /\ Linked(receipts, jobs[i]) /\ jobs[i].key \in Keys /\ now \in Nat
           /\ (ErasedJob(jobs[i]) => Gone(receipts, jobs[i].key))
<1>1. JobOK(receipts, jobs[i]) /\ now \in Nat
  BY DEF ModelInv, JobsOK
<1>2. jobs[i].key \in Keys
  BY <1>1, RowShape DEF JobOK, FieldTypes
<1> QED BY <1>1, <1>2 DEF JobOK

\* The receipt a process works on.
LEMMA ReceiptAt ==
    ASSUME ModelInv, NEW p \in Processes, Open(task[p])
    PROVE  LET n == task[p].receipt
           IN  /\ n \in DOMAIN receipts /\ ReceiptOK(receipts[n]) /\ LedgerOK(receipts, billed)
               /\ task[p].pos \in {"claimed", "ready"} =>
                     receipts[n].state = "Unknown" /\ Ref(receipts, n) \notin billed
               /\ task[p].pos = "sent" =>
                     /\ task[p].outcome \in Outcomes
                     /\ task[p].outcome = "zero" => Ref(receipts, n) \notin billed
<1>1. TaskOK(jobs, receipts, billed, p, task[p]) /\ LedgerOK(receipts, billed)
  BY DEF ModelInv, TasksOK
<1> QED BY <1>1 DEF TaskOK, LedgerOK

\* The job a worker works on.
LEMMA WorkAt ==
    ASSUME ModelInv, NEW w \in Workers, task[w].pos \in Working
    PROVE  LET i == task[w].job
           IN  /\ i \in Ids /\ jobs[i] # NULL /\ w \in Processes
               /\ Open(task[w]) => KeyOf(receipts, task[w].receipt) = jobs[i].key
<1>1. w \in Processes
  BY DEF Processes
<1>2. TaskOK(jobs, receipts, billed, w, task[w])
  BY <1>1 DEF ModelInv, TasksOK
<1> QED BY <1>1, <1>2 DEF TaskOK

\* One row is rewritten and keeps its receipt; the ledger stays.
LEMMA OneRewrite ==
    ASSUME ModelInv, UNCHANGED <<receipts, billed>>, NEW i \in Ids, jobs[i] # NULL, NEW n,
           jobs' = [jobs EXCEPT ![i] = n], Rewrites(jobs[i], n), n.receipt = jobs[i].receipt,
           \/ n.state = jobs[i].state \/ n.state \in Stops \cup {"Refused"}
           \/ n.state \in WaitStates /\ jobs[i].state \in WaitStates
    PROVE  RowsMove(jobs, jobs', receipts')
<1>1. Linked(receipts, jobs[i]) /\ JobsOK(jobs, receipts)
  BY JobAt DEF ModelInv
<1>2. LedgerOK(receipts', billed') /\ Grown(receipts, receipts')
  BY SameReceipts
<1>3. Moves(receipts', jobs[i], n)
  BY <1>1, <1>2, MovesOn
<1> QED BY <1>1, <1>3, OneJob

\* Rows are rewritten and keep their receipts while receipts lose answers.
LEMMA ManyRewrites ==
    ASSUME ModelInv, LedgerOK(receipts', billed'), Grown(receipts, receipts'),
           jobs' = [i \in Ids |-> jobs'[i]],
           \A i \in Ids : \/ jobs'[i] = jobs[i]
                          \/ /\ jobs[i] # NULL /\ Rewrites(jobs[i], jobs'[i])
                             /\ jobs'[i].receipt = jobs[i].receipt
                             /\ jobs'[i].state = jobs[i].state \/ jobs'[i].state \in Stops
    PROVE  RowsMove(jobs, jobs', receipts')
<1>1. ASSUME NEW i \in Ids, jobs'[i] # jobs[i]
      PROVE  jobs[i] # NULL /\ Moves(receipts', jobs[i], jobs'[i])
  <2>1. Linked(receipts, jobs[i])
    BY <1>1, JobAt
  <2> QED BY <1>1, <2>1, MovesOn
<1> QED BY <1>1 DEF RowsMove

\* A step that leaves the receipts alone, after which p waits for nothing.
LEMMA RestsWithRow ==
    ASSUME ModelInv, UNCHANGED <<now, billed, receipts>>, NEW p \in Processes, Rests(p),
           RowsMove(jobs, jobs', receipts')
    PROVE  ModelInv'
<1>1. /\ LedgerOK(receipts', billed') /\ Grown(receipts, receipts')
      /\ NewAnswers(jobs, receipts, receipts')
      /\ \A n \in DOMAIN receipts : receipts'[n] = receipts[n]
  BY SameReceipts
<1>2. OwnReceipts(receipts, receipts', task[p])
  BY <1>1 DEF OwnReceipts
<1> QED BY <1>1, <1>2, StepRests

\* A step that leaves the receipts and the tasks alone.
LEMMA QuietWithRow ==
    ASSUME ModelInv, UNCHANGED <<now, billed, receipts, task>>, RowsMove(jobs, jobs', receipts')
    PROVE  ModelInv'
<1>1. /\ LedgerOK(receipts', billed') /\ Grown(receipts, receipts')
      /\ NewAnswers(jobs, receipts, receipts')
  BY SameReceipts
<1>2. now' \in Nat
  BY DEF ModelInv
<1> QED BY <1>1, <1>2, StepQuiet

\* Giving up a candidate.
LEMMA RestsOnly ==
    ASSUME ModelInv, UNCHANGED <<now, billed>>, UNCHANGED tables, NEW p \in Processes, Rests(p)
    PROVE  ModelInv'
<1>1. UNCHANGED receipts /\ UNCHANGED jobs
  BY DEF tables
<1>2. RowsMove(jobs, jobs', receipts')
  BY <1>1, SameRows
<1> QED BY <1>1, <1>2, RestsWithRow

\* PickCandidate.
LEMMA StepPick ==
    ASSUME ModelInv, UNCHANGED <<now, billed>>, NEW w \in Workers, PickCandidate(w)
    PROVE  ModelInv'
<1>1. PICK i \in Store!Rows : task' = [task EXCEPT ![w] = [Idle EXCEPT !.pos = "picked", !.job = i]]
  BY DEF PickCandidate, Store!FirstBy, Store!PendingRows
<1> DEFINE t == [Idle EXCEPT !.pos = "picked", !.job = i]
<1>2. i \in Ids /\ jobs[i] # NULL /\ w \in Processes /\ now' \in Nat
  BY DEF Store!Rows, Processes, ModelInv
<1>3. UNCHANGED receipts /\ UNCHANGED jobs
  BY DEF PickCandidate, tables
<1>4. RowsMove(jobs, jobs', receipts')
  BY <1>3, SameRows
<1>5. /\ LedgerOK(receipts', billed') /\ Grown(receipts, receipts')
      /\ NewAnswers(jobs, receipts, receipts')
      /\ \A n \in DOMAIN receipts : receipts'[n] = receipts[n]
  BY <1>3, SameReceipts
<1>6. t = [f \in TaskFields |-> t[f]] /\ t.pos = "picked" /\ t.job = i
  BY DEF Idle, TaskFields
<1> HIDE DEF t
<1>7. TaskOK(jobs, receipts, billed, w, t) /\ ~Open(t)
  BY <1>2, <1>6 DEF TaskOK, Open
<1>8. TaskOK(jobs', receipts', billed', w, t)
  BY <1>3, <1>7
<1>9. /\ OwnReceipts(receipts, receipts', task[w]) /\ OwnNext(receipts, task[w], t)
      /\ OwnCharge(receipts, billed, billed', task[w]) /\ task' = [task EXCEPT ![w] = t]
  BY <1>1, <1>5, <1>7 DEF OwnReceipts, OwnCharge, OwnNext, t
<1> QED BY <1>2, <1>4, <1>5, <1>8, <1>9, StepBy

\* Refuse.
LEMMA StepRefuse ==
    ASSUME ModelInv, UNCHANGED <<now, billed>>, NEW w \in Workers, Refuse(w)
    PROVE  ModelInv'
<1> DEFINE i == task[w].job
<1>1. i \in Ids /\ jobs[i] # NULL /\ w \in Processes
  BY WorkAt DEF Refuse, Working
<1>2. UNCHANGED <<receipts, billed>> /\ Rests(w)
  BY DEF Refuse
<1>3. CASE Store!RefusePending(i)
  <2> DEFINE n == Store!Finish(jobs[i], "Refused")
  <2>1. jobs' = [jobs EXCEPT ![i] = n]
    BY <1>3 DEF Store!RefusePending
  <2>2. Rewrites(jobs[i], n) /\ n.state = "Refused" /\ n.receipt = jobs[i].receipt
    BY <1>1, JobAt, FinishRow, States
  <2> HIDE DEF n, i
  <2>3. RowsMove(jobs, jobs', receipts')
    BY <1>1, <1>2, <2>1, <2>2, OneRewrite
  <2> QED BY <1>1, <1>2, <2>3, RestsWithRow
<1>4. CASE UNCHANGED jobs
  <2>1. RowsMove(jobs, jobs', receipts')
    BY <1>4, SameRows
  <2> QED BY <1>1, <1>2, <2>1, RestsWithRow
<1> QED BY <1>3, <1>4 DEF Refuse

\* One receipt loses its answer at most.
LEMMA OneShrinks ==
    ASSUME NEW R, NEW B, LedgerOK(R, B), NEW n \in DOMAIN R, NEW b, NEW R2,
           R2 = [R EXCEPT ![n] = b], Shrinks(R[n], b)
    PROVE  ShrunkTo(R, R2) /\ DOMAIN R2 = DOMAIN R /\ R2[n] = b
<1>1. R = [m \in DOMAIN R |-> R[m]] /\ \A m \in DOMAIN R : ReceiptOK(R[m])
  BY ListedTable DEF LedgerOK
<1>2. R2 = [m \in DOMAIN R |-> R2[m]] /\ R2[n] = b /\ DOMAIN R2 = DOMAIN R
  BY <1>1
<1>3. \A m \in DOMAIN R : Shrinks(R[m], R2[m])
  BY <1>1, <1>2, ShrinksSelf
<1> QED BY <1>2, <1>3 DEF ShrunkTo

\* The rows a finished attempt may leave behind.
Concludes(r, m, a) ==
    /\ Outcome(r, m, a) /\ (a.row.state \in WaitStates => m.state = "Released")
    /\ a.row.state = "Succeeded" => m.output
Alike(m, b) == b.reservation = m.reservation /\ b.state = m.state /\ b.output = m.output

\* A row that takes what receipt n says moves soundly.
LEMMA OutcomeMoves ==
    ASSUME NEW R2, NEW B, LedgerOK(R2, B), NEW n \in DOMAIN R2, NEW m, NEW r, NEW a,
           Concludes(r, m, a), Alike(m, R2[n]), KeyOf(R2, n) = r.key
    PROVE  Moves(R2, r, a.row)
<1>1. /\ Rewrites(r, a.row) /\ a.row.receipt = Ref(R2, n) /\ r.key = KeyOf(R2, n)
      /\ a.row.state \in WaitStates => R2[n].state = "Released"
      /\ a.row.state = "Succeeded" => R2[n].output
      /\ a.row.state \in Stops \cup WaitStates \cup {"Running", "Uncertain", "Refused", "Failed", "Succeeded"}
  BY DEF Concludes, Alike, Outcome, Ref
<1> QED BY <1>1, MovesTo

\* previous_in: the row is no longer pending, or takes what its receipt says.
LEMMA StepPrevious ==
    ASSUME ModelInv, UNCHANGED <<now, billed>>, NEW w \in Workers, Previous(w), Rests(w),
           task[w].pos \in Working
    PROVE  ModelInv'
<1> DEFINE i == task[w].job
<1>1. i \in Ids /\ jobs[i] # NULL /\ w \in Processes
  BY WorkAt
<1>2. CASE UNCHANGED tables
  BY <1>1, <1>2, RestsOnly
<1>3. ASSUME NEW n \in Answered(jobs[i].key),
             jobs' = [jobs EXCEPT ![i] = Resolved(jobs[i], receipts[n]).row],
             receipts' = [receipts EXCEPT ![n] = Expired(jobs[i], Resolved(jobs[i], receipts[n]).receipt)]
      PROVE  ModelInv'
  <2> DEFINE m == receipts[n]
             a == Resolved(jobs[i], m)
             b == Expired(jobs[i], a.receipt)
  <2>1. LedgerOK(receipts, billed) /\ JobsOK(jobs, receipts)
    BY DEF ModelInv
  <2>2. n \in DOMAIN receipts /\ KeyOf(receipts, n) = jobs[i].key /\ ReceiptOK(m)
    BY <1>3, <2>1, ChainIs DEF Answered, LedgerOK
  <2>3. /\ Outcome(jobs[i], m, a) /\ (a.row.state \in WaitStates => m.state = "Released")
        /\ (a.row.state = "Succeeded" => m.output)
    BY <1>1, <2>2, ResolvedOutcome
  <2>4. Shrinks(m, b)
    BY <2>3, ExpiredShrinks DEF Outcome
  <2>5. receipts' = [receipts EXCEPT ![n] = b] /\ jobs' = [jobs EXCEPT ![i] = a.row]
    BY <1>3
  <2> HIDE DEF a, b, i
  <2>6. ShrunkTo(receipts, receipts') /\ n \in DOMAIN receipts' /\ receipts'[n] = b
    BY <2>1, <2>2, <2>4, <2>5, OneShrinks
  <2>7. /\ LedgerOK(receipts', billed) /\ Grown(receipts, receipts') /\ NewAnswers(jobs, receipts, receipts')
        /\ SameStates(receipts, receipts')
    BY <2>1, <2>6, ShrunkLedger
  <2>8. Moves(receipts', jobs[i], a.row)
    <3>1. Concludes(jobs[i], m, a)
      BY <2>3 DEF Concludes
    <3>2. Alike(m, receipts'[n]) /\ KeyOf(receipts', n) = jobs[i].key
      BY <2>2, <2>4, <2>6 DEF Shrinks, Alike, KeyOf
    <3> HIDE DEF m
    <3> QED BY <2>7, <2>6, <3>1, <3>2, OutcomeMoves
  <2>9. RowsMove(jobs, jobs', receipts')
    BY <1>1, <2>1, <2>5, <2>8, OneJob
  <2>10. OwnReceipts(receipts, receipts', task[w])
    BY <2>7 DEF OwnReceipts, SameStates
  <2>11. LedgerOK(receipts', billed')
    BY <2>7
  <2> QED BY <1>1, <2>7, <2>9, <2>10, <2>11, StepRests
<1> QED BY <1>2, <1>3 DEF Previous

\* CheckPrevious.
LEMMA StepCheck ==
    ASSUME ModelInv, UNCHANGED <<now, billed>>, NEW w \in Workers, CheckPrevious(w)
    PROVE  ModelInv'
<1>1. task[w].pos \in Working /\ w \in Processes
  BY DEF CheckPrevious, Working, Processes
<1>2. CASE Previous(w) /\ Rests(w)
  BY <1>1, <1>2, StepPrevious
<1>3. CASE Goes(w, "slot") /\ UNCHANGED tables
  BY <1>1, <1>3, StepGoes
<1> QED BY <1>2, <1>3 DEF CheckPrevious

\* Ineligible.
LEMMA StepIneligible ==
    ASSUME ModelInv, UNCHANGED <<now, billed>>, NEW w \in Workers, Ineligible(w)
    PROVE  ModelInv'
BY RestsOnly DEF Ineligible, Processes

\* A claim is granted together with its reservation.
LEMMA StepGranted ==
    ASSUME ModelInv, UNCHANGED <<now, billed>>, NEW w \in Workers, task[w].pos = "slot",
           NEW ref \in References, ClaimGranted(w, ref)
    PROVE  ModelInv'
<1> DEFINE i == task[w].job
           r == jobs[i]
           n == Len(receipts) + 1
           row == [Store!Lease(r) EXCEPT !.receipt = ref]
           t == [task[w] EXCEPT !.pos = "claimed", !.generation = r.generation + 1, !.receipt = n]
<1>1. i \in Ids /\ r # NULL /\ w \in Processes
  BY WorkAt DEF Working
<1>2. r \in Store!JobRecord /\ r.key \in Keys /\ now \in Nat /\ JobsOK(jobs, receipts)
  BY <1>1, JobAt DEF ModelInv
<1>3. CeilingFor(r) # NULL
  <2>1. r.max_attempts \in Nat /\ RetryLimit \in Nat
    BY <1>2, RowShape, ModelAssumption DEF FieldTypes
  <2> QED BY <2>1, ModelNullAssumption DEF CeilingFor
<1>4. /\ Ledger!Reserve(Reservation(ref, r.key), CeilingFor(r), NULL)
      /\ jobs' = [jobs EXCEPT ![i] = row]
  BY DEF ClaimGranted
<1>5. /\ LedgerOK(receipts', billed) /\ Grown(receipts, receipts')
      /\ NewAnswers(jobs, receipts, receipts')
      /\ DOMAIN receipts' = DOMAIN receipts \cup {n} /\ n \notin DOMAIN receipts
      /\ receipts'[n].state = "Unknown" /\ Ref(receipts', n) = ref
      /\ KeyOf(receipts', n) = r.key /\ ref \notin billed
      /\ \A m \in DOMAIN receipts : receipts'[m] = receipts[m]
  BY <1>2, <1>3, <1>4, Reserved
<1>6. Rewrites(r, row) /\ row.state = "Running" /\ row.receipt = ref
  <2>1. Rewrites(r, Store!Lease(r)) /\ Store!Lease(r).state = "Running"
    BY <1>2, LeaseRow
  <2>2. Store!Lease(r) \in Store!JobRecord
    BY <2>1 DEF Rewrites
  <2>3. Rewrites(Store!Lease(r), row) /\ row.state = Store!Lease(r).state /\ row.receipt = ref
    BY <2>2, ReceiptRow
  <2> HIDE DEF row, r
  <2> QED BY <2>1, <2>3, RewritesTwice
<1>7. task' = [task EXCEPT ![w] = t]
  BY <1>1 DEF ClaimGranted, ModelInv, TasksOK
<1>8. /\ t = [f \in TaskFields |-> t[f]] /\ t.pos = "claimed" /\ t.job = i /\ t.receipt = n
  <2>1. task[w] = [f \in TaskFields |-> task[w][f]]
    BY <1>1 DEF ModelInv, TasksOK, TaskOK
  <2> QED BY <2>1 DEF TaskFields
<1> HIDE DEF n, row, t
<1>9. RowsMove(jobs, jobs', receipts') /\ jobs'[i] = row
  <2>1. n \in DOMAIN receipts'
    BY <1>5
  <2>2. Moves(receipts', r, row)
    BY <1>5, <1>6, <2>1, MovesTo DEF WaitStates
  <2>3. jobs'[i] = row
    BY <1>1, <1>2, <1>4 DEF JobsOK
  <2> HIDE DEF i
  <2> QED BY <1>1, <1>2, <1>4, <2>2, <2>3, OneJob
<1>10. TaskOK(jobs', receipts', billed', w, t) /\ Open(t)
  <2>1. row # NULL /\ row.key = r.key
    BY <1>6, ModelNullAssumption DEF Rewrites
  <2> HIDE DEF r, i
  <2> QED BY <1>1, <1>5, <1>8, <1>9, <2>1 DEF TaskOK, Open
<1>11. /\ OwnReceipts(receipts, receipts', task[w]) /\ OwnNext(receipts, task[w], t)
       /\ OwnCharge(receipts, billed, billed', task[w])
  BY <1>5, <1>8 DEF OwnReceipts, OwnCharge, OwnNext
<1>12. LedgerOK(receipts', billed') /\ now' \in Nat
  BY <1>2, <1>5
<1> QED BY <1>1, <1>5, <1>7, <1>9, <1>10, <1>11, <1>12, StepBy

\* A claim that is not granted: the row joins an unknown charge, ends, or
\* waits for authority.
LEMMA StepNothing ==
    ASSUME ModelInv, UNCHANGED <<now, billed>>, NEW w \in Workers, task[w].pos = "slot",
           Fresh(w), ClaimNothing(w)
    PROVE  ModelInv'
<1> DEFINE i == task[w].job
           r == jobs[i]
           open == {n \in LatestOf(r.key) : receipts[n].state = "Unknown"}
           n == CHOOSE n \in open : TRUE
           row == IF Store!Grantable(r) THEN Store!UncertainRow(Store!Lease(r), Reference(n))
                  ELSE Store!EndUnclaimed(r)
<1>1. i \in Ids /\ r # NULL /\ w \in Processes
  BY WorkAt DEF Working
<1>2. r \in Store!JobRecord /\ r.key \in Keys /\ now \in Nat /\ JobsOK(jobs, receipts)
      /\ Linked(receipts, r) /\ LedgerOK(receipts, billed) /\ r.state = "Pending"
  BY <1>1, JobAt DEF ModelInv, Fresh
<1>3. UNCHANGED receipts /\ Rests(w)
  BY DEF ClaimNothing
<1>4. ASSUME open # {} \/ ~Store!Grantable(r), jobs' = [jobs EXCEPT ![i] = row]
      PROVE  RowsMove(jobs, jobs', receipts')
  <2>1. CASE Store!Grantable(r)
    <3>1. n \in open
      BY <1>4, <2>1
    <3>2. n \in DOMAIN receipts /\ KeyOf(receipts, n) = r.key /\ Ref(receipts, n) \in References
          /\ Reference(n) = Ref(receipts, n)
      BY <1>2, <3>1, ChainIs, Named DEF Reference, Ref
    <3>3. row = Store!UncertainRow(Store!Lease(r), Ref(receipts, n))
      BY <2>1, <3>2
    <3>4. Rewrites(r, Store!Lease(r)) /\ Store!Lease(r) \in Store!JobRecord
      BY <1>2, LeaseRow DEF Rewrites
    <3> HIDE DEF row, n, open, r
    <3>5. Rewrites(Store!Lease(r), row) /\ row.state = "Uncertain" /\ row.receipt = Ref(receipts, n)
      BY <3>2, <3>3, <3>4, UncertainFields
    <3>6. Rewrites(r, row)
      BY <3>4, <3>5, RewritesTwice
    <3>7. Moves(receipts, r, row)
      BY <1>2, <3>2, <3>5, <3>6, MovesTo DEF WaitStates
    <3>8. Moves(receipts', r, row)
      BY <1>3, <3>7
    <3> QED BY <1>1, <1>2, <1>4, <3>8, OneJob DEF r
  <2>2. CASE ~Store!Grantable(r)
    <3>1. row = Store!EndUnclaimed(r)
      BY <2>2
    <3> HIDE DEF row
    <3>2. Rewrites(r, row) /\ row.receipt = r.receipt /\ row.state \in Stops \cup {"Refused"}
      BY <1>2, <3>1, EndUnclaimedFields
    <3> QED BY <1>1, <1>3, <1>4, <3>2, OneRewrite
  <2> QED BY <2>1, <2>2
<1>5. ASSUME Store!AwaitAdmission(i) PROVE RowsMove(jobs, jobs', receipts')
  <2> DEFINE a == [r EXCEPT !.state = "AwaitingAdmission"]
  <2>1. jobs' = [jobs EXCEPT ![i] = a]
    BY <1>1, <1>2, <1>5 DEF Store!AwaitAdmission, JobsOK
  <2>2. Rewrites(r, a) /\ a.state = "AwaitingAdmission" /\ a.receipt = r.receipt
    BY <1>2, StateRow, States
  <2> HIDE DEF a
  <2> QED BY <1>1, <1>2, <1>3, <2>1, <2>2, OneRewrite DEF WaitStates
<1>6. RowsMove(jobs, jobs', receipts')
  BY <1>4, <1>5 DEF ClaimNothing
<1> QED BY <1>1, <1>3, <1>6, RestsWithRow

\* ClaimOwner::claim.
LEMMA StepClaim ==
    ASSUME ModelInv, UNCHANGED <<now, billed>>, NEW w \in Workers, Claim(w)
    PROVE  ModelInv'
<1>1. task[w].pos = "slot" /\ task[w].pos \in Working /\ w \in Processes
  BY DEF Claim, Working, Processes
<1>2. CASE Previous(w) /\ Rests(w)
  BY <1>1, <1>2, StepPrevious
<1>3. ASSUME NEW ref \in References, ClaimGranted(w, ref) PROVE ModelInv'
  BY <1>1, <1>3, StepGranted
<1>4. CASE ClaimRefused(w)
  BY <1>1, <1>4, StepGoes DEF ClaimRefused
<1>5. CASE Fresh(w) /\ ClaimNothing(w)
  BY <1>1, <1>5, StepNothing
<1> QED BY <1>2, <1>3, <1>4, <1>5 DEF Claim

\* A renewed lease.
LEMMA HeartbeatMoves ==
    ASSUME ModelInv, UNCHANGED <<receipts, billed>>, NEW i \in Ids, NEW g, Store!Heartbeat(i, g)
    PROVE  RowsMove(jobs, jobs', receipts') /\ UNCHANGED now
<1> DEFINE n == [jobs[i] EXCEPT !.lease_until = now + ClaimLease]
<1>1. jobs[i] # NULL /\ UNCHANGED now
  BY DEF Store!Heartbeat, Store!Rows
<1>2. jobs' = [jobs EXCEPT ![i] = n]
  BY DEF Store!Heartbeat, ModelInv, JobsOK
<1>3. Rewrites(jobs[i], n) /\ n.state = jobs[i].state /\ n.receipt = jobs[i].receipt
  BY <1>1, JobAt, RenewRow, ModelAssumption
<1> HIDE DEF n
<1> QED BY <1>1, <1>2, <1>3, OneRewrite

\* Prepare.
LEMMA StepPrepare ==
    ASSUME ModelInv, UNCHANGED <<now, billed>>, NEW w \in Workers, Prepare(w)
    PROVE  ModelInv'
<1> DEFINE t == [task[w] EXCEPT !.pos = "ready"]
<1>1. task[w].job \in Ids /\ w \in Processes /\ Open(task[w])
  BY WorkAt DEF Prepare, Working, Open
<1>2. RowsMove(jobs, jobs', receipts') /\ now' \in Nat
  BY <1>1, HeartbeatMoves DEF Prepare, ModelInv
<1>3. /\ LedgerOK(receipts', billed') /\ Grown(receipts, receipts')
      /\ NewAnswers(jobs, receipts, receipts')
      /\ \A n \in DOMAIN receipts : receipts'[n] = receipts[n]
  BY SameReceipts DEF Prepare
<1>4. TaskOK(jobs, receipts, billed, w, task[w]) /\ task = [q \in Processes |-> task[q]]
  BY <1>1 DEF ModelInv, TasksOK
<1>5. task' = [task EXCEPT ![w] = t]
  BY <1>1, <1>4 DEF Prepare, Goes
<1>6. /\ t = [f \in TaskFields |-> t[f]] /\ t.pos = "ready" /\ t.job = task[w].job
      /\ t.receipt = task[w].receipt
  BY <1>4 DEF TaskOK, TaskFields
<1> HIDE DEF t
<1>7. TaskOK(jobs, receipts, billed, w, t) /\ Open(t)
  BY <1>4, <1>6 DEF TaskOK, Open, Working, Prepare
<1>8. ASSUME KeepsRows(jobs, jobs') PROVE TaskOK(jobs', receipts', billed', w, t)
  <2>1. t.pos \in {"claimed", "ready"} => receipts'[t.receipt].state = receipts[t.receipt].state
    BY DEF Prepare
  <2> QED BY <1>3, <1>7, <1>8, <2>1, TaskStays
<1>9. /\ OwnReceipts(receipts, receipts', task[w]) /\ OwnNext(receipts, task[w], t)
      /\ OwnCharge(receipts, billed, billed', task[w])
  BY <1>1, <1>3, <1>6 DEF OwnReceipts, OwnCharge, OwnNext
<1> QED BY <1>1, <1>2, <1>3, <1>5, <1>8, <1>9, StepBy

\* Renew.
LEMMA StepRenew ==
    ASSUME ModelInv, UNCHANGED <<now, billed>>, NEW w \in Workers, Renew(w)
    PROVE  ModelInv'
<1>1. task[w].job \in Ids
  BY WorkAt DEF Renew, Working
<1>2. RowsMove(jobs, jobs', receipts')
  BY <1>1, HeartbeatMoves DEF Renew
<1> QED BY <1>2, QuietWithRow DEF Renew

\* A write that fails ends the task.
LEMMA StepFails ==
    ASSUME ModelInv, UNCHANGED <<now, billed>>, NEW w \in Workers, Fails(w), task[w].pos \in Working
    PROVE  ModelInv'
BY StepGoes DEF Fails, Processes

\* An invocation whose job is not erased.
LEMMA NotErased ==
    ASSUME NEW J, NEW R, JobsOK(J, R), NEW k, PolicyOf(J, k) = NULL \/ ~PolicyOf(J, k).erased
    PROVE  \A i \in Ids : J[i] # NULL /\ J[i].key = k => ~ErasedJob(J[i])
BY PolicyOfRow

\* Evidence about one receipt, with an answer only for a job not erased.
Lawful(n, b) ==
    /\ Evident(receipts, billed, n, b)
    /\ b.recovery # NULL => \/ receipts[n].recovery # NULL
                            \/ PolicyOf(jobs, KeyOf(receipts, n)) = NULL
                            \/ ~PolicyOf(jobs, KeyOf(receipts, n)).erased
LEMMA EvidenceLedger ==
    ASSUME ModelInv, UNCHANGED billed, NEW n \in DOMAIN receipts, NEW b, Lawful(n, b),
           receipts' = [receipts EXCEPT ![n] = b]
    PROVE  /\ LedgerOK(receipts', billed') /\ Grown(receipts, receipts')
           /\ NewAnswers(jobs, receipts, receipts') /\ Replaced(receipts, receipts', n, b)
<1>1. LedgerOK(receipts, billed) /\ JobsOK(jobs, receipts) /\ Evident(receipts, billed, n, b)
  BY DEF ModelInv, Lawful
<1>2. LedgerOK(receipts', billed) /\ Grown(receipts, receipts') /\ Replaced(receipts, receipts', n, b)
  BY <1>1, OneReceipt
<1>3. ASSUME NEW m \in DOMAIN receipts', receipts'[m].recovery # NULL
      PROVE  \/ m \in DOMAIN receipts /\ receipts[m].recovery # NULL
             \/ \A i \in Ids : jobs[i] # NULL /\ jobs[i].key = KeyOf(receipts', m) => ~ErasedJob(jobs[i])
  <2>1. CASE m # n
    BY <1>2, <1>3, <2>1 DEF Replaced
  <2>2. CASE m = n
    BY <1>1, <1>2, <1>3, <2>2, NotErased DEF Lawful, Replaced
  <2> QED BY <2>1, <2>2
<1>4. NewAnswers(jobs, receipts, receipts')
  BY <1>3 DEF NewAnswers
<1> QED BY <1>2, <1>4

\* Evidence, then perhaps a loss of the answer.
LEMMA LaterShrinks == ASSUME NEW a, NEW b, NEW c, Later(a, b), Shrinks(b, c) PROVE Later(a, c)
BY DEF Later, Shrinks

\* A row without a word about the answer.
LEMMA PlainConcludes ==
    ASSUME NEW r, NEW m, ReceiptOK(m), NEW row, Rewrites(r, row), row.receipt = m.reservation.reference,
           row.state \in Stops \cup WaitStates \cup {"Uncertain", "Refused", "Failed", "Succeeded"},
           row.state \in WaitStates => m.state = "Released", row.state = "Succeeded" => m.output
    PROVE  Concludes(r, m, [row |-> row, receipt |-> m])
BY ShrinksSelf DEF Concludes, Outcome

\* ClaimOwner::finish leaves the row that goes with the evidence.
LEMMA FinishedConcludes ==
    ASSUME ModelInv, NEW i \in Ids, jobs[i] # NULL, NEW m, ReceiptOK(m), NEW outcome \in Outcomes,
           NEW answer, NEW retry, m.state = Evidence(outcome), Received(outcome) => m.output,
           answer # NULL => Received(outcome)
    PROVE  Concludes(jobs[i], m, FinishedJob(jobs[i], m, outcome, answer, retry))
<1> DEFINE r == jobs[i]
           x == m.reservation.reference
           a == FinishedJob(r, m, outcome, answer, retry)
           plain(row) == [row |-> row, receipt |-> m]
<1>1. now \in Nat /\ r \in Store!JobRecord /\ x \in References
  BY JobAt DEF ReceiptOK
<1>2. CASE answer = NULL /\ r.cancel_requested /\ ~r.purged
  <2> DEFINE n == Store!CompleteRow(r, "Cancelled", NULL, x)
  <2>1. a = plain(n)
    BY <1>2 DEF FinishedJob
  <2>2. Rewrites(r, n) /\ n.receipt = x /\ n.state = "Cancelled"
    BY <1>1, <1>2, CancelledFields
  <2> HIDE DEF n
  <2>3. Concludes(r, m, plain(n))
    BY <2>2, PlainConcludes DEF Stops, WaitStates
  <2> QED BY <2>1, <2>3
<1>3. CASE ~(answer = NULL /\ r.cancel_requested /\ ~r.purged) /\ Received(outcome) /\ ~RetainAnswers
  <2> DEFINE n == Store!PaidRow(r, x, now)
  <2>1. a = plain(n)
    BY <1>3 DEF FinishedJob
  <2>2. Rewrites(r, n) /\ n.receipt = x /\ n.state \in Stops \cup {"Succeeded"}
    BY <1>1, PaidFields
  <2> HIDE DEF n
  <2>3. Concludes(r, m, plain(n))
    BY <1>3, <2>2, PlainConcludes DEF Stops, WaitStates
  <2> QED BY <2>1, <2>3
<1>4. CASE /\ ~(answer = NULL /\ r.cancel_requested /\ ~r.purged)
           /\ ~(Received(outcome) /\ ~RetainAnswers) /\ answer # NULL
  <2>1. a = Adopted(r, m)
    BY <1>4 DEF FinishedJob
  <2>2. Outcome(r, m, Adopted(r, m)) /\ Adopted(r, m).row.state \notin WaitStates
    BY AdoptedOutcome
  <2> QED BY <1>4, <2>1, <2>2 DEF Concludes
<1>5. CASE /\ ~(answer = NULL /\ r.cancel_requested /\ ~r.purged)
           /\ ~(Received(outcome) /\ ~RetainAnswers) /\ answer = NULL
  <2>1. CASE Evidence(outcome) = "Released" /\ retry
    <3> DEFINE n == Store!ZeroChargeRow(r, x)
    <3>1. a = plain(n)
      BY <1>5, <2>1 DEF FinishedJob
    <3>2. Rewrites(r, n) /\ n.receipt = x /\ n.state \in Stops \cup {"Refused", "Pending", "AwaitingAdmission"}
      BY <1>1, ZeroFields
    <3> HIDE DEF n
    <3>3. Concludes(r, m, plain(n))
      BY <2>1, <3>2, PlainConcludes DEF Stops, WaitStates
    <3> QED BY <3>1, <3>3
  <2>2. CASE ~(Evidence(outcome) = "Released" /\ retry) /\ Evidence(outcome) = "Unknown" /\ ~Received(outcome)
    <3> DEFINE n == Store!UncertainRow(r, x)
    <3>1. a = plain(n)
      BY <1>5, <2>2 DEF FinishedJob
    <3>2. Rewrites(r, n) /\ n.receipt = x /\ n.state = "Uncertain"
      BY <1>1, UncertainFields
    <3> HIDE DEF n
    <3>3. Concludes(r, m, plain(n))
      BY <3>2, PlainConcludes DEF Stops, WaitStates
    <3> QED BY <3>1, <3>3
  <2>3. CASE /\ ~(Evidence(outcome) = "Released" /\ retry)
             /\ ~(Evidence(outcome) = "Unknown" /\ ~Received(outcome))
    <3> DEFINE n == Store!FailedRow(r, x)
    <3>1. a = plain(n)
      BY <1>5, <2>3 DEF FinishedJob
    <3>2. Rewrites(r, n) /\ n.receipt = x /\ n.state \in Stops \cup {"Failed"}
      BY <1>1, FailedFields
    <3> HIDE DEF n
    <3>3. Concludes(r, m, plain(n))
      BY <3>2, PlainConcludes DEF Stops, WaitStates
    <3> QED BY <3>1, <3>3
  <2> QED BY <2>1, <2>2, <2>3
<1> QED BY <1>2, <1>3, <1>4, <1>5

\* A worker records evidence b about its receipt and takes the row with it.
LEMMA StepEvidence ==
    ASSUME ModelInv, UNCHANGED <<now, billed>>, NEW w \in Workers, Open(task[w]), Rests(w),
           NEW b, Lawful(task[w].receipt, b), NEW row,
           receipts' = [receipts EXCEPT ![task[w].receipt] = b],
           jobs' = [jobs EXCEPT ![task[w].job] = row],
           NEW m, NEW a, a.row = row, Concludes(jobs[task[w].job], m, a), Alike(m, b)
    PROVE  ModelInv'
<1> DEFINE i == task[w].job
           n == task[w].receipt
<1>1. i \in Ids /\ jobs[i] # NULL /\ w \in Processes /\ KeyOf(receipts, n) = jobs[i].key
  BY WorkAt DEF Open, Working
<1>2. n \in DOMAIN receipts /\ JobsOK(jobs, receipts)
  BY <1>1, ReceiptAt DEF ModelInv
<1>3. Lawful(n, b) /\ receipts' = [receipts EXCEPT ![n] = b] /\ jobs' = [jobs EXCEPT ![i] = row]
      /\ Concludes(jobs[i], m, a)
  OBVIOUS
<1> HIDE DEF i
<1>4. /\ LedgerOK(receipts', billed') /\ Grown(receipts, receipts')
      /\ NewAnswers(jobs, receipts, receipts') /\ Replaced(receipts, receipts', n, b)
  <2> HIDE DEF n
  <2> QED BY <1>2, <1>3, EvidenceLedger
<1>5. OwnReceipts(receipts, receipts', task[w])
  BY <1>4 DEF OwnReceipts, Replaced
<1> HIDE DEF n
<1>6. n \in DOMAIN receipts' /\ Alike(m, receipts'[n]) /\ KeyOf(receipts', n) = jobs[i].key
  BY <1>1, <1>2, <1>4 DEF Replaced
<1>7. Moves(receipts', jobs[i], a.row)
  BY <1>3, <1>4, <1>6, OutcomeMoves
<1>8. RowsMove(jobs, jobs', receipts')
  BY <1>1, <1>2, <1>3, <1>7, OneJob
<1> QED BY <1>1, <1>4, <1>5, <1>8, StepRests

\* What is recorded about a call is lawful evidence: only a call known to be
\* free, and so not charged, is released.
LEMMA RecordedLawful ==
    ASSUME ModelInv, NEW n \in DOMAIN receipts, NEW outcome \in Outcomes,
           outcome = "zero" => Ref(receipts, n) \notin billed, Recordable(receipts[n], outcome),
           NEW answer, answer # NULL => Received(outcome), NEW deadline \in Nat \cup {NULL}
    PROVE  LET b == Recorded(receipts[n], outcome, answer, deadline, KeyOf(receipts, n))
           IN  /\ Lawful(n, b) /\ b.state = Evidence(outcome) /\ (Received(outcome) => b.output)
               /\ ReceiptOK(b)
               /\ b.reservation = receipts[n].reservation
<1> DEFINE m == receipts[n]
           k == KeyOf(receipts, n)
           b == Recorded(m, outcome, answer, deadline, k)
<1>1. ReceiptOK(m) /\ k \in Keys /\ m.reservation.invocation = k /\ now \in Nat
      /\ DeadlineOK(PolicyOf(jobs, k))
  BY PolicyDeadline DEF ModelInv, LedgerOK, ReceiptOK, KeyOf
<1> HIDE DEF k
<1>2. /\ Later(m, b) /\ b.state = Evidence(outcome) /\ (Received(outcome) => b.output)
      /\ m.state = "Unknown" \/ b = m
      /\ b.recovery # NULL => m.recovery # NULL \/ PolicyOf(jobs, k) = NULL \/ ~PolicyOf(jobs, k).erased
  BY <1>1, RecordedLater
<1> HIDE DEF b
<1>3. Evidence(outcome) = "Released" => outcome = "zero"
  BY DEF Evidence, Outcomes
<1>4. Evident(receipts, billed, n, b)
  BY <1>2, <1>3 DEF Evident
<1>5. Lawful(n, b)
  BY <1>2, <1>4 DEF Lawful, k
<1>6. ReceiptOK(b) /\ b.reservation = m.reservation
  BY <1>2 DEF Later
<1> QED BY <1>2, <1>5, <1>6 DEF b, k

\* A worker records the evidence of a call.
LEMMA StepRecords ==
    ASSUME ModelInv, UNCHANGED <<now, billed>>, NEW w \in Workers, Open(task[w]), Rests(w),
           NEW outcome \in Outcomes,
           outcome = "zero" => Ref(receipts, task[w].receipt) \notin billed,
           Recordable(receipts[task[w].receipt], outcome),
           NEW answer, answer # NULL => Received(outcome), NEW deadline \in Nat \cup {NULL},
           NEW retry, NEW m,
           m = Recorded(receipts[task[w].receipt], outcome, answer, deadline, jobs[task[w].job].key),
           jobs' = [jobs EXCEPT ![task[w].job] =
                      FinishedJob(jobs[task[w].job], m, outcome, answer, retry).row],
           receipts' = [receipts EXCEPT ![task[w].receipt] =
                      FinishedJob(jobs[task[w].job], m, outcome, answer, retry).receipt]
    PROVE  ModelInv'
<1> DEFINE i == task[w].job
           n == task[w].receipt
           a == FinishedJob(jobs[i], m, outcome, answer, retry)
<1>1. i \in Ids /\ jobs[i] # NULL /\ w \in Processes /\ KeyOf(receipts, n) = jobs[i].key
  BY WorkAt DEF Open, Working
<1>2. n \in DOMAIN receipts
  BY <1>1, ReceiptAt
<1>3. /\ Lawful(n, m) /\ m.state = Evidence(outcome) /\ (Received(outcome) => m.output)
      /\ ReceiptOK(m) /\ m.reservation = receipts[n].reservation
  BY <1>1, <1>2, RecordedLawful
<1>4. Concludes(jobs[i], m, a)
  BY <1>1, <1>3, FinishedConcludes
<1>5. Shrinks(m, a.receipt)
  BY <1>4 DEF Concludes, Outcome
<1>6. Alike(m, a.receipt) /\ Lawful(n, a.receipt)
  <2> HIDE DEF a, n
  <2>1. Later(receipts[n], a.receipt)
    BY <1>3, <1>5, LaterShrinks DEF Lawful, Evident
  <2> QED BY <1>3, <1>5, <2>1 DEF Lawful, Evident, Shrinks, Alike
<1>7. receipts' = [receipts EXCEPT ![task[w].receipt] = a.receipt]
      /\ jobs' = [jobs EXCEPT ![task[w].job] = a.row]
  OBVIOUS
<1> HIDE DEF a
<1> QED BY <1>4, <1>6, <1>7, StepEvidence

\* FinishJob.
LEMMA StepFinish ==
    ASSUME ModelInv, UNCHANGED <<now, billed>>, NEW w \in Workers, FinishJob(w)
    PROVE  ModelInv'
<1> DEFINE i == task[w].job
           r == jobs[i]
           n == task[w].receipt
           outcome == task[w].outcome
<1>1. task[w].pos = "sent" /\ Open(task[w]) /\ task[w].pos \in Working
  BY DEF FinishJob, Open, Working
<1>2. i \in Ids /\ r # NULL /\ w \in Processes
  BY <1>1, WorkAt
<1>3. outcome \in Outcomes /\ (outcome = "zero" => Ref(receipts, n) \notin billed)
  BY <1>1, <1>2, ReceiptAt
<1>4. r.recovery_until \in Nat \cup {NULL}
  BY <1>2, JobAt, RowShape DEF FieldTypes
<1>5. PICK a \in Answers, retry \in {FALSE, CanRetry(w)} :
         LET answer == KeptAnswer(outcome, a)
             m == Recorded(receipts[n], outcome, answer, r.recovery_until, r.key)
             about == FinishedJob(r, m, outcome, answer, retry)
         IN  IF Recordable(receipts[n], outcome) /\ FinishWritable(r, w, answer)
             THEN /\ jobs' = [jobs EXCEPT ![i] = about.row] /\ Rests(w)
                  /\ receipts' = [receipts EXCEPT ![n] = about.receipt]
                  /\ Charges(receipts[n], outcome)
             ELSE Fails(w)
  BY DEF FinishJob
<1> DEFINE answer == KeptAnswer(outcome, a)
           m == Recorded(receipts[n], outcome, answer, r.recovery_until, r.key)
<1>6. answer # NULL => Received(outcome)
  BY DEF KeptAnswer
<1>7. CASE Fails(w)
  BY <1>1, <1>7, StepFails
<1>8. CASE /\ Recordable(receipts[n], outcome) /\ Rests(w)
           /\ jobs' = [jobs EXCEPT ![i] = FinishedJob(r, m, outcome, answer, retry).row]
           /\ receipts' = [receipts EXCEPT ![n] = FinishedJob(r, m, outcome, answer, retry).receipt]
  <2> HIDE DEF answer, outcome
  <2>1. m = Recorded(receipts[task[w].receipt], outcome, answer, r.recovery_until, jobs[task[w].job].key)
    OBVIOUS
  <2> HIDE DEF m
  <2> QED BY <1>1, <1>3, <1>4, <1>6, <1>8, <2>1, StepRecords
<1> QED BY <1>5, <1>7, <1>8

\* FinishUnsent.
LEMMA StepUnsent ==
    ASSUME ModelInv, UNCHANGED <<now, billed>>, NEW w \in Workers, FinishUnsent(w)
    PROVE  ModelInv'
<1> DEFINE i == task[w].job
           n == task[w].receipt
           m == Recorded(receipts[n], "zero", NULL, NULL, jobs[i].key)
<1>1. task[w].pos = "claimed" /\ Open(task[w]) /\ task[w].pos \in Working /\ w \in Processes
  BY DEF FinishUnsent, Open, Working, Processes
<1>2. Ref(receipts, n) \notin billed /\ "zero" \in Outcomes
  BY <1>1, ReceiptAt DEF Outcomes
<1>3. CASE Fails(w)
  BY <1>1, <1>3, StepFails
<1>4. CASE /\ Recordable(receipts[n], "zero") /\ Rests(w)
           /\ jobs' = [jobs EXCEPT ![i] = FinishedJob(jobs[i], m, "zero", NULL, FALSE).row]
           /\ receipts' = [receipts EXCEPT ![n] = FinishedJob(jobs[i], m, "zero", NULL, FALSE).receipt]
  <2>1. m = Recorded(receipts[task[w].receipt], "zero", NULL, NULL, jobs[task[w].job].key)
    OBVIOUS
  <2> HIDE DEF m
  <2> QED BY <1>1, <1>2, <1>4, <2>1, StepRecords
<1> QED BY <1>3, <1>4 DEF FinishUnsent

\* ReleaseJob.
LEMMA StepRelease ==
    ASSUME ModelInv, UNCHANGED <<now, billed>>, NEW w \in Workers, ReleaseJob(w)
    PROVE  ModelInv'
<1> DEFINE i == task[w].job
           n == task[w].receipt
           m == receipts[n]
           b == Ledger!Released(m)
           row == Store!ZeroChargeRow(jobs[i], Reference(n))
           a == [row |-> row, receipt |-> b]
<1>1. task[w].pos = "claimed" /\ Open(task[w]) /\ task[w].pos \in Working
  BY DEF ReleaseJob, Open, Working
<1>2. i \in Ids /\ jobs[i] # NULL /\ w \in Processes
  BY <1>1, WorkAt
<1>3. /\ n \in DOMAIN receipts /\ ReceiptOK(m) /\ m.state = "Unknown" /\ Ref(receipts, n) \notin billed
  BY <1>1, <1>2, ReceiptAt
<1>4. CASE Fails(w)
  BY <1>1, <1>4, StepFails
<1>5. CASE Ledger!Release(n) /\ Rests(w) /\ jobs' = [jobs EXCEPT ![i] = Store!ZeroChargeRow(@, Reference(n))]
  <2>1. ~m.output /\ receipts' = [receipts EXCEPT ![n] = b]
    BY <1>5 DEF Ledger!Release, Ledger!FinishAllowed
  <2>2. jobs' = [jobs EXCEPT ![i] = row]
    BY <1>5
  <2>3. Later(m, b) /\ b.state = "Released" /\ b.recovery = m.recovery
    BY <1>3, <2>1, ReleasedLater
  <2>4. Reference(n) = b.reservation.reference /\ Reference(n) \in References /\ ReceiptOK(b)
    BY <1>3, <2>3 DEF Reference, Later, ReceiptOK
  <2> HIDE DEF b
  <2>5. Rewrites(jobs[i], row) /\ row.receipt = Reference(n)
        /\ row.state \in Stops \cup {"Refused", "Pending", "AwaitingAdmission"}
    BY <1>2, <2>4, JobAt, ZeroFields
  <2> HIDE DEF row
  <2>6. Concludes(jobs[i], b, a)
    BY <2>3, <2>4, <2>5, PlainConcludes DEF Stops, WaitStates
  <2>7. Lawful(n, b) /\ Alike(b, b) /\ a.row = row
    BY <1>3, <2>3 DEF Lawful, Evident, Alike
  <2> HIDE DEF a
  <2> QED BY <1>1, <1>5, <2>1, <2>2, <2>6, <2>7, StepEvidence
<1> QED BY <1>4, <1>5 DEF ReleaseJob

\* Send: the provider charges the receipt of the process that calls it.
LEMMA StepSend ==
    ASSUME ModelInv, UNCHANGED now, NEW p \in Processes, Send(p)
    PROVE  ModelInv'
<1> DEFINE n == task[p].receipt
<1>1. PICK outcome \in Outcomes, charged \in BOOLEAN :
         /\ outcome = "zero" => ~charged
         /\ task' = [task EXCEPT ![p].pos = "sent", ![p].outcome = outcome]
         /\ billed' = IF charged THEN billed \cup {Reference(task[p].receipt)} ELSE billed
  BY DEF Send
<1> DEFINE t == [task[p] EXCEPT !.pos = "sent", !.outcome = outcome]
<1>2. task[p].pos = "ready" /\ Open(task[p]) /\ UNCHANGED receipts /\ UNCHANGED jobs
  BY DEF Send, Open, tables
<1>3. /\ n \in DOMAIN receipts /\ LedgerOK(receipts, billed) /\ receipts[n].state = "Unknown"
      /\ Ref(receipts, n) \notin billed
  BY <1>2, ReceiptAt
<1>4. TaskOK(jobs, receipts, billed, p, task[p]) /\ task = [q \in Processes |-> task[q]] /\ now' \in Nat
  BY DEF ModelInv, TasksOK
<1>5. task' = [task EXCEPT ![p] = t]
  BY <1>1, <1>4
<1>6. billed' \in {billed, billed \cup {Ref(receipts, n)}} /\ (outcome = "zero" => billed' = billed)
  BY <1>1 DEF Reference, Ref
<1>7. LedgerOK(receipts, billed')
  BY <1>3, <1>6, LedgerCharged
<1>8. LedgerOK(receipts', billed') /\ Grown(receipts, receipts') /\ NewAnswers(jobs, receipts, receipts')
  BY <1>2, <1>3, <1>7, SameLedger
<1>9. RowsMove(jobs, jobs', receipts')
  BY <1>2, SameRows
<1>10. /\ t = [f \in TaskFields |-> t[f]] /\ t.pos = "sent" /\ t.job = task[p].job
       /\ t.receipt = n /\ t.outcome = outcome
  BY <1>4 DEF TaskOK, TaskFields
<1> HIDE DEF t
<1>11. TaskOK(jobs, receipts, billed', p, t) /\ Open(t)
  BY <1>2, <1>3, <1>4, <1>6, <1>10 DEF TaskOK, Open, Working
<1>12. TaskOK(jobs', receipts', billed', p, t)
  BY <1>2, <1>11
<1>13. /\ OwnReceipts(receipts, receipts', task[p]) /\ OwnNext(receipts, task[p], t)
       /\ OwnCharge(receipts, billed, billed', task[p])
  BY <1>2, <1>6, <1>10 DEF OwnReceipts, OwnCharge, OwnNext
<1> QED BY <1>4, <1>5, <1>8, <1>9, <1>12, <1>13, StepBy

\* DirectReserve.
LEMMA StepDirectReserve ==
    ASSUME ModelInv, UNCHANGED <<now, billed>>, NEW c \in Callers, NEW k \in Keys,
           NEW ref \in References, DirectReserve(c, k, ref)
    PROVE  ModelInv'
<1> DEFINE n == Len(receipts) + 1
           t == [Idle EXCEPT !.pos = "ready", !.receipt = n]
<1>1. c \in Processes /\ c \notin Workers /\ RetryLimit # NULL /\ now' \in Nat
  BY ModelAssumption, ModelNullAssumption DEF Processes, ModelInv
<1>2. /\ Ledger!Reserve(Reservation(ref, k), RetryLimit, NULL) /\ UNCHANGED jobs
      /\ task' = [task EXCEPT ![c] = t]
  BY DEF DirectReserve
<1>3. /\ LedgerOK(receipts', billed) /\ Grown(receipts, receipts')
      /\ NewAnswers(jobs, receipts, receipts')
      /\ DOMAIN receipts' = DOMAIN receipts \cup {n} /\ n \notin DOMAIN receipts
      /\ receipts'[n].state = "Unknown" /\ Ref(receipts', n) = ref /\ ref \notin billed
      /\ \A m \in DOMAIN receipts : receipts'[m] = receipts[m]
  BY <1>1, <1>2, Reserved
<1>4. t = [f \in TaskFields |-> t[f]] /\ t.pos = "ready" /\ t.receipt = n
  BY DEF Idle, TaskFields
<1> HIDE DEF t, n
<1>5. TaskOK(jobs', receipts', billed', c, t) /\ Open(t)
  BY <1>1, <1>3, <1>4 DEF TaskOK, Open
<1>6. /\ OwnReceipts(receipts, receipts', task[c]) /\ OwnNext(receipts, task[c], t)
      /\ OwnCharge(receipts, billed, billed', task[c])
  BY <1>3, <1>4 DEF OwnReceipts, OwnCharge, OwnNext
<1>7. RowsMove(jobs, jobs', receipts') /\ LedgerOK(receipts', billed')
  BY <1>2, <1>3, SameRows
<1> QED BY <1>1, <1>2, <1>3, <1>5, <1>6, <1>7, StepBy

\* DirectFinish.
LEMMA StepDirectFinish ==
    ASSUME ModelInv, UNCHANGED <<now, billed>>, NEW c \in Callers, DirectFinish(c)
    PROVE  ModelInv'
<1> DEFINE n == task[c].receipt
           outcome == task[c].outcome
<1>1. c \in Processes /\ Open(task[c]) /\ Rests(c) /\ UNCHANGED jobs
  BY DEF DirectFinish, Processes, Open
<1>2. /\ n \in DOMAIN receipts /\ outcome \in Outcomes /\ (outcome = "zero" => Ref(receipts, n) \notin billed)
  BY <1>1, ReceiptAt DEF DirectFinish
<1>3. RowsMove(jobs, jobs', receipts')
  BY <1>1, SameRows
<1>4. PICK a \in Answers :
         LET answer == IF Received(outcome) /\ RetainAnswers THEN a ELSE NULL
         IN  IF Recordable(receipts[n], outcome)
             THEN receipts' = [receipts EXCEPT ![n] = Recorded(@, outcome, answer, NULL, KeyOf(receipts, n))]
             ELSE UNCHANGED receipts
  BY DEF DirectFinish, KeyOf
<1> DEFINE answer == IF Received(outcome) /\ RetainAnswers THEN a ELSE NULL
           b == Recorded(receipts[n], outcome, answer, NULL, KeyOf(receipts, n))
<1>5. answer # NULL => Received(outcome)
  OBVIOUS
<1>6. CASE UNCHANGED receipts
  BY <1>1, <1>3, <1>6, RestsWithRow
<1>7. CASE Recordable(receipts[n], outcome) /\ receipts' = [receipts EXCEPT ![n] = b]
  <2> HIDE DEF answer, outcome
  <2>1. Lawful(n, b)
    BY <1>2, <1>5, <1>7, RecordedLawful
  <2> HIDE DEF b
  <2>2. /\ LedgerOK(receipts', billed') /\ Grown(receipts, receipts')
        /\ NewAnswers(jobs, receipts, receipts') /\ Replaced(receipts, receipts', n, b)
    <3> HIDE DEF n
    <3> QED BY <1>2, <1>7, <2>1, EvidenceLedger
  <2>3. OwnReceipts(receipts, receipts', task[c])
    BY <1>1, <2>2 DEF OwnReceipts, Replaced
  <2> QED BY <1>1, <1>3, <2>2, <2>3, StepRests
<1> QED BY <1>4, <1>6, <1>7

\* Reconcile: the operator says truthfully what was charged.
LEMMA StepReconcile ==
    ASSUME ModelInv, UNCHANGED <<now, billed>>, NEW n, Reconcile(n)
    PROVE  ModelInv'
<1> DEFINE m == receipts[n]
           s == IF Reference(n) \in billed THEN "Settled" ELSE "Released"
           u == IF s = "Settled" THEN Usage ELSE NULL
           b == Ledger!Finished(m, s, u, NULL)
<1>1. /\ n \in DOMAIN receipts /\ m.state = "Unknown" /\ (s = "Released" => ~m.output)
      /\ receipts' = [receipts EXCEPT ![n] = b] /\ UNCHANGED jobs /\ UNCHANGED task
      /\ ~\E p \in Processes : task[p].receipt = n /\ task[p].pos \in {"claimed", "ready"}
  BY DEF Reconcile
<1>2. ReceiptOK(m) /\ now' \in Nat /\ s \in {"Unknown", "Released", "Settled"}
      /\ (s = "Released" => Ref(receipts, n) \notin billed)
  BY <1>1 DEF ModelInv, LedgerOK, Reference, Ref
<1> HIDE DEF s, u
<1>3. Later(m, b) /\ b.state = s /\ b.recovery = m.recovery
  BY <1>1, <1>2, FinishedLater
<1> HIDE DEF b
<1>4. Lawful(n, b)
  BY <1>2, <1>3 DEF Lawful, Evident
<1>5. /\ LedgerOK(receipts', billed') /\ Grown(receipts, receipts')
      /\ NewAnswers(jobs, receipts, receipts') /\ Replaced(receipts, receipts', n, b)
  BY <1>1, <1>4, EvidenceLedger
<1>6. RowsMove(jobs, jobs', receipts')
  BY <1>1, SameRows
<1>7. \A p \in Processes : task[p].pos \in {"claimed", "ready"} =>
         receipts'[task[p].receipt].state = receipts[task[p].receipt].state
  <2>1. \A p \in Processes : task[p].pos \in {"claimed", "ready"} => task[p].receipt \in DOMAIN receipts
    BY ReceiptAt DEF Open
  <2> QED BY <1>1, <1>5, <2>1 DEF Replaced
<1> QED BY <1>1, <1>2, <1>5, <1>6, <1>7, StepQuiet

\* A step in which receipts lose answers at most and no task moves.
LEMMA QuietShrinks ==
    ASSUME ModelInv, UNCHANGED <<now, billed, task>>, ShrunkTo(receipts, receipts'),
           RowsMove(jobs, jobs', receipts')
    PROVE  ModelInv'
<1>1. LedgerOK(receipts, billed) /\ now' \in Nat
  BY DEF ModelInv
<1>2. /\ LedgerOK(receipts', billed') /\ Grown(receipts, receipts')
      /\ NewAnswers(jobs, receipts, receipts') /\ SameStates(receipts, receipts')
  BY <1>1, ShrunkLedger
<1>3. \A p \in Processes : task[p].pos \in {"claimed", "ready"} =>
         receipts'[task[p].receipt].state = receipts[task[p].receipt].state
  <2>1. \A p \in Processes : task[p].pos \in {"claimed", "ready"} => task[p].receipt \in DOMAIN receipts
    BY ReceiptAt DEF Open
  <2> QED BY <1>2, <2>1 DEF SameStates
<1> QED BY <1>1, <1>2, <1>3, StepQuiet

\* The receipt a row names.
LEMMA OfRow ==
    ASSUME ModelInv, NEW i \in Ids, jobs[i] # NULL, jobs[i].receipt # NULL
    PROVE  /\ Of(i) \in DOMAIN receipts /\ KeyOf(receipts, Of(i)) = jobs[i].key
           /\ \A n \in DOMAIN receipts : Reference(n) = jobs[i].receipt => n = Of(i)
<1>1. PICK n \in DOMAIN receipts : Ref(receipts, n) = jobs[i].receipt /\ KeyOf(receipts, n) = jobs[i].key
  BY JobAt DEF Linked
<1>2. \A m \in DOMAIN receipts : Reference(m) = jobs[i].receipt => m = n
  BY <1>1 DEF ModelInv, LedgerOK, Reference, Ref
<1>3. Of(i) \in DOMAIN receipts /\ Reference(Of(i)) = jobs[i].receipt
  BY <1>1 DEF Of, Reference, Ref
<1> QED BY <1>1, <1>2, <1>3

\* ModelJobs::recover.
LEMMA StepRecover ==
    ASSUME ModelInv, UNCHANGED <<now, billed>>, NEW w \in Workers, RecoverPage(w)
    PROVE  ModelInv'
<1>1. PICK page \in SUBSET Store!RecoveryRows(Kinds) :
         LET about == [i \in page |-> Resolved(jobs[i], receipts[Of(i)])]
         IN  /\ jobs' = [i \in Ids |-> IF i \in page THEN about[i].row ELSE jobs[i]]
             /\ receipts' = [n \in DOMAIN receipts |->
                   IF \E i \in page : Of(i) = n
                   THEN LET i == CHOOSE i \in page : Of(i) = n
                        IN  IF receipts[n].output THEN Expired(jobs[i], about[i].receipt)
                                                  ELSE receipts[n]
                   ELSE receipts[n]]
             /\ UNCHANGED <<used, task>>
  BY DEF RecoverPage
<1> DEFINE res(i) == Resolved(jobs[i], receipts[Of(i)])
           at(n) == CHOOSE i \in page : Of(i) = n
<1>2. \A i \in page : i \in Ids /\ jobs[i] # NULL /\ jobs[i].receipt # NULL
  <2>1. SUFFICES ASSUME NEW i \in page PROVE i \in Ids /\ jobs[i] # NULL /\ jobs[i].receipt # NULL
    OBVIOUS
  <2>2. i \in Ids /\ jobs[i] # NULL /\ jobs[i].state \in {"Running", "Uncertain"}
    BY DEF Store!RecoveryRows, Store!Rows
  <2> QED BY <2>2, JobAt DEF Linked
<1>3. \A i \in page : Of(i) \in DOMAIN receipts /\ KeyOf(receipts, Of(i)) = jobs[i].key
  BY <1>2, OfRow
<1>4. \A n \in DOMAIN receipts : ReceiptOK(receipts[n])
  BY DEF ModelInv, LedgerOK
<1>5. \A i \in page : Concludes(jobs[i], receipts[Of(i)], res(i))
  BY <1>2, <1>3, <1>4, ResolvedOutcome DEF Concludes
<1>6. \A n \in DOMAIN receipts : (\E i \in page : Of(i) = n) => at(n) \in page /\ Of(at(n)) = n
  OBVIOUS
<1>7. \A i \in page : [j \in page |-> res(j)][i] = res(i)
  OBVIOUS
<1>8. /\ receipts' = [n \in DOMAIN receipts |-> receipts'[n]]
      /\ \A n \in DOMAIN receipts : \/ receipts'[n] = receipts[n]
                                    \/ /\ at(n) \in page /\ Of(at(n)) = n
                                       /\ receipts'[n] = Expired(jobs[at(n)], res(at(n)).receipt)
  BY <1>1, <1>6, <1>7
<1>9. /\ jobs' = [i \in Ids |-> jobs'[i]]
      /\ \A i \in Ids : jobs'[i] = jobs[i] \/ (i \in page /\ jobs'[i] = res(i).row)
  BY <1>1, <1>7
<1> HIDE DEF res, at
<1>10. \A n \in DOMAIN receipts : Shrinks(receipts[n], receipts'[n])
  <2>1. SUFFICES ASSUME NEW n \in DOMAIN receipts PROVE Shrinks(receipts[n], receipts'[n])
    OBVIOUS
  <2>2. CASE receipts'[n] = receipts[n]
    BY <1>4, <2>2, ShrinksSelf
  <2>3. CASE at(n) \in page /\ Of(at(n)) = n /\ receipts'[n] = Expired(jobs[at(n)], res(at(n)).receipt)
    <3>1. Shrinks(receipts[n], res(at(n)).receipt)
      BY <1>5, <2>3 DEF Concludes, Outcome
    <3> QED BY <2>3, <3>1, ExpiredShrinks
  <2> QED BY <1>8, <2>2, <2>3
<1>11. ShrunkTo(receipts, receipts') /\ LedgerOK(receipts, billed)
  BY <1>8, <1>10 DEF ShrunkTo, ModelInv
<1>12. LedgerOK(receipts', billed) /\ DOMAIN receipts' = DOMAIN receipts
  BY <1>11, ShrunkLedger DEF SameStates
<1>13. \A i \in page : Moves(receipts', jobs[i], res(i).row)
  <2>1. SUFFICES ASSUME NEW i \in page PROVE Moves(receipts', jobs[i], res(i).row)
    OBVIOUS
  <2> DEFINE n == Of(i)
  <2>2. n \in DOMAIN receipts' /\ Shrinks(receipts[n], receipts'[n]) /\ KeyOf(receipts, n) = jobs[i].key
    BY <1>3, <1>10, <1>12
  <2>3. Alike(receipts[n], receipts'[n]) /\ KeyOf(receipts', n) = jobs[i].key
    BY <2>2 DEF Alike, Shrinks, KeyOf
  <2>4. Concludes(jobs[i], receipts[n], res(i))
    BY <1>5
  <2> HIDE DEF n
  <2> QED BY <1>12, <2>2, <2>3, <2>4, OutcomeMoves
<1>14. RowsMove(jobs, jobs', receipts')
  BY <1>2, <1>9, <1>13 DEF RowsMove
<1>15. UNCHANGED task
  BY <1>1
<1> QED BY <1>11, <1>14, <1>15, QuietShrinks

----------------------------------------------------------------------------
(* Requests of the owner.                                                  *)

\* Clearing removes answers only.
LEMMA ClearShrinks ==
    ASSUME ModelInv, NEW S, receipts' = Clear(S)
    PROVE  /\ ShrunkTo(receipts, receipts') /\ LedgerOK(receipts', billed) /\ Grown(receipts, receipts')
           /\ \A n \in DOMAIN receipts : n \in S => receipts'[n].recovery = NULL
<1>1. LedgerOK(receipts, billed) /\ \A n \in DOMAIN receipts : ReceiptOK(receipts[n])
  BY DEF ModelInv, LedgerOK
<1>2. /\ receipts' = [n \in DOMAIN receipts |-> receipts'[n]]
      /\ \A n \in DOMAIN receipts : receipts'[n] = IF n \in S THEN Ledger!Cleared(receipts[n]) ELSE receipts[n]
  BY DEF Clear
<1>3. /\ \A n \in DOMAIN receipts : Shrinks(receipts[n], receipts'[n])
      /\ \A n \in DOMAIN receipts : n \in S => receipts'[n].recovery = NULL
  BY <1>1, <1>2, ClearedShrinks, ShrinksSelf
<1>4. ShrunkTo(receipts, receipts')
  BY <1>2, <1>3 DEF ShrunkTo
<1> QED BY <1>1, <1>3, <1>4, ShrunkLedger

\* Clearing what goes with a row leaves its invocation without an answer: a
\* receipt that is not the latest is released and never had one.
LEMMA AffectedGone ==
    ASSUME ModelInv, NEW i \in Ids, jobs[i] # NULL, NEW S, receipts' = Clear(S),
           Affected(i) \subseteq S
    PROVE  Gone(receipts', jobs[i].key)
<1> DEFINE k == jobs[i].key
<1>1. ShrunkTo(receipts, receipts') /\ \A n \in DOMAIN receipts : n \in S => receipts'[n].recovery = NULL
  BY ClearShrinks
<1>2. DOMAIN receipts' = DOMAIN receipts /\ \A n \in DOMAIN receipts : Shrinks(receipts[n], receipts'[n])
  BY <1>1 DEF ShrunkTo
<1>3. LedgerOK(receipts, billed)
  BY DEF ModelInv
<1>4. ASSUME NEW n \in DOMAIN receipts, KeyOf(receipts, n) = k PROVE receipts'[n].recovery = NULL
  <2>1. n \in Ledger!Chain(Account, k)
    BY <1>3, <1>4, ChainIs
  <2>2. CASE n \in LatestOf(k)
    BY <1>1, <2>2 DEF Affected
  <2>3. CASE n \notin LatestOf(k)
    <3>1. PICK l \in DOMAIN receipts : KeyOf(receipts, l) = k /\ ~(l <= n)
      BY <1>3, <2>1, <2>3, ChainIs DEF LatestOf, Ledger!Latest
    <3>2. l \in Nat /\ n \in Nat
      BY <1>3, ListedTable DEF LedgerOK
    <3>3. receipts[n].state = "Released"
      BY <1>3, <1>4, <3>1, <3>2 DEF LedgerOK
    <3>4. receipts[n].recovery = NULL
      BY <1>3, <3>3 DEF LedgerOK, ReceiptOK
    <3> QED BY <1>2, <3>4 DEF Shrinks
  <2> QED BY <2>2, <2>3
<1>5. \A n \in DOMAIN receipts' : KeyOf(receipts', n) = KeyOf(receipts, n)
  BY <1>2 DEF Shrinks, KeyOf
<1> QED BY <1>2, <1>4, <1>5 DEF Gone

\* Confirmation.
LEMMA StepConfirm ==
    ASSUME ModelInv, UNCHANGED <<now, billed, task>>, NEW i \in Ids, NEW g,
           NEW d \in {"Accepted", "Discarded"},
           ConfirmJobs([j \in {i} |-> g], [j \in {i} |-> d])
    PROVE  ModelInv'
<1> DEFINE token == [j \in {i} |-> g]
           disposition == [j \in {i} |-> d]
           S == UNION {Affected(j) : j \in DOMAIN token}
           n == Store!Tombstone(jobs[i], d)
<1>1. /\ receipts' = Clear(S) /\ DOMAIN token = {i} /\ disposition[i] = d
      /\ DOMAIN token \subseteq Store!Rows /\ ~Store!Unfinished(jobs[i])
      /\ jobs' = [j \in Ids |-> IF j \in DOMAIN token /\ ~Store!Acked(jobs[j])
                                THEN Store!Tombstone(jobs[j], disposition[j]) ELSE jobs[j]]
  BY DEF ConfirmJobs, Store!Ack
<1>2. jobs[i] # NULL /\ Affected(i) \subseteq S
  BY <1>1 DEF Store!Rows
<1>3. /\ jobs' = [j \in Ids |-> jobs'[j]]
      /\ \A j \in Ids : jobs'[j] = jobs[j] \/ (j = i /\ ~Store!Acked(jobs[i]) /\ jobs'[j] = n)
  BY <1>1
<1> HIDE DEF S, token, disposition
<1>4. Gone(receipts', jobs[i].key)
  BY <1>1, <1>2, AffectedGone
<1>5. ShrunkTo(receipts, receipts') /\ LedgerOK(receipts', billed) /\ Grown(receipts, receipts')
  BY <1>1, ClearShrinks
<1>6. ASSUME ~Store!Acked(jobs[i]) PROVE Moves(receipts', jobs[i], n)
  <2>1. jobs[i] \in Store!JobRecord /\ jobs[i].execution = "Model" /\ Linked(receipts, jobs[i])
    BY <1>2, JobAt
  <2>2. jobs[i].state \in Store!FinalStates
    <3>1. jobs[i].state \in Store!JobState
      BY <2>1, RowShape DEF FieldTypes
    <3> QED BY <1>1, <1>6, <3>1 DEF Store!Acked, Store!Unfinished, Store!JobState
  <2>3. /\ n \in Store!JobRecord /\ n.key = jobs[i].key /\ n.execution = jobs[i].execution
        /\ n.kind = jobs[i].kind /\ n.receipt = jobs[i].receipt /\ n.state = d
    BY <2>1, <2>2, TombstoneFields
  <2> HIDE DEF n
  <2>4. n.state \in Unpaid
    BY <2>3 DEF Unpaid
  <2>5. Linked(receipts', n)
    BY <1>5, <2>1, <2>3, <2>4, LinkedKept
  <2> QED BY <1>4, <2>3, <2>5 DEF Moves
<1> HIDE DEF n
<1>7. RowsMove(jobs, jobs', receipts')
  BY <1>2, <1>3, <1>6 DEF RowsMove
<1> QED BY <1>5, <1>7, QuietShrinks

\* Erasure.
LEMMA StepPurge ==
    ASSUME ModelInv, UNCHANGED <<billed, task>>, NEW owner, PurgeJobs(owner)
    PROVE  ModelInv'
<1> DEFINE erased == Store!OwnedBy(owner)
           found(i) == {Reference(n) : n \in Affected(i)}
           S == UNION {Affected(i) : i \in erased}
           own(i) == Store!PurgeRow(jobs[i])
           row(i) == [own(i) EXCEPT !.receipt = CHOOSE x \in found(i) : TRUE]
<1>1. /\ receipts' = Clear(S) /\ UNCHANGED now
      /\ jobs' = [i \in Ids |->
            IF i \notin erased THEN jobs[i]
            ELSE IF Store!Unfinished(jobs[i]) /\ found(i) # {} THEN row(i) ELSE own(i)]
  BY DEF PurgeJobs
<1>2. \A i \in erased : i \in Ids /\ jobs[i] # NULL /\ Affected(i) \subseteq S
  BY DEF Store!OwnedBy, Store!Rows
<1>3. /\ jobs' = [i \in Ids |-> jobs'[i]]
      /\ \A i \in Ids : \/ jobs'[i] = jobs[i]
                        \/ i \in erased /\ jobs'[i] = own(i)
                        \/ /\ i \in erased /\ Store!Unfinished(jobs[i]) /\ found(i) # {}
                           /\ jobs'[i] = row(i)
  BY <1>1
<1>4. ShrunkTo(receipts, receipts') /\ LedgerOK(receipts', billed) /\ Grown(receipts, receipts')
  BY <1>1, ClearShrinks
<1> HIDE DEF S, erased
<1>5. ASSUME NEW i \in erased
      PROVE  /\ Moves(receipts', jobs[i], own(i))
             /\ Store!Unfinished(jobs[i]) /\ found(i) # {} => Moves(receipts', jobs[i], row(i))
  <2> DEFINE r == jobs[i]
             o == own(i)
             x == CHOOSE x \in found(i) : TRUE
             n == [o EXCEPT !.receipt = x]
  <2>1. i \in Ids /\ r # NULL /\ Affected(i) \subseteq S
    BY <1>2, <1>5
  <2>2. Gone(receipts', r.key)
    BY <1>1, <2>1, AffectedGone
  <2>3. r \in Store!JobRecord /\ r.execution = "Model" /\ Linked(receipts, r) /\ now \in Nat
        /\ LedgerOK(receipts, billed)
    BY <2>1, JobAt DEF ModelInv
  <2>4. /\ o \in Store!JobRecord /\ o.key = r.key /\ o.execution = r.execution /\ o.kind = r.kind
        /\ o.purged /\ o.receipt = r.receipt
        /\ \/ o.state = "Purged"
           \/ o.state = r.state /\ r.state \in {"Running", "Uncertain", "Accepted", "Discarded"}
    BY <2>3, PurgeFields
  <2>5. Moves(receipts', r, o)
    <3> HIDE DEF o
    <3>1. o.state = r.state \/ o.state \in Unpaid
      BY <2>4 DEF Unpaid
    <3>2. Linked(receipts', o)
      BY <1>4, <2>3, <2>4, <3>1, LinkedKept
    <3> QED BY <2>2, <2>4, <3>2 DEF Moves
  <2>6. ASSUME found(i) # {} PROVE Moves(receipts', r, n)
    <3>1. PICK m \in Affected(i) : x = Reference(m)
      BY <2>6
    <3>2. m \in DOMAIN receipts /\ KeyOf(receipts, m) = r.key
      <4>1. CASE m \in LatestOf(r.key)
        BY <2>3, <4>1, ChainIs
      <4>2. CASE m \in DOMAIN receipts /\ Reference(m) = r.receipt
        <5>1. r.receipt # NULL
          BY <2>3, <4>2, Named DEF Reference, Ref
        <5> QED BY <2>1, <4>2, <5>1, OfRow
      <4> QED BY <3>1, <4>1, <4>2 DEF Affected
    <3>3. x \in References /\ x = Ref(receipts, m)
      BY <2>3, <3>1, <3>2, Named DEF Reference, Ref
    <3> HIDE DEF o, x, r
    <3>4. Rewrites(o, n) /\ n.state = o.state /\ n.receipt = x
      BY <2>4, <3>3, ReceiptRow
    <3> HIDE DEF n
    <3>5. m \in DOMAIN receipts' /\ Ref(receipts', m) = x /\ KeyOf(receipts', m) = r.key
      BY <1>4, <3>2, <3>3 DEF Grown, Later, Ref, KeyOf
    <3>6. n.state \notin WaitStates /\ n.state # "Succeeded" /\ n.key = KeyOf(receipts', m)
          /\ n.receipt = Ref(receipts', m)
      BY <2>4, <3>4, <3>5 DEF WaitStates, Rewrites
    <3>7. Linked(receipts', n)
      BY <1>4, <3>5, <3>6, LinkedTo
    <3> QED BY <2>2, <2>4, <3>4, <3>7 DEF Moves, Rewrites
  <2> QED BY <2>5, <2>6
<1> HIDE DEF own, row, found
<1>6. RowsMove(jobs, jobs', receipts')
  BY <1>2, <1>3, <1>5 DEF RowsMove
<1>7. UNCHANGED now
  BY <1>1
<1> QED BY <1>4, <1>6, <1>7, QuietShrinks

\* A maintenance pass of the store.
LEMMA StepExpireJobs ==
    ASSUME ModelInv, UNCHANGED <<now, billed, task>>, ExpireJobs
    PROVE  ModelInv'
<1> DEFINE pass == Store!MaintenancePass
           S == {n \in DOMAIN receipts : \E i \in pass : jobs[i].receipt = Reference(n)}
<1>1. /\ receipts' = Clear(S)
      /\ jobs' = [i \in Ids |-> IF i \in pass THEN Store!Expire(jobs[i]) ELSE jobs[i]]
  BY DEF ExpireJobs, Store!Maintain
<1>2. \A i \in pass : i \in Ids /\ jobs[i] # NULL
  BY DEF Store!MaintenancePass, Store!ExpiredRows, Store!FirstBy, Store!Rows
<1> HIDE DEF S, pass
<1>3. ShrunkTo(receipts, receipts') /\ LedgerOK(receipts', billed') /\ Grown(receipts, receipts')
  BY <1>1, ClearShrinks
<1>4. \A i \in pass : LET n == Store!Expire(jobs[i])
                      IN  Rewrites(jobs[i], n) /\ n.receipt = jobs[i].receipt /\ n.state = jobs[i].state
  BY <1>2, JobAt, ExpireRow
<1>5. RowsMove(jobs, jobs', receipts')
  <2>1. jobs' = [i \in Ids |-> jobs'[i]]
    BY <1>1
  <2>2. \A i \in Ids : \/ jobs'[i] = jobs[i]
                       \/ /\ jobs[i] # NULL /\ Rewrites(jobs[i], jobs'[i])
                          /\ jobs'[i].receipt = jobs[i].receipt
                          /\ jobs'[i].state = jobs[i].state \/ jobs'[i].state \in Stops
    BY <1>1, <1>2, <1>4
  <2> QED BY <1>3, <2>1, <2>2, ManyRewrites
<1> QED BY <1>3, <1>5, QuietShrinks

\* A delivery.
LEMMA StepDeliver ==
    ASSUME ModelInv, UNCHANGED <<billed, task>>, NEW limit, DeliverJobs(limit)
    PROVE  ModelInv'
<1> DEFINE page == Store!DeliveryCandidates(limit)
           S == {n \in DOMAIN receipts : \E i \in page : NoAnswer(i) /\ jobs[i].receipt = Reference(n)}
<1>1. /\ receipts' = Clear(S) /\ UNCHANGED now
      /\ jobs' = [i \in Ids |-> IF i \in page THEN Store!DeliveredRow(jobs[i]) ELSE jobs[i]]
  BY DEF DeliverJobs
<1>2. \A i \in page : i \in Ids /\ jobs[i] # NULL
  BY DEF Store!DeliveryCandidates, Store!FirstBy, Store!Rows
<1> HIDE DEF S, page
<1>3. ShrunkTo(receipts, receipts') /\ LedgerOK(receipts', billed') /\ Grown(receipts, receipts')
  BY <1>1, ClearShrinks
<1>4. \A i \in page : LET n == Store!DeliveredRow(jobs[i])
                      IN  Rewrites(jobs[i], n) /\ n.receipt = jobs[i].receipt /\ n.state = jobs[i].state
  BY <1>2, JobAt, DeliveredFields
<1>5. RowsMove(jobs, jobs', receipts')
  <2>1. jobs' = [i \in Ids |-> jobs'[i]]
    BY <1>1
  <2>2. \A i \in Ids : \/ jobs'[i] = jobs[i]
                       \/ /\ jobs[i] # NULL /\ Rewrites(jobs[i], jobs'[i])
                          /\ jobs'[i].receipt = jobs[i].receipt
                          /\ jobs'[i].state = jobs[i].state \/ jobs'[i].state \in Stops
    BY <1>1, <1>2, <1>4
  <2> QED BY <1>3, <2>1, <2>2, ManyRewrites
<1>6. UNCHANGED now
  BY <1>1
<1> QED BY <1>3, <1>5, <1>6, QuietShrinks

\* Cancellation.
LEMMA StepCancel ==
    ASSUME ModelInv, UNCHANGED <<now, billed, task, receipts>>, NEW i, Store!CancelIds({i})
    PROVE  ModelInv'
<1>1. /\ i \in Ids /\ jobs[i] # NULL
      /\ jobs' = [j \in Ids |-> IF j \in {i} /\ Store!Unfinished(jobs[j])
                                THEN Store!CancelRow(jobs[j]) ELSE jobs[j]]
  BY DEF Store!CancelIds, Store!CancelRows, Store!Rows
<1>2. LET n == Store!CancelRow(jobs[i])
      IN  Rewrites(jobs[i], n) /\ n.receipt = jobs[i].receipt /\ n.state \in Stops \cup {jobs[i].state}
  BY <1>1, JobAt, CancelFields
<1>3. LedgerOK(receipts', billed') /\ Grown(receipts, receipts')
  BY SameReceipts
<1>4. RowsMove(jobs, jobs', receipts')
  <2>1. jobs' = [j \in Ids |-> jobs'[j]]
    BY <1>1
  <2>2. \A j \in Ids : \/ jobs'[j] = jobs[j]
                       \/ /\ jobs[j] # NULL /\ Rewrites(jobs[j], jobs'[j])
                          /\ jobs'[j].receipt = jobs[j].receipt
                          /\ jobs'[j].state = jobs[j].state \/ jobs'[j].state \in Stops
    BY <1>1, <1>2
  <2> QED BY <1>3, <2>1, <2>2, ManyRewrites
<1> QED BY <1>4, QuietWithRow

\* New authority.
LEMMA StepAdmit ==
    ASSUME ModelInv, UNCHANGED <<now, billed, task, receipts>>, NEW i \in Ids, NEW a \in Admissions,
           Store!Admit(i, a)
    PROVE  ModelInv'
<1> DEFINE n == Store!AdmitRow(jobs[i], a)
<1>1. jobs[i] # NULL /\ jobs[i].state \in WaitStates /\ jobs' = [jobs EXCEPT ![i] = n]
  BY DEF Store!Admit, Store!Rows, Store!Waiting, WaitStates
<1>2. Rewrites(jobs[i], n) /\ n.state = "Pending" /\ n.receipt = jobs[i].receipt
  BY <1>1, JobAt, AdmittedRow
<1> HIDE DEF n
<1>3. RowsMove(jobs, jobs', receipts')
  BY <1>1, <1>2, OneRewrite DEF WaitStates
<1> QED BY <1>3, QuietWithRow

\* expire_recovery.
LEMMA StepExpireAnswers ==
    ASSUME ModelInv, UNCHANGED <<now, billed, task>>, ExpireAnswers
    PROVE  ModelInv'
<1>1. PICK S : receipts' = [n \in DOMAIN receipts |-> IF n \in S THEN Ledger!Cleared(receipts[n])
                                                                 ELSE receipts[n]]
  BY DEF ExpireAnswers, Ledger!Sweep, Ledger!ExpireRecovery, Ledger!Rows
<1>2. receipts' = Clear(S) /\ UNCHANGED jobs
  BY <1>1 DEF Clear, ExpireAnswers
<1>3. ShrunkTo(receipts, receipts')
  BY <1>2, ClearShrinks
<1>4. RowsMove(jobs, jobs', receipts')
  BY <1>2, SameRows
<1> QED BY <1>3, <1>4, QuietShrinks

\* Submission: new rows name no receipt and belong to new keys.
LEMMA StepEnqueue ==
    ASSUME ModelInv, UNCHANGED <<now, billed, task>>, NEW batch \in SUBSET Specs, EnqueueJobs(batch)
    PROVE  ModelInv'
<1> DEFINE newKeys == {k \in {s.key : s \in batch} : Store!RowOfKey(k) = {}}
<1>0. PICK I \in SUBSET (Ids \ Store!Rows) : \E new \in [I -> batch] :
         /\ {new[i].key : i \in I} = newKeys
         /\ \A i, j \in I : new[i].key = new[j].key => i = j
         /\ jobs' = [i \in Ids |-> IF i \in I THEN Store!NewRow(new[i]) ELSE jobs[i]]
  BY DEF EnqueueJobs, Store!Enqueue
<1>1. PICK new \in [I -> batch] :
         /\ {new[i].key : i \in I} = newKeys
         /\ \A i, j \in I : new[i].key = new[j].key => i = j
         /\ jobs' = [i \in Ids |-> IF i \in I THEN Store!NewRow(new[i]) ELSE jobs[i]]
  BY <1>0
<1>2. LedgerOK(receipts, billed) /\ JobsOK(jobs, receipts) /\ now \in Nat /\ now' \in Nat
      /\ TasksOK(jobs, receipts, billed, task)
  BY DEF ModelInv
<1>3. \A i \in I : i \in Ids /\ jobs[i] = NULL /\ new[i] \in Specs /\ new[i].key \in newKeys
  BY <1>1 DEF Store!Rows
<1>4. \A i \in I : /\ jobs'[i] \in Store!JobRecord /\ jobs'[i].key = new[i].key
                   /\ jobs'[i].execution = "Model" /\ jobs'[i].kind # NULL
                   /\ jobs'[i].receipt = NULL /\ jobs'[i].state = "Pending" /\ ~ErasedJob(jobs'[i])
  <2>1. \A i \in I : jobs'[i] = Store!NewRow(new[i])
    BY <1>1, <1>3
  <2> QED BY <1>2, <1>3, <2>1, NewFields
<1>5. \A i \in Ids : i \notin I => jobs'[i] = jobs[i]
  BY <1>1
<1>6. jobs' = [i \in Ids |-> jobs'[i]]
  BY <1>1
<1>7. KeepsRows(jobs, jobs')
  BY <1>3, <1>5 DEF KeepsRows
<1>8. JobsOK(jobs', receipts)
  <2>1. ASSUME NEW i \in Ids, jobs'[i] # NULL PROVE JobOK(receipts, jobs'[i])
    <3>1. CASE i \notin I
      BY <1>2, <1>5, <2>1, <3>1 DEF JobsOK
    <3>2. CASE i \in I
      <4>1. Linked(receipts, jobs'[i])
        BY <1>2, <1>4, <3>2, Named DEF Linked
      <4> QED BY <1>4, <3>2, <4>1 DEF JobOK
    <3> QED BY <3>1, <3>2
  <2>2. ASSUME NEW i \in Ids, NEW j \in Ids, jobs'[i] # NULL, jobs'[j] # NULL, jobs'[i].key = jobs'[j].key
        PROVE  i = j
    <3>1. ASSUME NEW a \in I, NEW b \in Ids, b \notin I, jobs'[b] # NULL PROVE jobs'[a].key # jobs'[b].key
      <4>1. jobs'[a].key \in newKeys /\ jobs'[b] = jobs[b] /\ jobs[b] # NULL
        BY <1>3, <1>4, <1>5, <3>1
      <4> QED BY <4>1, <3>1 DEF Store!RowOfKey, Store!Rows
    <3>2. CASE i \in I /\ j \in I
      <4>1. \A a, b \in I : new[a].key = new[b].key => a = b
        BY <1>1
      <4>2. new[i].key = new[j].key
        BY <1>4, <2>2, <3>2
      <4> QED BY <3>2, <4>1, <4>2
    <3>3. CASE i \notin I /\ j \notin I
      BY <1>2, <1>5, <2>2, <3>3 DEF JobsOK
    <3> QED BY <2>2, <3>1, <3>2, <3>3
  <2> QED BY <1>6, <2>1, <2>2 DEF JobsOK
<1>9. ShrunkTo(receipts, receipts')
  <2>1. /\ receipts' = [n \in DOMAIN receipts |-> receipts'[n]]
        /\ \A n \in DOMAIN receipts :
              receipts'[n] \in {receipts[n], Narrowed(receipts[n], PolicyOf(jobs', KeyOf(receipts, n)))}
    BY DEF EnqueueJobs, KeyOf
  <2>2. \A n \in DOMAIN receipts : ReceiptOK(receipts[n]) /\ DeadlineOK(PolicyOf(jobs', KeyOf(receipts, n)))
    BY <1>2, <1>8, PolicyDeadline DEF LedgerOK
  <2>3. \A n \in DOMAIN receipts : Shrinks(receipts[n], receipts'[n])
    BY <2>1, <2>2, ShrinksSelf, NarrowedShrinks DEF DeadlineOK
  <2> QED BY <2>1, <2>3 DEF ShrunkTo
<1>10. /\ LedgerOK(receipts', billed) /\ Grown(receipts, receipts')
       /\ NewAnswers(jobs', receipts, receipts') /\ SameStates(receipts, receipts')
  BY <1>2, <1>9, ShrunkLedger
<1>11. JobsOK(jobs', receipts')
  <2>1. RowsMove(jobs', jobs', receipts')
    BY <1>6 DEF RowsMove
  <2> QED BY <1>8, <1>10, <2>1, JobsKept
<1>12. TasksOK(jobs', receipts', billed, task)
  <2>1. \A p \in Processes : task[p].pos \in {"claimed", "ready"} => task[p].receipt \in DOMAIN receipts
    BY ReceiptAt DEF Open
  <2>2. \A p \in Processes : task[p].pos \in {"claimed", "ready"} =>
           receipts'[task[p].receipt].state = receipts[task[p].receipt].state
    BY <1>10, <2>1 DEF SameStates
  <2> QED BY <1>2, <1>7, <1>10, <2>2, TasksStay
<1> QED BY <1>2, <1>10, <1>11, <1>12 DEF ModelInv

----------------------------------------------------------------------------
(* The invariant.                                                          *)

\* Requests of the owner, and the answers' expiry.
LEMMA OwnerInv ==
    ASSUME ModelInv, UNCHANGED <<now, billed, task>>, OwnerStep \/ ExpireAnswers
    PROVE  ModelInv'
<1>1. ASSUME NEW batch \in SUBSET Specs, EnqueueJobs(batch) PROVE ModelInv'
  BY <1>1, StepEnqueue
<1>2. ASSUME NEW i \in Ids, NEW t \in 1..MaxToken, NEW d \in {"Accepted", "Discarded"},
             ConfirmJobs([j \in {i} |-> t], [j \in {i} |-> d])
      PROVE  ModelInv'
  BY <1>2, StepConfirm
<1>3. ASSUME NEW owner \in Owners, PurgeJobs(owner) PROVE ModelInv'
  BY <1>3, StepPurge
<1>4. ASSUME NEW limit \in 1..MaxPage, DeliverJobs(limit) PROVE ModelInv'
  BY <1>4, StepDeliver
<1>5. ASSUME ExpireJobs PROVE ModelInv'
  BY <1>5, StepExpireJobs
<1>6. ASSUME NEW i \in Store!Rows, Store!CancelIds({i}), UNCHANGED <<receipts, used>> PROVE ModelInv'
  BY <1>6, StepCancel
<1>7. ASSUME NEW i \in Ids, NEW a \in Admissions, Store!Admit(i, a), UNCHANGED <<receipts, used>>
      PROVE  ModelInv'
  BY <1>7, StepAdmit
<1>8. ASSUME ExpireAnswers PROVE ModelInv'
  BY <1>8, StepExpireAnswers
<1> QED BY <1>1, <1>2, <1>3, <1>4, <1>5, <1>6, <1>7, <1>8 DEF OwnerStep

\* A worker's steps.
LEMMA WorkerInv ==
    ASSUME ModelInv, UNCHANGED <<now, billed>>, NEW w \in Workers, WorkerStep(w)
    PROVE  ModelInv'
<1>1. CASE RecoverPage(w) BY <1>1, StepRecover
<1>2. CASE PickCandidate(w) BY <1>2, StepPick
<1>3. CASE CheckPrevious(w) BY <1>3, StepCheck
<1>4. CASE Refuse(w) BY <1>4, StepRefuse
<1>5. CASE Ineligible(w) BY <1>5, StepIneligible
<1>6. CASE Claim(w) BY <1>6, StepClaim
<1>7. CASE Prepare(w) BY <1>7, StepPrepare
<1>8. CASE Renew(w) BY <1>8, StepRenew
<1>9. CASE ReleaseJob(w) BY <1>9, StepRelease
<1>10. CASE FinishUnsent(w) BY <1>10, StepUnsent
<1>11. CASE FinishJob(w) BY <1>11, StepFinish
<1> QED BY <1>1, <1>2, <1>3, <1>4, <1>5, <1>6, <1>7, <1>8, <1>9, <1>10, <1>11 DEF WorkerStep

\* A crash ends every task.
LEMMA StepCrash == ASSUME ModelInv, Crash PROVE ModelInv'
<1>1. /\ UNCHANGED jobs /\ UNCHANGED receipts /\ UNCHANGED now /\ UNCHANGED billed
      /\ task' = [p \in Processes |-> Idle]
  BY DEF Crash, tables
<1>2. /\ task' = [p \in Processes |-> task'[p]]
      /\ \A p \in Processes : TaskOK(jobs, receipts, billed, p, task'[p]) /\ ~Open(task'[p])
  BY <1>1, IdleOK
<1>3. TasksOK(jobs, receipts, billed, task')
  BY <1>2 DEF TasksOK
<1> QED BY <1>1, <1>3 DEF ModelInv

\* Every step keeps the invariant.
LEMMA NextInv == ASSUME ModelInv, [ModelNext]_jobVars PROVE ModelInv'
<1>1. ASSUME NEW w \in Workers, WorkerStep(w), UNCHANGED <<now, billed, crashes>> PROVE ModelInv'
  BY <1>1, WorkerInv
<1>2. ASSUME NEW c \in Callers, CallerStep(c), UNCHANGED <<now, billed, crashes>> PROVE ModelInv'
  BY <1>2, StepDirectReserve, StepDirectFinish DEF CallerStep
<1>3. ASSUME NEW n \in 1..MaxReceipts, Reconcile(n), UNCHANGED <<now, billed, crashes>> PROVE ModelInv'
  BY <1>3, StepReconcile
<1>4. ASSUME OwnerStep \/ ExpireAnswers, UNCHANGED task, UNCHANGED <<now, billed, crashes>>
      PROVE  ModelInv'
  BY <1>4, OwnerInv
<1>5. ASSUME NEW p \in Processes, Send(p), UNCHANGED <<now, crashes>> PROVE ModelInv'
  BY <1>5, StepSend
<1>6. CASE Crash
  BY <1>6, StepCrash
<1>7. CASE ModelTick
  BY <1>7 DEF ModelTick, Store!Tick, ModelInv
<1>8. CASE UNCHANGED jobVars
  BY <1>8 DEF jobVars, ModelInv
<1> QED BY <1>1, <1>2, <1>3, <1>4, <1>5, <1>6, <1>7, <1>8 DEF ModelNext

\* It holds initially.
LEMMA InitInv == ASSUME ModelInit PROVE ModelInv
<1>1. /\ jobs = [i \in Ids |-> NULL] /\ now = 0 /\ receipts = <<>> /\ billed = {}
      /\ task = [p \in Processes |-> Idle]
  BY DEF ModelInit, Store!Init
<1>2. LedgerOK(receipts, billed)
  BY <1>1 DEF LedgerOK, Listed
<1>3. JobsOK(jobs, receipts)
  BY <1>1 DEF JobsOK
<1>4. TasksOK(jobs, receipts, billed, task)
  BY <1>1, IdleOK DEF TasksOK
<1> QED BY <1>1, <1>2, <1>3, <1>4 DEF ModelInv

\* Jobs, ledger and tasks fit together in every reachable state, for any
\* number of jobs, receipts, workers and callers, any crashes included.
THEOREM ModelInvariant == ModelSpec => []ModelInv
<1>1. ModelInit => ModelInv
  BY InitInv
<1>2. ModelInv /\ [ModelNext]_jobVars => ModelInv'
  BY NextInv
<1> QED BY <1>1, <1>2, PTL DEF ModelSpec

\* An invocation is charged at most once, whoever runs it: two charges of one
\* invocation would be two receipts of it that are not released, and only the
\* latest is not.
THEOREM ChargedAtMostOnce == ModelSpec => []PaidOnce
<1>1. ASSUME ModelInv PROVE PaidOnce
  <2>1. LedgerOK(receipts, billed)
    BY <1>1 DEF ModelInv
  <2>2. SUFFICES ASSUME NEW a \in billed, NEW b \in billed, InvocationOf(a) = InvocationOf(b)
                 PROVE  a = b
    BY DEF PaidOnce
  <2>3. PICK m \in DOMAIN receipts : Ref(receipts, m) = a
    BY <2>1 DEF LedgerOK
  <2>4. PICK n \in DOMAIN receipts : Ref(receipts, n) = b
    BY <2>1 DEF LedgerOK
  <2>5. KeyOf(receipts, m) \in InvocationOf(a)
    BY <2>3 DEF InvocationOf, Reference, Ref, KeyOf
  <2>6. \A x \in InvocationOf(b) : x = KeyOf(receipts, n)
    BY <2>1, <2>4 DEF InvocationOf, LedgerOK, Reference, Ref, KeyOf
  <2>7. KeyOf(receipts, m) = KeyOf(receipts, n)
    BY <2>2, <2>5, <2>6
  <2>8. receipts[m].state # "Released" /\ receipts[n].state # "Released"
    BY <2>1, <2>3, <2>4 DEF LedgerOK
  <2>9. m = n
    BY <2>1, <2>7, <2>8, OnlyLatest
  <2> QED BY <2>3, <2>4, <2>9
<1> QED BY <1>1, ModelInvariant, PTL

\* Erasure and confirmation reach every saved answer of the invocation and
\* none is saved afterwards.
THEOREM ErasureReachesAnswers == ModelSpec => []ErasedAnswersGone
<1>1. ASSUME ModelInv PROVE ErasedAnswersGone
  <2>1. SUFFICES ASSUME NEW i \in Store!Rows, PolicyOf(jobs, jobs[i].key).erased,
                        NEW n \in DOMAIN receipts, receipts[n].reservation.invocation = jobs[i].key
                 PROVE  receipts[n].recovery = NULL
    BY DEF ErasedAnswersGone
  <2>2. i \in Ids /\ jobs[i] # NULL /\ JobsOK(jobs, receipts)
    BY <1>1 DEF Store!Rows, ModelInv
  <2>3. ErasedJob(jobs[i])
    BY <2>1, <2>2, PolicyOfRow
  <2>4. Gone(receipts, jobs[i].key)
    BY <1>1, <2>2, <2>3, JobAt
  <2> QED BY <2>1, <2>4 DEF Gone, KeyOf
<1> QED BY <1>1, ModelInvariant, PTL

\* The job row and the receipt it names tell the same story.
THEOREM JobsAndLedgerAgree == ModelSpec => []TablesAgree
<1>1. ASSUME ModelInv PROVE TablesAgree
  <2>1. ASSUME NEW i \in Store!Rows PROVE Linked(receipts, jobs[i])
    BY <1>1, JobAt DEF Store!Rows
  <2> QED BY <2>1 DEF TablesAgree, ReceiptOf, Linked, Reference, Ref, KeyOf
<1> QED BY <1>1, ModelInvariant, PTL
============
