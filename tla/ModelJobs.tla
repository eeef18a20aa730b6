----------------------------- MODULE ModelJobs -----------------------------
(***************************************************************************)
(* Durable model jobs: paid jobs of the job store whose attempts are       *)
(* charged in the spend ledger.  Both tables live in one database, and a   *)
(* claim owner changes the job row and the receipt in one IMMEDIATE        *)
(* transaction; everything between two transactions may be interrupted by  *)
(* a crash, by another worker, or by a direct call under the same          *)
(* invocation.  The composition uses the row functions of JobStore and     *)
(* SpendLedger; the invocation of a job is its key.                        *)
(*                                                                         *)
(* The provider is part of the environment: it decides when it is called   *)
(* what it charges, and the caller learns no more than its answer says.    *)
(* An operator reconciles an unknown charge truthfully, and not while the  *)
(* attempt may still be sent.                                              *)
(***************************************************************************)
EXTENDS Naturals, Sequences, FiniteSets

CONSTANTS
    Ids, Specs, Keys, Payloads, Groups, Owners, Kinds, Admissions, Outputs, NULL,
    MaxBatch, MaxPage, MaxPageBytes, MaxResultBytes, MaxLiveJobs, MaxPendingBytes,
    ClaimLease, DeliveryLease, Retention, MaintenanceBatch, MaintenanceBytes,
    MetaBytes, InputSize(_), RawSize(_), EncodedSize(_), OrdinalBytes(_), LeaseBytes(_),
    WidestOrdinal, WidestLease, MaxOrdinal, MaxToken, MaxTime,
    References,         \* receipt references, fresh for every claim
    Account, Binding,   \* the account and binding of the jobs' kind
    Usage,              \* a measured usage report
    Answers, Oversized, \* answers, and those above the result limit
    RequestLimit,       \* provider_request_limit, or NULL
    RetryLimit,         \* the binding's logical attempt ceiling
    RetainAnswers,      \* FALSE for AnswerRecovery::Off
    AnswerRetention, ExpiryBatch, MaxReceipts,
    Workers, Callers,   \* worker tasks, and direct callers of the invocation
    MaxCrashes

VARIABLES
    jobs, receipts, used, now,
    task,               \* what each worker or caller is doing
    billed,             \* the references the provider has charged
    crashes

tables == <<jobs, receipts, used>>
jobVars == <<jobs, receipts, used, now, task, billed, crashes>>

\* What the ledger reads of the job that runs an invocation.
PolicyOf(rows, k) ==
    LET of == {i \in Ids : rows[i] # NULL /\ rows[i].key = k /\ rows[i].kind # NULL}
        r == rows[CHOOSE i \in of : TRUE]
    IN  IF of = {} THEN NULL
        ELSE [erased |-> r.purged \/ r.final_state = "Purged"
                         \/ r.state \in {"Accepted", "Discarded"},
              deadline |-> r.recovery_until]

Store == INSTANCE JobStore WITH Receipts <- References
Ledger == INSTANCE SpendLedger WITH
    Reservations <- {}, Accounts <- {Account}, Invocations <- Keys,
    Bindings <- {Binding}, Usages <- {Usage}, Measured <- {Usage}, Inputs <- {},
    Owners <- {}, AttemptLimits <- {RetryLimit}, JobDeadlines <- {}, MaxCount <- MaxReceipts,
    Retention <- AnswerRetention, policy <- [k \in Keys |-> PolicyOf(jobs, k)]

\* Jobs of a model kind are paid jobs; a process is a worker or a caller.
ASSUME ModelAssumption ==
    /\ Specs \subseteq Store!JobSpec /\ \A s \in Specs : s.execution = "Model"
    /\ {ClaimLease, DeliveryLease, Retention, AnswerRetention, RetryLimit} \subseteq Nat
    /\ Workers \cap Callers = {}
ASSUME ModelNullAssumption ==
    /\ NULL \notin Nat /\ NULL \notin Keys /\ NULL \notin Kinds /\ NULL \notin References
    /\ NULL \notin Answers /\ NULL \notin Store!JobState /\ NULL # Ledger!Received
    /\ NULL \notin Store!JobRecord /\ NULL \notin Ledger!Policy

Processes == Workers \cup Callers
Idle == [pos |-> "idle", job |-> NULL, generation |-> 0, receipt |-> 0, outcome |-> NULL]

ModelInit ==
    /\ Store!Init /\ receipts = <<>> /\ used = [a \in {Account} |-> 0]
    /\ task = [p \in Processes |-> Idle] /\ billed = {} /\ crashes = 0

LatestOf(k) == Ledger!Latest(Account, k)
Signed(r) == r.admission # NULL
Reservation(ref, k) ==
    [reference |-> ref, account |-> Account, invocation |-> k, binding |-> Binding,
     request_limit |-> RequestLimit]
Reference(n) == receipts[n].reservation.reference
Clear(S) == [n \in DOMAIN receipts |-> IF n \in S THEN Ledger!Cleared(receipts[n]) ELSE receipts[n]]
Goes(p, pos) == task' = [task EXCEPT ![p].pos = pos]
Rests(p) == task' = [task EXCEPT ![p] = Idle]

----------------------------------------------------------------------------
(* Evidence about a receipt, applied to the job row.                       *)

\* constrain_job_recovery_in: the receipt under the job's policy `q`.
Narrowed(r, q) ==
    LET until == IF r.expires = NULL \/ q = NULL THEN r.expires
                 ELSE Ledger!Earlier(r.expires, q.deadline)
    IN  IF (q # NULL /\ q.erased) \/ (until # NULL /\ until <= now)
        THEN Ledger!Cleared(r) ELSE [r EXCEPT !.expires = until]

\* paid_resolution: row `r` and receipt `m` once an answer is known.  An
\* erased job, or an answer too large, fails and keeps no answer.
Adopted(r, m) ==
    LET q == PolicyOf(jobs, r.key)
        c == Narrowed(m, q)
        until == IF m.expires = NULL THEN now ELSE Ledger!Earlier(m.expires, q.deadline)
        ref == m.reservation.reference
    IN  IF q.erased \/ m.recovery \in Oversized
        THEN [row |-> Store!FailedRow(r, ref), receipt |-> Ledger!Cleared(m)]
        ELSE [row |-> Store!PaidRow(r, ref, until), receipt |-> c]

\* Mutants: a settled charge stands for a result, or settles nothing.
ResolvedAsPaid(r, m) ==
    LET ref == m.reservation.reference
    IN  IF m.output \/ m.state = "Settled" THEN Adopted(r, m)
        ELSE [receipt |-> m, row |-> IF m.state = "Released" THEN Store!ZeroChargeRow(r, ref)
                                     ELSE Store!UncertainRow(r, ref)]
ResolvedLate(r, m) ==
    LET ref == m.reservation.reference
    IN  IF m.output THEN Adopted(r, m)
        ELSE [receipt |-> m, row |-> IF m.state = "Released" THEN Store!ZeroChargeRow(r, ref)
                                     ELSE Store!UncertainRow(r, ref)]

\* receipt_resolution: what a receipt says about an unowned row.
Resolved(r, m) ==
    LET ref == m.reservation.reference
    IN  IF m.output THEN Adopted(r, m)
        ELSE [receipt |-> m,
              row |-> CASE m.state = "Released" -> Store!ZeroChargeRow(r, ref)
                        [] m.state = "Settled" -> Store!FailedRow(r, ref)
                        [] OTHER -> Store!UncertainRow(r, ref)]

\* An expired row keeps no answer either.
Expired(r, m) == IF Store!Past(r.recovery_until) THEN Ledger!Cleared(m) ELSE m

----------------------------------------------------------------------------
(* A worker: recover, pick a candidate, claim, prepare, send, finish.      *)

Of(i) == CHOOSE n \in DOMAIN receipts : Reference(n) = jobs[i].receipt

\* ModelJobs::recover, one transaction for a page of abandoned claims.
\* Cursor and byte limits decide the page.
RecoverPage(w) ==
    \E page \in SUBSET Store!RecoveryRows(Kinds) \ {{}} :
        LET about == [i \in page |-> Resolved(jobs[i], receipts[Of(i)])]
        IN  /\ task[w].pos = "idle"
            /\ jobs' = [i \in Ids |-> IF i \in page THEN about[i].row ELSE jobs[i]]
            /\ receipts' = [n \in DOMAIN receipts |->
                  IF \E i \in page : Of(i) = n
                  THEN LET i == CHOOSE i \in page : Of(i) = n
                       IN  IF receipts[n].output THEN Expired(jobs[i], about[i].receipt)
                                                 ELSE receipts[n]
                  ELSE receipts[n]]
            /\ UNCHANGED <<used, task>>

PickCandidate(w) ==
    /\ task[w].pos = "idle"
    /\ \E i \in Store!FirstBy(Store!CreatedAt, 1, Store!PendingRows(Kinds)) :
          task' = [task EXCEPT ![w] = [Idle EXCEPT !.pos = "picked", !.job = i]]
    /\ UNCHANGED tables

\* The request of the candidate is refused before any claim, or its claim
\* was refused by the ledger.  Another worker may have claimed it meanwhile.
Refuse(w) ==
    /\ task[w].pos \in {"picked", "refused"}
    /\ \/ Store!RefusePending(task[w].job)
       \/ jobs[task[w].job].state # "Pending" /\ UNCHANGED jobs
    /\ UNCHANGED <<receipts, used>> /\ Rests(w)

Answered(k) == {n \in LatestOf(k) : receipts[n].output \/ receipts[n].state = "Settled"}

\* previous_in: the candidate is no longer pending, or its invocation has
\* already ended, in which case the row adopts that outcome.
Previous(w) ==
    LET i == task[w].job
    IN  \/ jobs[i].state # "Pending" /\ UNCHANGED tables
        \/ /\ jobs[i].state = "Pending"
           /\ \E n \in Answered(jobs[i].key) :
                LET about == Resolved(jobs[i], receipts[n])
                IN  /\ jobs' = [jobs EXCEPT ![i] = about.row]
                    /\ receipts' = [receipts EXCEPT ![n] = Expired(jobs[i], about.receipt)]
           /\ UNCHANGED used
Fresh(w) == jobs[task[w].job].state = "Pending" /\ Answered(jobs[task[w].job].key) = {}

\* ClaimOwner::recover, before the account slot and the rate wait.
CheckPrevious(w) ==
    /\ task[w].pos = "picked"
    /\ \/ Previous(w) /\ Rests(w)
       \/ Fresh(w) /\ Goes(w, "slot") /\ UNCHANGED tables

\* While waiting for its slot a worker gives up a candidate that is gone.
Eligible(r) == r.state = "Pending" /\ ~r.cancel_requested /\ ~r.purged
Ineligible(w) ==
    /\ task[w].pos = "slot" /\ ~Eligible(jobs[task[w].job])
    /\ Rests(w) /\ UNCHANGED tables

CeilingFor(r) ==
    IF Signed(r) \/ r.max_attempts <= RetryLimit THEN r.max_attempts ELSE RetryLimit

\* The ledger refuses for good: budget or attempts are used up.
Exhausted(k, limit) ==
    LET frozen == Ledger!Frozen(LatestOf(k), limit)
    IN  \/ Ledger!AttemptsUsed(LatestOf(k)) >= frozen
        \/ RequestLimit # NULL /\ used[Account] >= RequestLimit

\* ClaimOwner::claim.  The row, the reservation and the lease change
\* together, or the row joins an unknown charge, or waits for authority.
ClaimGranted(w, ref) ==
    LET i == task[w].job
        r == jobs[i]
    IN  /\ \A n \in LatestOf(r.key) : receipts[n].state # "Unknown"
        /\ Store!Grantable(r)
        /\ Ledger!Reserve(Reservation(ref, r.key), CeilingFor(r), NULL)
        /\ jobs' = [jobs EXCEPT ![i] = [Store!Lease(r) EXCEPT !.receipt = ref]]
        /\ task' = [task EXCEPT ![w] = [@ EXCEPT !.pos = "claimed",
                       !.generation = r.generation + 1, !.receipt = Len(receipts) + 1]]

ClaimRefused(w) ==
    LET r == jobs[task[w].job]
    IN  /\ \A n \in LatestOf(r.key) : receipts[n].state # "Unknown"
        /\ Store!Grantable(r) /\ Exhausted(r.key, CeilingFor(r))
        /\ Goes(w, "refused") /\ UNCHANGED tables

ClaimNothing(w) ==
    LET i == task[w].job
        r == jobs[i]
        open == {n \in LatestOf(r.key) : receipts[n].state = "Unknown"}
    IN  /\ \/ /\ open # {} \/ ~Store!Grantable(r)
              /\ jobs' = [jobs EXCEPT ![i] =
                    IF Store!Grantable(r)
                    THEN Store!UncertainRow(Store!Lease(r), Reference(CHOOSE n \in open : TRUE))
                    ELSE Store!EndUnclaimed(r)]
           \/ Signed(r) /\ open = {} /\ Store!AwaitAdmission(i)
        /\ Rests(w) /\ UNCHANGED <<receipts, used>>

Claim(w) ==
    /\ task[w].pos = "slot"
    /\ \/ Previous(w) /\ Rests(w)
       \/ /\ Fresh(w)
          /\ \/ \E ref \in References : ClaimGranted(w, ref)
             \/ ClaimRefused(w)
             \/ ClaimNothing(w)

\* The last renewal before the transport starts (heartbeat, admit_request).
Holds(w) == LET r == jobs[task[w].job] IN Store!LiveClaim(r, task[w].generation)
Prepare(w) ==
    /\ task[w].pos = "claimed" /\ Holds(w) /\ ~jobs[task[w].job].cancel_requested
    /\ Store!Heartbeat(task[w].job, task[w].generation)
    /\ Goes(w, "ready") /\ UNCHANGED <<receipts, used>>

\* While an attempt is prepared or under way its lease is renewed.
Renew(w) ==
    /\ task[w].pos \in {"claimed", "sent"} /\ w \in Workers
    /\ Store!Heartbeat(task[w].job, task[w].generation)
    /\ UNCHANGED <<receipts, used, task>>

\* A write that fails rolls back and ends the worker task with an error.
Fails(w) == Goes(w, "ended") /\ UNCHANGED tables

\* ClaimOwner::release, when nothing was sent.
ReleaseJob(w) ==
    LET i == task[w].job
        n == task[w].receipt
    IN  /\ task[w].pos = "claimed" /\ w \in Workers
        /\ IF Ledger!Resolvable(receipts[n]) /\ Store!Resolvable(i, task[w].generation)
           THEN /\ Ledger!Release(n) /\ Rests(w)
                /\ jobs' = [jobs EXCEPT ![i] = Store!ZeroChargeRow(@, Reference(n))]
           ELSE Fails(w)

\* The provider is called.  It charges for an answer, never for a failure
\* it declares free of charge, and nobody knows when the answer is lost.
Outcomes == {"answer", "unmeasured", "zero", "lost"}
Send(p) ==
    /\ task[p].pos = "ready"
    /\ \E outcome \in Outcomes, charged \in BOOLEAN :
          /\ outcome \in {"answer", "unmeasured"} => charged
          /\ outcome = "zero" => ~charged
          /\ task' = [task EXCEPT ![p].pos = "sent", ![p].outcome = outcome]
          /\ billed' = IF charged THEN billed \cup {Reference(task[p].receipt)} ELSE billed
    /\ UNCHANGED tables

\* What the outcome of a call lets its caller record: the mutant takes a
\* call without an answer for one that was not charged.
EvidenceOptimistic(outcome) ==
    CASE outcome = "answer" -> "Settled" [] outcome = "unmeasured" -> "Unknown"
      [] OTHER -> "Released"
Evidence(outcome) ==
    CASE outcome = "answer" -> "Settled" [] outcome = "zero" -> "Released"
      [] OTHER -> "Unknown"
UsageOf(outcome) == IF outcome = "answer" THEN Usage ELSE NULL
Received(outcome) == outcome \in {"answer", "unmeasured"}

\* finish_in, once save_recovery_in has offered the answer.  Recording the
\* same evidence again changes nothing.
Repeats(m, outcome) ==
    /\ m.state # "Unknown" /\ m.state = Evidence(outcome)
    /\ m.usage = UsageOf(outcome) /\ (Received(outcome) => m.output)
Recorded(m, outcome, answer, deadline, k) ==
    IF Repeats(m, outcome) THEN m
    ELSE Ledger!Finished(Ledger!Saved(m, answer, deadline, k), Evidence(outcome),
                         UsageOf(outcome), IF Received(outcome) THEN Ledger!Received ELSE NULL)
Recordable(m, outcome) ==
    /\ Evidence(outcome) = "Released" => ~m.output
    /\ Ledger!Resolvable(m) \/ Repeats(m, outcome)
Charges(m, outcome) ==
    IF m.state = "Unknown" THEN Ledger!Balance(m, Evidence(outcome)) ELSE UNCHANGED used

\* ClaimOwner::finish: the row that goes with the recorded receipt `m`.
\* `retry` holds only for a failure that was free of charge.
FinishedJob(r, m, outcome, answer, retry) ==
    LET ref == m.reservation.reference
        plain(row) == [row |-> row, receipt |-> m]
    IN  IF answer = NULL /\ r.cancel_requested /\ ~r.purged
        THEN plain(Store!CompleteRow(r, "Cancelled", NULL, ref))
        ELSE IF Received(outcome) /\ ~RetainAnswers THEN plain(Store!PaidRow(r, ref, now))
        ELSE IF answer # NULL THEN Adopted(r, m)
        ELSE IF Evidence(outcome) = "Released" /\ retry THEN plain(Store!ZeroChargeRow(r, ref))
        ELSE IF Evidence(outcome) = "Unknown" /\ ~Received(outcome)
             THEN plain(Store!UncertainRow(r, ref))
        ELSE plain(Store!FailedRow(r, ref))

\* Complete, unlike Resolve, insists on a live lease.
FinishWritable(r, w, answer) ==
    /\ Store!Resolvable(task[w].job, task[w].generation)
    /\ answer = NULL /\ r.cancel_requested /\ ~r.purged => Holds(w)

\* The answer kept for recovery: none when answers are not retained or the
\* answer is too large for a result.
KeptAnswer(outcome, a) ==
    IF Received(outcome) /\ RetainAnswers /\ a \notin Oversized THEN a ELSE NULL

\* can_retry: an unsigned job with attempts left, its claim still held.
CanRetry(w) ==
    LET r == jobs[task[w].job]
        m == receipts[task[w].receipt]
    IN  /\ ~Signed(r) /\ task[w].generation < CeilingFor(r)
        /\ Holds(w) /\ ~r.cancel_requested
        /\ m.attempts_used < m.attempt_limit

FinishJob(w) ==
    /\ task[w].pos = "sent" /\ w \in Workers
    /\ \E a \in Answers, retry \in {FALSE, CanRetry(w)} :
          LET i == task[w].job
              r == jobs[i]
              n == task[w].receipt
              outcome == task[w].outcome
              answer == KeptAnswer(outcome, a)
              m == Recorded(receipts[n], outcome, answer, r.recovery_until, r.key)
              about == FinishedJob(r, m, outcome, answer, retry)
          IN  IF Recordable(receipts[n], outcome) /\ FinishWritable(r, w, answer)
              THEN /\ jobs' = [jobs EXCEPT ![i] = about.row] /\ Rests(w)
                   /\ receipts' = [receipts EXCEPT ![n] = about.receipt]
                   /\ Charges(receipts[n], outcome)
              ELSE Fails(w)

\* A failure before the transport that is known to be free (admission or
\* configuration): recorded as released, without a retry.
FinishUnsent(w) ==
    LET i == task[w].job
        n == task[w].receipt
        m == Recorded(receipts[n], "zero", NULL, NULL, jobs[i].key)
        about == FinishedJob(jobs[i], m, "zero", NULL, FALSE)
    IN  /\ task[w].pos = "claimed" /\ w \in Workers
        /\ IF Recordable(receipts[n], "zero") /\ FinishWritable(jobs[i], w, NULL)
           THEN /\ jobs' = [jobs EXCEPT ![i] = about.row] /\ Rests(w)
                /\ receipts' = [receipts EXCEPT ![n] = about.receipt]
                /\ Charges(receipts[n], "zero")
           ELSE Fails(w)

----------------------------------------------------------------------------
(* A direct call under a job's invocation key (Runtime::execute).          *)

DirectReserve(c, k, ref) ==
    /\ task[c].pos = "idle" /\ Answered(k) = {}
    /\ Ledger!Reserve(Reservation(ref, k), RetryLimit, NULL)
    /\ task' = [task EXCEPT ![c] = [Idle EXCEPT !.pos = "ready", !.receipt = Len(receipts) + 1]]
    /\ UNCHANGED jobs

DirectFinish(c) ==
    /\ task[c].pos = "sent" /\ c \in Callers
    /\ \E a \in Answers :
          LET n == task[c].receipt
              k == receipts[n].reservation.invocation
              outcome == task[c].outcome
              answer == IF Received(outcome) /\ RetainAnswers THEN a ELSE NULL
          IN  IF Recordable(receipts[n], outcome)
              THEN /\ receipts' = [receipts EXCEPT ![n] = Recorded(@, outcome, answer, NULL, k)]
                   /\ Charges(receipts[n], outcome)
              ELSE UNCHANGED <<receipts, used>>
    /\ Rests(c) /\ UNCHANGED jobs

\* The operator resolves an unknown charge from the provider's records.
Reconcile(n) ==
    /\ n \in DOMAIN receipts /\ receipts[n].state = "Unknown"
    /\ ~\E p \in Processes : task[p].receipt = n /\ task[p].pos \in {"claimed", "ready"}
    /\ LET state == IF Reference(n) \in billed THEN "Settled" ELSE "Released"
       IN  /\ state = "Released" => ~receipts[n].output
           /\ receipts' = [receipts EXCEPT ![n] = Ledger!Finished(@, state,
                             IF state = "Settled" THEN Usage ELSE NULL, NULL)]
           /\ Ledger!Balance(receipts[n], state)
    /\ UNCHANGED <<jobs, task>>

----------------------------------------------------------------------------
(* Requests of the owner: each also settles what the ledger keeps.         *)

\* Enqueue binds the kind and narrows an answer the invocation already has.
EnqueueJobs(batch) ==
    /\ Store!Enqueue(batch)
    /\ receipts' = [n \in DOMAIN receipts |->
          LET k == receipts[n].reservation.invocation
          IN  IF n \in LatestOf(k) /\ \E s \in batch : s.key = k
              THEN Narrowed(receipts[n], PolicyOf(jobs', k)) ELSE receipts[n]]
    /\ UNCHANGED used

\* Mutant: the receipt in the row is taken for the invocation's latest.
AffectedOwn(i) == {n \in DOMAIN receipts : Reference(n) = jobs[i].receipt}
\* The receipt whose answer goes with an erased or confirmed row.
Affected(i) ==
    IF LatestOf(jobs[i].key) # {} THEN LatestOf(jobs[i].key)
    ELSE {n \in DOMAIN receipts : Reference(n) = jobs[i].receipt}

ConfirmJobs(token, disposition) ==
    /\ Store!Ack(token, disposition)
    /\ receipts' = Clear(UNION {Affected(i) : i \in DOMAIN token}) /\ UNCHANGED used

\* Erasure also records the receipt it found on unfinished work.
PurgeJobs(owner) ==
    LET erased == Store!OwnedBy(owner)
        found(i) == {Reference(n) : n \in Affected(i)}
    IN  /\ jobs' = [i \in Ids |->
              IF i \notin erased THEN jobs[i]
              ELSE IF Store!Unfinished(jobs[i]) /\ found(i) # {}
              THEN [Store!PurgeRow(jobs[i]) EXCEPT !.receipt = CHOOSE x \in found(i) : TRUE]
              ELSE Store!PurgeRow(jobs[i])]
        /\ receipts' = Clear(UNION {Affected(i) : i \in erased}) /\ UNCHANGED <<used, now>>

ExpireJobs ==
    /\ Store!Maintain
    /\ receipts' = Clear({n \in DOMAIN receipts :
                            \E i \in Store!MaintenancePass : jobs[i].receipt = Reference(n)})
    /\ UNCHANGED used

\* completions: the answer is read from the ledger while it lasts, and an
\* expired delivery deletes it.
AnswerOf(i) ==
    {receipts[n].recovery : n \in {n \in DOMAIN receipts :
        /\ Reference(n) = jobs[i].receipt /\ receipts[n].expires # NULL
        /\ receipts[n].expires > now /\ ~jobs[i].result_expired /\ ~jobs[i].purged}}
NoAnswer(i) ==
    \/ jobs[i].result_expired \/ Store!Past(jobs[i].recovery_until)
    \/ AnswerOf(i) \ {NULL} = {} /\ jobs[i].state \in {"Succeeded", "Cancelled"}
DeliverJobs(limit) ==
    LET page == Store!DeliveryCandidates(limit)
    IN  /\ page # {}
        /\ jobs' = [i \in Ids |-> IF i \in page THEN Store!DeliveredRow(jobs[i]) ELSE jobs[i]]
        /\ receipts' = Clear({n \in DOMAIN receipts :
                \E i \in page : NoAnswer(i) /\ jobs[i].receipt = Reference(n)})
        /\ UNCHANGED <<used, now>>

OwnerStep ==
    \/ \E batch \in SUBSET Specs : EnqueueJobs(batch)
    \/ \E i \in Ids : \E t \in 1..MaxToken, d \in {"Accepted", "Discarded"} :
          ConfirmJobs([j \in {i} |-> t], [j \in {i} |-> d])
    \/ \E owner \in Owners : PurgeJobs(owner)
    \/ \E limit \in 1..MaxPage : DeliverJobs(limit)
    \/ ExpireJobs
    \/ \E i \in Store!Rows : Store!CancelIds({i}) /\ UNCHANGED <<receipts, used>>
    \/ \E i \in Ids, a \in Admissions : Store!Admit(i, a) /\ UNCHANGED <<receipts, used>>

ExpireAnswers == Ledger!Sweep /\ UNCHANGED jobs

ModelTick == Store!Tick /\ UNCHANGED <<receipts, used, task, billed, crashes>>

\* A crash ends every task of the process; a worker whose task ended with an
\* error takes the runner down, which is restarted the same way.
Crash ==
    /\ crashes < MaxCrashes \/ \E w \in Workers : task[w].pos = "ended"
    /\ task' = [p \in Processes |-> Idle]
    /\ crashes' = IF crashes < MaxCrashes THEN crashes + 1 ELSE crashes
    /\ UNCHANGED <<tables, now, billed>>

WorkerStep(w) ==
    \/ RecoverPage(w) \/ PickCandidate(w) \/ CheckPrevious(w) \/ Refuse(w) \/ Ineligible(w)
    \/ Claim(w) \/ Prepare(w) \/ Renew(w) \/ ReleaseJob(w) \/ FinishUnsent(w) \/ FinishJob(w)
CallerStep(c) ==
    \/ \E k \in Keys, ref \in References : DirectReserve(c, k, ref)
    \/ DirectFinish(c)

ModelNext ==
    \/ /\ \/ \E w \in Workers : WorkerStep(w)
          \/ \E c \in Callers : CallerStep(c)
          \/ \E n \in 1..MaxReceipts : Reconcile(n)
          \/ (OwnerStep \/ ExpireAnswers) /\ UNCHANGED task
       /\ UNCHANGED <<now, billed, crashes>>
    \/ \E p \in Processes : Send(p) /\ UNCHANGED <<now, crashes>>
    \/ Crash
    \/ ModelTick

ModelSpec == ModelInit /\ [][ModelNext]_jobVars

\* Workers poll for abandoned claims for ever, and the host opens a process
\* again whose runner stopped with an error.  Nothing forces a crash.
FairModelSpec ==
    /\ ModelSpec /\ WF_jobVars(Crash /\ \E w \in Workers : task[w].pos = "ended")
    /\ \A w \in Workers : /\ WF_jobVars(WorkerStep(w) /\ UNCHANGED <<now, billed, crashes>>)
                          /\ SF_jobVars(RecoverPage(w) /\ UNCHANGED <<now, billed, crashes>>)
                          /\ WF_jobVars(Send(w) /\ UNCHANGED <<now, crashes>>)

----------------------------------------------------------------------------
(* Properties.                                                             *)

InvocationOf(ref) ==
    {receipts[n].reservation.invocation :
        n \in {n \in DOMAIN receipts : Reference(n) = ref}}
\* The provider charges an invocation at most once, whoever runs it: workers
\* that lost their lease, a crash and restart, direct calls under the same
\* key, retries and reconciliation included (claim, finish, release, recover).
PaidOnce ==
    \A a, b \in billed : InvocationOf(a) = InvocationOf(b) => a = b

\* Erasure and confirmation reach the ledger: once a job was erased or its
\* delivery confirmed no answer of its invocation is saved, also when the
\* answer arrives later or came from a direct call (request_sync, finish).
ErasedAnswersGone ==
    \A i \in Store!Rows : LET q == PolicyOf(jobs, jobs[i].key) IN
        q # NULL /\ q.erased =>
            \A n \in DOMAIN receipts :
                receipts[n].reservation.invocation = jobs[i].key => receipts[n].recovery = NULL

ReceiptOf(r) == {n \in DOMAIN receipts : Reference(n) = r.receipt}
\* The two tables agree: an owned or uncertain job names an accepted receipt
\* of its own invocation, a waiting job has no open charge of its own, and a
\* job succeeds only on an answer the ledger has evidence of.
TablesAgree ==
    \A i \in Store!Rows : LET r == jobs[i] IN
        /\ r.receipt # NULL => \E n \in ReceiptOf(r) : receipts[n].reservation.invocation = r.key
        /\ r.state \in {"Running", "Uncertain"} => r.receipt # NULL
        /\ r.state \in {"Pending", "AwaitingAdmission"} =>
              \A n \in ReceiptOf(r) : receipts[n].state = "Released"
        /\ r.state = "Succeeded" => \E n \in ReceiptOf(r) : receipts[n].output

Decided(i) ==
    /\ jobs[i] # NULL /\ jobs[i].state = "Uncertain"
    /\ \E n \in ReceiptOf(jobs[i]) : receipts[n].state # "Unknown" \/ receipts[n].output
\* An uncertain job does not stay uncertain once evidence about its receipt
\* is recorded, whoever recorded it (recover).
EvidenceReachesJob == \A i \in Ids : Decided(i) ~> ~Decided(i)
=============================================================================
