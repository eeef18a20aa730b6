---------------------------- MODULE SpendLedger ----------------------------
(***************************************************************************)
(* The spend ledger: receipts and account balances in the operational      *)
(* database, and the saved answers of explicit invocations.  Every call is *)
(* one IMMEDIATE transaction, hence one action; a refused call rolls back  *)
(* and an identical repetition changes nothing, so both stutter.           *)
(*                                                                         *)
(* Receipts are kept in acceptance order, which is the rowid order of the  *)
(* table: rows are never deleted.  A reservation is its fields, a usage    *)
(* report or an answer an opaque value, and the completion evidence a flag *)
(* because finish_in stores one constant for it.  Deadlines are stored as  *)
(* RFC 3339 text in UTC and compared as text, which orders them as times:  *)
(* a missing or shorter fraction sorts before a longer one.  The two clock *)
(* samples of one transaction are one.  `policy` is what the ledger reads  *)
(* from the row of the durable job that runs an invocation, if any.        *)
(***************************************************************************)
EXTENDS Naturals, Sequences, FiniteSets

CONSTANTS
    Reservations,   \* the reservations callers may make
    References, Accounts, Invocations, Bindings,
    Usages,         \* usage reports, and among them
    Measured,       \* those with a measured field
    Answers, Inputs, Owners,
    AttemptLimits,  \* the ceilings explicit callers may ask for
    JobDeadlines,   \* the recovery deadlines jobs may have
    NULL,
    MaxCount,       \* the largest account balance (i64::MAX)
    Retention,      \* lifetime of a saved answer
    ExpiryBatch,    \* rows cleared by one statement of expire_recovery
    MaxReceipts,    \* bound on accepted reservations
    MaxTime         \* bound on the model clock

VARIABLES
    receipts,       \* the spend_receipts table, in rowid order
    used,           \* the spend_accounts table
    policy,         \* per invocation, its job's erasure and deadline
    now

ledgerVars == <<receipts, used>>
spendVars == <<receipts, used, policy, now>>

Received == "received"      \* the content-free output {"output_received": true}
SpendState == {"Unknown", "Released", "Settled"}

Reservation ==
    [reference : References, account : Accounts, invocation : Invocations,
     binding : Bindings, request_limit : Nat \cup {NULL}]

Receipt ==
    [reservation : Reservation, state : SpendState, usage : Usages \cup {NULL},
     output : BOOLEAN, pre_dispatch_released : BOOLEAN,
     attempt_limit : Nat \cup {NULL}, attempts_used : Nat,
     recovery : Answers \cup {NULL}, expires : Nat \cup {NULL},
     handoff_input : Inputs \cup {NULL}, dispatch_owner : Owners \cup {NULL}]

Policy == [erased : BOOLEAN, deadline : Nat \cup {NULL}]
NoPolicy == [erased |-> FALSE, deadline |-> NULL]

ASSUME ReservationsAssumption == Reservations \subseteq Reservation
ASSUME LedgerConfigAssumption ==
    /\ MaxCount \in Nat /\ Retention \in Nat /\ ExpiryBatch \in Nat \ {0}
    /\ MaxReceipts \in Nat /\ MaxTime \in Nat
    /\ AttemptLimits \subseteq Nat /\ JobDeadlines \subseteq Nat /\ Measured \subseteq Usages
ASSUME LedgerNullAssumption ==
    /\ NULL \notin Nat /\ NULL \notin Usages /\ NULL \notin Answers
    /\ NULL \notin Inputs /\ NULL \notin Owners /\ Received \notin Answers
    /\ NULL # Received

----------------------------------------------------------------------------
(* Lookups.                                                                *)

Rows == DOMAIN receipts
Explicit(r) == r.attempt_limit # NULL
Charged(r) == r.state # "Released"

Chain(account, invocation) ==
    {n \in Rows : /\ receipts[n].reservation.account = account
                  /\ receipts[n].reservation.invocation = invocation}
\* The latest accepted receipt of an invocation, none or one.
Latest(account, invocation) ==
    {n \in Chain(account, invocation) : \A m \in Chain(account, invocation) : m <= n}

\* receipt_in shows a saved answer only until it expires.
Visible(r) == IF r.expires # NULL /\ r.expires > now THEN r.recovery ELSE NULL

Earlier(t, u) == IF t = NULL THEN u ELSE IF u = NULL THEN t
                 ELSE IF t <= u THEN t ELSE u

\* job_recovery_policy: a caller that names a job gets its policy, provided
\* the receipt is bound to that job's invocation.
PolicyFor(job, r) ==
    IF job # NULL /\ job = r.reservation.invocation /\ policy[job] # NULL
    THEN policy[job] ELSE NoPolicy

Cleared(r) == [r EXCEPT !.recovery = NULL, !.expires = NULL]

----------------------------------------------------------------------------
(* Reservation.                                                            *)

SpendInit ==
    /\ receipts = <<>> /\ used = [a \in Accounts |-> 0]
    /\ policy = [i \in Invocations |-> NULL] /\ now = 0

\* The ceiling an attempt runs under: the one frozen by its predecessor, or
\* else the caller's.
Frozen(previous, limit) ==
    IF \E p \in previous : Explicit(receipts[p])
    THEN receipts[CHOOSE p \in previous : TRUE].attempt_limit ELSE limit

AttemptsUsed(previous) ==
    IF previous = {} THEN 0 ELSE receipts[CHOOSE p \in previous : TRUE].attempts_used

\* May another attempt follow the latest one?
MayFollow(previous, explicit, handoff) ==
    explicit \/ handoff =>
        \A p \in previous : ~receipts[p].output /\ receipts[p].state # "Settled"

\* The active check: no attempt of the invocation is unresolved.
Idle(r) ==
    \A n \in Chain(r.account, r.invocation) : receipts[n].state # "Unknown"

NewReceipt(r, frozen, attempts, input) ==
    [reservation |-> r, state |-> "Unknown", usage |-> NULL, output |-> FALSE,
     pre_dispatch_released |-> FALSE, attempt_limit |-> frozen,
     attempts_used |-> IF frozen = NULL THEN 0 ELSE attempts + 1,
     recovery |-> NULL, expires |-> NULL, handoff_input |-> input,
     dispatch_owner |-> NULL]

\* reserve, reserve_explicit and reserve_handoff_in: `limit` is given by
\* explicit callers, `input` by handoffs.
Reserve(r, limit, input) ==
    LET previous == Latest(r.account, r.invocation)
        frozen == Frozen(previous, limit)
    IN  /\ \A p \in previous : receipts[p].reservation.binding = r.binding
        /\ \A n \in Rows : receipts[n].reservation.reference # r.reference
        /\ MayFollow(previous, frozen # NULL, input # NULL)
        /\ Idle(r)
        /\ frozen # NULL => AttemptsUsed(previous) < frozen
        /\ used[r.account] < MaxCount
        /\ r.request_limit # NULL => used[r.account] < r.request_limit
        /\ Len(receipts) < MaxReceipts
        /\ used' = [used EXCEPT ![r.account] = @ + 1]
        /\ receipts' = Append(receipts,
                              NewReceipt(r, frozen, AttemptsUsed(previous), input))

\* acquire_handoff: the dispatcher of an accepted handoff is named once.
AcquireHandoff(n, input, owner) ==
    /\ n \in Rows /\ receipts[n].state = "Unknown"
    /\ receipts[n].handoff_input = input /\ receipts[n].dispatch_owner = NULL
    /\ receipts' = [receipts EXCEPT ![n].dispatch_owner = owner] /\ UNCHANGED used

----------------------------------------------------------------------------
(* Evidence.                                                               *)

\* Mutant: implicit answers are saved.
SavedImplicit(r, output, deadline, job) ==
    IF output \in Answers /\ ~r.output /\ ~PolicyFor(job, r).erased
    THEN [r EXCEPT !.recovery = output, !.expires = now + Retention] ELSE r

\* save_recovery_in: the row after an answer has been offered for saving.
\* Only the first answer of an explicit attempt is saved, unless its job was
\* erased or its deadline has passed.
Saved(r, output, deadline, job) ==
    LET until == Earlier(deadline, PolicyFor(job, r).deadline)
    IN  IF /\ output \in Answers /\ Explicit(r) /\ ~r.output
           /\ ~PolicyFor(job, r).erased /\ ~(until # NULL /\ until <= now)
        THEN [r EXCEPT !.recovery = output, !.expires = Earlier(until, now + Retention)]
        ELSE r
\* A different answer for a completed explicit attempt is refused.
SaveAllowed(r, output) ==
    output \in Answers /\ Explicit(r) /\ r.output => Visible(r) = output

\* finish_in: what evidence may be recorded, and the row it makes.
FinishAllowed(r, state, usage, output) ==
    /\ state = "Settled" => usage \in Measured
    /\ state = "Released" => ~r.output /\ output = NULL
Finished(r, state, usage, output) ==
    [r EXCEPT !.state = state, !.usage = usage, !.output = @ \/ output # NULL]

\* Evidence about a resolved attempt is final: only Unknown rows change.
Resolvable(r) == r.state = "Unknown"

BalanceKept(r, state) == UNCHANGED used \* mutant: a release gives nothing back
Balance(r, state) ==
    used' = [used EXCEPT ![r.reservation.account] = IF state = "Released" THEN @ - 1 ELSE @]

\* finish: save the answer, then record the evidence, in one transaction.
Finish(n, state, usage, output, deadline, job) ==
    /\ n \in Rows /\ Resolvable(receipts[n])
    /\ SaveAllowed(receipts[n], output)
    /\ FinishAllowed(receipts[n], state, usage, output)
    /\ state = "Released" => used[receipts[n].reservation.account] > 0
    /\ receipts' = [receipts EXCEPT ![n] =
                      Finished(Saved(@, output, deadline, job), state, usage, output)]
    /\ Balance(receipts[n], state)

\* release_in: nothing was dispatched, so the attempt is given back.
Released(r) ==
    [Finished(r, "Released", NULL, NULL) EXCEPT
        !.pre_dispatch_released = TRUE,
        !.attempts_used = IF Explicit(r) /\ ~r.pre_dispatch_released THEN @ - 1 ELSE @]
Release(n) ==
    /\ n \in Rows /\ Resolvable(receipts[n])
    /\ FinishAllowed(receipts[n], "Released", NULL, NULL)
    /\ used[receipts[n].reservation.account] > 0
    /\ receipts' = [receipts EXCEPT ![n] = Released(@)]
    /\ Balance(receipts[n], "Released")

----------------------------------------------------------------------------
(* Saved answers.                                                          *)

\* constrain_job_recovery_in: a job's deadline narrows the saved answer's.
Constrained(r, job) ==
    LET until == IF r.expires = NULL THEN NULL
                 ELSE Earlier(r.expires, PolicyFor(job, r).deadline)
    IN  IF PolicyFor(job, r).erased \/ (until # NULL /\ until <= now) THEN Cleared(r)
        ELSE [r EXCEPT !.expires = until]
Constrain(n, job) ==
    /\ n \in Rows
    /\ receipts' = [receipts EXCEPT ![n] = Constrained(@, job)] /\ UNCHANGED used

\* discard_recovery addresses an answer by its invocation.
DiscardRecovery(account, invocation) ==
    /\ receipts' = [n \in Rows |-> IF n \in Latest(account, invocation)
                                   THEN Cleared(receipts[n]) ELSE receipts[n]]
    /\ UNCHANGED used

\* purge_recovery: every saved answer the caller's predicate matches.
PurgeRecovery(matching) ==
    /\ receipts' = [n \in Rows |-> IF receipts[n].recovery \in matching
                                   THEN Cleared(receipts[n]) ELSE receipts[n]]
    /\ UNCHANGED used

\* One statement of expire_recovery, the oldest deadlines first.  The loop
\* around it goes on until nothing is due.
DueSettled == \* mutant: answers of unresolved attempts are passed over
    {n \in Rows : /\ receipts[n].recovery # NULL /\ receipts[n].expires <= now
                  /\ receipts[n].state = "Settled"}
Due == {n \in Rows : receipts[n].recovery # NULL /\ receipts[n].expires <= now}
ExpireRecovery(batch) ==
    /\ batch \subseteq Due
    /\ \/ Cardinality(batch) = ExpiryBatch
       \/ batch = Due /\ Cardinality(Due) < ExpiryBatch
    /\ \A n \in batch, m \in Due \ batch : receipts[n].expires <= receipts[m].expires
    /\ receipts' = [n \in Rows |-> IF n \in batch THEN Cleared(receipts[n])
                                                  ELSE receipts[n]]
    /\ UNCHANGED used
----------------------------------------------------------------------------
(* Callers may send any evidence about any receipt, late and repeated.     *)

\* A job's row as the ledger sees it: erasure is for ever and its deadline,
\* once set, only comes nearer (JobStore).
JobChanges(i, p) ==
    /\ policy[i] # NULL =>
          /\ policy[i].erased => p.erased
          /\ policy[i].deadline # NULL /\ ~p.erased =>
                p.deadline # NULL /\ p.deadline <= policy[i].deadline
    /\ policy' = [policy EXCEPT ![i] = p] /\ UNCHANGED <<ledgerVars, now>>

ReserveStep ==
    \E r \in Reservations :
        \/ Reserve(r, NULL, NULL)
        \/ \E limit \in AttemptLimits : Reserve(r, limit, NULL)
        \/ \E input \in Inputs : Reserve(r, NULL, input)

ReceiptStep ==
    \E n \in Rows :
        \/ \E input \in Inputs, owner \in Owners : AcquireHandoff(n, input, owner)
        \/ Release(n)
        \/ \E job \in {NULL, receipts[n].reservation.invocation} :
              \/ Constrain(n, job)
              \/ \E state \in SpendState, usage \in Usages \cup {NULL},
                    output \in Answers \cup {Received, NULL}, deadline \in {NULL, now + 1} :
                    Finish(n, state, usage, output, deadline, job)

Sweep == Due # {} /\ \E batch \in SUBSET Due : ExpireRecovery(batch)

AnswerStep ==
    \/ \E a \in Accounts, i \in Invocations : DiscardRecovery(a, i)
    \/ \E matching \in SUBSET Answers : PurgeRecovery(matching)
    \/ Sweep

SpendTick == now < MaxTime /\ now' = now + 1 /\ UNCHANGED <<ledgerVars, policy>>

SpendNext ==
    \/ (ReserveStep \/ ReceiptStep \/ AnswerStep) /\ UNCHANGED <<policy, now>>
    \/ \E i \in Invocations, erased \in BOOLEAN, deadline \in JobDeadlines \cup {NULL} :
          JobChanges(i, [erased |-> erased, deadline |-> deadline])
    \/ SpendTick

SpendSpec == SpendInit /\ [][SpendNext]_spendVars

\* The maintenance timer keeps sweeping.
FairSpendSpec ==
    SpendSpec /\ WF_spendVars(Sweep /\ UNCHANGED <<policy, now>>)

----------------------------------------------------------------------------
(* Properties.                                                             *)

\* The types of the ledger's tables.
SpendTypeOK ==
    /\ receipts \in Seq(Receipt) /\ used \in [Accounts -> Nat]
    /\ policy \in [Invocations -> Policy \cup {NULL}] /\ now \in Nat

\* The books balance: an account's balance is exactly the number of its
\* receipts that are, or may have been, charged, through every order of
\* reservations, releases, settlements and repetitions.
Balanced ==
    \A a \in Accounts :
        used[a] = Cardinality({n \in Rows : /\ receipts[n].reservation.account = a
                                            /\ Charged(receipts[n])})

SameChain(n, m) ==
    /\ receipts[n].reservation.account = receipts[m].reservation.account
    /\ receipts[n].reservation.invocation = receipts[m].reservation.invocation

\* An attempt whose charge is unknown blocks its invocation: it is the latest
\* attempt and the only unknown one, so evidence about it can still decide
\* what may follow (the partial unique index and the active check).
UnknownBlocks ==
    \A n, m \in Rows : SameChain(n, m) /\ receipts[n].state = "Unknown" => m <= n

\* An explicit invocation is paid for at most once and has one binding and
\* one frozen ceiling, whatever ceilings later callers ask for.
ChargedOnce ==
    \A n, m \in Rows : SameChain(n, m) =>
        /\ receipts[n].reservation.binding = receipts[m].reservation.binding
        /\ Explicit(receipts[n]) /\ Explicit(receipts[m]) =>
              /\ receipts[n].attempt_limit = receipts[m].attempt_limit
              /\ Charged(receipts[n]) /\ Charged(receipts[m]) => n = m

\* The attempts of the invocation of n, up to n, that reached a provider.
SentUpTo(n) ==
    {m \in 1..n : /\ SameChain(n, m) /\ Explicit(receipts[m])
                  /\ ~receipts[m].pre_dispatch_released}

\* The carried counter of an explicit invocation counts exactly the attempts
\* that were not given back, and they stay within the frozen ceiling.
AttemptsCounted ==
    \A n \in Rows : Explicit(receipts[n]) =>
        /\ receipts[n].attempts_used = Cardinality(SentUpTo(n))
        /\ receipts[n].attempts_used <= receipts[n].attempt_limit

\* Every saved answer can be found and expires: it lies on the latest receipt
\* of its invocation, where discard_recovery looks, beside its completion
\* evidence, with a deadline no further away than the retention.
AnswersFindable ==
    \A n \in Rows : LET r == receipts[n] IN
        /\ r.recovery # NULL =>
              /\ Explicit(r) /\ r.output /\ r.state # "Released"
              /\ \A m \in Rows : SameChain(n, m) => m <= n
        /\ r.recovery = NULL <=> r.expires = NULL
        /\ r.expires # NULL => r.expires <= now + Retention

\* Evidence never changes: a settled or released receipt keeps its state,
\* usage, completion evidence and attempt count, a dispatch owner is never
\* replaced, and completion evidence is never withdrawn.
EvidenceFinal ==
    [][\A n \in Rows : LET a == receipts[n] b == receipts'[n] IN
          /\ a.state # "Unknown" =>
                /\ b.state = a.state /\ b.usage = a.usage /\ b.output = a.output
                /\ b.attempts_used = a.attempts_used
          /\ a.dispatch_owner # NULL => b.dispatch_owner = a.dispatch_owner
          /\ a.output => b.output /\ b.state # "Released"]_spendVars

\* A completed attempt's answer is never replaced or revived, and its
\* lifetime is never extended, by repeated completions or by jobs.
AnswerOnlyShrinks ==
    [][\A n \in Rows : LET a == receipts[n] b == receipts'[n] IN
          a.output => \/ b.recovery = NULL
                      \/ b.recovery = a.recovery /\ b.expires <= a.expires]_spendVars

\* An answer past its deadline is deleted, however many are due at once.
ExpiredAnswersGo ==
    \A n \in 1..MaxReceipts :
        (n \in Rows /\ receipts[n].recovery # NULL /\ receipts[n].expires <= now)
          ~> (n \in Rows /\ receipts[n].recovery = NULL)
=============================================================================
