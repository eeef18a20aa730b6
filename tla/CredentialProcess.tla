------------------------- MODULE CredentialProcess -------------------------
(***************************************************************************)
(* The credential process: permits for signed attempts, their consumption  *)
(* together with the spend reservation, the guard against sending a        *)
(* request again while an earlier send of it is unresolved, the allowance  *)
(* of failed sends shared by identical requests, and the completion that   *)
(* settles all of them in one transaction.                                 *)
(*                                                                         *)
(* Permits, receipts and failures are tables of one database: every        *)
(* operation on them is one IMMEDIATE transaction and one action here.     *)
(* Tasks and gates are memory and end with the process; the clock may be   *)
(* set back.  Digests, MACs and tokens are the attempts themselves: a      *)
(* caller can use a permit once its row exists.  The operator is trusted:  *)
(* it reconciles truthfully and not between the acquisition of a handoff   *)
(* and its outcome.                                                        *)
(***************************************************************************)
EXTENDS Naturals, FiniteSets, FiniteSetsExt

CONSTANTS
    Attempts,           \* signed attempts: [invocation, ordinal, sequence, revision, expires,
                        \* recovery, input, binding]
    JobAttempts,        \* the ones signed for a job queue
    Fingerprints,       \* credentials the secret source may hold
    Allowances,         \* max_attempts of the route in each configuration; 0: no such route
    RequestAttempts,    \* request_budget.attempts, or NULL
    RenewalSeconds,     \* request_budget.renewal_seconds, or NULL
    RequestLimit,       \* provider_request_limit of the account, or NULL
    Retains,            \* FALSE for AnswerRecovery::Off
    Validates,          \* the in-process client has an answer validator
    ExpiryBatch,        \* EXPIRY_BATCH_SIZE
    NULL,
    MaxTime, MaxTroubles \* bounds: the clock; crashes, faults, clock and operator interventions

VARIABLES
    permits,            \* egress_permits
    revision,           \* egress_grant_revisions
    failures,           \* egress_request_failures
    ledger,             \* spend_receipts, of the attempts
    task,               \* the dispatch tasks and job workers of the running process
    gates,              \* request_budget_dispatch: the gate registered for a key
    clock,              \* Foundation's clock
    allowance,          \* the configuration in force
    credential,         \* what the secret source holds; NULL when it cannot be read
    sent, paid,         \* <<attempt, key, path>> of every send, and the attempts charged
    concluded,          \* the attempts whose completion is recorded
    forgiven,           \* sends no longer held against their request's allowance
    troubles

tables == <<permits, failures, ledger>>
world == <<clock, allowance, credential, troubles>>
seen == <<sent, paid, concluded, forgiven>>
credVars == <<tables, revision, task, gates, world, seen>>

ASSUME BoundsAssumption ==
    /\ ExpiryBatch \in Nat \ {0} /\ MaxTime \in Nat /\ MaxTroubles \in Nat
    /\ \A a \in Attempts : /\ {a.ordinal, a.sequence, a.revision, a.expires} \subseteq Nat \ {0}
                           /\ a.recovery \in Nat
    /\ \A a, b \in Attempts : a.invocation = b.invocation => a.input = b.input

\* The largest allowance exists: max_attempts is a u32.
ASSUME AllowanceAssumption ==
    /\ Allowances \subseteq Nat /\ \E m \in Allowances : \A n \in Allowances : n <= m
    /\ RequestAttempts # NULL => RequestAttempts \in Nat
    /\ RenewalSeconds # NULL => RenewalSeconds \in Nat
    /\ Retains \in BOOLEAN /\ Validates \in BOOLEAN

Keys == {a.input : a \in Attempts} \X Fingerprints
Answered == {"measured", "unmeasured"}
Unsent == {"credential", "refused", "zero"} \* trusted not to have been charged

Outcomes == Answered \cup Unsent \cup {"unsure"}

\* Rows of egress_permits, spend_receipts and egress_request_failures; a task.
Permit == [consumed : BOOLEAN, accepted : Nat, finished : 0..2, result : BOOLEAN, request : Keys \cup {NULL},
           status : {"Succeeded", "ProviderFailed", "CredentialUnavailable"}]
Receipt == [state : {"none", "unknown", "released", "settled"}, output : BOOLEAN, usage : BOOLEAN, owner : BOOLEAN]
Failure == [failed : Nat, last : Nat]
Task == [pc : {"idle", "resolve", "admit", "acquire", "send", "finish"}, path : {"direct", "job", NULL},
         key : Keys \cup {NULL}, gate : Attempts \cup {NULL}, holds : BOOLEAN, debited : BOOLEAN,
         previous : Failure \cup {NULL}, outcome : Outcomes \cup {NULL}, rejected : BOOLEAN]

ASSUME CredNullAssumption == NULL \notin Permit \cup Failure \cup Keys \cup Attempts

\* A row as issue_in inserts it; the receipt is there once it is consumed.
NewRow(accepted) == [consumed |-> FALSE, accepted |-> accepted, finished |-> 0, result |-> FALSE,
                     request |-> NULL, status |-> "ProviderFailed"]
NoReceipt == [state |-> "none", output |-> FALSE, usage |-> FALSE, owner |-> FALSE]
Idle == [pc |-> "idle", path |-> NULL, key |-> NULL, gate |-> NULL, holds |-> FALSE,
         debited |-> FALSE, previous |-> NULL, outcome |-> NULL, rejected |-> FALSE]

CredInit ==
    /\ permits = [a \in Attempts |-> NULL] /\ revision = 0
    /\ failures = [k \in Keys |-> NULL] /\ ledger = [a \in Attempts |-> NoReceipt]
    /\ task = [a \in Attempts |-> Idle] /\ gates = [k \in Keys |-> NULL]
    /\ clock = 0 /\ allowance \in Allowances \ {0}
    /\ credential \in Fingerprints
    /\ sent = {} /\ paid = {} /\ concluded = {} /\ forgiven = {} /\ troubles = 0

Trouble(is) == /\ is => troubles < MaxTroubles
               /\ troubles' = IF is THEN troubles + 1 ELSE troubles

----------------------------------------------------------------------------
(* The tables.                                                             *)

Issued(a) == permits[a] # NULL
Consumed(a) == Issued(a) /\ permits[a].consumed
Of(i) == {b \in Attempts : Issued(b) /\ b.invocation = i}
Latest(i) == CHOOSE b \in Of(i) : \A c \in Of(i) : c.ordinal <= b.ordinal
Superseded(a) == \E b \in Of(a.invocation) : b.ordinal > a.ordinal
Current(a) == revision = a.revision
Resolved(a) == ledger[a].state \in {"released", "settled"}

\* Mutant: every permit starts its own count.
AcceptedAnew(a) == 0
\* The accepted handoffs that a new permit of the invocation counts from.
Accepted(a) == IF Of(a.invocation) = {} THEN 0 ELSE permits[Latest(a.invocation)].accepted

\* issue_in: a permit may follow `p` when p was never handed off and cannot
\* be any more, or failed at no charge.
Follows(a, p) ==
    /\ p.binding = a.binding /\ a.ordinal > p.ordinal /\ a.sequence > p.sequence
    /\ (permits[p].consumed \/ (p.revision = a.revision /\ clock < p.expires))
        => /\ permits[p].consumed /\ permits[p].status # "Succeeded"
           /\ ledger[p].state = "released"

Issuable(a) ==
    /\ ~Issued(a) /\ Current(a)
    /\ Of(a.invocation) # {} => Follows(a, Latest(a.invocation))
    /\ Accepted(a) < allowance /\ clock < a.expires

\* Mutant: the successor of a permit is not looked for.
AcceptableLate(a, row) ==
    /\ ~row.consumed /\ Current(a)
    /\ row.accepted < allowance /\ clock < a.expires
\* accept_in, for the row that the permit names.
Acceptable(a, row) ==
    /\ ~row.consumed /\ Current(a) /\ ~Superseded(a)
    /\ row.accepted < allowance /\ clock < a.expires

\* reserve_with_limit_in for a new reference of the invocation.
Reservable(a) ==
    /\ ledger[a].state = "none"
    /\ \A b \in Attempts : b.invocation = a.invocation
        => ledger[b].state \in {"none", "released"} /\ ~ledger[b].output
    /\ RequestLimit # NULL
        => Cardinality({b \in Attempts : ledger[b].state \in {"unknown", "settled"}}) < RequestLimit

\* finish_in: evidence for a reference whose state is settled must agree.
Finishable(r, state, usage, output) ==
    /\ (state = "settled" => usage) /\ (state = "released" => ~r.output /\ ~output)
    /\ r.state # "unknown" => r.state = state /\ r.usage = usage /\ r.output = (r.output \/ output)
Finished(r, state, usage, output) ==
    [r EXCEPT !.state = state, !.usage = usage, !.output = @ \/ output]

\* The ledger trigger egress_retire_request_binding.
Retired(row, state) ==
    IF state \in {"released", "settled"} /\ row.consumed /\ row.finished = 0
    THEN [row EXCEPT !.request = NULL] ELSE row

\* purge_expired: at most ExpiryBatch of the results that are due.
Due == {a \in Attempts : Issued(a) /\ permits[a].result /\ a.recovery <= clock}
Purges == {S \in SUBSET Due : /\ Cardinality(S) = Min({ExpiryBatch, Cardinality(Due)})
                              /\ \A a \in S, b \in Due \ S : a.recovery <= b.recovery}
Purged(S) == [a \in Attempts |-> IF a \in S THEN [permits[a] EXCEPT !.result = FALSE] ELSE permits[a]]

\* attempt_status, as the caller sees it at the current time.
AttemptStatus(a) ==
    LET row == permits[a]
    IN  CASE ~Issued(a) -> "NotIssued"
          [] Issued(a) /\ ~row.consumed ->
                IF ~Superseded(a) /\ Current(a) /\ clock < a.expires
                THEN "Permitted" ELSE "Invalidated"
          [] Consumed(a) /\ row.finished = 0 -> "Dispatched"
          [] Consumed(a) /\ row.finished = 2 -> "FinishedWithoutAnswer"
          [] Consumed(a) /\ row.finished = 1 ->
                CASE clock >= a.recovery -> "Expired"
                  [] clock < a.recovery /\ ~row.result -> "StateUnavailable"
                  [] OTHER -> IF row.status = "Succeeded" THEN "Completed" ELSE "Failed"

----------------------------------------------------------------------------
(* Operations of the protocol.  Each first purges results that are due.    *)

IssuePermit(a) ==
    /\ Issuable(a)
    /\ \E S \in Purges : permits' = [Purged(S) EXCEPT ![a] = NewRow(Accepted(a))]
    /\ UNCHANGED <<revision, failures, ledger, task, gates, world, seen>>

\* A stale revision is refused; the current one is published again.
PublishGrantRevision(r) ==
    /\ r >= revision
    /\ revision' = r
    /\ \E S \in Purges : permits' = Purged(S)
    /\ UNCHANGED <<failures, ledger, task, gates, world, seen>>

Handoff(a, path) ==
    /\ ledger' = [ledger EXCEPT ![a].state = "unknown"]
    /\ task' = [task EXCEPT ![a] = [Idle EXCEPT !.pc = "resolve", !.path = path]]

\* Registry::consume accepts the permit and reserves in one transaction.
Consumable(a) == Issued(a) /\ Acceptable(a, permits[a]) /\ Reservable(a)

\* InjectProviderCredential: consumption, reservation and the spawn.
Inject(a) ==
    /\ Consumable(a)
    /\ Handoff(a, "direct")
    /\ \E S \in Purges :
        permits' = [Purged(S) EXCEPT ![a].consumed = TRUE, ![a].accepted = @ + 1]
    /\ UNCHANGED <<revision, failures, gates, world, seen>>

\* The paid claim of a signed job: accept_job_in takes the permit of its
\* attempt, or issues one, in the transaction of the claim.
ClaimJob(a) ==
    /\ a \in JobAttempts
    /\ IF Issued(a) THEN Acceptable(a, permits[a]) ELSE Issuable(a)
    /\ Reservable(a)
    /\ Handoff(a, "job")
    /\ LET row == IF Issued(a) THEN permits[a] ELSE NewRow(Accepted(a))
       IN  permits' = [permits EXCEPT ![a] = [row EXCEPT !.consumed = TRUE, !.accepted = @ + 1]]
    /\ UNCHANGED <<revision, failures, gates, world, seen>>

PurgeExpired ==
    /\ Due # {}
    /\ \E S \in Purges : permits' = Purged(S)
    /\ UNCHANGED <<revision, failures, ledger, task, gates, world, seen>>

----------------------------------------------------------------------------
(* A dispatch task, and the worker of a signed job.                        *)

At(a, pc) == task[a].pc = pc
Goes(a, pc) == task' = [task EXCEPT ![a].pc = pc]
Ends(a, outcome) == task' = [task EXCEPT ![a].pc = "finish", ![a].outcome = outcome]
Direct(a) == task[a].path = "direct"
Budgeted(a) == Direct(a) /\ RequestAttempts # NULL

\* A gate is known by the task that created it; the map holds it weakly.
Members(g) == {b \in Attempts : task[b].gate = g}
\* Mutant: a task waits until it is alone in the gate.
GateAlone(g) == Cardinality(Members(g)) <= 1
\* The gate's mutex is not held.
GateFree(g) == \A b \in Members(g) : ~task[b].holds

\* The credential is read once; its fingerprint is part of the request key,
\* whose gate the task enters.
Resolve(a) ==
    /\ At(a, "resolve")
    /\ LET k == <<a.input, credential>>
           g == IF gates[k] = NULL THEN a ELSE gates[k]
       IN  IF credential = NULL
           THEN Ends(a, "credential") /\ UNCHANGED gates
           ELSE IF Budgeted(a)
           THEN /\ gates' = [gates EXCEPT ![k] = g]
                /\ task' = [task EXCEPT ![a].key = k, ![a].gate = g, ![a].pc = "admit"]
           ELSE task' = [task EXCEPT ![a].key = k, ![a].pc = "admit"] /\ UNCHANGED gates
    /\ UNCHANGED <<tables, revision, world, seen>>

\* Mutant: a gate is never retired.
RetiredGatesNever(a) == gates
\* The last member of a gate to leave removes it from the map.
RetiredGates(a) ==
    [k \in Keys |-> IF gates[k] = task[a].gate /\ Members(task[a].gate) = {a}
                    THEN NULL ELSE gates[k]]

\* Mutant: an unresolved send of the request is not looked for.
UnresolvedIgnored(k) == FALSE
\* A send of the request that neither completed nor was reconciled.
Unresolved(k) ==
    \E b \in Attempts : /\ Consumed(b) /\ permits[b].request = k
                        /\ permits[b].finished = 0 /\ ~Resolved(b)

\* The failures that still count, after renewal.
Renewed(f) ==
    /\ RenewalSeconds # NULL
    /\ RenewalSeconds = 0 \/ (clock >= f.last /\ clock - f.last >= RenewalSeconds)
Counted(k) == IF failures[k] = NULL \/ Renewed(failures[k]) THEN NULL ELSE failures[k]
Failed(f) == IF f = NULL THEN 0 ELSE f.failed
Debited(f) ==
    [failed |-> Failed(f) + 1, last |-> IF f = NULL THEN clock ELSE Max({f.last, clock})]

SendsOf(k) == {s \in sent : s[2] = k}

\* admit_request_in, once the gate is locked: the request key is bound, and
\* the allowance debited, before anything is sent.
Admit(a) ==
    /\ At(a, "admit") /\ (Budgeted(a) => GateFree(task[a].gate))
    /\ LET k == task[a].key
           refused == \/ Unresolved(k) \/ permits[a].finished # 0 \/ permits[a].request # NULL
                      \/ Budgeted(a) /\ Failed(Counted(k)) >= RequestAttempts
       IN  IF refused
           THEN /\ task' = [task EXCEPT ![a].pc = "finish", ![a].outcome = "refused", ![a].holds = Budgeted(a)]
                /\ UNCHANGED <<permits, failures, forgiven>>
           ELSE /\ permits' = [permits EXCEPT ![a].request = k]
                /\ IF Budgeted(a)
                   THEN /\ failures' = [failures EXCEPT ![k] = Debited(Counted(k))]
                        /\ task' = [task EXCEPT ![a].pc = "acquire", ![a].holds = TRUE,
                                                ![a].debited = TRUE, ![a].previous = Counted(k)]
                        /\ forgiven' = IF failures[k] # NULL /\ Counted(k) = NULL
                                       THEN forgiven \cup SendsOf(k) ELSE forgiven
                   ELSE Goes(a, IF Direct(a) THEN "acquire" ELSE "send")
                        /\ UNCHANGED <<failures, forgiven>>
    /\ UNCHANGED <<revision, ledger, gates, world, sent, paid, concluded>>

\* The runtime takes the handoff over; a failure of its queue or set-up, or
\* a receipt that is no longer open, ends before the adapter starts.
Acquire(a) ==
    /\ At(a, "acquire")
    /\ \E fault \in BOOLEAN :
        /\ Trouble(fault)
        /\ IF fault \/ ledger[a].state # "unknown" \/ ledger[a].owner
           THEN Ends(a, "refused") /\ UNCHANGED ledger
           ELSE Goes(a, "send") /\ ledger' = [ledger EXCEPT ![a].owner = TRUE]
    /\ UNCHANGED <<permits, failures, revision, gates, clock, allowance, credential, seen>>

\* The raw adapter starts, and the provider does what it does.
Send(a) ==
    /\ At(a, "send")
    /\ sent' = sent \cup {<<a, task[a].key, task[a].path>>}
    /\ \E o \in Answered \cup {"zero", "unsure"}, charged \in BOOLEAN, rejected \in BOOLEAN :
        /\ (o \in Answered => charged) /\ (o = "zero" => ~charged)
        /\ rejected => Validates /\ Direct(a) /\ o \in Answered
        /\ task' = [task EXCEPT ![a].pc = "finish", ![a].outcome = o, ![a].rejected = rejected]
        /\ paid' = IF charged THEN paid \cup {a} ELSE paid
    /\ UNCHANGED <<tables, revision, gates, world, concluded, forgiven>>

\* Mutant: a failure that may have been dispatched is released.
StateAfterFailed(o) == CASE o = "measured" -> "settled" [] o = "unmeasured" -> "unknown" [] OTHER -> "released"
\* The spend state a dispatch completes with.
StateAfter(o) == CASE o = "measured" -> "settled" [] o \in Unsent -> "released" [] OTHER -> "unknown"

\* Mutant: any failure gives its debit back.
AllowanceAfterAny(a) ==
    IF task[a].outcome \in Answered /\ ~task[a].rejected THEN NULL ELSE task[a].previous
\* The allowance once a debited dispatch completes: cleared by an answer the
\* caller accepts, given back when nothing was sent, kept otherwise.
AllowanceAfter(a) ==
    LET f == failures[task[a].key]
        o == task[a].outcome
    IN  CASE o \in Answered /\ ~task[a].rejected -> NULL
          [] o \in Unsent -> task[a].previous
          [] OTHER -> IF f = NULL THEN NULL ELSE [f EXCEPT !.last = Max({f.last, clock})]
ForgivenAfter(a) ==
    CASE task[a].outcome \in Answered /\ ~task[a].rejected -> SendsOf(task[a].key)
      [] task[a].outcome \in Unsent -> {s \in sent : s[1] = a}
      [] OTHER -> {}

\* The row a completed dispatch leaves.
Closed(a) ==
    [permits[a] EXCEPT
        !.request = NULL, !.finished = IF Retains THEN 1 ELSE 2,
        !.result = Retains /\ a.recovery > clock,
        !.status = CASE task[a].outcome = "credential" -> "CredentialUnavailable"
                     [] task[a].outcome \in Answered /\ ~task[a].rejected -> "Succeeded"
                     [] OTHER -> "ProviderFailed"]

\* complete_job_in: the ledger owns the result of a job.
Unbound(row) == [row EXCEPT !.request = NULL]

\* finish of a dispatch, or of a job: permit, receipt and allowance in one
\* transaction.  When it fails, or the evidence contradicts what an operator
\* recorded, nothing changes and the charge stays unknown.  Either way the
\* task ends and leaves its gate.
Finish(a) ==
    /\ At(a, "finish")
    /\ \E fault \in BOOLEAN :
        /\ Trouble(fault)
        /\ LET o == task[a].outcome
               state == StateAfter(o)
           IN  IF \/ fault \/ permits[a].finished # 0
                  \/ ~Finishable(ledger[a], state, o = "measured", o \in Answered)
               THEN UNCHANGED <<tables, concluded, forgiven>>
               ELSE /\ ledger' = [ledger EXCEPT ![a] =
                                    Finished(@, state, o = "measured", o \in Answered)]
                    /\ permits' = [permits EXCEPT ![a] =
                                    IF Direct(a) THEN Closed(a) ELSE Unbound(@)]
                    /\ concluded' = concluded \cup {a}
                    /\ IF task[a].debited
                       THEN /\ failures' = [failures EXCEPT ![task[a].key] = AllowanceAfter(a)]
                            /\ forgiven' = forgiven \cup ForgivenAfter(a)
                       ELSE UNCHANGED <<failures, forgiven>>
    /\ task' = [task EXCEPT ![a] = Idle]
    /\ gates' = IF task[a].gate = NULL THEN gates ELSE RetiredGates(a)
    /\ UNCHANGED <<revision, clock, allowance, credential, sent, paid>>

----------------------------------------------------------------------------
(* The environment.                                                        *)

Tick == /\ clock < MaxTime /\ clock' = clock + 1
        /\ UNCHANGED <<tables, revision, task, gates, allowance, credential, troubles, seen>>
SetBack == /\ clock > 0 /\ clock' = clock - 1 /\ Trouble(TRUE)
           /\ UNCHANGED <<tables, revision, task, gates, allowance, credential, seen>>
\* The secret source holds another key, or cannot be read.
Rotate(f) == /\ f # credential /\ credential' = f /\ Trouble(TRUE)
             /\ UNCHANGED <<tables, revision, task, gates, clock, allowance, seen>>

\* An operator reconciles a charge; the ledger's trigger retires the binding.
Reconcile(a) ==
    /\ ledger[a].state = "unknown"
    /\ IF task[a].path = "job" THEN At(a, "finish") ELSE ~At(a, "send")
    /\ LET state == IF a \in paid THEN "settled" ELSE "released"
       IN  /\ Finishable(ledger[a], state, a \in paid, FALSE)
           /\ ledger' = [ledger EXCEPT ![a] = Finished(@, state, a \in paid, FALSE)]
           /\ permits' = [permits EXCEPT ![a] = Retired(@, state)]
    /\ Trouble(TRUE)
    /\ UNCHANGED <<revision, failures, task, gates, clock, allowance, credential, seen>>

\* The process ends anywhere and is opened again, perhaps with another
\* configuration of the route.
Restart ==
    /\ Trouble(TRUE)
    /\ task' = [a \in Attempts |-> Idle] /\ gates' = [k \in Keys |-> NULL]
    /\ allowance' \in Allowances
    /\ \E S \in Purges : permits' = Purged(S)
    /\ UNCHANGED <<revision, failures, ledger, clock, credential, seen>>

TaskStep(a) == \/ Resolve(a) \/ Admit(a) \/ Acquire(a)
               \/ Send(a) \/ Finish(a)
CredNext ==
    \/ \E a \in Attempts : \/ IssuePermit(a) \/ Inject(a) \/ ClaimJob(a) \/ TaskStep(a)
                           \/ Reconcile(a)
    \/ \E a \in Attempts : PublishGrantRevision(a.revision)
    \/ PurgeExpired \/ Tick \/ SetBack \/ Restart
    \/ \E f \in Fingerprints \cup {NULL} : Rotate(f)

\* Tasks are spawned on the process's own executor and are not cancelled
\* when a caller goes away.
CredFairness == \A a \in Attempts : WF_credVars(TaskStep(a))

CredSpec == CredInit /\ [][CredNext]_credVars
FairCredSpec == CredSpec /\ CredFairness

----------------------------------------------------------------------------
(* Properties.                                                             *)

CredTypeOK ==
    /\ permits \in [Attempts -> Permit \cup {NULL}] /\ revision \in Nat
    /\ failures \in [Keys -> Failure \cup {NULL}] /\ ledger \in [Attempts -> Receipt]
    /\ task \in [Attempts -> Task] /\ gates \in [Keys -> Attempts \cup {NULL}]
    /\ clock \in Nat /\ allowance \in Allowances
    /\ credential \in Fingerprints \cup {NULL} /\ troubles \in Nat
    /\ sent \subseteq Attempts \X Keys \X {"direct", "job"}
    /\ paid \subseteq Attempts /\ concluded \subseteq Attempts /\ forgiven \subseteq sent

\* The state is well typed.  issue_in, dispatch and finish: spend is released only when the provider
\* did not charge, whatever crashed, failed to be written or was reconciled
\* between; every handed-off predecessor of a handed-off attempt was released
\* so; and the count carried along the rows is the number of handoffs of the
\* invocation, within its allowance.
RetryHistory ==
    /\ CredTypeOK
    /\ \A a \in paid : ledger[a].state # "released"
    /\ \A a \in Attempts : Consumed(a) =>
        LET before == {b \in Of(a.invocation) : Consumed(b) /\ b.ordinal < a.ordinal}
        IN  /\ \A b \in before : ledger[b].state = "released"
            /\ permits[a].accepted = Cardinality(before) + 1
            /\ permits[a].accepted <= Max(Allowances)

\* admit_request_in: of the sends of one request under one credential, at
\* most one is neither completed nor reconciled, over both paths and
\* restarts; and where requests have a budget, the direct sends that failed
\* or may have failed are covered by debits and the debits by the allowance.
\* No gate outlives the tasks it admits one by one.
SendsAdmitted ==
    /\ \A s, t \in sent : s[2] = t[2] /\ s[1] # t[1]
         => \E u \in {s, t} : u[1] \in concluded \/ Resolved(u[1])
    /\ RequestAttempts # NULL => \A k \in Keys :
         /\ Cardinality({s \in SendsOf(k) \ forgiven : s[3] = "direct"}) <= Failed(failures[k])
         /\ Failed(failures[k]) <= RequestAttempts
    /\ \A k \in Keys : gates[k] # NULL => Members(gates[k]) # {}

\* attempt_status: what it told a caller stands.  A superseded or revoked
\* permit stays invalid though the clock goes back, a handoff is never
\* permitted again, and a result stays until its deadline.
StatusStands ==
    [][\A a \in Attempts :
        LET was == AttemptStatus(a)
            is == AttemptStatus(a)'
        IN  /\ was = "Invalidated" /\ (Superseded(a) \/ revision > a.revision) => is = "Invalidated"
            /\ was = "Dispatched" => is \notin {"NotIssued", "Permitted", "Invalidated"}
            /\ was \in {"Completed", "Failed"} => is \in {was, "Expired"}
            /\ was = "FinishedWithoutAnswer" => is = was]_credVars

\* dispatch: every accepted handoff comes to an end while the process runs;
\* no task waits for a gate forever.
DispatchEnds ==
    \A a \in Attempts : task[a].pc # "idle" ~> task[a].pc = "idle"
=============================================================================
