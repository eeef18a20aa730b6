--------------------------- MODULE QueuedProvider ---------------------------
(***************************************************************************)
(* Direct calls of queued providers.  A call joins the queue item of its   *)
(* request, waits for a model slot, the cooldown and rate budget, and then *)
(* runs an attempt as a task of its own, which claims the item, reserves   *)
(* spend, sends, records the evidence and closes the item.  A caller may   *)
(* stop waiting at any time; its task goes on.  Every step below is one    *)
(* store call (or reads that only ever turn from `none` to an answer), so  *)
(* calls, tasks and processes interleave between any two of them.          *)
(*                                                                         *)
(* Time is nondeterministic: a lease lapses, a retry time or a cooldown    *)
(* passes and rate budget returns by actions of the environment.  The      *)
(* queue and the ledger are reduced to the rows of these calls; SqliteQueue*)
(* and SpendLedger model them in full.  All handles of one process claim   *)
(* under one worker id, so a lease tells processes apart, not tasks.       *)
(***************************************************************************)
EXTENDS Integers, FiniteSets, FiniteSetsExt

CONSTANTS
    Calls, Requests, Processes,
    ProcessOf,      \* of each call
    Assignments,    \* which calls may make which requests
    Explicit,       \* requests with an explicit invocation
    CacheOn,        \* implicit requests with a response cache, hence a key
    Retain,         \* AnswerRecovery::Retain
    Outcomes,       \* what the provider may do
    RetryAttempts,  \* retry_attempts, per item
    LogicalAttempts,\* logical_retry_attempts, per request
    MaxInFlight,    \* max_in_flight
    RequestLimit,   \* provider_request_limit
    RateCapacity,   \* rate budget of an idle queue, in requests
    Renews,         \* is budget_renewal_seconds set
    NULL,
    MaxItems,       \* bound on items
    MaxTroubles     \* bound on lapsed leases, failed calls, evictions, crashes and reconciliations

VARIABLES
    items,          \* queue rows, by id in order of issue
    receipts,       \* ledger rows, by item and attempt
    latest,         \* per request: the receipt accepted last
    cached,         \* requests whose answer is in the response cache
    cooling,        \* is the queue cooling down
    call, task,     \* per call: its own control state and its attempt's
    slot,           \* calls whose call or attempt holds a model slot
    tokens, gate,   \* per process: rate budget and the holder of the rate gate
    sent,           \* history: the receipts sent under, with their item's budget
    env             \* items issued, troubles met; was an item evicted, a lease lost in use

providerVars == <<items, receipts, latest, cached, cooling, call, task, slot, tokens, gate, sent, env>>

Ids == 1..MaxItems
Refs == Ids \X (1..LogicalAttempts)
Keyed == Explicit \cup CacheOn
Answered == {"measured", "unmeasured"}
KnownZero == {"zero_transient", "zero_provider", "zero_final"}
Retryable == {"zero_transient", "zero_provider"} \* the latter under retry_provider_errors
Transient == {"zero_transient", "unsure_transient"}

ASSUME ProviderAssumption ==
    /\ Assignments \subseteq [Calls -> Requests] /\ ProcessOf \in [Calls -> Processes]
    /\ Explicit \subseteq Requests /\ CacheOn \subseteq Requests \ Explicit
    /\ Outcomes \subseteq Answered \cup KnownZero \cup {"unsure", "unsure_transient"}
    /\ {RetryAttempts, LogicalAttempts, MaxInFlight, RateCapacity} \subseteq Nat \ {0}
    /\ RequestLimit \in Nat /\ MaxItems \in Nat

\* A row of the ledger.
Receipt == [request : Requests, state : {"Unknown", "Settled", "Released"}, pre : BOOLEAN,
            output : BOOLEAN, used : Nat]

ASSUME NullIsNothing ==
    /\ NULL \notin Calls /\ NULL \notin Refs /\ NULL \notin Receipt
    /\ NULL \notin {"completed", "reconcile", "attempts", "spend", "ledger"}

----------------------------------------------------------------------------
(* The queue.                                                              *)

ItemAttempts == Min({RetryAttempts, LogicalAttempts})
Terminal == {"Succeeded", "Dead", "Stopped"}

NewItem(r, attempts, used, delayed, budget) ==
    [request |-> r, status |-> "Pending", attempt |-> 0, max |-> attempts, used |-> used,
     owner |-> NULL, lapsed |-> FALSE, later |-> delayed, error |-> NULL, budget |-> budget]

Stored(r) == {i \in Ids : items[i] # NULL /\ items[i].request = r}
Newest(r) == IF r \in Keyed /\ Stored(r) # {} THEN Max(Stored(r)) ELSE NULL

\* A claim stands while its lease runs and its owner's process holds it.
Owns(i, p) == /\ items[i] # NULL /\ items[i].status = "Running"
              /\ items[i].owner = p /\ ~items[i].lapsed
ReclaimedItem(item) ==
    IF item # NULL /\ item.status = "Running" /\ item.lapsed
    THEN [item EXCEPT !.owner = NULL, !.lapsed = FALSE, !.error = "lease",
                      !.status = IF item.attempt >= item.max THEN "Dead" ELSE "Failed"]
    ELSE item
Reclaimed == [i \in Ids |-> ReclaimedItem(items[i])]

----------------------------------------------------------------------------
(* The ledger.                                                             *)

LatestReceipt(r) == IF latest[r] = NULL THEN NULL ELSE receipts[latest[r]]
RefsOf(r) == {f \in Refs : receipts[f] # NULL /\ receipts[f].request = r}
Charged == {f \in Refs : receipts[f] # NULL /\ receipts[f].state # "Released"}
AttemptsUsed(r) == IF latest[r] = NULL THEN 0 ELSE LatestReceipt(r).used

\* Mutant: an unresolved attempt does not refuse the next.
RefusalSettled(r) ==
    IF r \in Explicit /\ latest[r] # NULL /\ LatestReceipt(r).output THEN "completed"
    ELSE IF r \in Explicit /\ latest[r] # NULL /\ LatestReceipt(r).state = "Settled" THEN "reconcile"
    ELSE IF r \in Explicit /\ AttemptsUsed(r) >= LogicalAttempts THEN "attempts"
    ELSE IF Cardinality(Charged) >= RequestLimit THEN "spend"
    ELSE NULL
\* What refuses a reservation, or NULL.
Refusal(r) ==
    IF r \in Explicit /\ latest[r] # NULL /\ LatestReceipt(r).output THEN "completed"
    ELSE IF r \in Explicit /\ latest[r] # NULL /\ LatestReceipt(r).state = "Settled" THEN "reconcile"
    ELSE IF \E f \in RefsOf(r) : receipts[f].state = "Unknown" THEN "reconcile"
    ELSE IF r \in Explicit /\ AttemptsUsed(r) >= LogicalAttempts THEN "attempts"
    ELSE IF Cardinality(Charged) >= RequestLimit THEN "spend"
    ELSE NULL

\* recovered: only explicit invocations look for a saved answer.
Recovered(r) ==
    IF r \notin Explicit \/ latest[r] = NULL \/ ~LatestReceipt(r).output THEN NULL
    ELSE IF Retain THEN "answer" ELSE "error"
\* What ends a call without an attempt: a saved or a cached answer.
Known(r) == IF r \in cached THEN "answer" ELSE Recovered(r)

\* provider_attempts: claims that reached, or may have reached, the provider.
AttemptUnused(f) == receipts[f] = NULL \/ receipts[f].pre
ProviderAttemptsCharged(i, claims) == \* mutant: released attempts are not counted
    Cardinality({a \in 1..claims : ~AttemptUnused(<<i, a>>) /\ receipts[<<i, a>>].state # "Released"})
ProviderAttempts(i, claims) == Cardinality({a \in 1..claims : ~AttemptUnused(<<i, a>>)})

\* retry_state: attempts the request has used.
UsedSoFar(i, item) ==
    IF item.request \in Explicit THEN AttemptsUsed(item.request)
    ELSE item.used + ProviderAttempts(i, item.attempt)

----------------------------------------------------------------------------
(* Plans: the item that shall replace an ended or abandoned one.           *)

Plan(item, used, attempts, delayed) ==
    [max |-> attempts, used |-> used, delayed |-> delayed, budget |-> item.budget]
FreshPlan == [max |-> ItemAttempts, used |-> 0, delayed |-> FALSE, budget |-> NULL]

\* renew_budget and budget_renewed: never for explicit invocations.
Renewals(item) == IF item.request \notin Explicit /\ Renews THEN BOOLEAN ELSE {FALSE}

Reconsiderable(i, item) ==
    \/ item.error = "spend"
    \/ item.error = "reconcile" /\ latest[item.request] # NULL
                                /\ LatestReceipt(item.request).state = "Released"
    \/ item.error \in {"ledger", "queue", "lease"} /\ AttemptUnused(<<i, item.attempt>>)

\* reconsider_stopped: refusals that may have passed, and claims that never
\* reached the provider.
Reconsidered(i, item, renewed) ==
    IF ~Reconsiderable(i, item) THEN NULL
    ELSE IF UsedSoFar(i, item) < LogicalAttempts
    THEN Plan(item, UsedSoFar(i, item),
              Min({LogicalAttempts - UsedSoFar(i, item), ItemAttempts}), FALSE)
    ELSE IF renewed THEN FreshPlan ELSE NULL

\* continue_chain and reenqueue_dead_item.
Continued(i, item) ==
    IF item.status = "Stopped" \/ UsedSoFar(i, item) >= LogicalAttempts THEN NULL
    ELSE Plan(item, UsedSoFar(i, item),
              Min({LogicalAttempts - UsedSoFar(i, item), RetryAttempts}), TRUE)

\* enqueue_replacing: only while `current` is still the request's newest
\* item, ended or reclaimed; otherwise the newest one is joined.
Insert(r, plan, i) ==
    NewItem(r, plan.max, plan.used, plan.delayed, IF plan.budget = NULL THEN i ELSE plan.budget)
ReplaceableItem(current) ==
    items[current].status \in Terminal
        \/ (items[current].status = "Failed" /\ items[current].error = "lease")
Replaces(r, current) ==
    r \in Keyed /\ Newest(r) # NULL => Newest(r) = current /\ ReplaceableItem(current)
Replacement(r, plan, current, i) ==
    [j \in Ids |-> IF j = i THEN Insert(r, plan, i)
                   ELSE IF j = current /\ items[j] # NULL /\ items[j].status = "Failed"
                   THEN [items[j] EXCEPT !.status = "Stopped"] ELSE items[j]]


----------------------------------------------------------------------------
(* Calls: run_queued and waiting_on_item.                                  *)

Idle == [pc |-> "idle", item |-> NULL, attempt |-> NULL, seen |-> NULL, plan |-> NULL,
         reserved |-> FALSE, lost |-> FALSE, outcome |-> NULL, error |-> NULL, close |-> NULL,
         result |-> NULL]
NewCall(r) == [request |-> r, pc |-> "new", item |-> NULL, seen |-> NULL, joined |-> FALSE,
               plan |-> NULL, end |-> NULL]
RequestOf(c) == call[c].request

ProviderInit ==
    /\ items = [i \in Ids |-> NULL] /\ receipts = [f \in Refs |-> NULL]
    /\ latest = [r \in Requests |-> NULL] /\ cached = {} /\ cooling = FALSE
    /\ \E a \in Assignments : call = [c \in Calls |-> NewCall(a[c])]
    /\ task = [c \in Calls |-> Idle] /\ slot = {}
    /\ tokens = [p \in Processes |-> RateCapacity] /\ gate = [p \in Processes |-> NULL]
    /\ sent = {}
    /\ env = [issued |-> 0, troubles |-> 0, evicted |-> FALSE, lapsed |-> FALSE]

Goto(c, pc) == call' = [call EXCEPT ![c].pc = pc]
Ends(c, end) == call' = [call EXCEPT ![c] = [NewCall(RequestOf(c)) EXCEPT !.pc = "ended", !.end = end]]
queueVars == <<items, cooling>>
ledgerRows == <<receipts, latest>>
limits == <<slot, tokens, gate>>
history == <<sent, env>>

\* A store call may fail; troubles are bounded.
Fault(f) == /\ f => env.troubles < MaxTroubles
            /\ env' = IF f THEN [env EXCEPT !.troubles = @ + 1] ELSE env
Trouble == Fault(TRUE)

\* One look for a known answer, or on to the next step.
Start(c) ==
    /\ call[c].pc \in {"new", "loop"}
    /\ LET known == Known(RequestOf(c))
           next == IF call[c].pc = "new" THEN "enqueue" ELSE "permit"
       IN  IF known # NULL THEN Ends(c, known) ELSE Goto(c, next)
    /\ UNCHANGED <<queueVars, ledgerRows, cached, task, limits, history>>

\* enqueue: insert, or join the newest item of the key.  Only the first
\* enqueue of a call looks at an ended duplicate.
Enqueue(c) ==
    /\ call[c].pc \in {"enqueue", "reenqueue"}
    /\ LET r == RequestOf(c)
           i == env.issued + 1
           joins == Newest(r) # NULL
           ended == joins /\ items[Newest(r)].status \in Terminal /\ call[c].pc = "enqueue"
       IN  /\ joins \/ i \in Ids
           /\ items' = IF joins THEN items ELSE [items EXCEPT ![i] = Insert(r, FreshPlan, i)]
           /\ env' = IF joins THEN env ELSE [env EXCEPT !.issued = i]
           /\ call' = [call EXCEPT ![c].item = IF joins THEN Newest(r) ELSE i,
                                   ![c].seen = IF ended THEN items[Newest(r)] ELSE NULL,
                                   ![c].joined = ended,
                                   ![c].pc = IF ended THEN "decide" ELSE "loop"]
    /\ UNCHANGED <<ledgerRows, cached, cooling, task, limits, sent>>

\* The plan of a call for the item it saw: NULL to wait, or how it ends.
\* Before `decide` a call that joined an ended item reconsiders a Dead one
\* for whatever reason it died.
Decision(r, i, item, joined, renewed) ==
    LET reconsidered == Reconsidered(i, item, renewed)
        looksAgain == \/ item.status = "Stopped" \/ (joined /\ item.status = "Dead")
                      \/ item.status \in {"Dead", "Failed"} /\ item.error = "lease"
    IN  IF looksAgain /\ reconsidered # NULL THEN [do |-> "replace", plan |-> reconsidered]
        ELSE IF item.status = "Stopped" THEN [do |-> "error", plan |-> NULL]
        ELSE IF item.status = "Dead" THEN
             IF renewed THEN [do |-> "replace", plan |-> FreshPlan]
             ELSE IF Continued(i, item) # NULL THEN [do |-> "replace", plan |-> Continued(i, item)]
             ELSE [do |-> "error", plan |-> NULL]
        ELSE IF item.status = "Succeeded" THEN
             IF joined THEN [do |-> "replace", plan |-> FreshPlan]
             ELSE IF r \in cached THEN [do |-> "answer", plan |-> NULL]
             ELSE IF r \in Explicit THEN [do |-> "error", plan |-> NULL]
             ELSE [do |-> "replace", plan |-> FreshPlan]
        ELSE [do |-> "wait", plan |-> NULL]

\* The ledger is read after the item was: both may have moved on.
Decide(c) ==
    /\ call[c].pc = "decide"
    /\ LET r == RequestOf(c) IN
       \E renewed \in Renewals(call[c].seen) :
          LET decision == Decision(r, call[c].item, call[c].seen, call[c].joined, renewed)
          IN  IF Recovered(r) # NULL THEN Ends(c, Recovered(r))
              ELSE IF decision.do \in {"answer", "error"} THEN Ends(c, decision.do)
              ELSE call' = [call EXCEPT ![c].plan = decision.plan, ![c].seen = NULL,
                               ![c].pc = IF decision.do = "replace" THEN "replace" ELSE "loop"]
    /\ UNCHANGED <<queueVars, ledgerRows, cached, task, limits, history>>

\* The item a plan leads to, inserted or joined.
Followed(r, plan, current) ==
    LET i == env.issued + 1
    IN  IF Replaces(r, current)
        THEN [item |-> i, items |-> Replacement(r, plan, current, i), issued |-> i]
        ELSE [item |-> Newest(r), items |-> items, issued |-> env.issued]

ReplaceItem(c) ==
    /\ call[c].pc = "replace"
    /\ LET next == Followed(RequestOf(c), call[c].plan, call[c].item)
       IN  /\ next.item \in Ids /\ items' = next.items /\ env' = [env EXCEPT !.issued = next.issued]
           /\ call' = [call EXCEPT ![c].item = next.item, ![c].plan = NULL, ![c].pc = "loop"]
    /\ UNCHANGED <<ledgerRows, cached, cooling, task, limits, sent>>

\* ModelAdmission::acquire: one semaphore per process.
Acquire(c) ==
    /\ call[c].pc = "permit"
    /\ Cardinality({d \in slot : ProcessOf[d] = ProcessOf[c]}) < MaxInFlight
    /\ slot' = slot \cup {c} /\ Goto(c, "throttle")
    /\ UNCHANGED <<queueVars, ledgerRows, cached, task, tokens, gate, history>>

\* The gate is kept from the budget check to the charge.
GateIgnored(c) == TRUE \* mutant: the gate is not waited for
GateFree(c) == gate[ProcessOf[c]] = NULL
\* The cooldown is over: check the rate budget under its gate.  A cleared
\* call starts its attempt with slot and gate; another gives its slot back
\* and looks at its item again after a slice.
CheckRate(c) ==
    /\ call[c].pc = "throttle" /\ ~cooling /\ GateFree(c)
    /\ IF tokens[ProcessOf[c]] >= 1
       THEN /\ gate' = [gate EXCEPT ![ProcessOf[c]] = c]
            /\ task' = [task EXCEPT ![c] = [Idle EXCEPT !.pc = "inspect", !.item = call[c].item]]
            /\ Goto(c, "await") /\ UNCHANGED slot
       ELSE slot' = slot \ {c} /\ Goto(c, "follow") /\ UNCHANGED <<task, gate>>
    /\ UNCHANGED <<queueVars, ledgerRows, cached, tokens, history>>

\* waiting_on_item reads the item; `decide` does the rest.
Look(c) ==
    /\ call[c].pc = "follow"
    /\ IF Recovered(RequestOf(c)) # NULL THEN Ends(c, Recovered(RequestOf(c)))
       ELSE IF items[call[c].item] = NULL THEN Goto(c, "reenqueue")
       ELSE call' = [call EXCEPT ![c].seen = items[call[c].item], ![c].joined = FALSE, ![c].pc = "decide"]
    /\ UNCHANGED <<queueVars, ledgerRows, cached, task, limits, history>>

AfterUnfollowed(result) == \* mutant: an item that is not claimable is not looked at
    IF result = "missing" THEN "reenqueue" ELSE "loop"
After(result) ==
    IF result = "missing" THEN "reenqueue" ELSE IF result = "notclaimed" THEN "follow" ELSE "loop"

\* The attempt has ended.
Resume(c) ==
    /\ call[c].pc = "await" /\ task[c].pc = "done"
    /\ LET result == task[c].result IN
       IF result \in {"answer", "error"} THEN Ends(c, result)
       ELSE call' = [call EXCEPT ![c].item = task[c].item, ![c].pc = After(result)]
    /\ task' = [task EXCEPT ![c] = Idle]
    /\ UNCHANGED <<queueVars, ledgerRows, cached, limits, history>>

\* The caller's future is dropped.  An attempt keeps the slot it was given.
Abandon(c) ==
    /\ call[c].pc \notin {"new", "ended", "gone"}
    /\ call' = [call EXCEPT ![c] = [NewCall(RequestOf(c)) EXCEPT !.pc = "gone"]]
    /\ slot' = IF task[c].pc = "idle" THEN slot \ {c} ELSE slot
    /\ UNCHANGED <<queueVars, ledgerRows, cached, task, tokens, gate, history>>

----------------------------------------------------------------------------
(* Attempts: run_attempt, holding_lease and settle.                        *)

Ref(c) == <<task[c].item, task[c].attempt>>
Holds(c) == Owns(task[c].item, ProcessOf[c])
Step(c, pc) == task' = [task EXCEPT ![c].pc = pc]

\* The task ends: the slot is free, and so is the gate if it was not spent.
\* Nobody awaits the task of a caller that is gone.
Leave(c, result, item) ==
    /\ task' = [task EXCEPT ![c] =
                  IF call[c].pc = "gone" THEN Idle
                  ELSE [Idle EXCEPT !.pc = "done", !.result = result, !.item = item]]
    /\ slot' = slot \ {c}
    /\ gate' = [p \in Processes |-> IF gate[p] = c THEN NULL ELSE gate[p]]

\* An expired claim is returned before it is claimed again.
Inspect(c) ==
    /\ task[c].pc = "inspect"
    /\ LET i == task[c].item
           lapsed == items[i] # NULL /\ items[i].status = "Running" /\ items[i].lapsed
           table == IF lapsed THEN Reclaimed ELSE items
           item == table[i]
           reconsiders == item # NULL /\ item.status \in {"Failed", "Dead"} /\ item.error = "lease"
       IN  /\ items' = table
           /\ task' = [task EXCEPT ![c].pc = IF reconsiders THEN "reconsider" ELSE "claim",
                                   ![c].seen = IF reconsiders THEN item ELSE NULL]
    /\ UNCHANGED <<ledgerRows, cached, cooling, call, limits, history>>

Reconsider(c) ==
    /\ task[c].pc = "reconsider"
    /\ \E renewed \in Renewals(task[c].seen) :
          LET plan == Reconsidered(task[c].item, task[c].seen, renewed)
          IN  task' = [task EXCEPT ![c].plan = plan, ![c].seen = NULL,
                                   ![c].pc = IF plan = NULL THEN "claim" ELSE "replace"]
    /\ UNCHANGED <<queueVars, ledgerRows, cached, call, limits, history>>

ReplaceClaim(c) ==
    /\ task[c].pc = "replace"
    /\ LET next == Followed(RequestOf(c), task[c].plan, task[c].item)
       IN  /\ next.item \in Ids /\ items' = next.items /\ env' = [env EXCEPT !.issued = next.issued]
           /\ Leave(c, "retry", next.item)
    /\ UNCHANGED <<ledgerRows, cached, cooling, call, tokens, sent>>

\* claim_item: reclaims, then grants unless the item is gone, not due or
\* out of attempts, the queue cools down or the in-flight cap is reached.
ClaimItem(c) ==
    /\ task[c].pc = "claim"
    /\ LET i == task[c].item
           table == IF cooling THEN items ELSE Reclaimed
           item == table[i]
           waiting == item # NULL /\ item.status \in {"Pending", "Failed"}
           full == Cardinality({j \in Ids : table[j] # NULL /\ table[j].status = "Running"}) >= MaxInFlight
           granted == waiting /\ ~full /\ ~cooling /\ ~item.later /\ item.attempt < item.max
       IN  /\ items' = IF item = NULL THEN items
                       ELSE IF granted
                       THEN [table EXCEPT ![i].status = "Running", ![i].owner = ProcessOf[c],
                                          ![i].attempt = @ + 1]
                       ELSE table
           /\ IF granted
              THEN /\ task' = [task EXCEPT ![c].pc = "recover", ![c].attempt = item.attempt + 1,
                                           ![c].seen = [item EXCEPT !.attempt = @ + 1]]
                   /\ UNCHANGED <<slot, gate>>
              ELSE Leave(c, IF item = NULL THEN "missing" ELSE "notclaimed", i)
    /\ UNCHANGED <<ledgerRows, cached, cooling, call, tokens, history>>

\* holding_lease: a renewal that finds the lease lost says so.  After the
\* request was sent nothing asks for it.
Claimed == {"recover", "reserve", "heartbeat", "refused", "charge", "boundary", "abort",
            "sending", "record", "unrecorded", "cache", "cooldown", "close"}
Renew(c) ==
    /\ task[c].pc \in {"recover", "reserve", "heartbeat", "refused", "charge", "boundary"}
    /\ ~Holds(c) /\ ~task[c].lost
    /\ task' = [task EXCEPT ![c].lost = TRUE]
    /\ UNCHANGED <<queueVars, ledgerRows, cached, call, limits, history>>

\* Another worker may have saved an answer, or left the invocation completed
\* without one; an item whose answer is known is completed.
RecoverClaim(c) ==
    /\ task[c].pc \in {"recover", "refused"}
    /\ LET known == Recovered(RequestOf(c)) IN
       IF known = "answer"
       THEN task' = [task EXCEPT ![c].pc = "close", ![c].close = "complete", ![c].result = "answer"]
       ELSE IF known = NULL /\ task[c].pc = "recover" THEN Step(c, "reserve")
       ELSE task' = [task EXCEPT ![c].pc = "abort",
                        ![c].error = IF task[c].pc = "recover" THEN "completed" ELSE @]
    /\ UNCHANGED <<queueVars, ledgerRows, cached, call, limits, history>>

\* The reservation precedes every provider call.
Reserved(c) ==
    /\ receipts' = [receipts EXCEPT ![Ref(c)] =
          [request |-> RequestOf(c), state |-> "Unknown", pre |-> FALSE, output |-> FALSE,
           used |-> IF RequestOf(c) \in Explicit THEN AttemptsUsed(RequestOf(c)) + 1 ELSE 0]]
    /\ latest' = [latest EXCEPT ![RequestOf(c)] = Ref(c)]
Reserve(c) ==
    /\ task[c].pc = "reserve"
    /\ \E f \in BOOLEAN :
          LET refusal == IF f THEN "ledger" ELSE Refusal(RequestOf(c)) IN
          /\ Fault(f)
          /\ IF refusal = NULL THEN Reserved(c) ELSE UNCHANGED ledgerRows
          /\ task' = [task EXCEPT ![c].pc = "heartbeat", ![c].reserved = refusal = NULL,
                                  ![c].error = refusal]
    /\ UNCHANGED <<queueVars, cached, call, limits, sent>>

\* The claim is checked after the reservation, whatever that answered.
Authorized(c) == TRUE \* mutant: the answer of the reservation is not looked at
Reserves(c) == task[c].reserved
HeartbeatHeld(c) == ~task[c].lost /\ Holds(c)
CheckClaim(c) ==
    /\ task[c].pc = "heartbeat"
    /\ task' = [task EXCEPT
          ![c].pc = IF ~HeartbeatHeld(c) THEN "abort" ELSE IF Reserves(c) THEN "charge" ELSE "refused",
          ![c].error = IF HeartbeatHeld(c) THEN @ ELSE "queue"]
    /\ UNCHANGED <<queueVars, ledgerRows, cached, call, limits, history>>

\* RateGrant::charge spends the budget and gives the gate back.
SpendGrant(p) ==
    /\ tokens' = [tokens EXCEPT ![p] = @ - 1]
    /\ gate' = [gate EXCEPT ![p] = NULL]
ChargeRate(c) ==
    /\ task[c].pc = "charge"
    /\ SpendGrant(ProcessOf[c])
    /\ Step(c, "boundary")
    /\ UNCHANGED <<queueVars, ledgerRows, cached, call, slot, history>>

\* settle checks the claim once more at the transport boundary, where the
\* request is sent.
Dispatch(c) ==
    /\ task[c].pc = "boundary"
    /\ task' = [task EXCEPT ![c].pc = IF HeartbeatHeld(c) THEN "sending" ELSE "abort",
                            ![c].error = IF HeartbeatHeld(c) THEN @ ELSE "queue"]
    /\ sent' = IF HeartbeatHeld(c) THEN sent \cup {<<Ref(c), task[c].seen.budget>>} ELSE sent
    /\ UNCHANGED <<queueVars, ledgerRows, cached, call, limits, env>>

\* abort_before_dispatch: nothing was sent, so the reservation is released
\* and the item stopped.
Abort(c) ==
    /\ task[c].pc = "abort"
    /\ \E f \in BOOLEAN :
          /\ f => task[c].reserved
          /\ Fault(f)
          /\ receipts' =
                IF task[c].reserved /\ ~f /\ receipts[Ref(c)].state = "Unknown"
                THEN [receipts EXCEPT ![Ref(c)].state = "Released", ![Ref(c)].pre = TRUE,
                         ![Ref(c)].used = IF RequestOf(c) \in Explicit THEN @ - 1 ELSE @]
                ELSE receipts
          /\ task' = [task EXCEPT ![c].pc = "close", ![c].close = "stop", ![c].result = "error",
                                  ![c].error = IF f THEN "ledger" ELSE @]
    /\ UNCHANGED <<queueVars, latest, cached, call, limits, sent>>

\* The provider answers, refuses, fails or runs into the timeout.
Respond(c) ==
    /\ task[c].pc = "sending"
    /\ \E o \in Outcomes : task' = [task EXCEPT ![c].pc = "record", ![c].outcome = o]
    /\ UNCHANGED <<queueVars, ledgerRows, cached, call, limits, history>>

\* The evidence is recorded first; what cannot be recorded stops the item.
StateAfter(outcome) ==
    IF outcome = "measured" THEN "Settled" ELSE IF outcome \in KnownZero THEN "Released" ELSE "Unknown"
Record(c) ==
    /\ task[c].pc = "record"
    /\ LET o == task[c].outcome
           writes == o \in Answered \cup KnownZero
       IN \E f \in BOOLEAN :
          /\ f => writes
          /\ Fault(f)
          /\ receipts' = IF f THEN receipts
                         ELSE [receipts EXCEPT ![Ref(c)].state = StateAfter(o),
                                               ![Ref(c)].output = o \in Answered]
          /\ task' = [task EXCEPT
                ![c].result = IF o \in Answered /\ ~f THEN "answer" ELSE "error",
                ![c].close = IF o \in Answered THEN "complete"
                             ELSE IF o \in Retryable THEN "retry" ELSE "stop",
                ![c].error = IF f THEN "ledger" ELSE IF o \in KnownZero THEN "provider" ELSE "reconcile",
                ![c].pc = IF f THEN "unrecorded"
                          ELSE IF o \in Answered THEN "cache"
                          ELSE IF o \in Transient THEN "cooldown" ELSE "close"]
    /\ UNCHANGED <<queueVars, latest, cached, call, limits, sent>>

\* record_success: a failed cache write does not fail the call.
StoreCache(c) ==
    /\ task[c].pc = "cache"
    /\ \E f \in BOOLEAN :
          /\ f => RequestOf(c) \in CacheOn
          /\ Fault(f)
          /\ cached' = IF f \/ RequestOf(c) \notin CacheOn THEN cached ELSE cached \cup {RequestOf(c)}
    /\ Step(c, "close")
    /\ UNCHANGED <<queueVars, ledgerRows, call, limits, sent>>

\* note_model_cooldown: without it the item may not be retried.
Cool(c) ==
    /\ task[c].pc = "cooldown"
    /\ \E f \in BOOLEAN :
          /\ Fault(f)
          /\ cooling' = (cooling \/ ~f)
          /\ task' = [task EXCEPT ![c].pc = "close", ![c].error = IF f THEN "queue" ELSE @,
                                  ![c].close = IF f THEN "stop" ELSE @]
    /\ UNCHANGED <<items, ledgerRows, cached, call, limits, sent>>

\* complete or fail_with.  Another process's claim is left alone; so is an
\* item whose write fails.
ClosedItem(item, close, error) ==
    [item EXCEPT !.owner = NULL, !.error = IF close = "complete" THEN @ ELSE error,
        !.later = close = "retry",
        !.status = CASE close = "complete" -> "Succeeded"
                     [] close = "stop" -> "Stopped"
                     [] OTHER -> IF item.attempt >= item.max THEN "Dead" ELSE "Failed"]
Close(c) ==
    /\ task[c].pc \in {"close", "unrecorded"}
    /\ LET close == IF task[c].pc = "unrecorded" THEN "stop" ELSE task[c].close
           i == task[c].item
       IN \E f \in BOOLEAN :
          LET written == Holds(c) /\ ~f
              closed == ClosedItem(items[i], close, task[c].error)
          IN /\ f => Holds(c)
             /\ Fault(f)
             /\ items' = IF written THEN [items EXCEPT ![i] = closed] ELSE items
             /\ IF close = "retry" /\ written
                THEN IF closed.status = "Failed" THEN Leave(c, "retry", i)
                     ELSE Step(c, "chain") /\ slot' = slot \ {c} /\ UNCHANGED gate
                ELSE Leave(c, IF close = "complete" THEN "answer" ELSE "error", i)
    /\ UNCHANGED <<ledgerRows, cached, cooling, call, tokens, sent>>

\* The item died of its last attempt: the next item of the request's chain,
\* unless its attempts are used up.
Chain(c) ==
    /\ task[c].pc = "chain"
    /\ LET i == task[c].item
           dead == IF items[i] = NULL THEN task[c].seen ELSE items[i]
           plan == Continued(i, dead)
       IN  IF plan = NULL THEN Leave(c, "error", i)
           ELSE /\ task' = [task EXCEPT ![c].pc = "replace", ![c].plan = plan, ![c].seen = NULL]
                /\ UNCHANGED <<slot, gate>>
    /\ UNCHANGED <<queueVars, ledgerRows, cached, call, tokens, history>>

----------------------------------------------------------------------------
(* The environment.                                                        *)

\* A lease lapses: its renewals came too late, or nobody renews it.
Renewed(i) == \E c \in Calls : /\ task[c].item = i /\ task[c].pc \in Claimed
                               /\ items[i].owner = ProcessOf[c]
LeaseLapses(i) ==
    /\ items[i] # NULL /\ items[i].status = "Running" /\ ~items[i].lapsed
    /\ items' = [items EXCEPT ![i].lapsed = TRUE]
    /\ Renewed(i) => env.troubles < MaxTroubles
    /\ env' = IF Renewed(i) THEN [env EXCEPT !.troubles = @ + 1, !.lapsed = TRUE] ELSE env
    /\ UNCHANGED <<ledgerRows, cached, cooling, call, task, limits, sent>>

RetryDue(i) ==
    /\ items[i] # NULL /\ items[i].later
    /\ items' = [items EXCEPT ![i].later = FALSE]
    /\ UNCHANGED <<ledgerRows, cached, cooling, call, task, limits, history>>

CooldownEnds ==
    /\ cooling /\ cooling' = FALSE
    /\ UNCHANGED <<items, ledgerRows, cached, call, task, limits, history>>

Refill(p) ==
    /\ tokens[p] < RateCapacity /\ tokens' = [tokens EXCEPT ![p] = @ + 1]
    /\ UNCHANGED <<queueVars, ledgerRows, cached, call, task, slot, gate, history>>

\* Ended items leave the queue: retention or eviction.
Evict(i) ==
    /\ items[i] # NULL /\ items[i].status \in Terminal /\ env.troubles < MaxTroubles
    /\ items' = [items EXCEPT ![i] = NULL]
    /\ env' = [env EXCEPT !.troubles = @ + 1, !.evicted = TRUE]
    /\ UNCHANGED <<ledgerRows, cached, cooling, call, task, limits, sent>>

\* Runtime::reconcile_spend: the operator's evidence about an attempt that
\* nobody works on any more.
Reconcile(f, state) ==
    /\ receipts[f] # NULL /\ receipts[f].state = "Unknown" /\ Trouble
    /\ state = "Released" => ~receipts[f].output
    /\ \A c \in Calls : task[c].pc \in Claimed => Ref(c) # f
    /\ receipts' = [receipts EXCEPT ![f].state = state]
    /\ UNCHANGED <<latest, queueVars, cached, call, task, limits, sent>>

\* A process ends with its calls, attempts, slots and rate budget.
Crash(p) ==
    LET mine == {c \in Calls : ProcessOf[c] = p} IN
    /\ Trouble
    /\ call' = [c \in Calls |-> IF c \in mine /\ call[c].pc \notin {"new", "ended"}
                                THEN [NewCall(RequestOf(c)) EXCEPT !.pc = "gone"] ELSE call[c]]
    /\ task' = [c \in Calls |-> IF c \in mine THEN Idle ELSE task[c]]
    /\ slot' = slot \ mine
    /\ tokens' = [tokens EXCEPT ![p] = RateCapacity] /\ gate' = [gate EXCEPT ![p] = NULL]
    /\ UNCHANGED <<queueVars, ledgerRows, cached, sent>>

CallStep(c) == \/ Start(c) \/ Enqueue(c) \/ Decide(c) \/ ReplaceItem(c) \/ Acquire(c)
               \/ CheckRate(c) \/ Look(c) \/ Resume(c)
TaskStep(c) == \/ Inspect(c) \/ Reconsider(c) \/ ReplaceClaim(c) \/ ClaimItem(c) \/ RecoverClaim(c)
               \/ Reserve(c) \/ CheckClaim(c) \/ ChargeRate(c) \/ Dispatch(c) \/ Abort(c) \/ Respond(c)
               \/ Record(c) \/ StoreCache(c) \/ Cool(c) \/ Close(c) \/ Chain(c)
ProviderNext ==
    \/ \E c \in Calls : CallStep(c) \/ TaskStep(c) \/ Renew(c) \/ Abandon(c)
    \/ \E i \in Ids : LeaseLapses(i) \/ RetryDue(i) \/ Evict(i)
    \/ \E f \in Refs, state \in {"Released", "Settled"} : Reconcile(f, state)
    \/ \E p \in Processes : Refill(p) \/ Crash(p)
    \/ CooldownEnds

\* Tasks and calls are driven, semaphore and gate are first come, first
\* served, and time passes.
ProviderFairness ==
    /\ \A c \in Calls : WF_providerVars(TaskStep(c)) /\ SF_providerVars(CallStep(c) /\ call[c].pc # "new")
    /\ \A i \in Ids : WF_providerVars(RetryDue(i)) /\ WF_providerVars(LeaseLapses(i) /\ ~Renewed(i))
    /\ \A p \in Processes : WF_providerVars(Refill(p))
    /\ WF_providerVars(CooldownEnds)
ProviderSpec == ProviderInit /\ [][ProviderNext]_providerVars
FairProviderSpec == ProviderSpec /\ ProviderFairness

----------------------------------------------------------------------------
(* Properties.                                                             *)

\* Every send is accounted for, across lapsed leases, tasks that share a
\* worker id, dropped callers and crashes: it happens under a reservation
\* that is never released as unsent, whichever task releases; an explicit
\* invocation is paid for at most once; and no request is sent again while
\* a charge for it is unknown (run_attempt, abort_before_dispatch).
SentOnce ==
    /\ \A s \in sent : receipts[s[1]] # NULL /\ ~receipts[s[1]].pre
    /\ \A r \in Requests :
        LET mine == {s[1] : s \in sent} \cap RefsOf(r)
        IN  /\ r \in Explicit => Cardinality({f \in mine : receipts[f].state # "Released"}) <= 1
            /\ \A f \in mine : receipts[f].state = "Unknown" /\ ~receipts[f].output => latest[r] = f

\* The limits hold under interleaved calls.  The attempts of an explicit
\* request, over every item of its retry chain, are counted by the ledger and
\* never exceed logical_retry_attempts.  The rate gate is held from the check
\* to the charge, so no two attempts are cleared for the same budget
\* (reserve_explicit, check_model_budget).
WithinLimits ==
    /\ \A r \in Explicit : Cardinality({s \in sent : s[1] \in RefsOf(r)}) <= LogicalAttempts
    /\ \A p \in Processes : tokens[p] >= 0

\* The attempts of a retry chain, which for an implicit request only the
\* counts in its items know.
ChainCapped == \A b \in Ids : Cardinality({s \in sent : s[2] = b}) <= LogicalAttempts

\* The counts that an implicit request's items carry keep its retry chain
\* within logical_retry_attempts, whatever calls, crashes and failed writes
\* interleave, as long as no item is evicted and no lease lapses under the
\* task that renews it (retry_state, reconsider_stopped, reenqueue_dead_item).
ChainWithinBudget == env.evicted \/ env.lapsed \/ ChainCapped

\* "The request's total provider attempts across every retry layer ... is a
\* cap" (docs/architecture/ai-runtime.md), also when a lease is lost to
\* another task.
BudgetIsCap == env.evicted \/ ChainCapped

\* A call ends, or its caller leaves: no call waits for ever on an item, a
\* slot, the rate gate, a cooldown or another call's attempt (run_queued,
\* waiting_on_item).
CallsEnd == \A c \in Calls : (call[c].pc # "new") ~> (call[c].pc \in {"ended", "gone"})
=============================================================================
