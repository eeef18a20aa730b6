# A formal model of Symbiotic Foundation

TLA+ modules that model the state-keeping parts of this repository, TLC
configurations that check them on small instances, and TLAPS proofs of what is
checked for every value of the constants. Every definition is translated from the
Rust source; `PROJECT.json` maps each one to the lines it models.

## The system

Foundation is a set of Rust crates that let an application run background jobs and
paid calls to AI providers without losing work, running it twice or paying twice.

| part | state | operations | interacts with |
|---|---|---|---|
| job store (`symbiotic-queue/src/jobs.rs`, `symbiotic-queue-sqlite/src/jobs.rs`) | one SQLite row per job and scope: state, claim generation and lease, waiting copy, result, delivery ordinal, recovery deadline | enqueue, claim, admit, heartbeat, complete, resolve, completions, ack, cancel, purge, maintain | runner, model jobs |
| job runner (`symbiotic-queue/src/runner.rs`) | worker tasks, a maintenance task, a stop channel, a supervising task | claim loop, execute a handler with heartbeats, shutdown | job store |
| work queues (`symbiotic-queue/src/{lib,memory}.rs`, `symbiotic-queue-sqlite/src/lib.rs`) | items with leases and attempts, key index, cooldowns | the `QueueBackend` calls | queued providers |
| queued providers (`symbiotic-model/src/lib.rs`) | slots, rate budget, attempts as tasks of their own | run a request through a queue item, retry, recover | work queue, ledger, response cache |
| response cache (`symbiotic-model/src/{queue_runtime,private_fs}.rs`) | one file per response | load, store, prune, purge | queued providers, runtime |
| classification (`symbiotic-model/src/classify.rs`) | none that outlives a call | validate a request, parse and normalise a reply, decide | queued providers |
| spend ledger (`symbiotic-ai-runtime/src/spend.rs`) | receipts, account balances, saved answers | reserve, release, finish, hand off, expire | model jobs, permits |
| model jobs (`symbiotic-ai-runtime/src/{jobs,execution}.rs`) | none of its own | claim and resolve a paid job in one transaction with the ledger | job store, ledger |
| runtime (`symbiotic-ai-runtime/src/{lib,maintained}.rs`) | configuration, a maintenance timer | open, bind providers, sweep | all of the above |
| credential process (`symbiotic-credential-process`) | grant revisions, permits, request failures, retained results | issue, consume, admit, finish, purge | ledger, egress clients |
| egress (`symbiotic-egress`) | none | signed requests over a framed socket | credential process |
| supervise (`symbiotic-supervise`) | one child, a window of crashes | start, restart, stop, watch parent | operating system |
| core, trace, portability, wire formats | none that outlives a call | formatting, validation, parsing | |

What is hard here: workers, crashed processes and slow callers act on rows whose
leases expired; cancellation and erasure race completions; a paid attempt may have
been charged although nobody knows; deliveries repeat until they are confirmed;
bounded pages, populations and histories are at their limits; clocks are sampled
before locks; one task's failure must stop the others; owners, threads and child processes
are torn down while somebody still uses them; files change under a directory walk. `PROJECT.json` lists these
hazards at the lines where they bite, with the properties that cover them.

## Modules

| module | models | state |
|---|---|---|
| `JobStore` | the requests of `apply_job_request` and the helpers they use | `jobs`, `now` |
| `JobRunner` | `JobRunner` over `JobStore` (it extends it) | `worker`, `maint`, `stop`, `joined`, `failed`, `up` |
| `SpendLedger` | the writes of `SqliteSpendLedger` and the saved answers | `receipts`, `used`, `policy`, `now` |
| `ModelJobs` | paid jobs: `JobStore` and `SpendLedger` (both by `INSTANCE`) in one database, with workers, a direct caller and a provider | `jobs`, `receipts`, `used`, `task`, `billed` |
| `WorkQueue` | the abstract queue: what `QueueBackend` and its conformance suite promise | `work`, `cooldown`, `clock` |
| `QueueBackend` | what both backends are given: requests, limits, the shape of an item and how a caller sees it | |
| `MemoryQueue` | the in-process `QueueBackend` | `state` (items, key index, running index, terminal window, cooldowns) |
| `SqliteQueue` | the persistent `QueueBackend` and its maintenance statements | `items`, `cooldowns` |
| `QueuedProvider` | queued calls, attempts, slots, rate gate, retry chains | `items`, `receipts`, `call`, `task`, `slot`, `tokens`, `gate` |
| `ResponseCache` | `DirResponseCache`, file operation by file operation | `disk`, `caller`, `job` |
| `Classification` | requests, replies and decisions of the classifier | `call` |
| `CredentialProcess` | permits, dispatch, request gates and failure allowances | `permits`, `failures`, `ledger`, `task`, `gates`, `clock` |
| `CredentialServer` | process and socket ownership, connections, lazily attached runners, the maintenance thread, teardown | `inst`, `conn`, `socket`, `lock`, `job` |
| `Supervise` | supervisors, their children, the shared spawner and the descriptor registry | `sup`, `procs`, `spawner`, `registry`, `fds` |
| `SpendLedgerProofs`, `SqliteQueueProofs`, `MemoryQueueProofs`, `ModelJobsProofs`, `CredentialProcessProofs` | theorems about the module of that name | |
| `JobRunnerProofs` | theorems about `JobStore` and `JobRunner` | |
| `ProcessProofs` | theorems about `CredentialServer` and `Supervise`: who owns a process, a lock, a descriptor | |
| `DirectCallProofs` | theorems about `ResponseCache` and `QueuedProvider`: calls an application makes itself | |
| `MC...` | small instances for TLC | |

### JobStore

Each request runs in one IMMEDIATE transaction with one clock sample, so each is
one action; a refused request rolls back and is a stuttering step. A row is the
record `JobRecord` with the fields of the Rust type. The requests that may be sent
are unconstrained: any generation, any delivery ordinal, any evidence, at any time,
which covers stale, repeated and reordered callers. `Next` has no notion of "the"
worker: workers and consumers appear only through what they send.

Data is abstracted: payloads, admissions, outputs and receipts are opaque values, a
request digest is the payload it hashes (the hash is taken to be injective), and the
byte counts of the encoder come from the constant operators `InputSize`, `RawSize`,
`EncodedSize` and `MetaBytes`. What of a delivery changes after its size was checked keeps a
length of its own: the ordinal, which is encoded twice (`OrdinalBytes`), and the lease
(`LeaseBytes`). `undeliverable` measures the longest of each, `Completions` the actual ones, and an
ordinal above `MaxOrdinal` (the column's `i64`) is refused. Rows of other scopes are left out: every query filters on
the scope. The order of two rows with equal times is the order of their ids, as in the
`ORDER BY` clauses. Times are stored as integer milliseconds and are naturals here. Diagnostics and `origin` are left out.

### JobRunner

A worker task is a position (`loop`, `call`, `run`, `beat`, `drain`, `finish`, `sleep`,
`ended`) and the claim it works on. A store call takes effect in one step, but what may
happen while it waits does happen: the handler may end while a heartbeat is in flight,
the lease may pass, another worker may claim. A call may also fail without effect; a
call that commits and whose reply is then lost is not modelled. A crash drops everything
but the store. Handler results carry the generation that computed them, which is what
`ClaimsFenced` looks at.

### MemoryQueue

One mutex guards the state, so a call is one action at the point where the lock is
held. The code samples the clock before it takes the lock; a call therefore works with
any time of the last `MaxLag` ticks, except where the code reads the clock again. The
order in which a hash set of expired items is walked is a choice (`Orders`). `issued` is a history
variable: which key an id was created for; callers of `enqueue_replacing` hold an item they
were once given.

### SpendLedger

Each call is one IMMEDIATE transaction and one action. `receipts` is the table in rowid
order, `used` the account balances. `Reserve` is `reserve`, `reserve_explicit` and
`reserve_handoff_in`; `Finish` is `finish` and the job path that calls
`save_recovery_in` and `finish_in`; `Release`, `AcquireHandoff`, `Constrain`,
`DiscardRecovery`, `PurgeRecovery` and `ExpireRecovery` are the functions of those
names. Repeating a call that was already recorded changes nothing in the code and is a
stuttering step, as is a refused call. Callers are unconstrained: any evidence about any
receipt may arrive at any time. `policy` stands for the job row that `job_recovery_policy`
reads; `JobChanges` lets it change as the job store does, where erasure is for ever and a
deadline never moves away. One step of `ExpireRecovery` is one statement of the loop, so
other calls interleave between batches.

An attempt is explicit when it has a frozen ceiling. Only explicit attempts are counted
and have saved answers; only they are limited to one charge. An implicit invocation may
settle and run again, which is what the code's comment on the active check says.

### WorkQueue and SqliteQueue

`WorkQueue` is the contract. An item waits, is leased, and ends; a step is described item by
item, because one call may return an expired lease and grant the same item again. It
promises exclusive leases while they run, attempt ceilings, delays and cooldowns respected
by every grant, one unended item per key, the in-flight cap, and that an ended item never
runs again. `conformance.rs` asserts these on examples; `WorkQueue` states them for all
interleavings. Both backends are shown to implement it: `MemoryKeepsContract` and
`SqliteKeepsContract` are `WorkSpec` under a refinement mapping that forgets indexes,
history, lease owners and creation times.

`QueueBackend` declares what both backends are given (requests, caps, lease times, the lag of
a clock sample), the shape of an item, and `Seen`, its image in the contract. The operations
are written twice because the code has them twice.

`SqliteQueue` takes one IMMEDIATE transaction per call. The clock sample is taken before
the write lock, up to `MaxLag` ticks earlier, except in heartbeats, the ownership check and
the cooldown check, which read it inside. The maintenance sweep is part of the module:
declaring stale active rows dead, and pruning ended ones.

### ModelJobs

The row functions and guards come from `JobStore` and `SpendLedger`; what is new is which of
them share a transaction and what happens between two. A worker reads a recovery page,
claims (job row and reservation together), prepares, renews, sends, and then completes or
releases. A direct caller may run the invocation of the same key. The provider charges when
it is called, and the caller learns only its answer. `Crash` ends every task; the same step
opens a process again whose runner ended with an error.

### QueuedProvider

A call (`call`) and the attempt it spawned (`task`) are separate, since a caller may stop
waiting while the attempt goes on. Each step is one store call or one wait. Queue and ledger
are reduced to the rows of these calls. Time is a set of environment actions (a lease
lapses, a retry is due, a cooldown ends, budget returns). All handles of a process share one
worker id, as in the code. `sent` is the history of sends: the receipt of each, and the item with
which its retry chain began. `env.lapsed` remembers that a lease lapsed under a live task,
`env.evicted` that an item was evicted. `Trouble` bounds lapsed leases under a live task, failed writes,
evictions, crashes and reconciliations together.

### CredentialProcess

`permits`, `failures` and `ledger` are one database; `issue_in`, `accept_in`,
`admit_request_in` and `finish` are one action each. A dispatch task resolves the
credential, enters the gate of its request, is admitted, acquires the handoff, sends and
finishes; a job worker takes the same path through `accept_job_in`. A digest, MAC or token is
the attempt it belongs to. The clock can be set back, the credential rotated or unreadable,
a completion fail to be written, the process restart with another configuration.

### CredentialServer

An instance is one `CredentialProcess::open`. Its `Inner`, the runner's task and the
maintenance thread hold references to the process lock and to `Maintenance`; dropping them
in every order is modelled, including a sweep that drops the last one from the maintenance
thread itself. Instances share the state directory or only the socket path. A request is
an enqueue of the one job of its scope or a completions page, the two ways a runner is
attached.

### Supervise

Each supervisor has a handle (`stop`, `drop`, `next_event`) and a lifecycle thread; all fork
through one spawner that holds the registry of write ends from the pipe to the exec. The
application opens and closes descriptors of its own, so numbers are recycled. SIGKILL is
assumed to succeed unless the call fails; periods are abstracted, a timeout may fire at any
moment. Events other than the failure are left out: nothing depends on them. A failure that
drop finds unread goes to the diagnostic queue, and is `discarded` when that is full.

### Classification

Requests and replies are enumerated; a call moves from request to refusal, reply, failure
or answers. Probabilities are exact fractions in units of 1/`Scale`, and the four
tolerances are constants; rounding of floating-point numbers is left out.

### ResponseCache

Each file operation is a step: the check and the read of a load, the temporary file and the
rename of a store, the walk and each deletion of a prune or a purge. The walk refuses a
linked or foreign component. A load that misses or is refused and a store that is refused, also
because the entry vanished between the two checks of it, change nothing and are stuttering
steps. `marked` is bookkeeping for the purge in progress.

## Runs

| run | question | instance |
|---|---|---|
| `store` | do erasure, capacity, deliverable results and the claim rules hold for handler and paid jobs in one store? | 2 rows, a handler job with 2 attempts and an early or a late recovery deadline, a paid job with renewable authority, a result that fills a page at its last delivery and one that would fit only the first, ordinals and leases of 1 or 2 bytes, 1 tick |
| `store_candidates` | does every stored paid row fit a candidate page? (violated) | a page that the enqueued row exactly fills |
| `runner` | are claims fenced, does shutdown drain, does every job end, does a cancellation reach its handler? | 2 workers, a job with 1 or 2 attempts, one failed call or crash, 2 starts |
| `ledger` | do the books balance, can every answer be found, is it deleted once expired? | 2 receipts of one or two invocations, a rebinding, a handoff, a batch of 1, an account limit |
| `queues` | do both backends implement `WorkQueue`, are the in-process indexes consistent? | each backend in turn: 2 items, 2 workers, a key with 2 attempts and an item without key, cap 1, lag 1, 2 ticks |
| `model_jobs` | is a paid job charged once, do job row and ledger agree, does erasure reach the answers and evidence the job? | 1 job, 1 worker, 1 direct caller, 2 receipts, answers that do and do not fit, a crash, 2 ticks |
| `provider` | is every send accounted for, do budgets hold, also along a retry chain, does every call end? | 2 calls of one explicit or implicit request, 2 attempts, 5 items, rate budget 1, one trouble |
| `provider_lapse` | is the logical budget a cap when a lease is lost to another task? (violated) | 3 interchangeable calls of one implicit request, every attempt failing without charge, 2 attempts, one trouble |
| `credential` | do retries follow free attempts only, is one send in doubt at most, do reported statuses stand, do dispatches end? | 2 attempts of an invocation and a job attempt with the same input, 1 allowed failure, 1 tick, 2 troubles |
| `supervise` | one child, kept pipes, stop returns with the failure, no orphans? | 2 supervisors with 1 and 0 restarts, 2 descriptors, both platforms, one failing call |
| `server` | one owner, clients served, acknowledged jobs run, teardown ends? | 2 instances with shared or separate directories, 2 connections, 2 slots and 1 slot, one trouble |
| `replies` | in the classifier, do ties, limits and normalisation come out right; in the cache, are loads whole, purges complete, sweeps exact? | each in turn: requests of up to 3 questions around both limits, every reply over 7 numbers, 6 minimums; 2 entries, 2 owners of different size, 2 callers, a prune, a purge, a crash, a link, 1 tick |

Several properties are conjunctions of what used to be asked separately. `ClaimsFenced` has
the runner's types, the result of the last claim, and attempts within the ceiling;
`StopDrains` includes that a clean end leaves nothing running; `SentOnce` includes that a
send is never given back as unsent; `RetryHistory` includes that a paid attempt is never
released; `OneChild` the restart limit; `OneOwner` the socket path and the single runner;
`SweepsExact` that a refused sweep removed nothing. `PROJECT.json` gives each property a
change of the code that breaks it, and two where two of its parts deserve one.

Why these bounds suffice for the interesting cases: leases last one tick, so they expire
within the clock's range and are granted again up to the ceiling of 2; retention is one
tick, so results expire before and after delivery, and with the later deadline a result is
delivered again after its delivery lease lapsed; the second ordinal is longer than the first,
as is the lease of one clock value; two callers of the cache meet on one entry, and at
`MaxAge` 0 a response of this tick stays and one of the last goes; each page, window, batch, cap, budget and
slot count is smaller than the population that meets it. In `provider` an item has two
attempts and so has the request, so a chain of items meets the logical budget. In
`supervise` two descriptors make numbers recur, and the window of one tick is left and
re-entered. In `server` one slot is less than two connections. Troubles are bounded by one
or two per behaviour: each kind of trouble happens in some behaviour at every point, but two
of them together only in `credential`. The `queues` run exercises one backend per behaviour;
workers are interchangeable there, and so are entry files and callers in `replies` and the calls of
`provider_lapse`, hence the symmetry (none of these runs has a liveness property; the contract is a
safety property). Deadlock is not checked where a bounded clock or id supply stops
the model or where the system may be idle; `replies` checks it.

### What the violations show

`store_candidates`: enqueue and renewal measure a paid row against the candidate page
without a receipt. Claiming adds the receipt and does not measure again, so a row that
exactly filled a page becomes unreadable for recovery.

`provider_lapse`: for an implicit request only the counts in its items know how many attempts
its retry chain has used. `reconsider_stopped` computes the count from the row it was given and
inserts a replacement that carries it. Of three calls of one request the first loses its lease
while its attempt is under way, so its item goes back with `LeaseExpired`; the second reads that
row; the third claims the item, sends, fails without charge and ends the item; then the second
replaces it, since the item is still the newest and has ended, with the count of the row it
had read. The chain makes more attempts than `logical_retry_attempts`, which
`docs/architecture/ai-runtime.md:366-368` calls a cap. Explicit requests are not affected: the ledger
counts their attempts (`WithinLimits`). Without a lost lease or an evicted item the cap holds
(`ChainWithinBudget`, in the run `provider`).

### Differences met while modelling, without a run

* A confirmed paid row keeps `kind` and is read back with `Model` execution
  (`symbiotic-queue-sqlite/src/jobs.rs:394`); the record's documentation calls `execution`
  neutral (`symbiotic-queue/src/jobs.rs:186-188`, `docs/architecture/jobs.md:82-85`).
* When the bounded history of `MemoryQueue` has evicted every item of a key, a second holder
  of a superseded item inserts as well (`memory.rs:117`), against the comment on
  `enqueue_replacing` (`symbiotic-queue/src/lib.rs:195-200`).
* A crash between the write and the rename leaves a temporary file beside the entry that
  neither prune nor purge looks at (`private_fs.rs:151`); `docs/architecture/ai-runtime.md:229`
  presents purge as the hook for erasure.
* A load whose file is pruned between the check and the read fails instead of missing
  (`queue_runtime.rs:461`).
* The maintenance thread of a dropped runtime may finish its sweep after the process lock is
  free (`maintained.rs:123`); `OneOwner` is therefore about the owner and the runner.
* A runner is attached by an enqueue, a renewed admission or an empty completions page
  (`symbiotic-credential-process/src/jobs.rs:494-526`, `604-728`);
  `docs/architecture/model-egress.md:140` says on the first job request.
* `docs/architecture/ai-runtime.md:589` names queue schema version 7; the code writes 17
  (`symbiotic-queue-sqlite/src/lib.rs:872`).

### Fairness

Every fairness condition is on a step of the program's own threads and tasks, or on time.
Nothing forces a start, a request, a crash, a failed call or an operator's intervention.

* `runner`: weak fairness of every worker step, of the maintenance task, of each join and of
  the clock: Tokio polls every ready task, store calls return, timers fire. `StopDrains` and
  `EveryJobEnds` have `HandlersEnd` as a premise (`JobHandler` requires a timeout of its
  own); `CancelObserved` has not. `EveryJobEnds` assumes that a runner that is not stopping is
  up again and again.
* `ledger`: weak fairness of the sweep, which the maintenance thread repeats on every tick of
  its timer, after a failed sweep too.
* `model_jobs`: weak fairness of the worker's steps, strong fairness of reading a recovery
  page (the worker loop begins with it on every pass), and that the host opens a process
  again whose runner ended with an error.
* `provider`: weak fairness of attempts, strong fairness of calls that wait for a slot or the
  gate (Tokio's semaphore and mutex are first come, first served), and time passes. A lease is
  only bound to lapse when no live attempt renews it.
* `credential`: weak fairness of dispatch tasks, which run on the process's own executor and
  are not cancelled when a caller leaves.
* `server`: weak fairness of threads and tasks; waits for frames are bounded by
  `io_timeout_seconds`.
* `supervise`: weak fairness of the parent's threads and of the kernel's work in a forked
  child; nothing of the stderr writer or of exits. Off Linux a child is assumed to call
  `watch_parent`.

## Proofs

`JobRunnerProofs` proves first, for every set of ids, specifications, sizes and limits allowed by
the module's assumptions, that `Spec` implies `TypeOK`, `ErasureComplete`, `CancelWins`,
`ClaimCarriesPayload`, `ConfirmedWasDelivered`, `FinalRecoverable`, `ResultsDeliverable`,
`KeyUnique`, and the action properties `FinishedStable` and `NoForbiddenClaim`.

The argument goes row by row. `IInv` says that every row is a record and satisfies
`RowInv`, the conjunction of the row forms of the invariants; none of them is inductive
alone: that erased rows hold no copies, for example, needs that an erased row is
always cancelled, which needs that only running or uncertain rows keep a cancellation.
`GoodStep(r, n)` says that replacing row `r` by `n` keeps the row invariant, the row's key,
and the two step properties. There is one lemma per row transformation (`LeaseGood`,
`CompleteGood`, `PurgeGood`, ...) and one per request (`...Write`), which shows that the
request only makes good steps. `NextWrite` collects them; the theorems follow.
`ResultsDeliverable` is not inductive, since a delivery changes what it measures: `IInv` keeps that a
stored result fits with the longest ordinal and lease, and `MeasuredIsDeliverable` shows that
no delivery up to `MaxTime` and `MaxOrdinal` is longer.

The assumptions are the named `ASSUME`s of `JobStore`: specifications are records of the
stated type, ids are a finite set of naturals, sizes are naturals, no ordinal or lease is
longer than the widest, limits are positive,
`NULL` is no value of any other kind.

`SpendLedgerProofs` proves, for any number of accounts, invocations, receipts and
ceilings, that `SpendSpec` implies `SpendTypeOK`, `Balanced`, `UnknownBlocks`,
`ChargedOnce`, `AttemptsCounted` and `AnswersFindable`, and the action properties
`EvidenceFinal` and `AnswerOnlyShrinks`. `LedgerInv` is the inductive invariant. Besides the types it
has a predicate on one row, `RowOK`, and one on the attempts of an invocation,
`ChainInv`. That an explicit invocation is charged once is not inductive: a new attempt
is compared with the latest one only, so it needs that explicit attempts form a suffix
of the chain (`ExplicitSuffix`) and that a charged one is the latest (`ChargedIsLatest`).
`StepKinds` shows that every step is one of four: it rewrites rows without touching what
is charged or counted (`PureWrite`), gives one unknown charge back (`GivesBack`),
appends an accepted reservation (`Accepts`), or leaves the ledger alone (`Passes`).
Each result is then shown for the four kinds; the two counting theorems follow how one
element enters or leaves a finite set. That a non-empty chain has a latest receipt comes
from the well-ordering of the naturals. The assumptions are the `ASSUME`s of `SpendLedger`.

`JobRunnerProofs` then proves, for any set of workers and any number of failed calls, crashes and
restarts, that `RunnerSpec` implies `ClaimsFenced`, and that it implements `JobStore`
(`RunnerSpec => Spec`): the runner changes rows only by requests of the store, so every theorem
about the store holds under it. `RunnerInv` adds to `IInv` what the fence rests on: a worker
that executes holds a generation its row has reached; no two workers hold the same
generation of a job; only a finished row has a result, which is the result of the row's own
generation. `FenceStep` says what one request may do to generation and result; there is one lemma
per row function. `RunnerAssumption` says that results stand for generations and that
the attempt ceilings fit the range of generations.

`SqliteQueueProofs` and `MemoryQueueProofs` prove that both backends implement `WorkQueue`
(`SqlSpec => SqliteKeepsContract`, `MemSpec => MemoryKeepsContract`), for any set of items, keys,
queues and workers, any cap and any lag of the clock sample. Each row moves as `ItemMoves` lets
it; what the contract says of all rows together, one unended item per key and the cap, is in
the inductive invariants `SqlInv` and `MemInv`, with the fact that a running row has a
deadline (else an expired lease could not be told from a live one) and that a waiting row has
an attempt left (else a claim could exceed the ceiling). Samples lag the clock, so what has
expired, or is due, by a sample has or is by the clock. `MemInv` contains the indexes: the running index is
the set of leased items, the terminal window lists every ended item once, and every unended
keyed item is the one its key points to. `IndexesConsistent` follows. The delicate step is
the eviction from the window: it removes an ended item and must not drop a key that a
newer item holds. The assumptions are `QueueAssumption`, `QueueNullAssumption` and
`MemoryAssumption` (the retained history is not empty).

`CredentialProcessProofs` proves, for any number of attempts, requests and credentials, every
allowance, with and without a request limit, renewal, retention and validation, and every
number of faults, that `CredSpec` implies `RetryHistory`, `SendsAdmitted` and the action property
`StatusStands`. `CredInv` has five parts beside the types. `Sound` is about one attempt: its permit,
receipt and task agree. `HistoryInv` is about the permits of one invocation: ordinals differ, the
count that each permit carries is the number of handoffs before it, and everything
before a consumed permit was released; a new attempt looks at the latest
permit only, so the counts have to be carried along. `SendsInv` ties each send to
the request key its permit holds until the outcome is known; no second unresolved permit holds
that key. `GatesInv` is the lock: the budgeted tasks of a request share one gate, and the one
that debited holds it. `BudgetInv` is the allowance: the sends held against a
request are covered by its debits, and all but the task's own by the count that a
refund would restore, which is why the gate must be held from the debit to the
settlement. The assumptions are `BoundsAssumption` (times, ordinals and revisions are
positive, an invocation has one input), `AllowanceAssumption` and `CredNullAssumption`.

`ProcessProofs` proves first, for any number of instances, directories and connections,
that `ServerSpec` implies `OneOwner`. `ServerInv` follows the references: an instance whose
`Inner` or runner still refers to the process lock holds it (`Owned`); whoever probes, removes or
binds holds the bind lock, nobody listens while a socket is being removed, and who listens owns
the path (`BindInv`); a request under way keeps its instance's `Inner` alive, and
one that starts a runner holds the lock of `job_runners` and found none (`Connected`). The last is
what bounds the runners to one: the check and the start are separate steps. The assumption
is `ServerAssumption`.

It then proves, for any number of supervisors and descriptors, every restart limit and window, both
platforms and any number of failing calls, that `SuperviseSpec` implies `OneChild`, `PipesKept` and
`FailureReported`, the safety half of `StopReturns`. `SuperviseInv` has five parts
beside the types. `QueueInv`: a supervisor waits in the spawner's queue exactly while its thread is
spawning, once. `FilesInv`: the descriptors that are write ends are the registered ones and the
one that the spawner has just opened, and each `ManagedChild` has one of its own; what a
forked child closes is the registry at the fork, and this is what the descriptor table holds then because the
spawner keeps the registry locked from the pipe to the exec. `ChildInv`: only the last child of a
supervisor may be unreaped, and only while the thread, or the spawner on its behalf, owns it.
`ReportInv` follows a failure from the thread to the caller. `RestartInv` is the restart limit:
the crashes in the window are the last of all restarted exits, and those before are too old to
share a window with the next one; without that, the limit on the pruned list would say nothing about a window that began
earlier. The assumption is `SuperviseAssumption`.

`DirectCallProofs` proves, for any number of callers, entries, owners and crashes, that `CacheSpec`
implies `LoadsWhole` and `ErasureComplete`. `CacheInv` says that entry files are whole
because only a rename puts one there (`WholeInv`), that a listed entry never turns into a link
(`ListInv`), and that each response the purge must erase is still before it: not walked yet,
listed, or the one about to be removed (`EraseInv`). The assumption is `SizesAreNatural`.

It then proves, for any number of calls, requests, items, processes and troubles, that `ProviderSpec`
implies `SentOnce` and `WithinLimits`. `ProviderInv` has these parts beside the types.
`RefInv`: a reference, an item id and an attempt number, is handed out once, so no two
attempts under way work on the same receipt although they share a worker id. `SpendOK`: the
reference of an attempt that has not sent has no send, and from its reservation until its
evidence is recorded its receipt is open and the latest of its request. `SentInv`: what was sent has
a receipt that is not released as unsent. `LedgerOf`: of the receipts of a request all but the
latest are resolved, and released if the request is explicit; the count that the latest explicit
receipt carries is the number of receipts not released as unsent (`Counted`), and within
the ceiling. `GateInv`: an attempt holds its process's gate until it has charged the rate
budget, and whoever holds it found budget. `CallOK`, `FlowOK` and `ClaimOK` say what a call and a
task may hold at each position. `SentOnce` needs all of them: whether a lapsed
task may still release its receipt depends on nobody else having sent under it. The assumptions
are `ProviderAssumption` and `NullIsNothing` (`NULL` is no call, reference, receipt or error).

`ModelJobsProofs` proves, for any number of jobs, receipts, workers, direct callers and crashes, that
`ModelSpec` implies `PaidOnce`, `ErasedAnswersGone` and `TablesAgree`. `ModelInv` has three parts.
`LedgerOK` is about receipts and charges: references are unique, what is released was not charged and
has no answer, and of the receipts of an invocation all but the latest are released. `JobsOK` is about
a row and the receipt it names (`Linked`), and says that an erased row's invocation has no answer
(`Gone`). `TasksOK` is what makes the release of a receipt safe: no two processes work on
the same receipt, its charge is unknown and nothing was charged until it is sent, and a call that
ended free of charge was not charged. None is inductive without the others: whether a worker may
record a release depends on its task, whether a new attempt may be reserved on the whole
chain, and whether an answer may be saved on the job row. The lemmas on rows (`...Row`,
`...Fields`) and on receipts (`Shrinks`, `Later`) say what each row function of `JobStore` and
`SpendLedger` assigns; `Conclude` puts the parts of a step together, and there is one `Step...` lemma
per action. Erasure clears the latest receipt of an invocation only; that this reaches
every answer follows because the others are released and never had one (`AffectedGone`). The
assumptions are `ModelAssumption` (the jobs are paid jobs, limits and lifetimes are naturals, no
worker is a direct caller) and `ModelNullAssumption`. TLC checked `ModelInv` on the instance of the
run `model_jobs` and with a second worker before it was proved.

`CancelWins`, `ClaimCarriesPayload`, `ConfirmedWasDelivered`, `FinalRecoverable`, `KeyUnique`,
`FinishedStable`, `UnknownBlocks`, `ChargedOnce`, `AttemptsCounted`, `EvidenceFinal`, `AnswerOnlyShrinks` and the two
type invariants have a theorem and no run of their own: the theorem covers every instance a
run could.

Only model-checked:

* liveness, which is out of the prover's reach: `StopDrains`, `EveryJobEnds`, `CancelObserved`,
  `ExpiredAnswersGo`, `EvidenceReachesJob`, `CallsEnd`, `DispatchEnds`, `StopReturns` (but for its
  safety half), `OrphansEnd`, `ClientsServed`, `AnsweredRuns`, `TeardownEnds`;
* `WithinCapacity` and `SweepsExact`, which sum over finite sets, and the properties of
  `Classification`, which fold over answers: both need induction over data;
* `ChainWithinBudget`, whose count is carried from item to item of a chain, by every row that a
  call has read and every replacement it plans; the invariant that would bound it has to follow
  stale copies of rows, and is not stated here.

## Not modelled

Other scopes of one store; statement-level SQLite failures inside a transaction (they roll
back); the encoding of rows; a store call that commits and whose reply is lost in `JobRunner`;
HTTP transport, wire formats, cryptography and authentication of frames; startup validation
of configurations; floating-point rounding; identifiers, diagnostics, traces and portability
bundles, which are pure functions over documents. `PROJECT.json` lists every part with what is
left out of it.

## Plan

Modules were written in the order of the table above: the stores first, then what composes them, then
the processes around them. What is left, in order of worth:

1. `ChainWithinBudget` as a theorem, and without the premise on lapsed leases once a replacement
   is conditional on the attempt the count was taken at.
2. The first conjunct of `SweepsExact` (a refused sweep removed nothing), which needs no sum.
3. The finer parts of `PROJECT.json`'s `partly` components: opening and validating
   configurations in the credential process and the runtime.
