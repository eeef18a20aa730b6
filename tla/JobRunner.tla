----------------------------- MODULE JobRunner -----------------------------
(***************************************************************************)
(* The generic handler runner over the job store: worker tasks that claim, *)
(* run a handler while heartbeating and complete; the maintenance task;    *)
(* the supervisor that joins them and stops everyone on the first error;   *)
(* shutdown, process crash and restart.                                    *)
(*                                                                         *)
(* A store call is one step, taken where the transaction commits; what may *)
(* happen while a call waits is a state of its own ("call", "beat",        *)
(* "drain", "finish").  A call may also fail without effect (Busy or       *)
(* storage errors).  A handler's result carries the generation that        *)
(* computed it.  Delivery and confirmation only touch final rows and are   *)
(* left to JobStore.                                                       *)
(***************************************************************************)
EXTENDS JobStore

CONSTANTS
    Workers,        \* the worker tasks of one runner
    Kind,           \* the handler kind the runner serves
    MaxTroubles,    \* bound on failed store calls and process crashes together
    MaxStarts       \* bound on runner starts

VARIABLES
    worker,         \* per worker task: position, claim, handler and token
    maint,          \* the maintenance task: "loop", "ended", or "failed"
    stop,           \* the stop channel
    joined,         \* tasks the supervisor has joined
    failed,         \* the supervisor has collected an error
    up,             \* a JobRunner exists in a live process
    entered,        \* history: handler entries per job
    faults, crashes, starts

runnerVars == <<worker, maint, stop, joined, failed, up, entered>>
bounds == <<faults, crashes, starts>>
allVars == <<jobs, now, worker, maint, stop, joined, failed, up, entered,
             faults, crashes, starts>>

ASSUME RunnerAssumption ==
    /\ Kind \in Kinds /\ IsFiniteSet(Workers) /\ "maint" \notin Workers
    /\ {MaxTroubles, MaxStarts} \subseteq Nat
    \* A result stands for the generation that computed it.
    /\ Outputs = 1..MaxToken /\ \A s \in Specs : s.max_attempts <= MaxToken

Outcome == {"ok", "toolarge", "failure", "panic"}
Executing == {"run", "beat", "drain", "finish"}
Position == Executing \cup {"loop", "call", "sleep", "ended"}

Worker ==
    [pc : Position, job : Ids \cup {NULL}, gen : Nat,
     outcome : Outcome \cup {NULL}, cancel : BOOLEAN, fenced : BOOLEAN,
     err : BOOLEAN]
Fresh == [pc |-> "loop", job |-> NULL, gen |-> 0, outcome |-> NULL,
          cancel |-> FALSE, fenced |-> FALSE, err |-> FALSE]
Ended(bad) == [Fresh EXCEPT !.pc = "ended", !.err = bad]

Tasks == Workers \cup {"maint"}
Finished == up /\ joined = Tasks

RunnerInit ==
    /\ Init
    /\ worker = [w \in Workers |-> Fresh] /\ maint = "loop"
    /\ stop = FALSE /\ joined = {} /\ failed = FALSE /\ up = FALSE
    /\ entered = [i \in Ids |-> 0]
    /\ faults = 0 /\ crashes = 0 /\ starts = 0

----------------------------------------------------------------------------
(* The worker loop.                                                        *)

At(w, pc) == up /\ worker[w].pc = pc
Move(w, r) == worker' = [worker EXCEPT ![w] = r]
OnlyWorker == UNCHANGED <<maint, stop, joined, failed, up>>
NoStore == UNCHANGED <<jobs, now>>

\* Failures come early enough for the leases they orphan to expire within
\* the bounded clock.
LeaseWillPass == now + ClaimLease <= MaxTime

\* A store call that returns an error and changed nothing.
CallFails == /\ faults + crashes < MaxTroubles /\ LeaseWillPass
             /\ faults' = faults + 1 /\ UNCHANGED <<crashes, starts>>

\* The head of the loop: leave on stop, otherwise send a claim.
LoopHead(w) ==
    /\ At(w, "loop")
    /\ Move(w, IF stop THEN Ended(FALSE) ELSE [Fresh EXCEPT !.pc = "call"])
    /\ NoStore /\ OnlyWorker /\ UNCHANGED <<entered, bounds>>

\* execute: the handler is entered with the claim's payload.  A claim that is
\* not a handler's, or has no payload, ends the worker with an error.
Execute(w, i, claim) ==
    IF claim.execution = "Handler" /\ claim.payload # NULL
    THEN /\ Move(w, [Fresh EXCEPT !.pc = "run", !.job = i, !.gen = claim.generation])
         /\ entered' = [entered EXCEPT ![i] = @ + 1]
    ELSE Move(w, Ended(TRUE)) /\ UNCHANGED entered

ClaimReply(w) ==
    /\ At(w, "call")
    /\ \/ /\ \E i \in Ids : ClaimGranted({Kind}, i) /\ Execute(w, i, jobs'[i])
          /\ UNCHANGED bounds
       \/ /\ ClaimNone({Kind})
          /\ Move(w, [Fresh EXCEPT !.pc = "sleep"]) /\ UNCHANGED <<entered, bounds>>
       \/ /\ ClaimPage({Kind}) = {} /\ NoStore
          /\ Move(w, [Fresh EXCEPT !.pc = "sleep"]) /\ UNCHANGED <<entered, bounds>>
       \/ /\ CallFails /\ NoStore
          /\ Move(w, Ended(TRUE)) /\ UNCHANGED entered
    /\ OnlyWorker

\* The poll period elapses or the stop channel changes.
Wake(w) ==
    /\ At(w, "sleep") /\ Move(w, Fresh)
    /\ NoStore /\ OnlyWorker /\ UNCHANGED <<entered, bounds>>

\* The heartbeat timer fires while the handler runs; none after the fence.
BeatSent(w) ==
    /\ At(w, "run") /\ ~worker[w].fenced
    /\ Move(w, [worker[w] EXCEPT !.pc = "beat"])
    /\ NoStore /\ OnlyWorker /\ UNCHANGED <<entered, bounds>>

\* The handler returns, or panics, in any of its ways.
HandlerEnds(w) ==
    /\ At(w, "run") \/ At(w, "beat")
    /\ \E o \in Outcome :
          Move(w, [worker[w] EXCEPT !.outcome = o,
                      !.pc = IF @ = "beat" THEN "drain" ELSE "finish"])
    /\ NoStore /\ OnlyWorker /\ UNCHANGED <<entered, bounds>>

\* observe_heartbeat: a live claim reports the cancellation intent; a stale
\* one is an error that also cancels the token and ends heartbeating.
ObservedQuiet(r, live) == \* mutant: the token is never cancelled
    [r EXCEPT !.pc = IF @ = "drain" THEN "finish" ELSE "run",
              !.fenced = @ \/ ~live, !.err = @ \/ ~live]
Observed(r, live) ==
    [r EXCEPT !.pc = IF @ = "drain" THEN "finish" ELSE "run",
              !.cancel = @ \/ ~live \/ jobs[r.job].cancel_requested
                           \/ jobs[r.job].purged,
              !.fenced = @ \/ ~live,
              !.err = @ \/ ~live]

BeatReply(w) ==
    /\ At(w, "beat") \/ At(w, "drain")
    /\ LET r == worker[w] IN
         \/ /\ Heartbeat(r.job, r.gen)
            /\ Move(w, Observed(r, TRUE)) /\ UNCHANGED bounds
         \/ /\ ~LiveClaim(jobs[r.job], r.gen) /\ NoStore
            /\ Move(w, Observed(r, FALSE)) /\ UNCHANGED bounds
         \/ /\ CallFails /\ NoStore
            /\ Move(w, [r EXCEPT !.pc = IF @ = "drain" THEN "finish" ELSE "run",
                                 !.err = TRUE])
    /\ OnlyWorker /\ UNCHANGED entered

\* What execute reports: an oversized result and a panic are failures of the
\* job and errors of the worker; an ordinary failure only the former.
Reported(r) == IF r.outcome = "ok" THEN "Succeeded" ELSE "Failed"
ReportedOutput(r) == IF r.outcome = "ok" THEN r.gen ELSE NULL
Faulty(r) == r.err \/ r.outcome \in {"toolarge", "panic"}

\* The store ended the job but kept no result that was due to be kept.
ResultRefused(r, row) == /\ ReportedOutput(r) # NULL /\ row.output = NULL
                         /\ ~row.purged /\ ~row.result_expired

\* After execute returns Ok the worker loops; after Err it ends.
Leave(w, bad) == Move(w, IF bad THEN Ended(TRUE) ELSE Fresh)

CompleteReply(w) ==
    /\ At(w, "finish")
    /\ LET r == worker[w] IN
         \/ /\ Complete(r.job, r.gen, Reported(r), ReportedOutput(r), NULL)
            /\ Leave(w, Faulty(r) \/ ResultRefused(r, jobs'[r.job]))
            /\ UNCHANGED bounds
         \/ /\ ~LiveClaim(jobs[r.job], r.gen) /\ NoStore
            /\ Leave(w, TRUE) /\ UNCHANGED bounds
         \/ CallFails /\ NoStore /\ Leave(w, TRUE)
    /\ OnlyWorker /\ UNCHANGED entered

----------------------------------------------------------------------------
(* Maintenance, supervision, shutdown, crash and restart.                  *)

MaintainPass ==
    /\ up /\ maint = "loop"
    /\ \/ /\ stop /\ maint' = "ended" /\ NoStore /\ UNCHANGED bounds
       \/ /\ ~stop /\ Maintain /\ UNCHANGED <<maint, bounds>>
       \/ /\ ~stop /\ CallFails /\ maint' = "failed" /\ NoStore
    /\ UNCHANGED <<worker, stop, joined, failed, up, entered>>

TaskEnded(t) == IF t = "maint" THEN maint # "loop" ELSE worker[t].pc = "ended"
TaskFailed(t) == IF t = "maint" THEN maint = "failed" ELSE worker[t].err

\* Mutant: an error of one task does not stop the others.
JoinQuietly(t) ==
    /\ up /\ t \notin joined /\ TaskEnded(t)
    /\ joined' = joined \cup {t}
    /\ failed' = (failed \/ TaskFailed(t))
    /\ UNCHANGED <<jobs, now, worker, maint, stop, up, entered, bounds>>

\* The supervisor joins one ended task; any error so far stops everyone.
Join(t) ==
    /\ up /\ t \notin joined /\ TaskEnded(t)
    /\ joined' = joined \cup {t}
    /\ failed' = (failed \/ TaskFailed(t))
    /\ stop' = (stop \/ failed')
    /\ UNCHANGED <<jobs, now, worker, maint, up, entered, bounds>>

\* shutdown, or dropping the JobRunner.
Shutdown ==
    /\ up /\ ~stop /\ stop' = TRUE
    /\ UNCHANGED <<jobs, now, worker, maint, joined, failed, up, entered, bounds>>

\* A new runner, once the last one has finished or its process died.
Start ==
    /\ ~up \/ Finished
    /\ starts < MaxStarts /\ starts' = starts + 1
    /\ worker' = [w \in Workers |-> Fresh] /\ maint' = "loop"
    /\ stop' = FALSE /\ joined' = {} /\ failed' = FALSE /\ up' = TRUE
    /\ UNCHANGED <<jobs, now, entered, faults, crashes>>

\* The process dies with everything in memory; the store survives.
Crash ==
    /\ up /\ faults + crashes < MaxTroubles /\ LeaseWillPass /\ crashes' = crashes + 1
    /\ worker' = [w \in Workers |-> Fresh] /\ maint' = "loop"
    /\ stop' = FALSE /\ joined' = {} /\ failed' = FALSE /\ up' = FALSE
    /\ UNCHANGED <<jobs, now, entered, faults, starts>>

\* Submissions, cancellation, erasure and time go on around the runner.
Environment ==
    /\ \/ \E batch \in SUBSET Specs : Enqueue(batch)
       \/ \E i \in Rows : CancelIds({i})
       \/ \E owner \in Owners : OwnedBy(owner) # {} /\ PurgeOwner(owner)
       \/ Tick
    /\ UNCHANGED <<runnerVars, bounds>>

WorkerTask(w) ==
    \/ LoopHead(w) \/ ClaimReply(w) \/ Wake(w) \/ BeatSent(w)
    \/ HandlerEnds(w) \/ BeatReply(w) \/ CompleteReply(w)

RunnerNext ==
    \/ \E w \in Workers : WorkerTask(w)
    \/ MaintainPass
    \/ \E t \in Tasks : Join(t)
    \/ Shutdown \/ Start \/ Crash \/ Environment

RunnerSpec == RunnerInit /\ [][RunnerNext]_allVars

\* Tokio runs every ready task; store calls return; timers fire; time passes.
\* Start, Crash, Shutdown, failed calls and the environment's requests are
\* never forced.
Fairness ==
    /\ \A w \in Workers :
          /\ WF_allVars(LoopHead(w) \/ Wake(w) \/ ClaimReply(w) \/ BeatReply(w)
                           \/ CompleteReply(w))
          /\ WF_allVars(BeatSent(w))
    /\ WF_allVars(MaintainPass)
    /\ \A t \in Tasks : WF_allVars(Join(t))
    /\ WF_allVars(Tick /\ UNCHANGED <<runnerVars, bounds>>)

\* A handler may run for as long as it likes.
FairRunnerSpec == RunnerSpec /\ Fairness

\* Handlers finish under their own timeout, as JobHandler asks of them.
HandlersEnd == \A w \in Workers : WF_allVars(HandlerEnds(w))

----------------------------------------------------------------------------
(* Properties.                                                             *)

\* The types of the runner's state over a well-typed store.
RunnerTypeOK ==
    /\ TypeOK
    /\ worker \in [Workers -> Worker] /\ maint \in {"loop", "ended", "failed"}
    /\ {stop, failed, up} \subseteq BOOLEAN /\ joined \subseteq Tasks
    /\ entered \in [Ids -> Nat] /\ faults + crashes <= MaxTroubles /\ starts \in 0..MaxStarts

Busy(w) == up /\ worker[w].pc \in Executing

\* The claim fence, across crashes and restarts: a stored result was computed
\* by the last claim of its job, however late an older worker answers; no two
\* executions share a claim generation; and a handler is never entered more
\* often than the job's frozen ceiling (JobHandler's contract).
ClaimsFenced ==
    /\ RunnerTypeOK
    /\ \A i \in Rows : jobs[i].output # NULL => jobs[i].output = jobs[i].generation
    /\ \A v, w \in Workers : Busy(v) /\ Busy(w) /\ worker[v].job = worker[w].job
            /\ worker[v].gen = worker[w].gen => v = w
    /\ \A i \in Rows : entered[i] <= jobs[i].generation
            /\ jobs[i].generation <= jobs[i].max_attempts

\* Shutdown drains (start_owned).  When supervision ends without an error no
\* job is left Running, unless a crashed process left it so; and if handlers
\* end, shutdown returns and one task's error ends the whole runner: nobody
\* waits for a worker that never comes.
CleanEndDrained ==
    Finished /\ ~failed /\ crashes = 0 /\ starts = 1 =>
        \A i \in Rows : jobs[i].state # "Running"
StopDrains ==
    /\ []CleanEndDrained
    /\ HandlersEnd =>
         (up /\ (stop \/ \E t \in Tasks : TaskEnded(t))) ~> (Finished \/ ~up)

\* A cancellation, or a lost claim, reaches the token of a handler that never
\* returns by itself (observe_heartbeat).
CancelObserved ==
    \A w \in Workers, i \in Ids :
        (/\ At(w, "run") /\ worker[w].job = i
         /\ jobs[i].cancel_requested \/ jobs[i].generation # worker[w].gen)
        ~> (worker[w].cancel \/ worker[w].pc \notin {"run", "beat"} \/ ~up)

\* Every submitted job ends, across lost claims, failed calls and a crash,
\* as long as handlers end and a runner that is not stopping is up again and
\* again.
EveryJobEnds ==
    HandlersEnd /\ []<>(up /\ ~stop) =>
        \A i \in Ids : (jobs[i] # NULL) ~> (jobs[i] # NULL /\ Final(jobs[i]))
=============================================================================
